----------------------------- MODULE ForthProofs -----------------------------
(***************************************************************************)
(* Proofs about the virtual machine of rv4th.c, for every text and every   *)
(* size of its arrays: whatever is typed, and whatever it compiles to.     *)
(***************************************************************************)
EXTENDS Forth, SequenceTheorems, WellFoundedInduction, TLAPS

-----------------------------------------------------------------------------
(* lookupToken *)

(* A non-empty set of naturals has a least element. *)
LEMMA LeastElement ==
  ASSUME NEW T, T \subseteq Nat, T # {}
  PROVE  \E x \in T : \A y \in T : x <= y
<1> DEFINE R == OpToRel(<, Nat)
<1>1. IsWellFoundedOn(R, Nat) BY NatLessThanWellFounded
<1>2. \A x, y \in Nat : x < y => <<x, y>> \in R BY DEF OpToRel
<1> HIDE DEF R
<1>3. PICK x \in T : \A y \in T : ~ (<<y, x>> \in R) BY <1>1, WFMin
<1>4. ASSUME NEW y \in T PROVE x <= y
  <2>1. x \in Nat /\ y \in Nat OBVIOUS
  <2>2. ~ (y < x) BY <1>2, <1>3, <2>1
  <2> QED BY <2>1, <2>2
<1> QED BY <1>4

(* What the search of a list answers: 0, or the first entry of the word. *)
LEMMA LookupIs ==
  ASSUME NEW w, NEW s, Len(s) \in Nat
  PROVE  \/ lookupToken(w, s) = 0 /\ \A i \in 1..Len(s) : s[i] # w
         \/ /\ lookupToken(w, s) \in 1..Len(s) /\ s[lookupToken(w, s)] = w
            /\ \A i \in 1..Len(s) : s[i] = w => lookupToken(w, s) <= i
<1> DEFINE T == {i \in 1..Len(s) : s[i] = w}
           least == CHOOSE x \in T : \A y \in T : x <= y
<1>1. lookupToken(w, s) = IF T # {} THEN least ELSE 0 BY DEF lookupToken, SelectInSeq, Min
<1>2. CASE T = {} BY <1>1, <1>2
<1>3. CASE T # {}
  <2>1. \E x \in T : \A y \in T : x <= y
    <3> HIDE DEF T
    <3>1. T \subseteq Nat BY DEF T
    <3> QED BY <1>3, <3>1, LeastElement
  <2>2. least \in T /\ \A y \in T : least <= y BY <2>1
  <2> HIDE DEF least
  <2> QED BY <1>1, <1>3, <2>2
<1> QED BY <1>2, <1>3

(* A word added to a list changes the answer only for that word, and only if *)
(* it was not there.                                                         *)
LEMMA LookupLonger ==
  ASSUME NEW S, NEW w, NEW v \in S, NEW s \in Seq(S)
  PROVE  lookupToken(w, Append(s, v)) =
           IF lookupToken(w, s) # 0 THEN lookupToken(w, s)
           ELSE IF w = v THEN Len(s) + 1 ELSE 0
<1> DEFINE t == Append(s, v)
<1>1. Len(s) \in Nat /\ Len(t) = Len(s) + 1 /\ t[Len(s) + 1] = v
      /\ \A i \in 1..Len(s) : t[i] = s[i]
  BY AppendProperties, LenProperties
<1> HIDE DEF t
<1>2. \/ lookupToken(w, s) = 0 /\ \A i \in 1..Len(s) : s[i] # w
      \/ /\ lookupToken(w, s) \in 1..Len(s) /\ s[lookupToken(w, s)] = w
         /\ \A i \in 1..Len(s) : s[i] = w => lookupToken(w, s) <= i
  BY <1>1, LookupIs
<1>3. \/ lookupToken(w, t) = 0 /\ \A i \in 1..Len(t) : t[i] # w
      \/ /\ lookupToken(w, t) \in 1..Len(t) /\ t[lookupToken(w, t)] = w
         /\ \A i \in 1..Len(t) : t[i] = w => lookupToken(w, t) <= i
  BY <1>1, LookupIs
<1> QED BY <1>1, <1>2, <1>3 DEF t

-----------------------------------------------------------------------------
(* The table of programs. *)

LEMMA TablesAreTyped ==
  /\ MonitorCode \in Seq(Int) /\ ColonCode \in Seq(Int)
  /\ SemicolonCode \in Seq(Int) /\ VarCode \in Seq(Int)
<1>1. MonitorCode \in Seq(Int) BY DEF MonitorCode
<1>2. ColonCode \in Seq(Int) BY DEF ColonCode
<1>3. SemicolonCode \in Seq(Int) BY DEF SemicolonCode
<1>4. VarCode \in Seq(Int) BY DEF VarCode
<1> QED BY <1>1, <1>2, <1>3, <1>4

LEMMA TableIsTyped == progBi \in Seq(Int) /\ Len(progBi) \in Nat
<1>1. progBi \in Seq(Int) BY TablesAreTyped, ConcatProperties DEF progBi
<1> QED BY <1>1, LenProperties

LEMMA CellIsTyped ==
  ASSUME prog \in Seq(Int), NEW a \in Int, Readable(a)
  PROVE  Cell(a) \in Int
<1>1. CASE InTable(a)
  <2> DEFINE n == a - BUILTIN_INTERP_OFFSET + 1
  <2>1. n \in 1..Len(progBi) BY <1>1, TableIsTyped DEF InTable, BUILTIN_INTERP_OFFSET
  <2>2. Cell(a) = progBi[n] BY <1>1 DEF Cell
  <2> HIDE DEF n
  <2>3. progBi[n] \in Int BY <2>1, TableIsTyped, ElementOfSeq
  <2> QED BY <2>2, <2>3
<1>2. CASE ~ InTable(a)
  <2>1. a \in 1..Len(prog) BY <1>2 DEF Readable
  <2>2. prog[a] \in Int BY <2>1, ElementOfSeq
  <2> QED BY <1>2, <2>2 DEF Cell
<1> QED BY <1>1, <1>2

-----------------------------------------------------------------------------
(* What the operations on a stack leave. *)

LEMMA ChoppedIs ==
  ASSUME NEW s \in Seq(Int), NEW n \in 0..Len(s)
  PROVE  Chopped(s, n) \in Seq(Int) /\ Len(Chopped(s, n)) = Len(s) - n
<1>1. Len(s) \in Nat BY LenProperties
<1>2. /\ Len(s) - n \in 0..Len(s)
      /\ \A i \in 1..(Len(s) - n) : i \in 1..Len(s)
  BY <1>1
<1>3. CASE Len(s) - n >= 1 BY <1>1, <1>2, <1>3, SubSeqProperties DEF Chopped
<1>4. CASE Len(s) - n = 0 BY <1>1, <1>4, SubSeqProperties DEF Chopped
<1> QED BY <1>1, <1>2, <1>3, <1>4

LEMMA TopIs ==
  ASSUME NEW s \in Seq(Int), Len(s) >= 1
  PROVE  /\ Last(s) \in Int
         /\ Front(s) \in Seq(Int) /\ Len(Front(s)) = Len(s) - 1
         /\ Popped(s) \in Seq(Int) /\ Len(Popped(s)) \in 1..Len(s)
         /\ Len(s) > 1 => Len(Popped(s)) = Len(s) - 1
<1>1. Len(s) \in Nat BY LenProperties
<1>2. Last(s) \in Int BY <1>1, ElementOfSeq DEF Last
<1>3. Front(s) \in Seq(Int) /\ Len(Front(s)) = Len(s) - 1
  <2>1. Front(s) = Chopped(s, 1) BY DEF Front, Chopped
  <2>2. 1 \in 0..Len(s) BY <1>1
  <2> QED BY <2>1, <2>2, ChoppedIs
<1> QED BY <1>1, <1>2, <1>3 DEF Popped

LEMMA OnTopIs ==
  ASSUME NEW s \in Seq(Int), Len(s) >= 1, NEW x \in Int
  PROVE  OnTop(s, x) \in Seq(Int) /\ Len(OnTop(s, x)) = Len(s)
<1>1. Len(s) \in Nat BY LenProperties
<1>2. Front(s) \in Seq(Int) /\ Len(Front(s)) = Len(s) - 1 BY TopIs
<1> QED BY <1>1, <1>2, AppendProperties DEF OnTop

LEMMA RolledIs ==
  ASSUME NEW s \in Seq(Int), NEW n \in 0..(Len(s) - 1)
  PROVE  Rolled(s, n) \in Seq(Int) /\ Len(Rolled(s, n)) = Len(s)
<1> DEFINE k == Len(s) - n
           before == SubSeq(s, 1, k - 1)
           after == SubSeq(s, k + 1, Len(s))
<1>1. Len(s) \in Nat /\ k \in 1..Len(s) BY LenProperties
<1> HIDE DEF k
<1>2. before \in Seq(Int) /\ Len(before) = k - 1
  BY <1>1, SubSeqProperties
<1>3. after \in Seq(Int) /\ Len(after) = Len(s) - k
  BY <1>1, SubSeqProperties
<1>4. Rolled(s, n) = Append(before \o after, s[k])
  BY DEF Rolled, RemoveAt, k
<1> HIDE DEF before, after
<1>5. before \o after \in Seq(Int) /\ Len(before \o after) = Len(s) - 1
  BY <1>1, <1>2, <1>3, ConcatProperties
<1>6. s[k] \in Int BY <1>1, ElementOfSeq
<1> QED BY <1>1, <1>4, <1>5, <1>6, AppendProperties

LEMMA ResultsAreTyped ==
  ASSUME NEW a \in Int, NEW b \in Int
  PROVE  /\ \A w \in Unary : UnaryResult(w, a) \in Int
         /\ \A w \in Binary : BinaryResult(w, a, b) \in Int
         /\ b # 0 => Quotient(a, b) \in Int /\ Remainder(a, b) \in Int
<1>1. \A w \in Unary : UnaryResult(w, a) \in Int
  BY DEF Unary, UnaryResult, Flag, Halved
<1>2. \A w \in Binary : BinaryResult(w, a, b) \in Int
  BY DEF Binary, BinaryResult, Flag
<1>3. ASSUME b # 0 PROVE Quotient(a, b) \in Int /\ Remainder(a, b) \in Int
  <2> DEFINE m == IF a < 0 THEN -a ELSE a
             n == IF b < 0 THEN -b ELSE b
             q == m \div n
  <2>1. m \in Int /\ n \in Int /\ n > 0 BY <1>3
  <2> HIDE DEF m, n
  <2>2. q \in Int BY <2>1
  <2>3. Quotient(a, b) = IF (a < 0) = (b < 0) THEN q ELSE -q BY DEF Quotient, m, n
  <2> HIDE DEF q
  <2>4. Quotient(a, b) \in Int BY <2>2, <2>3
  <2>5. b * Quotient(a, b) \in Int BY <2>4
  <2> QED BY <2>4, <2>5 DEF Remainder
<1> QED BY <1>1, <1>2, <1>3

-----------------------------------------------------------------------------
(* What a step that does not stray may rely on. *)

LEMMA FetchIsTyped ==
  ASSUME ForthTypeOK, ~ Outside
  PROVE  opcode \in Int /\ pc \in Int
<1>1. CASE nested # 0 BY <1>1 DEF opcode, pc, ForthTypeOK
<1>2. CASE nested = 0
  <2>1. Readable(progCounter) BY <1>2 DEF Outside
  <2>2. Cell(progCounter) \in Int BY <2>1, CellIsTyped DEF ForthTypeOK
  <2> QED BY <1>2, <2>2 DEF opcode, pc, ForthTypeOK
<1> QED BY <1>1, <1>2

LEMMA MathRoom ==
  ASSUME ForthTypeOK, ~ Outside
  PROVE  /\ Word \in {"+", "-", "*", "/%", "swap", "over", "tuck"} => Len(mathStack) >= 2
         /\ Word = "*/" => Len(mathStack) >= 3
         /\ Word \in {"roll", "pick"} => TOS >= 0 /\ TOS + 2 <= Len(mathStack)
         /\ Word \in {"num", "lu"} => Len(mathStack) + 2 <= MATH_STACK_SIZE
         /\ Word \in {"dup", "over", "tuck", "push0", "push1", "depth", "h@",
                      "pushn", "i", "j", "k"} => Len(mathStack) + 1 <= MATH_STACK_SIZE
<1>1. Len(mathStack) \in Nat /\ MATH_STACK_SIZE \in Nat /\ TOS \in Int
  BY ForthAssumption, TopIs DEF ForthTypeOK, TOS
<1>2. ~ (MathReach > Len(mathStack)) /\ ~ (Len(mathStack) + MathGrowth > MATH_STACK_SIZE)
  BY DEF Outside
<1>3. Word \in {"roll", "pick"} => TOS >= 0
  <2>1. ~ (Word \in {"roll", "pick", "ndrop"} /\ TOS < 0) BY DEF Outside
  <2> QED BY <1>1, <2>1
<1>4. CASE Word \in {"+", "-", "*", "/%", "swap", "over", "tuck"}
  <2>1. MathReach = 2 BY <1>4 DEF MathReach
  <2>2. Word \notin {"num", "lu", "*/", "roll", "pick"} BY <1>4
  <2>3. MathGrowth = IF Word \in {"over", "tuck"} THEN 1 ELSE 0 BY <1>4 DEF MathGrowth
  <2> QED BY <1>1, <1>2, <1>4, <2>1, <2>2, <2>3
<1>5. CASE Word = "*/"
  <2>1. MathReach = 3 BY <1>5 DEF MathReach
  <2> QED BY <1>1, <1>2, <1>5, <2>1
<1>6. CASE Word \in {"roll", "pick"}
  <2>1. MathReach = TOS + 2 BY <1>6 DEF MathReach
  <2> QED BY <1>1, <1>2, <1>3, <1>6, <2>1
<1>7. CASE Word \in {"num", "lu"}
  <2>1. MathGrowth = 2 BY <1>7 DEF MathGrowth
  <2> QED BY <1>1, <1>2, <1>7, <2>1
<1>8. CASE Word \in {"dup", "push0", "push1", "depth", "h@", "pushn", "i", "j", "k"}
  <2>1. MathGrowth = 1 BY <1>8 DEF MathGrowth
  <2> QED BY <1>1, <1>2, <1>8, <2>1
<1> QED BY <1>4, <1>5, <1>6, <1>7, <1>8

LEMMA AddrRoom ==
  ASSUME ForthTypeOK, ~ Outside
  PROVE  /\ Word \in {";", "until"} => Len(addrStack) >= 1
         /\ Word = "i" => Len(addrStack) >= 2
         /\ Word \in {"loop", "+loop"} => Len(addrStack) >= 3
         /\ Word = "j" => Len(addrStack) >= 5
         /\ Word = "k" => Len(addrStack) >= 8
         /\ ~ BuiltIn \/ Word \in {"begin", "exec"} => Len(addrStack) + 1 < ADDR_STACK_SIZE
         /\ Word = "do" => Len(addrStack) + 3 < ADDR_STACK_SIZE
<1>1. Len(addrStack) \in Nat /\ ADDR_STACK_SIZE \in Nat
  BY ForthAssumption DEF ForthTypeOK
<1>2. ~ (AddrReach > Len(addrStack)) /\ ~ (Len(addrStack) + AddrGrowth >= ADDR_STACK_SIZE)
  BY DEF Outside
<1>3. AddrGrowth \in Nat /\ AddrReach \in Nat BY DEF AddrGrowth, AddrReach
<1>4. AddrReach <= Len(addrStack) /\ Len(addrStack) + AddrGrowth < ADDR_STACK_SIZE
  BY <1>1, <1>2, <1>3
<1>5. ASSUME ~ BuiltIn \/ Word \in {"begin", "exec"} PROVE Len(addrStack) + 1 < ADDR_STACK_SIZE
  <2>1. Word # "do" BY <1>5 DEF Word
  <2>2. AddrGrowth = 1 BY <1>5, <2>1 DEF AddrGrowth, BuiltIn
  <2> QED BY ONLY <1>4, <2>2
<1>6. ASSUME Word = "do" PROVE Len(addrStack) + 3 < ADDR_STACK_SIZE
  <2>1. BuiltIn BY <1>6 DEF Word
  <2>2. AddrGrowth = 3 BY <1>6, <2>1 DEF AddrGrowth, BuiltIn
  <2> QED BY ONLY <1>4, <2>2
<1>7. /\ Word \in {";", "until"} => AddrReach = 1
      /\ Word = "i" => AddrReach = 2
      /\ Word \in {"loop", "+loop"} => AddrReach = 3
      /\ Word = "j" => AddrReach = 5
      /\ Word = "k" => AddrReach = 8
  BY DEF AddrReach
<1>8. /\ Word \in {";", "until"} => Len(addrStack) >= 1
      /\ Word = "i" => Len(addrStack) >= 2
      /\ Word \in {"loop", "+loop"} => Len(addrStack) >= 3
      /\ Word = "j" => Len(addrStack) >= 5
      /\ Word = "k" => Len(addrStack) >= 8
  BY ONLY <1>1, <1>3, <1>4, <1>7
<1> QED BY <1>5, <1>6, <1>8

-----------------------------------------------------------------------------
(* The words that work on the math stack. *)

(* What every word must leave of the math stack. *)
Stacked(r) == r \in Seq(Int) /\ Len(r) \in 1..MATH_STACK_SIZE

LEMMA StacksGrow ==
  ASSUME NEW s \in Seq(Int), NEW x \in Int, Len(s) + 1 <= MATH_STACK_SIZE
  PROVE  Stacked(Append(s, x)) /\ Len(Append(s, x)) = Len(s) + 1
<1>1. Len(s) \in Nat /\ MATH_STACK_SIZE \in Nat BY LenProperties, ForthAssumption
<1>2. Append(s, x) \in Seq(Int) /\ Len(Append(s, x)) = Len(s) + 1 BY AppendProperties
<1> QED BY <1>1, <1>2 DEF Stacked

(* Two cells replaced by n of them. *)
LEMMA TopReplaced ==
  ASSUME NEW s \in Seq(Int), Len(s) >= 2, NEW new \in Seq(Int), Len(new) >= 1,
         Len(s) + Len(new) <= MATH_STACK_SIZE + 2
  PROVE  Stacked(Chopped(s, 2) \o new)
<1> DEFINE c == Chopped(s, 2)
<1>1. Len(s) \in Nat /\ MATH_STACK_SIZE \in Nat /\ Len(new) \in Nat
  BY LenProperties, ForthAssumption
<1>2. 2 \in 0..Len(s) BY <1>1
<1>3. c \in Seq(Int) /\ Len(c) = Len(s) - 2 BY <1>2, ChoppedIs
<1> HIDE DEF c
<1>4. c \o new \in Seq(Int) /\ Len(c \o new) = Len(c) + Len(new) BY <1>3, ConcatProperties
<1> QED BY <1>1, <1>3, <1>4 DEF Stacked, c

LEMMA MathAfterIs ==
  ASSUME ForthTypeOK, ~ Outside, Word \in MathWords
  PROVE  Stacked(MathAfter(Word, mathStack))
<1> DEFINE s == mathStack
           t == Last(s)
           u == s[Len(s) - 1]
           p == Popped(s)
           r == MathAfter(Word, s)
<1>1. /\ s \in Seq(Int) /\ Len(s) \in Nat /\ Len(s) >= 1 /\ Len(s) <= MATH_STACK_SIZE
      /\ MATH_STACK_SIZE \in Nat
  BY ForthAssumption DEF ForthTypeOK
<1>2. /\ t \in Int /\ p \in Seq(Int) /\ Len(p) \in Nat /\ Len(p) >= 1 /\ Len(p) <= Len(s)
      /\ Len(s) > 1 => Len(p) = Len(s) - 1
  <2>1. /\ Last(s) \in Int /\ Popped(s) \in Seq(Int) /\ Len(Popped(s)) \in 1..Len(s)
        /\ Len(s) > 1 => Len(Popped(s)) = Len(s) - 1
    BY <1>1, TopIs
  <2> QED BY <1>1, <2>1
<1>3. Len(s) >= 2 => u \in Int
  <2>1. Len(s) >= 2 => Len(s) - 1 \in 1..Len(s) BY <1>1
  <2> QED BY <1>1, <2>1, ElementOfSeq
<1>4. t = TOS BY DEF TOS
<1>5. Word # "" => BuiltIn BY DEF Word
<1> HIDE DEF s, t, u, p, r
<1>6. CASE Word \in Unary
  <2>1. r = OnTop(s, UnaryResult(Word, t)) BY <1>6 DEF r, MathAfter, t, Unary, Binary
  <2>2. UnaryResult(Word, t) \in Int BY <1>2, <1>6, ResultsAreTyped
  <2> QED BY <1>1, <2>1, <2>2, OnTopIs DEF Stacked, s, r
<1>7. CASE Word \in Binary
  <2>1. r = OnTop(p, BinaryResult(Word, Last(p), t))
    BY <1>7 DEF r, MathAfter, t, p, Unary, Binary
  <2>2. Last(p) \in Int BY <1>2, TopIs
  <2>3. BinaryResult(Word, Last(p), t) \in Int BY <1>2, <1>7, <2>2, ResultsAreTyped
  <2>4. OnTop(p, BinaryResult(Word, Last(p), t)) \in Seq(Int)
        /\ Len(OnTop(p, BinaryResult(Word, Last(p), t))) = Len(p)
    BY <1>2, <2>3, OnTopIs
  <2> QED BY <1>1, <1>2, <2>1, <2>4 DEF Stacked, s, r
<1>8. CASE Word \in {"*", "/%", "swap", "tuck"}
  <2>1. Len(s) >= 2 /\ (Word = "tuck" => Len(s) + 1 <= MATH_STACK_SIZE) BY <1>8, MathRoom DEF s
  <2>2. \E new \in Seq(Int) : r = Chopped(s, 2) \o new /\ Len(new) = IF Word = "tuck" THEN 3 ELSE 2
    <3>1. CASE Word = "*"
      <4>1. r = Chopped(s, 2) \o <<IF t * u < 0 THEN -1 ELSE 0, t * u>>
        BY <3>1 DEF r, MathAfter, t, u, Unary, Binary
      <4>2. t * u \in Int BY <1>2, <1>3, <2>1
      <4>3. <<IF t * u < 0 THEN -1 ELSE 0, t * u>> \in Seq(Int)
            /\ Len(<<IF t * u < 0 THEN -1 ELSE 0, t * u>>) = 2
        BY <4>2
      <4> QED BY <3>1, <4>1, <4>3
    <3>2. CASE Word = "/%"
      <4>1. r = Chopped(s, 2) \o <<Quotient(u, t), Remainder(u, t)>>
        BY <3>2 DEF r, MathAfter, t, u, Unary, Binary
      <4>2. t # 0 BY <1>4, <3>2 DEF Outside
      <4>3. Quotient(u, t) \in Int /\ Remainder(u, t) \in Int
        BY <1>2, <1>3, <2>1, <4>2, ResultsAreTyped
      <4>4. <<Quotient(u, t), Remainder(u, t)>> \in Seq(Int)
            /\ Len(<<Quotient(u, t), Remainder(u, t)>>) = 2
        BY <4>3
      <4> QED BY <3>2, <4>1, <4>4
    <3>3. CASE Word = "swap"
      <4>1. r = Chopped(s, 2) \o <<t, u>> BY <3>3 DEF r, MathAfter, t, u, Unary, Binary
      <4>2. <<t, u>> \in Seq(Int) /\ Len(<<t, u>>) = 2 BY <1>2, <1>3, <2>1
      <4> QED BY <3>3, <4>1, <4>2
    <3>4. CASE Word = "tuck"
      <4>1. r = Chopped(s, 2) \o <<t, u, t>> BY <3>4 DEF r, MathAfter, t, u, Unary, Binary
      <4>2. <<t, u, t>> \in Seq(Int) /\ Len(<<t, u, t>>) = 3 BY <1>2, <1>3, <2>1
      <4> QED BY <3>4, <4>1, <4>2
    <3> QED BY <1>8, <3>1, <3>2, <3>3, <3>4
  <2>3. PICK new \in Seq(Int) : r = Chopped(s, 2) \o new /\ Len(new) = IF Word = "tuck" THEN 3 ELSE 2
    BY <2>2
  <2>4. Len(new) >= 1 /\ Len(s) + Len(new) <= MATH_STACK_SIZE + 2 BY <1>1, <2>1, <2>3
  <2> QED BY <1>1, <2>1, <2>3, <2>4, TopReplaced DEF s, r
<1>9. CASE Word = "*/"
  <2> DEFINE v == s[Len(s) - 2]
  <2>1. Len(s) >= 3 BY <1>9, MathRoom DEF s
  <2>2. Len(s) - 2 \in 1..Len(s) BY <1>1, <2>1
  <2>3. v \in Int BY <1>1, <2>2, ElementOfSeq
  <2>4. t # 0 BY <1>4, <1>9 DEF Outside
  <2>5. r = OnTop(Chopped(s, 2), Quotient(u * v, t)) BY <1>9 DEF r, MathAfter, t, u, Unary, Binary
  <2> HIDE DEF v
  <2>6. u * v \in Int BY <1>1, <1>3, <2>1, <2>3
  <2>7. Quotient(u * v, t) \in Int BY <1>2, <2>4, <2>6, ResultsAreTyped
  <2>8. 2 \in 0..Len(s) BY <1>1, <2>1
  <2>9. Chopped(s, 2) \in Seq(Int) /\ Len(Chopped(s, 2)) = Len(s) - 2 BY <1>1, <2>8, ChoppedIs
  <2>10. OnTop(Chopped(s, 2), Quotient(u * v, t)) \in Seq(Int)
         /\ Len(OnTop(Chopped(s, 2), Quotient(u * v, t))) = Len(s) - 2
    <3>1. Len(Chopped(s, 2)) >= 1 BY <1>1, <2>1, <2>9
    <3> HIDE DEF s
    <3> QED BY <2>7, <2>9, <3>1, OnTopIs
  <2> QED BY <1>1, <2>1, <2>5, <2>10 DEF Stacked, s, r
<1>10. CASE Word = "drop"
  <2>1. r = p BY <1>10 DEF r, MathAfter, p, Unary, Binary
  <2> QED BY <1>1, <1>2, <2>1 DEF Stacked, s, r
<1>11. CASE Word = "ndrop"
  <2>1. r = IF t < Len(p) THEN Chopped(p, t) ELSE <<s[1]>>
    BY <1>11 DEF r, MathAfter, t, p, Unary, Binary
  <2>2. t >= 0
    <3>1. ~ (Word \in {"roll", "pick", "ndrop"} /\ TOS < 0) BY DEF Outside
    <3> QED BY <1>2, <1>4, <1>11, <3>1
  <2>3. CASE t < Len(p)
    <3>1. t \in 0..Len(p) BY <1>2, <2>2, <2>3
    <3>2. Chopped(p, t) \in Seq(Int) /\ Len(Chopped(p, t)) = Len(p) - t BY <1>2, <3>1, ChoppedIs
    <3> QED BY <1>1, <1>2, <2>1, <2>2, <2>3, <3>2 DEF Stacked, s, r
  <2>4. CASE ~ (t < Len(p))
    <3>1. s[1] \in Int BY <1>1, ElementOfSeq
    <3>2. <<s[1]>> \in Seq(Int) /\ Len(<<s[1]>>) = 1 BY <3>1
    <3> QED BY <1>1, <2>1, <2>4, <3>2 DEF Stacked, s, r
  <2> QED BY <2>3, <2>4
<1>12. CASE Word \in {"roll", "pick"}
  <2>1. t >= 0 /\ t + 2 <= Len(s) BY <1>4, <1>12, MathRoom DEF s
  <2>2. Len(p) = Len(s) - 1 /\ t \in 0..(Len(p) - 1) /\ Len(p) - t \in 1..Len(p)
    BY <1>1, <1>2, <2>1
  <2>3. CASE Word = "roll"
    <3>1. r = Rolled(p, t) BY <2>3 DEF r, MathAfter, t, p, Unary, Binary
    <3>2. Rolled(p, t) \in Seq(Int) /\ Len(Rolled(p, t)) = Len(p) BY <1>2, <2>2, RolledIs
    <3> QED BY <1>1, <1>2, <3>1, <3>2 DEF Stacked, s, r
  <2>4. CASE Word = "pick"
    <3>1. r = Append(p, p[Len(p) - t]) BY <2>4 DEF r, MathAfter, t, p, Unary, Binary
    <3>2. p[Len(p) - t] \in Int BY <1>2, <2>2, ElementOfSeq
    <3>3. Len(p) + 1 <= MATH_STACK_SIZE BY <1>1, <2>2
    <3> QED BY <1>2, <3>1, <3>2, <3>3, StacksGrow DEF r, s
  <2> QED BY <1>12, <2>3, <2>4
<1>13. CASE Word \in {"dup", "over", "push0", "push1", "depth", "h@"}
  <2>1. Len(s) + 1 <= MATH_STACK_SIZE /\ (Word = "over" => Len(s) >= 2)
    BY <1>13, MathRoom DEF s
  <2>2. \E x \in Int : r = Append(s, x)
    <3>1. CASE Word = "dup"
      <4>1. r = Append(s, t) BY <3>1 DEF r, MathAfter, t, Unary, Binary
      <4> QED BY <1>2, <4>1
    <3>2. CASE Word = "over"
      <4>1. r = Append(s, u) BY <3>2 DEF r, MathAfter, u, Unary, Binary
      <4> QED BY <1>3, <2>1, <3>2, <4>1
    <3>3. CASE Word = "push0"
      <4>1. r = Append(s, 0) BY <3>3 DEF r, MathAfter, Unary, Binary
      <4> QED BY <4>1
    <3>4. CASE Word = "push1"
      <4>1. r = Append(s, 1) BY <3>4 DEF r, MathAfter, Unary, Binary
      <4> QED BY <4>1
    <3>5. CASE Word = "depth"
      <4>1. r = Append(s, Len(s) - 1) BY <3>5 DEF r, MathAfter, Unary, Binary
      <4>2. Len(s) - 1 \in Int BY <1>1
      <4> QED BY <4>1, <4>2
    <3>6. CASE Word = "h@"
      <4>1. r = Append(s, progIdx) BY <3>6 DEF r, MathAfter, Unary, Binary
      <4>2. progIdx \in Int BY LenProperties DEF progIdx, ForthTypeOK
      <4> QED BY <4>1, <4>2
    <3> QED BY <1>13, <3>1, <3>2, <3>3, <3>4, <3>5, <3>6
  <2> QED BY <1>1, <2>1, <2>2, StacksGrow DEF r, s
<1>14. CASE Word \in {"p@", "o2p"}
  <2>1. \E x \in Int : r = OnTop(s, x)
    <3>1. CASE Word = "p@"
      <4>1. r = OnTop(s, prog[t]) BY <3>1 DEF r, MathAfter, t, Unary, Binary
      <4>2. t \in 1..Len(prog) BY <1>4, <3>1 DEF Outside
      <4>3. prog[t] \in Int BY <4>2, ElementOfSeq DEF ForthTypeOK
      <4> QED BY <4>1, <4>3
    <3>2. CASE Word = "o2p"
      <4>1. r = OnTop(s, IF t >= BUILTIN_INTERP_OFFSET THEN 0 ELSE progOpcodes[t])
        BY <3>2 DEF r, MathAfter, t, Unary, Binary
      <4>2. t < BUILTIN_INTERP_OFFSET => Callable(t) BY <1>4, <3>2 DEF Outside
      <4>3. t < BUILTIN_INTERP_OFFSET => progOpcodes[t] \in Int
        BY <4>2, LenProperties DEF Callable, ForthTypeOK, DictionaryOK, progIdx
      <4>4. (IF t >= BUILTIN_INTERP_OFFSET THEN 0 ELSE progOpcodes[t]) \in Int
        BY <1>2, <4>3 DEF BUILTIN_INTERP_OFFSET
      <4> QED BY <4>1, <4>4
    <3> QED BY <1>14, <3>1, <3>2
  <2>2. PICK x \in Int : r = OnTop(s, x) BY <2>1
  <2>3. OnTop(s, x) \in Seq(Int) /\ Len(OnTop(s, x)) = Len(s) BY <1>1, OnTopIs
  <2> QED BY <1>1, <2>2, <2>3 DEF Stacked, s, r
<1> QED
  BY <1>6, <1>7, <1>8, <1>9, <1>10, <1>11, <1>12, <1>13, <1>14 DEF MathWords, Shuffles

-----------------------------------------------------------------------------
(* Steps, one lemma for each group of actions. *)

(* What the parts that a step leaves alone contribute. *)
LEMMA DictionaryKept ==
  ASSUME DictionaryOK, UNCHANGED dictionary
  PROVE  DictionaryOK'
BY DEF DictionaryOK, dictionary, progIdx

(* What a step must establish, part by part. *)
TextOK == line \in Seq(Words) /\ typed \in Seq(Words) /\ wordBuffer \in Words
AddressesOK == addrStack \in Seq(Int) /\ Len(addrStack) < ADDR_STACK_SIZE
ProgramOK == prog \in Seq(Int) /\ Len(prog) < USER_PROG_SIZE
NamesOK == cmdList \in Seq(Words)

LEMMA PartsAreTyped ==
  ASSUME ForthTypeOK
  PROVE  TextOK /\ AddressesOK /\ ProgramOK /\ NamesOK /\ DictionaryOK /\ Stacked(mathStack)
BY DEF ForthTypeOK, TextOK, AddressesOK, ProgramOK, NamesOK, Stacked

LEMMA PartsKept ==
  ASSUME ForthTypeOK
  PROVE  /\ UNCHANGED console => TextOK'
         /\ UNCHANGED addrStack => AddressesOK'
         /\ UNCHANGED dictionary => ProgramOK' /\ NamesOK' /\ DictionaryOK'
         /\ UNCHANGED mathStack => Stacked(mathStack')
<1>1. UNCHANGED console => TextOK' BY PartsAreTyped DEF TextOK, console
<1>2. UNCHANGED addrStack => AddressesOK' BY PartsAreTyped DEF AddressesOK
<1>3. UNCHANGED dictionary => ProgramOK' /\ NamesOK'
  BY PartsAreTyped DEF ProgramOK, NamesOK, dictionary
<1>4. UNCHANGED dictionary => DictionaryOK' BY PartsAreTyped, DictionaryKept
<1>5. UNCHANGED mathStack => Stacked(mathStack') BY PartsAreTyped
<1> QED BY <1>1, <1>2, <1>3, <1>4, <1>5

LEMMA StepIsTyped ==
  ASSUME ForthTypeOK, UNCHANGED strayed, nested' \in Int,
         nested' # 0 => nested' >= BUILTIN_OPCODE_OFFSET, progCounter' \in Int,
         TextOK', AddressesOK', ProgramOK', NamesOK', DictionaryOK', Stacked(mathStack')
  PROVE  ForthTypeOK'
<1>1. strayed' \in BOOLEAN BY DEF ForthTypeOK
<1>2. /\ progCounter' \in Int /\ nested' \in Int /\ (nested' # 0 => nested' >= BUILTIN_OPCODE_OFFSET)
      /\ mathStack' \in Seq(Int) /\ Len(mathStack') \in 1..MATH_STACK_SIZE
      /\ addrStack' \in Seq(Int) /\ Len(addrStack') < ADDR_STACK_SIZE
      /\ prog' \in Seq(Int) /\ Len(prog') < USER_PROG_SIZE
      /\ cmdList' \in Seq(Words) /\ wordBuffer' \in Words
      /\ line' \in Seq(Words) /\ typed' \in Seq(Words)
  BY DEF TextOK, AddressesOK, ProgramOK, NamesOK, Stacked
<1> QED BY <1>1, <1>2 DEF ForthTypeOK

LEMMA ExecutedIsTyped ==
  ASSUME ForthTypeOK, Executed, progCounter' \in Int,
         TextOK', AddressesOK', ProgramOK', NamesOK', DictionaryOK', Stacked(mathStack')
  PROVE  ForthTypeOK'
BY StepIsTyped DEF Executed

LEMMA TopIsTyped ==
  ASSUME ForthTypeOK
  PROVE  /\ TOS \in Int /\ Stacked(mathStack) /\ Stacked(Popped(mathStack))
         /\ Last(Popped(mathStack)) \in Int /\ Stacked(Popped(Popped(mathStack)))
<1>1. /\ mathStack \in Seq(Int) /\ Len(mathStack) \in Nat /\ Len(mathStack) >= 1
      /\ Len(mathStack) <= MATH_STACK_SIZE /\ MATH_STACK_SIZE \in Nat
  BY ForthAssumption DEF ForthTypeOK
<1>2. /\ Last(mathStack) \in Int /\ Popped(mathStack) \in Seq(Int)
      /\ Len(Popped(mathStack)) \in 1..Len(mathStack)
  BY <1>1, TopIs
<1>3. Len(Popped(mathStack)) >= 1 BY <1>1, <1>2
<1>4. /\ Last(Popped(mathStack)) \in Int /\ Popped(Popped(mathStack)) \in Seq(Int)
      /\ Len(Popped(Popped(mathStack))) \in 1..Len(Popped(mathStack))
  BY <1>2, <1>3, TopIs
<1> QED BY <1>1, <1>2, <1>4 DEF Stacked, TOS

(* The part of the stack of addresses that a word may look at. *)
LEMMA AddrIsTyped ==
  ASSUME ForthTypeOK, NEW n \in Nat, n < Len(addrStack)
  PROVE  ASTACK(n) \in Int
<1>1. addrStack \in Seq(Int) /\ Len(addrStack) \in Nat BY DEF ForthTypeOK
<1>2. Len(addrStack) - n \in 1..Len(addrStack) BY <1>1
<1> QED BY <1>1, <1>2, ElementOfSeq DEF ASTACK

LEMMA AddressesGrow ==
  ASSUME ForthTypeOK, Len(addrStack) + 1 < ADDR_STACK_SIZE, NEW x \in Int
  PROVE  Append(addrStack, x) \in Seq(Int) /\ Len(Append(addrStack, x)) < ADDR_STACK_SIZE
<1>1. addrStack \in Seq(Int) /\ Len(addrStack) \in Nat /\ ADDR_STACK_SIZE \in Nat
  BY ForthAssumption DEF ForthTypeOK
<1>2. Append(addrStack, x) \in Seq(Int) /\ Len(Append(addrStack, x)) = Len(addrStack) + 1
  BY <1>1, AppendProperties
<1> QED BY <1>1, <1>2

LEMMA AddressesShrink ==
  ASSUME ForthTypeOK, NEW n \in Nat, n <= Len(addrStack)
  PROVE  Chopped(addrStack, n) \in Seq(Int) /\ Len(Chopped(addrStack, n)) < ADDR_STACK_SIZE
<1>1. addrStack \in Seq(Int) /\ Len(addrStack) \in Nat /\ Len(addrStack) < ADDR_STACK_SIZE
      /\ ADDR_STACK_SIZE \in Nat /\ n \in 0..Len(addrStack)
  BY ForthAssumption DEF ForthTypeOK
<1>2. Chopped(addrStack, n) \in Seq(Int) /\ Len(Chopped(addrStack, n)) = Len(addrStack) - n
  BY <1>1, ChoppedIs
<1> QED BY <1>1, <1>2

LEMMA MathWordStep ==
  ASSUME ForthTypeOK, MathWord
  PROVE  ForthTypeOK'
<1>1. Stacked(MathAfter(Word, mathStack)) BY MathAfterIs DEF MathWord, Runs
<1>2. pc \in Int BY FetchIsTyped DEF MathWord, Runs
<1>3. TextOK' /\ AddressesOK' /\ ProgramOK' /\ NamesOK' /\ DictionaryOK'
  BY PartsKept DEF MathWord
<1>4. progCounter' \in Int /\ Stacked(mathStack') /\ Executed BY <1>1, <1>2 DEF MathWord, Next_pc
<1> QED BY <1>3, <1>4, ExecutedIsTyped

LEMMA ProgramSteps ==
  ASSUME ForthTypeOK, Comma \/ StoreProg
  PROVE  ForthTypeOK'
<1>1. pc \in Int BY FetchIsTyped DEF Comma, StoreProg, Runs
<1>2. prog \in Seq(Int) /\ Len(prog) \in Nat /\ Len(prog) < USER_PROG_SIZE /\ USER_PROG_SIZE \in Nat
  BY ForthAssumption DEF ForthTypeOK
<1>3. CASE Comma
  <2>1. ~ (progIdx >= USER_PROG_SIZE) BY <1>3 DEF Comma, Runs, Outside
  <2>2. prog' = Append(prog, TOS) BY <1>3 DEF Comma
  <2>3. Append(prog, TOS) \in Seq(Int) /\ Len(Append(prog, TOS)) = Len(prog) + 1
    BY <1>2, TopIsTyped, AppendProperties
  <2>4. prog' \in Seq(Int) /\ Len(prog') = Len(prog) + 1 /\ Len(prog') < USER_PROG_SIZE
    BY <1>2, <2>1, <2>2, <2>3 DEF progIdx
  <2>5. progIdx \in Nat /\ progIdx' = progIdx + 1 BY <1>2, <2>4 DEF progIdx
  <2>6. DictionaryOK'
    <3>1. cmdList' = cmdList /\ progOpcodes' = progOpcodes BY <1>3 DEF Comma
    <3>2. ASSUME NEW n \in DOMAIN progOpcodes
          PROVE  n < USER_OPCODE_MAPPING_SIZE /\ progOpcodes[n] \in 1..progIdx'
      <4>1. n < USER_OPCODE_MAPPING_SIZE /\ progOpcodes[n] \in 1..progIdx
        BY DEF ForthTypeOK, DictionaryOK
      <4> QED BY <2>5, <4>1
    <3> QED BY <3>1, <3>2 DEF ForthTypeOK, DictionaryOK
  <2> QED
    <3>1. progCounter' \in Int /\ Stacked(mathStack') /\ Executed
      BY <1>1, <1>3, TopIsTyped DEF Comma, Next_pc
    <3>2. TextOK' /\ AddressesOK' BY <1>3, PartsKept DEF Comma
    <3>3. NamesOK' BY <1>3, PartsAreTyped DEF Comma, NamesOK
    <3>4. ProgramOK' BY <2>4 DEF ProgramOK
    <3> QED BY <2>6, <3>1, <3>2, <3>3, <3>4, ExecutedIsTyped
<1>4. CASE StoreProg
  <2>1. prog' \in Seq(Int) /\ Len(prog') = Len(prog)
    <3>1. prog' = [prog EXCEPT ![TOS] = Last(Popped(mathStack))] BY <1>4 DEF StoreProg
    <3>2. Last(Popped(mathStack)) \in Int BY TopIsTyped
    <3>3. TOS \in 1..Len(prog) BY <1>4 DEF StoreProg, Runs, Outside
    <3> QED BY <1>2, <3>1, <3>2, <3>3, ExceptSeq
  <2>2. progIdx' = progIdx BY <2>1 DEF progIdx
  <2>3. DictionaryOK' BY <1>4, <2>2 DEF StoreProg, ForthTypeOK, DictionaryOK
  <2> QED
    <3>1. progCounter' \in Int /\ Stacked(mathStack') /\ Executed
      BY <1>1, <1>4, TopIsTyped DEF StoreProg, Next_pc
    <3>2. TextOK' /\ AddressesOK' BY <1>4, PartsKept DEF StoreProg
    <3>3. NamesOK' BY <1>4, PartsAreTyped DEF StoreProg, NamesOK
    <3>4. ProgramOK' BY <1>2, <2>1 DEF ProgramOK
    <3> QED BY <2>3, <3>1, <3>2, <3>3, <3>4, ExecutedIsTyped
<1> QED BY <1>3, <1>4

LEMMA BranchSteps ==
  ASSUME ForthTypeOK, pushnFunc \/ ifFunc \/ gotoFunc
  PROVE  ForthTypeOK'
<1>1. ~ Outside /\ Executed /\ Word \in {"pushn", "if", "goto"} /\ (pushnFunc => Word = "pushn")
  BY DEF pushnFunc, ifFunc, gotoFunc, Runs
<1>2. pc \in Int BY <1>1, FetchIsTyped
<1>3. Readable(pc) BY <1>1 DEF Outside
<1>4. Cell(pc) \in Int BY <1>2, <1>3, CellIsTyped DEF ForthTypeOK
<1>5. pc + 1 \in Int BY <1>2
<1>6. progCounter' \in Int BY <1>4, <1>5 DEF pushnFunc, ifFunc, gotoFunc
<1>7. TextOK' /\ AddressesOK' /\ ProgramOK' /\ NamesOK' /\ DictionaryOK'
  BY PartsKept DEF pushnFunc, ifFunc, gotoFunc
<1>8. Stacked(mathStack')
  <2>1. CASE pushnFunc
    <3>1. mathStack \in Seq(Int) BY DEF ForthTypeOK
    <3>2. Len(mathStack) + 1 <= MATH_STACK_SIZE BY <1>1, <2>1, MathRoom
    <3> QED BY <1>4, <2>1, <3>1, <3>2, StacksGrow DEF pushnFunc
  <2>2. CASE ifFunc BY <2>2, TopIsTyped DEF ifFunc
  <2>3. CASE gotoFunc BY <2>3, PartsKept DEF gotoFunc
  <2> QED BY <2>1, <2>2, <2>3
<1> QED BY <1>1, <1>6, <1>7, <1>8, ExecutedIsTyped

LEMMA BeginUntilSteps ==
  ASSUME ForthTypeOK, Begin \/ Until
  PROVE  ForthTypeOK'
<1>1. ~ Outside /\ Executed BY DEF Begin, Until, Runs
<1>2. pc \in Int BY <1>1, FetchIsTyped
<1>3. TextOK' /\ ProgramOK' /\ NamesOK' /\ DictionaryOK' BY PartsKept DEF Begin, Until
<1>4. CASE Begin
  <2>1. Len(addrStack) + 1 < ADDR_STACK_SIZE BY <1>1, <1>4, AddrRoom DEF Begin, Runs
  <2>2. AddressesOK' BY <1>2, <1>4, <2>1, AddressesGrow DEF Begin, AddressesOK
  <2>3. Stacked(mathStack') /\ progCounter' \in Int BY <1>2, <1>4, PartsKept DEF Begin, Next_pc
  <2> QED BY <1>1, <1>3, <2>2, <2>3, ExecutedIsTyped
<1>5. CASE Until
  <2>1. Len(addrStack) >= 1 BY <1>1, <1>5, AddrRoom DEF Until, Runs
  <2>2. ASTACK(0) \in Int
    <3>1. 0 < Len(addrStack) BY <2>1 DEF ForthTypeOK
    <3> QED BY <3>1, AddrIsTyped
  <2>3. Chopped(addrStack, 1) \in Seq(Int) /\ Len(Chopped(addrStack, 1)) < ADDR_STACK_SIZE
    <3>1. 1 <= Len(addrStack) BY <2>1 DEF ForthTypeOK
    <3> QED BY <3>1, AddressesShrink
  <2>4. Front(addrStack) = Chopped(addrStack, 1) BY DEF Front, Chopped
  <2>5. progCounter' \in Int /\ AddressesOK'
    <3>1. CASE TOS = 0 BY <1>5, <2>2, <3>1, PartsKept DEF Until
    <3>2. CASE TOS # 0 BY <1>2, <1>5, <2>3, <2>4, <3>2 DEF Until, Next_pc, AddressesOK
    <3> QED BY <3>1, <3>2
  <2>6. Stacked(mathStack') BY <1>5, TopIsTyped DEF Until
  <2> QED BY <1>1, <1>3, <2>5, <2>6, ExecutedIsTyped
<1> QED BY <1>4, <1>5

LEMMA DoStep ==
  ASSUME ForthTypeOK, Do
  PROVE  ForthTypeOK'
<1> DEFINE new == <<Last(Popped(mathStack)), TOS, pc>>
<1>1. ~ Outside /\ Executed BY DEF Do, Runs
<1>2. pc \in Int BY <1>1, FetchIsTyped
<1>3. TextOK' /\ ProgramOK' /\ NamesOK' /\ DictionaryOK' BY PartsKept DEF Do
<1>4. new \in Seq(Int) /\ Len(new) = 3 BY <1>2, TopIsTyped
<1>5. addrStack' = addrStack \o new BY DEF Do
<1> HIDE DEF new
<1>6. addrStack \in Seq(Int) /\ Len(addrStack) \in Nat /\ ADDR_STACK_SIZE \in Nat
  BY ForthAssumption DEF ForthTypeOK
<1>7. Len(addrStack) + 3 < ADDR_STACK_SIZE BY <1>1, AddrRoom DEF Do, Runs
<1>8. addrStack \o new \in Seq(Int) /\ Len(addrStack \o new) = Len(addrStack) + Len(new)
  BY <1>4, <1>6, ConcatProperties
<1>9. AddressesOK' BY <1>4, <1>5, <1>6, <1>7, <1>8 DEF AddressesOK
<1>10. Stacked(mathStack') /\ progCounter' \in Int BY <1>2, TopIsTyped DEF Do, Next_pc
<1> QED BY <1>1, <1>3, <1>9, <1>10, ExecutedIsTyped

LEMMA LoopSteps ==
  ASSUME ForthTypeOK, Loop \/ PlusLoop
  PROVE  ForthTypeOK'
<1>1. PICK w \in {"loop", "+loop"}, n \in Int : loopFunc(w, n) BY TopIsTyped DEF Loop, PlusLoop
<1> DEFINE count == ASTACK(1) + n
           i == Len(addrStack) - 1
<1>2. ~ Outside /\ Executed /\ Word \in {"loop", "+loop"} BY <1>1 DEF loopFunc, Runs
<1>3. pc \in Int BY <1>2, FetchIsTyped
<1>4. TextOK' /\ ProgramOK' /\ NamesOK' /\ DictionaryOK' BY <1>1, PartsKept DEF loopFunc
<1>5. addrStack \in Seq(Int) /\ Len(addrStack) \in Nat /\ Len(addrStack) >= 3
      /\ Len(addrStack) < ADDR_STACK_SIZE
  <2>1. Len(addrStack) >= 3 BY <1>2, AddrRoom
  <2> QED BY <2>1 DEF ForthTypeOK
<1>6. ASTACK(0) \in Int /\ ASTACK(1) \in Int
  <2>1. 0 < Len(addrStack) /\ 1 < Len(addrStack) BY <1>5
  <2> QED BY <2>1, AddrIsTyped
<1>7. count \in Int /\ i \in 1..Len(addrStack) BY <1>5, <1>6
<1>8. \/ addrStack' = [addrStack EXCEPT ![i] = count] /\ progCounter' = ASTACK(0)
      \/ addrStack' = Chopped(addrStack, 3) /\ progCounter' = pc
  BY <1>1 DEF loopFunc, Next_pc
<1> HIDE DEF count, i
<1>9. [addrStack EXCEPT ![i] = count] \in Seq(Int)
      /\ Len([addrStack EXCEPT ![i] = count]) = Len(addrStack)
  BY <1>5, <1>7, ExceptSeq
<1>10. Chopped(addrStack, 3) \in Seq(Int) /\ Len(Chopped(addrStack, 3)) < ADDR_STACK_SIZE
  <2>1. 3 <= Len(addrStack) BY <1>5
  <2> QED BY <2>1, AddressesShrink
<1>11. AddressesOK' /\ progCounter' \in Int BY <1>3, <1>5, <1>6, <1>8, <1>9, <1>10 DEF AddressesOK
<1>12. Stacked(mathStack') BY TopIsTyped, PartsKept DEF Loop, PlusLoop
<1> QED BY <1>2, <1>4, <1>11, <1>12, ExecutedIsTyped

LEMMA LoopCountStep ==
  ASSUME ForthTypeOK, LoopCount
  PROVE  ForthTypeOK'
<1>1. PICK d \in {<<"i", 1>>, <<"j", 4>>, <<"k", 7>>} :
        Runs(d[1]) /\ mathStack' = Append(mathStack, ASTACK(d[2]))
  BY DEF LoopCount
<1>2. ~ Outside /\ Executed /\ Word = d[1] BY <1>1 DEF LoopCount, Runs
<1>3. pc \in Int BY <1>2, FetchIsTyped
<1>4. TextOK' /\ AddressesOK' /\ ProgramOK' /\ NamesOK' /\ DictionaryOK'
  BY PartsKept DEF LoopCount
<1>5. Len(mathStack) + 1 <= MATH_STACK_SIZE BY <1>2, MathRoom
<1>6. d[2] \in Nat /\ d[2] < Len(addrStack)
  <2>1. Len(addrStack) \in Nat BY DEF ForthTypeOK
  <2>2. CASE d = <<"i", 1>>
    <3>1. Len(addrStack) >= 2 BY <1>2, <2>2, AddrRoom
    <3> QED BY <2>1, <2>2, <3>1
  <2>3. CASE d = <<"j", 4>>
    <3>1. Len(addrStack) >= 5 BY <1>2, <2>3, AddrRoom
    <3> QED BY <2>1, <2>3, <3>1
  <2>4. CASE d = <<"k", 7>>
    <3>1. Len(addrStack) >= 8 BY <1>2, <2>4, AddrRoom
    <3> QED BY <2>1, <2>4, <3>1
  <2> QED BY <2>2, <2>3, <2>4
<1>7. ASTACK(d[2]) \in Int BY <1>6, AddrIsTyped
<1>8. Stacked(mathStack') BY <1>1, <1>5, <1>7, StacksGrow DEF ForthTypeOK
<1>9. progCounter' \in Int BY <1>3 DEF LoopCount, Next_pc
<1> QED BY <1>2, <1>4, <1>8, <1>9, ExecutedIsTyped

LEMMA CallSteps ==
  ASSUME ForthTypeOK, Call \/ Return
  PROVE  ForthTypeOK'
<1>1. ~ Outside /\ Executed BY DEF Call, Return, Runs
<1>2. pc \in Int BY <1>1, FetchIsTyped
<1>3. TextOK' /\ ProgramOK' /\ NamesOK' /\ DictionaryOK' /\ Stacked(mathStack')
  BY PartsKept DEF Call, Return
<1>4. CASE Call
  <2>1. ~ BuiltIn BY <1>4 DEF Call
  <2>2. Len(addrStack) + 1 < ADDR_STACK_SIZE BY <1>1, <2>1, AddrRoom
  <2>3. AddressesOK' BY <1>2, <1>4, <2>2, AddressesGrow DEF Call, AddressesOK
  <2>4. Callable(opcode) BY <1>1, <2>1 DEF Outside
  <2>5. progOpcodes[opcode] \in Int
    BY <2>4, LenProperties DEF Callable, ForthTypeOK, DictionaryOK, progIdx
  <2>6. progCounter' \in Int BY <1>4, <2>5 DEF Call
  <2> QED BY <1>1, <1>3, <2>3, <2>6, ExecutedIsTyped
<1>5. CASE Return
  <2>1. Len(addrStack) >= 1 BY <1>1, <1>5, AddrRoom DEF Return, Runs
  <2>2. 1 \in Nat /\ 1 <= Len(addrStack) /\ addrStack \in Seq(Int) BY <2>1 DEF ForthTypeOK
  <2>3. Last(addrStack) \in Int BY <2>1, <2>2, TopIs
  <2>4. Front(addrStack) = Chopped(addrStack, 1) BY DEF Front, Chopped
  <2>5. AddressesOK' BY <1>5, <2>2, <2>4, AddressesShrink DEF Return, AddressesOK
  <2>6. progCounter' \in Int BY <1>5, <2>3 DEF Return
  <2> QED BY <1>1, <1>3, <2>5, <2>6, ExecutedIsTyped
<1> QED BY <1>4, <1>5

LEMMA ExecStep ==
  ASSUME ForthTypeOK, execFunc
  PROVE  ForthTypeOK'
<1>1. ~ Outside /\ Word = "exec" /\ UNCHANGED strayed BY DEF execFunc, Runs
<1>2. pc \in Int BY <1>1, FetchIsTyped
<1>3. TextOK' /\ ProgramOK' /\ NamesOK' /\ DictionaryOK' BY PartsKept DEF execFunc
<1>4. TOS \in Int /\ Stacked(mathStack') BY TopIsTyped DEF execFunc
<1>5. CASE TOS >= BUILTIN_OPCODE_OFFSET
  <2>1. nested' = TOS /\ progCounter' \in Int /\ UNCHANGED addrStack
    BY <1>2, <1>5 DEF execFunc, Next_pc
  <2> QED BY <1>1, <1>3, <1>4, <1>5, <2>1, PartsKept, StepIsTyped
<1>6. CASE ~ (TOS >= BUILTIN_OPCODE_OFFSET)
  <2>1. Len(addrStack) + 1 < ADDR_STACK_SIZE BY <1>1, AddrRoom
  <2>2. AddressesOK' /\ nested' = 0 BY <1>2, <1>6, <2>1, AddressesGrow DEF execFunc, AddressesOK
  <2>3. progCounter' \in Int
    <3>1. CASE TOS >= BUILTIN_INTERP_OFFSET
      <4>1. TOS - BUILTIN_INTERP_OFFSET \in DOMAIN cmdList2N
        <5>1. TOS < BUILTIN_OPCODE_OFFSET BY <1>4, <1>6 DEF BUILTIN_OPCODE_OFFSET
        <5> QED BY <1>1, <3>1, <5>1 DEF Outside
      <4>2. cmdList2N \in Seq(Int) /\ DOMAIN cmdList2N = 1..Len(cmdList2N) BY DEF cmdList2N
      <4>3. cmdList2N[TOS - BUILTIN_INTERP_OFFSET] \in Int BY <4>1, <4>2, ElementOfSeq
      <4> QED BY <1>6, <3>1, <4>3 DEF execFunc
    <3>2. CASE ~ (TOS >= BUILTIN_INTERP_OFFSET)
      <4>1. TOS < BUILTIN_INTERP_OFFSET BY <1>4, <3>2 DEF BUILTIN_INTERP_OFFSET
      <4>2. Callable(TOS) BY <1>1, <4>1 DEF Outside
      <4>3. progOpcodes[TOS] \in Int
        BY <4>2, LenProperties DEF Callable, ForthTypeOK, DictionaryOK, progIdx
      <4> QED BY <1>6, <3>2, <4>3 DEF execFunc
    <3> QED BY <3>1, <3>2
  <2> QED BY <1>1, <1>3, <1>4, <2>2, <2>3, StepIsTyped
<1> QED BY <1>5, <1>6

LEMMA GetWordStep ==
  ASSUME ForthTypeOK, getWordFunc
  PROVE  ForthTypeOK'
<1>1. ~ Outside /\ Executed /\ line # <<>> BY DEF getWordFunc, Runs
<1>2. pc \in Int BY <1>1, FetchIsTyped
<1>3. AddressesOK' /\ ProgramOK' /\ NamesOK' /\ DictionaryOK' /\ Stacked(mathStack')
  BY PartsKept DEF getWordFunc
<1>4. line \in Seq(Words) /\ typed \in Seq(Words) BY DEF ForthTypeOK
<1>5. Head(line) \in Words /\ Tail(line) \in Seq(Words) BY <1>1, <1>4, HeadTailProperties
<1>6. Append(typed, Head(line)) \in Seq(Words) BY <1>4, <1>5, AppendProperties
<1>7. TextOK' BY <1>5, <1>6 DEF getWordFunc, TextOK
<1>8. progCounter' \in Int BY <1>2 DEF getWordFunc, Next_pc
<1> QED BY <1>1, <1>3, <1>7, <1>8, ExecutedIsTyped

(* A definition: its name is listed, and whatever was found before still is. *)
LEMMA DefineStep ==
  ASSUME ForthTypeOK, dfnFunc
  PROVE  ForthTypeOK'
<1>1. ~ Outside /\ Executed /\ Word = "dfn" BY DEF dfnFunc, Runs
<1>2. pc \in Int BY <1>1, FetchIsTyped
<1>3. TextOK' /\ AddressesOK' /\ Stacked(mathStack') BY PartsKept DEF dfnFunc
<1>4. cmdList \in Seq(Words) /\ wordBuffer \in Words /\ Len(cmdList) \in Nat
      /\ prog \in Seq(Int) /\ Len(prog) \in Nat /\ DictionaryOK
  BY LenProperties DEF ForthTypeOK
<1>5. /\ cmdList' = Append(cmdList, wordBuffer) /\ prog' = prog
      /\ progOpcodes' = [k \in DOMAIN progOpcodes \union {Entry} |->
                           IF k = Entry THEN progIdx ELSE progOpcodes[k]]
  BY DEF dfnFunc
<1>6. /\ cmdList' \in Seq(Words) /\ Len(cmdList') = Len(cmdList) + 1
      /\ cmdList'[Len(cmdList) + 1] = wordBuffer
      /\ \A n \in 1..Len(cmdList) : cmdList'[n] = cmdList[n]
  <2>1. /\ Append(cmdList, wordBuffer) \in Seq(Words)
        /\ Len(Append(cmdList, wordBuffer)) = Len(cmdList) + 1
        /\ Append(cmdList, wordBuffer)[Len(cmdList) + 1] = wordBuffer
        /\ \A n \in 1..Len(cmdList) : Append(cmdList, wordBuffer)[n] = cmdList[n]
    BY ONLY <1>4, AppendProperties
  <2> QED BY ONLY <1>5, <2>1
<1>7. \A w : lookupToken(w, cmdList') = IF lookupToken(w, cmdList) # 0 THEN lookupToken(w, cmdList)
                                        ELSE IF w = wordBuffer THEN Len(cmdList) + 1 ELSE 0
  <2> TAKE w
  <2>1. lookupToken(w, Append(cmdList, wordBuffer)) =
          IF lookupToken(w, cmdList) # 0 THEN lookupToken(w, cmdList)
          ELSE IF w = wordBuffer THEN Len(cmdList) + 1 ELSE 0
    BY ONLY <1>4, LookupLonger
  <2> QED BY ONLY <1>5, <2>1
<1>8. Entry = lookupToken(wordBuffer, cmdList') BY <1>5 DEF Entry
<1>9. \A w : lookupToken(w, cmdList) \in 0..Len(cmdList) BY <1>4, LookupIs
<1>10. Entry \in 1..(Len(cmdList) + 1)
  <2>1. lookupToken(wordBuffer, cmdList) \in 0..Len(cmdList) BY <1>9
  <2>2. Entry = IF lookupToken(wordBuffer, cmdList) # 0 THEN lookupToken(wordBuffer, cmdList)
                ELSE Len(cmdList) + 1
    BY <1>7, <1>8
  <2> QED BY ONLY <1>4, <2>1, <2>2
<1>11. Entry < USER_OPCODE_MAPPING_SIZE
  <2>1. ~ (Entry >= USER_OPCODE_MAPPING_SIZE) BY <1>1 DEF Outside
  <2>2. USER_OPCODE_MAPPING_SIZE \in Nat BY ForthAssumption
  <2> QED BY <1>10, <2>1, <2>2
<1>12. progIdx' = progIdx /\ progIdx \in Nat /\ progIdx >= 1 BY <1>4, <1>5 DEF progIdx
<1>13. DictionaryOK'
  <2>1. DOMAIN progOpcodes' \subseteq 1..Len(cmdList') BY <1>4, <1>5, <1>6, <1>10 DEF DictionaryOK
  <2>2. ASSUME NEW n \in DOMAIN progOpcodes'
        PROVE  n < USER_OPCODE_MAPPING_SIZE /\ progOpcodes'[n] \in 1..progIdx'
    <3>1. CASE n = Entry BY <1>5, <1>11, <1>12, <3>1
    <3>2. CASE n # Entry
      <4>1. n \in DOMAIN progOpcodes /\ progOpcodes'[n] = progOpcodes[n] BY <1>5, <3>2
      <4> QED BY <1>4, <1>12, <4>1 DEF DictionaryOK
    <3> QED BY <3>1, <3>2
  <2>3. ASSUME NEW n \in 1..Len(cmdList')
        PROVE  lookupToken(cmdList'[n], cmdList') \in DOMAIN progOpcodes'
    <3>1. CASE n = Len(cmdList) + 1 BY <1>5, <1>6, <1>8, <3>1
    <3>2. CASE n # Len(cmdList) + 1
      <4>1. n \in 1..Len(cmdList) BY <1>4, <1>6, <3>2
      <4>2. cmdList'[n] = cmdList[n] BY <1>6, <4>1
      <4>3. lookupToken(cmdList[n], cmdList) \in DOMAIN progOpcodes BY <1>4, <4>1 DEF DictionaryOK
      <4>4. lookupToken(cmdList[n], cmdList) # 0 BY <1>4, <4>3 DEF DictionaryOK
      <4>5. lookupToken(cmdList[n], cmdList') = lookupToken(cmdList[n], cmdList) BY <1>7, <4>4
      <4> QED BY <1>5, <4>2, <4>3, <4>5
    <3> QED BY <3>1, <3>2
  <2> QED BY <2>1, <2>2, <2>3 DEF DictionaryOK
<1>14. NamesOK' /\ ProgramOK' BY <1>5, <1>6, PartsAreTyped DEF NamesOK, ProgramOK
<1>15. progCounter' \in Int BY <1>2 DEF dfnFunc, Next_pc
<1> QED BY <1>1, <1>3, <1>13, <1>14, <1>15, ExecutedIsTyped

LEMMA FoundIsTyped ==
  ASSUME NamesOK
  PROVE  FoundOpcode(wordBuffer) \in Int
<1>1. Len(cmdListBi) \in Nat /\ Len(cmdListBi2) \in Nat BY DEF cmdListBi, cmdListBi2
<1>2. Len(cmdList) \in Nat BY LenProperties DEF NamesOK
<1>3. /\ lookupToken(wordBuffer, cmdListBi) \in Int /\ lookupToken(wordBuffer, cmdListBi2) \in Int
      /\ lookupToken(wordBuffer, cmdList) \in Int
  BY <1>1, <1>2, LookupIs
<1> QED BY <1>3 DEF FoundOpcode, BUILTIN_OPCODE_OFFSET, BUILTIN_INTERP_OFFSET

LEMMA NumberSteps ==
  ASSUME ForthTypeOK, numFunc \/ luFunc
  PROVE  ForthTypeOK'
<1>1. ~ Outside /\ Executed /\ Word \in {"num", "lu"} BY DEF numFunc, luFunc, Runs
<1>2. pc \in Int BY <1>1, FetchIsTyped
<1>3. TextOK' /\ AddressesOK' /\ ProgramOK' /\ NamesOK' /\ DictionaryOK'
  BY PartsKept DEF numFunc, luFunc
<1>4. /\ mathStack \in Seq(Int) /\ Len(mathStack) \in Nat /\ Len(mathStack) >= 1
      /\ Len(mathStack) + 2 <= MATH_STACK_SIZE /\ MATH_STACK_SIZE \in Nat
  BY <1>1, MathRoom, ForthAssumption DEF ForthTypeOK
<1>5. \E new \in Seq(Int) : mathStack' = mathStack \o new /\ Len(new) <= 2
  <2>1. CASE numFunc
    <3> DEFINE new == IF wordBuffer \in DOMAIN NumberOf THEN <<NumberOf[wordBuffer], 1>> ELSE <<0, 0>>
    <3>1. mathStack' = mathStack \o new BY <2>1 DEF numFunc
    <3>2. wordBuffer \in DOMAIN NumberOf => NumberOf[wordBuffer] \in Int BY ForthAssumption
    <3>3. new \in Seq(Int) /\ Len(new) <= 2 BY <3>2
    <3> HIDE DEF new
    <3> QED BY <3>1, <3>3
  <2>2. CASE luFunc
    <3> DEFINE op == FoundOpcode(wordBuffer)
               new == IF op # 0 THEN <<op, 1>> ELSE <<0>>
    <3>1. mathStack' = mathStack \o new BY <2>2 DEF luFunc
    <3>2. op \in Int BY FoundIsTyped, PartsAreTyped
    <3> HIDE DEF op
    <3>3. new \in Seq(Int) /\ Len(new) <= 2 BY <3>2
    <3> QED BY <3>1, <3>3
  <2> QED BY <2>1, <2>2
<1>6. PICK new \in Seq(Int) : mathStack' = mathStack \o new /\ Len(new) <= 2 BY <1>5
<1>7. mathStack \o new \in Seq(Int) /\ Len(mathStack \o new) = Len(mathStack) + Len(new)
      /\ Len(new) \in Nat
  BY <1>4, ConcatProperties, LenProperties
<1>8. Stacked(mathStack') BY <1>4, <1>6, <1>7 DEF Stacked
<1>9. progCounter' \in Int BY <1>2 DEF numFunc, luFunc, Next_pc
<1> QED BY <1>1, <1>3, <1>8, <1>9, ExecutedIsTyped

LEMMA OtherSteps ==
  ASSUME ForthTypeOK, Speak \/ NoOperation
  PROVE  ForthTypeOK'
<1>1. ~ Outside /\ Executed BY DEF Speak, NoOperation, Runs
<1>2. pc \in Int BY <1>1, FetchIsTyped
<1>3. TextOK' /\ AddressesOK' /\ ProgramOK' /\ NamesOK' /\ DictionaryOK'
  BY PartsKept DEF Speak, NoOperation
<1>4. Stacked(mathStack') BY TopIsTyped, PartsKept DEF Speak, NoOperation
<1>5. progCounter' \in Int BY <1>2 DEF Speak, NoOperation, Next_pc
<1> QED BY <1>1, <1>3, <1>4, <1>5, ExecutedIsTyped

LEMMA StrayStep ==
  ASSUME ForthTypeOK, Stray \/ UNCHANGED vars
  PROVE  ForthTypeOK'
<1>1. UNCHANGED <<progCounter, mathStack, addrStack, dictionary, console, nested>>
      /\ strayed' \in BOOLEAN
  BY DEF Stray, vars, dictionary, console, ForthTypeOK
<1>2. TextOK' /\ AddressesOK' /\ ProgramOK' /\ NamesOK' /\ DictionaryOK' BY <1>1, PartsKept
<1> QED
  BY <1>1, <1>2 DEF ForthTypeOK, TextOK, AddressesOK, ProgramOK, NamesOK

-----------------------------------------------------------------------------

(* For every text and every size of the arrays: until a step strays, and     *)
(* every array access is looked at for that, the stacks and the programs of  *)
(* the user stay in their arrays, and every user word that lu finds, also    *)
(* after a redefinition, can be called and starts within what was compiled   *)
(* (rv4th.c, dfnFunc and execVM).                                            *)
THEOREM MachineIsTyped == Spec => []ForthTypeOK
<1>1. Init => ForthTypeOK
  <2> SUFFICES ASSUME Init PROVE ForthTypeOK OBVIOUS
  <2>1. line \in Seq(Words) /\ wordBuffer \in Words
    <3>1. line \in Texts /\ wordBuffer = "" BY DEF Init
    <3>2. wordBuffer \in Words BY <3>1 DEF Words
    <3> QED BY <3>1, <3>2, ForthAssumption
  <2>2. MATH_STACK_SIZE \in Nat /\ MATH_STACK_SIZE >= 1 /\ ADDR_STACK_SIZE \in Nat
        /\ ADDR_STACK_SIZE >= 1 /\ USER_PROG_SIZE \in Nat /\ USER_PROG_SIZE >= 1
    BY ForthAssumption
  <2>3. /\ progCounter = BUILTIN_INTERP_OFFSET /\ mathStack = <<0>> /\ addrStack = <<>>
        /\ prog = <<>> /\ cmdList = <<>> /\ progOpcodes = <<>>
        /\ nested = 0 /\ strayed = FALSE /\ typed = <<>>
    BY Zenon DEF Init
  <2>4. DictionaryOK
    <3>1. \A n \in DOMAIN progOpcodes : FALSE BY ONLY <2>3
    <3>2. \A n \in 1..Len(cmdList) : FALSE BY ONLY <2>3
    <3> QED BY <3>1, <3>2 DEF DictionaryOK
  <2>5. mathStack \in Seq(Int) /\ Len(mathStack) \in 1..MATH_STACK_SIZE
    <3>1. <<0>> \in Seq(Int) /\ Len(<<0>>) = 1 OBVIOUS
    <3> QED BY <2>2, <2>3, <3>1
  <2>6. /\ addrStack \in Seq(Int) /\ Len(addrStack) < ADDR_STACK_SIZE
        /\ prog \in Seq(Int) /\ Len(prog) < USER_PROG_SIZE
        /\ cmdList \in Seq(Words) /\ typed \in Seq(Words)
    <3>1. \A S : <<>> \in Seq(S) OBVIOUS
    <3>2. Len(<<>>) = 0 OBVIOUS
    <3> QED BY <2>2, <2>3, <3>1, <3>2
  <2>7. progCounter \in Int /\ strayed \in BOOLEAN /\ nested \in Int /\ nested = 0
    <3>1. progCounter \in Int /\ nested \in Int /\ nested = 0 BY ONLY <2>3 DEF BUILTIN_INTERP_OFFSET
    <3>2. strayed \in BOOLEAN BY Zenon, <2>3
    <3> QED BY <3>1, <3>2
  <2> QED BY <2>1, <2>4, <2>5, <2>6, <2>7 DEF ForthTypeOK
<1>2. ForthTypeOK /\ [Next]_vars => ForthTypeOK'
  BY MathWordStep, ProgramSteps, BranchSteps, BeginUntilSteps, DoStep, LoopSteps, LoopCountStep,
     CallSteps, ExecStep, GetWordStep, DefineStep, NumberSteps, OtherSteps, StrayStep
  DEF Next
<1> QED BY <1>1, <1>2, PTL DEF Spec

-----------------------------------------------------------------------------
(* Compiled code names words by their opcodes. *)

(* A word keeps the opcode it was once given, whatever is defined or         *)
(* redefined later (rv4th.c, dfnFunc and lookupToken): what was compiled     *)
(* never comes to mean another word.                                         *)
OpcodesLast == [][\A w \in Words : FoundOpcode(w) # 0 => FoundOpcode(w)' = FoundOpcode(w)]_vars

LEMMA NamesGrow ==
  ASSUME [Next]_vars
  PROVE  UNCHANGED cmdList \/ dfnFunc
<1>1. CASE MathWord BY <1>1 DEF MathWord, dictionary
<1>2. CASE Comma \/ StoreProg BY <1>2 DEF Comma, StoreProg
<1>3. CASE pushnFunc \/ ifFunc \/ gotoFunc BY <1>3 DEF pushnFunc, ifFunc, gotoFunc, dictionary
<1>4. CASE Begin \/ Until \/ Do BY <1>4 DEF Begin, Until, Do, dictionary
<1>5. CASE Loop \/ PlusLoop BY <1>5 DEF Loop, PlusLoop, loopFunc, dictionary
<1>6. CASE LoopCount BY <1>6 DEF LoopCount, dictionary
<1>7. CASE Call \/ Return \/ execFunc BY <1>7 DEF Call, Return, execFunc, dictionary
<1>8. CASE getWordFunc \/ numFunc \/ luFunc BY <1>8 DEF getWordFunc, numFunc, luFunc, dictionary
<1>9. CASE Speak \/ NoOperation BY <1>9 DEF Speak, NoOperation, dictionary
<1>10. CASE Stray BY <1>10 DEF Stray, dictionary
<1>11. CASE UNCHANGED vars BY <1>11 DEF vars
<1>12. CASE dfnFunc BY <1>12
<1> QED
  BY <1>1, <1>2, <1>3, <1>4, <1>5, <1>6, <1>7, <1>8, <1>9, <1>10, <1>11, <1>12 DEF Next

THEOREM OpcodesStay == Spec => OpcodesLast
<1>1. ASSUME ForthTypeOK, [Next]_vars, NEW w \in Words, FoundOpcode(w) # 0
      PROVE  FoundOpcode(w)' = FoundOpcode(w)
  <2>1. CASE UNCHANGED cmdList BY <2>1 DEF FoundOpcode
  <2>2. CASE dfnFunc
    <3>1. cmdList \in Seq(Words) /\ wordBuffer \in Words BY <1>1 DEF ForthTypeOK
    <3>2. lookupToken(w, Append(cmdList, wordBuffer)) =
            IF lookupToken(w, cmdList) # 0 THEN lookupToken(w, cmdList)
            ELSE IF w = wordBuffer THEN Len(cmdList) + 1 ELSE 0
      BY ONLY <3>1, LookupLonger
    <3>3. cmdList' = Append(cmdList, wordBuffer) BY <2>2 DEF dfnFunc
    <3>4. lookupToken(w, cmdList) # 0 => lookupToken(w, cmdList') = lookupToken(w, cmdList)
      BY ONLY <3>2, <3>3
    <3>5. CASE lookupToken(w, cmdList) # 0 BY <3>4, <3>5 DEF FoundOpcode
    <3>6. CASE lookupToken(w, cmdList) = 0
      <4>1. lookupToken(w, cmdListBi) # 0 \/ lookupToken(w, cmdListBi2) # 0
        BY <1>1, <3>6 DEF FoundOpcode
      <4> QED BY <4>1 DEF FoundOpcode
    <3> QED BY <3>5, <3>6
  <2> QED BY <1>1, <2>1, <2>2, NamesGrow
<1>2. ForthTypeOK /\ [Next]_vars =>
        [\A w \in Words : FoundOpcode(w) # 0 => FoundOpcode(w)' = FoundOpcode(w)]_vars
  BY <1>1
<1> QED BY <1>2, MachineIsTyped, PTL DEF Spec, OpcodesLast

=============================================================================
