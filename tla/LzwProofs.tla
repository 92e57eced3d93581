------------------------------ MODULE LzwProofs ------------------------------
(***************************************************************************)
(* Proofs about Lzw, for bytes and dictionaries of every size.  While bytes *)
(* are compressed the decompressor can be imagined to follow: reading what  *)
(* was written so far brings it to tables that agree with the dictionary    *)
(* but for the newest string, whose last byte it does not know yet (InStep).*)
(* Afterwards the decompressor is on the way that was imagined (OnTheWay).  *)
(***************************************************************************)
EXTENDS Lzw, SequenceTheorems, WellFoundedInduction, TLAPS

-----------------------------------------------------------------------------
(* Induction over the natural numbers, stated for a set, and functions that *)
(* are defined by it.                                                       *)

Less == {ss \in Nat \X Nat : ss[1] < ss[2]}

LEMMA Least ==
  ASSUME NEW T, T \subseteq Nat, T # {}
  PROVE  \E n \in T : \A m \in T : n <= m
<1>1. IsWellFoundedOn(Less, Nat) BY NatLessThanWellFounded DEF OpToRel, Less
<1>2. \E x \in T : \A y \in T : ~ (<<y, x>> \in Less) BY <1>1, WFMin
<1>3. PICK x \in T : \A y \in T : ~ (<<y, x>> \in Less) BY <1>2
<1>4. ASSUME NEW m \in T PROVE x <= m
  <2>1. x \in Nat /\ m \in Nat OBVIOUS
  <2>2. ~ (<<m, x>> \in Less) BY <1>3
  <2>3. ~ (m < x) BY <2>1, <2>2 DEF Less
  <2> QED BY <2>1, <2>3
<1> QED BY <1>4

LEMMA Induct ==
  ASSUME NEW S, 0 \in S, \A n \in Nat : n \in S => n + 1 \in S
  PROVE  Nat \subseteq S
<1> DEFINE T == {n \in Nat : n \notin S}
<1> SUFFICES ASSUME T # {} PROVE FALSE OBVIOUS
<1>1. PICK n \in T : \A m \in T : n <= m
  <2> HIDE DEF T
  <2>1. T \subseteq Nat BY DEF T
  <2> QED BY <2>1, Least
<1>2. n # 0 /\ n - 1 \in Nat /\ n - 1 \notin T BY <1>1
<1>3. n - 1 \in S BY <1>2
<1> QED BY <1>1, <1>2, <1>3

\* Each value is computed from the one before it.
Iterates(f, base, step) == f[0] = base /\ \A n \in Nat : f[n + 1] = step[n][f[n]]

LEMMA Recursion ==
  ASSUME NEW S, NEW base \in S, NEW step \in [Nat -> [S -> S]]
  PROVE  \E f \in [Nat -> S] : Iterates(f, base, step)
<1> DEFINE Upto(g, n) == /\ g \in [0..n -> S] /\ g[0] = base
                         /\ \A m \in 0..(n - 1) : g[m + 1] = step[m][g[m]]
<1> DEFINE T == {n \in Nat : \E g : Upto(g, n)}
<1>1. 0 \in T
  <2>1. Upto([m \in 0..0 |-> base], 0) OBVIOUS
  <2> QED BY <2>1
<1>2. ASSUME NEW n \in Nat, n \in T PROVE n + 1 \in T
  <2>1. PICK g : Upto(g, n) BY <1>2
  <2>2. step[n][g[n]] \in S
    <3>1. g[n] \in S BY <2>1
    <3> QED BY <3>1
  <2> DEFINE last == step[n][g[n]]
             h == [m \in 0..(n + 1) |-> IF m = n + 1 THEN last ELSE g[m]]
  <2>3. h \in [0..(n + 1) -> S] BY <2>1, <2>2
  <2>4. h[0] = base BY <2>1
  <2>5. ASSUME NEW m \in 0..n PROVE h[m + 1] = step[m][h[m]]
    <3>1. h[m] = g[m] OBVIOUS
    <3>2. CASE m = n
      <4>1. h[m + 1] = last /\ m = n /\ h[m] = g[n]
        <5>1. m + 1 \in 0..(n + 1) /\ m + 1 = n + 1 BY <3>2
        <5> HIDE DEF last
        <5> QED BY <3>1, <3>2, <5>1
      <4> QED BY <4>1
    <3>3. CASE m # n
      <4>1. m \in 0..(n - 1) /\ h[m + 1] = g[m + 1] BY <3>3
      <4> QED BY <2>1, <3>1, <4>1
    <3> QED BY <3>2, <3>3
  <2> HIDE DEF h, last
  <2>6. Upto(h, n + 1)
    <3>1. n + 1 - 1 = n OBVIOUS
    <3> QED BY <2>3, <2>4, <2>5, <3>1
  <2> QED BY <2>6
<1>3. Nat \subseteq T
  <2> HIDE DEF T
  <2> QED BY <1>1, <1>2, Induct
<1>4. ASSUME NEW n \in Nat PROVE \E g : Upto(g, n) BY <1>3
\* Any two agree as far as they both go.
<1>5. ASSUME NEW a \in Nat, NEW b \in Nat, NEW g, NEW h, Upto(g, a), Upto(h, b)
      PROVE  \A m \in Nat : m <= a /\ m <= b => g[m] = h[m]
  <2> DEFINE U == {m \in Nat : m <= a /\ m <= b => g[m] = h[m]}
  <2>1. 0 \in U BY <1>5
  <2>2. ASSUME NEW m \in Nat, m \in U PROVE m + 1 \in U
    <3> SUFFICES ASSUME m + 1 <= a, m + 1 <= b PROVE g[m + 1] = h[m + 1] OBVIOUS
    <3>1. g[m] = h[m] BY <2>2
    <3>2. g[m + 1] = step[m][g[m]]
      <4>1. m \in 0..(a - 1) OBVIOUS
      <4> QED BY <1>5, <4>1
    <3>3. h[m + 1] = step[m][h[m]]
      <4>1. m \in 0..(b - 1) OBVIOUS
      <4> QED BY <1>5, <4>1
    <3> QED BY <3>1, <3>2, <3>3
  <2>3. Nat \subseteq U
    <3> HIDE DEF U
    <3> QED BY <2>1, <2>2, Induct
  <2> QED BY <2>3
<1> DEFINE some(n) == CHOOSE g : Upto(g, n)
<1>6. ASSUME NEW n \in Nat PROVE Upto(some(n), n)
  <2> HIDE DEF Upto
  <2> QED BY <1>4
<1> DEFINE f == [n \in Nat |-> some(n)[n]]
<1>7. f[0] = base
  <2>1. Upto(some(0), 0) BY <1>6
  <2> QED BY <2>1
<1>8. ASSUME NEW n \in Nat PROVE f[n] \in S
  <2>1. Upto(some(n), n) BY <1>6
  <2> HIDE DEF some
  <2> QED BY <2>1
<1>9. ASSUME NEW n \in Nat PROVE f[n + 1] = step[n][f[n]]
  <2>1. Upto(some(n), n) /\ Upto(some(n + 1), n + 1)
    <3>1. n + 1 \in Nat OBVIOUS
    <3> HIDE DEF Upto, some
    <3> QED BY <1>6, <3>1
  <2> HIDE DEF some
  <2>2. some(n + 1)[n] = some(n)[n]
    <3> HIDE DEF Upto
    <3>1. n <= n /\ n <= n + 1 /\ n + 1 \in Nat OBVIOUS
    <3> QED BY <1>5, <2>1, <3>1
  <2>3. n \in 0..(n + 1 - 1) OBVIOUS
  <2>4. some(n + 1)[n + 1] = step[n][some(n + 1)[n]] BY <2>1, <2>3
  <2> QED BY <2>2, <2>4
<1> HIDE DEF f
<1>10. f \in [Nat -> S]
  <2>1. f = [n \in Nat |-> some(n)[n]] BY DEF f
  <2> HIDE DEF some
  <2>2. f = [n \in Nat |-> f[n]] BY <2>1
  <2> QED BY <1>8, <2>2
<1> QED BY <1>7, <1>9, <1>10 DEF Iterates
-----------------------------------------------------------------------------
(* Powers of two and the sizes. *)

LEMMA PowerIs ==
  /\ Power[0] = 1
  /\ \A n \in Nat : Power[n] \in Nat \ {0} /\ Power[n + 1] = 2 * Power[n]
<1> DEFINE S == Nat \ {0}
           step == [n \in Nat |-> [p \in S |-> 2 * p]]
<1>1. PICK f \in [Nat -> S] : Iterates(f, 1, step)
  <2>1. step \in [Nat -> [S -> S]] OBVIOUS
  <2>2. 1 \in S OBVIOUS
  <2> HIDE DEF step, S
  <2> QED BY <2>1, <2>2, Recursion
<1>2. \A n \in Nat : f[n + 1] = 2 * f[n] BY <1>1 DEF Iterates
<1>3. f = [b \in Nat |-> IF b = 0 THEN 1 ELSE 2 * f[b - 1]]
  <2>1. ASSUME NEW b \in Nat PROVE f[b] = IF b = 0 THEN 1 ELSE 2 * f[b - 1]
    <3>1. CASE b = 0 BY <1>1, <3>1 DEF Iterates
    <3>2. CASE b # 0
      <4>1. b - 1 \in Nat /\ (b - 1) + 1 = b BY <3>2
      <4>2. f[(b - 1) + 1] = 2 * f[b - 1] BY <1>2, <4>1
      <4> QED BY <3>2, <4>1, <4>2
    <3> QED BY <3>1, <3>2
  <2>2. f = [b \in Nat |-> f[b]] BY <1>1
  <2> QED BY <2>1, <2>2
<1>4. Power = [b \in Nat |-> IF b = 0 THEN 1 ELSE 2 * Power[b - 1]]
  <2>1. \E g : g = [b \in Nat |-> IF b = 0 THEN 1 ELSE 2 * g[b - 1]] BY <1>3
  <2> QED BY <2>1 DEF Power
<1>5. Power[0] = 1 BY <1>4
<1>6. ASSUME NEW n \in Nat PROVE Power[n + 1] = 2 * Power[n]
  <2>1. n + 1 \in Nat /\ n + 1 # 0 /\ (n + 1) - 1 = n OBVIOUS
  <2> QED BY <1>4, <2>1
<1> DEFINE T == {n \in Nat : Power[n] \in Nat \ {0}}
<1>7. 0 \in T BY <1>5
<1>8. ASSUME NEW n \in Nat, n \in T PROVE n + 1 \in T BY <1>6, <1>8
<1>9. Nat \subseteq T
  <2> HIDE DEF T
  <2> QED BY <1>7, <1>8, Induct
<1> QED BY <1>5, <1>6, <1>9

LEMMA PowerGrows ==
  ASSUME NEW m \in Nat, NEW n \in Nat, m <= n
  PROVE  Power[m] <= Power[n]
<1> DEFINE T == {k \in Nat : Power[m] <= Power[m + k]}
<1>1. 0 \in T BY PowerIs
<1>2. ASSUME NEW k \in Nat, k \in T PROVE k + 1 \in T
  <2>1. m + k \in Nat /\ (m + k) + 1 = m + (k + 1) OBVIOUS
  <2>2. Power[(m + k) + 1] = 2 * Power[m + k] /\ Power[m + k] \in Nat /\ Power[m] \in Nat
    BY <2>1, PowerIs
  <2>3. Power[m] <= Power[(m + k) + 1] BY <1>2, <2>2
  <2> QED BY <2>1, <2>3
<1>3. Nat \subseteq T
  <2> HIDE DEF T
  <2> QED BY <1>1, <1>2, Induct
<1>4. n - m \in T BY <1>3
<1>5. m + (n - m) = n OBVIOUS
<1> QED BY <1>4, <1>5

\* There is room for at least two strings.
LEMMA Sizes ==
  /\ BASE \in Nat /\ LZW_TOTAL_CODES \in Nat
  /\ BASE >= 4 /\ LZW_TOTAL_CODES >= 2 * BASE
<1> USE LzwAssumption
<1>1. Power[1] = 2 /\ Power[2] = 4
  <2>1. Power[0 + 1] = 2 * Power[0] /\ Power[1 + 1] = 2 * Power[1] BY PowerIs
  <2> QED BY <2>1, PowerIs
<1>2. BASE >= 4
  <2>1. 2 <= BYTE_BITS OBVIOUS
  <2>2. Power[2] <= Power[BYTE_BITS] BY <2>1, PowerGrows
  <2> QED BY <1>1, <2>2 DEF BASE
<1>3. LZW_TOTAL_CODES >= 2 * BASE
  <2>1. BYTE_BITS + 1 \in Nat /\ BYTE_BITS + 1 <= LZW_MAX_BITS OBVIOUS
  <2>2. Power[BYTE_BITS + 1] <= Power[LZW_MAX_BITS] BY <2>1, PowerGrows
  <2>3. Power[BYTE_BITS + 1] = 2 * Power[BYTE_BITS] BY PowerIs
  <2> QED BY <2>2, <2>3 DEF BASE, LZW_TOTAL_CODES
<1> QED BY <1>2, <1>3, PowerIs DEF BASE, LZW_TOTAL_CODES

Nexts == FIRST_STRING..(LZW_TOTAL_CODES - 1)

LEMMA CodeBits ==
  ASSUME NEW m \in Nexts
  PROVE  /\ code_bits(m) \in Nat /\ code_bits(m) >= BYTE_BITS
         /\ Power[code_bits(m)] <= m /\ m < 2 * Power[code_bits(m)]
         /\ extras(m) = 2 * Power[code_bits(m)] - m - 1
<1> USE LzwAssumption
<1> DEFINE Fitting(b) == Power[b] <= m /\ m < Power[b + 1]
<1>1. m \in Nat /\ Power[BYTE_BITS] <= m /\ m < Power[LZW_MAX_BITS]
  BY Sizes DEF Nexts, FIRST_STRING, BASE, LZW_TOTAL_CODES
<1> DEFINE T == {k \in Nat : \/ Power[BYTE_BITS + k] <= m
                             \/ \E b \in BYTE_BITS..(BYTE_BITS + k - 1) : Fitting(b)}
<1>2. 0 \in T BY <1>1
<1>3. ASSUME NEW k \in Nat, k \in T PROVE k + 1 \in T
  <2>1. CASE Power[BYTE_BITS + k] <= m
    <3>1. CASE Power[BYTE_BITS + (k + 1)] <= m BY <3>1
    <3>2. CASE ~ (Power[BYTE_BITS + (k + 1)] <= m)
      <4>1. (BYTE_BITS + k) + 1 = BYTE_BITS + (k + 1) /\ BYTE_BITS + (k + 1) \in Nat OBVIOUS
      <4>2. Power[BYTE_BITS + (k + 1)] \in Nat BY <4>1, PowerIs
      <4>3. m < Power[(BYTE_BITS + k) + 1] BY <1>1, <3>2, <4>1, <4>2
      <4>4. Fitting(BYTE_BITS + k) BY <2>1, <4>3
      <4>5. BYTE_BITS + k \in BYTE_BITS..(BYTE_BITS + (k + 1) - 1) OBVIOUS
      <4> HIDE DEF Fitting
      <4> QED BY <4>4, <4>5
    <3> QED BY <3>1, <3>2
  <2>2. CASE \E b \in BYTE_BITS..(BYTE_BITS + k - 1) : Fitting(b)
    <3> HIDE DEF Fitting
    <3> QED BY <2>2
  <2> QED BY <1>3, <2>1, <2>2
<1>4. Nat \subseteq T
  <2> HIDE DEF T
  <2> QED BY <1>2, <1>3, Induct
<1>5. LZW_MAX_BITS - BYTE_BITS \in T BY <1>4
<1>6. BYTE_BITS + (LZW_MAX_BITS - BYTE_BITS) = LZW_MAX_BITS OBVIOUS
<1>7. ~ (Power[LZW_MAX_BITS] <= m) BY <1>1, PowerIs
<1>8. \E b \in BYTE_BITS..LZW_MAX_BITS : Fitting(b)
  <2>1. \E b \in BYTE_BITS..(BYTE_BITS + (LZW_MAX_BITS - BYTE_BITS) - 1) : Fitting(b)
    BY <1>5, <1>6, <1>7
  <2> HIDE DEF Fitting
  <2> QED BY <2>1, <1>6
<1>9. code_bits(m) \in BYTE_BITS..LZW_MAX_BITS /\ Fitting(code_bits(m))
  BY <1>8 DEF code_bits, Log
<1> HIDE DEF code_bits
<1>10. Power[code_bits(m) + 1] = 2 * Power[code_bits(m)] BY <1>9, PowerIs
<1> QED BY <1>9, <1>10 DEF extras

-----------------------------------------------------------------------------
(* Numbers in binary. *)

Bits == {0, 1}
Halves(r, n, w) == r = [b \in 0..w |-> IF b = 0 THEN n ELSE r[b - 1] \div 2]
Values(f, s) == f = [b \in 0..Len(s) |-> IF b = Len(s) THEN 0 ELSE s[b + 1] + 2 * f[b + 1]]

LEMMA BinaryIs ==
  ASSUME NEW n \in Nat, NEW w \in Nat
  PROVE  \E r \in [0..w -> Nat] : /\ r[0] = n /\ \A b \in 0..(w - 1) : r[b + 1] = r[b] \div 2
                                  /\ Binary(n, w) = [b \in 1..w |-> r[b - 1] % 2]
<1> DEFINE step == [b \in Nat |-> [p \in Nat |-> p \div 2]]
<1>1. PICK f \in [Nat -> Nat] : Iterates(f, n, step)
  <2>1. step \in [Nat -> [Nat -> Nat]] OBVIOUS
  <2> HIDE DEF step
  <2> QED BY <2>1, Recursion
<1>2. f[0] = n /\ \A b \in Nat : f[b + 1] = f[b] \div 2 BY <1>1 DEF Iterates
<1> DEFINE g == [b \in 0..w |-> f[b]]
<1>3. Halves(g, n, w)
  <2>1. ASSUME NEW b \in 0..w PROVE g[b] = IF b = 0 THEN n ELSE g[b - 1] \div 2
    <3>1. CASE b = 0 BY <1>2, <3>1
    <3>2. CASE b # 0
      <4>1. b - 1 \in Nat /\ b - 1 \in 0..w /\ (b - 1) + 1 = b BY <3>2
      <4>2. f[(b - 1) + 1] = f[b - 1] \div 2 BY <1>2, <4>1
      <4> QED BY <3>2, <4>1, <4>2
    <3> QED BY <3>1, <3>2
  <2>2. g = [b \in 0..w |-> g[b]] OBVIOUS
  <2> HIDE DEF g
  <2> QED BY <2>1, <2>2 DEF Halves
<1> DEFINE r == CHOOSE r : Halves(r, n, w)
<1>4. Halves(r, n, w)
  <2> HIDE DEF g
  <2> QED BY <1>3
<1>5. Binary(n, w) = [b \in 1..w |-> r[b - 1] % 2] BY DEF Binary, Halves
<1> HIDE DEF r
<1>6. r[0] = n BY <1>4 DEF Halves
<1>7. ASSUME NEW b \in 0..(w - 1) PROVE r[b + 1] = r[b] \div 2
  <2>1. b + 1 \in 0..w /\ b + 1 # 0 /\ (b + 1) - 1 = b OBVIOUS
  <2>2. r[b + 1] = IF b + 1 = 0 THEN n ELSE r[(b + 1) - 1] \div 2 BY <1>4, <2>1 DEF Halves
  <2> QED BY <2>1, <2>2
<1> DEFINE T == {b \in Nat : b <= w => r[b] \in Nat}
<1>8. 0 \in T BY <1>6
<1>9. ASSUME NEW b \in Nat, b \in T PROVE b + 1 \in T
  <2> SUFFICES ASSUME b + 1 <= w PROVE r[b + 1] \in Nat OBVIOUS
  <2>1. r[b] \in Nat /\ b \in 0..(w - 1) BY <1>9
  <2>2. r[b + 1] = r[b] \div 2 BY <1>7, <2>1
  <2> QED BY <2>1, <2>2
<1>10. Nat \subseteq T
  <2> HIDE DEF T
  <2> QED BY <1>8, <1>9, Induct
<1>11. r = [b \in 0..w |-> r[b]] BY <1>4 DEF Halves
<1>12. r \in [0..w -> Nat]
  <2>1. \A b \in 0..w : r[b] \in Nat BY <1>10
  <2> QED BY <1>11, <2>1
<1> QED BY <1>5, <1>6, <1>7, <1>12

LEMMA NumberIs ==
  ASSUME NEW s \in Seq(Bits)
  PROVE  \E f \in [0..Len(s) -> Nat] :
           /\ f[Len(s)] = 0 /\ \A b \in 0..(Len(s) - 1) : f[b] = s[b + 1] + 2 * f[b + 1]
           /\ Number(s) = f[0]
<1> DEFINE L == Len(s)
           step == [n \in Nat |-> [p \in Nat |-> (IF n < L THEN s[L - n] ELSE 0) + 2 * p]]
<1>0. L \in Nat /\ \A b \in 1..L : s[b] \in Nat BY DEF Bits
<1> HIDE DEF L
<1>1. PICK h \in [Nat -> Nat] : Iterates(h, 0, step)
  <2>1. step \in [Nat -> [Nat -> Nat]]
    <3>1. ASSUME NEW n \in Nat PROVE (IF n < L THEN s[L - n] ELSE 0) \in Nat
      <4>1. n < L => L - n \in 1..L BY <1>0
      <4> QED BY <1>0, <4>1
    <3> QED BY <3>1
  <2> HIDE DEF step
  <2>2. 0 \in Nat OBVIOUS
  <2> QED BY <2>1, <2>2, Recursion
<1>2. h[0] = 0 /\ \A n \in Nat : n < L => h[n + 1] = s[L - n] + 2 * h[n]
  <2>1. h[0] = 0 /\ \A n \in Nat : h[n + 1] = step[n][h[n]]
    <3> HIDE DEF step
    <3> QED BY <1>1 DEF Iterates
  <2> QED BY <2>1
<1> HIDE DEF step
<1> DEFINE g == [b \in 0..L |-> h[L - b]]
<1>3. g = [b \in 0..L |-> IF b = L THEN 0 ELSE s[b + 1] + 2 * g[b + 1]]
  <2>1. ASSUME NEW b \in 0..L PROVE g[b] = IF b = L THEN 0 ELSE s[b + 1] + 2 * g[b + 1]
    <3>1. CASE b = L BY <1>0, <1>2, <3>1
    <3>2. CASE b # L
      <4> DEFINE n == L - (b + 1)
      <4>1. n \in Nat /\ n < L /\ n + 1 = L - b /\ L - n = b + 1 /\ b + 1 \in 0..L
        BY <1>0, <3>2
      <4> HIDE DEF n
      <4>2. h[L - b] = s[b + 1] + 2 * h[n]
        <5>1. h[n + 1] = s[L - n] + 2 * h[n] BY <1>2, <4>1
        <5> QED BY <4>1, <5>1
      <4>3. g[b + 1] = h[n] BY <4>1 DEF n
      <4> QED BY <3>2, <4>2, <4>3
    <3> QED BY <3>1, <3>2
  <2>2. g = [b \in 0..L |-> g[b]] OBVIOUS
  <2> HIDE DEF g
  <2> QED BY <2>1, <2>2
<1>4. Values(g, s)
  <2> HIDE DEF g
  <2> QED BY <1>3 DEF Values, L
<1> DEFINE f == CHOOSE f : Values(f, s)
<1>5. Values(f, s)
  <2> HIDE DEF g
  <2> QED BY <1>4
<1>6. Number(s) = f[0] BY DEF Number, Values
<1> HIDE DEF f, g
<1>7. f = [b \in 0..L |-> IF b = L THEN 0 ELSE s[b + 1] + 2 * f[b + 1]]
  BY <1>5 DEF Values, L
<1>8. f[L] = 0 BY <1>0, <1>7
<1>9. ASSUME NEW b \in 0..(L - 1) PROVE f[b] = s[b + 1] + 2 * f[b + 1]
  <2>1. b \in 0..L /\ b # L BY <1>0
  <2> QED BY <1>7, <2>1
<1> DEFINE T == {n \in Nat : n <= L => f[L - n] \in Nat}
<1>10. 0 \in T BY <1>0, <1>8
<1>11. ASSUME NEW n \in Nat, n \in T PROVE n + 1 \in T
  <2> SUFFICES ASSUME n + 1 <= L PROVE f[L - (n + 1)] \in Nat OBVIOUS
  <2> DEFINE b == L - (n + 1)
  <2>1. b \in 0..(L - 1) /\ b + 1 = L - n /\ b + 1 \in 1..L BY <1>0
  <2> HIDE DEF b
  <2>2. f[b] = s[b + 1] + 2 * f[b + 1] BY <1>9, <2>1
  <2>3. f[L - n] \in Nat
    <3>1. n <= L BY <1>0
    <3> QED BY <1>11, <3>1
  <2>4. s[b + 1] \in Nat BY <1>0, <2>1
  <2>5. ASSUME NEW x \in Nat, NEW y \in Nat PROVE x + 2 * y \in Nat OBVIOUS
  <2>6. f[b + 1] \in Nat BY <2>1, <2>3
  <2>7. s[b + 1] + 2 * f[b + 1] \in Nat BY <2>4, <2>5, <2>6
  <2>8. f[b] \in Nat BY <2>2, <2>7
  <2> QED BY <2>8 DEF b
<1>12. Nat \subseteq T
  <2> HIDE DEF T
  <2> QED BY <1>10, <1>11, Induct
<1>13. ASSUME NEW b \in 0..L PROVE f[b] \in Nat
  <2>1. L - b \in Nat /\ L - b <= L /\ L - (L - b) = b BY <1>0
  <2>2. L - b \in T BY <1>12, <2>1
  <2>3. f[L - (L - b)] \in Nat BY <2>1, <2>2
  <2> QED BY <2>1, <2>3
<1>14. f \in [0..L -> Nat]
  <2>1. f = [b \in 0..L |-> f[b]] BY <1>7
  <2> QED BY <1>13, <2>1
<1> QED BY <1>6, <1>8, <1>9, <1>14 DEF L

LEMMA NumberRange ==
  ASSUME NEW s \in Seq(Bits)
  PROVE  Number(s) \in 0..(Power[Len(s)] - 1)
<1> DEFINE L == Len(s)
<1>0. L \in Nat /\ \A b \in 1..L : s[b] \in Bits OBVIOUS
<1>1. PICK f \in [0..L -> Nat] :
        /\ f[L] = 0 /\ \A b \in 0..(L - 1) : f[b] = s[b + 1] + 2 * f[b + 1]
        /\ Number(s) = f[0]
  BY NumberIs
<1> HIDE DEF L
<1> DEFINE T == {n \in Nat : n <= L => f[L - n] < Power[n]}
<1>2. 0 \in T
  <2>1. L - 0 = L BY <1>0
  <2>2. f[L - 0] < Power[0] BY <1>1, <2>1, PowerIs
  <2> QED BY <2>2
<1>3. ASSUME NEW n \in Nat, n \in T PROVE n + 1 \in T
  <2> SUFFICES ASSUME n + 1 <= L PROVE f[L - (n + 1)] < Power[n + 1] OBVIOUS
  <2> DEFINE b == L - (n + 1)
  <2>1. b \in 0..(L - 1) /\ b + 1 = L - n /\ b + 1 \in 1..L /\ b + 1 \in 0..L BY <1>0
  <2> HIDE DEF b
  <2>2. f[b] = s[b + 1] + 2 * f[b + 1] BY <1>1, <2>1
  <2>3. f[b + 1] < Power[n]
    <3>1. n <= L BY <1>0
    <3>2. f[L - n] < Power[n] BY <1>3, <3>1
    <3> QED BY <2>1, <3>2
  <2>4. s[b + 1] \in {0, 1} BY <1>0, <2>1 DEF Bits
  <2>5. f[b + 1] \in Nat BY <1>1, <2>1
  <2>6. Power[n] \in Nat /\ Power[n + 1] = 2 * Power[n] BY PowerIs
  <2>7. ASSUME NEW x \in {0, 1}, NEW y \in Nat, NEW p \in Nat, y < p PROVE x + 2 * y < 2 * p
    BY <2>7
  <2>8. s[b + 1] + 2 * f[b + 1] < 2 * Power[n] BY <2>3, <2>4, <2>5, <2>6, <2>7
  <2>9. f[b] < Power[n + 1] BY <2>2, <2>6, <2>8
  <2> QED BY <2>9 DEF b
<1>4. Nat \subseteq T
  <2> HIDE DEF T
  <2> QED BY <1>2, <1>3, Induct
<1>5. f[L - L] < Power[L] BY <1>0, <1>4
<1>6. L - L = 0 /\ 0 \in 0..L BY <1>0
<1>7. f[0] \in Nat /\ f[0] < Power[L] BY <1>1, <1>5, <1>6
<1>8. Power[L] \in Nat BY <1>0, PowerIs
<1>9. Number(s) = f[0] BY <1>1
<1>10. f[0] \in 0..(Power[L] - 1) BY <1>7, <1>8
<1> QED BY <1>9, <1>10 DEF L

LEMMA NumberOfBinary ==
  ASSUME NEW w \in Nat, NEW n \in Nat, n < Power[w]
  PROVE  /\ Binary(n, w) \in Seq(Bits) /\ Len(Binary(n, w)) = w
         /\ Number(Binary(n, w)) = n
<1> DEFINE s == Binary(n, w)
<1>1. PICK r \in [0..w -> Nat] : /\ r[0] = n /\ \A b \in 0..(w - 1) : r[b + 1] = r[b] \div 2
                                 /\ s = [b \in 1..w |-> r[b - 1] % 2]
  BY BinaryIs
<1> HIDE DEF s
<1>2. ASSUME NEW b \in 1..w PROVE s[b] = r[b - 1] % 2 /\ s[b] \in Bits
  <2>1. b - 1 \in 0..w OBVIOUS
  <2>2. s[b] = r[b - 1] % 2 BY <1>1
  <2>3. r[b - 1] \in Nat BY <1>1, <2>1
  <2>4. ASSUME NEW x \in Nat PROVE x % 2 \in Bits BY DEF Bits
  <2> QED BY <2>2, <2>3, <2>4
<1>3. s \in Seq(Bits) /\ Len(s) = w
  <2>1. s \in [1..w -> Bits]
    <3>1. s = [b \in 1..w |-> s[b]] BY <1>1
    <3> QED BY <1>2, <3>1
  <2> QED BY <2>1, IsASeq, LenProperties
<1>4. PICK f \in [0..w -> Nat] :
        /\ f[w] = 0 /\ \A b \in 0..(w - 1) : f[b] = s[b + 1] + 2 * f[b + 1]
        /\ Number(s) = f[0]
  BY <1>3, NumberIs
\* What is left of n after b halvings.
<1> DEFINE T == {b \in Nat : b <= w => r[b] < Power[w - b]}
<1>5. 0 \in T BY <1>1
<1>6. ASSUME NEW b \in Nat, b \in T PROVE b + 1 \in T
  <2> SUFFICES ASSUME b + 1 <= w PROVE r[b + 1] < Power[w - (b + 1)] OBVIOUS
  <2> DEFINE k == w - (b + 1)
  <2>1. k \in Nat /\ w - b = k + 1 /\ b \in 0..(w - 1) /\ b \in 0..w OBVIOUS
  <2> HIDE DEF k
  <2>2. r[b] < Power[k + 1] BY <1>6, <2>1
  <2>3. Power[k + 1] = 2 * Power[k] /\ Power[k] \in Nat BY <2>1, PowerIs
  <2>4. r[b] \in Nat /\ r[b + 1] = r[b] \div 2 BY <1>1, <2>1
  <2>5. ASSUME NEW x \in Nat, NEW p \in Nat, x < 2 * p PROVE x \div 2 < p BY <2>5
  <2>6. r[b + 1] < Power[k] BY <2>2, <2>3, <2>4, <2>5
  <2> QED BY <2>6 DEF k
<1>7. Nat \subseteq T
  <2> HIDE DEF T
  <2> QED BY <1>5, <1>6, Induct
<1>8. r[w] = 0
  <2>1. r[w] < Power[w - w] BY <1>7
  <2>2. w - w = 0 /\ w \in 0..w OBVIOUS
  <2>3. r[w] < 1 /\ r[w] \in Nat BY <1>1, <2>1, <2>2, PowerIs
  <2> QED BY <2>3
<1> DEFINE U == {m \in Nat : m <= w => f[w - m] = r[w - m]}
<1>9. 0 \in U BY <1>4, <1>8
<1>10. ASSUME NEW m \in Nat, m \in U PROVE m + 1 \in U
  <2> SUFFICES ASSUME m + 1 <= w PROVE f[w - (m + 1)] = r[w - (m + 1)] OBVIOUS
  <2> DEFINE b == w - (m + 1)
  <2>1. b \in 0..(w - 1) /\ b + 1 = w - m /\ b + 1 \in 1..w /\ b \in 0..w /\ (b + 1) - 1 = b
    OBVIOUS
  <2> HIDE DEF b
  <2>2. f[b] = s[b + 1] + 2 * f[b + 1] BY <1>4, <2>1
  <2>3. f[b + 1] = r[b + 1]
    <3>1. f[w - m] = r[w - m] BY <1>10
    <3> QED BY <2>1, <3>1
  <2>4. r[b + 1] = r[b] \div 2 /\ r[b] \in Nat BY <1>1, <2>1
  <2>5. s[b + 1] = r[b] % 2
    <3>1. s[b + 1] = r[(b + 1) - 1] % 2 BY <1>2, <2>1
    <3> QED BY <2>1, <3>1
  <2>6. ASSUME NEW x \in Nat PROVE (x % 2) + 2 * (x \div 2) = x OBVIOUS
  <2>7. f[b] = (r[b] % 2) + 2 * (r[b] \div 2) BY <2>2, <2>3, <2>4, <2>5
  <2>8. f[b] = r[b] BY <2>4, <2>6, <2>7
  <2> QED BY <2>8 DEF b
<1>11. Nat \subseteq U
  <2> HIDE DEF U
  <2> QED BY <1>9, <1>10, Induct
<1>12. f[w - w] = r[w - w]
  <2>1. w \in U
    <3> HIDE DEF U
    <3> QED BY <1>11
  <2>2. w <= w OBVIOUS
  <2>3. w <= w => f[w - w] = r[w - w] BY <2>1
  <2> QED BY <2>2, <2>3
<1>13. w - w = 0 OBVIOUS
<1>14. Number(s) = n BY <1>1, <1>4, <1>12, <1>13
<1> QED BY <1>3, <1>14 DEF s

-----------------------------------------------------------------------------
(* Symbols, written and read. *)

\* t stands in s after position at.
Has(s, at, t) == at + Len(t) <= Len(s) /\ \A b \in 1..Len(t) : s[at + b] = t[b]

\* The code split in what code_bits hold and the bit after them.
LEMMA SymbolIs ==
  ASSUME NEW m \in Nexts, NEW k \in 0..m
  PROVE  LET w == code_bits(m)
             e == extras(m)
             v == IF k < e THEN k ELSE (k + e) \div 2
         IN  /\ Symbol(k, m) \in Seq(Bits)
             /\ w \in Nat /\ e \in Nat /\ v \in Nat /\ v < Power[w]
             /\ Number(Binary(v, w)) = v /\ Len(Binary(v, w)) = w /\ Binary(v, w) \in Seq(Bits)
             /\ k < e => Symbol(k, m) = Binary(v, w)
             /\ k >= e => /\ Symbol(k, m) = Append(Binary(v, w), (k + e) % 2)
                          /\ v >= e /\ (k + e) % 2 \in Bits
                          /\ 2 * v - e + ((k + e) % 2) = k
<1> DEFINE w == code_bits(m)
           e == extras(m)
           P == Power[w]
           v == IF k < e THEN k ELSE (k + e) \div 2
<1>1. m \in Nat /\ k \in Nat /\ k <= m BY Sizes DEF Nexts, FIRST_STRING
<1>2. w \in Nat /\ P <= m /\ m < 2 * P /\ e = 2 * P - m - 1 BY CodeBits
<1>3. P \in Nat BY <1>2, PowerIs
<1> HIDE DEF w, e, P
<1>4. e \in Nat /\ e < P /\ k + e < 2 * P BY <1>1, <1>2, <1>3
<1>5. v \in Nat /\ v < P
  <2>1. ASSUME NEW x \in Nat, NEW y \in Nat, x < 2 * y PROVE x \div 2 \in Nat /\ x \div 2 < y
    BY <2>1
  <2>2. (k + e) \div 2 \in Nat /\ (k + e) \div 2 < P BY <1>1, <1>3, <1>4, <2>1
  <2>3. k < e => k < P BY <1>1, <1>3, <1>4
  <2> QED BY <1>1, <2>2, <2>3
<1>6. k >= e => v >= e /\ (k + e) % 2 \in Bits /\ 2 * v - e + ((k + e) % 2) = k
  <2> SUFFICES ASSUME k >= e
               PROVE  v >= e /\ (k + e) % 2 \in Bits /\ 2 * v - e + ((k + e) % 2) = k
    OBVIOUS
  <2>1. v = (k + e) \div 2 BY <1>1, <1>4
  <2>2. ASSUME NEW x \in Nat, NEW y \in Nat, x >= y
        PROVE  /\ (x + y) \div 2 >= y /\ (x + y) % 2 \in Bits
               /\ 2 * ((x + y) \div 2) - y + ((x + y) % 2) = x
    BY <2>2 DEF Bits
  <2> QED BY <1>1, <1>4, <2>1, <2>2
<1> HIDE DEF v
<1>7. Number(Binary(v, w)) = v /\ Len(Binary(v, w)) = w /\ Binary(v, w) \in Seq(Bits)
  BY <1>2, <1>5, NumberOfBinary DEF P
<1>8. Symbol(k, m) = IF k < e THEN Binary(v, w) ELSE Append(Binary(v, w), (k + e) % 2)
  BY DEF Symbol, e, w, v
<1>9. k < e => Symbol(k, m) = Binary(v, w) BY <1>8
<1>10. k >= e => Symbol(k, m) = Append(Binary(v, w), (k + e) % 2) BY <1>1, <1>4, <1>8
<1>11. Symbol(k, m) \in Seq(Bits)
  <2>1. CASE k < e BY <2>1, <1>7, <1>9
  <2>2. CASE k >= e
    <3>1. (k + e) % 2 \in Bits BY <1>6, <2>2
    <3>2. Append(Binary(v, w), (k + e) % 2) \in Seq(Bits) BY <1>7, <3>1, AppendProperties
    <3> QED BY <2>2, <1>10, <3>2
  <2> QED BY <1>1, <1>4, <2>1, <2>2
<1> QED BY <1>2, <1>4, <1>5, <1>6, <1>7, <1>9, <1>10, <1>11 DEF w, e, v, P

LEMMA SymbolLength ==
  ASSUME NEW m \in Nexts, NEW k \in 0..m
  PROVE  Symbol(k, m) \in Seq(Bits) /\ Len(Symbol(k, m)) \in Nat
<1>1. Symbol(k, m) \in Seq(Bits) BY SymbolIs
<1> QED BY <1>1, LenProperties

LEMMA LowIs ==
  ASSUME stream \in Seq(Bits), dec.at \in Nat, dec.next \in Nexts
  PROVE  /\ Low \in 0..(Power[Width] - 1) /\ Code \in 0..dec.next
         /\ Width \in Nat
<1> DEFINE w == Width
           e == extras(dec.next)
           P == Power[w]
           m == dec.next
           s == [b \in 1..w |-> Bit(dec.at + b)]
           last == Bit(dec.at + w + 1)
<1>1. m \in Nat BY Sizes DEF Nexts, FIRST_STRING
<1>2. w \in Nat /\ P <= m /\ m < 2 * P /\ e = 2 * P - m - 1 BY CodeBits DEF Width
<1>3. P \in Nat BY <1>2, PowerIs
<1>4. ASSUME NEW n \in Nat, n > 0 PROVE Bit(n) \in Bits
  <2>1. CASE n <= Len(stream)
    <3>1. n \in 1..Len(stream) BY <1>4, <2>1
    <3> QED BY <2>1, <3>1, ElementOfSeq DEF Bit
  <2>2. CASE ~ (n <= Len(stream)) BY <2>2 DEF Bit, Bits
  <2> QED BY <2>1, <2>2
<1>5. last \in Bits
  <2> HIDE DEF w
  <2>1. dec.at + w + 1 \in Nat /\ dec.at + w + 1 > 0 BY <1>2
  <2> QED BY <1>4, <2>1
<1>6. s \in Seq(Bits) /\ Len(s) = w
  <2> HIDE DEF w
  <2>1. ASSUME NEW b \in 1..w PROVE Bit(dec.at + b) \in Bits
    <3>1. dec.at + b \in Nat /\ dec.at + b > 0 BY <1>2
    <3> QED BY <1>4, <3>1
  <2>2. s \in [1..w -> Bits] BY <2>1
  <2> QED BY <1>2, <2>2, IsASeq, LenProperties
<1> HIDE DEF s
<1>7. Number(s) \in 0..(P - 1) BY <1>6, NumberRange
<1>8. Low = Number(s) BY DEF Low, s
<1>9. Low \in 0..(P - 1) BY <1>7, <1>8
<1>10. Code = IF Low >= e THEN 2 * Low - e + last ELSE Low BY DEF Code, Long
<1> HIDE DEF w, e, P, m, last
<1>11. Code \in 0..m
  <2>1. CASE Low >= e
    <3>1. Code = 2 * Low - e + last BY <1>10, <2>1
    <3>2. last \in {0, 1} BY <1>5 DEF Bits
    <3> QED BY <1>1, <1>2, <1>3, <1>9, <2>1, <3>1, <3>2
  <2>2. CASE ~ (Low >= e)
    <3>1. Code = Low BY <1>10, <2>2
    <3> QED BY <1>1, <1>2, <1>3, <1>9, <3>1
  <2> QED BY <2>1, <2>2
<1> QED BY <1>2, <1>9, <1>11 DEF w, P, m

LEMMA SymbolIsRead ==
  ASSUME stream \in Seq(Bits), dec.at \in Nat, dec.next \in Nexts, NEW k \in 0..dec.next,
         Has(stream, dec.at, Symbol(k, dec.next))
  PROVE  /\ ~ AtEnd /\ Code = k
         /\ Width + (IF Long THEN 1 ELSE 0) = Len(Symbol(k, dec.next))
<1> DEFINE m == dec.next
           w == Width
           e == extras(m)
           v == IF k < e THEN k ELSE (k + e) \div 2
           sent == Symbol(k, m)
           B == Binary(v, w)
           s == [b \in 1..w |-> Bit(dec.at + b)]
           bit == (k + e) % 2
<1>1. /\ sent \in Seq(Bits)
      /\ w \in Nat /\ e \in Nat /\ v \in Nat
      /\ Number(B) = v /\ Len(B) = w /\ B \in Seq(Bits)
      /\ k < e => sent = B
      /\ k >= e => sent = Append(B, bit) /\ v >= e /\ bit \in Bits /\ 2 * v - e + bit = k
  BY SymbolIs DEF Width
<1>2. k \in Nat /\ Len(stream) \in Nat BY LenProperties
<1>3a. Low = Number(s) BY DEF Low
<1>3b. Long <=> Low >= e BY DEF Long
<1>3c. Has(stream, dec.at, sent) OBVIOUS
<1>3d. v = IF k < e THEN k ELSE (k + e) \div 2 OBVIOUS
<1>3e. Code = IF Long THEN 2 * Low - e + Bit(dec.at + w + 1) ELSE Low BY DEF Code
<1>3f. AtEnd <=> \/ dec.at + w > Len(stream)
                 \/ Long /\ dec.at + w + 1 > Len(stream)
  BY DEF AtEnd
<1> HIDE DEF v, sent, B, bit, w, e, m
<1>4. Len(sent) = (IF k < e THEN w ELSE w + 1) /\ \A b \in 1..w : sent[b] = B[b]
  <2>1. CASE k < e BY <1>1, <2>1
  <2>2. CASE ~ (k < e)
    <3>1. k >= e BY <1>1, <1>2, <2>2
    <3>2. sent = Append(B, bit) /\ bit \in Bits BY <1>1, <3>1
    <3>3. Len(Append(B, bit)) = Len(B) + 1 /\ \A b \in 1..Len(B) : Append(B, bit)[b] = B[b]
      BY <1>1, <3>2, AppendProperties
    <3> QED BY <1>1, <2>2, <3>2, <3>3
  <2> QED BY <2>1, <2>2
<1>5. dec.at + Len(sent) <= Len(stream) /\ \A b \in 1..Len(sent) : stream[dec.at + b] = sent[b]
  BY <1>3c DEF Has
<1>6. s = B
  <2>1. ASSUME NEW b \in 1..w PROVE s[b] = B[b]
    <3>1. b \in 1..Len(sent) /\ dec.at + b <= Len(stream) BY <1>1, <1>2, <1>4, <1>5
    <3>2. stream[dec.at + b] = B[b] BY <1>4, <1>5, <3>1
    <3> QED BY <3>1, <3>2 DEF Bit
  <2>2. B = [b \in 1..w |-> B[b]] BY <1>1
  <2>3. s = [b \in 1..w |-> s[b]] OBVIOUS
  <2> HIDE DEF s
  <2> QED BY <2>1, <2>2, <2>3
<1>7. Low = v BY <1>1, <1>3a, <1>6
<1> HIDE DEF s
<1>8. CASE k < e
  <2>1. v = k BY <1>8, <1>3d
  <2>2. ~ Long BY <1>1, <1>2, <1>3b, <1>7, <1>8, <2>1
  <2>3. Code = k BY <1>3e, <1>7, <2>1, <2>2
  <2>4. Len(sent) = w BY <1>4, <1>8
  <2>5. ~ AtEnd BY <1>1, <1>2, <1>3f, <1>5, <2>2, <2>4
  <2> QED BY <1>1, <2>2, <2>3, <2>4, <2>5 DEF w, sent, m
<1>9. CASE ~ (k < e)
  <2>1. k >= e BY <1>1, <1>2, <1>9
  <2>2. sent = Append(B, bit) /\ v >= e /\ bit \in Bits /\ 2 * v - e + bit = k BY <1>1, <2>1
  <2>3. Long BY <1>3b, <1>7, <2>2
  <2>4. Len(sent) = w + 1 BY <1>4, <1>9
  <2>5. sent[w + 1] = bit BY <1>1, <2>2, AppendProperties
  <2>6. Bit(dec.at + w + 1) = bit
    <3>0. w \in Nat BY <1>1
    <3>1. w + 1 \in 1..Len(sent) /\ dec.at + (w + 1) = dec.at + w + 1 BY <3>0, <2>4
    <3>2. stream[dec.at + (w + 1)] = bit BY <1>5, <2>5, <3>1
    <3>3. dec.at + w + 1 <= Len(stream) BY <1>5, <2>4, <3>1
    <3> QED BY <3>1, <3>2, <3>3 DEF Bit
  <2>7. Code = k BY <1>3e, <1>7, <2>2, <2>3, <2>6
  <2>8. ~ AtEnd BY <1>1, <1>2, <1>3f, <1>5, <2>4
  <2> QED BY <1>1, <2>3, <2>4, <2>7, <2>8 DEF w, sent, m
<1> QED BY <1>8, <1>9

-----------------------------------------------------------------------------
(* The tables of the decompressor, and the strings in them. *)

Codes == 0..(LZW_TOTAL_CODES - 1)
Entries == BASE..(LZW_TOTAL_CODES - 1)
Decoders ==
  [at : Nat, next : Nexts, prefix : Codes, dst : Seq(Bytes),
   prefixes : [Entries -> {-1} \union Codes], terminators : [Entries -> {-1} \union Bytes]]

\* Also an entry that was left from before a clear is built on an earlier one;
\* that of CLEAR_CODE, which a full dictionary writes, is never looked up.
Descending(d) ==
  /\ \A c \in Entries : d.prefixes[c] # CLEAR_CODE
  /\ \A c \in Entries \ {BASE} : d.prefixes[c] < c

Made(d, n) ==
  \A c \in FIRST_STRING..n : d.prefixes[c] \in (0..(c - 1)) \ {CLEAR_CODE}
                             /\ d.terminators[c] \in Bytes

Sound(d) ==
  /\ d \in Decoders /\ Descending(d) /\ Made(d, d.next - 2)
  /\ d.prefix = CLEAR_CODE => d.next = FIRST_STRING
  /\ d.next > FIRST_STRING => d.prefix \in (0..(d.next - 2)) \ {CLEAR_CODE}

Spelled(g, d) ==
  g = [c \in -1..(LZW_TOTAL_CODES - 1) |->
         IF c < BASE THEN <<c>> ELSE Append(g[d.prefixes[c]], d.terminators[c])]

LEMMA StringIs ==
  ASSUME NEW d \in Decoders, Descending(d), NEW c \in -1..(LZW_TOTAL_CODES - 1)
  PROVE  String(d, c) = IF c < BASE THEN <<c>>
                        ELSE Append(String(d, d.prefixes[c]), d.terminators[c])
<1> DEFINE D == -1..(LZW_TOTAL_CODES - 1)
           S == [D -> Seq(Int)]
           better(g) == [k \in D |-> IF k < BASE THEN <<k>>
                                     ELSE Append(g[d.prefixes[k]], d.terminators[k])]
           step == [n \in Nat |-> [g \in S |-> better(g)]]
<1>1. ASSUME NEW k \in D, ~ (k < BASE)
      PROVE  k \in Entries /\ d.prefixes[k] \in D \ {BASE} /\ d.terminators[k] \in Int
             /\ (k # BASE => d.prefixes[k] < k)
  <2>1. k \in Entries BY <1>1, Sizes DEF Entries
  <2>2. d.prefixes \in [Entries -> {-1} \union Codes]
        /\ d.terminators \in [Entries -> {-1} \union Bytes] BY DEF Decoders
  <2>3. d.prefixes[k] \in {-1} \union Codes /\ d.terminators[k] \in {-1} \union Bytes
    BY <2>1, <2>2
  <2>4. d.prefixes[k] \in D BY <2>3, Sizes DEF Codes
  <2>5. d.terminators[k] \in Int BY <2>3, Sizes DEF Bytes
  <2>6. d.prefixes[k] # BASE BY <2>1 DEF Descending, CLEAR_CODE
  <2>7. k # BASE => d.prefixes[k] < k BY <2>1 DEF Descending
  <2> QED BY <2>1, <2>4, <2>5, <2>6, <2>7
<1>2. BASE \in Nat /\ LZW_TOTAL_CODES \in Nat /\ BASE < LZW_TOTAL_CODES /\ BASE > 0 BY Sizes
<1>3. ASSUME NEW g \in S PROVE better(g) \in S
  <2>1. ASSUME NEW k \in D
        PROVE  (IF k < BASE THEN <<k>> ELSE Append(g[d.prefixes[k]], d.terminators[k])) \in Seq(Int)
    <3>1. CASE k < BASE
      <4>1. k \in Int BY <1>2
      <4>2. <<k>> \in Seq(Int) BY <4>1
      <4> QED BY <3>1, <4>2
    <3>2. CASE ~ (k < BASE)
      <4>1. d.prefixes[k] \in D /\ d.terminators[k] \in Int BY <1>1, <3>2
      <4>2. g[d.prefixes[k]] \in Seq(Int) BY <4>1
      <4>3. Append(g[d.prefixes[k]], d.terminators[k]) \in Seq(Int)
        BY <4>1, <4>2, AppendProperties
      <4> QED BY <3>2, <4>3
    <3> QED BY <3>1, <3>2
  <2> QED BY <2>1
<1> DEFINE start == [k \in D |-> <<>>]
<1>4. PICK h \in [Nat -> S] : Iterates(h, start, step)
  <2>1. step \in [Nat -> [S -> S]]
    <3> HIDE DEF S, better
    <3> QED BY <1>3
  <2>2. start \in S OBVIOUS
  <2> HIDE DEF step, S, start
  <2> QED BY <2>1, <2>2, Recursion
<1>5. \A n \in Nat : h[n + 1] = better(h[n])
  <2>1. ASSUME NEW n \in Nat PROVE h[n + 1] = better(h[n])
    <3>1. h[n] \in S OBVIOUS
    <3>2. h[n + 1] = step[n][h[n]]
      <4> HIDE DEF step
      <4> QED BY <1>4 DEF Iterates
    <3>3. step[n][h[n]] = better(h[n])
      <4> HIDE DEF S, better
      <4> QED BY <3>1
    <3> HIDE DEF step, better
    <3> QED BY <3>2, <3>3
  <2> HIDE DEF better
  <2> QED BY <2>1
<1> HIDE DEF step, start
<1>6. ASSUME NEW n \in Nat, NEW k \in D
      PROVE  h[n + 1][k] = IF k < BASE THEN <<k>>
                           ELSE Append(h[n][d.prefixes[k]], d.terminators[k])
  <2>1. h[n + 1] = better(h[n]) BY <1>5
  <2> QED BY <2>1
<1> HIDE DEF better
<1> DEFINE T == {n \in Nat : \A k \in D \ {BASE} : k <= n => h[(n + 1) + 1][k] = h[n + 1][k]}
<1>7. 0 \in T
  <2>1. ASSUME NEW k \in D \ {BASE}, k <= 0 PROVE h[(0 + 1) + 1][k] = h[0 + 1][k]
    <3>1. k < BASE BY <1>2, <2>1
    <3>2. h[(0 + 1) + 1][k] = <<k>>
      <4>1. 0 + 1 \in Nat OBVIOUS
      <4> QED BY <1>6, <3>1, <4>1
    <3>3. h[0 + 1][k] = <<k>> BY <1>6, <3>1
    <3> QED BY <3>2, <3>3
  <2> QED BY <2>1
<1>8. ASSUME NEW n \in Nat, n \in T PROVE n + 1 \in T
  <2>1. ASSUME NEW k \in D \ {BASE}, k <= n + 1
        PROVE  h[((n + 1) + 1) + 1][k] = h[(n + 1) + 1][k]
    <3>0. n + 1 \in Nat /\ (n + 1) + 1 \in Nat OBVIOUS
    <3>1. CASE k < BASE
      <4>1. h[((n + 1) + 1) + 1][k] = <<k>> BY <1>6, <3>0, <3>1
      <4>2. h[(n + 1) + 1][k] = <<k>> BY <1>6, <3>0, <3>1
      <4> QED BY <4>1, <4>2
    <3>2. CASE ~ (k < BASE)
      <4> DEFINE p == d.prefixes[k]
      <4>1. p \in D \ {BASE} /\ p < k BY <1>1, <2>1, <3>2
      <4>2. p <= n BY <1>2, <2>1, <4>1
      <4>3. h[((n + 1) + 1) + 1][k] = Append(h[(n + 1) + 1][p], d.terminators[k])
        BY <1>6, <3>0, <3>2
      <4>4. h[(n + 1) + 1][k] = Append(h[n + 1][p], d.terminators[k]) BY <1>6, <3>0, <3>2
      <4>5. h[(n + 1) + 1][p] = h[n + 1][p] BY <1>8, <4>1, <4>2
      <4> QED BY <4>3, <4>4, <4>5
    <3> QED BY <3>1, <3>2
  <2> QED BY <2>1
<1>9. Nat \subseteq T
  <2> HIDE DEF T
  <2> QED BY <1>7, <1>8, Induct
<1> DEFINE N == LZW_TOTAL_CODES
           f == h[(N + 1) + 1]
<1>10. ASSUME NEW k \in D PROVE f[k] = IF k < BASE THEN <<k>>
                                       ELSE Append(f[d.prefixes[k]], d.terminators[k])
  <2>0. N \in Nat /\ N + 1 \in Nat BY <1>2
  <2> HIDE DEF N
  <2>1. f[k] = IF k < BASE THEN <<k>> ELSE Append(h[N + 1][d.prefixes[k]], d.terminators[k])
    BY <1>6, <2>0
  <2>2. ASSUME ~ (k < BASE) PROVE h[N + 1][d.prefixes[k]] = f[d.prefixes[k]]
    <3>1. d.prefixes[k] \in D \ {BASE} BY <1>1, <2>2
    <3>2. d.prefixes[k] <= N
      <4>1. \A x \in D : x <= N BY <1>2 DEF N
      <4> HIDE DEF D
      <4> QED BY <3>1, <4>1
    <3>3. N \in T
      <4> HIDE DEF T
      <4> QED BY <1>9, <2>0
    <3> QED BY <3>1, <3>2, <3>3
  <2> HIDE DEF f
  <2> QED BY <2>1, <2>2
<1>11. f \in S BY <1>2
<1> HIDE DEF f
<1>12. Spelled(f, d)
  <2>1. f = [k \in D |-> f[k]] BY <1>11
  <2>2. f = [k \in D |-> IF k < BASE THEN <<k>> ELSE Append(f[d.prefixes[k]], d.terminators[k])]
    BY <1>10, <2>1
  <2> QED BY <2>2 DEF Spelled
<1> DEFINE g == CHOOSE g : Spelled(g, d)
<1>13. Spelled(g, d) BY <1>12
<1>14. \A k : String(d, k) = g[k] BY DEF String, Spelled
<1> HIDE DEF g
<1>15. g[c] = IF c < BASE THEN <<c>> ELSE Append(g[d.prefixes[c]], d.terminators[c])
  BY <1>13 DEF Spelled
<1> QED BY <1>14, <1>15

\* A string is found in at most as many steps as there are strings up to it.
LEMMA StringBounds ==
  ASSUME NEW d \in Decoders, Descending(d), NEW n \in Nat, n < LZW_TOTAL_CODES, Made(d, n),
         NEW c \in (0..n) \ {CLEAR_CODE}
  PROVE  /\ String(d, c) \in Seq(Bytes) /\ Len(String(d, c)) >= 1
         /\ Len(String(d, c)) <= IF c < BASE THEN 1 ELSE c - BASE + 1
<1> DEFINE Good(k) == /\ String(d, k) \in Seq(Bytes) /\ Len(String(d, k)) >= 1
                      /\ Len(String(d, k)) <= IF k < BASE THEN 1 ELSE k - BASE + 1
           T == {m \in Nat : \A k \in (0..n) \ {CLEAR_CODE} : k < m => Good(k)}
<1>0. BASE \in Nat /\ BASE > 0 /\ LZW_TOTAL_CODES \in Nat BY Sizes
<1>1. 0 \in T OBVIOUS
<1>2. ASSUME NEW m \in Nat, m \in T PROVE m + 1 \in T
  <2> SUFFICES ASSUME NEW k \in (0..n) \ {CLEAR_CODE}, k < m + 1 PROVE Good(k) OBVIOUS
  <2>1. CASE k < m BY <1>2, <2>1
  <2>2. CASE k = m
    <3>1. k \in -1..(LZW_TOTAL_CODES - 1) BY <1>0
    <3>2. CASE k < BASE
      <4>1. String(d, k) = <<k>> BY <3>1, <3>2, StringIs
      <4>2. k \in Bytes BY <1>0, <3>2 DEF Bytes
      <4>3. <<k>> \in Seq(Bytes) /\ Len(<<k>>) = 1 BY <4>2
      <4> QED BY <3>2, <4>1, <4>3
    <3>3. CASE ~ (k < BASE)
      <4> DEFINE p == d.prefixes[k]
                 t == d.terminators[k]
      <4>1. k \in FIRST_STRING..n BY <1>0, <3>3 DEF FIRST_STRING, CLEAR_CODE
      <4>2. p \in (0..(k - 1)) \ {CLEAR_CODE} /\ t \in Bytes BY <4>1 DEF Made
      <4>3. p \in (0..n) \ {CLEAR_CODE} /\ p < m BY <2>2, <4>1, <4>2
      <4>4. Good(p) BY <1>2, <4>3
      <4>5. String(d, k) = Append(String(d, p), t) BY <3>1, <3>3, StringIs
      <4>6. Append(String(d, p), t) \in Seq(Bytes)
            /\ Len(Append(String(d, p), t)) = Len(String(d, p)) + 1
        BY <4>2, <4>4, AppendProperties
      <4>7. Len(String(d, p)) \in Nat BY <4>4, LenProperties
      <4>8. k - BASE >= 1 BY <1>0, <4>1 DEF FIRST_STRING
      <4>9. Len(String(d, p)) <= k - BASE
        <5>1. CASE p < BASE BY <1>0, <4>4, <4>7, <4>8, <5>1
        <5>2. CASE ~ (p < BASE)
          <6>1. Len(String(d, p)) <= p - BASE + 1 BY <4>4, <5>2
          <6>2. p <= k - 1 /\ p \in Int BY <4>2
          <6> QED BY <1>0, <4>7, <6>1, <6>2
        <5> QED BY <5>1, <5>2
      <4> HIDE DEF p, t
      <4>10. Good(k)
        <5>1. Len(String(d, k)) = Len(String(d, p)) + 1 /\ String(d, k) \in Seq(Bytes)
          BY <4>5, <4>6
        <5> QED BY <1>0, <3>3, <4>1, <4>7, <4>9, <5>1
      <4> QED BY <4>10
    <3> QED BY <3>2, <3>3
  <2> QED BY <2>1, <2>2
<1>3. Nat \subseteq T
  <2> HIDE DEF T
  <2> QED BY <1>1, <1>2, Induct
<1>4. c + 1 \in T /\ c < c + 1
  <2> HIDE DEF T
  <2> QED BY <1>3
<1> QED BY <1>4

-----------------------------------------------------------------------------
(* What the decompressor makes of a code. *)

Readable(d) == (0..(d.next - 1)) \ {CLEAR_CODE}
Known(d, k) == String(d, IF k = d.next - 1 THEN d.prefix ELSE k)
Text(d, k) == IF k = d.next - 1 THEN Append(Known(d, k), Head(Known(d, k))) ELSE Known(d, k)
Following(n) == IF n + 1 = LZW_TOTAL_CODES THEN FIRST_STRING ELSE n + 1

\* Its state after code k, n bits of the stream.
After(d, k, n) ==
  IF k = CLEAR_CODE
  THEN [at |-> d.at + n, next |-> FIRST_STRING, prefix |-> k, dst |-> d.dst,
        prefixes |-> d.prefixes, terminators |-> d.terminators]
  ELSE [at |-> d.at + n, next |-> Following(d.next), prefix |-> k, dst |-> d.dst \o Text(d, k),
        prefixes |-> IF d.prefix = CLEAR_CODE THEN d.prefixes
                     ELSE [d.prefixes EXCEPT ![d.next - 1] = d.prefix],
        terminators |-> IF d.prefix = CLEAR_CODE THEN d.terminators
                        ELSE [d.terminators EXCEPT ![d.next - 1] = Head(Known(d, k))]]

LEMMA SoundTyped ==
  ASSUME NEW d, Sound(d)
  PROVE  /\ d \in Decoders /\ Descending(d) /\ Made(d, d.next - 2)
         /\ d.at \in Nat /\ d.next \in Nat /\ d.next >= FIRST_STRING
         /\ d.next < LZW_TOTAL_CODES /\ d.prefix \in Codes /\ d.dst \in Seq(Bytes)
         /\ d.prefixes \in [Entries -> {-1} \union Codes]
         /\ d.terminators \in [Entries -> {-1} \union Bytes]
         /\ FIRST_STRING = BASE + 1 /\ CLEAR_CODE = BASE /\ BASE \in Nat /\ BASE >= 4
         /\ LZW_TOTAL_CODES \in Nat /\ LZW_TOTAL_CODES >= BASE + 4
<1>1. d \in Decoders BY DEF Sound
<1>2. /\ d.at \in Nat /\ d.next \in Nexts /\ d.prefix \in Codes /\ d.dst \in Seq(Bytes)
      /\ d.prefixes \in [Entries -> {-1} \union Codes]
      /\ d.terminators \in [Entries -> {-1} \union Bytes]
  BY <1>1 DEF Decoders
<1>3. /\ FIRST_STRING = BASE + 1 /\ CLEAR_CODE = BASE /\ BASE \in Nat /\ BASE >= 4
      /\ LZW_TOTAL_CODES \in Nat /\ LZW_TOTAL_CODES >= BASE + 4
  BY Sizes DEF FIRST_STRING, CLEAR_CODE
<1>4. d.next \in Nat /\ d.next >= FIRST_STRING /\ d.next < LZW_TOTAL_CODES
  BY <1>2, <1>3 DEF Nexts
<1> QED BY <1>1, <1>2, <1>3, <1>4 DEF Sound

LEMMA KnownIs ==
  ASSUME NEW d, Sound(d), NEW k \in Readable(d)
  PROVE  /\ Known(d, k) \in Seq(Bytes) /\ Len(Known(d, k)) >= 1
         /\ Text(d, k) \in Seq(Bytes) /\ Len(Text(d, k)) >= 1
         /\ Head(Known(d, k)) \in Bytes /\ Head(Text(d, k)) = Head(Known(d, k))
         /\ k < BASE => Text(d, k) = <<k>>
<1> DEFINE c == IF k = d.next - 1 THEN d.prefix ELSE k
           s == Known(d, k)
<1>0. /\ d.next \in Nat /\ d.next >= FIRST_STRING /\ d.next < LZW_TOTAL_CODES
      /\ FIRST_STRING = BASE + 1 /\ CLEAR_CODE = BASE /\ BASE \in Nat /\ BASE >= 4
      /\ LZW_TOTAL_CODES \in Nat
      /\ d \in Decoders /\ Descending(d) /\ Made(d, d.next - 2)
  BY SoundTyped
<1>1. c \in (0..(d.next - 2)) \ {CLEAR_CODE}
  <2>1. CASE k = d.next - 1
    <3>1. d.next > FIRST_STRING BY <1>0, <2>1 DEF Readable
    <3> QED BY <2>1, <3>1 DEF Sound
  <2>2. CASE k # d.next - 1 BY <1>0, <2>2 DEF Readable
  <2> QED BY <2>1, <2>2
<1>2. s = String(d, c) BY DEF Known
<1> HIDE DEF c
<1>3. d.next - 2 \in Nat /\ d.next - 2 < LZW_TOTAL_CODES BY <1>0
<1>4. s \in Seq(Bytes) /\ Len(s) >= 1 BY <1>0, <1>1, <1>2, <1>3, StringBounds
<1> HIDE DEF s
<1>5. s # <<>> /\ Len(s) \in Nat BY <1>4, LenProperties
<1>6. Head(s) \in Bytes BY <1>4, <1>5, HeadTailProperties
<1>7. /\ Append(s, Head(s)) \in Seq(Bytes) /\ Len(Append(s, Head(s))) = Len(s) + 1
      /\ Append(s, Head(s))[1] = s[1]
  <2>1. 1 \in 1..Len(s) BY <1>4, <1>5
  <2> QED BY <1>4, <1>6, <2>1, AppendProperties
<1>8. Head(Append(s, Head(s))) = Head(s) BY <1>7
<1>9. Text(d, k) = IF k = d.next - 1 THEN Append(s, Head(s)) ELSE s BY DEF Text, s
<1>10. Text(d, k) \in Seq(Bytes) /\ Len(Text(d, k)) >= 1 /\ Head(Text(d, k)) = Head(s)
  <2>1. CASE k = d.next - 1 BY <1>5, <1>7, <1>8, <1>9, <2>1
  <2>2. CASE k # d.next - 1 BY <1>4, <1>9, <2>2
  <2> QED BY <2>1, <2>2
<1>11. ASSUME k < BASE PROVE Text(d, k) = <<k>>
  <2>1. k # d.next - 1 BY <1>0, <1>11
  <2>2. c = k BY <2>1 DEF c
  <2>3. k \in -1..(LZW_TOTAL_CODES - 1) BY <1>0, <1>11 DEF Readable
  <2>4. String(d, k) = <<k>> BY <1>0, <1>11, <2>3, StringIs
  <2> QED BY <1>2, <1>9, <2>1, <2>2, <2>4
<1> QED BY <1>4, <1>6, <1>10, <1>11 DEF s

LEMMA AfterSound ==
  ASSUME NEW d, Sound(d), NEW k \in 0..(d.next - 1), NEW n \in Nat
  PROVE  Sound(After(d, k, n))
<1> DEFINE e == After(d, k, n)
<1>0. /\ d.at \in Nat /\ d.next \in Nat /\ d.next >= FIRST_STRING /\ d.next < LZW_TOTAL_CODES
      /\ FIRST_STRING = BASE + 1 /\ CLEAR_CODE = BASE /\ BASE \in Nat /\ BASE >= 4
      /\ LZW_TOTAL_CODES \in Nat /\ LZW_TOTAL_CODES >= BASE + 4
      /\ d.dst \in Seq(Bytes) /\ d.prefix \in Codes
      /\ d.prefixes \in [Entries -> {-1} \union Codes]
      /\ d.terminators \in [Entries -> {-1} \union Bytes]
  BY SoundTyped
<1>0a. /\ Following(d.next) \in Nat
       /\ Following(d.next) >= FIRST_STRING /\ Following(d.next) < LZW_TOTAL_CODES
       /\ Following(d.next) = d.next + 1 \/ Following(d.next) = FIRST_STRING
  <2>1. d.next \in Nat /\ d.next >= FIRST_STRING /\ d.next < LZW_TOTAL_CODES
    BY <1>0
  <2>2. FIRST_STRING \in Nat /\ LZW_TOTAL_CODES \in Nat /\ FIRST_STRING < LZW_TOTAL_CODES
    BY <1>0
  <2> QED BY <2>1, <2>2 DEF Following
<1>1. CASE k = CLEAR_CODE
  <2>1. e = [at |-> d.at + n, next |-> FIRST_STRING, prefix |-> k, dst |-> d.dst,
             prefixes |-> d.prefixes, terminators |-> d.terminators]
    BY <1>1 DEF After
  <2> HIDE DEF e
  <2>2. e \in Decoders
    <3>1. FIRST_STRING \in Nexts /\ k \in Codes /\ d.at + n \in Nat BY <1>0 DEF Nexts, Codes
    <3> QED BY <1>0, <2>1, <3>1 DEF Decoders
  <2>3. /\ e.prefixes = d.prefixes /\ e.next = FIRST_STRING /\ e.prefix = CLEAR_CODE BY <1>1, <2>1
  <2>4. Descending(e) BY <2>3 DEF Sound, Descending
  <2>5. Made(e, e.next - 2) BY <1>0, <2>3 DEF Made
  <2>6. ~ (e.next > FIRST_STRING) BY <1>0, <2>3
  <2>7. Sound(e) BY <2>2, <2>3, <2>4, <2>5, <2>6 DEF Sound
  <2> QED BY <2>7 DEF e
<1>2. CASE k # CLEAR_CODE
  <2> DEFINE next == Following(d.next)
             prefixes == IF d.prefix = CLEAR_CODE THEN d.prefixes
                         ELSE [d.prefixes EXCEPT ![d.next - 1] = d.prefix]
             byte == Head(Known(d, k))
             terminators == IF d.prefix = CLEAR_CODE THEN d.terminators
                            ELSE [d.terminators EXCEPT ![d.next - 1] = byte]
  <2>1. e = [at |-> d.at + n, next |-> next, prefix |-> k, dst |-> d.dst \o Text(d, k),
             prefixes |-> prefixes, terminators |-> terminators]
    BY <1>2 DEF After
  <2> HIDE DEF e
  <2>2. k \in Readable(d) BY <1>2 DEF Readable
  <2>3. Text(d, k) \in Seq(Bytes) /\ byte \in Bytes BY <2>2, KnownIs
  <2>4. next \in Nat /\ next >= FIRST_STRING /\ next < LZW_TOTAL_CODES
        /\ (next = d.next + 1 \/ next = FIRST_STRING)
    BY <1>0a
  <2> HIDE DEF next, byte
  <2>5. d.next - 1 \in Entries BY <1>0 DEF Entries
  <2>6. prefixes \in [Entries -> {-1} \union Codes] /\ terminators \in [Entries -> {-1} \union Bytes]
    BY <1>0, <2>3
  <2>7. /\ e.at = d.at + n /\ e.next = next /\ e.prefix = k /\ e.dst = d.dst \o Text(d, k)
        /\ e.prefixes = prefixes /\ e.terminators = terminators
    BY <2>1
  <2>8. e \in Decoders
    <3>1. next \in Nexts /\ k \in Codes /\ d.at + n \in Nat BY <1>0, <2>4 DEF Nexts, Codes
    <3>2. d.dst \o Text(d, k) \in Seq(Bytes) BY <1>0, <2>3, ConcatProperties
    <3> HIDE DEF prefixes, terminators
    <3> QED BY <2>1, <2>6, <3>1, <3>2 DEF Decoders
  <2>9. \A c \in Entries : c # d.next - 1 => prefixes[c] = d.prefixes[c] /\ terminators[c] = d.terminators[c]
    BY <1>0
  <2>10. d.prefix # CLEAR_CODE => prefixes[d.next - 1] = d.prefix /\ terminators[d.next - 1] = byte
    BY <1>0, <2>5
  <2>10a. d.prefix = CLEAR_CODE => prefixes = d.prefixes OBVIOUS
  <2> HIDE DEF prefixes, terminators
  <2>11. d.prefix # CLEAR_CODE /\ d.next - 1 # BASE => d.prefix \in (0..(d.next - 2)) \ {CLEAR_CODE}
    BY SMTT(30), <1>0 DEF Sound
  <2>12. Descending(e)
    <3>1. ASSUME NEW c \in Entries PROVE prefixes[c] # CLEAR_CODE /\ (c # BASE => prefixes[c] < c)
      <4>1. CASE c = d.next - 1 /\ d.prefix # CLEAR_CODE
        <5>1. c # BASE => d.prefix < c BY <1>0, <2>11, <4>1
        <5> QED BY <2>10, <4>1, <5>1
      <4>2. CASE ~ (c = d.next - 1 /\ d.prefix # CLEAR_CODE)
        <5>1. prefixes[c] = d.prefixes[c] BY <2>9, <2>10a, <4>2
        <5> QED BY <5>1 DEF Sound, Descending
      <4> QED BY <4>1, <4>2
    <3> QED BY <2>7, <3>1 DEF Descending
  <2>13. Made(e, e.next - 2)
    <3>1. ASSUME NEW c \in FIRST_STRING..(next - 2)
          PROVE  prefixes[c] \in (0..(c - 1)) \ {CLEAR_CODE} /\ terminators[c] \in Bytes
      <4>1. next = d.next + 1 /\ c \in Entries /\ c <= d.next - 1 BY <1>0, <2>4 DEF Entries
      <4>2. CASE c = d.next - 1
        <5>1. d.next > FIRST_STRING BY <1>0, <4>2
        <5>2. d.prefix # CLEAR_CODE BY <1>0, <5>1 DEF Sound
        <5>3. d.prefix \in (0..(d.next - 2)) \ {CLEAR_CODE} BY <5>1 DEF Sound
        <5>4. d.next - 2 = c - 1 BY <1>0, <4>2
        <5> QED BY <2>3, <2>10, <4>2, <5>2, <5>3, <5>4
      <4>3. CASE c # d.next - 1
        <5>0. c \in Int /\ c >= FIRST_STRING /\ c <= d.next - 1 BY <4>1
        <5>1. c \in FIRST_STRING..(d.next - 2) BY SMTT(30), <1>0, <4>3, <5>0
        <5>2. prefixes[c] = d.prefixes[c] /\ terminators[c] = d.terminators[c] BY <2>9, <4>1, <4>3
        <5> QED BY <5>1, <5>2 DEF Sound, Made
      <4> QED BY <4>2, <4>3
    <3> QED BY <2>7, <3>1 DEF Made
  <2>14. e.prefix # CLEAR_CODE BY <1>2, <2>7
  <2>15. e.next > FIRST_STRING => e.prefix \in (0..(e.next - 2)) \ {CLEAR_CODE}
    <3> SUFFICES ASSUME e.next > FIRST_STRING PROVE e.prefix \in (0..(e.next - 2)) \ {CLEAR_CODE}
      OBVIOUS
    <3>1. next = d.next + 1 BY <1>0, <2>4, <2>7
    <3>2. next - 2 = d.next - 1 BY <1>0, <3>1
    <3> QED BY <1>2, <2>7, <3>2
  <2>16. Sound(e) BY <2>8, <2>12, <2>13, <2>14, <2>15 DEF Sound
  <2> QED BY <2>16 DEF e
<1> QED BY <1>1, <1>2

-----------------------------------------------------------------------------
(* A decompressor in step with the compressor: it has read all but the      *)
(* pending string, and a string that the dictionary holds is in its tables  *)
(* too, unless it is the newest. Of that one it knows all but the last byte, *)
(* which is the first of the pending string.                                *)

Entry(d, pending, q) ==
  IF q = d.next - 1 THEN <<d.prefix, Head(Text(d, pending))>>
  ELSE <<d.prefixes[q], d.terminators[q]>>
InStep(d, pending, strings, text) ==
  /\ Sound(d) /\ pending \in Readable(d)
  /\ text = d.dst \o Text(d, pending)
  /\ d.next = FIRST_STRING => DOMAIN strings = {}
  /\ \A t \in DOMAIN strings : /\ strings[t] \in FIRST_STRING..(d.next - 1)
                               /\ t = Entry(d, pending, strings[t])

LEMMA Joined ==
  \A r \in Seq(Bytes), t \in Seq(Bytes), u \in Seq(Bytes) : (r \o t) \o u = r \o (t \o u)
BY ConcatAssociative

LEMMA BytesAreRead ==
  ASSUME NEW d, Sound(d), NEW c \in Bytes
  PROVE  c \in Readable(d) /\ Text(d, c) = <<c>> /\ Head(Text(d, c)) = c
<1>1. /\ d.next \in Nat /\ d.next >= FIRST_STRING /\ FIRST_STRING = BASE + 1
      /\ CLEAR_CODE = BASE /\ BASE \in Nat
  BY SoundTyped
<1>2. c \in Readable(d) /\ c < BASE BY <1>1 DEF Readable, Bytes
<1>3. Text(d, c) = <<c>> BY <1>2, KnownIs
<1> QED BY <1>2, <1>3

LEMMA LongerInStep ==
  ASSUME NEW d, NEW p, NEW strings, NEW text, InStep(d, p, strings, text),
         NEW c \in Bytes, <<p, c>> \in DOMAIN strings
  PROVE  InStep(d, strings[<<p, c>>], strings, Append(text, c))
<1> DEFINE q == strings[<<p, c>>]
<1>0. Sound(d) /\ p \in Readable(d) /\ text = d.dst \o Text(d, p) BY DEF InStep
<1>1. /\ d.next \in Nat /\ d.next >= FIRST_STRING /\ d.next < LZW_TOTAL_CODES
      /\ FIRST_STRING = BASE + 1 /\ CLEAR_CODE = BASE /\ BASE \in Nat
      /\ LZW_TOTAL_CODES \in Nat
      /\ d \in Decoders /\ Descending(d) /\ Made(d, d.next - 2) /\ d.dst \in Seq(Bytes)
  BY <1>0, SoundTyped
<1>2. q \in FIRST_STRING..(d.next - 1) /\ <<p, c>> = Entry(d, p, q) BY DEF InStep
<1> HIDE DEF q
<1>3. q \in Readable(d) BY <1>1, <1>2 DEF Readable
<1>4. Text(d, p) \in Seq(Bytes) /\ Len(Text(d, p)) >= 1 BY <1>0, KnownIs
<1>5. Text(d, q) = Append(Text(d, p), c)
  <2>1. CASE q = d.next - 1
    <3>1. p = d.prefix /\ c = Head(Text(d, p)) BY <1>2, <2>1 DEF Entry
    <3>2. d.next > FIRST_STRING BY <1>1, <1>2, <2>1
    <3>3. p \in (0..(d.next - 2)) \ {CLEAR_CODE} BY <1>0, <3>1, <3>2 DEF Sound
    <3>4. p # d.next - 1 BY <1>1, <3>3
    <3>5. Text(d, p) = String(d, p) BY <3>4 DEF Text, Known
    <3>6. Known(d, q) = String(d, p) BY <2>1, <3>1 DEF Known
    <3>7. Text(d, q) = Append(String(d, p), Head(String(d, p))) BY <2>1, <3>6 DEF Text
    <3> QED BY <3>1, <3>5, <3>7
  <2>2. CASE q # d.next - 1
    <3>1. p = d.prefixes[q] /\ c = d.terminators[q] BY <1>2, <2>2 DEF Entry
    <3>2. q \in FIRST_STRING..(d.next - 2) BY <1>1, <1>2, <2>2
    <3>3. d.prefixes[q] \in (0..(q - 1)) \ {CLEAR_CODE} BY <1>1, <3>2 DEF Made
    <3>4. p # d.next - 1 BY <1>1, <3>1, <3>2, <3>3
    <3>5. Text(d, p) = String(d, p) /\ Text(d, q) = String(d, q) BY <2>2, <3>4 DEF Text, Known
    <3>6. q \in -1..(LZW_TOTAL_CODES - 1) /\ ~ (q < BASE) BY <1>1, <3>2
    <3>7. String(d, q) = Append(String(d, d.prefixes[q]), d.terminators[q])
      BY <1>1, <3>6, StringIs
    <3> QED BY <3>1, <3>5, <3>7
  <2> QED BY <2>1, <2>2
<1>6. Append(text, c) = d.dst \o Text(d, q)
  <2>1. Append(Text(d, p), c) = Text(d, p) \o <<c>> BY <1>4, AppendIsConcat
  <2>2. <<c>> \in Seq(Bytes) OBVIOUS
  <2>3. (d.dst \o Text(d, p)) \o <<c>> = d.dst \o (Text(d, p) \o <<c>>)
    <3>1. d.dst \in Seq(Bytes) /\ Text(d, p) \in Seq(Bytes) BY <1>1, <1>4
    <3> QED BY <2>2, <3>1, Joined
  <2>4. d.dst \o Text(d, p) \in Seq(Bytes) BY <1>1, <1>4, ConcatProperties
  <2>5. Append(text, c) = text \o <<c>> BY <1>0, <2>4, AppendIsConcat
  <2> QED BY <1>0, <1>5, <2>1, <2>3, <2>5
<1>7. Head(Text(d, q)) = Head(Text(d, p))
  <2>1. 1 \in 1..Len(Text(d, p)) BY <1>4, LenProperties
  <2>2. Append(Text(d, p), c)[1] = Text(d, p)[1] BY <1>4, <2>1, AppendProperties
  <2> QED BY <1>5, <2>2
<1>8. \A t : Entry(d, q, t) = Entry(d, p, t) BY <1>7 DEF Entry
<1>9. InStep(d, q, strings, Append(text, c))
  <2>1. \A t \in DOMAIN strings : /\ strings[t] \in FIRST_STRING..(d.next - 1)
                                  /\ t = Entry(d, q, strings[t])
    BY <1>8 DEF InStep
  <2>2. d.next = FIRST_STRING => DOMAIN strings = {} BY DEF InStep
  <2> QED BY <1>0, <1>3, <1>6, <2>1, <2>2 DEF InStep
<1> QED BY <1>9 DEF q

LEMMA SentInStep ==
  ASSUME NEW d, NEW p, NEW strings, NEW text, InStep(d, p, strings, text),
         NEW c \in Bytes, NEW n \in Nat, d.next + 1 # LZW_TOTAL_CODES
  PROVE  InStep(After(d, p, n), c,
                [t \in DOMAIN strings \union {<<p, c>>} |->
                   IF t = <<p, c>> THEN d.next ELSE strings[t]],
                Append(text, c))
<1> DEFINE e == After(d, p, n)
           longer == [t \in DOMAIN strings \union {<<p, c>>} |->
                        IF t = <<p, c>> THEN d.next ELSE strings[t]]
<1>0. Sound(d) /\ p \in Readable(d) /\ text = d.dst \o Text(d, p) BY DEF InStep
<1>1. /\ d.next \in Nat /\ d.next >= FIRST_STRING /\ d.next < LZW_TOTAL_CODES
      /\ FIRST_STRING = BASE + 1 /\ CLEAR_CODE = BASE /\ BASE \in Nat
      /\ LZW_TOTAL_CODES \in Nat /\ d.dst \in Seq(Bytes)
      /\ d.prefixes \in [Entries -> {-1} \union Codes]
      /\ d.terminators \in [Entries -> {-1} \union Bytes]
  BY <1>0, SoundTyped
<1>2. p \in 0..(d.next - 1) /\ p # CLEAR_CODE BY <1>0 DEF Readable
<1>3. Sound(e) BY <1>0, <1>2, AfterSound
<1>4. /\ e.next = d.next + 1 /\ e.prefix = p /\ e.dst = text
      /\ e.prefixes = IF d.prefix = CLEAR_CODE THEN d.prefixes
                      ELSE [d.prefixes EXCEPT ![d.next - 1] = d.prefix]
      /\ e.terminators = IF d.prefix = CLEAR_CODE THEN d.terminators
                         ELSE [d.terminators EXCEPT ![d.next - 1] = Head(Known(d, p))]
  BY <1>0, <1>2 DEF After, Following
<1>5. Head(Known(d, p)) = Head(Text(d, p)) BY <1>0, KnownIs
<1> HIDE DEF e
<1>6. c \in Readable(e) /\ Text(e, c) = <<c>> /\ Head(Text(e, c)) = c BY <1>3, BytesAreRead
<1>7. Append(text, c) = e.dst \o Text(e, c)
  <2>1. Text(d, p) \in Seq(Bytes) BY <1>0, KnownIs
  <2>2. text \in Seq(Bytes) BY <1>0, <1>1, <2>1, ConcatProperties
  <2>3. Append(text, c) = text \o <<c>> BY <2>2, AppendIsConcat
  <2> QED BY <1>4, <1>6, <2>3
<1>8. e.next # FIRST_STRING BY <1>1, <1>4
<1>9. ASSUME NEW t \in DOMAIN longer
      PROVE  longer[t] \in FIRST_STRING..(e.next - 1) /\ t = Entry(e, c, longer[t])
  <2>1. CASE t = <<p, c>>
    <3>1. longer[t] = d.next BY <2>1
    <3>2. d.next \in FIRST_STRING..(e.next - 1) /\ d.next = e.next - 1 BY <1>1, <1>4
    <3>3. Entry(e, c, d.next) = <<p, c>> BY <1>4, <1>6, <3>2 DEF Entry
    <3> QED BY <2>1, <3>1, <3>2, <3>3
  <2>2. CASE t # <<p, c>>
    <3> DEFINE q == strings[t]
    <3>1. t \in DOMAIN strings /\ longer[t] = q BY <2>2
    <3>2. q \in FIRST_STRING..(d.next - 1) /\ t = Entry(d, p, q) BY <3>1 DEF InStep
    <3> HIDE DEF longer, q
    <3>3. q \in FIRST_STRING..(e.next - 1) /\ q # e.next - 1 /\ q \in Entries
      BY <1>1, <1>4, <3>2 DEF Entries
    <3>4. Entry(e, c, q) = <<e.prefixes[q], e.terminators[q]>> BY <3>3 DEF Entry
    <3>5. CASE q = d.next - 1
      <4>1. t = <<d.prefix, Head(Text(d, p))>> BY <3>2, <3>5 DEF Entry
      <4>2. d.prefix # CLEAR_CODE
        <5>1. d.next # FIRST_STRING BY <1>1, <3>2, <3>5
        <5> QED BY <1>0, <5>1 DEF Sound
      <4>3. e.prefixes[q] = d.prefix /\ e.terminators[q] = Head(Text(d, p))
        BY <1>1, <1>4, <1>5, <3>3, <3>5, <4>2
      <4> QED BY <3>1, <3>3, <3>4, <4>1, <4>3
    <3>6. CASE q # d.next - 1
      <4>1. t = <<d.prefixes[q], d.terminators[q]>> BY <3>2, <3>6 DEF Entry
      <4>2. e.prefixes[q] = d.prefixes[q] /\ e.terminators[q] = d.terminators[q]
        BY <1>1, <1>4, <3>3, <3>6
      <4> QED BY <3>1, <3>3, <3>4, <4>1, <4>2
    <3> QED BY <3>5, <3>6
  <2> QED BY <2>1, <2>2
<1> HIDE DEF longer
<1>10. InStep(e, c, longer, Append(text, c)) BY <1>3, <1>6, <1>7, <1>8, <1>9 DEF InStep
<1> QED BY <1>10 DEF e, longer

\* Both begin again.
LEMMA ResetInStep ==
  ASSUME NEW d, Sound(d), d.next = FIRST_STRING, NEW c \in Bytes
  PROVE  InStep(d, c, <<>>, Append(d.dst, c))
<1>1. c \in Readable(d) /\ Text(d, c) = <<c>> BY BytesAreRead
<1>2. d.dst \in Seq(Bytes) BY SoundTyped
<1>3. Append(d.dst, c) = d.dst \o <<c>> BY <1>2, AppendIsConcat
<1>4. DOMAIN <<>> = {} OBVIOUS
<1> QED BY <1>1, <1>3, <1>4 DEF InStep

-----------------------------------------------------------------------------
(* The decompressor reading a stream, d[i] its state after i codes k.       *)

Replay(s, d, k, n) ==
  /\ n \in Nat /\ d[0] = Fresh
  /\ \A i \in 0..(n - 1) :
       /\ k[i] \in 0..(d[i].next - 1) /\ Has(s, d[i].at, Symbol(k[i], d[i].next))
       /\ d[i + 1] = After(d[i], k[i], Len(Symbol(k[i], d[i].next)))

Reaches(s, x) == \E n, d, k : Replay(s, d, k, n) /\ d[n] = x
Passes(s, y, x) == \E n, d, k : Replay(s, d, k, n) /\ d[n] = x /\ \E i \in 0..n : d[i] = y

LEMMA FreshSound == Sound(Fresh) /\ Fresh.at = 0 /\ Fresh.next = FIRST_STRING /\ Fresh.dst = <<>>
<1>1. /\ Fresh.at = 0 /\ Fresh.next = FIRST_STRING /\ Fresh.prefix = CLEAR_CODE
      /\ Fresh.dst = <<>>
      /\ Fresh.prefixes = [c \in Entries |-> -1] /\ Fresh.terminators = [c \in Entries |-> -1]
  BY DEF Fresh, Entries
<1>2. /\ FIRST_STRING = BASE + 1 /\ CLEAR_CODE = BASE /\ BASE \in Nat /\ BASE >= 4
      /\ LZW_TOTAL_CODES \in Nat /\ LZW_TOTAL_CODES >= 2 * BASE
  BY Sizes DEF FIRST_STRING, CLEAR_CODE
<1>3. Fresh \in Decoders
  <2>1. FIRST_STRING \in Nexts /\ CLEAR_CODE \in Codes BY <1>2 DEF Nexts, Codes
  <2>2. 0 \in Nat /\ <<>> \in Seq(Bytes) OBVIOUS
  <2>3. [c \in Entries |-> -1] \in [Entries -> {-1} \union Codes]
        /\ [c \in Entries |-> -1] \in [Entries -> {-1} \union Bytes]
    OBVIOUS
  <2> QED BY <2>1, <2>2, <2>3 DEF Fresh, Entries, Decoders
<1>4. Descending(Fresh)
  <2>1. ASSUME NEW c \in Entries PROVE Fresh.prefixes[c] = -1 /\ c \in Nat
    BY <1>1, <1>2 DEF Entries
  <2>2. -1 # CLEAR_CODE BY <1>2
  <2>3. \A c \in Nat : -1 < c OBVIOUS
  <2> QED BY <2>1, <2>2, <2>3 DEF Descending
<1>5. Made(Fresh, Fresh.next - 2) BY <1>1, <1>2 DEF Made
<1>6. ~ (Fresh.next > FIRST_STRING) BY <1>1, <1>2
<1> QED BY <1>1, <1>3, <1>4, <1>5, <1>6 DEF Sound

LEMMA ReplaySound ==
  ASSUME NEW s, NEW d, NEW k, NEW n, Replay(s, d, k, n), NEW i \in 0..n
  PROVE  Sound(d[i])
<1>0. n \in Nat BY DEF Replay
<1> DEFINE T == {m \in Nat : m <= n => Sound(d[m])}
<1>1. 0 \in T BY FreshSound DEF Replay
<1>2. ASSUME NEW m \in Nat, m \in T PROVE m + 1 \in T
  <2> SUFFICES ASSUME m + 1 <= n PROVE Sound(d[m + 1]) OBVIOUS
  <2>1. m <= n /\ m \in 0..(n - 1) BY <1>0
  <2>2. Sound(d[m]) BY <1>2, <2>1
  <2> DEFINE sym == Symbol(k[m], d[m].next)
  <2>3. k[m] \in 0..(d[m].next - 1) /\ d[m + 1] = After(d[m], k[m], Len(sym)) BY <2>1 DEF Replay
  <2>4. Len(sym) \in Nat
    <3>1. d[m].next \in Nexts BY <2>2 DEF Sound, Decoders
    <3>2. d[m].next \in Nat BY <2>2, SoundTyped
    <3>3. k[m] \in 0..d[m].next BY <2>3, <3>2
    <3> QED BY <3>1, <3>3, SymbolLength
  <2> HIDE DEF sym
  <2> QED BY <2>2, <2>3, <2>4, AfterSound
<1>3. Nat \subseteq T
  <2> HIDE DEF T
  <2> QED BY <1>1, <1>2, Induct
<1>4. i \in T
  <2> HIDE DEF T
  <2> QED BY <1>0, <1>3
<1> QED BY <1>0, <1>4

LEMMA ReachedSound ==
  ASSUME NEW s, NEW x, Reaches(s, x)
  PROVE  Sound(x)
<1>1. PICK n, d, k : Replay(s, d, k, n) /\ d[n] = x BY DEF Reaches
<1>2. n \in 0..n BY <1>1 DEF Replay
<1> QED BY <1>1, <1>2, ReplaySound

LEMMA FreshReached ==
  ASSUME NEW s
  PROVE  Reaches(s, Fresh)
<1>1. Replay(s, [i \in {0} |-> Fresh], <<>>, 0) BY DEF Replay
<1>2. [i \in {0} |-> Fresh][0] = Fresh OBVIOUS
<1> QED BY <1>1, <1>2 DEF Reaches

LEMMA HasLonger ==
  ASSUME NEW s \in Seq(Bits), NEW t \in Seq(Bits), NEW at \in Nat, NEW u \in Seq(Bits),
         Has(s, at, u)
  PROVE  Has(s \o t, at, u)
<1>1. Len(s) \in Nat /\ Len(t) \in Nat /\ Len(u) \in Nat BY LenProperties
<1>2. Len(s \o t) = Len(s) + Len(t) /\ \A i \in 1..Len(s) : (s \o t)[i] = s[i]
  BY <1>1, ConcatProperties
<1>3. at + Len(u) <= Len(s \o t) BY <1>1, <1>2 DEF Has
<1>4. ASSUME NEW b \in 1..Len(u) PROVE (s \o t)[at + b] = u[b]
  <2>1. at + b \in 1..Len(s) BY <1>1 DEF Has
  <2> QED BY <1>2, <2>1 DEF Has
<1> QED BY <1>3, <1>4 DEF Has

LEMMA HasLast ==
  ASSUME NEW s \in Seq(Bits), NEW u \in Seq(Bits)
  PROVE  Has(s \o u, Len(s), u)
<1>1. Len(s) \in Nat /\ Len(u) \in Nat BY LenProperties
<1>2. Len(s \o u) = Len(s) + Len(u) BY ConcatProperties
<1>3. ASSUME NEW b \in 1..Len(u) PROVE (s \o u)[Len(s) + b] = u[b]
  <2>1. Len(s) + b \in 1..(Len(s) + Len(u)) /\ ~ (Len(s) + b <= Len(s)) /\ Len(s) + b - Len(s) = b
    BY <1>1
  <2> QED BY <1>1, <2>1, ConcatProperties
<1> QED BY <1>1, <1>2, <1>3 DEF Has

\* A stream that goes on is read as before.
LEMMA ReachesLonger ==
  ASSUME NEW s \in Seq(Bits), NEW t \in Seq(Bits), NEW x, Reaches(s, x)
  PROVE  Reaches(s \o t, x)
<1>1. PICK n, d, k : Replay(s, d, k, n) /\ d[n] = x BY DEF Reaches
<1>2. ASSUME NEW i \in 0..(n - 1) PROVE Has(s \o t, d[i].at, Symbol(k[i], d[i].next))
  <2>1. i \in 0..n BY <1>1 DEF Replay
  <2>2. Sound(d[i]) BY <1>1, <2>1, ReplaySound
  <2>3. d[i].at \in Nat /\ d[i].next \in Nat BY <2>2, SoundTyped
  <2>4. d[i].next \in Nexts BY <2>2 DEF Sound, Decoders
  <2>5. k[i] \in 0..d[i].next /\ Has(s, d[i].at, Symbol(k[i], d[i].next))
    BY <1>1, <2>3 DEF Replay
  <2>6. Symbol(k[i], d[i].next) \in Seq(Bits) BY <2>4, <2>5, SymbolLength
  <2> QED BY <2>3, <2>5, <2>6, HasLonger
<1>3. Replay(s \o t, d, k, n) BY <1>1, <1>2 DEF Replay
<1> QED BY <1>1, <1>3 DEF Reaches

\* Reading one symbol more.
LEMMA ReachesOn ==
  ASSUME NEW s \in Seq(Bits), NEW x, Reaches(s, x), x.at = Len(s), NEW c \in 0..(x.next - 1)
  PROVE  LET u == Symbol(c, x.next)
             y == After(x, c, Len(u))
         IN  /\ s \o u \in Seq(Bits) /\ Reaches(s \o u, y) /\ y.at = Len(s \o u)
             /\ Sound(y) /\ u \in Seq(Bits)
<1> DEFINE u == Symbol(c, x.next)
           y == After(x, c, Len(u))
<1>1. Sound(x) BY ReachedSound
<1>2. x.next \in Nat /\ x.next \in Nexts BY <1>1, SoundTyped DEF Sound, Decoders
<1>3. u \in Seq(Bits) /\ Len(u) \in Nat
  <2>1. c \in 0..x.next BY <1>2
  <2> QED BY <1>2, <2>1, SymbolLength
<1>4. y.at = x.at + Len(u) BY DEF After
<1>5. Sound(y) BY <1>1, <1>3, AfterSound
<1> HIDE DEF y, u
<1>6. s \o u \in Seq(Bits) /\ Len(s \o u) = Len(s) + Len(u) BY <1>3, ConcatProperties
<1>7. Has(s \o u, x.at, u) BY <1>3, HasLast
<1>8. Reaches(s \o u, x) BY <1>3, ReachesLonger
<1>9. PICK n, d, k : Replay(s \o u, d, k, n) /\ d[n] = x BY <1>8 DEF Reaches
<1> DEFINE dd == [i \in 0..(n + 1) |-> IF i = n + 1 THEN y ELSE d[i]]
           kk == [i \in 0..n |-> IF i = n THEN c ELSE k[i]]
<1>10. n \in Nat BY <1>9 DEF Replay
<1>11. dd[0] = Fresh BY <1>9, <1>10 DEF Replay
<1>12. ASSUME NEW i \in 0..((n + 1) - 1)
       PROVE  /\ kk[i] \in 0..(dd[i].next - 1)
              /\ Has(s \o u, dd[i].at, Symbol(kk[i], dd[i].next))
              /\ dd[i + 1] = After(dd[i], kk[i], Len(Symbol(kk[i], dd[i].next)))
  <2>1. CASE i = n
    <3>1. dd[i] = x /\ kk[i] = c /\ dd[i + 1] = y BY <1>9, <1>10, <2>1
    <3> HIDE DEF dd, kk
    <3> QED BY <1>7, <3>1 DEF u, y
  <2>2. CASE i # n
    <3>1. i \in 0..(n - 1) BY <1>10, <2>2
    <3>2. dd[i] = d[i] /\ kk[i] = k[i] /\ dd[i + 1] = d[i + 1] BY <1>10, <2>2, <3>1
    <3> HIDE DEF dd, kk
    <3> QED BY <1>9, <3>1, <3>2 DEF Replay
  <2> QED BY <2>1, <2>2
<1>13. dd[n + 1] = y BY <1>10
<1> HIDE DEF dd, kk
<1>14. Replay(s \o u, dd, kk, n + 1) BY <1>10, <1>11, <1>12 DEF Replay
<1>15. Reaches(s \o u, y) BY <1>13, <1>14 DEF Reaches
<1> QED BY <1>3, <1>4, <1>5, <1>6, <1>15 DEF u, y

LEMMA PassesStarts ==
  ASSUME NEW s, NEW x, Reaches(s, x)
  PROVE  Passes(s, Fresh, x)
<1>1. PICK n, d, k : Replay(s, d, k, n) /\ d[n] = x BY DEF Reaches
<1>2. 0 \in 0..n /\ d[0] = Fresh BY <1>1 DEF Replay
<1> QED BY <1>1, <1>2 DEF Passes

LEMMA PassesOn ==
  ASSUME NEW s, NEW x, NEW y, Passes(s, y, x)
  PROVE  /\ Sound(y)
         /\ \/ y = x
            \/ \E c \in 0..(y.next - 1) :
                 /\ Has(s, y.at, Symbol(c, y.next))
                 /\ Passes(s, After(y, c, Len(Symbol(c, y.next))), x)
<1>1. PICK n, d, k : Replay(s, d, k, n) /\ d[n] = x /\ \E i \in 0..n : d[i] = y BY DEF Passes
<1>2. PICK i \in 0..n : d[i] = y BY <1>1
<1>3. Sound(y) BY <1>1, <1>2, ReplaySound
<1>4. CASE i = n BY <1>1, <1>2, <1>3, <1>4
<1>5. CASE i # n
  <2>1. i \in 0..(n - 1) /\ i + 1 \in 0..n BY <1>1, <1>5 DEF Replay
  <2>2. /\ k[i] \in 0..(y.next - 1) /\ Has(s, y.at, Symbol(k[i], y.next))
        /\ d[i + 1] = After(y, k[i], Len(Symbol(k[i], y.next)))
    BY <1>1, <1>2, <2>1 DEF Replay
  <2>3. Passes(s, d[i + 1], x) BY <1>1, <2>1 DEF Passes
  <2> QED BY <1>3, <2>2, <2>3
<1> QED BY <1>4, <1>5

LEMMA AfterGrows ==
  ASSUME NEW d, Sound(d), NEW c \in 0..(d.next - 1), NEW n \in Nat
  PROVE  \E r \in Seq(Bytes) : After(d, c, n).dst = d.dst \o r
<1>1. d.dst \in Seq(Bytes) BY SoundTyped
<1>2. CASE c = CLEAR_CODE
  <2>1. After(d, c, n).dst = d.dst BY <1>2 DEF After
  <2>2. d.dst = d.dst \o <<>> /\ <<>> \in Seq(Bytes) BY <1>1, ConcatEmptySeq
  <2> QED BY <2>1, <2>2
<1>3. CASE c # CLEAR_CODE
  <2>1. c \in Readable(d) BY <1>3 DEF Readable
  <2>2. Text(d, c) \in Seq(Bytes) BY <2>1, KnownIs
  <2>3. After(d, c, n).dst = d.dst \o Text(d, c) BY <1>3 DEF After
  <2> QED BY <2>2, <2>3
<1> QED BY <1>2, <1>3

\* What it has written stays.
LEMMA PassesGrows ==
  ASSUME NEW s, NEW x, NEW y, Passes(s, y, x)
  PROVE  \E r \in Seq(Bytes) : x.dst = y.dst \o r
<1>1. PICK n, d, k : Replay(s, d, k, n) /\ d[n] = x /\ \E i \in 0..n : d[i] = y BY DEF Passes
<1>2. PICK i \in 0..n : d[i] = y BY <1>1
<1>3. n \in Nat BY <1>1 DEF Replay
<1> DEFINE Grown(a, b) == \E r \in Seq(Bytes) : d[b].dst = d[a].dst \o r
           T == {m \in Nat : i + m <= n => Grown(i, i + m)}
<1>4. y.dst \in Seq(Bytes)
  <2>1. Sound(y) BY <1>1, <1>2, ReplaySound
  <2> QED BY <2>1, SoundTyped
<1>5. 0 \in T
  <2>1. d[i].dst = d[i].dst \o <<>> /\ <<>> \in Seq(Bytes) BY <1>2, <1>4, ConcatEmptySeq
  <2>2. i + 0 = i OBVIOUS
  <2>3. Grown(i, i) BY <2>1
  <2> QED BY <2>2, <2>3
<1>6. ASSUME NEW m \in Nat, m \in T PROVE m + 1 \in T
  <2> SUFFICES ASSUME i + (m + 1) <= n PROVE Grown(i, i + (m + 1)) OBVIOUS
  <2> DEFINE j == i + m
  <2>1. j \in 0..n /\ j \in 0..(n - 1) /\ j + 1 = i + (m + 1) /\ i + m <= n BY <1>3
  <2>2. PICK r \in Seq(Bytes) : d[j].dst = d[i].dst \o r BY <1>6, <2>1
  <2> HIDE DEF j
  <2>3. Sound(d[j]) BY <1>1, <2>1, ReplaySound
  <2> DEFINE u == Symbol(k[j], d[j].next)
  <2>4. k[j] \in 0..(d[j].next - 1) /\ d[j + 1] = After(d[j], k[j], Len(u)) BY <1>1, <2>1 DEF Replay
  <2>5. Len(u) \in Nat
    <3>1. d[j].next \in Nexts BY <2>3 DEF Sound, Decoders
    <3>2. d[j].next \in Nat BY <2>3, SoundTyped
    <3>3. k[j] \in 0..d[j].next BY <2>4, <3>2
    <3> QED BY <3>1, <3>3, SymbolLength
  <2> HIDE DEF u
  <2>6. PICK t \in Seq(Bytes) : d[j + 1].dst = d[j].dst \o t
    <3> HIDE DEF Grown
    <3>1. \E t \in Seq(Bytes) : After(d[j], k[j], Len(u)).dst = d[j].dst \o t
      BY <2>3, <2>4, <2>5, AfterGrows
    <3> QED BY <2>4, <3>1
  <2>7. d[i].dst \in Seq(Bytes) BY <1>2, <1>4
  <2>8. (d[i].dst \o r) \o t = d[i].dst \o (r \o t)
    <3> HIDE DEF Grown
    <3> QED BY <2>7, Joined
  <2>9. r \o t \in Seq(Bytes) BY ConcatProperties
  <2>10. d[j + 1].dst = d[i].dst \o (r \o t) BY <2>2, <2>6, <2>8
  <2>11. Grown(i, j + 1) BY <2>9, <2>10
  <2> QED BY <2>1, <2>11
<1>7. Nat \subseteq T
  <2> HIDE DEF T
  <2> QED BY <1>5, <1>6, Induct
<1>8. Grown(i, n)
  <2>1. n - i \in Nat /\ i + (n - i) = n /\ n <= n BY <1>3
  <2>2. n - i \in T
    <3> HIDE DEF T
    <3> QED BY <1>7, <2>1
  <2>3. i + (n - i) <= n => Grown(i, i + (n - i)) BY <2>2
  <2> HIDE DEF Grown
  <2> QED BY <2>1, <2>3
<1> QED BY <1>1, <1>2, <1>8

-----------------------------------------------------------------------------
(* The invariant. *)

IsEncoder(e) ==
  e = [next |-> e.next, prefix |-> e.prefix, strings |-> e.strings,
       input_bytes |-> e.input_bytes, output_bytes |-> e.output_bytes]
LzwTyped ==
  /\ doing \in {"compress", "decompress", "end", "no room", "input ends"}
  /\ dst_max_bytes \in Nat
  /\ src \in Seq(Bytes) /\ stream \in Seq(Bits)
  /\ IsEncoder(enc) /\ enc.next \in Nexts
  /\ Sound(dec) /\ Len(dec.dst) <= dst_max_bytes

\* While compressing, some decompressor would be in step.
Accompanied ==
  doing = "compress" =>
    /\ dec = Fresh
    /\ \E x : /\ Reaches(stream, x) /\ x.at = Len(stream) /\ x.next = enc.next
              /\ IF enc.prefix = NULL_CODE
                 THEN x = Fresh /\ src = <<>> /\ enc.strings = <<>>
                 ELSE InStep(x, enc.prefix, enc.strings, src)

\* Only the code that is not used is left to read.
Ends(x) ==
  LET u == Symbol(x.next, x.next)
  IN  Has(stream, x.at, u) /\ Len(stream) < x.at + Len(u) + BYTE_BITS /\ x.dst = src
OnTheWay ==
  doing = "decompress" /\ enc.prefix # NULL_CODE => \E x : Passes(stream, dec, x) /\ Ends(x)

Returned ==
  enc.prefix # NULL_CODE =>
    /\ doing = "end" => dec.dst = src /\ Len(stream) - dec.at < BYTE_BITS
    /\ doing # "input ends"
    /\ doing = "no room" => dec.at = 0 \/ Len(src) > dst_max_bytes
    /\ doing \notin {"compress", "no room"} => Fits(stream)

LzwInv == LzwTyped /\ Accompanied /\ OnTheWay /\ Returned

LEMMA LzwInit == Init => LzwInv
<1> SUFFICES ASSUME Init PROVE LzwInv OBVIOUS
<1> USE LzwAssumption
<1>1. /\ src = <<>> /\ dec = Fresh
      /\ enc = [next |-> FIRST_STRING, prefix |-> NULL_CODE, strings |-> <<>>,
                input_bytes |-> 0, output_bytes |-> 0]
      /\ dst_max_bytes \in Nat /\ doing \in {"compress", "decompress"}
  BY DEF Init
<1>2. doing = "compress" => stream = <<>> BY DEF Init
<1>3. stream \in Seq(Bits)
  <2>1. CASE stream = <<>> BY <2>1
  <2>2. CASE stream \in Streams
    <3>1. PICK n \in 0..MaxStream : stream \in [1..n -> Bits] BY <2>2 DEF Streams, Bits
    <3>2. n \in Nat OBVIOUS
    <3> QED BY <3>1, <3>2, IsASeq
  <2> QED BY <1>1, <2>1, <2>2 DEF Init
<1>4. enc.prefix = NULL_CODE /\ enc.strings = <<>> /\ enc.next = FIRST_STRING /\ IsEncoder(enc)
  BY <1>1 DEF IsEncoder
<1>5. FIRST_STRING \in Nexts BY Sizes DEF Nexts, FIRST_STRING
<1>6. /\ Sound(Fresh) /\ Fresh.at = 0 /\ Fresh.next = FIRST_STRING /\ Fresh.dst = <<>>
      /\ Len(<<>>) = 0
  BY FreshSound
<1>7. LzwTyped
  <2>1. src \in Seq(Bytes) BY <1>1
  <2>2. Len(dec.dst) <= dst_max_bytes BY <1>1, <1>6
  <2>3. doing \in {"compress", "decompress", "end", "no room", "input ends"} BY <1>1
  <2> QED BY <1>1, <1>3, <1>4, <1>5, <1>6, <2>1, <2>2, <2>3 DEF LzwTyped
<1>8. Accompanied
  <2> SUFFICES ASSUME doing = "compress" PROVE Accompanied BY DEF Accompanied
  <2>1. Reaches(stream, Fresh) /\ Fresh.at = Len(stream) BY <1>2, <1>6, FreshReached
  <2> QED BY <1>1, <1>4, <1>6, <2>1 DEF Accompanied
<1> QED BY <1>4, <1>7, <1>8 DEF OnTheWay, Returned, LzwInv

LEMMA LzwStutter == LzwInv /\ UNCHANGED vars => LzwInv'
BY DEF LzwInv, LzwTyped, Accompanied, OnTheWay, Returned, vars, Ends, Fits

\* What every step of the compressor leaves.
LEMMA CompressorTyped ==
  ASSUME LzwInv, src' \in Seq(Bytes), stream' \in Seq(Bits), UNCHANGED <<dst_max_bytes, dec>>,
         doing' \in {"compress", "no room", "decompress"}, IsEncoder(enc'), enc'.next \in Nexts
  PROVE  LzwTyped'
BY DEF LzwInv, LzwTyped

LEMMA FirstByteStep ==
  ASSUME LzwInv, NEW c \in Bytes, FirstByte(c)
  PROVE  LzwInv'
<1>1. /\ doing = "compress" /\ src' = Append(src, c) /\ enc.prefix = NULL_CODE
      /\ enc' = [enc EXCEPT !.prefix = c, !.input_bytes = @ + 1]
      /\ doing' = "compress" /\ UNCHANGED <<dst_max_bytes, stream, dec>>
  BY DEF FirstByte, Compressing
<1>2. IsEncoder(enc) /\ enc.next \in Nexts /\ src \in Seq(Bytes) /\ stream \in Seq(Bits)
  BY DEF LzwInv, LzwTyped
<1>3. /\ enc'.prefix = c /\ enc'.next = enc.next /\ enc'.strings = enc.strings /\ IsEncoder(enc')
  BY <1>1, <1>2 DEF IsEncoder
<1>4. src' \in Seq(Bytes) BY <1>1, <1>2, AppendProperties
<1>5. LzwTyped' BY <1>1, <1>2, <1>3, <1>4, CompressorTyped
<1>6. /\ Reaches(stream, Fresh) /\ Fresh.at = Len(stream) /\ Fresh.next = enc.next
      /\ src = <<>> /\ enc.strings = <<>> /\ dec = Fresh
  BY <1>1 DEF LzwInv, Accompanied
<1>7. InStep(Fresh, c, <<>>, Append(<<>>, c))
  <2>1. InStep(Fresh, c, <<>>, Append(Fresh.dst, c)) BY FreshSound, ResetInStep
  <2> QED BY <2>1, FreshSound
<1>8. c # NULL_CODE BY Sizes DEF Bytes, NULL_CODE
<1>9. Accompanied' BY <1>1, <1>3, <1>6, <1>7, <1>8 DEF Accompanied
<1> QED BY <1>1, <1>5, <1>9 DEF LzwInv, OnTheWay, Returned

LEMMA LongerStringStep ==
  ASSUME LzwInv, NEW c \in Bytes, LongerString(c)
  PROVE  LzwInv'
<1> DEFINE q == enc.strings[<<enc.prefix, c>>]
<1>1. /\ doing = "compress" /\ src' = Append(src, c) /\ <<enc.prefix, c>> \in DOMAIN enc.strings
      /\ enc' = [enc EXCEPT !.prefix = q, !.input_bytes = @ + 1]
      /\ doing' = "compress" /\ UNCHANGED <<dst_max_bytes, stream, dec>>
  BY DEF LongerString, Compressing
<1>2. IsEncoder(enc) /\ enc.next \in Nexts /\ src \in Seq(Bytes) /\ stream \in Seq(Bits)
  BY DEF LzwInv, LzwTyped
<1>3. /\ enc'.prefix = q /\ enc'.next = enc.next /\ enc'.strings = enc.strings /\ IsEncoder(enc')
  BY <1>1, <1>2 DEF IsEncoder
<1>4. src' \in Seq(Bytes) BY <1>1, <1>2, AppendProperties
<1>5. LzwTyped' BY <1>1, <1>2, <1>3, <1>4, CompressorTyped
<1>6. dec = Fresh /\ enc.prefix # NULL_CODE
  <2>1. DOMAIN <<>> = {} OBVIOUS
  <2> QED BY <1>1, <2>1 DEF LzwInv, Accompanied
<1>7. PICK x : /\ Reaches(stream, x) /\ x.at = Len(stream) /\ x.next = enc.next
               /\ InStep(x, enc.prefix, enc.strings, src)
  BY <1>1, <1>6 DEF LzwInv, Accompanied
<1>8. InStep(x, q, enc.strings, Append(src, c)) BY <1>1, <1>7, LongerInStep
<1>9. q # NULL_CODE
  <2>1. Sound(x) /\ q \in Readable(x) BY <1>8 DEF InStep
  <2>2. x.next \in Nat BY <2>1, SoundTyped
  <2> QED BY <2>1, <2>2 DEF Readable, NULL_CODE
<1> HIDE DEF q
<1>10. Accompanied' BY <1>1, <1>3, <1>6, <1>7, <1>8, <1>9 DEF Accompanied
<1> QED BY <1>1, <1>5, <1>10 DEF LzwInv, OnTheWay, Returned

LEMMA SendPrefixStep ==
  ASSUME LzwInv, NEW c \in Bytes, SendPrefix(c)
  PROVE  LzwInv'
<1> DEFINE p == enc.prefix
           u == Symbol(p, enc.next)
           sent == stream \o u
           next == enc.next + 1
           input == enc.input_bytes + 1
           output == enc.output_bytes + Whole(sent) - Whole(stream)
           full == next = LZW_TOTAL_CODES
           reset == full \/ output > SLACK + input + input \div 16
           longer == [t \in DOMAIN enc.strings \union {<<p, c>>} |->
                        IF t = <<p, c>> THEN enc.next ELSE enc.strings[t]]
<1>1. /\ doing = "compress" /\ src' = Append(src, c) /\ p # NULL_CODE
      /\ stream' = IF reset /\ ~ full THEN sent \o Symbol(CLEAR_CODE, next) ELSE sent
      /\ enc' = IF reset
                THEN [next |-> FIRST_STRING, prefix |-> c, strings |-> <<>>,
                      input_bytes |-> 0, output_bytes |-> 0]
                ELSE [next |-> next, prefix |-> c, input_bytes |-> input, output_bytes |-> output,
                      strings |-> longer]
      /\ doing' \in {"compress", "no room"} /\ UNCHANGED <<dst_max_bytes, dec>>
  BY DEF SendPrefix, Compressing
<1> HIDE DEF input, output
<1>2. /\ IsEncoder(enc) /\ enc.next \in Nexts /\ src \in Seq(Bytes) /\ stream \in Seq(Bits)
      /\ dec = Fresh
  BY <1>1 DEF LzwInv, LzwTyped, Accompanied
<1>3. PICK x : /\ Reaches(stream, x) /\ x.at = Len(stream) /\ x.next = enc.next
               /\ InStep(x, p, enc.strings, src)
  BY <1>1 DEF LzwInv, Accompanied
<1> DEFINE y == After(x, p, Len(u))
<1>4. Sound(x) /\ p \in Readable(x) /\ src = x.dst \o Text(x, p) BY <1>3 DEF InStep
<1>5. p \in 0..(x.next - 1) /\ p # CLEAR_CODE BY <1>4 DEF Readable
<1>6. sent \in Seq(Bits) /\ Reaches(sent, y) /\ y.at = Len(sent) /\ Sound(y) /\ u \in Seq(Bits)
  BY <1>2, <1>3, <1>5, ReachesOn
<1>7. Len(u) \in Nat BY <1>6, LenProperties
<1>8. y.dst = src /\ y.next = Following(x.next) BY <1>4, <1>5 DEF After
<1>9. /\ x.next \in Nat /\ x.next >= FIRST_STRING /\ x.next < LZW_TOTAL_CODES
      /\ FIRST_STRING = BASE + 1 /\ CLEAR_CODE = BASE /\ BASE \in Nat /\ BASE >= 4
      /\ LZW_TOTAL_CODES \in Nat
  BY <1>4, SoundTyped
<1>10. c # NULL_CODE BY Sizes DEF Bytes, NULL_CODE
<1>11. src' \in Seq(Bytes) BY <1>1, <1>2, AppendProperties
<1>12. FIRST_STRING \in Nexts /\ (~ full => next \in Nexts) BY <1>3, <1>9 DEF Nexts
<1>13. IsEncoder(enc') /\ enc'.next \in Nexts /\ enc'.prefix = c
  <2>1. CASE reset BY <1>1, <1>12, <2>1 DEF IsEncoder
  <2>2. CASE ~ reset BY <1>1, <1>12, <2>2 DEF IsEncoder
  <2> QED BY <2>1, <2>2
<1>14. stream' \in Seq(Bits) /\
       \E z : /\ Reaches(stream', z) /\ z.at = Len(stream') /\ z.next = enc'.next
              /\ InStep(z, c, enc'.strings, Append(src, c))
  <2>1. CASE ~ reset
    <3>1. stream' = sent /\ enc'.next = next /\ enc'.strings = longer BY <1>1, <2>1
    <3>2. x.next + 1 # LZW_TOTAL_CODES BY <1>3, <2>1
    <3>3. y.next = enc'.next BY <1>3, <1>8, <3>1, <3>2 DEF Following
    <3>4. longer = [t \in DOMAIN enc.strings \union {<<p, c>>} |->
                      IF t = <<p, c>> THEN x.next ELSE enc.strings[t]]
      BY <1>3
    <3> HIDE DEF longer, u
    <3>5. InStep(y, c, longer, Append(src, c)) BY <1>3, <1>7, <3>2, <3>4, SentInStep
    <3> HIDE DEF y, sent
    <3> QED BY <1>6, <3>1, <3>3, <3>5
  <2>2. CASE full
    <3>1. stream' = sent /\ enc'.next = FIRST_STRING /\ enc'.strings = <<>> BY <1>1, <2>2
    <3>2. y.next = FIRST_STRING BY <1>3, <1>8, <2>2 DEF Following
    <3> HIDE DEF y, sent
    <3>3. InStep(y, c, <<>>, Append(y.dst, c)) BY <1>6, <3>2, ResetInStep
    <3> QED BY <1>6, <1>8, <3>1, <3>2, <3>3
  <2>3. CASE reset /\ ~ full
    <3> DEFINE v == Symbol(CLEAR_CODE, next)
               z == After(y, CLEAR_CODE, Len(v))
    <3>1. stream' = sent \o v /\ enc'.next = FIRST_STRING /\ enc'.strings = <<>> BY <1>1, <2>3
    <3>2. y.next = next BY <1>3, <1>8, <2>3 DEF Following
    <3>3. CLEAR_CODE \in 0..(y.next - 1) BY <1>3, <1>9, <3>2
    <3> HIDE DEF y, sent, next
    <3>4. /\ sent \o v \in Seq(Bits) /\ Reaches(sent \o v, z) /\ z.at = Len(sent \o v) /\ Sound(z)
      BY <1>6, <3>2, <3>3, ReachesOn
    <3>5. z.next = FIRST_STRING /\ z.dst = src BY <1>8 DEF After
    <3> HIDE DEF z, v
    <3>6. InStep(z, c, <<>>, Append(z.dst, c)) BY <3>4, <3>5, ResetInStep
    <3> QED BY <3>1, <3>4, <3>5, <3>6
  <2> QED BY <2>1, <2>2, <2>3
<1> HIDE DEF y, u, sent, next, full, reset, longer
<1>15. LzwTyped' BY <1>1, <1>11, <1>13, <1>14, CompressorTyped
<1>16. Accompanied' BY <1>1, <1>2, <1>10, <1>13, <1>14 DEF Accompanied
<1>17. Returned'
  <2>1. dec'.at = 0 BY <1>1, <1>2, FreshSound
  <2> QED BY <1>1, <2>1 DEF Returned
<1> QED BY <1>1, <1>15, <1>16, <1>17 DEF LzwInv, OnTheWay

LEMMA PaddedIs ==
  ASSUME NEW s \in Seq(Bits)
  PROVE  \E z \in Seq(Bits) : Padded(s) = s \o z /\ Len(z) < BYTE_BITS
<1> DEFINE n == (- Len(s)) % BYTE_BITS
           z == [i \in 1..n |-> 0]
<1>1. n \in Nat /\ n < BYTE_BITS
  <2>1. ASSUME NEW l \in Nat, NEW b \in Nat, b > 1 PROVE (- l) % b \in 0..(b - 1) BY <2>1
  <2>2. Len(s) \in Nat BY LenProperties
  <2>3. n \in 0..(BYTE_BITS - 1) BY <2>1, <2>2, LzwAssumption
  <2> HIDE DEF n
  <2> QED BY <2>3, LzwAssumption
<1>2. Padded(s) = s \o z BY DEF Padded
<1> HIDE DEF n
<1>3. z \in Seq(Bits) /\ Len(z) = n
  <2>1. z \in [1..n -> Bits] BY DEF Bits
  <2> QED BY <1>1, <2>1, IsASeq, LenProperties
<1> QED BY <1>1, <1>2, <1>3

LEMMA CompressEndStep ==
  ASSUME LzwInv, CompressEnd
  PROVE  LzwInv'
<1> DEFINE pending == enc.prefix # NULL_CODE
           u == IF pending THEN Symbol(enc.prefix, enc.next) ELSE <<>>
           next == IF ~ pending THEN enc.next
                   ELSE IF enc.next + 1 = LZW_TOTAL_CODES THEN FIRST_STRING ELSE enc.next + 1
           last == Symbol(next, next)
           sent == stream \o u
<1>1. /\ doing = "compress" /\ stream' = Padded(sent \o last)
      /\ doing' = IF Fits(stream') THEN "decompress" ELSE "no room"
      /\ UNCHANGED <<dst_max_bytes, src, enc, dec>>
  BY DEF CompressEnd
<1>2. /\ IsEncoder(enc) /\ enc.next \in Nexts /\ src \in Seq(Bytes) /\ stream \in Seq(Bits)
      /\ dec = Fresh
  BY <1>1 DEF LzwInv, LzwTyped, Accompanied
<1>3. next \in Nexts /\ next \in 0..next
  <2>1. FIRST_STRING \in Nat /\ FIRST_STRING < LZW_TOTAL_CODES /\ LZW_TOTAL_CODES \in Nat
    BY Sizes DEF FIRST_STRING
  <2> QED BY <1>2, <2>1 DEF Nexts
<1>4. last \in Seq(Bits) /\ Len(last) \in Nat
  <2> HIDE DEF next
  <2> QED BY <1>3, SymbolLength
<1> DEFINE Way(y) == /\ Reaches(sent, y) /\ y.at = Len(sent) /\ y.next = next /\ y.dst = src
<1>5. sent \in Seq(Bits) /\ (pending => \E y : Way(y))
  <2>1. CASE ~ pending
    <3>1. u = <<>> BY <2>1
    <3>2. sent = stream BY <1>2, <3>1, ConcatEmptySeq
    <3> QED BY <1>2, <2>1, <3>2
  <2>2. CASE pending
    <3>1. PICK x : /\ Reaches(stream, x) /\ x.at = Len(stream) /\ x.next = enc.next
                   /\ InStep(x, enc.prefix, enc.strings, src)
      BY <1>1, <2>2 DEF LzwInv, Accompanied
    <3>2. /\ Sound(x) /\ enc.prefix \in Readable(x) /\ src = x.dst \o Text(x, enc.prefix)
      BY <3>1 DEF InStep
    <3>3. enc.prefix \in 0..(x.next - 1) /\ enc.prefix # CLEAR_CODE BY <3>2 DEF Readable
    <3>4. u = Symbol(enc.prefix, x.next) BY <2>2, <3>1
    <3> DEFINE y == After(x, enc.prefix, Len(u))
    <3>5. y.next = next /\ y.dst = src BY <2>2, <3>1, <3>2, <3>3 DEF After, Following
    <3> HIDE DEF u, next
    <3>6. sent \in Seq(Bits) /\ Reaches(sent, y) /\ y.at = Len(sent)
      BY <1>2, <3>1, <3>3, <3>4, ReachesOn
    <3> HIDE DEF y, sent
    <3> QED BY <3>5, <3>6
  <2> QED BY <2>1, <2>2
<1> HIDE DEF sent, u, next, last
<1>6. sent \o last \in Seq(Bits) /\ Len(sent \o last) = Len(sent) + Len(last)
  BY <1>4, <1>5, ConcatProperties
<1>7. PICK z \in Seq(Bits) : stream' = (sent \o last) \o z /\ Len(z) < BYTE_BITS
  BY <1>1, <1>6, PaddedIs
<1>8. Len(sent) \in Nat /\ Len(z) \in Nat BY <1>5, LenProperties
<1>9. /\ stream' \in Seq(Bits) /\ Len(stream') = Len(sent) + Len(last) + Len(z)
  BY <1>4, <1>6, <1>7, <1>8, ConcatProperties
<1>10. pending => \E y : Passes(stream', dec', y) /\ Ends(y)'
  <2> SUFFICES ASSUME pending PROVE \E y : Passes(stream', dec', y) /\ Ends(y)' OBVIOUS
  <2>1. PICK y : Way(y) BY <1>5
  <2>2. Reaches(stream', y) BY <1>4, <1>5, <1>6, <1>7, <2>1, ReachesLonger
  <2>3. Passes(stream', dec', y) BY <1>1, <1>2, <2>2, PassesStarts
  <2>4. Has(sent \o last, y.at, last) BY <1>4, <1>5, <2>1, HasLast
  <2>5. Has(stream', y.at, last)
    <3>1. y.at \in Nat BY <1>8, <2>1
    <3> QED BY <1>4, <1>6, <1>7, <2>4, <3>1, HasLonger
  <2>6. Len(stream') < y.at + Len(last) + BYTE_BITS
    BY <1>4, <1>7, <1>8, <1>9, <2>1, LzwAssumption
  <2>7. y.dst = src' BY <1>1, <2>1
  <2>8. last = Symbol(y.next, y.next) BY <2>1 DEF last
  <2>9. Ends(y)' BY <2>5, <2>6, <2>7, <2>8 DEF Ends
  <2> QED BY <2>3, <2>9
<1>11. LzwTyped'
  <2>1. IsEncoder(enc') /\ enc'.next \in Nexts /\ src' \in Seq(Bytes) BY <1>1, <1>2 DEF IsEncoder
  <2>2. doing' \in {"compress", "no room", "decompress"} BY <1>1
  <2> QED BY <1>1, <1>9, <2>1, <2>2, CompressorTyped
<1>12. Accompanied' BY <1>1 DEF Accompanied
<1>13. OnTheWay' BY <1>1, <1>10 DEF OnTheWay
<1>14. Returned'
  <2>1. dec'.at = 0 BY <1>1, <1>2, FreshSound
  <2>2. doing' = "decompress" => Fits(stream)' BY <1>1 DEF Fits
  <2> QED BY <1>1, <2>1, <2>2 DEF Returned
<1> QED BY <1>11, <1>12, <1>13, <1>14 DEF LzwInv

-----------------------------------------------------------------------------
(* The steps of the decompressor. *)

Taken == Width + (IF Long THEN 1 ELSE 0)

LEMMA ReadIs ==
  ASSUME LzwInv
  PROVE  /\ Code \in 0..dec.next /\ Taken \in Nat
         /\ Read = [at |-> dec.at + Taken, next |-> dec.next, prefix |-> Code, dst |-> dec.dst,
                    prefixes |-> dec.prefixes, terminators |-> dec.terminators]
<1>1. Sound(dec) /\ stream \in Seq(Bits) BY DEF LzwInv, LzwTyped
<1>2. dec \in Decoders /\ dec.at \in Nat /\ dec.next \in Nexts
  BY <1>1, SoundTyped DEF Sound, Decoders
<1>3. Code \in 0..dec.next /\ Width \in Nat BY <1>1, <1>2, LowIs
<1>4. Taken \in Nat BY <1>3 DEF Taken
<1> DEFINE n == Width + (IF Long THEN 1 ELSE 0)
<1>5. Read = [dec EXCEPT !.at = @ + Width + (IF Long THEN 1 ELSE 0), !.prefix = Code] BY DEF Read
<1>6. dec.at + Width + (IF Long THEN 1 ELSE 0) = dec.at + Taken BY <1>2, <1>3 DEF Taken
<1>7. Read = [at |-> dec.at + Taken, next |-> dec.next, prefix |-> Code, dst |-> dec.dst,
              prefixes |-> dec.prefixes, terminators |-> dec.terminators]
  BY <1>2, <1>5, <1>6 DEF Decoders
<1> QED BY <1>3, <1>4, <1>7

\* A code that is not the last is read as After says, when there is room.
LEMMA CodeStep ==
  ASSUME LzwInv, ClearCode \/ FirstSymbol \/ StringSymbol
  PROVE  /\ doing = "decompress" /\ ~ AtEnd /\ Code \in 0..(dec.next - 1)
         /\ UNCHANGED <<dst_max_bytes, src, enc, stream>>
         /\ \/ /\ dec' = After(dec, Code, Taken) /\ doing' = "decompress"
               /\ Len(dec'.dst) <= dst_max_bytes
            \/ /\ dec' = dec /\ doing' = "no room"
               /\ Len(After(dec, Code, Taken).dst) > dst_max_bytes
<1> DEFINE e == After(dec, Code, Taken)
<1>1. Sound(dec) /\ Len(dec.dst) <= dst_max_bytes /\ dst_max_bytes \in Nat
  BY DEF LzwInv, LzwTyped
<1>2. /\ dec.next \in Nat /\ dec.next >= FIRST_STRING /\ dec.next < LZW_TOTAL_CODES
      /\ FIRST_STRING = BASE + 1 /\ CLEAR_CODE = BASE /\ BASE \in Nat
      /\ LZW_TOTAL_CODES \in Nat /\ LZW_TOTAL_CODES >= BASE + 4
      /\ dec.dst \in Seq(Bytes)
  BY <1>1, SoundTyped
<1>3. /\ Code \in 0..dec.next /\ Taken \in Nat
      /\ Read = [at |-> dec.at + Taken, next |-> dec.next, prefix |-> Code, dst |-> dec.dst,
                 prefixes |-> dec.prefixes, terminators |-> dec.terminators]
  BY ReadIs
<1>4. doing = "decompress" /\ ~ AtEnd /\ Code # dec.next
      /\ UNCHANGED <<dst_max_bytes, src, enc, stream>>
  BY DEF ClearCode, FirstSymbol, StringSymbol, Decompressing, Returns, Goes_on
<1>5. Code \in 0..(dec.next - 1) BY <1>2, <1>3, <1>4
<1>6. CASE ClearCode
  <2>1. Code = CLEAR_CODE /\ dec' = [Read EXCEPT !.next = FIRST_STRING] /\ doing' = "decompress"
    BY <1>4, <1>6 DEF ClearCode, Goes_on, Returns
  <2>2. dec' = [at |-> dec.at + Taken, next |-> FIRST_STRING, prefix |-> Code, dst |-> dec.dst,
                prefixes |-> dec.prefixes, terminators |-> dec.terminators]
    BY <1>3, <2>1
  <2>3. dec' = e BY <2>1, <2>2 DEF After
  <2>4. dec'.dst = dec.dst BY <2>2
  <2> QED BY <1>1, <1>4, <1>5, <2>1, <2>3, <2>4
<1>7. CASE FirstSymbol
  <2>1. Code # CLEAR_CODE /\ dec.prefix = CLEAR_CODE BY <1>7 DEF FirstSymbol
  <2>2. dec.next = FIRST_STRING BY <1>1, <2>1 DEF Sound
  <2>3. Code < BASE /\ Code \in Readable(dec) BY <1>2, <1>5, <2>1, <2>2 DEF Readable
  <2>4. Text(dec, Code) = <<Code>> BY <1>1, <2>3, KnownIs
  <2>5. Following(dec.next) = dec.next + 1 BY <1>2, <2>2 DEF Following
  <2>6. Append(dec.dst, Code) = dec.dst \o <<Code>> /\ Len(Append(dec.dst, Code)) = Len(dec.dst) + 1
    <3>1. Code \in Bytes BY <1>2, <1>5, <2>3 DEF Bytes
    <3> QED BY <1>2, <3>1, AppendProperties, AppendIsConcat
  <2>7. e = [at |-> dec.at + Taken, next |-> dec.next + 1, prefix |-> Code,
             dst |-> Append(dec.dst, Code),
             prefixes |-> dec.prefixes, terminators |-> dec.terminators]
    BY <2>1, <2>4, <2>5, <2>6 DEF After
  <2> HIDE DEF e
  <2>8. e.dst = Append(dec.dst, Code) BY <2>7
  <2>9. Len(dec.dst) \in Nat BY <1>2, LenProperties
  <2>10. CASE Len(dec.dst) >= dst_max_bytes
    <3>1. doing' = "no room" /\ dec' = dec BY <1>7, <2>10 DEF FirstSymbol, Returns
    <3>2. Len(e.dst) > dst_max_bytes BY <1>1, <2>6, <2>8, <2>9, <2>10
    <3> QED BY <1>4, <1>5, <3>1, <3>2 DEF e
  <2>11. CASE ~ (Len(dec.dst) >= dst_max_bytes)
    <3>1. doing' = "decompress" /\ dec' = [Read EXCEPT !.dst = Append(@, Code), !.next = @ + 1]
      BY <1>4, <1>7, <2>11 DEF FirstSymbol, Goes_on, Returns
    <3>2. dec' = e
      <4> DEFINE at == dec.at + Taken
                 dst == Append(dec.dst, Code)
                 next == dec.next + 1
                 r == [Read EXCEPT !.dst = dst]
      <4>1. Read = [at |-> at, next |-> dec.next, prefix |-> Code, dst |-> dec.dst,
                    prefixes |-> dec.prefixes, terminators |-> dec.terminators]
        BY <1>3
      <4>2. e = [at |-> at, next |-> next, prefix |-> Code, dst |-> dst,
                 prefixes |-> dec.prefixes, terminators |-> dec.terminators]
        BY <2>7
      <4>3. Read.dst = dec.dst /\ Read.next = dec.next BY <1>3
      <4>4. dec' = [r EXCEPT !.next = next] BY <3>1, <4>3
      <4> HIDE DEF at, dst, next
      <4>5. r = [at |-> at, next |-> dec.next, prefix |-> Code, dst |-> dst,
                 prefixes |-> dec.prefixes, terminators |-> dec.terminators]
        BY <4>1
      <4> HIDE DEF r
      <4>6. [r EXCEPT !.next = next] = e BY <4>2, <4>5
      <4> QED BY <4>4, <4>6
    <3>3. Len(e.dst) <= dst_max_bytes BY <1>1, <2>6, <2>8, <2>9, <2>11
    <3> QED BY <1>4, <1>5, <3>1, <3>2, <3>3 DEF e
  <2> QED BY <2>10, <2>11
<1>8. CASE StringSymbol
  <2> DEFINE own == Code = dec.next - 1
             known == String(dec, IF own THEN dec.prefix ELSE Code)
             text == IF own THEN Append(known, Head(known)) ELSE known
             next == IF dec.next + 1 = LZW_TOTAL_CODES THEN FIRST_STRING ELSE dec.next + 1
  <2>1. /\ Code # CLEAR_CODE /\ dec.prefix # CLEAR_CODE
        /\ IF Len(dec.dst) + Len(text) > dst_max_bytes THEN Returns("no room") /\ UNCHANGED dec
           ELSE /\ dec' = [Read EXCEPT !.dst = @ \o text,
                             !.prefixes[dec.next - 1] = dec.prefix,
                             !.terminators[dec.next - 1] = Head(known),
                             !.next = next]
                /\ Goes_on
    BY <1>8 DEF StringSymbol
  <2>2. known = Known(dec, Code) /\ text = Text(dec, Code) /\ next = Following(dec.next)
    BY DEF Known, Text, Following
  <2> HIDE DEF known, text, next
  <2>3. Code \in Readable(dec) BY <1>5, <2>1 DEF Readable
  <2>4. text \in Seq(Bytes) BY <1>1, <2>2, <2>3, KnownIs
  <2>5. Len(dec.dst \o text) = Len(dec.dst) + Len(text) BY <1>2, <2>4, ConcatProperties
  <2>6. e = [at |-> dec.at + Taken, next |-> next, prefix |-> Code, dst |-> dec.dst \o text,
             prefixes |-> [dec.prefixes EXCEPT ![dec.next - 1] = dec.prefix],
             terminators |-> [dec.terminators EXCEPT ![dec.next - 1] = Head(known)]]
    BY <2>1, <2>2 DEF After
  <2> HIDE DEF e
  <2>7. e.dst = dec.dst \o text BY <2>6
  <2>8. Len(dec.dst) \in Nat /\ Len(text) \in Nat BY <1>2, <2>4, LenProperties
  <2>9. CASE Len(dec.dst) + Len(text) > dst_max_bytes
    <3>1. doing' = "no room" /\ dec' = dec BY <2>1, <2>9 DEF Returns
    <3> QED BY <1>4, <1>5, <2>5, <2>7, <2>9, <3>1 DEF e
  <2>10. CASE ~ (Len(dec.dst) + Len(text) > dst_max_bytes)
    <3>1. doing' = "decompress" /\ dec' = [Read EXCEPT !.dst = @ \o text,
                                             !.prefixes[dec.next - 1] = dec.prefix,
                                             !.terminators[dec.next - 1] = Head(known),
                                             !.next = next]
      BY <1>4, <2>1, <2>10 DEF Goes_on, Returns
    <3>2. dec' = e
      <4> DEFINE at == dec.at + Taken
                 dst == dec.dst \o text
                 p == [dec.prefixes EXCEPT ![dec.next - 1] = dec.prefix]
                 t == [dec.terminators EXCEPT ![dec.next - 1] = Head(known)]
                 r1 == [Read EXCEPT !.dst = dst]
                 r2 == [r1 EXCEPT !.prefixes = p]
                 r3 == [r2 EXCEPT !.terminators = t]
      <4>1. Read = [at |-> at, next |-> dec.next, prefix |-> Code, dst |-> dec.dst,
                    prefixes |-> dec.prefixes, terminators |-> dec.terminators]
        BY <1>3
      <4>2. e = [at |-> at, next |-> next, prefix |-> Code, dst |-> dst,
                 prefixes |-> p, terminators |-> t]
        BY <2>6
      <4>3. Read.dst = dec.dst /\ Read.prefixes = dec.prefixes
            /\ Read.terminators = dec.terminators
        BY <1>3
      <4>4. dec' = [r3 EXCEPT !.next = next] BY <3>1, <4>3
      <4> HIDE DEF at, dst, p, t
      <4>5. r1 = [at |-> at, next |-> dec.next, prefix |-> Code, dst |-> dst,
                  prefixes |-> dec.prefixes, terminators |-> dec.terminators]
        BY <4>1
      <4> HIDE DEF r1
      <4>6. r2 = [at |-> at, next |-> dec.next, prefix |-> Code, dst |-> dst,
                  prefixes |-> p, terminators |-> dec.terminators]
        BY <4>5
      <4> HIDE DEF r2
      <4>7. r3 = [at |-> at, next |-> dec.next, prefix |-> Code, dst |-> dst,
                  prefixes |-> p, terminators |-> t]
        BY <4>6
      <4> HIDE DEF r3
      <4>8. [r3 EXCEPT !.next = next] = e BY <4>2, <4>7
      <4> QED BY <4>4, <4>8
    <3>3. Len(e.dst) <= dst_max_bytes BY <1>1, <2>5, <2>7, <2>8, <2>10
    <3> QED BY <1>4, <1>5, <3>1, <3>2, <3>3 DEF e
  <2> QED BY <2>9, <2>10
<1> QED BY <1>6, <1>7, <1>8

\* What is read of a stream that lzw_compress made: the code that is not used,
\* or one that stays on the way to it.
LEMMA WayIs ==
  ASSUME LzwInv, doing = "decompress", enc.prefix # NULL_CODE
  PROVE  /\ ~ AtEnd
         /\ \/ /\ Code = dec.next /\ dec.dst = src
               /\ Len(stream) - (dec.at + Taken) < BYTE_BITS
            \/ /\ Code \in 0..(dec.next - 1)
               /\ \E x : Passes(stream, After(dec, Code, Taken), x) /\ Ends(x)
<1>1. PICK x : Passes(stream, dec, x) /\ Ends(x) BY DEF LzwInv, OnTheWay
<1>2. Sound(dec) /\ stream \in Seq(Bits) BY DEF LzwInv, LzwTyped
<1>3. dec.at \in Nat /\ dec.next \in Nat /\ dec.next \in Nexts
  BY <1>2, SoundTyped DEF Sound, Decoders
<1>4. CASE dec = x
  <2> DEFINE u == Symbol(dec.next, dec.next)
  <2>1. Has(stream, dec.at, u) /\ Len(stream) < dec.at + Len(u) + BYTE_BITS /\ dec.dst = src
    BY <1>1, <1>4 DEF Ends
  <2>2. dec.next \in 0..dec.next BY <1>3
  <2>3. ~ AtEnd /\ Code = dec.next /\ Taken = Len(u)
    BY <1>2, <1>3, <2>1, <2>2, SymbolIsRead DEF Taken
  <2>4. Len(u) \in Nat BY <1>3, <2>2, SymbolLength
  <2> HIDE DEF u
  <2>5. Len(stream) - (dec.at + Taken) < BYTE_BITS
    <3>1. Len(stream) \in Nat BY <1>2, LenProperties
    <3> QED BY <1>3, <2>1, <2>3, <2>4, <3>1, LzwAssumption
  <2> QED BY <2>1, <2>3, <2>5
<1>5. CASE dec # x
  <2>1. PICK c \in 0..(dec.next - 1) :
          /\ Has(stream, dec.at, Symbol(c, dec.next))
          /\ Passes(stream, After(dec, c, Len(Symbol(c, dec.next))), x)
    BY <1>1, <1>5, PassesOn
  <2>2. c \in 0..dec.next BY <1>3
  <2>3. ~ AtEnd /\ Code = c /\ Taken = Len(Symbol(c, dec.next))
    BY <1>2, <1>3, <2>1, <2>2, SymbolIsRead DEF Taken
  <2> QED BY <1>1, <2>1, <2>3
<1> QED BY <1>4, <1>5

LEMMA InputEndsStep ==
  ASSUME LzwInv, InputEnds
  PROVE  LzwInv'
<1>1. doing = "decompress" /\ AtEnd /\ doing' = "input ends"
      /\ UNCHANGED <<dst_max_bytes, src, enc, stream, dec>>
  BY DEF InputEnds, Returns
<1>2. enc.prefix = NULL_CODE BY <1>1, WayIs
<1>3. LzwTyped' BY <1>1 DEF LzwInv, LzwTyped
<1> QED BY <1>1, <1>2, <1>3 DEF LzwInv, Accompanied, OnTheWay, Returned

LEMMA EndCodeStep ==
  ASSUME LzwInv, EndCode
  PROVE  LzwInv'
<1>1. doing = "decompress" /\ Code = dec.next /\ doing' = "end"
      /\ UNCHANGED <<dst_max_bytes, src, enc, stream>> /\ dec' = [Read EXCEPT !.prefix = dec.prefix]
  BY DEF EndCode, Decompressing, Returns
<1>2. Sound(dec) /\ Len(dec.dst) <= dst_max_bytes BY DEF LzwInv, LzwTyped
<1>3. /\ Taken \in Nat
      /\ Read = [at |-> dec.at + Taken, next |-> dec.next, prefix |-> Code, dst |-> dec.dst,
                 prefixes |-> dec.prefixes, terminators |-> dec.terminators]
  BY ReadIs
<1>4. dec' = [at |-> dec.at + Taken, next |-> dec.next, prefix |-> dec.prefix, dst |-> dec.dst,
              prefixes |-> dec.prefixes, terminators |-> dec.terminators]
  <2> DEFINE at == dec.at + Taken
  <2>1. Read = [at |-> at, next |-> dec.next, prefix |-> Code, dst |-> dec.dst,
                prefixes |-> dec.prefixes, terminators |-> dec.terminators]
    BY <1>3
  <2> HIDE DEF at
  <2>2. dec' = [at |-> at, next |-> dec.next, prefix |-> dec.prefix, dst |-> dec.dst,
                prefixes |-> dec.prefixes, terminators |-> dec.terminators]
    BY <1>1, <2>1
  <2> QED BY <2>2 DEF at
<1>5. /\ dec'.at = dec.at + Taken /\ dec'.next = dec.next /\ dec'.prefix = dec.prefix
      /\ dec'.dst = dec.dst /\ dec'.prefixes = dec.prefixes
      /\ dec'.terminators = dec.terminators
  BY <1>4
<1>6. Sound(dec')
  <2>1. /\ dec.at \in Nat /\ dec.next \in Nexts /\ dec.prefix \in Codes /\ dec.dst \in Seq(Bytes)
        /\ dec.prefixes \in [Entries -> {-1} \union Codes]
        /\ dec.terminators \in [Entries -> {-1} \union Bytes]
    BY <1>2, SoundTyped DEF Sound, Decoders
  <2>2. dec.at + Taken \in Nat BY <1>3, <2>1
  <2>3. dec' \in Decoders BY <1>4, <2>1, <2>2 DEF Decoders
  <2>4. Descending(dec') BY <1>2, <1>5 DEF Sound, Descending
  <2>5. Made(dec', dec'.next - 2) BY <1>2, <1>5 DEF Sound, Made
  <2> QED BY <1>2, <1>5, <2>3, <2>4, <2>5 DEF Sound
<1>7. LzwTyped'
  <2>1. dst_max_bytes \in Nat /\ src \in Seq(Bytes) /\ stream \in Seq(Bits)
        /\ IsEncoder(enc) /\ enc.next \in Nexts
    BY DEF LzwInv, LzwTyped
  <2> QED BY <1>1, <1>2, <1>5, <1>6, <2>1 DEF LzwTyped
<1>8. Returned'
  <2> SUFFICES ASSUME enc.prefix # NULL_CODE
               PROVE  dec'.dst = src /\ Len(stream) - dec'.at < BYTE_BITS /\ Fits(stream)
    BY <1>1 DEF Returned, Fits
  <2>1. dec.next \in Nat BY <1>2, SoundTyped
  <2>2. ~ (Code \in 0..(dec.next - 1)) BY <1>1, <2>1
  <2>3. dec.dst = src /\ Len(stream) - (dec.at + Taken) < BYTE_BITS BY <1>1, <2>2, WayIs
  <2>4. Fits(stream) BY <1>1 DEF LzwInv, Returned
  <2> QED BY <1>5, <2>3, <2>4
<1> QED BY <1>1, <1>7, <1>8 DEF LzwInv, Accompanied, OnTheWay

LEMMA SymbolStep ==
  ASSUME LzwInv, ClearCode \/ FirstSymbol \/ StringSymbol
  PROVE  LzwInv'
<1> DEFINE e == After(dec, Code, Taken)
<1>1. /\ doing = "decompress" /\ Code \in 0..(dec.next - 1)
      /\ UNCHANGED <<dst_max_bytes, src, enc, stream>>
      /\ \/ dec' = e /\ doing' = "decompress" /\ Len(dec'.dst) <= dst_max_bytes
         \/ dec' = dec /\ doing' = "no room" /\ Len(e.dst) > dst_max_bytes
  BY CodeStep
<1>2. /\ Sound(dec) /\ dst_max_bytes \in Nat /\ src \in Seq(Bytes) /\ stream \in Seq(Bits)
      /\ IsEncoder(enc) /\ enc.next \in Nexts /\ Len(dec.dst) <= dst_max_bytes
  BY DEF LzwInv, LzwTyped
<1>3. Taken \in Nat BY ReadIs
<1>4. Sound(e) BY <1>1, <1>2, <1>3, AfterSound
<1>5. ASSUME enc.prefix # NULL_CODE PROVE \E x : Passes(stream, e, x) /\ Ends(x)
  <2>1. dec.next \in Nat BY <1>2, SoundTyped
  <2>2. Code \in 0..(dec.next - 1) BY <1>1
  <2>3. Code # dec.next BY <2>1, <2>2
  <2> QED BY <1>1, <1>5, <2>3, WayIs
<1>6. enc.prefix # NULL_CODE => Fits(stream) BY <1>1 DEF LzwInv, Returned
<1> HIDE DEF e
<1>7. CASE dec' = e /\ doing' = "decompress" /\ Len(dec'.dst) <= dst_max_bytes
  <2>1. LzwTyped' BY <1>1, <1>2, <1>4, <1>7 DEF LzwTyped
  <2>2. OnTheWay' BY <1>1, <1>5, <1>7 DEF OnTheWay, Ends
  <2>3. Returned' BY <1>1, <1>6, <1>7 DEF Returned, Fits
  <2> QED BY <1>7, <2>1, <2>2, <2>3 DEF LzwInv, Accompanied
<1>8. CASE dec' = dec /\ doing' = "no room" /\ Len(e.dst) > dst_max_bytes
  <2>1. LzwTyped' BY <1>1, <1>2, <1>8 DEF LzwTyped
  <2>2. ASSUME enc.prefix # NULL_CODE PROVE Len(src) > dst_max_bytes
    <3>1. PICK x : Passes(stream, e, x) /\ Ends(x) BY <1>5, <2>2
    <3>2. PICK r \in Seq(Bytes) : x.dst = e.dst \o r BY <3>1, PassesGrows
    <3>3. src = e.dst \o r BY <3>1, <3>2 DEF Ends
    <3>4. e.dst \in Seq(Bytes) BY <1>4, SoundTyped
    <3>5. Len(src) = Len(e.dst) + Len(r) /\ Len(e.dst) \in Nat /\ Len(r) \in Nat
      BY <3>3, <3>4, ConcatProperties, LenProperties
    <3>6. Len(e.dst) > dst_max_bytes /\ dst_max_bytes \in Nat BY <1>2, <1>8
    <3> QED BY <3>5, <3>6
  <2>3. Returned' BY <1>1, <1>8, <2>2 DEF Returned
  <2> QED BY <1>8, <2>1, <2>3 DEF LzwInv, Accompanied, OnTheWay
<1> QED BY <1>1, <1>7, <1>8

LEMMA LzwInductive == LzwInv /\ [Next]_vars => LzwInv'
<1> SUFFICES ASSUME LzwInv, [Next]_vars PROVE LzwInv' OBVIOUS
<1>1. CASE CompressEnd BY <1>1, CompressEndStep
<1>2. ASSUME NEW c \in Bytes, FirstByte(c) PROVE LzwInv' BY <1>2, FirstByteStep
<1>3. ASSUME NEW c \in Bytes, LongerString(c) PROVE LzwInv' BY <1>3, LongerStringStep
<1>4. ASSUME NEW c \in Bytes, SendPrefix(c) PROVE LzwInv' BY <1>4, SendPrefixStep
<1>5. CASE InputEnds BY <1>5, InputEndsStep
<1>6. CASE EndCode BY <1>6, EndCodeStep
<1>7. CASE ClearCode \/ FirstSymbol \/ StringSymbol BY <1>7, SymbolStep
<1>8. CASE UNCHANGED vars BY <1>8, LzwStutter
<1> QED BY <1>1, <1>2, <1>3, <1>4, <1>5, <1>6, <1>7, <1>8 DEF Next, Compress, Decompress

\* The invariant, of which the theorems below are parts: the decompressor that
\* is imagined beside lzw_compress never falls out of step (lzw.c:131-198), and
\* lzw_decompress goes the way it went (lzw.c:231-306).
THEOREM LzwInvariant == Spec => []LzwInv
<1>1. Init => LzwInv BY LzwInit
<1>2. LzwInv /\ [Next]_vars => LzwInv' BY LzwInductive
<1> QED BY <1>1, <1>2, PTL DEF Spec

\* The variables hold what the types of lzw.c allow: in particular the next
\* code never passes LZW_TOTAL_CODES, of the encoder and of the decoder
\* (lzw.c:169, 301).
THEOREM LzwIsTyped == Spec => []LzwTypeOK
<1>1. ASSUME LzwInv PROVE LzwTypeOK
  <2>1. LzwTyped BY <1>1 DEF LzwInv
  <2>2. Sound(dec) BY <2>1 DEF LzwTyped
  <2>3. dec.dst \in Seq(Bytes) /\ dec.next \in Nexts /\ dec.prefix \in Codes
    BY <2>2, SoundTyped DEF Sound, Decoders
  <2> QED BY <2>1, <2>3 DEF LzwTypeOK, LzwTyped, Nexts, Codes, Bits
<1> QED BY <1>1, LzwInvariant, PTL

\* Whatever the stream, and whatever was left in the tables from before a
\* clear: the decoder looks up only what it has made, each string built on an
\* earlier one, and its loop over prefixes ends within reverse_buffer
\* (lzw.c:279-283).
THEOREM StringsAreFound == Spec => []TablesDescend
<1>1. ASSUME LzwInv PROVE TablesDescend
  <2>1. Sound(dec) BY <1>1 DEF LzwInv, LzwTyped
  <2>2. /\ dec \in Decoders /\ Descending(dec) /\ Made(dec, dec.next - 2)
        /\ dec.next \in Nat /\ dec.next >= FIRST_STRING /\ dec.next < LZW_TOTAL_CODES
        /\ FIRST_STRING = BASE + 1 /\ CLEAR_CODE = BASE /\ BASE \in Nat
        /\ LZW_TOTAL_CODES \in Nat
    BY <2>1, SoundTyped
  <2>3. dec.next - 2 \in Nat /\ dec.next - 2 < LZW_TOTAL_CODES
    <3>1. BASE >= 4 BY Sizes
    <3> QED BY <2>2, <3>1
  <2>4. ASSUME NEW c \in FIRST_STRING..(dec.next - 2)
        PROVE  Len(String(dec, c)) < LZW_TOTAL_CODES - BASE
    <3>1. c \in (0..(dec.next - 2)) \ {CLEAR_CODE} /\ ~ (c < BASE) BY <2>2
    <3>2. /\ String(dec, c) \in Seq(Bytes)
          /\ Len(String(dec, c)) <= IF c < BASE THEN 1 ELSE c - BASE + 1
      BY <2>2, <2>3, <3>1, StringBounds
    <3>3. Len(String(dec, c)) <= c - BASE + 1 /\ Len(String(dec, c)) \in Nat
      BY <3>1, <3>2, LenProperties
    <3> QED BY <2>2, <3>3
  <2>5. \A c \in FIRST_STRING..(dec.next - 2) :
          dec.prefixes[c] \in (0..(c - 1)) \ {CLEAR_CODE} /\ dec.terminators[c] \in Bytes
    BY <2>2 DEF Made
  <2> QED BY <2>4, <2>5 DEF TablesDescend
<1> QED BY <1>1, LzwInvariant, PTL

\* Neither function writes beyond the destination, and lzw_decompress gives up
\* only when the text would not fit (lzw.c:90, 271-295).
THEOREM RoomIsKept == Spec => []WithinRoom
<1>1. ASSUME LzwInv PROVE WithinRoom
  <2>1. LzwTyped /\ Returned BY <1>1 DEF LzwInv
  <2>2. Sound(dec) /\ Len(dec.dst) <= dst_max_bytes BY <2>1 DEF LzwTyped
  <2>3. dec.at \in Nat BY <2>2, SoundTyped
  <2>4. dec.at > 0 => dec.at # 0 BY <2>3
  <2>5. Compressed /\ doing # "no room" => 1 + Whole(stream) <= dst_max_bytes
    BY <2>1 DEF Returned, Fits, Compressed
  <2>6. Compressed /\ dec.at > 0 /\ doing = "no room" => Len(src) > dst_max_bytes
    <3> SUFFICES ASSUME enc.prefix # NULL_CODE, dec.at > 0, doing = "no room"
                 PROVE  Len(src) > dst_max_bytes
      BY DEF Compressed
    <3>1. doing = "no room" => dec.at = 0 \/ Len(src) > dst_max_bytes BY <2>1 DEF Returned
    <3>2. dec.at # 0 BY <2>4
    <3> QED BY <3>1, <3>2
  <2> QED BY <2>2, <2>5, <2>6 DEF WithinRoom
<1> QED BY <1>1, LzwInvariant, PTL

\* What lzw_compress made, lzw_decompress turns back into what it was made
\* from: on the way there it has a beginning of it, it never finds the input at
\* its end, and it leaves less than a byte unread (lzw.c:95-209, 211-309).
THEOREM WhatGoesInComesOut == Spec => []RoundTrip
<1>1. ASSUME LzwInv PROVE RoundTrip
  <2>1. LzwTyped /\ Returned /\ OnTheWay BY <1>1 DEF LzwInv
  <2>2. Sound(dec) /\ src \in Seq(Bytes) BY <2>1 DEF LzwTyped
  <2>3. dec.dst \in Seq(Bytes) BY <2>2, SoundTyped
  <2>4. ASSUME enc.prefix # NULL_CODE, doing = "decompress" PROVE IsPrefix(dec.dst, src)
    <3>1. PICK x : Passes(stream, dec, x) /\ Ends(x) BY <2>1, <2>4 DEF OnTheWay
    <3>2. PICK r \in Seq(Bytes) : x.dst = dec.dst \o r BY <3>1, PassesGrows
    <3>3. src = dec.dst \o r BY <3>1, <3>2 DEF Ends
    <3>4. /\ Len(dec.dst) \in Nat /\ Len(r) \in Nat /\ Len(src) = Len(dec.dst) + Len(r)
          /\ \A i \in 1..Len(dec.dst) : src[i] = dec.dst[i]
      BY <2>3, <3>3, ConcatProperties, LenProperties
    <3>5. Len(dec.dst) <= Len(src) BY <3>4
    <3>6. dec.dst = SubSeq(src, 1, Len(dec.dst))
      <4>1. 1 \in 1..(Len(src) + 1) /\ Len(dec.dst) \in (1 - 1)..Len(src) BY <3>4, <3>5
      <4>2. /\ SubSeq(src, 1, Len(dec.dst)) \in Seq(Bytes)
            /\ Len(SubSeq(src, 1, Len(dec.dst))) = Len(dec.dst)
            /\ \A i \in 1..Len(dec.dst) : SubSeq(src, 1, Len(dec.dst))[i] = src[i]
        BY <2>2, <3>4, <3>5, <4>1, SubSeqProperties
      <4> QED BY <2>3, <3>4, <4>2, SeqEqual
    <3> QED BY <3>5, <3>6 DEF IsPrefix
  <2> QED BY <2>1, <2>4 DEF Returned, RoundTrip, Compressed
<1> QED BY <1>1, LzwInvariant, PTL

=============================================================================
