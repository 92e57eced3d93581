----------------------------- MODULE FlashProofs -----------------------------
(***************************************************************************)
(* Proofs about Flash.  The processor plays a script, a word's steps one    *)
(* after the other.  A view is what the driver may rely on between two      *)
(* steps: what it has sent of a command, how far it has brought the chip,   *)
(* whether it knows the chip to be ready and which pages it still owes the  *)
(* host.  The invariant says that the state agrees with some view from      *)
(* which the rest of the script does only what it may (Leads).              *)
(***************************************************************************)
EXTENDS Flash, SequenceTheorems, WellFoundedInduction, TLAPS

-----------------------------------------------------------------------------
(* Induction over the natural numbers, stated for a set, and the function   *)
(* that FlattenSeq defines.                                                 *)

Less == {ss \in Nat \X Nat : ss[1] < ss[2]}

LEMMA Least ==
  ASSUME NEW T, T \subseteq Nat, T # {}
  PROVE  \E n \in T : \A m \in T : n <= m
<1>1. IsWellFoundedOn(Less, Nat) BY NatLessThanWellFounded DEF OpToRel, Less
<1>2. \E x \in T : \A y \in T : ~ (<<y, x>> \in Less) BY <1>1, WFMin
<1>3. PICK x \in T : \A y \in T : ~ (<<y, x>> \in Less) BY <1>2
<1>4. ASSUME NEW m \in T PROVE x <= m
  <2>1. x \in Nat /\ m \in Nat OBVIOUS
  <2>2. ~ (<<m, x>> \in Less) BY <1>3
  <2>3. ~ (m < x) BY <2>1, <2>2 DEF Less
  <2> QED BY <2>1, <2>3
<1> QED BY <1>4

LEMMA Induct ==
  ASSUME NEW S, 0 \in S, \A n \in Nat : n \in S => n + 1 \in S
  PROVE  Nat \subseteq S
<1> DEFINE T == {n \in Nat : n \notin S}
<1> SUFFICES ASSUME T # {} PROVE FALSE OBVIOUS
<1>1. PICK n \in T : \A m \in T : n <= m
  <2> HIDE DEF T
  <2>1. T \subseteq Nat BY DEF T
  <2> QED BY <2>1, Least
<1>2. n # 0 /\ n - 1 \in Nat /\ n - 1 \notin T BY <1>1
<1>3. n - 1 \in S BY <1>2
<1> QED BY <1>1, <1>2, <1>3

Joins(f, seqs, n) == f = [i \in 1..n |-> IF i = 1 THEN seqs[i] ELSE f[i - 1] \o seqs[i]]
Flattened(seqs) ==
  CHOOSE f : f = [i \in 1..Len(seqs) |-> IF i = 1 THEN seqs[i] ELSE f[i - 1] \o seqs[i]]

LEMMA FlattenSeqIs ==
  ASSUME NEW seqs
  PROVE  FlattenSeq(seqs) = IF Len(seqs) = 0 THEN seqs ELSE Flattened(seqs)[Len(seqs)]
BY DEF FlattenSeq, Flattened

LEMMA FlattenedExists ==
  ASSUME NEW seqs, Len(seqs) \in Nat
  PROVE  Joins(Flattened(seqs), seqs, Len(seqs))
<1> DEFINE S == {n \in Nat : \E f : Joins(f, seqs, n)}
<1>1. 0 \in S
  <2>1. Joins([i \in 1..0 |-> <<>>], seqs, 0) BY DEF Joins
  <2> QED BY <2>1
<1>2. ASSUME NEW n \in Nat, n \in S PROVE n + 1 \in S
  <2>1. PICK f : Joins(f, seqs, n) BY <1>2
  <2> DEFINE last == IF n = 0 THEN seqs[1] ELSE f[n] \o seqs[n + 1]
             g == [i \in 1..(n + 1) |-> IF i = n + 1 THEN last ELSE f[i]]
  <2>2. ASSUME NEW i \in 1..(n + 1)
        PROVE  g[i] = IF i = 1 THEN seqs[i] ELSE g[i - 1] \o seqs[i]
    <3>1. CASE i = n + 1 BY <3>1
    <3>2. CASE i # n + 1
      <4>1. i \in 1..n /\ g[i] = f[i] /\ (i # 1 => g[i - 1] = f[i - 1]) BY <3>2
      <4>2. f[i] = IF i = 1 THEN seqs[i] ELSE f[i - 1] \o seqs[i] BY <2>1, <4>1 DEF Joins
      <4> QED BY <4>1, <4>2
    <3> QED BY <3>1, <3>2
  <2> HIDE DEF last
  <2>3. g = [i \in 1..(n + 1) |-> g[i]] OBVIOUS
  <2> HIDE DEF g
  <2>4. Joins(g, seqs, n + 1) BY <2>2, <2>3 DEF Joins
  <2> QED BY <2>4
<1>3. Nat \subseteq S
  <2> HIDE DEF S
  <2> QED BY <1>1, <1>2, Induct
<1>4. \E f : Joins(f, seqs, Len(seqs)) BY <1>3
<1> QED BY <1>4 DEF Joins, Flattened

-----------------------------------------------------------------------------
(* Views, and the scripts that lead from one view to another.               *)

\* level: 0 nothing known, 1 woken, 2 awake, 3 unprotected, 4 flash_is_initialized;
\* ready: 2 the chip is not busy, 1 it is not if rx says so, 0 nothing known;
\* owed: pages that the host expects to change and that have not yet.
Views == [length : {1, 4}, selected : {0, 1}, command : Seq(Int), level : 0..4,
          ready : 0..2, owed : SUBSET Pages, at : Int, judged : {0, 1}]
View(length, selected, command, level, ready, owed, at, judged) ==
  [length |-> length, selected |-> selected, command |-> command, level |-> level,
   ready |-> ready, owed |-> owed, at |-> at, judged |-> judged]
Kinds == {"length", "select", "transfer", "deselect", "again", "delay", "initialized",
          "print", "receive", "inflate", "crc", "answer"}
Steps == Seq(Kinds \union Int \union Seq(Int))

Low(word, n) == LET w == <<0, 0, 0>> \o word IN SubSeq(w, Len(w) - n + 1, Len(w))
Asks == <<SPI_FLASH_OPCODE_STATUS_REGISTER_READ, 0>>
Programs(k) == Len(k) >= 4 /\ k[1] \in {SPI_FLASH_OPCODE_WRITE, SPI_FLASH_OPCODE_PAGE_ERASE}
AtRest(v) == v.selected = 0 /\ v.command = <<>> /\ v.owed = {} /\ v.level \in {0, 4}

\* What a command may be, as far as it has been sent.
MaySend(c, level, ready, k) ==
  \/ k = <<>>
  \/ k = <<SPI_FLASH_OPCODE_WAKE>> /\ level = 0
  \/ k = SPI_FLASH_OPCODE_UNPROTECT /\ level = 2
  \/ k \in {<<SPI_FLASH_OPCODE_STATUS_REGISTER_READ>>, Asks} /\ level >= 3
  \/ /\ k # <<>> /\ level >= 3 /\ ready = 2
     /\ \/ k = <<\h9A>>
        \/ k[1] = SPI_FLASH_OPCODE_READ_HF
        \/ Programs(k) /\ k[3] \in c.changing
     /\ k[1] = SPI_FLASH_OPCODE_WRITE => \A i \in 5..Len(k) : k[i] \in Data

\* Nothing is owed but what the host confirmed, nothing is half sent to a chip that
\* is not selected, and until the processor is reset and the chip unprotected the
\* chip has had nothing to do.
Proper(c, v) ==
  /\ v.owed \subseteq c.changing /\ MaySend(c, v.level, v.ready, v.command)
  /\ v.selected = 0 => v.command = <<>>
  /\ v.ready = 1 => v.selected = 0
  /\ c.resets = 0 /\ v.level <= 2 => v.ready = 2

\* A page is changed to what the host expects of it.
Fulfils(c, k) ==
  Programs(k) => IF k[1] = SPI_FLASH_OPCODE_WRITE
                 THEN Len(k) = 4 + PAGE_BYTES /\ c.known[k[3]] = SubSeq(k, 5, 4 + PAGE_BYTES)
                 ELSE c.known[k[3]] = Erased

\* The byte just read is the one at the address that the host is at.
Prints(v) ==
  LET k == v.command
      at == k[4] + Len(k) - 6
  IN /\ v.owed = {} /\ Len(k) > 5 /\ k[1] = SPI_FLASH_OPCODE_READ_HF
     /\ v.at \div PAGE_BYTES = (k[3] + at \div PAGE_BYTES) % PageCount
     /\ v.at % PAGE_BYTES = at % PAGE_BYTES

LevelAfter(level, k) ==
  IF k = <<SPI_FLASH_OPCODE_WAKE>> THEN 1 ELSE IF k = SPI_FLASH_OPCODE_UNPROTECT THEN 3 ELSE level
ReadyAfter(ready, k) ==
  IF k = Asks THEN 1 ELSE IF k = SPI_FLASH_OPCODE_UNPROTECT \/ Programs(k) THEN 0 ELSE ready
OwedAfter(owed, k) == IF Programs(k) THEN owed \ {k[3]} ELSE owed

After(v, step) ==
  CASE step[1] = "length" ->
         View(step[2], v.selected, v.command, v.level, v.ready, v.owed, v.at, v.judged)
    [] step[1] = "select" ->
         View(v.length, 1, <<>>, v.level, IF v.ready = 2 THEN 2 ELSE 0, v.owed, v.at, v.judged)
    [] step[1] = "transfer" ->
         View(v.length, v.selected, v.command \o Low(step[2], v.length), v.level, v.ready,
              v.owed, v.at, v.judged)
    [] step[1] = "deselect" ->
         View(v.length, 0, <<>>, LevelAfter(v.level, v.command),
              ReadyAfter(v.ready, v.command), OwedAfter(v.owed, v.command), v.at, v.judged)
    [] step[1] = "again" ->
         View(1, v.selected, v.command, v.level, 2, v.owed, v.at, v.judged)
    [] step[1] = "delay" ->
         View(v.length, v.selected, v.command, 2, v.ready, v.owed, v.at, v.judged)
    [] step[1] = "initialized" ->
         View(v.length, v.selected, v.command, 4, v.ready, v.owed, v.at, v.judged)
    [] step[1] = "print" ->
         View(v.length, v.selected, v.command, v.level, v.ready, v.owed,
              (v.at + 1) % (PageCount * PAGE_BYTES), v.judged)
    [] step[1] = "crc" ->
         View(v.length, v.selected, v.command, v.level, v.ready, v.owed, v.at, 1)
    [] OTHER -> v

Allowed(c, v, step) ==
  \/ step[1] = "length" /\ step[2] \in {1, 4}
  \/ step[1] = "select"
  \/ /\ step[1] = "transfer" /\ v.selected = 1 /\ step[2] \in Seq(Nat) /\ step[2] # <<>>
     /\ MaySend(c, v.level, v.ready, v.command \o Low(step[2], v.length))
  \/ step[1] = "deselect" /\ Fulfils(c, v.command)
  \/ /\ step[1] = "again" /\ v.length = 1 /\ v.selected = 0 /\ v.command = <<>> /\ v.ready = 1
     /\ v.level >= 3
  \/ step[1] = "delay" /\ v.command = <<>> /\ v.level = 1
  \/ step[1] = "initialized" /\ v.command = <<>> /\ v.level = 3
  \/ step[1] = "print" /\ Prints(v)
  \/ step[1] \in {"receive", "inflate"} /\ AtRest(v) /\ v.judged = 0
  \/ step[1] = "crc" /\ c.image \in Contents
  \/ step[1] = "answer" /\ AtRest(v) /\ v.level = 4 /\ c.image \in Contents

\* Playing s from view v does only what it may and ends in view n.
Passes(c, v, s, n, r) ==
  /\ r \in [0..Len(s) -> Views] /\ r[0] = v /\ r[Len(s)] = n
  /\ \A k \in 1..Len(s) : Allowed(c, r[k - 1], s[k]) /\ r[k] = After(r[k - 1], s[k])
Leads(c, v, s, n) == s \in Seq(Steps) /\ \E r : Passes(c, v, s, n, r)

LEMMA LeadsNowhere ==
  ASSUME NEW c, NEW v \in Views
  PROVE  Leads(c, v, <<>>, v)
<1>1. Passes(c, v, <<>>, v, [k \in 0..0 |-> v]) BY DEF Passes
<1> QED BY <1>1 DEF Leads

LEMMA LeadsByOne ==
  ASSUME NEW c, NEW v \in Views, NEW step \in Steps, Allowed(c, v, step), After(v, step) \in Views
  PROVE  Leads(c, v, <<step>>, After(v, step))
<1> DEFINE n == After(v, step)
           r == [k \in 0..1 |-> IF k = 0 THEN v ELSE n]
<1>1. n \in Views OBVIOUS
<1> HIDE DEF n
<1>2. Len(<<step>>) = 1 /\ <<step>>[1] = step /\ <<step>> \in Seq(Steps) OBVIOUS
<1>3. r \in [0..1 -> Views] /\ r[0] = v /\ r[1] = n BY <1>1
<1> HIDE DEF r
<1>4. Passes(c, v, <<step>>, n, r) BY <1>2, <1>3 DEF Passes, n
<1> QED BY <1>2, <1>4 DEF Leads, n

LEMMA LeadsOn ==
  ASSUME NEW c, NEW u, NEW v, NEW w, NEW s, NEW t, Leads(c, u, s, v), Leads(c, v, t, w)
  PROVE  Leads(c, u, s \o t, w)
<1>1. s \in Seq(Steps) /\ t \in Seq(Steps) BY DEF Leads
<1>2. PICK q : Passes(c, u, s, v, q) BY DEF Leads
<1>3. PICK r : Passes(c, v, t, w, r) BY DEF Leads
<1> DEFINE a == Len(s)
           b == Len(t)
           st == s \o t
           p == [k \in 0..(a + b) |-> IF k <= a THEN q[k] ELSE r[k - a]]
<1>4. /\ a \in Nat /\ b \in Nat /\ st \in Seq(Steps) /\ Len(st) = a + b
      /\ \A k \in 1..a : st[k] = s[k]
      /\ \A k \in (a + 1)..(a + b) : st[k] = t[k - a] /\ k - a \in 1..b
  BY <1>1
<1>5. /\ q \in [0..a -> Views] /\ r \in [0..b -> Views] /\ q[a] = r[0] /\ q[0] = u /\ r[b] = w
      /\ \A k \in 1..a : Allowed(c, q[k - 1], s[k]) /\ q[k] = After(q[k - 1], s[k])
      /\ \A k \in 1..b : Allowed(c, r[k - 1], t[k]) /\ r[k] = After(r[k - 1], t[k])
  BY <1>2, <1>3 DEF Passes
<1> HIDE DEF a, b, st
<1>6. p \in [0..(a + b) -> Views] /\ p[0] = u /\ p[a + b] = w BY <1>4, <1>5
<1>7. ASSUME NEW k \in 1..(a + b)
      PROVE  Allowed(c, p[k - 1], st[k]) /\ p[k] = After(p[k - 1], st[k])
  <2>1. CASE k <= a
    <3>1. k \in 1..a /\ p[k - 1] = q[k - 1] /\ p[k] = q[k] BY <2>1, <1>4
    <3> QED BY <3>1, <1>4, <1>5
  <2>2. CASE k > a
    <3>1. k \in (a + 1)..(a + b) /\ p[k] = r[k - a] /\ p[k - 1] = r[(k - a) - 1]
      BY <2>2, <1>4, <1>5
    <3> QED BY <3>1, <1>4, <1>5
  <2> QED BY <2>1, <2>2, <1>4
<1> HIDE DEF p
<1>8. Passes(c, u, st, w, p) BY <1>4, <1>6, <1>7 DEF Passes
<1> QED BY <1>4, <1>8 DEF Leads, st

LEMMA LeadsFrom ==
  ASSUME NEW c, NEW v, NEW s, NEW n, Leads(c, v, s, n)
  PROVE  /\ s \in Seq(Steps) /\ v \in Views /\ n \in Views
         /\ s = <<>> => v = n
         /\ s # <<>> => /\ Allowed(c, v, Head(s)) /\ After(v, Head(s)) \in Views
                        /\ Leads(c, After(v, Head(s)), Tail(s), n)
<1>1. s \in Seq(Steps) /\ Len(s) \in Nat BY DEF Leads
<1>2. PICK r : Passes(c, v, s, n, r) BY DEF Leads
<1>3. v \in Views /\ n \in Views /\ (s = <<>> => v = n) BY <1>1, <1>2 DEF Passes
<1>4. ASSUME s # <<>>
      PROVE  /\ Allowed(c, v, Head(s)) /\ After(v, Head(s)) \in Views
             /\ Leads(c, After(v, Head(s)), Tail(s), n)
  <2> DEFINE t == Tail(s)
             b == Len(t)
             p == [k \in 0..b |-> r[k + 1]]
  <2>1. /\ t \in Seq(Steps) /\ b \in Nat /\ Len(s) = b + 1 /\ Head(s) = s[1]
        /\ \A k \in 1..b : t[k] = s[k + 1]
    BY <1>1, <1>4
  <2>2. /\ r \in [0..(b + 1) -> Views] /\ r[0] = v /\ r[b + 1] = n
        /\ \A k \in 1..(b + 1) : Allowed(c, r[k - 1], s[k]) /\ r[k] = After(r[k - 1], s[k])
    BY <1>2, <2>1 DEF Passes
  <2> HIDE DEF t, b
  <2>3. Allowed(c, v, Head(s)) /\ r[1] = After(v, Head(s)) /\ r[1] \in Views BY <2>1, <2>2
  <2>4. p \in [0..b -> Views] /\ p[0] = r[1] /\ p[b] = n BY <2>1, <2>2
  <2>5. ASSUME NEW k \in 1..b
        PROVE  Allowed(c, p[k - 1], t[k]) /\ p[k] = After(p[k - 1], t[k])
    <3>1. p[k - 1] = r[k] /\ p[k] = r[k + 1] /\ t[k] = s[k + 1] /\ k + 1 \in 1..(b + 1)
      BY <2>1, <2>2
    <3> QED BY <3>1, <2>2
  <2> HIDE DEF p
  <2>6. Passes(c, r[1], t, n, p) BY <2>1, <2>4, <2>5 DEF Passes, b
  <2> QED BY <2>1, <2>3, <2>6 DEF Leads, t
<1> QED BY <1>1, <1>3, <1>4

\* Scripts one after the other, with the view after each.
LEMMA LeadsThrough ==
  ASSUME NEW c, NEW seqs, NEW m \in Nat, seqs \in [1..m -> Seq(Steps)], NEW vs,
         vs[0] \in Views, \A i \in 1..m : Leads(c, vs[i - 1], seqs[i], vs[i])
  PROVE  Leads(c, vs[0], FlattenSeq(seqs), vs[m])
<1> DEFINE f == Flattened(seqs)
           S == {n \in Nat : n \in 1..m => Leads(c, vs[0], f[n], vs[n])}
<1>1. Len(seqs) = m /\ seqs \in Seq(Seq(Steps)) OBVIOUS
<1>1a. Joins(f, seqs, m)
  <2>1. Joins(Flattened(seqs), seqs, Len(seqs)) BY ONLY <1>1, m \in Nat, FlattenedExists
  <2> QED BY <1>1, <2>1
<1> HIDE DEF f
<1>2. ASSUME NEW i \in 1..m PROVE f[i] = IF i = 1 THEN seqs[i] ELSE f[i - 1] \o seqs[i]
  BY ONLY <1>1a, i \in 1..m, m \in Nat DEF Joins
<1>3. 0 \in S OBVIOUS
<1>4. ASSUME NEW n \in Nat, n \in S PROVE n + 1 \in S
  <2> SUFFICES ASSUME n + 1 \in 1..m PROVE Leads(c, vs[0], f[n + 1], vs[n + 1]) OBVIOUS
  <2>1. Leads(c, vs[n], seqs[n + 1], vs[n + 1]) OBVIOUS
  <2>2. CASE n = 0 BY <2>1, <2>2, <1>2
  <2>3. CASE n # 0
    <3>1. Leads(c, vs[0], f[n], vs[n]) BY <2>3, <1>4
    <3>2. f[n + 1] = IF n + 1 = 1 THEN seqs[n + 1] ELSE f[(n + 1) - 1] \o seqs[n + 1] BY <1>2
    <3>3. n + 1 # 1 /\ (n + 1) - 1 = n BY <2>3
    <3>4. f[n + 1] = f[n] \o seqs[n + 1] BY <3>2, <3>3
    <3> QED BY <3>1, <3>4, <2>1, LeadsOn
  <2> QED BY <2>2, <2>3
<1>5. Nat \subseteq S
  <2> HIDE DEF S
  <2> QED BY <1>3, <1>4, Induct
<1>6. m # 0 => Leads(c, vs[0], f[m], vs[m]) BY <1>5
<1>7. CASE m = 0
  <2>1. seqs = <<>> BY <1>7, <1>1
  <2>2. FlattenSeq(seqs) = <<>> BY <2>1, <1>1, <1>7, FlattenSeqIs
  <2> QED BY <2>2, <1>7, LeadsNowhere
<1>8. CASE m # 0
  <2>1. FlattenSeq(seqs) = f[m] BY <1>8, <1>1, FlattenSeqIs DEF f
  <2> QED BY <2>1, <1>6, <1>8
<1> QED BY <1>7, <1>8

-----------------------------------------------------------------------------
(* The steps of the driver.                                                 *)

LEMMA PageCountIs ==
  /\ PageCount \in Nat \ {0} /\ Pages = 0..(PageCount - 1)
  /\ PAGE_BYTES \in Nat \ {0} /\ PageCount * PAGE_BYTES \in Nat \ {0}
<1>1. PICK n \in Nat : Pages = 0..n BY FlashAssumption
<1>2. \E p \in Pages : \A q \in Pages : q <= p
  <2>1. n \in Pages /\ \A q \in Pages : q <= n BY <1>1
  <2> QED BY <2>1
<1> DEFINE last == CHOOSE p \in Pages : \A q \in Pages : q <= p
<1>3. PageCount = 1 + last BY DEF PageCount
<1>4. last \in Pages /\ \A q \in Pages : q <= last BY <1>2
<1> HIDE DEF last
<1>5. last = n BY <1>1, <1>4
<1>6. PageCount = n + 1 BY <1>3, <1>5
<1>7. PAGE_BYTES \in Nat \ {0} BY FlashAssumption
<1>8. ASSUME NEW a \in Nat \ {0}, NEW b \in Nat \ {0} PROVE a * b \in Nat \ {0} OBVIOUS
<1>9. PageCount \in Nat \ {0} /\ Pages = 0..(PageCount - 1) BY <1>1, <1>6
<1> QED BY <1>7, <1>8, <1>9

LEMMA Elements ==
  ASSUME NEW S, NEW s \in Seq(S)
  PROVE  Len(s) \in Nat /\ \A i \in 1..Len(s) : s[i] \in S
OBVIOUS

LEMMA Wider ==
  ASSUME NEW S, NEW T, S \subseteq T, NEW s \in Seq(S)
  PROVE  s \in Seq(T)
OBVIOUS

LEMMA BytesAreNumbers ==
  ASSUME NEW s \in Seq(Nat)
  PROVE  s \in Seq(Int) /\ Len(s) \in Nat /\ \A i \in 1..Len(s) : s[i] \in Nat
<1>1. Nat \subseteq Int OBVIOUS
<1> QED BY <1>1, Elements, Wider, Zenon

LEMMA Slice ==
  ASSUME NEW S, NEW w, NEW a \in Int, NEW b \in Int, a <= b, \A i \in a..b : w[i] \in S
  PROVE  /\ SubSeq(w, a, b) \in Seq(S) /\ Len(SubSeq(w, a, b)) = b - a + 1
         /\ \A i \in 1..(b - a + 1) : SubSeq(w, a, b)[i] = w[a + i - 1]
OBVIOUS

LEMMA LowTyped ==
  ASSUME NEW word, word \in Seq(Nat), word # <<>>, NEW n, n \in {1, 4}
  PROVE  /\ Low(word, n) \in Seq(Nat) /\ Len(Low(word, n)) = n
         /\ \A i \in 1..n : n <= Len(word) => Low(word, n)[i] = word[Len(word) - n + i]
<1> DEFINE w == <<0, 0, 0>> \o word
<1>0. 0 \in Nat OBVIOUS
<1>1. <<0, 0, 0>> \in Seq(Nat) /\ Len(<<0, 0, 0>>) = 3 BY <1>0
<1>2. Len(word) \in Nat \ {0} OBVIOUS
<1>3. w \in Seq(Nat) /\ Len(w) = 3 + Len(word) BY <1>1, <1>2
<1>4. ASSUME NEW j \in 1..Len(word) PROVE w[3 + j] = word[j] BY <1>1, <1>2
<1> HIDE DEF w
<1> DEFINE a == Len(w) - n + 1
           b == Len(w)
<1>5. Low(word, n) = SubSeq(w, a, b) BY DEF Low, w
<1>6. a \in Int /\ b \in Int /\ a >= 1 /\ a <= b /\ b - a + 1 = n BY <1>2, <1>3
<1>7. ASSUME NEW i \in a..b PROVE w[i] \in Nat
  <2>1. i \in 1..Len(w) BY <1>6 DEF b
  <2> QED BY <2>1, <1>3, BytesAreNumbers
<1> HIDE DEF a, b
<1>8. /\ SubSeq(w, a, b) \in Seq(Nat)
      /\ Len(SubSeq(w, a, b)) = b - a + 1
      /\ \A i \in 1..(b - a + 1) : SubSeq(w, a, b)[i] = w[a + i - 1]
  BY <1>6, <1>7, Slice
<1>9. ASSUME n <= Len(word), NEW i \in 1..n PROVE Low(word, n)[i] = word[Len(word) - n + i]
  <2>1. Low(word, n)[i] = w[a + i - 1] BY <1>5, <1>6, <1>8
  <2>2. a + i - 1 = 3 + (Len(word) - n + i) BY <1>2, <1>3 DEF a
  <2>3. Len(word) - n + i \in 1..Len(word) BY <1>2, <1>9
  <2> QED BY <2>1, <2>2, <2>3, <1>4
<1> QED BY <1>5, <1>6, <1>8, <1>9

LEMMA LowOfOne ==
  ASSUME NEW a \in Nat
  PROVE  Low(<<a>>, 1) = <<a>>
<1> DEFINE w == <<a>>
<1>1. w \in Seq(Nat) /\ w # <<>> /\ Len(w) = 1 /\ w[1] = a OBVIOUS
<1>2. w = <<a>> OBVIOUS
<1> HIDE DEF w
<1>3. /\ Low(w, 1) \in Seq(Nat) /\ Len(Low(w, 1)) = 1
      /\ \A i \in 1..1 : 1 <= Len(w) => Low(w, 1)[i] = w[Len(w) - 1 + i]
  <2>1. 1 \in {1, 4} OBVIOUS
  <2> QED BY <1>1, <2>1, LowTyped, Zenon
<1>4. Low(w, 1)[1] = a BY <1>1, <1>3
<1>5. Low(w, 1) = <<a>> BY <1>3, <1>4
<1> QED BY <1>2, <1>5

LEMMA LowOfFour ==
  ASSUME NEW a \in Nat, NEW b \in Nat, NEW c \in Nat, NEW d \in Nat
  PROVE  Low(<<a, b, c, d>>, 4) = <<a, b, c, d>> /\ Low(<<a, b, c, d>>, 1) = <<d>>
<1> DEFINE w == <<a, b, c, d>>
<1>1. w \in Seq(Nat) /\ w # <<>> /\ Len(w) = 4 OBVIOUS
<1>2. w[1] = a /\ w[2] = b /\ w[3] = c /\ w[4] = d OBVIOUS
<1>3. w = <<a, b, c, d>> OBVIOUS
<1> HIDE DEF w
<1>4. /\ Low(w, 4) \in Seq(Nat) /\ Len(Low(w, 4)) = 4
      /\ \A i \in 1..4 : 4 <= Len(w) => Low(w, 4)[i] = w[Len(w) - 4 + i]
  <2>1. 4 \in {1, 4} OBVIOUS
  <2> QED BY <1>1, <2>1, LowTyped, Zenon
<1>5. /\ Low(w, 1) \in Seq(Nat) /\ Len(Low(w, 1)) = 1
      /\ \A i \in 1..1 : 1 <= Len(w) => Low(w, 1)[i] = w[Len(w) - 1 + i]
  <2>1. 1 \in {1, 4} OBVIOUS
  <2> QED BY <1>1, <2>1, LowTyped, Zenon
<1>6. \A i \in 1..4 : Low(w, 4)[i] = w[i] BY <1>1, <1>4
<1>7. Low(w, 4) = w BY <1>1, <1>4, <1>6, SeqEqual
<1>8. Low(w, 1)[1] = d BY <1>1, <1>2, <1>5
<1>9. Low(w, 1) = <<d>> BY <1>5, <1>8
<1> QED BY <1>3, <1>7, <1>9

LEMMA ViewIs ==
  ASSUME NEW length, NEW selected, NEW command, NEW level, NEW ready, NEW owed, NEW at, NEW judged,
         NEW v, v = View(length, selected, command, level, ready, owed, at, judged)
  PROVE  /\ v.length = length /\ v.selected = selected /\ v.command = command
         /\ v.level = level /\ v.ready = ready /\ v.owed = owed /\ v.at = at
         /\ v.judged = judged
BY DEF View

LEMMA ViewTyped ==
  ASSUME NEW length \in {1, 4}, NEW selected \in {0, 1}, NEW command \in Seq(Int),
         NEW level \in 0..4, NEW ready \in 0..2, NEW owed \in SUBSET Pages, NEW at \in Int,
         NEW judged \in {0, 1}
  PROVE  View(length, selected, command, level, ready, owed, at, judged) \in Views
BY DEF View, Views

LEMMA ViewFields ==
  ASSUME NEW v \in Views
  PROVE  /\ v.length \in {1, 4} /\ v.selected \in {0, 1} /\ v.command \in Seq(Int)
         /\ v.level \in 0..4 /\ v.ready \in 0..2 /\ v.owed \in SUBSET Pages /\ v.at \in Int
         /\ v.judged \in {0, 1}
         /\ v = View(v.length, v.selected, v.command, v.level, v.ready, v.owed, v.at, v.judged)
BY DEF View, Views

LEMMA AllowedIs ==
  ASSUME NEW c, NEW v, NEW step, Allowed(c, v, step)
  PROVE  /\ step[1] \in Kinds
         /\ step[1] = "length" => step[2] \in {1, 4}
         /\ step[1] = "transfer" =>
              /\ v.selected = 1 /\ step[2] \in Seq(Nat) /\ step[2] # <<>>
              /\ MaySend(c, v.level, v.ready, v.command \o Low(step[2], v.length))
         /\ step[1] = "deselect" => Fulfils(c, v.command)
         /\ step[1] = "again" =>
              v.length = 1 /\ v.selected = 0 /\ v.command = <<>> /\ v.ready = 1 /\ v.level >= 3
         /\ step[1] = "delay" => v.command = <<>> /\ v.level = 1
         /\ step[1] = "initialized" => v.command = <<>> /\ v.level = 3
         /\ step[1] = "print" => Prints(v)
         /\ step[1] \in {"receive", "inflate"} => AtRest(v) /\ v.judged = 0
         /\ step[1] = "crc" => c.image \in Contents
         /\ step[1] = "answer" => AtRest(v) /\ v.level = 4 /\ c.image \in Contents
BY DEF Allowed, Kinds

LEMMA AfterTyped ==
  ASSUME NEW c, NEW v \in Views, NEW step, Allowed(c, v, step)
  PROVE  After(v, step) \in Views
<1>0. /\ v.length \in {1, 4} /\ v.selected \in {0, 1} /\ v.command \in Seq(Int)
      /\ v.level \in 0..4 /\ v.ready \in 0..2 /\ v.owed \in SUBSET Pages /\ v.at \in Int
      /\ v.judged \in {0, 1}
  BY ViewFields
<1>1. CASE step[1] = "length"
  <2>1. step[2] \in {1, 4} BY <1>1, AllowedIs
  <2> QED BY <2>1, <1>0, <1>1, ViewTyped DEF After
<1>2. CASE step[1] = "select"
  <2>1. (IF v.ready = 2 THEN 2 ELSE 0) \in 0..2 /\ 1 \in {0, 1} /\ <<>> \in Seq(Int) OBVIOUS
  <2> QED BY <2>1, <1>0, <1>2, ViewTyped DEF After
<1>3. CASE step[1] = "transfer"
  <2> DEFINE k == v.command \o Low(step[2], v.length)
  <2>1. step[2] \in Seq(Nat) /\ step[2] # <<>> BY <1>3, AllowedIs
  <2>2. Low(step[2], v.length) \in Seq(Nat) BY <2>1, <1>0, LowTyped
  <2>3. Low(step[2], v.length) \in Seq(Int) BY <2>2, BytesAreNumbers
  <2>4. k \in Seq(Int) BY <1>0, <2>3
  <2> QED BY <2>4, <1>0, <1>3, ViewTyped DEF After
<1>4. CASE step[1] = "deselect"
  <2>1. /\ LevelAfter(v.level, v.command) \in 0..4 /\ ReadyAfter(v.ready, v.command) \in 0..2
        /\ OwedAfter(v.owed, v.command) \in SUBSET Pages
    BY <1>0 DEF LevelAfter, ReadyAfter, OwedAfter
  <2>2. <<>> \in Seq(Int) /\ 0 \in {0, 1} OBVIOUS
  <2> QED BY <2>1, <2>2, <1>0, <1>4, ViewTyped DEF After
<1>5. CASE step[1] = "again"
  <2>1. 1 \in {1, 4} /\ 2 \in 0..2 OBVIOUS
  <2> QED BY <2>1, <1>0, <1>5, ViewTyped DEF After
<1>6. CASE step[1] = "delay"
  <2>1. 2 \in 0..4 OBVIOUS
  <2> QED BY <2>1, <1>0, <1>6, ViewTyped DEF After
<1>7. CASE step[1] = "initialized"
  <2>1. 4 \in 0..4 OBVIOUS
  <2> QED BY <2>1, <1>0, <1>7, ViewTyped DEF After
<1>8. CASE step[1] = "print"
  <2>1. (v.at + 1) % (PageCount * PAGE_BYTES) \in Int BY PageCountIs, <1>0
  <2> QED BY <2>1, <1>0, <1>8, ViewTyped DEF After
<1>9. CASE step[1] = "crc"
  <2>1. 1 \in {0, 1} OBVIOUS
  <2> QED BY <2>1, <1>0, <1>9, ViewTyped DEF After
<1>10. CASE step[1] \in {"receive", "inflate", "answer"} BY <1>10 DEF After
<1> QED
  BY <1>1, <1>2, <1>3, <1>4, <1>5, <1>6, <1>7, <1>8, <1>9, <1>10, AllowedIs DEF Kinds

LEMMA LeadsThen ==
  ASSUME NEW c, NEW u, NEW v, NEW s, NEW step, NEW w, Leads(c, u, s, v), step \in Steps,
         Allowed(c, v, step), w = After(v, step)
  PROVE  Leads(c, u, s \o <<step>>, w)
<1>1. v \in Views BY LeadsFrom
<1>2. Leads(c, v, <<step>>, w) BY <1>1, AfterTyped, LeadsByOne
<1> QED BY <1>2, LeadsOn

LEMMA AreSteps ==
  /\ \A n \in Int : <<"length", n>> \in Steps
  /\ \A word \in Seq(Int) : <<"transfer", word>> \in Steps
  /\ \A what \in Kinds : <<what>> \in Steps
<1> DEFINE E == Kinds \union Int \union Seq(Int)
<1>1. ASSUME NEW x \in E, NEW y \in E PROVE <<x, y>> \in Seq(E) /\ <<x>> \in Seq(E)
  <2> HIDE DEF E
  <2> QED OBVIOUS
<1>2. "length" \in E /\ "transfer" \in E BY DEF Kinds
<1>3. \A x \in Int : x \in E OBVIOUS
<1>4. \A x \in Seq(Int) : x \in E OBVIOUS
<1>5. \A x \in Kinds : x \in E OBVIOUS
<1>6. Steps = Seq(E) BY DEF Steps
<1> HIDE DEF E
<1> QED BY <1>1, <1>2, <1>3, <1>4, <1>5, <1>6

LEMMA DoLength ==
  ASSUME NEW c, NEW u, NEW s, NEW a, NEW b, NEW k, NEW level, NEW ready, NEW owed, NEW at,
         NEW j, Leads(c, u, s, View(a, b, k, level, ready, owed, at, j)), NEW n \in {1, 4}
  PROVE  Leads(c, u, s \o Length(n), View(n, b, k, level, ready, owed, at, j))
<1> DEFINE v == View(a, b, k, level, ready, owed, at, j)
           step == <<"length", n>>
<1>1. step \in Steps /\ step[1] = "length" /\ step[2] = n BY AreSteps
<1>2. Allowed(c, v, step) BY <1>1 DEF Allowed
<1>3. View(n, b, k, level, ready, owed, at, j) = After(v, step) BY <1>1, ViewIs DEF After
<1>4. Length(n) = <<step>> BY DEF Length
<1> HIDE DEF v, step
<1> QED BY <1>1, <1>2, <1>3, <1>4, LeadsThen DEF v

LEMMA DoSelect ==
  ASSUME NEW c, NEW u, NEW s, NEW a, NEW b, NEW k, NEW level, NEW ready, NEW owed, NEW at,
         NEW j, Leads(c, u, s, View(a, b, k, level, ready, owed, at, j))
  PROVE  Leads(c, u, s \o assert_CS_FLASH,
               View(a, 1, <<>>, level, IF ready = 2 THEN 2 ELSE 0, owed, at, j))
<1> DEFINE v == View(a, b, k, level, ready, owed, at, j)
           w == View(a, 1, <<>>, level, IF ready = 2 THEN 2 ELSE 0, owed, at, j)
           step == <<"select">>
<1>1. step \in Steps /\ step[1] = "select" BY AreSteps DEF Kinds
<1>2. Allowed(c, v, step) BY <1>1 DEF Allowed
<1>3. w = After(v, step) BY <1>1, ViewIs DEF After
<1>4. assert_CS_FLASH = <<step>> BY DEF assert_CS_FLASH
<1> HIDE DEF v, step, w
<1> QED BY <1>1, <1>2, <1>3, <1>4, LeadsThen DEF v, w

LEMMA DoTransfer ==
  ASSUME NEW c, NEW u, NEW s, NEW a, NEW k, NEW level, NEW ready, NEW owed, NEW at, NEW j,
         Leads(c, u, s, View(a, 1, k, level, ready, owed, at, j)),
         NEW word, word \in Seq(Nat), word # <<>>, NEW k2, k \o Low(word, a) = k2,
         MaySend(c, level, ready, k2)
  PROVE  Leads(c, u, s \o spi_transfer(word), View(a, 1, k2, level, ready, owed, at, j))
<1> DEFINE v == View(a, 1, k, level, ready, owed, at, j)
           w == View(a, 1, k2, level, ready, owed, at, j)
           step == <<"transfer", word>>
<1>1. word \in Seq(Int) BY BytesAreNumbers
<1>2. step \in Steps /\ step[1] = "transfer" /\ step[2] = word BY <1>1, AreSteps
<1>3. /\ v.length = a /\ v.selected = 1 /\ v.command = k /\ v.level = level
      /\ v.ready = ready /\ v.owed = owed /\ v.at = at /\ v.judged = j
  BY ViewIs
<1>4. spi_transfer(word) = <<step>> BY DEF spi_transfer
<1> HIDE DEF v, step
<1>5. Allowed(c, v, step) BY <1>2, <1>3 DEF Allowed
<1>6. w = After(v, step) BY <1>2, <1>3 DEF After
<1> HIDE DEF w
<1> QED BY <1>2, <1>4, <1>5, <1>6, LeadsThen DEF v, w

LEMMA DoDeselect ==
  ASSUME NEW c, NEW u, NEW s, NEW a, NEW b, NEW k, NEW level, NEW ready, NEW owed, NEW at,
         NEW j, Leads(c, u, s, View(a, b, k, level, ready, owed, at, j)), Fulfils(c, k),
         NEW l2, l2 = LevelAfter(level, k), NEW r2, r2 = ReadyAfter(ready, k),
         NEW o2, o2 = OwedAfter(owed, k)
  PROVE  Leads(c, u, s \o deassert_CS_FLASH, View(a, 0, <<>>, l2, r2, o2, at, j))
<1> DEFINE v == View(a, b, k, level, ready, owed, at, j)
           w == View(a, 0, <<>>, l2, r2, o2, at, j)
           step == <<"deselect">>
<1>1. step \in Steps /\ step[1] = "deselect" BY AreSteps DEF Kinds
<1>2. /\ v.length = a /\ v.command = k /\ v.level = level
      /\ v.ready = ready /\ v.owed = owed /\ v.at = at /\ v.judged = j
  BY ViewIs
<1>3. deassert_CS_FLASH = <<step>> BY DEF deassert_CS_FLASH
<1> HIDE DEF v, step
<1>4. Allowed(c, v, step) BY <1>1, <1>2 DEF Allowed
<1>5. w = After(v, step) BY <1>1, <1>2 DEF After
<1> HIDE DEF w
<1> QED BY <1>1, <1>3, <1>4, <1>5, LeadsThen DEF v, w

-----------------------------------------------------------------------------
(* The functions of the driver.                                             *)

LEMMA Joined ==
  /\ \A s : s \in Seq(Int) => <<>> \o s = s
  /\ \A s : s \in Seq(Steps) => <<>> \o s = s
  /\ \A a, b \in Int : <<a>> \o <<b>> = <<a, b>>
<1>1. ASSUME NEW a \in Int, NEW b \in Int PROVE <<a>> \o <<b>> = <<a, b>>
  <2> DEFINE s == <<a>> \o <<b>>
  <2>1. s \in Seq(Int) /\ Len(s) = 2 /\ s[1] = a /\ s[2] = b OBVIOUS
  <2>2. <<a, b>> \in Seq(Int) /\ Len(<<a, b>>) = 2 /\ <<a, b>>[1] = a /\ <<a, b>>[2] = b
    OBVIOUS
  <2> HIDE DEF s
  <2>3. \A i \in 1..2 : s[i] = <<a, b>>[i] BY <2>1, <2>2
  <2>4. s = <<a, b>> BY <2>1, <2>2, <2>3, SeqEqual
  <2> QED BY <2>4 DEF s
<1>2. ASSUME NEW S, NEW s \in Seq(S) PROVE <<>> \o s = s OBVIOUS
<1> QED BY <1>1, <1>2

LEMMA NothingSent ==
  ASSUME NEW c, NEW level, NEW ready, NEW owed
  PROVE  /\ LevelAfter(level, <<>>) = level /\ ReadyAfter(ready, <<>>) = ready
         /\ OwedAfter(owed, <<>>) = owed /\ Fulfils(c, <<>>)
<1>1. Len(<<>>) = 0 OBVIOUS
<1> QED
  BY <1>1 DEF LevelAfter, ReadyAfter, OwedAfter, Fulfils, Programs, Asks, SPI_FLASH_OPCODE_UNPROTECT

LEMMA Asked ==
  ASSUME NEW c, NEW level, NEW ready, NEW owed
  PROVE  /\ LevelAfter(level, Asks) = level /\ ReadyAfter(ready, Asks) = 1
         /\ OwedAfter(owed, Asks) = owed /\ Fulfils(c, Asks)
<1>1. Len(Asks) = 2 BY DEF Asks
<1>2. Asks # <<SPI_FLASH_OPCODE_WAKE>> /\ Asks # SPI_FLASH_OPCODE_UNPROTECT
  BY DEF Asks, SPI_FLASH_OPCODE_UNPROTECT
<1> QED
  BY <1>1, <1>2 DEF LevelAfter, ReadyAfter, OwedAfter, Fulfils, Programs

LEMMA Woken ==
  ASSUME NEW c, NEW level, NEW ready, NEW owed
  PROVE  LET k == <<SPI_FLASH_OPCODE_WAKE>>
         IN  /\ LevelAfter(level, k) = 1 /\ ReadyAfter(ready, k) = ready
             /\ OwedAfter(owed, k) = owed /\ Fulfils(c, k)
<1> DEFINE k == <<SPI_FLASH_OPCODE_WAKE>>
<1>1. Len(k) = 1 OBVIOUS
<1>2. k # Asks /\ k # SPI_FLASH_OPCODE_UNPROTECT BY DEF Asks, SPI_FLASH_OPCODE_UNPROTECT
<1> QED
  BY <1>1, <1>2 DEF LevelAfter, ReadyAfter, OwedAfter, Fulfils, Programs

LEMMA Unprotected ==
  ASSUME NEW c, NEW level, NEW ready, NEW owed
  PROVE  LET k == SPI_FLASH_OPCODE_UNPROTECT
         IN  /\ LevelAfter(level, k) = 3 /\ ReadyAfter(ready, k) = 0
             /\ OwedAfter(owed, k) = owed /\ Fulfils(c, k)
<1> DEFINE k == SPI_FLASH_OPCODE_UNPROTECT
<1>1. k[1] = \h3D BY DEF SPI_FLASH_OPCODE_UNPROTECT
<1>2. k # Asks /\ k # <<SPI_FLASH_OPCODE_WAKE>> BY DEF Asks, SPI_FLASH_OPCODE_UNPROTECT
<1>3. ~Programs(k)
  BY <1>1 DEF Programs, SPI_FLASH_OPCODE_WRITE, SPI_FLASH_OPCODE_PAGE_ERASE
<1> HIDE DEF k
<1>4. LevelAfter(level, k) = 3 /\ ReadyAfter(ready, k) = 0 /\ OwedAfter(owed, k) = owed
  BY <1>2, <1>3 DEF LevelAfter, ReadyAfter, OwedAfter, k
<1>5. Fulfils(c, k) BY <1>3 DEF Fulfils
<1> QED BY <1>4, <1>5 DEF k

LEMMA Paged ==
  ASSUME NEW c, NEW level, NEW ready, NEW owed
  PROVE  LET k == <<\h9A>>
         IN  /\ LevelAfter(level, k) = level /\ ReadyAfter(ready, k) = ready
             /\ OwedAfter(owed, k) = owed /\ Fulfils(c, k)
<1> DEFINE k == <<\h9A>>
<1>1. Len(k) = 1 OBVIOUS
<1>2. k # Asks /\ k # SPI_FLASH_OPCODE_UNPROTECT /\ k # <<SPI_FLASH_OPCODE_WAKE>>
  BY DEF Asks, SPI_FLASH_OPCODE_UNPROTECT, SPI_FLASH_OPCODE_WAKE
<1> QED
  BY <1>1, <1>2 DEF LevelAfter, ReadyAfter, OwedAfter, Fulfils, Programs

LEMMA OpcodesAreNat ==
  /\ 0 \in Nat /\ \h9A \in Nat /\ SPI_FLASH_OPCODE_WAKE \in Nat
  /\ SPI_FLASH_OPCODE_STATUS_REGISTER_READ \in Nat /\ SPI_FLASH_OPCODE_READ_HF \in Nat
  /\ SPI_FLASH_OPCODE_WRITE \in Nat /\ SPI_FLASH_OPCODE_PAGE_ERASE \in Nat
  /\ \h3D \in Nat /\ \h2A \in Nat /\ \h80 \in Nat /\ \hA6 \in Nat /\ \h7F \in Nat
BY DEF SPI_FLASH_OPCODE_WAKE, SPI_FLASH_OPCODE_STATUS_REGISTER_READ,
       SPI_FLASH_OPCODE_READ_HF, SPI_FLASH_OPCODE_WRITE, SPI_FLASH_OPCODE_PAGE_ERASE

\* A word of one byte, and one of four.
LEMMA OneByte ==
  ASSUME NEW a \in Nat
  PROVE  <<a>> \in Seq(Nat) /\ <<a>> # <<>> /\ <<>> \o Low(<<a>>, 1) = <<a>>
<1>1. <<a>> \in Seq(Nat) /\ <<a>> # <<>> OBVIOUS
<1>2. <<>> \o <<a>> = <<a>> BY <1>1
<1> QED BY <1>1, <1>2, LowOfOne

LEMMA FourBytes ==
  ASSUME NEW a \in Nat, NEW b \in Nat, NEW c \in Nat, NEW d \in Nat
  PROVE  /\ <<a, b, c, d>> \in Seq(Nat) /\ <<a, b, c, d>> # <<>>
         /\ <<>> \o Low(<<a, b, c, d>>, 4) = <<a, b, c, d>>
         /\ <<>> \o Low(<<a, b, c, d>>, 1) = <<d>>
<1>1. /\ <<a, b, c, d>> \in Seq(Nat) /\ <<a, b, c, d>> # <<>> /\ <<d>> \in Seq(Nat)
  OBVIOUS
<1>2. <<>> \o <<a, b, c, d>> = <<a, b, c, d>> /\ <<>> \o <<d>> = <<d>> BY <1>1
<1> QED BY <1>1, <1>2, LowOfFour

LEMMA BusyLeads ==
  ASSUME NEW c, NEW a, NEW level, NEW ready, NEW owed, NEW at, NEW j,
         View(a, 0, <<>>, level, ready, owed, at, j) \in Views, level >= 3
  PROVE  Leads(c, View(a, 0, <<>>, level, ready, owed, at, j), flash_memory_busy,
               View(1, 0, <<>>, level, 2, owed, at, j))
<1> DEFINE u == View(a, 0, <<>>, level, ready, owed, at, j)
           status == SPI_FLASH_OPCODE_STATUS_REGISTER_READ
           r == IF ready = 2 THEN 2 ELSE 0
           s1 == Length(1)
           s2 == s1 \o assert_CS_FLASH
           s3 == s2 \o spi_transfer(<<status>>)
           s4 == s3 \o spi_transfer(<<0>>)
           s5 == s4 \o deassert_CS_FLASH
<1> HIDE DEF u, r
<1>0. Leads(c, u, <<>>, u) BY LeadsNowhere DEF u
<1>1. Leads(c, u, s1, View(1, 0, <<>>, level, ready, owed, at, j))
  <2>1. Leads(c, u, <<>> \o Length(1), View(1, 0, <<>>, level, ready, owed, at, j))
    <3>1. 1 \in {1, 4} OBVIOUS
    <3> QED BY <1>0, <3>1, DoLength DEF u
  <2>2. <<>> \o Length(1) = Length(1) BY DEF Length
  <2> QED BY <2>1, <2>2
<1> HIDE DEF s1
<1>2. Leads(c, u, s2, View(1, 1, <<>>, level, r, owed, at, j)) BY <1>1, DoSelect DEF r
<1> HIDE DEF s2
<1>3. Leads(c, u, s3, View(1, 1, <<status>>, level, r, owed, at, j))
  <2>1. MaySend(c, level, r, <<status>>) BY DEF MaySend
  <2>2. status \in Nat BY OpcodesAreNat
  <2> HIDE DEF status
  <2>3. <<status>> \in Seq(Nat) /\ <<status>> # <<>> /\ <<>> \o Low(<<status>>, 1) = <<status>>
    BY <2>2, OneByte
  <2> QED BY <1>2, <2>1, <2>3, DoTransfer
<1> HIDE DEF s3
<1>4. Leads(c, u, s4, View(1, 1, Asks, level, r, owed, at, j))
  <2>1. MaySend(c, level, r, Asks) BY DEF MaySend
  <2>2. <<0>> \in Seq(Nat) /\ <<0>> # <<>> /\ Low(<<0>>, 1) = <<0>>
    BY OpcodesAreNat, OneByte, LowOfOne
  <2>3. <<status>> \o Low(<<0>>, 1) = Asks
    <3>1. status \in Int /\ 0 \in Int BY OpcodesAreNat
    <3>2. Asks = <<status, 0>> BY DEF Asks
    <3> HIDE DEF status
    <3>3. <<status>> \o <<0>> = <<status, 0>> BY <3>1, Joined
    <3> QED BY <2>2, <3>2, <3>3
  <2> HIDE DEF status
  <2> QED BY <1>3, <2>1, <2>2, <2>3, DoTransfer
<1> HIDE DEF s4
<1>5. Leads(c, u, s5, View(1, 0, <<>>, level, 1, owed, at, j))
  <2>1. /\ level = LevelAfter(level, Asks) /\ 1 = ReadyAfter(r, Asks)
        /\ owed = OwedAfter(owed, Asks) /\ Fulfils(c, Asks)
    BY Asked
  <2> QED BY <1>4, <2>1, DoDeselect
<1> HIDE DEF s5
<1>6. Leads(c, u, s5 \o <<<<"again">>>>, View(1, 0, <<>>, level, 2, owed, at, j))
  <2> DEFINE v == View(1, 0, <<>>, level, 1, owed, at, j)
             w == View(1, 0, <<>>, level, 2, owed, at, j)
             step == <<"again">>
  <2>1. step \in Steps /\ step[1] = "again" BY AreSteps DEF Kinds
  <2>2. /\ v.length = 1 /\ v.selected = 0 /\ v.command = <<>> /\ v.level = level
        /\ v.ready = 1 /\ v.owed = owed /\ v.at = at /\ v.judged = j
    BY ViewIs
  <2> HIDE DEF v, step
  <2>3. Allowed(c, v, step) BY <2>1, <2>2 DEF Allowed
  <2>4. w = After(v, step) BY <2>1, <2>2 DEF After
  <2> HIDE DEF w
  <2>5. Leads(c, u, s5, v) BY <1>5 DEF v
  <2>6. Leads(c, u, s5 \o <<step>>, w) BY <2>1, <2>3, <2>4, <2>5, LeadsThen
  <2> QED BY <2>6 DEF w, step
<1>7. flash_memory_busy = s5 \o <<<<"again">>>>
  BY DEF flash_memory_busy, s5, s4, s3, s2, s1, spi_init
<1> QED BY <1>6, <1>7 DEF u

\* The first step of a script.
LEMMA Starts ==
  ASSUME NEW c, NEW a, NEW level, NEW ready, NEW owed, NEW at, NEW j,
         View(a, 0, <<>>, level, ready, owed, at, j) \in Views, NEW n, n \in {1, 4}
  PROVE  Leads(c, View(a, 0, <<>>, level, ready, owed, at, j), Length(n),
               View(n, 0, <<>>, level, ready, owed, at, j))
<1> DEFINE u == View(a, 0, <<>>, level, ready, owed, at, j)
<1>1. Leads(c, u, <<>>, u) BY LeadsNowhere
<1>2. Leads(c, u, <<>> \o Length(n), View(n, 0, <<>>, level, ready, owed, at, j))
  BY <1>1, DoLength
<1>3. <<>> \o Length(n) = Length(n) BY DEF Length
<1> QED BY <1>2, <1>3

LEMMA InitLeads ==
  ASSUME NEW c, NEW a, NEW ready, NEW owed, NEW at, NEW j,
         View(a, 0, <<>>, 0, ready, owed, at, j) \in Views
  PROVE  Leads(c, View(a, 0, <<>>, 0, ready, owed, at, j), flash_memory_init,
               View(1, 0, <<>>, 3, 2, owed, at, j))
<1> DEFINE u == View(a, 0, <<>>, 0, ready, owed, at, j)
           wake == SPI_FLASH_OPCODE_WAKE
           r == IF ready = 2 THEN 2 ELSE 0
           s1 == Length(1)
           s2 == s1 \o assert_CS_FLASH
           s3 == s2 \o deassert_CS_FLASH
           s4 == s3 \o assert_CS_FLASH
           s5 == s4 \o spi_transfer(<<wake>>)
           s6 == s5 \o deassert_CS_FLASH
           s7 == s6 \o <<<<"delay">>>>
           s8 == s7 \o Length(4)
           s9 == s8 \o assert_CS_FLASH
           s10 == s9 \o spi_transfer(SPI_FLASH_OPCODE_UNPROTECT)
           s11 == s10 \o deassert_CS_FLASH
           s12 == s11 \o flash_memory_busy
           s13 == s12 \o assert_CS_FLASH
           s14 == s13 \o spi_transfer(SPI_FLASH_OPCODE_256B_PAGE)
           s15 == s14 \o deassert_CS_FLASH
<1>0. (IF r = 2 THEN 2 ELSE 0) = r OBVIOUS
<1>a. owed \in SUBSET Pages /\ at \in Int /\ j \in {0, 1} BY ViewFields, ViewIs
<1>1. Leads(c, u, s1, View(1, 0, <<>>, 0, ready, owed, at, j)) BY Starts
<1> HIDE DEF u, r, s1
<1>2. Leads(c, u, s2, View(1, 1, <<>>, 0, r, owed, at, j)) BY <1>1, DoSelect DEF r
<1> HIDE DEF s2
<1>3. Leads(c, u, s3, View(1, 0, <<>>, 0, r, owed, at, j)) BY <1>2, NothingSent, DoDeselect
<1> HIDE DEF s3
<1>4. Leads(c, u, s4, View(1, 1, <<>>, 0, r, owed, at, j))
  <2>1. Leads(c, u, s4, View(1, 1, <<>>, 0, IF r = 2 THEN 2 ELSE 0, owed, at, j))
    BY <1>3, DoSelect
  <2> QED BY <2>1, <1>0
<1> HIDE DEF s4
<1>5. Leads(c, u, s5, View(1, 1, <<wake>>, 0, r, owed, at, j))
  <2>1. MaySend(c, 0, r, <<wake>>) BY DEF MaySend
  <2>2. wake \in Nat BY OpcodesAreNat
  <2> HIDE DEF wake
  <2>3. <<wake>> \in Seq(Nat) /\ <<wake>> # <<>> /\ <<>> \o Low(<<wake>>, 1) = <<wake>>
    BY <2>2, OneByte
  <2> QED BY <1>4, <2>1, <2>3, DoTransfer
<1> HIDE DEF s5
<1>6. Leads(c, u, s6, View(1, 0, <<>>, 1, r, owed, at, j))
  <2>1. /\ 1 = LevelAfter(0, <<wake>>) /\ r = ReadyAfter(r, <<wake>>)
        /\ owed = OwedAfter(owed, <<wake>>) /\ Fulfils(c, <<wake>>)
    BY Woken
  <2> QED BY <1>5, <2>1, DoDeselect
<1> HIDE DEF s6
<1>7. Leads(c, u, s7, View(1, 0, <<>>, 2, r, owed, at, j))
  <2> DEFINE v == View(1, 0, <<>>, 1, r, owed, at, j)
             w == View(1, 0, <<>>, 2, r, owed, at, j)
             step == <<"delay">>
  <2>1. step \in Steps /\ step[1] = "delay" BY AreSteps DEF Kinds
  <2>2. /\ v.length = 1 /\ v.selected = 0 /\ v.command = <<>> /\ v.level = 1
        /\ v.ready = r /\ v.owed = owed /\ v.at = at /\ v.judged = j
    BY ViewIs
  <2> HIDE DEF v, step
  <2>3. Allowed(c, v, step) BY <2>1, <2>2 DEF Allowed
  <2>4. w = After(v, step) BY <2>1, <2>2 DEF After
  <2> HIDE DEF w
  <2>5. Leads(c, u, s6, v) BY <1>6 DEF v
  <2>6. Leads(c, u, s6 \o <<step>>, w) BY <2>1, <2>3, <2>4, <2>5, LeadsThen
  <2> QED BY <2>6 DEF w, step
<1> HIDE DEF s7
<1>8. Leads(c, u, s8, View(4, 0, <<>>, 2, r, owed, at, j))
  <2>1. 4 \in {1, 4} OBVIOUS
  <2> QED BY <1>7, <2>1, DoLength
<1> HIDE DEF s8
<1>9. Leads(c, u, s9, View(4, 1, <<>>, 2, r, owed, at, j))
  <2>1. Leads(c, u, s9, View(4, 1, <<>>, 2, IF r = 2 THEN 2 ELSE 0, owed, at, j))
    BY <1>8, DoSelect
  <2> QED BY <2>1, <1>0
<1> HIDE DEF s9
<1>10. Leads(c, u, s10, View(4, 1, SPI_FLASH_OPCODE_UNPROTECT, 2, r, owed, at, j))
  <2> DEFINE k == SPI_FLASH_OPCODE_UNPROTECT
  <2>1. MaySend(c, 2, r, k) BY DEF MaySend
  <2>2. k \in Seq(Nat) /\ k # <<>> /\ <<>> \o Low(k, 4) = k
    BY OpcodesAreNat, FourBytes DEF SPI_FLASH_OPCODE_UNPROTECT
  <2> HIDE DEF k
  <2>3. Leads(c, u, s9 \o spi_transfer(k), View(4, 1, k, 2, r, owed, at, j))
    BY <1>9, <2>1, <2>2, DoTransfer
  <2> QED BY <2>3 DEF k
<1> HIDE DEF s10
<1>11. Leads(c, u, s11, View(4, 0, <<>>, 3, 0, owed, at, j))
  <2> DEFINE k == SPI_FLASH_OPCODE_UNPROTECT
  <2>1. /\ 3 = LevelAfter(2, k) /\ 0 = ReadyAfter(r, k)
        /\ owed = OwedAfter(owed, k) /\ Fulfils(c, k)
    BY Unprotected
  <2> QED BY <1>10, <2>1, DoDeselect
<1> HIDE DEF s11
<1>12. Leads(c, u, s12, View(1, 0, <<>>, 3, 2, owed, at, j))
  <2>1. View(4, 0, <<>>, 3, 0, owed, at, j) \in Views BY <1>11, LeadsFrom
  <2>2. 3 >= 3 OBVIOUS
  <2>3. Leads(c, View(4, 0, <<>>, 3, 0, owed, at, j), flash_memory_busy,
              View(1, 0, <<>>, 3, 2, owed, at, j))
    BY <2>1, <2>2, BusyLeads
  <2> QED BY <1>11, <2>3, LeadsOn
<1> HIDE DEF s12
<1>13. Leads(c, u, s13, View(1, 1, <<>>, 3, 2, owed, at, j))
  <2>1. Leads(c, u, s13, View(1, 1, <<>>, 3, IF 2 = 2 THEN 2 ELSE 0, owed, at, j))
    BY <1>12, DoSelect
  <2> QED BY <2>1
<1> HIDE DEF s13
<1>14. Leads(c, u, s14, View(1, 1, <<\h9A>>, 3, 2, owed, at, j))
  <2> DEFINE word == SPI_FLASH_OPCODE_256B_PAGE
             k == <<\h9A>>
  <2>1. MaySend(c, 3, 2, k) BY DEF MaySend, SPI_FLASH_OPCODE_WRITE
  <2>2. word \in Seq(Nat) /\ word # <<>> /\ <<>> \o Low(word, 1) = k
    BY OpcodesAreNat, FourBytes DEF SPI_FLASH_OPCODE_256B_PAGE
  <2> HIDE DEF word, k
  <2>3. Leads(c, u, s13 \o spi_transfer(word), View(1, 1, k, 3, 2, owed, at, j))
    BY <1>13, <2>1, <2>2, DoTransfer
  <2> QED BY <2>3 DEF k, word
<1> HIDE DEF s14
<1>15. Leads(c, u, s15, View(1, 0, <<>>, 3, 2, owed, at, j))
  <2> DEFINE k == <<\h9A>>
  <2>1. /\ 3 = LevelAfter(3, k) /\ 2 = ReadyAfter(2, k)
        /\ owed = OwedAfter(owed, k) /\ Fulfils(c, k)
    BY Paged
  <2> QED BY <1>14, <2>1, DoDeselect
<1>16. flash_memory_init = s15
  BY DEF flash_memory_init, s14, s13, s12, s11, s10, s9, s8, s7, s6, s5, s4, s3, s2, s1, spi_init
<1> QED BY <1>15, <1>16 DEF u

LEMMA InitializedLeads ==
  ASSUME NEW c, NEW a, NEW level, NEW ready, NEW owed, NEW at, NEW j,
         View(a, 0, <<>>, level, ready, owed, at, j) \in Views, level \in {0, 4},
         flash_is_initialized <=> level = 4
  PROVE  \E a2, r2 : Leads(c, View(a, 0, <<>>, level, ready, owed, at, j), Initialized,
                           View(a2, 0, <<>>, 4, r2, owed, at, j))
<1> DEFINE u == View(a, 0, <<>>, level, ready, owed, at, j)
<1>1. CASE level = 4
  <2>1. Leads(c, u, <<>>, u) BY LeadsNowhere
  <2> QED BY <1>1, <2>1 DEF Initialized
<1>2. CASE level = 0
  <2>1. Leads(c, u, flash_memory_init, View(1, 0, <<>>, 3, 2, owed, at, j)) BY <1>2, InitLeads
  <2> DEFINE v == View(1, 0, <<>>, 3, 2, owed, at, j)
             w == View(1, 0, <<>>, 4, 2, owed, at, j)
             step == <<"initialized">>
  <2>2. step \in Steps /\ step[1] = "initialized" BY AreSteps DEF Kinds
  <2>3. /\ v.length = 1 /\ v.selected = 0 /\ v.command = <<>> /\ v.level = 3
        /\ v.ready = 2 /\ v.owed = owed /\ v.at = at /\ v.judged = j
    BY ViewIs
  <2> HIDE DEF u, v, step
  <2>4. Allowed(c, v, step) BY <2>2, <2>3 DEF Allowed
  <2>5. w = After(v, step) BY <2>2, <2>3 DEF After
  <2> HIDE DEF w
  <2>6. Leads(c, u, flash_memory_init, v) BY <2>1 DEF v
  <2>7. Leads(c, u, flash_memory_init \o <<step>>, w) BY <2>2, <2>4, <2>5, <2>6, LeadsThen
  <2>8. Initialized = flash_memory_init \o <<step>> BY <1>2 DEF Initialized, step
  <2> QED BY <2>7, <2>8 DEF w, u
<1> QED BY <1>1, <1>2

-----------------------------------------------------------------------------
(* Addresses.                                                               *)

LEMMA Product ==
  ASSUME NEW a \in Int, NEW m \in Nat, a >= 1
  PROVE  a * m >= m
<1>1. (a - 1) * m >= 0 OBVIOUS
<1>2. a * m = (a - 1) * m + m OBVIOUS
<1> QED BY <1>1, <1>2

LEMMA DivMod ==
  ASSUME NEW d \in Int, NEW m \in Nat \ {0}, NEW r \in 0..(m - 1)
  PROVE  (d * m + r) \div m = d /\ (d * m + r) % m = r
<1> DEFINE x == d * m + r
           q == x \div m
           t == x % m
<1>1. d * m \in Int OBVIOUS
<1>2. x \in Int BY <1>1
<1> HIDE DEF x
<1>3. q \in Int /\ t \in 0..(m - 1) BY <1>2
<1>4. x = m * q + t BY <1>2
<1> HIDE DEF q, t
<1>5. m * q \in Int BY <1>3
<1>6. d * m + r = m * q + t BY <1>4 DEF x
<1>7. (d - q) * m = d * m - m * q BY <1>3
<1>8. (d - q) * m = t - r BY <1>1, <1>3, <1>5, <1>6, <1>7
<1>9. ~ (d - q >= 1)
  <2> SUFFICES ASSUME d - q >= 1 PROVE FALSE OBVIOUS
  <2>1. (d - q) * m >= m BY <1>3, Product
  <2> QED BY <2>1, <1>3, <1>8
<1>10. ~ (q - d >= 1)
  <2> SUFFICES ASSUME q - d >= 1 PROVE FALSE OBVIOUS
  <2>1. (q - d) * m >= m BY <1>3, Product
  <2>2. (q - d) * m = 0 - (d - q) * m BY <1>3
  <2>3. (q - d) * m = r - t BY <2>2, <1>3, <1>8
  <2> QED BY <2>1, <2>3, <1>3
<1>11. d = q BY <1>3, <1>9, <1>10
<1>12. t = r BY <1>3, <1>8, <1>11
<1> QED BY <1>11, <1>12 DEF x, q, t

LEMMA Places ==
  ASSUME NEW p \in Nat, NEW x \in Nat, NEW m \in Nat \ {0}, NEW n \in Nat \ {0}
  PROVE  /\ ((p * m + x) % (n * m)) \div m = (p + x \div m) % n
         /\ ((p * m + x) % (n * m)) % m = x % m
<1> DEFINE a == x \div m
           b == x % m
<1>1. a \in Int /\ b \in 0..(m - 1) /\ x = m * a + b OBVIOUS
<1> HIDE DEF a, b
<1> DEFINE d == (p + a) \div n
           e == (p + a) % n
<1>2. d \in Int /\ e \in 0..(n - 1) /\ p + a = n * d + e BY <1>1
<1> HIDE DEF d, e
<1> DEFINE nm == n * m
           em == e * m
           dnm == d * nm
           pm == p * m
           pam == (p + a) * m
<1>3. nm \in Nat \ {0} /\ em \in Int /\ em >= 0 /\ dnm \in Int /\ pm \in Int /\ pam \in Int
  <2>1. nm \in Nat \ {0} /\ em \in Int /\ em >= 0 /\ pm \in Int /\ pam \in Int BY <1>1, <1>2
  <2> HIDE DEF nm
  <2> QED BY <2>1, <1>2
<1>4. pam = pm + m * a BY <1>1
<1>5. pam = dnm + em
  <2>1. (p + a) * m = (n * d + e) * m BY <1>2
  <2>2. (n * d + e) * m = d * (n * m) + e * m BY <1>2
  <2> QED BY <2>1, <2>2
<1>6. em + b \in 0..(nm - 1)
  <2>1. n * m = (n - e) * m + e * m BY <1>2
  <2>2. (n - e) * m >= m BY <1>2, Product
  <2>3. (n - e) * m \in Int BY <1>2
  <2> DEFINE left == (n - e) * m
  <2>4. nm = left + em /\ left >= m /\ left \in Int BY <2>1, <2>2, <2>3
  <2> HIDE DEF left, nm, em
  <2> QED BY <2>4, <1>1, <1>3
<1>7. (em + b) \div m = e /\ (em + b) % m = b BY <1>1, <1>2, DivMod
<1>8. pm + x = dnm + (em + b)
  <2> DEFINE ma == m * a
  <2>1. pam = pm + ma /\ x = ma + b /\ ma \in Int BY <1>1, <1>4
  <2> HIDE DEF ma, pam, pm, dnm, em
  <2> QED BY <2>1, <1>1, <1>3, <1>5
<1>9. (pm + x) % nm = em + b
  <2> HIDE DEF nm, em, pm
  <2>1. (d * nm + (em + b)) % nm = em + b BY <1>2, <1>3, <1>6, DivMod
  <2> QED BY <2>1, <1>8
<1> QED BY <1>7, <1>9 DEF a, b, e

LEMMA NextPlace ==
  ASSUME NEW y \in Nat, NEW m \in Nat \ {0}
  PROVE  ((y % m) + 1) % m = (y + 1) % m
<1> DEFINE q == y \div m
           t == y % m
<1>1. q \in Int /\ t \in 0..(m - 1) /\ y = m * q + t OBVIOUS
<1> HIDE DEF q, t
<1>2. q * m \in Int /\ m * q = q * m BY <1>1
<1>3. CASE t + 1 < m
  <2>1. y + 1 = q * m + (t + 1) BY <1>1, <1>2
  <2>2. (y + 1) % m = t + 1 BY <2>1, <1>1, <1>3, DivMod
  <2>3. (t + 1) % m = t + 1 BY <1>1, <1>3
  <2> QED BY <2>2, <2>3 DEF t
<1>4. CASE t + 1 = m
  <2>1. (q + 1) * m = q * m + m BY <1>1
  <2>2. y + 1 = (q + 1) * m + 0 BY <1>1, <1>2, <1>4, <2>1
  <2>3. (y + 1) % m = 0 BY <2>2, <1>1, DivMod
  <2>4. m = 1 * m + 0 OBVIOUS
  <2>5. m % m = 0 BY <2>4, DivMod
  <2> QED BY <2>3, <2>5, <1>4 DEF t
<1> QED BY <1>1, <1>3, <1>4

-----------------------------------------------------------------------------
(* The scripts of the words.                                                *)

LEMMA Programmed ==
  ASSUME NEW k, Programs(k), NEW level, NEW ready, NEW owed
  PROVE  /\ LevelAfter(level, k) = level /\ ReadyAfter(ready, k) = 0
         /\ OwedAfter(owed, k) = owed \ {k[3]}
<1>1. k[1] # \h3D /\ k[1] # SPI_FLASH_OPCODE_WAKE /\ k[1] # SPI_FLASH_OPCODE_STATUS_REGISTER_READ
  BY DEF Programs, SPI_FLASH_OPCODE_WRITE, SPI_FLASH_OPCODE_PAGE_ERASE, SPI_FLASH_OPCODE_WAKE,
         SPI_FLASH_OPCODE_STATUS_REGISTER_READ
<1>2. /\ SPI_FLASH_OPCODE_UNPROTECT[1] = \h3D /\ Asks[1] = SPI_FLASH_OPCODE_STATUS_REGISTER_READ
      /\ <<SPI_FLASH_OPCODE_WAKE>>[1] = SPI_FLASH_OPCODE_WAKE
  BY DEF SPI_FLASH_OPCODE_UNPROTECT, Asks
<1>3. k # SPI_FLASH_OPCODE_UNPROTECT /\ k # Asks /\ k # <<SPI_FLASH_OPCODE_WAKE>> BY <1>1, <1>2
<1> QED BY <1>3 DEF LevelAfter, ReadyAfter, OwedAfter

LEMMA EraseLeads ==
  ASSUME NEW c, NEW a, NEW level, NEW ready, NEW owed, NEW at, NEW j,
         View(a, 0, <<>>, level, ready, owed, at, j) \in Views, level >= 3,
         NEW p, p \in Nat, p \in c.changing, c.known[p] = Erased
  PROVE  Leads(c, View(a, 0, <<>>, level, ready, owed, at, j), flash_memory_erasePage(p),
               View(4, 0, <<>>, level, 0, owed \ {p}, at, j))
<1> DEFINE u == View(a, 0, <<>>, level, ready, owed, at, j)
           op == SPI_FLASH_OPCODE_PAGE_ERASE
           k == <<op, 0, p, 0>>
           s1 == flash_memory_busy
           s2 == s1 \o spi_init(4)
           s3 == s2 \o assert_CS_FLASH
           s4 == s3 \o spi_transfer(k)
           s5 == s4 \o deassert_CS_FLASH
<1>0. k[1] = op /\ k[3] = p /\ Len(k) = 4 /\ k # <<>> OBVIOUS
<1>1. k \in Seq(Nat) /\ <<>> \o Low(k, 4) = k BY OpcodesAreNat, FourBytes
<1>2. op # SPI_FLASH_OPCODE_WRITE
  BY DEF SPI_FLASH_OPCODE_WRITE, SPI_FLASH_OPCODE_PAGE_ERASE
<1> HIDE DEF k, op
<1>3. Programs(k) BY <1>0 DEF Programs, op
<1>4. MaySend(c, level, 2, k) BY <1>0, <1>2, <1>3 DEF MaySend
<1>5. Fulfils(c, k) BY <1>0, <1>2, <1>3 DEF Fulfils
<1>6. Leads(c, u, s1, View(1, 0, <<>>, level, 2, owed, at, j)) BY BusyLeads
<1> HIDE DEF u, s1
<1>7. Leads(c, u, s2, View(4, 0, <<>>, level, 2, owed, at, j))
  <2>1. 4 \in {1, 4} OBVIOUS
  <2> QED BY <1>6, <2>1, DoLength DEF spi_init
<1> HIDE DEF s2
<1>8. Leads(c, u, s3, View(4, 1, <<>>, level, 2, owed, at, j))
  <2>1. Leads(c, u, s3, View(4, 1, <<>>, level, IF 2 = 2 THEN 2 ELSE 0, owed, at, j))
    BY <1>7, DoSelect
  <2> QED BY <2>1
<1> HIDE DEF s3
<1>9. Leads(c, u, s4, View(4, 1, k, level, 2, owed, at, j)) BY <1>0, <1>1, <1>4, <1>8, DoTransfer
<1> HIDE DEF s4
<1>10. Leads(c, u, s5, View(4, 0, <<>>, level, 0, owed \ {p}, at, j))
  <2>1. /\ level = LevelAfter(level, k) /\ 0 = ReadyAfter(2, k)
        /\ owed \ {p} = OwedAfter(owed, k)
    BY <1>0, <1>3, Programmed
  <2> QED BY <1>5, <1>9, <2>1, DoDeselect
<1>11. flash_memory_erasePage(p) = s5
  BY DEF flash_memory_erasePage, s4, s3, s2, s1, k, op
<1> QED BY <1>10, <1>11 DEF u

\* The command that writes a page, with n bytes of it.
WriteSent(p, data, n) ==
  [x \in 1..(4 + n) |-> IF x = 1 THEN SPI_FLASH_OPCODE_WRITE ELSE IF x = 3 THEN p
                        ELSE IF x <= 4 THEN 0 ELSE data[x - 4]]

LEMMA Longer ==
  ASSUME NEW S, NEW k \in Seq(S), NEW l \in Seq(S), Len(l) = Len(k) + 1, NEW x,
         l[Len(l)] = x, \A i \in 1..Len(k) : k[i] = l[i]
  PROVE  k \o <<x>> = l
<1> DEFINE n == Len(k)
           w == <<x>>
           kw == k \o w
<1>1. n \in Nat /\ Len(k) = n /\ Len(l) = n + 1 /\ x = l[n + 1] OBVIOUS
<1>2. x \in S BY <1>1
<1> HIDE DEF n
<1>3. w \in Seq(S) /\ Len(w) = 1 /\ w[1] = x BY <1>2
<1> HIDE DEF w
<1>4. /\ kw \in Seq(S) /\ Len(kw) = Len(k) + Len(w)
      /\ \A i \in 1..(Len(k) + Len(w)) : kw[i] = IF i <= Len(k) THEN k[i] ELSE w[i - Len(k)]
  BY <1>3, ConcatProperties
<1> HIDE DEF kw
<1>5. Len(kw) = n + 1 /\ \A i \in 1..(n + 1) : kw[i] = IF i <= n THEN k[i] ELSE w[i - n]
  BY <1>1, <1>3, <1>4
<1>6. ASSUME NEW i \in 1..(n + 1) PROVE kw[i] = l[i]
  <2>1. CASE i <= n BY <2>1, <1>1, <1>5
  <2>2. CASE i = n + 1
    <3>1. i - n = 1 BY <2>2, <1>1
    <3> QED BY <3>1, <2>2, <1>1, <1>3, <1>5
  <2> QED BY <2>1, <2>2, <1>1
<1>7. kw = l BY <1>1, <1>4, <1>5, <1>6, SeqEqual
<1> QED BY <1>7 DEF kw, w

IsWriteSent(p, data, m, D) ==
  /\ WriteSent(p, data, 0) = <<SPI_FLASH_OPCODE_WRITE, 0, p, 0>>
  /\ \A n \in 0..m :
       /\ WriteSent(p, data, n) \in Seq(Nat) /\ Len(WriteSent(p, data, n)) = 4 + n
       /\ WriteSent(p, data, n) # <<>> /\ WriteSent(p, data, n)[1] = SPI_FLASH_OPCODE_WRITE
       /\ WriteSent(p, data, n)[3] = p
       /\ \A i \in 5..Len(WriteSent(p, data, n)) : WriteSent(p, data, n)[i] \in D
  /\ \A n \in 1..m : WriteSent(p, data, n - 1) \o <<data[n]>> = WriteSent(p, data, n)
  /\ SubSeq(WriteSent(p, data, m), 5, 4 + m) = data

LEMMA WriteSentIs ==
  ASSUME NEW p \in Nat, NEW m \in Nat, NEW D, D \subseteq Nat, NEW data, data \in [1..m -> D]
  PROVE  IsWriteSent(p, data, m, D)
<1> DEFINE op == SPI_FLASH_OPCODE_WRITE
<1>0. op \in Nat BY OpcodesAreNat
<1>1. ASSUME NEW n \in 0..m
      PROVE  LET k == WriteSent(p, data, n)
             IN  /\ k \in Seq(Nat) /\ Len(k) = 4 + n /\ k # <<>>
                 /\ k[1] = op /\ k[2] = 0 /\ k[3] = p /\ k[4] = 0
                 /\ \A i \in 5..(4 + n) : k[i] \in D /\ k[i] = data[i - 4]
  <2> DEFINE k == WriteSent(p, data, n)
  <2>1. \A i \in 5..(4 + n) : i - 4 \in 1..m OBVIOUS
  <2> HIDE DEF op
  <2>2. k = [x \in 1..(4 + n) |-> IF x = 1 THEN op ELSE IF x = 3 THEN p
                                  ELSE IF x <= 4 THEN 0 ELSE data[x - 4]]
    BY DEF WriteSent, op
  <2> HIDE DEF k
  <2>3. k[1] = op /\ k[2] = 0 /\ k[3] = p /\ k[4] = 0 BY <2>2
  <2>4. ASSUME NEW i \in 5..(4 + n) PROVE k[i] \in D /\ k[i] = data[i - 4]
    <3>1. k[i] = data[i - 4] BY <2>2
    <3> QED BY <3>1, <2>1
  <2>5. ASSUME NEW i \in 1..(4 + n) PROVE k[i] \in Nat
    <3>1. CASE i \in 5..(4 + n) BY <3>1, <2>4
    <3>2. CASE i \in 1..4 BY <3>2, <2>3, <1>0
    <3> QED BY <3>1, <3>2
  <2>6. 4 + n \in Nat OBVIOUS
  <2>7. k \in [1..(4 + n) -> Nat] BY <2>2, <2>5
  <2>8. k \in Seq(Nat) /\ Len(k) = 4 + n BY <2>6, <2>7
  <2>9. k # <<>> BY <2>8
  <2> QED BY <2>3, <2>4, <2>8, <2>9 DEF k
<1>2. WriteSent(p, data, 0) = <<op, 0, p, 0>>
  <2> DEFINE k == WriteSent(p, data, 0)
  <2>1. 0 \in 0..m OBVIOUS
  <2>a. k \in Seq(Nat) /\ Len(k) = 4 + 0 /\ k[1] = op /\ k[2] = 0 /\ k[3] = p /\ k[4] = 0
    BY <2>1, <1>1, Zenon
  <2>2. k \in Seq(Nat) /\ Len(k) = 4 /\ k[1] = op /\ k[2] = 0 /\ k[3] = p /\ k[4] = 0
    BY <2>a
  <2> HIDE DEF k, op
  <2>3. k = <<op, 0, p, 0>> BY <2>2
  <2> QED BY <2>3 DEF k
<1>3. ASSUME NEW n \in 1..m
      PROVE  WriteSent(p, data, n - 1) \o <<data[n]>> = WriteSent(p, data, n)
  <2> DEFINE i == n - 1
             k == WriteSent(p, data, i)
             l == WriteSent(p, data, n)
  <2>1. i \in 0..m /\ n \in 0..m /\ n = i + 1 OBVIOUS
  <2> HIDE DEF i
  <2>2. k \in Seq(Nat) /\ Len(k) = 4 + i BY <2>1, <1>1
  <2>3. l \in Seq(Nat) /\ Len(l) = 4 + n BY <2>1, <1>1
  <2>4. \A x \in 1..(4 + i) : k[x] = l[x] BY <2>1 DEF WriteSent
  <2>5. l[4 + n] = data[n] BY DEF WriteSent
  <2> HIDE DEF k, l
  <2>6. Len(l) = Len(k) + 1 BY <2>1, <2>2, <2>3
  <2>7. \A x \in 1..Len(k) : k[x] = l[x] BY <2>2, <2>4
  <2>8. l[Len(l)] = data[n] BY <2>3, <2>5
  <2>9. k \o <<data[n]>> = l BY <2>2, <2>3, <2>6, <2>7, <2>8, Longer
  <2> QED BY <2>9 DEF k, l, i
<1>4. SubSeq(WriteSent(p, data, m), 5, 4 + m) = data
  <2> DEFINE k == WriteSent(p, data, m)
             t == SubSeq(k, 5, 4 + m)
  <2>1. m \in 0..m OBVIOUS
  <2>2. k \in Seq(Nat) /\ Len(k) = 4 + m /\ \A i \in 5..(4 + m) : k[i] \in D /\ k[i] = data[i - 4]
    BY <2>1, <1>1
  <2> HIDE DEF k
  <2>3. t = [i \in 1..m |-> k[i + 4]]
    <3>1. t \in Seq(Nat) /\ Len(t) = m /\ \A i \in 1..m : t[i] = k[i + 4] BY <2>2
    <3> HIDE DEF t
    <3> QED BY <3>1
  <2>4. \A i \in 1..m : k[i + 4] = data[i]
    <3>1. ASSUME NEW i \in 1..m PROVE k[i + 4] = data[i]
      <4>1. i + 4 \in 5..(4 + m) /\ (i + 4) - 4 = i OBVIOUS
      <4> QED BY <4>1, <2>2
    <3> QED BY <3>1
  <2> HIDE DEF t
  <2>5. t = data BY <2>3, <2>4
  <2> QED BY <2>5 DEF t, k
<1>5. ASSUME NEW n \in 0..m
      PROVE  LET k == WriteSent(p, data, n)
             IN  /\ k \in Seq(Nat) /\ Len(k) = 4 + n /\ k # <<>> /\ k[1] = op /\ k[3] = p
                 /\ \A i \in 5..Len(k) : k[i] \in D
  <2> DEFINE k == WriteSent(p, data, n)
  <2>1. /\ k \in Seq(Nat) /\ Len(k) = 4 + n /\ k # <<>> /\ k[1] = op /\ k[3] = p
        /\ \A i \in 5..(4 + n) : k[i] \in D
    BY <1>1
  <2> HIDE DEF k, op
  <2>2. \A i \in 5..Len(k) : k[i] \in D BY <2>1
  <2> QED BY <2>1, <2>2 DEF k
<1> QED BY <1>2, <1>3, <1>4, <1>5 DEF IsWriteSent

LEMMA WriteLeads ==
  ASSUME NEW c, NEW a, NEW level, NEW ready, NEW owed, NEW at, NEW j,
         View(a, 0, <<>>, level, ready, owed, at, j) \in Views, level >= 3,
         NEW p, p \in Nat, p \in c.changing, NEW data \in Contents, c.known[p] = data
  PROVE  Leads(c, View(a, 0, <<>>, level, ready, owed, at, j), flash_memory_writePage(p, data),
               View(1, 0, <<>>, level, 0, owed \ {p}, at, j))
<1> DEFINE u == View(a, 0, <<>>, level, ready, owed, at, j)
           m == PAGE_BYTES
           k(n) == WriteSent(p, data, n)
           vs == [n \in 0..m |-> View(1, 1, k(n), level, 2, owed, at, j)]
           seqs == [n \in 1..m |-> spi_transfer(<<data[n]>>)]
           first == <<SPI_FLASH_OPCODE_WRITE, 0, p, 0>>
           s1 == flash_memory_busy
           s2 == s1 \o spi_init(4)
           s3 == s2 \o assert_CS_FLASH
           s4 == s3 \o spi_transfer(first)
           s5 == s4 \o Length(1)
           s6 == s5 \o FlattenSeq(seqs)
           s7 == s6 \o deassert_CS_FLASH
<1>1. m \in Nat /\ data \in [1..m -> Data] /\ Data \subseteq Nat
  BY SMTT(30), FlashAssumption DEF Contents
<1>2. /\ k(0) = first
      /\ \A n \in 0..m : /\ k(n) \in Seq(Nat) /\ Len(k(n)) = 4 + n /\ k(n) # <<>>
                         /\ k(n)[1] = SPI_FLASH_OPCODE_WRITE /\ k(n)[3] = p
                         /\ \A i \in 5..Len(k(n)) : k(n)[i] \in Data
      /\ \A n \in 1..m : k(n - 1) \o <<data[n]>> = k(n)
      /\ SubSeq(k(m), 5, 4 + m) = data
  <2> HIDE DEF m, first
  <2>1. IsWriteSent(p, data, m, Data) BY <1>1, WriteSentIs
  <2> QED BY <2>1 DEF IsWriteSent, first
<1> HIDE DEF k
<1>3. ASSUME NEW n \in 0..m PROVE Programs(k(n)) /\ MaySend(c, level, 2, k(n))
  <2>1. Programs(k(n)) BY <1>1, <1>2 DEF Programs
  <2> QED BY <2>1, <1>2 DEF MaySend
<1>4. 0 \in 0..m /\ m \in 0..m BY <1>1
<1>5. /\ first \in Seq(Nat) /\ first # <<>> /\ <<>> \o Low(first, 4) = first
  BY OpcodesAreNat, FourBytes
<1>6. Leads(c, u, s1, View(1, 0, <<>>, level, 2, owed, at, j)) BY BusyLeads
<1> HIDE DEF u, s1
<1>7. Leads(c, u, s2, View(4, 0, <<>>, level, 2, owed, at, j))
  <2>1. 4 \in {1, 4} OBVIOUS
  <2> QED BY <1>6, <2>1, DoLength DEF spi_init
<1> HIDE DEF s2
<1>8. Leads(c, u, s3, View(4, 1, <<>>, level, 2, owed, at, j))
  <2>1. Leads(c, u, s3, View(4, 1, <<>>, level, IF 2 = 2 THEN 2 ELSE 0, owed, at, j))
    BY <1>7, DoSelect
  <2> QED BY <2>1
<1> HIDE DEF s3, first
<1>9. Leads(c, u, s4, View(4, 1, first, level, 2, owed, at, j))
  BY <1>2, <1>3, <1>4, <1>5, <1>8, DoTransfer
<1> HIDE DEF s4
<1>10. Leads(c, u, s5, vs[0])
  <2>1. 1 \in {1, 4} OBVIOUS
  <2>2. Leads(c, u, s5, View(1, 1, first, level, 2, owed, at, j)) BY <1>9, <2>1, DoLength
  <2>3. vs[0] = View(1, 1, first, level, 2, owed, at, j) BY <1>2, <1>4
  <2> QED BY <2>2, <2>3
<1> HIDE DEF s5
<1>11. owed \in SUBSET Pages /\ at \in Int /\ j \in {0, 1} /\ level \in 0..4
  BY ViewFields, ViewIs
<1>12. ASSUME NEW n \in 1..m
       PROVE  /\ Leads(c, vs[n - 1], seqs[n], vs[n]) /\ seqs[n] \in Seq(Steps)
  <2> DEFINE x == k(n - 1)
             v == View(1, 1, x, level, 2, owed, at, j)
             word == <<data[n]>>
  <2>0. n - 1 \in 0..m /\ n \in 0..m BY <1>1
  <2>1. vs[n - 1] = v /\ vs[n] = View(1, 1, k(n), level, 2, owed, at, j) BY <2>0
  <2>2. data[n] \in Nat BY <1>1
  <2>3. word \in Seq(Nat) /\ word # <<>> /\ Low(word, 1) = word BY <2>2, LowOfOne
  <2>4. x \o Low(word, 1) = k(n) BY <1>2, <2>3
  <2>5. x \in Seq(Int) BY <1>2, <2>0, BytesAreNumbers
  <2>6. v \in Views
    <3>1. 1 \in {1, 4} /\ 1 \in {0, 1} /\ 2 \in 0..2 OBVIOUS
    <3> HIDE DEF x
    <3> QED BY <2>5, <3>1, <1>11, ViewTyped
  <2>7. Leads(c, v, <<>>, v) BY <2>6, LeadsNowhere
  <2> HIDE DEF x, word
  <2>8. Leads(c, v, <<>> \o spi_transfer(word), View(1, 1, k(n), level, 2, owed, at, j))
    BY <2>0, <2>3, <2>4, <2>7, <1>3, DoTransfer
  <2>9. spi_transfer(word) \in Seq(Steps)
    <3>1. word \in Seq(Int) BY <2>3, BytesAreNumbers
    <3> QED BY <3>1, AreSteps DEF spi_transfer
  <2>10. <<>> \o spi_transfer(word) = spi_transfer(word) BY <2>9, Joined
  <2>11. seqs[n] = spi_transfer(word) BY DEF word
  <2> HIDE DEF v
  <2> QED BY <2>1, <2>8, <2>9, <2>10, <2>11
<1>13. seqs \in [1..m -> Seq(Steps)] /\ vs[0] \in Views
  <2>1. vs[0] \in Views BY <1>10, LeadsFrom
  <2>2. seqs = [n \in 1..m |-> seqs[n]] OBVIOUS
  <2> HIDE DEF seqs, vs
  <2> QED BY <2>1, <2>2, <1>12
<1>14. vs[m] = View(1, 1, k(m), level, 2, owed, at, j) BY <1>4
<1> HIDE DEF seqs, vs
<1>15. Leads(c, vs[0], FlattenSeq(seqs), vs[m]) BY <1>1, <1>12, <1>13, LeadsThrough
<1>16. Leads(c, u, s6, View(1, 1, k(m), level, 2, owed, at, j)) BY <1>10, <1>14, <1>15, LeadsOn
<1> HIDE DEF s6
<1>17. Leads(c, u, s7, View(1, 0, <<>>, level, 0, owed \ {p}, at, j))
  <2> DEFINE x == k(m)
  <2>1. Programs(x) /\ x[3] = p /\ Len(x) = 4 + m BY <1>2, <1>3, <1>4
  <2>2. Fulfils(c, x) BY <1>2, <1>4 DEF Fulfils
  <2> HIDE DEF x
  <2>3. /\ level = LevelAfter(level, x) /\ 0 = ReadyAfter(2, x)
        /\ owed \ {p} = OwedAfter(owed, x)
    BY <2>1, Programmed
  <2>4. Leads(c, u, s6, View(1, 1, x, level, 2, owed, at, j)) BY <1>16 DEF x
  <2> QED BY <2>2, <2>3, <2>4, DoDeselect
<1>18. flash_memory_writePage(p, data) = s7
  BY DEF flash_memory_writePage, s6, s5, s4, s3, s2, s1, first, seqs
<1> QED BY <1>17, <1>18 DEF u

\* The command that reads, with n bytes read.
ReadSent(p, offset, n) ==
  [x \in 1..(5 + n) |-> IF x = 1 THEN SPI_FLASH_OPCODE_READ_HF ELSE IF x = 3 THEN p
                        ELSE IF x = 4 THEN offset ELSE 0]
IsReadSent(p, offset) ==
  /\ <<SPI_FLASH_OPCODE_READ_HF>> \o <<0, p, offset, 0>> = ReadSent(p, offset, 0)
  /\ \A n \in Nat :
       /\ ReadSent(p, offset, n) \in Seq(Nat) /\ Len(ReadSent(p, offset, n)) = 5 + n
       /\ ReadSent(p, offset, n) # <<>> /\ ReadSent(p, offset, n)[1] = SPI_FLASH_OPCODE_READ_HF
       /\ ReadSent(p, offset, n)[3] = p /\ ReadSent(p, offset, n)[4] = offset
       /\ ReadSent(p, offset, n) \o <<0>> = ReadSent(p, offset, n + 1)

LEMMA ReadSentIs ==
  ASSUME NEW p, p \in Nat, NEW offset, offset \in Nat
  PROVE  IsReadSent(p, offset)
<1> DEFINE op == SPI_FLASH_OPCODE_READ_HF
<1>0. op \in Nat BY OpcodesAreNat
<1>1. ASSUME NEW n \in Nat
      PROVE  LET k == ReadSent(p, offset, n)
             IN  /\ k \in Seq(Nat) /\ Len(k) = 5 + n /\ k # <<>> /\ k[1] = op /\ k[2] = 0
                 /\ k[3] = p /\ k[4] = offset /\ \A i \in 5..(5 + n) : k[i] = 0
  <2> DEFINE k == ReadSent(p, offset, n)
  <2> HIDE DEF op
  <2>1. k = [x \in 1..(5 + n) |-> IF x = 1 THEN op ELSE IF x = 3 THEN p
                                  ELSE IF x = 4 THEN offset ELSE 0]
    BY DEF ReadSent, op
  <2> HIDE DEF k
  <2>2. /\ k[1] = op /\ k[2] = 0 /\ k[3] = p /\ k[4] = offset
        /\ \A i \in 5..(5 + n) : k[i] = 0
    BY <2>1
  <2>3. 5 + n \in Nat OBVIOUS
  <2>4. k \in [1..(5 + n) -> Nat] BY <2>1, <1>0
  <2>5. k \in Seq(Nat) /\ Len(k) = 5 + n BY <2>3, <2>4
  <2>6. k # <<>> BY <2>5
  <2> QED BY <2>2, <2>5, <2>6 DEF k
<1>2. <<op>> \o <<0, p, offset, 0>> = ReadSent(p, offset, 0)
  <2> DEFINE a == <<op>>
             b == <<0, p, offset, 0>>
             ab == a \o b
             k == ReadSent(p, offset, 0)
  <2>1. a \in Seq(Nat) /\ Len(a) = 1 /\ a[1] = op BY <1>0
  <2>2. /\ b \in Seq(Nat) /\ Len(b) = 4
        /\ b[1] = 0 /\ b[2] = p /\ b[3] = offset /\ b[4] = 0
    OBVIOUS
  <2>a. 0 \in Nat OBVIOUS
  <2>3. /\ k \in Seq(Nat) /\ Len(k) = 5 + 0 /\ k[1] = op /\ k[2] = 0
        /\ k[3] = p /\ k[4] = offset /\ \A i \in 5..(5 + 0) : k[i] = 0
    BY <2>a, <1>1, Zenon
  <2>4. Len(k) = 5 /\ k[5] = 0 BY <2>3
  <2> HIDE DEF a, b, k, op
  <2>5. /\ ab \in Seq(Nat) /\ Len(ab) = Len(a) + Len(b)
        /\ \A i \in 1..(Len(a) + Len(b)) : ab[i] = IF i <= Len(a) THEN a[i] ELSE b[i - Len(a)]
    BY <2>1, <2>2, ConcatProperties
  <2> HIDE DEF ab
  <2>6. Len(ab) = 5 BY <2>1, <2>2, <2>5
  <2>7. /\ ab[1] = a[1] /\ ab[2] = b[1] /\ ab[3] = b[2] /\ ab[4] = b[3] /\ ab[5] = b[4]
    BY <2>1, <2>2, <2>5
  <2>8. ASSUME NEW i \in 1..5 PROVE ab[i] = k[i] BY <2>1, <2>2, <2>3, <2>4, <2>7
  <2>9. ab = k BY <2>3, <2>4, <2>5, <2>6, <2>8, SeqEqual
  <2> QED BY <2>9 DEF ab, a, b, k
<1>3. ASSUME NEW n \in Nat PROVE ReadSent(p, offset, n) \o <<0>> = ReadSent(p, offset, n + 1)
  <2> DEFINE o == n + 1
             k == ReadSent(p, offset, n)
             l == ReadSent(p, offset, o)
  <2>1. o \in Nat /\ o = n + 1 OBVIOUS
  <2> HIDE DEF o
  <2>2. k \in Seq(Nat) /\ Len(k) = 5 + n BY <1>1
  <2>3. l \in Seq(Nat) /\ Len(l) = 5 + o BY <2>1, <1>1
  <2>4. \A x \in 1..(5 + n) : k[x] = l[x] BY <2>1 DEF ReadSent
  <2>5. l[5 + o] = 0 BY <2>1 DEF ReadSent
  <2> HIDE DEF k, l
  <2>6. Len(l) = Len(k) + 1 BY <2>1, <2>2, <2>3
  <2>7. \A x \in 1..Len(k) : k[x] = l[x] BY <2>2, <2>4
  <2>8. l[Len(l)] = 0 BY <2>3, <2>5
  <2>9. k \o <<0>> = l BY <2>2, <2>3, <2>6, <2>7, <2>8, Longer
  <2> QED BY <2>9 DEF k, l, o
<1>4. ASSUME NEW n \in Nat
      PROVE  LET k == ReadSent(p, offset, n)
             IN  /\ k \in Seq(Nat) /\ Len(k) = 5 + n /\ k # <<>> /\ k[1] = op
                 /\ k[3] = p /\ k[4] = offset
  BY <1>1
<1> QED BY <1>2, <1>3, <1>4 DEF IsReadSent

LEMMA Reads ==
  ASSUME NEW c, NEW k, k # <<>>, k[1] = SPI_FLASH_OPCODE_READ_HF, NEW level, level >= 3
  PROVE  /\ MaySend(c, level, 2, k) /\ Fulfils(c, k) /\ LevelAfter(level, k) = level
         /\ ReadyAfter(2, k) = 2 /\ \A owed : OwedAfter(owed, k) = owed
<1>1. /\ k[1] # \h3D /\ k[1] # SPI_FLASH_OPCODE_WAKE /\ k[1] # SPI_FLASH_OPCODE_STATUS_REGISTER_READ
      /\ k[1] # SPI_FLASH_OPCODE_WRITE /\ k[1] # SPI_FLASH_OPCODE_PAGE_ERASE
  BY DEF SPI_FLASH_OPCODE_WRITE, SPI_FLASH_OPCODE_PAGE_ERASE, SPI_FLASH_OPCODE_WAKE,
         SPI_FLASH_OPCODE_STATUS_REGISTER_READ, SPI_FLASH_OPCODE_READ_HF
<1>2. /\ SPI_FLASH_OPCODE_UNPROTECT[1] = \h3D /\ Asks[1] = SPI_FLASH_OPCODE_STATUS_REGISTER_READ
      /\ <<SPI_FLASH_OPCODE_WAKE>>[1] = SPI_FLASH_OPCODE_WAKE
  BY DEF SPI_FLASH_OPCODE_UNPROTECT, Asks
<1>3. k # SPI_FLASH_OPCODE_UNPROTECT /\ k # Asks /\ k # <<SPI_FLASH_OPCODE_WAKE>> BY <1>1, <1>2
<1>4. ~Programs(k) BY <1>1 DEF Programs
<1>5. MaySend(c, level, 2, k) BY <1>1 DEF MaySend
<1> QED BY <1>3, <1>4, <1>5 DEF LevelAfter, ReadyAfter, OwedAfter, Fulfils

LEMMA BeginReadLeads ==
  ASSUME NEW c, NEW a, NEW level, NEW ready, NEW owed, NEW at, NEW j,
         View(a, 0, <<>>, level, ready, owed, at, j) \in Views, level >= 3,
         NEW p, p \in Nat, NEW offset, offset \in Nat
  PROVE  Leads(c, View(a, 0, <<>>, level, ready, owed, at, j), flash_memory_beginRead(p, offset),
               View(4, 1, ReadSent(p, offset, 0), level, 2, owed, at, j))
<1> DEFINE u == View(a, 0, <<>>, level, ready, owed, at, j)
           op == SPI_FLASH_OPCODE_READ_HF
           k == ReadSent(p, offset, 0)
           address == <<0, p, offset, 0>>
           s1 == flash_memory_busy
           s2 == s1 \o spi_init(1)
           s3 == s2 \o assert_CS_FLASH
           s4 == s3 \o spi_transfer(<<op>>)
           s5 == s4 \o Length(4)
           s6 == s5 \o spi_transfer(address)
<1>1. IsReadSent(p, offset) BY ReadSentIs
<1>2. <<op>> \o address = k BY <1>1 DEF IsReadSent
<1>3. k # <<>> /\ k[1] = op BY <1>1 DEF IsReadSent
<1>4. MaySend(c, level, 2, k) BY <1>3, Reads
<1>5. MaySend(c, level, 2, <<op>>)
  <2>1. <<op>> # <<>> /\ <<op>>[1] = op OBVIOUS
  <2> QED BY <2>1, Reads
<1>6. /\ address \in Seq(Nat) /\ address # <<>> /\ Low(address, 4) = address
      /\ <<op>> \in Seq(Nat) /\ <<op>> # <<>> /\ <<>> \o Low(<<op>>, 1) = <<op>>
  <2>1. op \in Nat /\ 0 \in Nat BY OpcodesAreNat
  <2> HIDE DEF op
  <2>2. <<op>> \in Seq(Nat) /\ <<op>> # <<>> /\ <<>> \o Low(<<op>>, 1) = <<op>>
    BY <2>1, OneByte
  <2>3. address \in Seq(Nat) /\ address # <<>> BY <2>1
  <2>4. Low(address, 4) = address BY <2>1, LowOfFour
  <2> QED BY <2>2, <2>3, <2>4
<1>7. Leads(c, u, s1, View(1, 0, <<>>, level, 2, owed, at, j)) BY BusyLeads
<1> HIDE DEF u, s1, k, address, op
<1>8. Leads(c, u, s2, View(1, 0, <<>>, level, 2, owed, at, j))
  <2>1. 1 \in {1, 4} OBVIOUS
  <2> QED BY <1>7, <2>1, DoLength DEF spi_init
<1> HIDE DEF s2
<1>9. Leads(c, u, s3, View(1, 1, <<>>, level, 2, owed, at, j))
  <2>1. Leads(c, u, s3, View(1, 1, <<>>, level, IF 2 = 2 THEN 2 ELSE 0, owed, at, j))
    BY <1>8, DoSelect
  <2> QED BY <2>1
<1> HIDE DEF s3
<1>10. Leads(c, u, s4, View(1, 1, <<op>>, level, 2, owed, at, j))
  BY <1>5, <1>6, <1>9, DoTransfer
<1> HIDE DEF s4
<1>11. Leads(c, u, s5, View(4, 1, <<op>>, level, 2, owed, at, j))
  <2>1. 4 \in {1, 4} OBVIOUS
  <2> QED BY <1>10, <2>1, DoLength
<1> HIDE DEF s5
<1>12. Leads(c, u, s6, View(4, 1, k, level, 2, owed, at, j))
  <2>1. <<op>> \o Low(address, 4) = k BY <1>2, <1>6
  <2> QED BY <1>4, <1>6, <1>11, <2>1, DoTransfer
<1>13. flash_memory_beginRead(p, offset) = s6
  BY DEF flash_memory_beginRead, s6, s5, s4, s3, s2, s1, address, op
<1> QED BY <1>12, <1>13 DEF u, k

\* The address that the host is at after n bytes.
PlaceOf(p, x) == (p * PAGE_BYTES + x) % (PageCount * PAGE_BYTES)

LEMMA PlaceIs ==
  ASSUME NEW p, p \in Nat, NEW x, x \in Nat
  PROVE  /\ PlaceOf(p, x) \in Int /\ (PlaceOf(p, x) + 1) % (PageCount * PAGE_BYTES) = PlaceOf(p, x + 1)
         /\ PlaceOf(p, x) \div PAGE_BYTES = (p + x \div PAGE_BYTES) % PageCount
         /\ PlaceOf(p, x) % PAGE_BYTES = x % PAGE_BYTES
<1> DEFINE m == PAGE_BYTES
           n == PageCount
           t == n * m
           y == p * m + x
<1>1. m \in Nat \ {0} /\ n \in Nat \ {0} /\ t \in Nat \ {0} BY PageCountIs
<1>2. ((p * m + x) % (n * m)) \div m = (p + x \div m) % n /\ ((p * m + x) % (n * m)) % m = x % m
  <2>1. p \in Nat /\ x \in Nat /\ m \in Nat \ {0} /\ n \in Nat \ {0} BY <1>1
  <2> HIDE DEF m, n
  <2> QED BY <2>1, Places, ZenonT(60)
<1>3. y \in Nat /\ p * m + (x + 1) = y + 1
  <2> DEFINE pm == p * m
  <2>1. pm \in Nat BY <1>1
  <2> HIDE DEF pm
  <2>2. pm + x \in Nat /\ pm + (x + 1) = (pm + x) + 1 BY <2>1
  <2> QED BY <2>2 DEF pm
<1> HIDE DEF t, y
<1>4. ((y % t) + 1) % t = (y + 1) % t BY <1>1, <1>3, NextPlace, Zenon
<1>5. y % t \in Int BY <1>1, <1>3
<1> QED BY <1>2, <1>3, <1>4, <1>5 DEF PlaceOf, t, y

LEMMA PrintsLead ==
  ASSUME NEW c, NEW level \in 3..4, NEW j \in {0, 1}, NEW p, p \in Nat, NEW offset, offset \in Nat,
         NEW length \in Nat
  PROVE  Leads(c, View(1, 1, ReadSent(p, offset, 0), level, 2, {}, PlaceOf(p, offset), j),
               Times(length, spi_transfer(<<0>>) \o <<<<"print">>>>),
               View(1, 1, ReadSent(p, offset, length), level, 2, {}, PlaceOf(p, offset + length), j))
<1> DEFINE k(n) == ReadSent(p, offset, n)
           at(n) == PlaceOf(p, offset + n)
           vs == [n \in 0..length |-> View(1, 1, k(n), level, 2, {}, at(n), j)]
           part == spi_transfer(<<0>>) \o <<<<"print">>>>
           seqs == [n \in 1..length |-> part]
<1>1. \A n \in Nat : /\ k(n) \in Seq(Nat) /\ Len(k(n)) = 5 + n /\ k(n) # <<>>
                     /\ k(n)[1] = SPI_FLASH_OPCODE_READ_HF /\ k(n)[3] = p /\ k(n)[4] = offset
                     /\ k(n) \o <<0>> = k(n + 1)
  <2>1. IsReadSent(p, offset) BY ReadSentIs
  <2> QED BY <2>1 DEF IsReadSent
<1>2. ASSUME NEW n \in Nat
      PROVE  /\ at(n) \in Int /\ (at(n) + 1) % (PageCount * PAGE_BYTES) = at(n + 1)
             /\ at(n) \div PAGE_BYTES = (p + (offset + n) \div PAGE_BYTES) % PageCount
             /\ at(n) % PAGE_BYTES = (offset + n) % PAGE_BYTES
  <2> DEFINE x == offset + n
  <2>1. x \in Nat /\ x + 1 = offset + (n + 1) OBVIOUS
  <2> HIDE DEF x
  <2>2. /\ PlaceOf(p, x) \in Int
        /\ (PlaceOf(p, x) + 1) % (PageCount * PAGE_BYTES) = PlaceOf(p, x + 1)
        /\ PlaceOf(p, x) \div PAGE_BYTES = (p + x \div PAGE_BYTES) % PageCount
        /\ PlaceOf(p, x) % PAGE_BYTES = x % PAGE_BYTES
    BY <2>1, PlaceIs
  <2> QED BY <2>1, <2>2 DEF x
<1> HIDE DEF k, at
<1>3. <<0>> \in Seq(Nat) /\ <<0>> # <<>> /\ Low(<<0>>, 1) = <<0>> BY OpcodesAreNat, OneByte, LowOfOne
<1>4. spi_transfer(<<0>>) \in Seq(Steps)
  <2>1. <<0>> \in Seq(Int) BY <1>3, BytesAreNumbers
  <2> QED BY <2>1, AreSteps DEF spi_transfer
<1>5. ASSUME NEW n \in Nat
      PROVE  Leads(c, View(1, 1, k(n), level, 2, {}, at(n), j), part,
                   View(1, 1, k(n + 1), level, 2, {}, at(n + 1), j))
  <2> DEFINE l == k(n + 1)
             u == View(1, 1, k(n), level, 2, {}, at(n), j)
             v == View(1, 1, l, level, 2, {}, at(n), j)
             w == View(1, 1, l, level, 2, {}, at(n + 1), j)
             step == <<"print">>
  <2>0. n + 1 \in Nat OBVIOUS
  <2>1. u \in Views
    <3>1. k(n) \in Seq(Int) /\ at(n) \in Int BY <1>1, <1>2, BytesAreNumbers
    <3>2. 1 \in {1, 4} /\ 1 \in {0, 1} /\ 2 \in 0..2 /\ level \in 0..4 /\ {} \in SUBSET Pages OBVIOUS
    <3> QED BY <3>1, <3>2, ViewTyped
  <2>2. MaySend(c, level, 2, l)
    <3>1. l # <<>> /\ l[1] = SPI_FLASH_OPCODE_READ_HF BY <1>1, <2>0
    <3>2. level >= 3 OBVIOUS
    <3> HIDE DEF l
    <3> QED BY <3>1, <3>2, Reads, Zenon
  <2>3. Leads(c, u, spi_transfer(<<0>>), v)
    <3>1. Leads(c, u, <<>>, u) BY <2>1, LeadsNowhere
    <3>2. k(n) \o Low(<<0>>, 1) = l BY <1>1, <1>3
    <3> HIDE DEF l
    <3>3. Leads(c, u, <<>> \o spi_transfer(<<0>>), v) BY <1>3, <2>2, <3>1, <3>2, DoTransfer
    <3>4. <<>> \o spi_transfer(<<0>>) = spi_transfer(<<0>>) BY <1>4, Joined
    <3> QED BY <3>3, <3>4
  <2>4. step \in Steps /\ step[1] = "print" BY AreSteps DEF Kinds
  <2>5. /\ v.length = 1 /\ v.selected = 1 /\ v.command = l /\ v.level = level
        /\ v.ready = 2 /\ v.owed = {} /\ v.at = at(n) /\ v.judged = j
    BY ViewIs
  <2>6. Len(l) = 6 + n /\ l[1] = SPI_FLASH_OPCODE_READ_HF /\ l[3] = p /\ l[4] = offset
    <3>1. Len(l) = 5 + (n + 1) BY <1>1, <2>0
    <3>2. l[1] = SPI_FLASH_OPCODE_READ_HF /\ l[3] = p /\ l[4] = offset BY <1>1, <2>0
    <3> HIDE DEF l
    <3> QED BY <3>1, <3>2
  <2> HIDE DEF u, v, step, l
  <2>7. Prints(v)
    <3>1. l[4] + Len(l) - 6 = offset + n /\ Len(l) > 5 BY <2>6
    <3> QED BY <3>1, <2>5, <2>6, <1>2 DEF Prints
  <2>8. Allowed(c, v, step) BY <2>4, <2>7 DEF Allowed
  <2>9. w = After(v, step) BY <2>4, <2>5, <1>2 DEF After
  <2> HIDE DEF w
  <2>10. Leads(c, u, spi_transfer(<<0>>) \o <<step>>, w)
    BY <2>3, <2>4, <2>8, <2>9, LeadsThen
  <2> QED BY <2>10 DEF u, w, l, step
<1>6. ASSUME NEW n \in 1..length PROVE Leads(c, vs[n - 1], seqs[n], vs[n]) /\ seqs[n] \in Seq(Steps)
  <2> DEFINE i == n - 1
  <2>1. i \in Nat /\ i \in 0..length /\ n = i + 1 /\ n \in 0..length OBVIOUS
  <2> HIDE DEF i, part
  <2>2. /\ vs[i] = View(1, 1, k(i), level, 2, {}, at(i), j)
        /\ vs[n] = View(1, 1, k(i + 1), level, 2, {}, at(i + 1), j) /\ seqs[n] = part
    BY <2>1
  <2>3. Leads(c, vs[i], seqs[n], vs[n]) BY <2>1, <2>2, <1>5
  <2>4. seqs[n] \in Seq(Steps) BY <2>3, LeadsFrom
  <2> QED BY <2>3, <2>4 DEF i
<1>7. vs[0] \in Views /\ seqs \in [1..length -> Seq(Steps)]
  <2> HIDE DEF part
  <2>1. 0 \in Nat /\ 0 \in 0..length OBVIOUS
  <2>2. Leads(c, View(1, 1, k(0), level, 2, {}, at(0), j), part,
              View(1, 1, k(0 + 1), level, 2, {}, at(0 + 1), j))
    BY <2>1, <1>5
  <2>3. vs[0] = View(1, 1, k(0), level, 2, {}, at(0), j) BY <2>1
  <2> HIDE DEF vs
  <2>4. vs[0] \in Views /\ part \in Seq(Steps) BY <2>2, <2>3, LeadsFrom
  <2> QED BY <2>4
<1>8. Times(length, part) = FlattenSeq(seqs) BY DEF Times
<1>9. /\ vs[0] = View(1, 1, k(0), level, 2, {}, at(0), j)
      /\ vs[length] = View(1, 1, k(length), level, 2, {}, at(length), j)
  <2>1. 0 \in 0..length /\ length \in 0..length OBVIOUS
  <2> QED BY <2>1
<1> HIDE DEF part, seqs, vs
<1>10. Leads(c, vs[0], FlattenSeq(seqs), vs[length]) BY <1>6, <1>7, LeadsThrough
<1>11. at(0) = PlaceOf(p, offset)
  <2>1. offset + 0 = offset OBVIOUS
  <2> QED BY <2>1 DEF at
<1> QED BY <1>8, <1>9, <1>10, <1>11 DEF k, at, part

-----------------------------------------------------------------------------
(* The words.                                                               *)

LEMMA ReadWordLeads ==
  ASSUME NEW c, NEW a, NEW level, NEW ready, NEW j, NEW p, p \in Nat, NEW offset, offset \in Nat,
         NEW length \in Nat,
         View(a, 0, <<>>, level, ready, {}, PlaceOf(p, offset), j) \in Views, level \in {0, 4},
         flash_is_initialized <=> level = 4
  PROVE  \E n : /\ AtRest(n)
                /\ Leads(c, View(a, 0, <<>>, level, ready, {}, PlaceOf(p, offset), j),
                         Initialized \o flash_memory_beginRead(p, offset) \o Length(1)
                         \o Times(length, spi_transfer(<<0>>) \o <<<<"print">>>>)
                         \o deassert_CS_FLASH, n)
<1> DEFINE at == PlaceOf(p, offset)
           then == PlaceOf(p, offset + length)
           u == View(a, 0, <<>>, level, ready, {}, at, j)
           k == ReadSent(p, offset, length)
           w == View(1, 0, <<>>, 4, 2, {}, then, j)
           s1 == Initialized
           s2 == s1 \o flash_memory_beginRead(p, offset)
           s3 == s2 \o Length(1)
           s4 == s3 \o Times(length, spi_transfer(<<0>>) \o <<<<"print">>>>)
           s5 == s4 \o deassert_CS_FLASH
<1> HIDE DEF at, then
<1>1. u \in Views BY DEF at
<1>2. j \in {0, 1} BY <1>1, ViewFields, ViewIs
<1>3. 4 >= 3 /\ 4 \in 3..4 /\ 1 \in {1, 4} OBVIOUS
<1>4. PICK a2, r2 : Leads(c, u, s1, View(a2, 0, <<>>, 4, r2, {}, at, j))
  BY <1>1, InitializedLeads
<1> HIDE DEF u, s1
<1>5. Leads(c, u, s2, View(4, 1, ReadSent(p, offset, 0), 4, 2, {}, at, j))
  <2>1. View(a2, 0, <<>>, 4, r2, {}, at, j) \in Views BY <1>4, LeadsFrom
  <2>2. Leads(c, View(a2, 0, <<>>, 4, r2, {}, at, j), flash_memory_beginRead(p, offset),
              View(4, 1, ReadSent(p, offset, 0), 4, 2, {}, at, j))
    BY <2>1, <1>3, BeginReadLeads
  <2> QED BY <2>2, <1>4, LeadsOn
<1> HIDE DEF s2
<1>6. Leads(c, u, s3, View(1, 1, ReadSent(p, offset, 0), 4, 2, {}, at, j))
  BY <1>3, <1>5, DoLength
<1> HIDE DEF s3
<1>7. Leads(c, u, s4, View(1, 1, k, 4, 2, {}, then, j))
  <2>1. Leads(c, View(1, 1, ReadSent(p, offset, 0), 4, 2, {}, at, j),
              Times(length, spi_transfer(<<0>>) \o <<<<"print">>>>),
              View(1, 1, k, 4, 2, {}, then, j))
    BY <1>2, <1>3, PrintsLead DEF at, then
  <2> QED BY <2>1, <1>6, LeadsOn
<1> HIDE DEF s4
<1>8. k # <<>> /\ k[1] = SPI_FLASH_OPCODE_READ_HF
  <2>1. IsReadSent(p, offset) BY ReadSentIs
  <2> QED BY <2>1 DEF IsReadSent
<1> HIDE DEF k
<1>9. Leads(c, u, s5, w)
  <2>1. /\ 4 = LevelAfter(4, k) /\ 2 = ReadyAfter(2, k) /\ {} = OwedAfter({}, k)
        /\ Fulfils(c, k)
    BY <1>3, <1>8, Reads
  <2> QED BY <2>1, <1>7, DoDeselect
<1>10. AtRest(w) BY ViewIs DEF AtRest
<1> HIDE DEF w
<1> QED BY <1>9, <1>10 DEF u, at, s5, s4, s3, s2, s1

LEMMA EraseWordLeads ==
  ASSUME NEW c, NEW a, NEW level, NEW ready, NEW at, NEW j, NEW p, p \in Nat, p \in c.changing,
         c.known[p] = Erased, View(a, 0, <<>>, level, ready, {p}, at, j) \in Views,
         level \in {0, 4}, flash_is_initialized <=> level = 4
  PROVE  \E n : /\ AtRest(n)
                /\ Leads(c, View(a, 0, <<>>, level, ready, {p}, at, j),
                         Initialized \o flash_memory_erasePage(p), n)
<1> DEFINE u == View(a, 0, <<>>, level, ready, {p}, at, j)
           w == View(4, 0, <<>>, 4, 0, {}, at, j)
<1>1. PICK a2, r2 : Leads(c, u, Initialized, View(a2, 0, <<>>, 4, r2, {p}, at, j))
  BY InitializedLeads
<1>2. Leads(c, View(a2, 0, <<>>, 4, r2, {p}, at, j), flash_memory_erasePage(p),
            View(4, 0, <<>>, 4, 0, {p} \ {p}, at, j))
  <2>1. 4 >= 3 OBVIOUS
  <2>2. View(a2, 0, <<>>, 4, r2, {p}, at, j) \in Views BY <1>1, LeadsFrom
  <2> QED BY <2>1, <2>2, EraseLeads
<1>3. {p} \ {p} = {} OBVIOUS
<1>4. AtRest(w) BY ViewIs DEF AtRest
<1> HIDE DEF u
<1>5. Leads(c, u, Initialized \o flash_memory_erasePage(p), w) BY <1>1, <1>2, <1>3, LeadsOn
<1> QED BY <1>4, <1>5 DEF u

LEMMA EraseManyLeads ==
  ASSUME NEW c, NEW a, NEW level, NEW ready, NEW at, NEW j, NEW p, p \in Nat, NEW q, q \in Nat,
         p <= q, \A r \in p..q : r \in c.changing /\ c.known[r] = Erased,
         View(a, 0, <<>>, level, ready, p..q, at, j) \in Views,
         level \in {0, 4}, flash_is_initialized <=> level = 4
  PROVE  \E n : /\ AtRest(n)
                /\ Leads(c, View(a, 0, <<>>, level, ready, p..q, at, j),
                         Initialized \o FlattenSeq([n1 \in 1..(q - p + 1) |->
                                                     flash_memory_erasePage(p + n1 - 1)]), n)
<1> DEFINE u == View(a, 0, <<>>, level, ready, p..q, at, j)
           m == q - p + 1
           seqs == [i \in 1..m |-> flash_memory_erasePage(p + i - 1)]
<1>1. PICK a2, r2 : Leads(c, u, Initialized, View(a2, 0, <<>>, 4, r2, p..q, at, j))
  BY InitializedLeads
<1> HIDE DEF u
<1> DEFINE v == View(a2, 0, <<>>, 4, r2, p..q, at, j)
           vs == [i \in 0..m |-> IF i = 0 THEN v ELSE View(4, 0, <<>>, 4, 0, (p + i)..q, at, j)]
<1>2. v \in Views BY <1>1, LeadsFrom
<1>3. at \in Int /\ j \in {0, 1} /\ p..q \in SUBSET Pages BY <1>2, ViewFields, ViewIs
<1>4. m \in Nat /\ m # 0 /\ 0 \in 0..m /\ m \in 0..m OBVIOUS
<1>5. ASSUME NEW i \in 1..m
      PROVE  vs[i - 1] \in Views /\ Leads(c, vs[i - 1], seqs[i], vs[i])
  <2> DEFINE x == p + i - 1
             h == i - 1
             o == x..q
  <2>1. /\ h \in 0..m /\ i \in 0..m /\ i # 0 /\ x \in p..q /\ x \in Nat /\ p + h = x
        /\ o \ {x} = (p + i)..q /\ o \subseteq p..q /\ (h = 0 => o = p..q)
    OBVIOUS
  <2> HIDE DEF x, h, o
  <2>2. vs[i] = View(4, 0, <<>>, 4, 0, o \ {x}, at, j) BY <2>1
  <2>3. x \in c.changing /\ c.known[x] = Erased BY <2>1
  <2>4. \E b, r : /\ vs[h] = View(b, 0, <<>>, 4, r, o, at, j)
                 /\ View(b, 0, <<>>, 4, r, o, at, j) \in Views
    <3>1. CASE h = 0 BY <3>1, <2>1, <1>2
    <3>2. CASE h # 0
      <4>1. vs[h] = View(4, 0, <<>>, 4, 0, o, at, j) BY <3>2, <2>1 DEF o
      <4>2. View(4, 0, <<>>, 4, 0, o, at, j) \in Views
        <5>1. 4 \in {1, 4} /\ 0 \in {0, 1} /\ <<>> \in Seq(Int) /\ 4 \in 0..4 /\ 0 \in 0..2
          OBVIOUS
        <5>2. o \in SUBSET Pages BY <2>1, <1>3
        <5> QED BY <5>1, <5>2, <1>3, ViewTyped
      <4> QED BY <4>1, <4>2
    <3> QED BY <3>1, <3>2
  <2> HIDE DEF vs
  <2>5. PICK b, r : /\ vs[h] = View(b, 0, <<>>, 4, r, o, at, j)
                    /\ View(b, 0, <<>>, 4, r, o, at, j) \in Views
    BY <2>4
  <2>6. seqs[i] = flash_memory_erasePage(x) BY DEF x
  <2>7. 4 >= 3 OBVIOUS
  <2> HIDE DEF seqs
  <2>8. Leads(c, View(b, 0, <<>>, 4, r, o, at, j), flash_memory_erasePage(x),
              View(4, 0, <<>>, 4, 0, o \ {x}, at, j))
    BY <2>1, <2>3, <2>5, <2>7, EraseLeads
  <2> QED BY <2>2, <2>5, <2>6, <2>8 DEF h
<1>6. seqs \in [1..m -> Seq(Steps)]
  <2>1. \A i \in 1..m : seqs[i] \in Seq(Steps) BY <1>5, LeadsFrom
  <2>2. seqs = [i \in 1..m |-> seqs[i]] OBVIOUS
  <2> HIDE DEF seqs
  <2> QED BY <2>1, <2>2
<1>7. vs[0] = v /\ vs[m] = View(4, 0, <<>>, 4, 0, {}, at, j)
  <2>1. (p + m)..q = {} OBVIOUS
  <2> HIDE DEF m
  <2> QED BY <2>1, <1>4
<1> DEFINE w == View(4, 0, <<>>, 4, 0, {}, at, j)
<1>8. AtRest(w) BY ViewIs DEF AtRest
<1> HIDE DEF m, seqs, vs, v, w
<1>9. Leads(c, vs[0], FlattenSeq(seqs), vs[m]) BY <1>2, <1>4, <1>5, <1>6, <1>7, LeadsThrough
<1>10. Leads(c, u, Initialized, vs[0]) BY <1>1, <1>7 DEF v
<1>11. Leads(c, u, Initialized \o FlattenSeq(seqs), vs[m]) BY <1>9, <1>10, LeadsOn
<1>12. vs[m] = w BY <1>7 DEF w
<1> QED BY <1>8, <1>11, <1>12 DEF u, seqs, m

LEMMA Pair ==
  ASSUME NEW S, NEW a \in S, NEW b \in S
  PROVE  <<a>> \o <<b>> = <<a, b>>
<1> DEFINE s == <<a>> \o <<b>>
           t == <<a, b>>
<1>1. s \in Seq(S) /\ Len(s) = 2 /\ s[1] = a /\ s[2] = b OBVIOUS
<1>2. t \in Seq(S) /\ Len(t) = 2 /\ t[1] = a /\ t[2] = b OBVIOUS
<1> HIDE DEF s, t
<1>3. \A i \in 1..2 : s[i] = t[i] BY <1>1, <1>2
<1>4. s = t BY <1>1, <1>2, <1>3, SeqEqual
<1> QED BY <1>4 DEF s, t

LEMMA WriteWordLeads ==
  ASSUME NEW c, NEW a, NEW level, NEW ready, NEW at, NEW compressed \in BOOLEAN,
         c.image \in Contents, View(a, 0, <<>>, level, ready, {}, at, 0) \in Views,
         level \in {0, 4}, flash_is_initialized <=> level = 4
  PROVE  \E n : /\ AtRest(n)
                /\ Leads(c, View(a, 0, <<>>, level, ready, {}, at, 0),
                         Initialized
                         \o (IF compressed THEN <<<<"inflate">>>>
                             ELSE Times(PAGE_BYTES, <<<<"receive">>>>))
                         \o <<<<"crc">>, <<"answer">>>>, n)
<1> DEFINE u == View(a, 0, <<>>, level, ready, {}, at, 0)
           m == PAGE_BYTES
           inflate == <<"inflate">>
           receive == <<"receive">>
           crc == <<"crc">>
           answer == <<"answer">>
           seqs == [i \in 1..m |-> <<receive>>]
           sent == IF compressed THEN <<inflate>> ELSE Times(m, <<receive>>)
<1>1. PICK a2, r2 : Leads(c, u, Initialized, View(a2, 0, <<>>, 4, r2, {}, at, 0))
  BY InitializedLeads
<1> HIDE DEF u
<1> DEFINE v == View(a2, 0, <<>>, 4, r2, {}, at, 0)
           w == View(a2, 0, <<>>, 4, r2, {}, at, 1)
           vs == [i \in 0..m |-> v]
<1>2. v \in Views BY <1>1, LeadsFrom
<1>3. /\ v.length = a2 /\ v.selected = 0 /\ v.command = <<>> /\ v.level = 4
      /\ v.ready = r2 /\ v.owed = {} /\ v.at = at /\ v.judged = 0
  BY ViewIs
<1>4. AtRest(v) /\ AtRest(w) /\ w.level = 4 BY ViewIs DEF AtRest
<1>5. /\ inflate \in Steps /\ receive \in Steps /\ crc \in Steps /\ answer \in Steps
      /\ inflate[1] = "inflate" /\ receive[1] = "receive" /\ crc[1] = "crc" /\ answer[1] = "answer"
  BY AreSteps DEF Kinds
<1> HIDE DEF v, inflate, receive, crc, answer
<1>6. Leads(c, v, <<inflate>>, v)
  <2>1. Allowed(c, v, inflate) BY <1>3, <1>4, <1>5 DEF Allowed
  <2>2. After(v, inflate) = v BY <1>5 DEF After
  <2> QED BY <2>1, <2>2, <1>2, <1>5, LeadsByOne
<1>7. Leads(c, v, <<receive>>, v)
  <2>1. Allowed(c, v, receive) BY <1>3, <1>4, <1>5 DEF Allowed
  <2>2. After(v, receive) = v BY <1>5 DEF After
  <2> QED BY <2>1, <2>2, <1>2, <1>5, LeadsByOne
<1>8. Leads(c, v, Times(m, <<receive>>), v)
  <2>1. m \in Nat BY FlashAssumption
  <2>2. <<receive>> \in Seq(Steps) BY <1>7, LeadsFrom
  <2> HIDE DEF m
  <2>3. seqs \in [1..m -> Seq(Steps)] BY <2>2
  <2>4. vs[0] = v /\ vs[m] = v BY <2>1
  <2>5. ASSUME NEW i \in 1..m PROVE Leads(c, vs[i - 1], seqs[i], vs[i])
    <3>1. i - 1 \in 0..m /\ i \in 0..m BY <2>1
    <3>2. vs[i - 1] = v /\ vs[i] = v BY <3>1
    <3>3. seqs[i] = <<receive>> OBVIOUS
    <3> QED BY <3>2, <3>3, <1>7
  <2>6. Times(m, <<receive>>) = FlattenSeq(seqs) BY DEF Times
  <2> HIDE DEF seqs, vs
  <2>7. Leads(c, vs[0], FlattenSeq(seqs), vs[m]) BY <2>1, <2>3, <2>4, <2>5, <1>2, LeadsThrough
  <2> QED BY <2>4, <2>6, <2>7
<1>9. Leads(c, v, sent, v) BY <1>6, <1>8
<1> HIDE DEF sent
<1>10. Leads(c, u, Initialized \o sent, v)
  <2>1. Leads(c, u, Initialized, v) BY <1>1 DEF v
  <2> QED BY <2>1, <1>9, LeadsOn
<1>11. Leads(c, v, <<crc>> \o <<answer>>, w)
  <2>1. Allowed(c, v, crc) BY <1>5 DEF Allowed
  <2>2. w = After(v, crc) BY <1>3, <1>5 DEF After
  <2>3. After(v, crc) \in Views BY <2>1, <1>2, AfterTyped
  <2> HIDE DEF w
  <2>4. Leads(c, v, <<crc>>, w) BY <2>1, <2>2, <2>3, <1>2, <1>5, LeadsByOne
  <2>5. Allowed(c, w, answer) BY <1>4, <1>5 DEF Allowed
  <2>6. w = After(w, answer) BY <1>5 DEF After
  <2> QED BY <2>4, <2>5, <2>6, <1>5, LeadsThen
<1>12. <<crc>> \o <<answer>> = <<crc, answer>> BY <1>5, Pair
<1> HIDE DEF w
<1>13. Leads(c, u, Initialized \o sent \o <<crc, answer>>, w) BY <1>10, <1>11, <1>12, LeadsOn
<1> QED BY <1>4, <1>13 DEF u, sent, crc, answer, inflate, receive

-----------------------------------------------------------------------------
(* The invariant.                                                           *)

ChipIs(ch) ==
  /\ DOMAIN ch = {"state", "selected", "command", "busy", "protected", "disturbed"}
  /\ ch.state \in {"asleep", "waking", "awake"} /\ ch.selected \in BOOLEAN
  /\ ch.command \in Seq(Int) /\ ch.busy \in BOOLEAN /\ ch.protected \in BOOLEAN
  /\ ch.disturbed \in BOOLEAN
HostIs(ho) ==
  /\ DOMAIN ho = {"page", "image", "at", "damaged", "good", "changing"}
  /\ ho.page \in Pages /\ ho.changing \in SUBSET Pages

\* A busy chip was unprotected, the host's answer is about what is in the
\* buffer, and until a reset nothing has gone wrong.
Typed == FlashTypeOK /\ ChipIs(chip) /\ HostIs(host) /\ resets \in Nat
Steady ==
  /\ chip.busy => ~chip.protected
  /\ host.good => buffer = host.image
  /\ resets = 0 => ~chip.disturbed /\ \A p \in Pages : pages[p] # Torn

Context == [known |-> known, changing |-> host.changing, image |-> host.image, resets |-> resets]

\* The command that wakes the chip, or that unprotects it, which it did not
\* take: it had been given before the reset.
Missed(v) ==
  /\ chip.command = <<-1>> /\ resets # 0
  /\ \/ v.command = <<SPI_FLASH_OPCODE_WAKE>> /\ chip.state # "asleep"
     \/ v.command = SPI_FLASH_OPCODE_UNPROTECT /\ ~chip.protected
ByteRead(k) ==
  LET at == k[4] + Len(k) - 6
  IN  pages[(k[3] + at \div PAGE_BYTES) % PageCount][(at % PAGE_BYTES) + 1]

PinsAgree(v) == data_length = v.length /\ (chip.selected <=> v.selected = 1)
CommandAgrees(v) == chip.command = v.command \/ Missed(v)
LevelAgrees(v) ==
  /\ v.level >= 1 => chip.state # "asleep"
  /\ v.level >= 2 => chip.state = "awake"
  /\ v.level >= 3 => ~chip.protected
  /\ resets = 0 /\ v.level = 0 => chip.state # "waking"
  /\ flash_is_initialized <=> v.level = 4
ReadyAgrees(v) ==
  /\ v.ready = 2 => ~chip.busy
  /\ v.ready = 1 \/ v.command = Asks => (rx >= RDY => ~chip.busy)
ReadAgrees(v) ==
  LET k == v.command
  IN  k # <<>> /\ k[1] = SPI_FLASH_OPCODE_READ_HF /\ Len(k) > 5 => rx = ByteRead(k)
HostAgrees(v) ==
  /\ host.at = v.at
  /\ v.judged = 0 => ~host.good
  /\ \A p \in Pages \ v.owed : known[p] = <<>> \/ known[p] = pages[p]
Agrees(v) ==
  /\ PinsAgree(v) /\ CommandAgrees(v) /\ LevelAgrees(v) /\ ReadyAgrees(v)
  /\ ReadAgrees(v) /\ HostAgrees(v)

Plays(v) == Proper(Context, v) /\ Agrees(v) /\ \E n : AtRest(n) /\ Leads(Context, v, script, n)
FlashInv == Typed /\ Steady /\ \E v : Plays(v)

-----------------------------------------------------------------------------
(* The chip.                                                                *)

SendsAre(c, level, ready, k) ==
  /\ Programs(k) => /\ level >= 3 /\ ready = 2 /\ k # <<>> /\ k[3] \in c.changing
                    /\ k[1] = SPI_FLASH_OPCODE_WRITE => \A i \in 5..Len(k) : k[i] \in Data
  /\ k # <<>> /\ k[1] = SPI_FLASH_OPCODE_WAKE => k = <<SPI_FLASH_OPCODE_WAKE>>
  /\ k = <<SPI_FLASH_OPCODE_WAKE>> => level = 0
  /\ k = SPI_FLASH_OPCODE_UNPROTECT => level = 2
  /\ k # SPI_FLASH_OPCODE_256B_PAGE /\ k # <<-1>>
  /\ k # <<>> => /\ k[1] = \h3D => k = SPI_FLASH_OPCODE_UNPROTECT
                 /\ \/ k = <<SPI_FLASH_OPCODE_WAKE>> \/ k = SPI_FLASH_OPCODE_UNPROTECT
                    \/ k[1] = SPI_FLASH_OPCODE_STATUS_REGISTER_READ /\ level >= 3
                    \/ level >= 3 /\ ready = 2

LEMMA MaySendIs ==
  ASSUME NEW c, NEW level, level \in 0..4, NEW ready, NEW k, k \in Seq(Int),
         MaySend(c, level, ready, k)
  PROVE  SendsAre(c, level, ready, k)
<1>1. /\ SPI_FLASH_OPCODE_UNPROTECT # <<>> /\ SPI_FLASH_OPCODE_UNPROTECT[1] = \h3D
      /\ SPI_FLASH_OPCODE_UNPROTECT[3] = \h80
      /\ SPI_FLASH_OPCODE_256B_PAGE # <<>> /\ SPI_FLASH_OPCODE_256B_PAGE[1] = \h3D
      /\ SPI_FLASH_OPCODE_256B_PAGE[3] = \h7F /\ <<-1>> # <<>> /\ <<-1>>[1] = -1
      /\ <<SPI_FLASH_OPCODE_STATUS_REGISTER_READ>>[1] = SPI_FLASH_OPCODE_STATUS_REGISTER_READ
      /\ Asks[1] = SPI_FLASH_OPCODE_STATUS_REGISTER_READ /\ Asks # <<>>
      /\ <<SPI_FLASH_OPCODE_STATUS_REGISTER_READ>> # <<>>
      /\ <<SPI_FLASH_OPCODE_WAKE>>[1] = SPI_FLASH_OPCODE_WAKE /\ <<SPI_FLASH_OPCODE_WAKE>> # <<>>
      /\ <<\h9A>>[1] = \h9A /\ <<\h9A>> # <<>>
  BY DEF SPI_FLASH_OPCODE_UNPROTECT, SPI_FLASH_OPCODE_256B_PAGE, Asks
<1> DEFINE unprotect == SPI_FLASH_OPCODE_UNPROTECT
           paged == SPI_FLASH_OPCODE_256B_PAGE
           wake == <<SPI_FLASH_OPCODE_WAKE>>
           asks == Asks
           status == <<SPI_FLASH_OPCODE_STATUS_REGISTER_READ>>
           last == <<\h9A>>
           none == <<-1>>
<1>2. /\ unprotect # <<>> /\ unprotect[1] = \h3D /\ unprotect[3] = \h80
      /\ paged # <<>> /\ paged[1] = \h3D /\ paged[3] = \h7F /\ none # <<>> /\ none[1] = -1
      /\ status[1] = \hD7 /\ asks[1] = \hD7 /\ asks # <<>> /\ status # <<>>
      /\ wake[1] = \hAB /\ wake # <<>> /\ last[1] = \h9A /\ last # <<>>
  BY <1>1 DEF SPI_FLASH_OPCODE_WAKE, SPI_FLASH_OPCODE_STATUS_REGISTER_READ
<1>3. \/ k = <<>>
      \/ k = wake /\ level = 0
      \/ k = unprotect /\ level = 2
      \/ k \in {status, asks} /\ level >= 3
      \/ /\ k # <<>> /\ level >= 3 /\ ready = 2
         /\ \/ k = last \/ k[1] = SPI_FLASH_OPCODE_READ_HF
            \/ Programs(k) /\ k[3] \in c.changing
         /\ k[1] = SPI_FLASH_OPCODE_WRITE => \A i \in 5..Len(k) : k[i] \in Data
  BY DEF MaySend
<1> HIDE DEF unprotect, paged, wake, asks, status, last, none
<1>4. CASE k = <<>>
  <2>1. Len(k) = 0 BY <1>4
  <2>2. ~Programs(k) BY <2>1 DEF Programs
  <2> QED BY <2>2, <1>2, <1>4 DEF unprotect, paged, wake, none, SendsAre
<1>5. CASE k # <<>>
  <2> DEFINE first == k[1]
             programs == Programs(k)
             known1 == k[3] \in c.changing
             data == \A i \in 5..Len(k) : k[i] \in Data
  <2>1. \/ k = wake /\ first = \hAB /\ level = 0
        \/ k = unprotect /\ first = \h3D /\ level = 2
        \/ first = \hD7 /\ level >= 3
        \/ /\ level >= 3 /\ ready = 2
           /\ first \in {\h9A, \h0B} \/ (programs /\ known1)
           /\ first = \h82 => data
    BY <1>2, <1>3, <1>5
       DEF SPI_FLASH_OPCODE_READ_HF, SPI_FLASH_OPCODE_WRITE
  <2>2. programs => first \in {\h82, \h81}
    BY DEF Programs, SPI_FLASH_OPCODE_WRITE, SPI_FLASH_OPCODE_PAGE_ERASE
  <2>3. /\ k = wake => first = \hAB
        /\ k = unprotect => first = \h3D /\ k[3] = \h80
        /\ k = paged => first = \h3D /\ k[3] = \h7F
        /\ k = none => first = -1
    BY <1>2
  <2>4. unprotect # paged BY <1>2
  <2> HIDE DEF first, programs, known1, data
  <2>5. programs => level >= 3 /\ ready = 2 /\ known1 /\ (first = \h82 => data)
    BY <2>1, <2>2
  <2>6. first = \hAB => k = wake BY <2>1, <2>2
  <2>7. (k = wake => level = 0) /\ (k = unprotect => level = 2) BY <2>1, <2>2, <2>3
  <2>8. k # paged BY <2>1, <2>2, <2>3, <2>4
  <2>9. k # none BY <2>1, <2>2, <2>3
  <2>10. /\ first = \h3D => k = unprotect
         /\ k = wake \/ k = unprotect \/ (first = \hD7 /\ level >= 3) \/ (level >= 3 /\ ready = 2)
    BY <2>1, <2>2
  <2> QED
    BY <2>5, <2>6, <2>7, <2>8, <2>9, <2>10, <1>5
       DEF unprotect, paged, wake, none, SPI_FLASH_OPCODE_WAKE, first, programs, known1, data,
           SPI_FLASH_OPCODE_WRITE, SPI_FLASH_OPCODE_STATUS_REGISTER_READ, SendsAre
<1> QED BY <1>4, <1>5

LEMMA Carried ==
  ASSUME NEW k, Carries(k), ChipIs(chip)
  PROVE  LET op == IF k = <<>> THEN -1 ELSE k[1]
             programs == k # <<>> /\ Programs(k) /\ ~chip.protected
         IN  /\ ChipIs(chip') /\ ~chip'.selected /\ chip'.command = <<>>
             /\ chip'.state = IF op = SPI_FLASH_OPCODE_WAKE /\ chip.state = "asleep"
                              THEN "waking" ELSE chip.state
             /\ chip'.protected <=> chip.protected /\ k # SPI_FLASH_OPCODE_UNPROTECT
             /\ chip'.busy <=> \/ chip.busy \/ programs
                               \/ k = SPI_FLASH_OPCODE_UNPROTECT \/ k = SPI_FLASH_OPCODE_256B_PAGE
             /\ chip'.disturbed <=> chip.disturbed
             /\ programs => pages' = [pages EXCEPT ![k[3]] =
                              IF k[1] = SPI_FLASH_OPCODE_WRITE THEN Written(k) ELSE Erased]
             /\ ~programs => pages' = pages
<1> DEFINE op == IF k = <<>> THEN -1 ELSE k[1]
           carries == op \in {SPI_FLASH_OPCODE_WRITE, SPI_FLASH_OPCODE_PAGE_ERASE}
                      /\ Len(k) >= 4 /\ ~chip.protected
           programs == k # <<>> /\ Programs(k) /\ ~chip.protected
           wakes == op = SPI_FLASH_OPCODE_WAKE
           keeps == k # SPI_FLASH_OPCODE_UNPROTECT
           takes == carries \/ k \in {SPI_FLASH_OPCODE_UNPROTECT, SPI_FLASH_OPCODE_256B_PAGE}
<1>1. carries <=> programs
  BY DEF Programs, SPI_FLASH_OPCODE_WRITE, SPI_FLASH_OPCODE_PAGE_ERASE
<1>2. /\ pages' = IF carries
                  THEN [pages EXCEPT ![k[3]] =
                          IF op = SPI_FLASH_OPCODE_WRITE THEN Written(k) ELSE Erased]
                  ELSE pages
      /\ chip' = [chip EXCEPT
           !.selected = FALSE, !.command = <<>>,
           !.state = IF wakes /\ @ = "asleep" THEN "waking" ELSE @,
           !.protected = @ /\ keeps,
           !.busy = @ \/ carries \/ k \in {SPI_FLASH_OPCODE_UNPROTECT, SPI_FLASH_OPCODE_256B_PAGE}]
  BY DEF Carries
<1> HIDE DEF carries, wakes, keeps, op
<1>3. /\ chip'.state = (IF wakes /\ chip.state = "asleep" THEN "waking" ELSE chip.state)
      /\ chip'.selected = FALSE /\ chip'.command = <<>>
      /\ chip'.protected = (chip.protected /\ keeps)
      /\ chip'.busy = (chip.busy \/ carries
                       \/ k \in {SPI_FLASH_OPCODE_UNPROTECT, SPI_FLASH_OPCODE_256B_PAGE})
      /\ chip'.disturbed = chip.disturbed
      /\ ChipIs(chip')
  BY <1>2 DEF ChipIs
<1>4. programs => (op = SPI_FLASH_OPCODE_WRITE <=> k[1] = SPI_FLASH_OPCODE_WRITE) BY DEF op
<1> HIDE DEF programs
<1>5. /\ programs => pages' = [pages EXCEPT ![k[3]] =
                       IF k[1] = SPI_FLASH_OPCODE_WRITE THEN Written(k) ELSE Erased]
      /\ ~programs => pages' = pages
  BY <1>1, <1>2, <1>4
<1>6. chip'.busy <=> \/ chip.busy \/ programs
                     \/ k = SPI_FLASH_OPCODE_UNPROTECT \/ k = SPI_FLASH_OPCODE_256B_PAGE
  BY <1>1, <1>3
<1>7. chip'.protected <=> chip.protected /\ k # SPI_FLASH_OPCODE_UNPROTECT BY <1>3 DEF keeps
<1> QED BY <1>3, <1>5, <1>6, <1>7 DEF programs, wakes, op

-----------------------------------------------------------------------------
(* The driver goes on.                                                      *)

\* The view after a step, field by field.
LEMMA AfterLength ==
  ASSUME NEW v, NEW step, step[1] = "length", NEW w, w = After(v, step)
  PROVE  /\ w.length = step[2] /\ w.selected = v.selected /\ w.command = v.command
         /\ w.level = v.level /\ w.ready = v.ready /\ w.owed = v.owed /\ w.at = v.at
         /\ w.judged = v.judged
BY DEF After, View

LEMMA AfterSelect ==
  ASSUME NEW v, NEW step, step[1] = "select", NEW w, w = After(v, step)
  PROVE  /\ w.length = v.length /\ w.selected = 1 /\ w.command = <<>>
         /\ w.level = v.level /\ w.ready = (IF v.ready = 2 THEN 2 ELSE 0)
         /\ w.owed = v.owed /\ w.at = v.at /\ w.judged = v.judged
BY DEF After, View

LEMMA AfterTransfer ==
  ASSUME NEW v, NEW step, step[1] = "transfer", NEW w, w = After(v, step)
  PROVE  /\ w.length = v.length /\ w.selected = v.selected
         /\ w.command = v.command \o Low(step[2], v.length) /\ w.level = v.level
         /\ w.ready = v.ready /\ w.owed = v.owed /\ w.at = v.at /\ w.judged = v.judged
BY DEF After, View

LEMMA AfterDeselect ==
  ASSUME NEW v, NEW step, step[1] = "deselect", NEW w, w = After(v, step)
  PROVE  /\ w.length = v.length /\ w.selected = 0 /\ w.command = <<>>
         /\ w.level = LevelAfter(v.level, v.command)
         /\ w.ready = ReadyAfter(v.ready, v.command)
         /\ w.owed = OwedAfter(v.owed, v.command) /\ w.at = v.at /\ w.judged = v.judged
BY DEF After, View

LEMMA AfterAgain ==
  ASSUME NEW v, NEW step, step[1] = "again", NEW w, w = After(v, step)
  PROVE  /\ w.length = 1 /\ w.selected = v.selected /\ w.command = v.command
         /\ w.level = v.level /\ w.ready = 2 /\ w.owed = v.owed /\ w.at = v.at
         /\ w.judged = v.judged
BY DEF After, View

LEMMA AfterDelay ==
  ASSUME NEW v, NEW step, step[1] = "delay", NEW w, w = After(v, step)
  PROVE  /\ w.length = v.length /\ w.selected = v.selected /\ w.command = v.command
         /\ w.level = 2 /\ w.ready = v.ready /\ w.owed = v.owed /\ w.at = v.at
         /\ w.judged = v.judged
BY DEF After, View

LEMMA AfterInitialized ==
  ASSUME NEW v, NEW step, step[1] = "initialized", NEW w, w = After(v, step)
  PROVE  /\ w.length = v.length /\ w.selected = v.selected /\ w.command = v.command
         /\ w.level = 4 /\ w.ready = v.ready /\ w.owed = v.owed /\ w.at = v.at
         /\ w.judged = v.judged
BY DEF After, View

LEMMA AfterPrint ==
  ASSUME NEW v, NEW step, step[1] = "print", NEW w, w = After(v, step)
  PROVE  /\ w.length = v.length /\ w.selected = v.selected /\ w.command = v.command
         /\ w.level = v.level /\ w.ready = v.ready /\ w.owed = v.owed
         /\ w.at = (v.at + 1) % (PageCount * PAGE_BYTES) /\ w.judged = v.judged
BY DEF After, View

LEMMA AfterCrc ==
  ASSUME NEW v, NEW step, step[1] = "crc", NEW w, w = After(v, step)
  PROVE  /\ w.length = v.length /\ w.selected = v.selected /\ w.command = v.command
         /\ w.level = v.level /\ w.ready = v.ready /\ w.owed = v.owed /\ w.at = v.at
         /\ w.judged = 1
BY DEF After, View

LEMMA AfterOthers ==
  ASSUME NEW v, NEW step, step[1] \in {"receive", "inflate", "answer"}
  PROVE  After(v, step) = v
BY DEF After

\* What is so of every view stays so.
LEMMA GoesOn ==
  ASSUME NEW c, NEW v \in Views, Proper(c, v), NEW step, Allowed(c, v, step),
         NEW w, w = After(v, step)
  PROVE  Proper(c, w)
<1>0. /\ v.length \in {1, 4} /\ v.selected \in {0, 1} /\ v.command \in Seq(Int)
      /\ v.level \in 0..4 /\ v.ready \in 0..2 /\ v.owed \in SUBSET Pages /\ v.at \in Int
      /\ v.judged \in {0, 1}
  BY ViewFields
<1>1. /\ v.owed \subseteq c.changing /\ MaySend(c, v.level, v.ready, v.command)
      /\ (v.selected = 0 => v.command = <<>>) /\ (v.ready = 1 => v.selected = 0)
      /\ (c.resets = 0 /\ v.level <= 2 => v.ready = 2)
  BY DEF Proper
<1>2. \A level, ready : MaySend(c, level, ready, <<>>) BY DEF MaySend
<1>3. CASE step[1] = "length"
  <2>1. /\ w.selected = v.selected /\ w.command = v.command /\ w.level = v.level
        /\ w.ready = v.ready /\ w.owed = v.owed
    BY <1>3, AfterLength
  <2> QED BY <2>1, <1>1 DEF Proper
<1>4. CASE step[1] = "select"
  <2>1. /\ w.selected = 1 /\ w.command = <<>> /\ w.level = v.level
        /\ w.ready = (IF v.ready = 2 THEN 2 ELSE 0) /\ w.owed = v.owed
    BY <1>4, AfterSelect
  <2> QED BY <2>1, <1>0, <1>1, <1>2 DEF Proper
<1>5. CASE step[1] = "transfer"
  <2>1. v.selected = 1 /\ MaySend(c, v.level, v.ready, v.command \o Low(step[2], v.length))
    BY <1>5, AllowedIs
  <2> DEFINE k == v.command \o Low(step[2], v.length)
  <2> HIDE DEF k
  <2>2. /\ w.selected = v.selected /\ w.command = k /\ w.level = v.level
        /\ w.ready = v.ready /\ w.owed = v.owed
    BY <1>5 DEF k, After, View
  <2>3. MaySend(c, v.level, v.ready, k) BY <2>1 DEF k
  <2> QED BY <2>1, <2>2, <2>3, <1>1 DEF Proper
<1>6. CASE step[1] = "deselect"
  <2> DEFINE k == v.command
  <2>1. /\ w.selected = 0 /\ w.command = <<>> /\ w.level = LevelAfter(v.level, k)
        /\ w.ready = ReadyAfter(v.ready, k) /\ w.owed = OwedAfter(v.owed, k)
    BY <1>6, AfterDeselect
  <2>2. /\ Programs(k) => v.level >= 3
        /\ k = <<SPI_FLASH_OPCODE_WAKE>> => v.level = 0
        /\ k = SPI_FLASH_OPCODE_UNPROTECT => v.level = 2
    <3>1. k \in Seq(Int) /\ v.level \in 0..4 /\ MaySend(c, v.level, v.ready, k) BY <1>0, <1>1
    <3> HIDE DEF k
    <3>2. SendsAre(c, v.level, v.ready, k) BY <3>1, MaySendIs
    <3> QED BY <3>2 DEF SendsAre
  <2>3. w.owed \subseteq c.changing BY <2>1, <1>1 DEF OwedAfter
  <2>4. Asks # <<SPI_FLASH_OPCODE_WAKE>> /\ Asks # SPI_FLASH_OPCODE_UNPROTECT
        /\ SPI_FLASH_OPCODE_UNPROTECT # <<SPI_FLASH_OPCODE_WAKE>>
    BY DEF Asks, SPI_FLASH_OPCODE_UNPROTECT
  <2>5. k = Asks => v.level >= 3
    BY <2>4, <1>1 DEF MaySend, Asks, SPI_FLASH_OPCODE_READ_HF, SPI_FLASH_OPCODE_STATUS_REGISTER_READ, Programs, SPI_FLASH_OPCODE_WRITE, SPI_FLASH_OPCODE_PAGE_ERASE
  <2>6. c.resets = 0 /\ w.level <= 2 => w.ready = 2
    <3> HIDE DEF k
    <3>1. CASE k = <<SPI_FLASH_OPCODE_WAKE>>
      <4>1. w.ready = v.ready BY <3>1, <2>1, <2>2, <2>4 DEF ReadyAfter
      <4> QED BY <4>1, <3>1, <2>2, <1>1
    <3>2. CASE k = SPI_FLASH_OPCODE_UNPROTECT
      <4>1. w.level = 3 BY <3>2, <2>1, <2>4 DEF LevelAfter
      <4> QED BY <4>1
    <3>3. CASE k # <<SPI_FLASH_OPCODE_WAKE>> /\ k # SPI_FLASH_OPCODE_UNPROTECT
      <4>1. w.level = v.level BY <3>3, <2>1 DEF LevelAfter
      <4>2. w.level <= 2 => ~Programs(k) /\ k # Asks BY <4>1, <2>2, <2>5, <1>0
      <4>3. w.level <= 2 => w.ready = v.ready BY <4>2, <3>3, <2>1 DEF ReadyAfter
      <4> QED BY <4>1, <4>3, <1>1
    <3> QED BY <3>1, <3>2, <3>3
  <2> QED BY <2>1, <2>3, <2>6, <1>2 DEF Proper
<1>7. CASE step[1] = "again"
  <2>1. v.selected = 0 /\ v.command = <<>> /\ v.level >= 3 BY <1>7, AllowedIs
  <2>2. /\ w.selected = v.selected /\ w.command = v.command /\ w.level = v.level
        /\ w.ready = 2 /\ w.owed = v.owed
    BY <1>7, AfterAgain
  <2> QED BY <2>1, <2>2, <1>0, <1>1, <1>2 DEF Proper
<1>8. CASE step[1] = "delay"
  <2>1. v.command = <<>> /\ v.level = 1 BY <1>8, AllowedIs
  <2>2. /\ w.selected = v.selected /\ w.command = v.command /\ w.level = 2
        /\ w.ready = v.ready /\ w.owed = v.owed
    BY <1>8, AfterDelay
  <2> QED BY <2>1, <2>2, <1>0, <1>1, <1>2 DEF Proper
<1>9. CASE step[1] = "initialized"
  <2>1. v.command = <<>> /\ v.level = 3 BY <1>9, AllowedIs
  <2>2. /\ w.selected = v.selected /\ w.command = v.command /\ w.level = 4
        /\ w.ready = v.ready /\ w.owed = v.owed
    BY <1>9, AfterInitialized
  <2> QED BY <2>1, <2>2, <1>0, <1>1, <1>2 DEF Proper
<1>10. CASE step[1] \in {"print", "crc"}
  <2>1. /\ w.selected = v.selected /\ w.command = v.command /\ w.level = v.level
        /\ w.ready = v.ready /\ w.owed = v.owed
    BY <1>10, AfterPrint, AfterCrc
  <2> QED BY <2>1, <1>1 DEF Proper
<1>11. CASE step[1] \in {"receive", "inflate", "answer"}
  <2>1. w = v BY <1>11, AfterOthers
  <2> QED BY <2>1
<1> QED
  BY <1>3, <1>4, <1>5, <1>6, <1>7, <1>8, <1>9, <1>10, <1>11, AllowedIs DEF Kinds

\* The next step of the script is one the view allows.
LEMMA StepIs ==
  ASSUME NEW v, Plays(v), script # <<>>
  PROVE  /\ v \in Views /\ Allowed(Context, v, Head(script)) /\ After(v, Head(script)) \in Views
         /\ \E n : AtRest(n) /\ Leads(Context, After(v, Head(script)), Tail(script), n)
         /\ Proper(Context, After(v, Head(script)))
<1>1. PICK n : AtRest(n) /\ Leads(Context, v, script, n) BY DEF Plays
<1>2. /\ v \in Views /\ Allowed(Context, v, Head(script)) /\ After(v, Head(script)) \in Views
      /\ Leads(Context, After(v, Head(script)), Tail(script), n)
  BY <1>1, LeadsFrom
<1>3. Proper(Context, After(v, Head(script))) BY <1>2, GoesOn DEF Plays
<1> QED BY <1>1, <1>2, <1>3

\* It is done: the rest follows from the view after it.
LEMMA StepDone ==
  ASSUME NEW v, Plays(v), script # <<>>, Done, Context' = Context,
         NEW w, w = After(v, Head(script)), Agrees(w)'
  PROVE  \E x : Plays(x)'
<1>1. Proper(Context, w)' BY StepIs
<1>2. \E n : AtRest(n)' /\ Leads(Context, w, script, n)' BY StepIs DEF Done
<1> QED BY <1>1, <1>2 DEF Plays

\* What a step that leaves the chip, its contents and what the host knows alone keeps.
LEMMA AgreesOn ==
  ASSUME NEW v, NEW w, Agrees(v), UNCHANGED <<chip, pages, known, rx, resets, flash_is_initialized>>,
         w.command = v.command, w.level = v.level, w.ready = v.ready, w.owed = v.owed
  PROVE  /\ CommandAgrees(w)' /\ LevelAgrees(w)' /\ ReadyAgrees(w)' /\ ReadAgrees(w)'
         /\ \A p \in Pages \ w.owed : known'[p] = <<>> \/ known'[p] = pages'[p]
<1>0. /\ CommandAgrees(v) /\ LevelAgrees(v) /\ ReadyAgrees(v) /\ ReadAgrees(v) /\ HostAgrees(v)
  BY DEF Agrees
<1>1. CommandAgrees(w)' BY <1>0 DEF CommandAgrees, Missed
<1>2. LevelAgrees(w)' BY <1>0 DEF LevelAgrees
<1>3. ReadyAgrees(w)' BY <1>0 DEF ReadyAgrees
<1>4. ReadAgrees(w)' BY <1>0 DEF ReadAgrees, ByteRead
<1>5. \A p \in Pages \ w.owed : known'[p] = <<>> \/ known'[p] = pages'[p]
  BY <1>0 DEF HostAgrees
<1> QED BY <1>1, <1>2, <1>3, <1>4, <1>5

LEMMA SetLengthKeeps ==
  ASSUME FlashInv, SetLength
  PROVE  FlashInv'
<1>1. PICK v : Plays(v) BY DEF FlashInv
<1> DEFINE step == Head(script)
<1>0. PICK w : w = After(v, step) OBVIOUS
<1>2. script # <<>> /\ step[1] = "length" BY DEF SetLength, Step
<1>3. step[2] \in {1, 4} BY <1>1, <1>2, StepIs, AllowedIs
<1>4. /\ w.length = step[2] /\ w.selected = v.selected /\ w.command = v.command
      /\ w.level = v.level /\ w.ready = v.ready /\ w.owed = v.owed /\ w.at = v.at
      /\ w.judged = v.judged
  BY <1>0, <1>2, AfterLength
<1>5. /\ UNCHANGED <<flash_is_initialized, rx, buffer, chip, pages, host, known, resets>>
      /\ data_length' = step[2] /\ Done
  BY DEF SetLength, outside
<1>6. Agrees(w)'
  <2>0. Agrees(v) /\ PinsAgree(v) /\ HostAgrees(v) BY <1>1 DEF Plays, Agrees
  <2>1. PinsAgree(w)' BY <2>0, <1>4, <1>5 DEF PinsAgree
  <2>2. /\ CommandAgrees(w)' /\ LevelAgrees(w)' /\ ReadyAgrees(w)' /\ ReadAgrees(w)'
        /\ \A p \in Pages \ w.owed : known'[p] = <<>> \/ known'[p] = pages'[p]
    BY <2>0, <1>4, <1>5, AgreesOn
  <2>3. HostAgrees(w)' BY <2>0, <2>2, <1>4, <1>5 DEF HostAgrees
  <2> QED BY <2>1, <2>2, <2>3 DEF Agrees
<1>7. Context' = Context BY <1>5 DEF Context
<1>8. \E x : Plays(x)' BY <1>0, <1>1, <1>2, <1>5, <1>6, <1>7, StepDone
<1>9. Typed' /\ Steady' BY <1>3, <1>5 DEF FlashInv, Typed, Steady, FlashTypeOK
<1> QED BY <1>8, <1>9 DEF FlashInv

LEMMA SelectKeeps ==
  ASSUME FlashInv, Select
  PROVE  FlashInv'
<1>1. PICK v : Plays(v) BY DEF FlashInv
<1> DEFINE step == Head(script)
<1>0. PICK w : w = After(v, step) OBVIOUS
<1>2. script # <<>> /\ step[1] = "select" BY DEF Select, Step
<1>3. /\ w.length = v.length /\ w.selected = 1 /\ w.command = <<>> /\ w.level = v.level
      /\ w.ready = (IF v.ready = 2 THEN 2 ELSE 0) /\ w.owed = v.owed /\ w.at = v.at
      /\ w.judged = v.judged
  BY <1>0, <1>2, AfterSelect
<1>4. /\ UNCHANGED <<flash_is_initialized, data_length, rx, buffer, pages, host, known, resets>>
      /\ Done /\ chip' = [chip EXCEPT !.selected = TRUE, !.command = <<>>]
  BY DEF Select, outside, mcu
<1>5. /\ ChipIs(chip') /\ chip'.state = chip.state /\ chip'.selected = TRUE /\ chip'.command = <<>>
      /\ chip'.busy = chip.busy /\ chip'.protected = chip.protected
      /\ chip'.disturbed = chip.disturbed
  <2>1. ChipIs(chip) BY DEF FlashInv, Typed
  <2> QED BY <2>1, <1>4 DEF ChipIs
<1>6. Agrees(w)'
  <2>0. /\ PinsAgree(v) /\ LevelAgrees(v) /\ ReadyAgrees(v) /\ HostAgrees(v)
    BY <1>1 DEF Plays, Agrees
  <2>a. <<>> # Asks BY DEF Asks
  <2>1. PinsAgree(w)' BY <2>0, <1>3, <1>4, <1>5 DEF PinsAgree
  <2>2. CommandAgrees(w)' BY <1>3, <1>5 DEF CommandAgrees
  <2>3. LevelAgrees(w)' BY <2>0, <1>3, <1>4, <1>5 DEF LevelAgrees
  <2>4. ReadyAgrees(w)' BY <2>0, <2>a, <1>3, <1>4, <1>5 DEF ReadyAgrees
  <2>5. ReadAgrees(w)' BY <1>3 DEF ReadAgrees
  <2>6. HostAgrees(w)' BY <2>0, <1>3, <1>4 DEF HostAgrees
  <2> QED BY <2>1, <2>2, <2>3, <2>4, <2>5, <2>6 DEF Agrees
<1>7. Context' = Context BY <1>4 DEF Context
<1>8. \E x : Plays(x)' BY <1>0, <1>1, <1>2, <1>4, <1>6, <1>7, StepDone
<1>9. Typed'
  <2>1. chip'.state \in {"asleep", "waking", "awake"} /\ chip'.command \in Seq(Int)
    BY <1>5 DEF ChipIs
  <2> QED BY <2>1, <1>4, <1>5 DEF FlashInv, Typed, FlashTypeOK
<1>10. Steady' BY <1>4, <1>5 DEF FlashInv, Steady
<1> QED BY <1>8, <1>9, <1>10 DEF FlashInv

LEMMA DelayKeeps ==
  ASSUME FlashInv, Delay
  PROVE  FlashInv'
<1>1. PICK v : Plays(v) BY DEF FlashInv
<1> DEFINE step == Head(script)
<1>0. PICK w : w = After(v, step) OBVIOUS
<1>2. script # <<>> /\ step[1] = "delay" BY DEF Delay, Step
<1>3. v.command = <<>> /\ v.level = 1 BY <1>1, <1>2, StepIs, AllowedIs
<1>4. /\ w.length = v.length /\ w.selected = v.selected /\ w.command = v.command /\ w.level = 2
      /\ w.ready = v.ready /\ w.owed = v.owed /\ w.at = v.at /\ w.judged = v.judged
  BY <1>0, <1>2, AfterDelay
<1>5. /\ UNCHANGED <<flash_is_initialized, data_length, rx, buffer, chip, pages, host, known, resets>>
      /\ Done /\ chip.state # "waking"
  BY DEF Delay, outside, mcu
<1>6. Agrees(w)'
  <2>0. /\ PinsAgree(v) /\ CommandAgrees(v) /\ LevelAgrees(v) /\ ReadyAgrees(v) /\ HostAgrees(v)
    BY <1>1 DEF Plays, Agrees
  <2>1. PinsAgree(w)' BY <2>0, <1>4, <1>5 DEF PinsAgree
  <2>2. CommandAgrees(w)' BY <2>0, <1>4, <1>5 DEF CommandAgrees, Missed
  <2>3. LevelAgrees(w)'
    <3>1. chip.state \in {"asleep", "waking", "awake"} BY DEF FlashInv, Typed, ChipIs
    <3>2. chip.state = "awake" BY <2>0, <3>1, <1>3, <1>5 DEF LevelAgrees
    <3> QED BY <2>0, <3>2, <1>3, <1>4, <1>5 DEF LevelAgrees
  <2>4. ReadyAgrees(w)' BY <2>0, <1>4, <1>5 DEF ReadyAgrees
  <2>5. ReadAgrees(w)' BY <1>3, <1>4 DEF ReadAgrees
  <2>6. HostAgrees(w)' BY <2>0, <1>4, <1>5 DEF HostAgrees
  <2> QED BY <2>1, <2>2, <2>3, <2>4, <2>5, <2>6 DEF Agrees
<1>7. Context' = Context BY <1>5 DEF Context
<1>8. \E x : Plays(x)' BY <1>0, <1>1, <1>2, <1>5, <1>6, <1>7, StepDone
<1>9. Typed' /\ Steady' BY <1>5 DEF FlashInv, Typed, Steady, FlashTypeOK
<1> QED BY <1>8, <1>9 DEF FlashInv

LEMMA SetInitializedKeeps ==
  ASSUME FlashInv, SetInitialized
  PROVE  FlashInv'
<1>1. PICK v : Plays(v) BY DEF FlashInv
<1> DEFINE step == Head(script)
<1>0. PICK w : w = After(v, step) OBVIOUS
<1>2. script # <<>> /\ step[1] = "initialized" BY DEF SetInitialized, Step
<1>3. v.command = <<>> /\ v.level = 3 BY <1>1, <1>2, StepIs, AllowedIs
<1>4. /\ w.length = v.length /\ w.selected = v.selected /\ w.command = v.command /\ w.level = 4
      /\ w.ready = v.ready /\ w.owed = v.owed /\ w.at = v.at /\ w.judged = v.judged
  BY <1>0, <1>2, AfterInitialized
<1>5. /\ UNCHANGED <<data_length, rx, buffer, chip, pages, host, known, resets>>
      /\ Done /\ flash_is_initialized' = TRUE
  BY DEF SetInitialized, outside
<1>6. Agrees(w)'
  <2>0. /\ PinsAgree(v) /\ CommandAgrees(v) /\ LevelAgrees(v) /\ ReadyAgrees(v) /\ HostAgrees(v)
    BY <1>1 DEF Plays, Agrees
  <2>1. PinsAgree(w)' BY <2>0, <1>4, <1>5 DEF PinsAgree
  <2>2. CommandAgrees(w)' BY <2>0, <1>4, <1>5 DEF CommandAgrees, Missed
  <2>3. LevelAgrees(w)' BY <2>0, <1>3, <1>4, <1>5 DEF LevelAgrees
  <2>4. ReadyAgrees(w)' BY <2>0, <1>4, <1>5 DEF ReadyAgrees
  <2>5. ReadAgrees(w)' BY <1>3, <1>4 DEF ReadAgrees
  <2>6. HostAgrees(w)' BY <2>0, <1>4, <1>5 DEF HostAgrees
  <2> QED BY <2>1, <2>2, <2>3, <2>4, <2>5, <2>6 DEF Agrees
<1>7. Context' = Context BY <1>5 DEF Context
<1>8. \E x : Plays(x)' BY <1>0, <1>1, <1>2, <1>5, <1>6, <1>7, StepDone
<1>9. Typed' /\ Steady' BY <1>5 DEF FlashInv, Typed, Steady, FlashTypeOK
<1> QED BY <1>8, <1>9 DEF FlashInv

-----------------------------------------------------------------------------
(* The words and the host.                                                  *)

LEMMA PrintByteKeeps ==
  ASSUME FlashInv, PrintByte
  PROVE  FlashInv'
<1>1. PICK v : Plays(v) BY DEF FlashInv
<1> DEFINE step == Head(script)
<1>0. PICK w : w = After(v, step) OBVIOUS
<1>2. script # <<>> /\ step[1] = "print" BY DEF PrintByte, Step
<1>3. /\ w.length = v.length /\ w.selected = v.selected /\ w.command = v.command
      /\ w.level = v.level /\ w.ready = v.ready /\ w.owed = v.owed
      /\ w.at = (v.at + 1) % (PageCount * PAGE_BYTES) /\ w.judged = v.judged
  BY <1>0, <1>2, AfterPrint
<1>4. /\ UNCHANGED <<flash_is_initialized, data_length, rx, buffer, chip, pages, known, resets>>
      /\ Done /\ host' = [host EXCEPT !.at = (host.at + 1) % (PageCount * PAGE_BYTES)]
  BY DEF PrintByte, mcu
<1>5. /\ HostIs(host') /\ host'.at = (host.at + 1) % (PageCount * PAGE_BYTES)
      /\ host'.changing = host.changing /\ host'.image = host.image /\ host'.good = host.good
  <2>1. HostIs(host) BY DEF FlashInv, Typed
  <2> QED BY <2>1, <1>4 DEF HostIs
<1>6. Agrees(w)'
  <2>0. Agrees(v) /\ PinsAgree(v) /\ HostAgrees(v) BY <1>1 DEF Plays, Agrees
  <2>1. PinsAgree(w)' BY <2>0, <1>3, <1>4 DEF PinsAgree
  <2>2. /\ CommandAgrees(w)' /\ LevelAgrees(w)' /\ ReadyAgrees(w)' /\ ReadAgrees(w)'
        /\ \A p \in Pages \ w.owed : known'[p] = <<>> \/ known'[p] = pages'[p]
    BY <2>0, <1>3, <1>4, AgreesOn
  <2>3. HostAgrees(w)' BY <2>0, <2>2, <1>3, <1>5 DEF HostAgrees
  <2> QED BY <2>1, <2>2, <2>3 DEF Agrees
<1>7. Context' = Context BY <1>4, <1>5 DEF Context
<1>8. \E x : Plays(x)' BY <1>0, <1>1, <1>2, <1>4, <1>6, <1>7, StepDone
<1>9. Typed' /\ Steady' BY <1>4, <1>5 DEF FlashInv, Typed, Steady, FlashTypeOK
<1> QED BY <1>8, <1>9 DEF FlashInv

LEMMA ReceiveKeeps ==
  ASSUME FlashInv, Receive
  PROVE  FlashInv'
<1>1. PICK v : Plays(v) BY DEF FlashInv
<1> DEFINE step == Head(script)
<1>2. script # <<>> /\ step[1] = "receive" BY DEF Receive, Step
<1>3. v.judged = 0 /\ v = After(v, step) BY <1>1, <1>2, StepIs, AllowedIs, AfterOthers
<1>4. /\ UNCHANGED <<flash_is_initialized, data_length, rx, chip, pages, known, resets>>
      /\ Done
  BY DEF Receive
<1>5. PICK b \in Data : /\ buffer' = Append(buffer, b)
                        /\ host' = [host EXCEPT !.damaged = @ \/ b # host.image[Len(buffer) + 1]]
  BY DEF Receive
<1>6. /\ HostIs(host') /\ host'.at = host.at
      /\ host'.changing = host.changing /\ host'.image = host.image /\ host'.good = host.good
  <2>1. HostIs(host) BY DEF FlashInv, Typed
  <2> DEFINE damaged == host.damaged \/ b # host.image[Len(buffer) + 1]
  <2>2. host' = [host EXCEPT !.damaged = damaged] BY <1>5
  <2> HIDE DEF damaged
  <2> QED BY <2>1, <2>2 DEF HostIs
<1>7. Agrees(v)'
  <2>0. Agrees(v) /\ PinsAgree(v) /\ HostAgrees(v) BY <1>1 DEF Plays, Agrees
  <2>1. PinsAgree(v)' BY <2>0, <1>4 DEF PinsAgree
  <2>2. /\ CommandAgrees(v)' /\ LevelAgrees(v)' /\ ReadyAgrees(v)' /\ ReadAgrees(v)'
        /\ \A p \in Pages \ v.owed : known'[p] = <<>> \/ known'[p] = pages'[p]
    BY <2>0, <1>4, AgreesOn
  <2>3. HostAgrees(v)' BY <2>0, <2>2, <1>6 DEF HostAgrees
  <2> QED BY <2>1, <2>2, <2>3 DEF Agrees
<1>8. Context' = Context BY <1>4, <1>6 DEF Context
<1>9. \E x : Plays(x)' BY <1>1, <1>2, <1>3, <1>4, <1>7, <1>8, StepDone
<1>10. Typed'
  <2>1. buffer' \in Seq(Data) BY <1>5 DEF FlashInv, Typed, FlashTypeOK
  <2> QED BY <2>1, <1>4, <1>6 DEF FlashInv, Typed, FlashTypeOK
<1>11. Steady'
  <2>1. ~host.good BY <1>1, <1>3 DEF Plays, Agrees, HostAgrees
  <2> QED BY <2>1, <1>4, <1>6 DEF FlashInv, Steady
<1> QED BY <1>9, <1>10, <1>11 DEF FlashInv

LEMMA InflateKeeps ==
  ASSUME FlashInv, Inflate
  PROVE  FlashInv'
<1>1. PICK v : Plays(v) BY DEF FlashInv
<1> DEFINE step == Head(script)
<1>2. script # <<>> /\ step[1] = "inflate" BY DEF Inflate, Step
<1>3. AtRest(v) /\ v.judged = 0 /\ v = After(v, step) /\ v \in Views
  BY <1>1, <1>2, StepIs, AllowedIs, AfterOthers
<1>4. UNCHANGED <<flash_is_initialized, data_length, rx, chip, pages, known, resets>>
  BY DEF Inflate
<1>5. /\ HostIs(host') /\ host'.at = host.at
      /\ host'.changing = host.changing /\ host'.image = host.image /\ host'.good = host.good
  <2>1. HostIs(host) BY DEF FlashInv, Typed
  <2>2. \E damaged : host' = [host EXCEPT !.damaged = damaged] BY DEF Inflate
  <2> QED BY <2>1, <2>2 DEF HostIs
<1>6. Agrees(v)'
  <2>0. Agrees(v) /\ PinsAgree(v) /\ HostAgrees(v) BY <1>1 DEF Plays, Agrees
  <2>1. PinsAgree(v)' BY <2>0, <1>4 DEF PinsAgree
  <2>2. /\ CommandAgrees(v)' /\ LevelAgrees(v)' /\ ReadyAgrees(v)' /\ ReadAgrees(v)'
        /\ \A p \in Pages \ v.owed : known'[p] = <<>> \/ known'[p] = pages'[p]
    BY <2>0, <1>4, AgreesOn
  <2>3. HostAgrees(v)' BY <2>0, <2>2, <1>5 DEF HostAgrees
  <2> QED BY <2>1, <2>2, <2>3 DEF Agrees
<1>7. Context' = Context BY <1>4, <1>5 DEF Context
<1>8. \E x : Plays(x)'
  <2>1. CASE Done BY <2>1, <1>1, <1>2, <1>3, <1>6, <1>7, StepDone
  <2>2. CASE script' = <<>>
    <3>1. Leads(Context, v, <<>>, v) BY <1>3, LeadsNowhere
    <3>2. Leads(Context, v, script, v)' BY <3>1, <2>2, <1>7
    <3>3. Proper(Context, v)' BY <1>1, <1>7 DEF Plays
    <3> QED BY <3>2, <3>3, <1>3, <1>6 DEF Plays
  <2> QED BY <2>1, <2>2 DEF Inflate
<1>9. Typed'
  <2>1. buffer' \in Seq(Data)
    <3>1. buffer' \in Contents \/ buffer' = buffer BY DEF Inflate
    <3>2. PAGE_BYTES \in Nat BY FlashAssumption
    <3> QED BY <3>1, <3>2 DEF Contents, FlashInv, Typed, FlashTypeOK
  <2> QED BY <2>1, <1>4, <1>5 DEF FlashInv, Typed, FlashTypeOK
<1>10. Steady'
  <2>1. ~host.good BY <1>1, <1>3 DEF Plays, Agrees, HostAgrees
  <2> QED BY <2>1, <1>4, <1>5 DEF FlashInv, Steady
<1> QED BY <1>8, <1>9, <1>10 DEF FlashInv

LEMMA PrintCrcKeeps ==
  ASSUME FlashInv, PrintCrc
  PROVE  FlashInv'
<1>1. PICK v : Plays(v) BY DEF FlashInv
<1> DEFINE step == Head(script)
<1>0. PICK w : w = After(v, step) OBVIOUS
<1>2. script # <<>> /\ step[1] = "crc" BY DEF PrintCrc, Step
<1>3. /\ w.length = v.length /\ w.selected = v.selected /\ w.command = v.command
      /\ w.level = v.level /\ w.ready = v.ready /\ w.owed = v.owed /\ w.at = v.at
      /\ w.judged = 1
  BY <1>0, <1>2, AfterCrc
<1>4. /\ UNCHANGED <<flash_is_initialized, data_length, rx, buffer, chip, pages, known, resets>>
      /\ Done /\ host' = [host EXCEPT !.good = buffer = host.image]
  BY DEF PrintCrc, mcu
<1>5. /\ HostIs(host') /\ host'.at = host.at /\ host'.changing = host.changing
      /\ host'.image = host.image /\ (host'.good => buffer = host.image)
  <2>1. HostIs(host) BY DEF FlashInv, Typed
  <2> DEFINE good == buffer = host.image
  <2>2. host' = [host EXCEPT !.good = good] BY <1>4
  <2> HIDE DEF good
  <2>3. /\ HostIs(host') /\ host'.at = host.at /\ host'.changing = host.changing
        /\ host'.image = host.image /\ host'.good = good
    BY <2>1, <2>2 DEF HostIs
  <2> QED BY <2>3 DEF good
<1>6. Agrees(w)'
  <2>0. Agrees(v) /\ PinsAgree(v) /\ HostAgrees(v) BY <1>1 DEF Plays, Agrees
  <2>1. PinsAgree(w)' BY <2>0, <1>3, <1>4 DEF PinsAgree
  <2>2. /\ CommandAgrees(w)' /\ LevelAgrees(w)' /\ ReadyAgrees(w)' /\ ReadAgrees(w)'
        /\ \A p \in Pages \ w.owed : known'[p] = <<>> \/ known'[p] = pages'[p]
    BY <2>0, <1>3, <1>4, AgreesOn
  <2>3. HostAgrees(w)' BY <2>0, <2>2, <1>3, <1>5 DEF HostAgrees
  <2> QED BY <2>1, <2>2, <2>3 DEF Agrees
<1>7. Context' = Context BY <1>4, <1>5 DEF Context
<1>8. \E x : Plays(x)' BY <1>0, <1>1, <1>2, <1>4, <1>6, <1>7, StepDone
<1>9. Typed' /\ Steady' BY <1>4, <1>5 DEF FlashInv, Typed, Steady, FlashTypeOK
<1> QED BY <1>8, <1>9 DEF FlashInv

-----------------------------------------------------------------------------
(* The chip works on its own.                                               *)

LEMMA ChipReadyKeeps ==
  ASSUME FlashInv, ChipReady
  PROVE  FlashInv'
<1>1. PICK v : Plays(v) BY DEF FlashInv
<1>2. /\ UNCHANGED <<script, flash_is_initialized, data_length, rx, buffer, pages, host, known, resets>>
      /\ chip' = [chip EXCEPT !.busy = FALSE]
  BY DEF ChipReady, outside, mcu
<1>3. /\ ChipIs(chip') /\ chip'.state = chip.state /\ chip'.selected = chip.selected
      /\ chip'.command = chip.command /\ chip'.busy = FALSE /\ chip'.protected = chip.protected
      /\ chip'.disturbed = chip.disturbed
  <2>1. ChipIs(chip) BY DEF FlashInv, Typed
  <2> QED BY <2>1, <1>2 DEF ChipIs
<1>4. Agrees(v)'
  <2>0. /\ PinsAgree(v) /\ CommandAgrees(v) /\ LevelAgrees(v) /\ ReadAgrees(v) /\ HostAgrees(v)
    BY <1>1 DEF Plays, Agrees
  <2>1. PinsAgree(v)' BY <2>0, <1>2, <1>3 DEF PinsAgree
  <2>2. CommandAgrees(v)' BY <2>0, <1>2, <1>3 DEF CommandAgrees, Missed
  <2>3. LevelAgrees(v)' BY <2>0, <1>2, <1>3 DEF LevelAgrees
  <2>4. ReadyAgrees(v)' BY <1>3 DEF ReadyAgrees
  <2>5. ReadAgrees(v)' BY <2>0, <1>2 DEF ReadAgrees, ByteRead
  <2>6. HostAgrees(v)' BY <2>0, <1>2 DEF HostAgrees
  <2> QED BY <2>1, <2>2, <2>3, <2>4, <2>5, <2>6 DEF Agrees
<1>5. Context' = Context BY <1>2 DEF Context
<1>6. Plays(v)' BY <1>1, <1>2, <1>4, <1>5 DEF Plays
<1>7. Typed'
  <2>1. chip'.state \in {"asleep", "waking", "awake"} /\ chip'.command \in Seq(Int)
    BY <1>3 DEF ChipIs
  <2> QED BY <2>1, <1>2, <1>3 DEF FlashInv, Typed, FlashTypeOK
<1>8. Steady' BY <1>2, <1>3 DEF FlashInv, Steady
<1> QED BY <1>6, <1>7, <1>8 DEF FlashInv

LEMMA ChipAwakeKeeps ==
  ASSUME FlashInv, ChipAwake
  PROVE  FlashInv'
<1>1. PICK v : Plays(v) BY DEF FlashInv
<1>2. /\ UNCHANGED <<script, flash_is_initialized, data_length, rx, buffer, pages, host, known, resets>>
      /\ chip' = [chip EXCEPT !.state = "awake"]
  BY DEF ChipAwake, outside, mcu
<1>3. /\ ChipIs(chip') /\ chip'.state = "awake" /\ chip'.selected = chip.selected
      /\ chip'.command = chip.command /\ chip'.busy = chip.busy
      /\ chip'.protected = chip.protected /\ chip'.disturbed = chip.disturbed
  <2>1. ChipIs(chip) BY DEF FlashInv, Typed
  <2> QED BY <2>1, <1>2 DEF ChipIs
<1>4. Agrees(v)'
  <2>0. /\ PinsAgree(v) /\ CommandAgrees(v) /\ LevelAgrees(v) /\ ReadyAgrees(v)
        /\ ReadAgrees(v) /\ HostAgrees(v)
    BY <1>1 DEF Plays, Agrees
  <2>1. PinsAgree(v)' BY <2>0, <1>2, <1>3 DEF PinsAgree
  <2>2. CommandAgrees(v)' BY <2>0, <1>2, <1>3 DEF CommandAgrees, Missed
  <2>3. LevelAgrees(v)' BY <2>0, <1>2, <1>3 DEF LevelAgrees
  <2>4. ReadyAgrees(v)' BY <2>0, <1>2, <1>3 DEF ReadyAgrees
  <2>5. ReadAgrees(v)' BY <2>0, <1>2 DEF ReadAgrees, ByteRead
  <2>6. HostAgrees(v)' BY <2>0, <1>2 DEF HostAgrees
  <2> QED BY <2>1, <2>2, <2>3, <2>4, <2>5, <2>6 DEF Agrees
<1>5. Context' = Context BY <1>2 DEF Context
<1>6. Plays(v)' BY <1>1, <1>2, <1>4, <1>5 DEF Plays
<1>7. Typed'
  <2>1. chip'.state \in {"asleep", "waking", "awake"} /\ chip'.command \in Seq(Int)
    BY <1>3 DEF ChipIs
  <2> QED BY <2>1, <1>2, <1>3 DEF FlashInv, Typed, FlashTypeOK
<1>8. Steady' BY <1>2, <1>3 DEF FlashInv, Steady
<1> QED BY <1>6, <1>7, <1>8 DEF FlashInv

-----------------------------------------------------------------------------
(* What the driver sends, and what the chip makes of it.                    *)

LEMMA Divided ==
  ASSUME NEW x, x \in Int, NEW m, m \in Nat \ {0}
  PROVE  x \div m \in Int /\ x % m \in 0..(m - 1)
OBVIOUS

LEMMA PlaceRead ==
  ASSUME NEW k, k \in Seq(Int), Len(k) > 5, NEW at, at = k[4] + Len(k) - 6
  PROVE  /\ at \in Int /\ (k[3] + at \div PAGE_BYTES) % PageCount \in Pages
         /\ (at % PAGE_BYTES) + 1 \in 1..PAGE_BYTES
<1>0. Len(k) \in Nat OBVIOUS
<1>1. k[3] \in Int /\ k[4] \in Int
  <2>1. 3 \in 1..Len(k) /\ 4 \in 1..Len(k) BY <1>0
  <2> QED BY <2>1, ElementOfSeq
<1>2. at \in Int BY <1>0, <1>1
<1>3. PageCount \in Nat \ {0} /\ Pages = 0..(PageCount - 1) /\ PAGE_BYTES \in Nat \ {0}
  BY PageCountIs
<1> DEFINE n == PageCount
           m == PAGE_BYTES
           d == at \div m
           r == at % m
           third == k[3]
           x == third + d
<1>4. n \in Nat \ {0} /\ m \in Nat \ {0} BY <1>3
<1> HIDE DEF n, m
<1>5. d \in Int /\ r \in 0..(m - 1) BY <1>2, <1>4, Divided, Zenon
<1> HIDE DEF d, r
<1>6. x \in Int
  <2>1. third \in Int /\ d \in Int BY <1>1, <1>5
  <2> HIDE DEF third
  <2> QED BY <2>1
<1> HIDE DEF x
<1>7. x % n \in 0..(n - 1) BY <1>4, <1>6, Divided, Zenon
<1>8. r + 1 \in 1..m BY <1>4, <1>5
<1> QED BY <1>2, <1>3, <1>7, <1>8 DEF x, third, d, r, n, m

LEMMA PagesHold ==
  ASSUME pages \in [Pages -> Contents \union {Erased, Torn}], NEW p \in Pages,
         NEW i \in 1..PAGE_BYTES
  PROVE  pages[p][i] \in Int
<1>1. pages[p] \in Contents \union {Erased, Torn} OBVIOUS
<1>2. CASE pages[p] \in Contents
  <2>1. \A y \in Data : y \in Int BY FlashAssumption
  <2>2. pages[p][i] \in Data BY <1>2 DEF Contents
  <2> QED BY <2>1, <2>2
<1>3. CASE pages[p] = Erased
  <2>1. Erased[i] = 255 BY DEF Erased
  <2> QED BY <2>1, <1>3
<1>4. CASE pages[p] = Torn
  <2>1. Torn[i] = -1 BY DEF Torn
  <2> QED BY <2>1, <1>4
<1> QED BY <1>1, <1>2, <1>3, <1>4

LEMMA AnswerIs ==
  ASSUME pages \in [Pages -> Contents \union {Erased, Torn}], NEW k, k \in Seq(Int)
  PROVE  /\ Answer(k) \in Int
         /\ k = Asks => Answer(k) = IF chip.busy THEN 0 ELSE RDY
         /\ k[1] = SPI_FLASH_OPCODE_READ_HF /\ Len(k) > 5 => Answer(k) = ByteRead(k)
<1> DEFINE status == k[1] = SPI_FLASH_OPCODE_STATUS_REGISTER_READ /\ Len(k) > 1
           reads == k[1] = SPI_FLASH_OPCODE_READ_HF /\ Len(k) > 5
<1>1. ~(status /\ reads) BY DEF SPI_FLASH_OPCODE_READ_HF, SPI_FLASH_OPCODE_STATUS_REGISTER_READ
<1>2. k = Asks => status BY DEF Asks
<1>3. CASE status
  <2>1. Answer(k) = IF chip.busy THEN 0 ELSE RDY BY <1>3, <1>1 DEF Answer
  <2>2. Answer(k) \in Int BY <2>1 DEF RDY
  <2> QED BY <2>1, <2>2, <1>1, <1>3
<1>4. CASE reads
  <2> DEFINE at == k[4] + Len(k) - 6
             p == (k[3] + at \div PAGE_BYTES) % PageCount
             i == (at % PAGE_BYTES) + 1
  <2>1. Answer(k) = pages[p][i] BY <1>4, <1>1 DEF Answer
  <2>2. ByteRead(k) = pages[p][i] BY DEF ByteRead
  <2>3. p \in Pages /\ i \in 1..PAGE_BYTES BY <1>4, PlaceRead
  <2> HIDE DEF p, i
  <2>4. pages[p][i] \in Int BY <2>3, PagesHold
  <2> QED BY <2>1, <2>2, <2>4, <1>1, <1>2, <1>4
<1>5. CASE ~status /\ ~reads
  <2>1. Answer(k) = -2 BY <1>5 DEF Answer
  <2> QED BY <2>1, <1>2, <1>5
<1> QED BY <1>3, <1>4, <1>5

\* What is added to a command is more than was there before.
LEMMA Added ==
  ASSUME NEW k, k \in Seq(Int), NEW l, l \in Seq(Int), l # <<>>
  PROVE  /\ k \o l \in Seq(Int) /\ k \o l # <<>> /\ k \o l # k
         /\ k # <<>> => (k \o l)[1] = k[1]
         /\ k = <<>> => k \o l = l
<1>1. Len(l) \in Nat \ {0} /\ Len(k) \in Nat
  <2>1. Len(l) \in Nat /\ Len(k) \in Nat /\ Len(l) # 0 BY EmptySeq
  <2> QED BY <2>1
<1>2. /\ k \o l \in Seq(Int) /\ Len(k \o l) = Len(k) + Len(l)
      /\ \A i \in 1..(Len(k) + Len(l)) :
           (k \o l)[i] = IF i <= Len(k) THEN k[i] ELSE l[i - Len(k)]
  BY ConcatProperties
<1>3. Len(k \o l) # Len(k) /\ Len(k \o l) # 0 BY <1>1, <1>2
<1>4. k \o l # k BY <1>3
<1>5. k \o l # <<>>
  <2> SUFFICES ASSUME k \o l = <<>> PROVE FALSE OBVIOUS
  <2>1. Len(<<>>) = 0 OBVIOUS
  <2> QED BY <2>1, <1>3
<1>6. ASSUME k # <<>> PROVE (k \o l)[1] = k[1]
  <2>1. Len(k) # 0 BY <1>6, EmptySeq
  <2>2. 1 \in 1..(Len(k) + Len(l)) /\ 1 <= Len(k) BY <2>1, <1>1
  <2> QED BY <2>2, <1>2
<1>7. ASSUME k = <<>> PROVE k \o l = l
  <2>1. Len(k) = 0 BY <1>7
  <2>2. \A i \in 1..Len(l) : (k \o l)[i] = l[i] BY <2>1, <1>1, <1>2
  <2>3. Len(k \o l) = Len(l) BY <2>1, <1>1, <1>2
  <2> QED BY <2>2, <2>3, <1>2, SeqEqual
<1> QED BY <1>2, <1>4, <1>5, <1>6, <1>7

CollectedAs(l, k) ==
  /\ k \in Seq(Int)
  /\ \/ Collected(l) = k /\ ~(chip.command = <<>> /\ ~Takes(Head(l)))
     \/ /\ Collected(l) = <<-1>> /\ resets # 0
        /\ \/ k = <<SPI_FLASH_OPCODE_WAKE>> /\ chip.state # "asleep"
           \/ k = SPI_FLASH_OPCODE_UNPROTECT /\ ~chip.protected

\* The chip takes the bytes, or it misses them: then it has been reset under
\* the driver's feet.
LEMMA Collects ==
  ASSUME FlashInv, NEW v, Plays(v), v.selected = 1, NEW l, l \in Seq(Nat), l # <<>>,
         NEW k, k = v.command \o l, MaySend(Context, v.level, v.ready, k)
  PROVE  CollectedAs(l, k)
<1> DEFINE k1 == v.command
<1>0. /\ CommandAgrees(v) /\ LevelAgrees(v) /\ ReadyAgrees(v) /\ Proper(Context, v)
  BY DEF Plays, Agrees
<1>a. v \in Views
  <2>1. PICK n : Leads(Context, v, script, n) BY DEF Plays
  <2> QED BY <2>1, LeadsFrom
<1>1. k1 \in Seq(Int) /\ v.level \in 0..4 /\ v.ready \in 0..2 BY <1>a, ViewFields
<1>2. l \in Seq(Int) BY BytesAreNumbers
<1>3. /\ k \in Seq(Int) /\ k # <<>> /\ k # k1 /\ (k1 # <<>> => k[1] = k1[1])
      /\ (k1 = <<>> => k = l)
  BY <1>1, <1>2, Added
<1>4. SendsAre(Context, v.level, v.ready, k) BY <1>1, <1>3, MaySendIs
<1>5. CASE Missed(v)
  <2>1. chip.command = <<-1>> BY <1>5 DEF Missed
  <2>2. k1 # <<SPI_FLASH_OPCODE_WAKE>>
    <3> SUFFICES ASSUME k1 = <<SPI_FLASH_OPCODE_WAKE>> PROVE FALSE OBVIOUS
    <3>1. k1 # <<>> /\ k1[1] = SPI_FLASH_OPCODE_WAKE OBVIOUS
    <3>2. k[1] = SPI_FLASH_OPCODE_WAKE BY <3>1, <1>3
    <3>3. k = <<SPI_FLASH_OPCODE_WAKE>> BY <3>2, <1>3, <1>4 DEF SendsAre
    <3> QED BY <3>3, <1>3
  <2>3. k1 # SPI_FLASH_OPCODE_UNPROTECT
    <3> SUFFICES ASSUME k1 = SPI_FLASH_OPCODE_UNPROTECT PROVE FALSE OBVIOUS
    <3>1. k1 # <<>> /\ k1[1] = \h3D BY DEF SPI_FLASH_OPCODE_UNPROTECT
    <3>2. k[1] = \h3D BY <3>1, <1>3
    <3>3. k = SPI_FLASH_OPCODE_UNPROTECT BY <3>2, <1>3, <1>4 DEF SendsAre
    <3> QED BY <3>3, <1>3
  <2> QED BY <2>2, <2>3, <1>5 DEF Missed, CollectedAs
<1>6. CASE chip.command = k1 /\ ~(chip.command = <<>> /\ ~Takes(Head(l)))
  <2>1. Collected(l) = k BY <1>6 DEF Collected
  <2> QED BY <2>1, <1>3, <1>6 DEF CollectedAs
<1>7. CASE chip.command = k1 /\ k1 = <<>> /\ ~Takes(Head(l))
  <2>1. Collected(l) = <<-1>> BY <1>7 DEF Collected
  <2>2. k = l BY <1>3, <1>7
  <2>3. Head(l) = k[1] BY <2>2, <1>2
  <2>4. chip.state \in {"asleep", "waking", "awake"} BY DEF FlashInv, Typed, ChipIs
  <2>5. ~Takes(k[1]) BY <2>3, <1>7
  <2>6. resets = 0 /\ v.level <= 2 => v.ready = 2 BY <1>0 DEF Proper, Context
  <2> HIDE DEF k1
  <2>7. k = <<SPI_FLASH_OPCODE_WAKE>> \/ k = SPI_FLASH_OPCODE_UNPROTECT
    <3>0. (v.level >= 3 => chip.state = "awake") /\ (v.ready = 2 => ~chip.busy)
      <4>1. v.level >= 3 => v.level >= 2 BY <1>1
      <4>2. v.level >= 2 => chip.state = "awake" BY <1>0 DEF LevelAgrees
      <4>3. v.ready = 2 => ~chip.busy BY <1>0 DEF ReadyAgrees
      <4> QED BY <4>1, <4>2, <4>3
    <3>1. CASE v.level >= 3 /\ v.ready = 2
      <4>1. chip.state = "awake" /\ ~chip.busy BY <3>0, <3>1
      <4> QED BY <4>1, <2>5 DEF Takes
    <3>2. CASE v.level >= 3 /\ k[1] = SPI_FLASH_OPCODE_STATUS_REGISTER_READ
      <4>1. chip.state = "awake" BY <3>0, <3>2
      <4> QED BY <4>1, <3>2, <2>5 DEF Takes
    <3> QED BY <3>1, <3>2, <1>3, <1>4 DEF SendsAre
  <2>8. CASE k = <<SPI_FLASH_OPCODE_WAKE>>
    <3>1. v.level = 0 /\ k[1] = SPI_FLASH_OPCODE_WAKE BY <2>8, <1>4 DEF SendsAre
    <3>2. chip.state # "asleep" BY <3>1, <2>5 DEF Takes
    <3>3. resets # 0
      <4> SUFFICES ASSUME resets = 0 PROVE FALSE OBVIOUS
      <4>1. chip.state # "waking" /\ v.ready = 2 BY <3>1, <2>6, <1>0 DEF LevelAgrees
      <4>2. chip.state = "awake" /\ ~chip.busy BY <4>1, <3>2, <2>4, <1>0 DEF ReadyAgrees
      <4> QED BY <4>2, <2>5 DEF Takes
    <3> QED BY <3>2, <3>3, <2>1, <2>8, <1>3 DEF CollectedAs
  <2>9. CASE k = SPI_FLASH_OPCODE_UNPROTECT
    <3>1. v.level = 2 BY <2>9, <1>4 DEF SendsAre
    <3>2. chip.state = "awake" BY <3>1, <1>0 DEF LevelAgrees
    <3>3. chip.busy BY <3>2, <2>5 DEF Takes
    <3>4. ~chip.protected BY <3>3 DEF FlashInv, Steady
    <3>5. resets # 0
      <4> SUFFICES ASSUME resets = 0 PROVE FALSE OBVIOUS
      <4>1. v.ready = 2 BY <3>1, <2>6
      <4> QED BY <4>1, <3>3, <1>0 DEF ReadyAgrees
    <3> QED BY <3>4, <3>5, <2>1, <2>9, <1>3 DEF CollectedAs
  <2> QED BY <2>7, <2>8, <2>9
<1> QED BY <1>0, <1>5, <1>6, <1>7 DEF CommandAgrees

LEMMA TransferKeeps ==
  ASSUME FlashInv, Transfer
  PROVE  FlashInv'
<1>1. PICK v : Plays(v) BY DEF FlashInv
<1> DEFINE step == Head(script)
<1>0. PICK w : w = After(v, step) OBVIOUS
<1>2. script # <<>> /\ step[1] = "transfer" BY DEF Transfer, Step
<1>3. /\ v \in Views /\ v.selected = 1 /\ step[2] \in Seq(Nat) /\ step[2] # <<>>
      /\ MaySend(Context, v.level, v.ready, v.command \o Low(step[2], v.length))
  BY <1>1, <1>2, StepIs, AllowedIs
<1> DEFINE low == Low(step[2], v.length)
<1>a. PICK l : l = low OBVIOUS
<1>b. PICK k : k = v.command \o l OBVIOUS
<1>4. /\ w.length = v.length /\ w.selected = v.selected /\ w.command = k /\ w.level = v.level
      /\ w.ready = v.ready /\ w.owed = v.owed /\ w.at = v.at /\ w.judged = v.judged
  <2>1. /\ w.length = v.length /\ w.selected = v.selected /\ w.command = v.command \o low
        /\ w.level = v.level /\ w.ready = v.ready /\ w.owed = v.owed /\ w.at = v.at
        /\ w.judged = v.judged
    <3> HIDE DEF low
    <3>1. low = Low(step[2], v.length) BY DEF low
    <3> QED BY <3>1, <1>0, <1>2 DEF After, View
  <2> QED BY <2>1, <1>a, <1>b
<1>5. l \in Seq(Nat) /\ l # <<>>
  <2>1. v.length \in {1, 4} BY <1>3, ViewFields
  <2>2. Low(step[2], v.length) \in Seq(Nat) /\ Len(Low(step[2], v.length)) = v.length
    BY <1>3, <2>1, LowTyped
  <2>3. l \in Seq(Nat) /\ Len(l) # 0 BY <2>1, <2>2, <1>a
  <2> QED BY <2>3, EmptySeq
<1>6. LowBytes(step[2]) = l
  <2>1. data_length = v.length BY <1>1 DEF Plays, Agrees, PinsAgree
  <2> QED BY <2>1, <1>a DEF LowBytes, Low
<1>7. /\ k \in Seq(Int)
      /\ \/ Collected(l) = k /\ ~(chip.command = <<>> /\ ~Takes(Head(l)))
         \/ /\ Collected(l) = <<-1>> /\ resets # 0
            /\ \/ k = <<SPI_FLASH_OPCODE_WAKE>> /\ chip.state # "asleep"
               \/ k = SPI_FLASH_OPCODE_UNPROTECT /\ ~chip.protected
  <2>1. MaySend(Context, v.level, v.ready, k) BY <1>3, <1>a, <1>b
  <2>2. CollectedAs(l, k) BY <2>1, <1>1, <1>3, <1>5, <1>b, Collects
  <2> QED BY <2>2 DEF CollectedAs
<1> DEFINE disturbs == chip.disturbed \/ (chip.command = <<>> /\ ~Takes(Head(l)))
<1>c. PICK command : command = Collected(l) OBVIOUS
<1>8. /\ UNCHANGED <<flash_is_initialized, data_length, buffer, pages, host, known, resets>>
      /\ Done /\ rx' = Answer(command)
      /\ chip' = [chip EXCEPT !.command = command, !.disturbed = disturbs]
  BY <1>6, <1>c DEF Transfer, outside
<1>9. command \in Seq(Int)
  <2>1. <<-1>> \in Seq(Int) OBVIOUS
  <2> QED BY <2>1, <1>7, <1>c
<1>10. disturbs \in BOOLEAN /\ (resets = 0 => ~disturbs)
  <2>1. chip.disturbed \in BOOLEAN /\ (resets = 0 => ~chip.disturbed)
    BY DEF FlashInv, Typed, ChipIs, Steady
  <2> QED BY <2>1, <1>7
<1> HIDE DEF low, disturbs
<1>11. /\ ChipIs(chip') /\ chip'.state = chip.state /\ chip'.selected = chip.selected
       /\ chip'.command = command /\ chip'.busy = chip.busy /\ chip'.protected = chip.protected
       /\ chip'.disturbed = disturbs
  <2>1. ChipIs(chip) BY DEF FlashInv, Typed
  <2> QED BY <2>1, <1>8, <1>9, <1>10 DEF ChipIs
<1>12. /\ pages \in [Pages -> Contents \union {Erased, Torn}] /\ v.ready # 1
  <2>1. v.ready = 1 => v.selected = 0 BY <1>1 DEF Plays, Proper
  <2>2. v.ready # 1 BY <2>1, <1>3
  <2> QED BY <2>2 DEF FlashInv, Typed, FlashTypeOK
<1>13. /\ rx' \in Int
       /\ command = Asks => rx' = IF chip.busy THEN 0 ELSE RDY
       /\ command[1] = SPI_FLASH_OPCODE_READ_HF /\ Len(command) > 5 => rx' = ByteRead(command)
  BY <1>8, <1>9, <1>12, AnswerIs
<1>14. \/ command = k
       \/ /\ command = <<-1>> /\ resets # 0 /\ k # Asks
          /\ k[1] # SPI_FLASH_OPCODE_READ_HF
          /\ \/ k = <<SPI_FLASH_OPCODE_WAKE>> /\ chip.state # "asleep"
             \/ k = SPI_FLASH_OPCODE_UNPROTECT /\ ~chip.protected
  <2>1. /\ <<SPI_FLASH_OPCODE_WAKE>> # Asks
        /\ <<SPI_FLASH_OPCODE_WAKE>>[1] # SPI_FLASH_OPCODE_READ_HF
    BY DEF Asks, SPI_FLASH_OPCODE_READ_HF, SPI_FLASH_OPCODE_WAKE
  <2>2. /\ SPI_FLASH_OPCODE_UNPROTECT # Asks
        /\ SPI_FLASH_OPCODE_UNPROTECT[1] # SPI_FLASH_OPCODE_READ_HF
    BY DEF Asks, SPI_FLASH_OPCODE_READ_HF, SPI_FLASH_OPCODE_UNPROTECT
  <2> QED BY <2>1, <2>2, <1>7, <1>c
<1>15. Agrees(w)'
  <2>0. /\ PinsAgree(v) /\ LevelAgrees(v) /\ ReadyAgrees(v) /\ HostAgrees(v)
    BY <1>1 DEF Plays, Agrees
  <2>1. PinsAgree(w)' BY <2>0, <1>4, <1>8, <1>11 DEF PinsAgree
  <2>2. CommandAgrees(w)' BY <1>4, <1>8, <1>11, <1>14 DEF CommandAgrees, Missed
  <2>3. LevelAgrees(w)' BY <2>0, <1>4, <1>8, <1>11 DEF LevelAgrees
  <2>4. ReadyAgrees(w)'
    <3>1. v.ready = 2 => ~chip.busy BY <2>0 DEF ReadyAgrees
    <3>2. k = Asks => (rx' >= RDY => ~chip.busy) BY <1>13, <1>14 DEF RDY
    <3> QED BY <3>1, <3>2, <1>4, <1>11, <1>12 DEF ReadyAgrees
  <2>5. ReadAgrees(w)'
    <3>1. k[1] = SPI_FLASH_OPCODE_READ_HF /\ Len(k) > 5 => rx' = ByteRead(k) BY <1>13, <1>14
    <3>2. ByteRead(k)' = ByteRead(k) BY <1>8 DEF ByteRead
    <3> QED BY <3>1, <3>2, <1>4 DEF ReadAgrees
  <2>6. HostAgrees(w)' BY <2>0, <1>4, <1>8 DEF HostAgrees
  <2> QED BY <2>1, <2>2, <2>3, <2>4, <2>5, <2>6 DEF Agrees
<1>16. Context' = Context BY <1>8 DEF Context
<1>17. \E x : Plays(x)' BY <1>0, <1>1, <1>2, <1>8, <1>15, <1>16, StepDone
<1>18. Typed'
  <2>1. chip'.state \in {"asleep", "waking", "awake"} /\ chip'.command \in Seq(Int)
    BY <1>11 DEF ChipIs
  <2> QED BY <2>1, <1>8, <1>11, <1>13 DEF FlashInv, Typed, FlashTypeOK
<1>19. Steady' BY <1>8, <1>10, <1>11 DEF FlashInv, Steady
<1> QED BY <1>17, <1>18, <1>19 DEF FlashInv

\* A whole page is not one in part.
LEMMA WrittenIs ==
  ASSUME NEW k, k \in Seq(Int), \A i \in 5..Len(k) : k[i] \in Data
  PROVE  /\ Written(k) \in Contents \union {Torn}
         /\ Len(k) = 4 + PAGE_BYTES => Written(k) = SubSeq(k, 5, 4 + PAGE_BYTES) /\ Written(k) # Torn
<1> DEFINE a == 5
           b == 4 + PAGE_BYTES
           s == SubSeq(k, a, b)
<1>0. PAGE_BYTES \in Nat \ {0} /\ Data \subseteq 0..255 BY FlashAssumption
<1>1. CASE Len(k) = 4 + PAGE_BYTES
  <2>1. a \in Int /\ b \in Int /\ a <= b /\ b - a + 1 = PAGE_BYTES /\ a + 1 - 1 = 5 BY <1>0
  <2>2. \A i \in a..b : k[i] \in Data BY <1>1
  <2> HIDE DEF a, b
  <2>3. /\ s \in Seq(Data) /\ Len(s) = b - a + 1
        /\ \A i \in 1..(b - a + 1) : s[i] = k[a + i - 1]
    BY <2>1, <2>2, Slice
  <2>4. s \in [1..PAGE_BYTES -> Data]
    <3> HIDE DEF s
    <3>1. Len(s) = PAGE_BYTES BY <2>1, <2>3
    <3>2. s \in [1..Len(s) -> Data] BY <2>3
    <3> QED BY <3>1, <3>2
  <2>5. s # Torn
    <3> HIDE DEF s
    <3>1. 1 \in 1..PAGE_BYTES BY <1>0
    <3>2. s[1] \in Data BY <3>1, <2>4
    <3>3. s[1] \in 0..255 BY <3>2, <1>0
    <3>4. Torn[1] = -1 BY <3>1 DEF Torn
    <3> DEFINE first == s[1]
    <3>5. first # -1
      <4>1. first \in 0..255 BY <3>3
      <4> HIDE DEF first
      <4> QED BY <4>1
    <3> QED BY <3>4, <3>5
  <2>6. Written(k) = s BY <1>1 DEF Written, a, b
  <2> QED BY <2>4, <2>5, <2>6 DEF Contents, a, b
<1>2. CASE Len(k) # 4 + PAGE_BYTES
  <2>1. Written(k) = Torn BY <1>2 DEF Written
  <2> QED BY <2>1, <1>2
<1> QED BY <1>1, <1>2

LEMMA ErasedIs ==
  Erased # Torn
<1>1. 1 \in 1..PAGE_BYTES BY FlashAssumption
<1>2. Erased[1] = 255 /\ Torn[1] = -1 BY <1>1 DEF Erased, Torn
<1>3. 255 # -1 OBVIOUS
<1> QED BY <1>2, <1>3

\* What a deselection does, after what the driver sent.
Effect(k) ==
  /\ ChipIs(chip') /\ ~chip'.selected /\ chip'.command = <<>>
  /\ chip'.disturbed <=> chip.disturbed
  /\ \/ chip'.state = chip.state
     \/ k = <<SPI_FLASH_OPCODE_WAKE>> /\ chip.state = "asleep" /\ chip'.state = "waking"
  /\ k = <<SPI_FLASH_OPCODE_WAKE>> => chip'.state # "asleep"
  /\ chip'.protected => chip.protected /\ k # SPI_FLASH_OPCODE_UNPROTECT
  /\ chip'.busy => chip.busy \/ Programs(k) \/ k = SPI_FLASH_OPCODE_UNPROTECT
  /\ chip'.busy => ~chip'.protected
  /\ Programs(k) => /\ k[3] \in Pages /\ k[3] \in host.changing
                    /\ k[1] = SPI_FLASH_OPCODE_WRITE => \A i \in 5..Len(k) : k[i] \in Data
                    /\ pages' = [pages EXCEPT ![k[3]] =
                         IF k[1] = SPI_FLASH_OPCODE_WRITE THEN Written(k) ELSE Erased]
  /\ ~Programs(k) => pages' = pages

LEMMA EffectIs ==
  ASSUME FlashInv, NEW v, Plays(v), Carries(chip.command)
  PROVE  Effect(v.command) /\ pages' \in [Pages -> Contents \union {Erased, Torn}]
<1> DEFINE k == v.command
           c == chip.command
           wake == <<SPI_FLASH_OPCODE_WAKE>>
           unprotect == SPI_FLASH_OPCODE_UNPROTECT
           programs == c # <<>> /\ Programs(c) /\ ~chip.protected
           content == IF k[1] = SPI_FLASH_OPCODE_WRITE THEN Written(k) ELSE Erased
<1>0. /\ CommandAgrees(v) /\ LevelAgrees(v) /\ ReadyAgrees(v) /\ Proper(Context, v)
      /\ ChipIs(chip) /\ HostIs(host) /\ (chip.busy => ~chip.protected)
      /\ pages \in [Pages -> Contents \union {Erased, Torn}]
  BY DEF Plays, Agrees, FlashInv, Typed, Steady, FlashTypeOK
<1>1. v \in Views
  <2>1. PICK n : Leads(Context, v, script, n) BY DEF Plays
  <2> QED BY <2>1, LeadsFrom
<1>2. k \in Seq(Int) /\ v.level \in 0..4 BY <1>1, ViewFields
<1>3. SendsAre(Context, v.level, v.ready, k) BY <1>0, <1>2, MaySendIs DEF Proper
<1>4. /\ Programs(k) => /\ v.level >= 3 /\ k # <<>> /\ k[3] \in host.changing
                        /\ k[1] = SPI_FLASH_OPCODE_WRITE => \A i \in 5..Len(k) : k[i] \in Data
      /\ k # <<>> /\ k[1] = SPI_FLASH_OPCODE_WAKE => k = wake
      /\ k # SPI_FLASH_OPCODE_256B_PAGE
  BY <1>3 DEF SendsAre, Context
<1>5. /\ ~Programs(wake) /\ ~Programs(unprotect) /\ ~Programs(<<-1>>)
      /\ wake # <<>> /\ wake[1] = SPI_FLASH_OPCODE_WAKE
      /\ <<-1>> # <<>> /\ <<-1>>[1] # SPI_FLASH_OPCODE_WAKE
      /\ <<-1>> # unprotect /\ <<-1>> # SPI_FLASH_OPCODE_256B_PAGE
  BY DEF Programs, SPI_FLASH_OPCODE_UNPROTECT, SPI_FLASH_OPCODE_WRITE, SPI_FLASH_OPCODE_PAGE_ERASE,
         SPI_FLASH_OPCODE_WAKE, SPI_FLASH_OPCODE_256B_PAGE
<1>6. /\ ChipIs(chip') /\ ~chip'.selected /\ chip'.command = <<>>
      /\ chip'.state = (IF c # <<>> /\ c[1] = SPI_FLASH_OPCODE_WAKE /\ chip.state = "asleep"
                        THEN "waking" ELSE chip.state)
      /\ chip'.protected <=> chip.protected /\ c # unprotect
      /\ chip'.busy <=> \/ chip.busy \/ programs \/ c = unprotect
                        \/ c = SPI_FLASH_OPCODE_256B_PAGE
      /\ chip'.disturbed <=> chip.disturbed
      /\ programs => pages' = [pages EXCEPT ![c[3]] =
                       IF c[1] = SPI_FLASH_OPCODE_WRITE THEN Written(c) ELSE Erased]
      /\ ~programs => pages' = pages
  BY <1>0, Carried DEF SPI_FLASH_OPCODE_WAKE
<1>7. \/ c = k
      \/ /\ c = <<-1>> /\ \/ k = wake /\ chip.state # "asleep"
                          \/ k = unprotect /\ ~chip.protected
  BY <1>0 DEF CommandAgrees, Missed
<1>8. programs <=> Programs(k)
  <2>1. CASE c = k
    <3>1. v.level >= 3 => ~chip.protected BY <1>0 DEF LevelAgrees
    <3> QED BY <2>1, <3>1, <1>4
  <2>2. CASE c # k BY <2>2, <1>5, <1>7
  <2> QED BY <2>1, <2>2
<1>9. /\ Programs(k) => pages' = [pages EXCEPT ![k[3]] = content]
      /\ ~Programs(k) => pages' = pages
  <2>1. programs => c = k BY <1>5, <1>7
  <2> HIDE DEF programs
  <2> QED BY <2>1, <1>6, <1>8
<1>10. Programs(k) => k[3] \in Pages BY <1>0, <1>4 DEF HostIs
<1> HIDE DEF programs, unprotect, wake
<1>11. /\ \/ chip'.state = chip.state
          \/ k = wake /\ chip.state = "asleep" /\ chip'.state = "waking"
       /\ k = wake => chip'.state # "asleep"
  <2>1. CASE c = k
    <3>1. c # <<>> /\ c[1] = SPI_FLASH_OPCODE_WAKE <=> k = wake BY <2>1, <1>4, <1>5
    <3> QED BY <3>1, <1>6
  <2>2. CASE c = <<-1>> /\ (k = wake => chip.state # "asleep")
    <3>1. chip'.state = chip.state BY <2>2, <1>5, <1>6
    <3> QED BY <3>1, <2>2
  <2>3. c = <<-1>> => (k = wake => chip.state # "asleep")
    <3>1. wake # unprotect BY DEF wake, unprotect, SPI_FLASH_OPCODE_UNPROTECT
    <3>2. c = <<-1>> /\ c = k => k # wake BY <1>5
    <3> QED BY <3>1, <3>2, <1>7
  <2> QED BY <2>1, <2>2, <2>3, <1>7
<1>12. /\ chip'.protected => chip.protected /\ k # unprotect
       /\ chip'.busy => chip.busy \/ Programs(k) \/ k = unprotect
  <2>1. CASE c = k BY <2>1, <1>4, <1>6, <1>8
  <2>2. CASE c # k
    <3>1. chip'.busy => chip.busy \/ programs BY <2>2, <1>5, <1>6, <1>7
    <3>2. chip'.protected => chip.protected /\ k # unprotect
      <4>1. wake # unprotect BY DEF wake, unprotect, SPI_FLASH_OPCODE_UNPROTECT
      <4> QED BY <2>2, <4>1, <1>6, <1>7
    <3> QED BY <3>1, <3>2, <1>8
  <2> QED BY <2>1, <2>2
<1>13. chip'.busy => ~chip'.protected
  BY <1>0, <1>4, <1>5, <1>6, <1>7, <1>8 DEF programs
<1>14. Effect(k)
  BY <1>4, <1>6, <1>9, <1>10, <1>11, <1>12, <1>13 DEF Effect, wake, unprotect
<1>15. pages' \in [Pages -> Contents \union {Erased, Torn}]
  <2>1. CASE Programs(k)
    <3>1. content \in Contents \union {Erased, Torn} BY <2>1, <1>2, <1>4, WrittenIs
    <3> HIDE DEF content
    <3> QED BY <2>1, <3>1, <1>0, <1>9
  <2> QED BY <2>1, <1>0, <1>9
<1> QED BY <1>14, <1>15

LEMMA DeselectKeeps ==
  ASSUME FlashInv, Deselect
  PROVE  FlashInv' /\ \A p \in Pages : pages'[p] # pages[p] => p \in host.changing
<1>1. PICK v : Plays(v) BY DEF FlashInv
<1> DEFINE step == Head(script)
           k == v.command
           wake == <<SPI_FLASH_OPCODE_WAKE>>
           unprotect == SPI_FLASH_OPCODE_UNPROTECT
<1>0. PICK w : w = After(v, step) OBVIOUS
<1>2. script # <<>> /\ step[1] = "deselect" BY DEF Deselect, Step
<1>3. v \in Views /\ Fulfils(Context, k) BY <1>1, <1>2, StepIs, AllowedIs
<1>4. /\ w.length = v.length /\ w.selected = 0 /\ w.command = <<>>
      /\ w.level = LevelAfter(v.level, k) /\ w.ready = ReadyAfter(v.ready, k)
      /\ w.owed = OwedAfter(v.owed, k) /\ w.at = v.at /\ w.judged = v.judged
  BY <1>0, <1>2, AfterDeselect
<1>5. /\ UNCHANGED <<flash_is_initialized, data_length, rx, buffer, host, known, resets>>
      /\ Done /\ Carries(chip.command)
  BY DEF Deselect, outside, mcu
<1>6. Effect(k) /\ pages' \in [Pages -> Contents \union {Erased, Torn}] BY <1>1, <1>5, EffectIs
<1>7. k \in Seq(Int) /\ v.level \in 0..4 /\ v.ready \in 0..2 BY <1>3, ViewFields
<1>8. SendsAre(Context, v.level, v.ready, k) BY <1>1, <1>7, MaySendIs DEF Plays, Proper
<1>9. /\ PinsAgree(v) /\ CommandAgrees(v) /\ LevelAgrees(v) /\ ReadyAgrees(v) /\ HostAgrees(v)
      /\ (v.ready = 1 => k = <<>>) /\ (resets = 0 /\ v.level <= 2 => v.ready = 2)
  BY <1>1 DEF Plays, Agrees, Proper, Context
<1>10. /\ Asks # wake /\ Asks # unprotect /\ wake # unprotect /\ Asks # <<>> /\ wake # <<>>
       /\ unprotect # <<>> /\ ~Programs(Asks) /\ ~Programs(<<>>)
  BY DEF Asks, SPI_FLASH_OPCODE_UNPROTECT, Programs
<1> HIDE DEF k, wake, unprotect
<1>11. /\ k = wake => v.level = 0
       /\ k = unprotect => v.level = 2
       /\ Programs(k) => k # wake /\ k # unprotect
  <2>1. /\ (k = wake => v.level = 0) /\ (k = unprotect => v.level = 2)
        /\ (Programs(k) => v.level >= 3)
    BY <1>8 DEF SendsAre, wake, unprotect
  <2> QED BY <2>1, <1>7
<1>12. w.level = IF k = wake THEN 1 ELSE IF k = unprotect THEN 3 ELSE v.level
  BY <1>4 DEF LevelAfter, wake, unprotect
<1>13. /\ \/ chip'.state = chip.state
          \/ k = wake /\ chip.state = "asleep" /\ chip'.state = "waking"
       /\ k = wake => chip'.state # "asleep"
       /\ chip'.protected => chip.protected /\ k # unprotect
       /\ chip'.busy => chip.busy \/ Programs(k) \/ k = unprotect
       /\ chip'.busy => ~chip'.protected
       /\ ChipIs(chip') /\ ~chip'.selected /\ chip'.command = <<>>
       /\ (chip'.disturbed <=> chip.disturbed)
  BY <1>6 DEF Effect, wake, unprotect
<1>14. \A p \in Pages : pages'[p] # pages[p] => Programs(k) /\ p = k[3] /\ p \in host.changing
  <2>1. pages \in [Pages -> Contents \union {Erased, Torn}] BY DEF FlashInv, Typed, FlashTypeOK
  <2> QED BY <2>1, <1>6 DEF Effect
<1>15. Programs(k) => pages'[k[3]] # Torn /\ known[k[3]] = pages'[k[3]]
  <2> SUFFICES ASSUME Programs(k) PROVE pages'[k[3]] # Torn /\ known[k[3]] = pages'[k[3]]
    OBVIOUS
  <2>1. pages \in [Pages -> Contents \union {Erased, Torn}] BY DEF FlashInv, Typed, FlashTypeOK
  <2>2. /\ pages'[k[3]] = IF k[1] = SPI_FLASH_OPCODE_WRITE THEN Written(k) ELSE Erased
        /\ k[1] = SPI_FLASH_OPCODE_WRITE => \A i \in 5..Len(k) : k[i] \in Data
    BY <2>1, <1>6 DEF Effect
  <2>3. IF k[1] = SPI_FLASH_OPCODE_WRITE
        THEN Len(k) = 4 + PAGE_BYTES /\ known[k[3]] = SubSeq(k, 5, 4 + PAGE_BYTES)
        ELSE known[k[3]] = Erased
    BY <1>3 DEF Fulfils, Context, k
  <2>4. CASE k[1] = SPI_FLASH_OPCODE_WRITE
    <3>1. Written(k) = SubSeq(k, 5, 4 + PAGE_BYTES) /\ Written(k) # Torn
      BY <2>2, <2>3, <2>4, <1>7, WrittenIs DEF k
    <3> QED BY <3>1, <2>2, <2>3, <2>4
  <2>5. CASE k[1] # SPI_FLASH_OPCODE_WRITE BY <2>2, <2>3, <2>5, ErasedIs
  <2> QED BY <2>4, <2>5
<1>16. Agrees(w)'
  <2>1. PinsAgree(w)' BY <1>4, <1>5, <1>9, <1>13 DEF PinsAgree
  <2>2. CommandAgrees(w)' BY <1>4, <1>13 DEF CommandAgrees
  <2>3. LevelAgrees(w)'
    <3>1. CASE k = wake
      <4>1. w.level = 1 /\ v.level = 0 BY <3>1, <1>11, <1>12
      <4>2. ~flash_is_initialized BY <4>1, <1>9 DEF LevelAgrees
      <4> QED BY <3>1, <4>1, <4>2, <1>5, <1>13 DEF LevelAgrees
    <3>2. CASE k = unprotect
      <4>1. w.level = 3 /\ v.level = 2 BY <3>2, <1>10, <1>11, <1>12
      <4>2. ~flash_is_initialized /\ chip.state = "awake" BY <4>1, <1>9 DEF LevelAgrees
      <4>3. chip'.state = "awake" /\ ~chip'.protected BY <4>2, <3>2, <1>10, <1>13
      <4> QED BY <4>1, <4>2, <4>3, <1>5 DEF LevelAgrees
    <3>3. CASE k # wake /\ k # unprotect
      <4>1. w.level = v.level /\ chip'.state = chip.state /\ (chip'.protected => chip.protected)
        BY <3>3, <1>12, <1>13
      <4> QED BY <4>1, <1>5, <1>9 DEF LevelAgrees
    <3> QED BY <3>1, <3>2, <3>3
  <2>4. ReadyAgrees(w)'
    <3>1. w.ready = IF k = Asks THEN 1 ELSE IF k = unprotect \/ Programs(k) THEN 0 ELSE v.ready
      BY <1>4 DEF ReadyAfter, unprotect
    <3>2. w.ready = 2 => ~chip'.busy
      <4>1. w.ready = 2 => v.ready = 2 /\ k # unprotect /\ ~Programs(k) BY <3>1
      <4> QED BY <4>1, <1>9, <1>13 DEF ReadyAgrees
    <3>3. w.ready = 1 => (rx >= RDY => ~chip'.busy)
      <4> SUFFICES ASSUME w.ready = 1, rx >= RDY PROVE ~chip'.busy OBVIOUS
      <4>1. k = Asks \/ (v.ready = 1 /\ k = <<>>) BY <3>1, <1>9
      <4>2. ~chip.busy BY <4>1, <1>9 DEF ReadyAgrees, k
      <4>3. ~Programs(k) /\ k # unprotect BY <4>1, <1>10
      <4> QED BY <4>2, <4>3, <1>13
    <3> QED BY <3>2, <3>3, <1>4, <1>5, <1>10 DEF ReadyAgrees
  <2>5. ReadAgrees(w)' BY <1>4 DEF ReadAgrees
  <2>6. HostAgrees(w)'
    <3>1. ASSUME NEW p \in Pages \ w.owed PROVE known[p] = <<>> \/ known[p] = pages'[p]
      <4>1. CASE pages'[p] = pages[p] /\ p \notin v.owed BY <4>1, <1>9 DEF HostAgrees
      <4>2. CASE pages'[p] # pages[p] BY <4>2, <1>14, <1>15
      <4>3. CASE p \in v.owed
        <5>1. Programs(k) /\ p = k[3] BY <4>3, <1>4 DEF OwedAfter
        <5> QED BY <5>1, <1>15
      <4> QED BY <4>1, <4>2, <4>3
    <3> QED BY <3>1, <1>4, <1>5, <1>9 DEF HostAgrees
  <2> QED BY <2>1, <2>2, <2>3, <2>4, <2>5, <2>6 DEF Agrees
<1>17. Context' = Context BY <1>5 DEF Context
<1>18. \E x : Plays(x)' BY <1>0, <1>1, <1>2, <1>5, <1>16, <1>17, StepDone
<1>19. Typed'
  <2>1. chip'.state \in {"asleep", "waking", "awake"} /\ chip'.command \in Seq(Int)
    BY <1>13 DEF ChipIs
  <2> QED BY <2>1, <1>5, <1>6, <1>13 DEF FlashInv, Typed, FlashTypeOK
<1>20. Steady'
  <2>1. resets = 0 => \A p \in Pages : pages'[p] # Torn
    <3>1. resets = 0 => \A p \in Pages : pages[p] # Torn BY DEF FlashInv, Steady
    <3> QED BY <3>1, <1>14, <1>15
  <2> QED BY <2>1, <1>5, <1>13 DEF FlashInv, Steady
<1> QED BY <1>14, <1>18, <1>19, <1>20 DEF FlashInv

LEMMA AgainKeeps ==
  ASSUME FlashInv, Again
  PROVE  FlashInv'
<1>1. PICK v : Plays(v) BY DEF FlashInv
<1> DEFINE step == Head(script)
<1>0. PICK w : w = After(v, step) OBVIOUS
<1>2. script # <<>> /\ step[1] = "again" BY DEF Again, Step
<1>3. /\ v \in Views /\ v.length = 1 /\ v.selected = 0 /\ v.command = <<>> /\ v.ready = 1
      /\ v.level >= 3
  BY <1>1, <1>2, StepIs, AllowedIs
<1>4. /\ w.length = 1 /\ w.selected = v.selected /\ w.command = v.command /\ w.level = v.level
      /\ w.ready = 2 /\ w.owed = v.owed /\ w.at = v.at /\ w.judged = v.judged
  BY <1>0, <1>2, AfterAgain
<1>5. /\ UNCHANGED <<flash_is_initialized, data_length, rx, buffer, chip, pages, host, known, resets>>
      /\ script' = IF rx >= RDY THEN Tail(script) ELSE flash_memory_busy \o Tail(script)
  BY DEF Again, outside, mcu
<1>6. Context' = Context BY <1>5 DEF Context
<1>7. \E x : Plays(x)'
  <2>1. CASE rx >= RDY
    <3>1. Done BY <2>1, <1>5 DEF Done
    <3>2. Agrees(w)'
      <4>0. /\ PinsAgree(v) /\ CommandAgrees(v) /\ LevelAgrees(v) /\ ReadyAgrees(v)
            /\ HostAgrees(v)
        BY <1>1 DEF Plays, Agrees
      <4>1. PinsAgree(w)' BY <4>0, <1>3, <1>4, <1>5 DEF PinsAgree
      <4>2. CommandAgrees(w)' BY <4>0, <1>4, <1>5 DEF CommandAgrees, Missed
      <4>3. LevelAgrees(w)' BY <4>0, <1>4, <1>5 DEF LevelAgrees
      <4>4. ReadyAgrees(w)' BY <4>0, <2>1, <1>3, <1>4, <1>5 DEF ReadyAgrees
      <4>5. ReadAgrees(w)' BY <1>3, <1>4 DEF ReadAgrees
      <4>6. HostAgrees(w)' BY <4>0, <1>4, <1>5 DEF HostAgrees
      <4> QED BY <4>1, <4>2, <4>3, <4>4, <4>5, <4>6 DEF Agrees
    <3> QED BY <1>0, <1>1, <1>2, <1>6, <3>1, <3>2, StepDone
  <2>2. CASE ~(rx >= RDY)
    <3>1. PICK n : AtRest(n) /\ Leads(Context, w, Tail(script), n) BY <1>0, <1>1, <1>2, StepIs
    <3>2. /\ v = View(1, 0, <<>>, v.level, 1, v.owed, v.at, v.judged)
          /\ w = View(1, 0, <<>>, v.level, 2, v.owed, v.at, v.judged)
      <4>1. v = View(1, 0, <<>>, v.level, 1, v.owed, v.at, v.judged)
        <5>1. v = View(v.length, v.selected, v.command, v.level, v.ready, v.owed, v.at, v.judged)
          BY <1>3, ViewFields
        <5> QED BY <5>1, <1>3
      <4>2. w = View(1, 0, <<>>, v.level, 2, v.owed, v.at, v.judged)
        BY <1>0, <1>2, <1>3 DEF After
      <4> QED BY <4>1, <4>2
    <3>3. Leads(Context, v, flash_memory_busy, w)
      <4> DEFINE level == v.level
                 owed == v.owed
                 at == v.at
                 j == v.judged
      <4>1. /\ View(1, 0, <<>>, level, 1, owed, at, j) \in Views /\ level >= 3
            /\ v = View(1, 0, <<>>, level, 1, owed, at, j)
            /\ w = View(1, 0, <<>>, level, 2, owed, at, j)
        BY <3>2, <1>3
      <4> HIDE DEF level, owed, at, j
      <4>2. Leads(Context, View(1, 0, <<>>, level, 1, owed, at, j), flash_memory_busy,
                  View(1, 0, <<>>, level, 2, owed, at, j))
        BY <4>1, BusyLeads
      <4> QED BY <4>1, <4>2
    <3>4. Leads(Context, v, script', n)
      <4>1. Leads(Context, v, flash_memory_busy \o Tail(script), n) BY <3>1, <3>3, LeadsOn
      <4> QED BY <4>1, <2>2, <1>5
    <3>5. Leads(Context, v, script, n)' BY <3>4, <1>6
    <3>6. Agrees(v)'
      <4>0. Agrees(v) /\ PinsAgree(v) /\ HostAgrees(v) BY <1>1 DEF Plays, Agrees
      <4>1. PinsAgree(v)' BY <4>0, <1>5 DEF PinsAgree
      <4>2. /\ CommandAgrees(v)' /\ LevelAgrees(v)' /\ ReadyAgrees(v)' /\ ReadAgrees(v)'
            /\ \A p \in Pages \ v.owed : known'[p] = <<>> \/ known'[p] = pages'[p]
        BY <4>0, <1>5, AgreesOn
      <4>3. HostAgrees(v)' BY <4>0, <4>2, <1>5 DEF HostAgrees
      <4> QED BY <4>1, <4>2, <4>3 DEF Agrees
    <3>7. Proper(Context, v)' BY <1>1, <1>6 DEF Plays
    <3> QED BY <3>1, <3>5, <3>6, <3>7 DEF Plays
  <2> QED BY <2>1, <2>2
<1>8. Typed' /\ Steady' BY <1>5 DEF FlashInv, Typed, Steady, FlashTypeOK
<1> QED BY <1>7, <1>8 DEF FlashInv

-----------------------------------------------------------------------------
(* The words and the host.                                                  *)

LEMMA RestIs ==
  ASSUME NEW v, Plays(v), script = <<>>
  PROVE  AtRest(v) /\ v \in Views
<1>1. PICK n : AtRest(n) /\ Leads(Context, v, script, n) BY DEF Plays
<1> QED BY <1>1, LeadsFrom

\* From a view at rest the next script may start, with what it is to change.
LEMMA FromRest ==
  ASSUME FlashInv, NEW v, Plays(v), v \in Views, AtRest(v),
         UNCHANGED <<flash_is_initialized, data_length, rx, chip, pages, resets>>,
         NEW owed, owed \subseteq host'.changing, NEW j, j = 0 => ~host'.good,
         \A p \in Pages : known'[p] = known[p] \/ p \in owed,
         NEW w, w = View(v.length, 0, <<>>, v.level, v.ready, owed, host'.at, j),
         \E n : AtRest(n) /\ Leads(Context', w, script', n)
  PROVE  \E x : Plays(x)'
<1>1. /\ w.length = v.length /\ w.selected = 0 /\ w.command = <<>> /\ w.level = v.level
      /\ w.ready = v.ready /\ w.owed = owed /\ w.at = host'.at /\ w.judged = j
  BY DEF View
<1>2. /\ v.selected = 0 /\ v.command = <<>> /\ v.owed = {} BY DEF AtRest
<1>3. /\ PinsAgree(v) /\ CommandAgrees(v) /\ LevelAgrees(v) /\ ReadyAgrees(v) /\ HostAgrees(v)
      /\ Proper(Context, v)
  BY DEF Plays, Agrees
<1>4. Agrees(w)'
  <2>0. <<>> # Asks /\ <<>> # <<SPI_FLASH_OPCODE_WAKE>> /\ <<>> # SPI_FLASH_OPCODE_UNPROTECT
    BY DEF Asks, SPI_FLASH_OPCODE_UNPROTECT
  <2>1. PinsAgree(w)' BY <1>1, <1>2, <1>3 DEF PinsAgree
  <2>2. CommandAgrees(w)'
    <3>1. chip.command = <<>> BY <2>0, <1>2, <1>3 DEF CommandAgrees, Missed
    <3> QED BY <3>1, <1>1 DEF CommandAgrees
  <2>3. LevelAgrees(w)' BY <1>1, <1>3 DEF LevelAgrees
  <2>4. ReadyAgrees(w)' BY <2>0, <1>1, <1>3 DEF ReadyAgrees
  <2>5. ReadAgrees(w)' BY <1>1 DEF ReadAgrees
  <2>6. HostAgrees(w)'
    <3>1. \A p \in Pages \ owed : known'[p] = <<>> \/ known'[p] = pages'[p]
      BY <1>2, <1>3 DEF HostAgrees
    <3> QED BY <3>1, <1>1 DEF HostAgrees
  <2> QED BY <2>1, <2>2, <2>3, <2>4, <2>5, <2>6 DEF Agrees
<1>5. Proper(Context, w)'
  <2>1. MaySend(Context', w.level, w.ready, <<>>) BY DEF MaySend
  <2>2. resets = 0 /\ v.level <= 2 => v.ready = 2 BY <1>3 DEF Proper, Context
  <2> QED BY <2>1, <2>2, <1>1 DEF Proper, Context
<1> QED BY <1>4, <1>5 DEF Plays

LEMMA ReceiveAnswerKeeps ==
  ASSUME FlashInv, ReceiveAnswer
  PROVE  FlashInv'
<1>1. PICK v : Plays(v) BY DEF FlashInv
<1> DEFINE step == Head(script)
           p == host.page
           changing == IF host.good THEN {p} ELSE {}
<1>2. script # <<>> /\ step[1] = "answer" BY DEF ReceiveAnswer, Step
<1>3. AtRest(v) /\ v.level = 4 /\ host.image \in Contents /\ v \in Views
  BY <1>1, <1>2, StepIs, AllowedIs DEF Context
<1>4. /\ UNCHANGED <<flash_is_initialized, data_length, rx, buffer, chip, pages, resets>>
      /\ script' = (IF host.good THEN flash_memory_writePage(p, buffer) ELSE <<>>)
      /\ host' = [host EXCEPT !.changing = changing]
      /\ known' = (IF host.good THEN [known EXCEPT ![p] = host.image] ELSE known)
  BY DEF ReceiveAnswer, mcu, Good
<1>5. /\ HostIs(host) /\ p \in Pages /\ p \in Nat /\ changing \in SUBSET Pages
      /\ known \in [Pages -> Contents \union {Erased, <<>>}]
      /\ (host.good => buffer = host.image)
  <2>1. HostIs(host) /\ p \in Pages BY DEF FlashInv, Typed, HostIs
  <2>2. p \in Nat BY <2>1, FlashAssumption
  <2> QED BY <2>1, <2>2 DEF FlashInv, Typed, FlashTypeOK, Steady
<1>6. /\ HostIs(host') /\ host'.at = host.at /\ host'.changing = changing
      /\ host'.image = host.image /\ host'.good = host.good
  <2> HIDE DEF changing
  <2> QED BY <1>4, <1>5 DEF HostIs
<1>7. v.judged = 0 => ~host.good BY <1>1 DEF Plays, Agrees, HostAgrees
<1>8. known' \in [Pages -> Contents \union {Erased, <<>>}] BY <1>3, <1>4, <1>5
<1>9. PICK w : w = View(v.length, 0, <<>>, v.level, v.ready, changing, host'.at, v.judged) OBVIOUS
<1>10. w \in Views
  <2>1. v.at = host'.at BY <1>1, <1>6 DEF Plays, Agrees, HostAgrees
  <2>2. /\ v.length \in {1, 4} /\ v.level \in 0..4 /\ v.ready \in 0..2 /\ v.at \in Int
        /\ v.judged \in {0, 1}
    BY <1>3, ViewFields
  <2>3. <<>> \in Seq(Int) /\ 0 \in {0, 1} OBVIOUS
  <2> HIDE DEF changing
  <2>4. View(v.length, 0, <<>>, v.level, v.ready, changing, v.at, v.judged) \in Views
    BY <2>2, <2>3, <1>5, ViewTyped
  <2> QED BY <2>1, <2>4, <1>9
<1>11. PICK c : c = Context' OBVIOUS
<1>12. c.known = known' /\ c.changing = changing BY <1>6, <1>11 DEF Context
<1>13. \E n : AtRest(n) /\ Leads(c, w, script', n)
  <2>1. CASE host.good
    <3>1. changing = {p} /\ script' = flash_memory_writePage(p, host.image)
      BY <2>1, <1>4, <1>5
    <3>2. p \in c.changing /\ c.known[p] = host.image
      BY <2>1, <1>4, <1>5, <1>12
    <3> DEFINE a == v.length
               at == host'.at
               image == host.image
               n == View(1, 0, <<>>, 4, 0, {p} \ {p}, at, v.judged)
    <3>3. /\ w = View(a, 0, <<>>, 4, v.ready, {p}, at, v.judged) /\ 4 >= 3
          /\ image \in Contents
      BY <3>1, <1>3, <1>9
    <3>4. Leads(c, View(a, 0, <<>>, 4, v.ready, {p}, at, v.judged),
                flash_memory_writePage(p, image), n)
      <4>1. View(a, 0, <<>>, 4, v.ready, {p}, at, v.judged) \in Views BY <3>3, <1>10
      <4>2. p \in c.changing /\ c.known[p] = image BY <3>2
      <4> HIDE DEF a, at, image, p
      <4> QED BY <4>1, <4>2, <3>3, <1>5, WriteLeads
    <3>5. AtRest(n)
      <4>1. {p} \ {p} = {} OBVIOUS
      <4> QED BY <4>1, ViewIs DEF AtRest
    <3> HIDE DEF n
    <3> QED BY <3>1, <3>3, <3>4, <3>5
  <2>2. CASE ~host.good
    <3>1. changing = {} /\ script' = <<>> BY <2>2, <1>4
    <3>2. Leads(c, w, <<>>, w) BY <1>10, LeadsNowhere
    <3>3. AtRest(w) BY <3>1, <1>3, <1>9 DEF AtRest, View
    <3> QED BY <3>1, <3>2, <3>3
  <2> QED BY <2>1, <2>2
<1>14. \E x : Plays(x)'
  <2>1. \A q \in Pages : known'[q] = known[q] \/ q \in changing BY <1>4, <1>5
  <2>2. changing \subseteq host'.changing /\ (v.judged = 0 => ~host'.good) BY <1>6, <1>7
  <2> HIDE DEF changing
  <2> QED BY <2>1, <2>2, <1>1, <1>3, <1>4, <1>9, <1>11, <1>13, FromRest
<1>15. Typed' /\ Steady'
  BY <1>4, <1>6, <1>8 DEF FlashInv, Typed, Steady, FlashTypeOK
<1> QED BY <1>14, <1>15 DEF FlashInv

LEMMA IdleIs ==
  /\ DOMAIN Idle = {"page", "image", "at", "damaged", "good", "changing"}
  /\ Idle.page = 0 /\ Idle.image = <<>> /\ Idle.at = 0 /\ Idle.damaged = FALSE
  /\ Idle.good = FALSE /\ Idle.changing = {} /\ 0 \in Pages
  /\ HostIs(Idle)
<1>1. 0 \in Pages BY FlashAssumption
<1> QED BY <1>1 DEF Idle, HostIs

\* A word starts from rest.
LEMMA WordStarts ==
  ASSUME FlashInv, NEW v, Plays(v), script = <<>>,
         NEW owed, owed \in SUBSET Pages, NEW at, at \in Int, NEW j, j \in {0, 1}
  PROVE  /\ v \in Views /\ AtRest(v) /\ v.level \in {0, 4}
         /\ flash_is_initialized <=> v.level = 4
         /\ View(v.length, 0, <<>>, v.level, v.ready, owed, at, j) \in Views
<1>1. v \in Views /\ AtRest(v) /\ v.level \in {0, 4} BY RestIs DEF AtRest
<1>2. flash_is_initialized <=> v.level = 4 BY DEF Plays, Agrees, LevelAgrees
<1>3. v.length \in {1, 4} /\ v.level \in 0..4 /\ v.ready \in 0..2 BY <1>1, ViewFields
<1>4. <<>> \in Seq(Int) /\ 0 \in {0, 1} OBVIOUS
<1>5. View(v.length, 0, <<>>, v.level, v.ready, owed, at, j) \in Views
  BY <1>3, <1>4, ViewTyped
<1> QED BY <1>1, <1>2, <1>5

\* An address in the memory is the place that it names.
LEMMA Address ==
  ASSUME NEW p, p \in Pages, NEW offset, offset \in 0..(PAGE_BYTES - 1)
  PROVE  p \in Nat /\ offset \in Nat /\ p * PAGE_BYTES + offset = PlaceOf(p, offset)
<1> DEFINE m == PAGE_BYTES
           n == PageCount
           pm == p * m
           nm == n * m
           rest == (n - 1 - p) * m
           x == pm + offset
<1>1. m \in Nat \ {0} /\ n \in Nat \ {0} /\ Pages = 0..(n - 1) BY PageCountIs
<1> HIDE DEF m, n
<1>2. p \in Nat /\ p <= n - 1 /\ offset \in Nat /\ offset <= m - 1 BY <1>1 DEF m
<1>3. pm \in Nat /\ nm \in Nat \ {0} /\ rest \in Int /\ rest >= 0
  <2>1. n - 1 - p \in Nat BY <1>1, <1>2
  <2> QED BY <2>1, <1>1, <1>2
<1>4. nm = pm + rest + m BY <1>1, <1>2
<1> HIDE DEF pm, nm, rest
<1>5. x \in 0..(nm - 1) BY <1>1, <1>2, <1>3, <1>4
<1> HIDE DEF x
<1>6. (0 * nm + x) % nm = x
  <2>1. 0 \in Int OBVIOUS
  <2> QED BY <2>1, <1>3, <1>5, DivMod
<1>7. 0 * nm + x = x BY <1>3, <1>5
<1>8. x % nm = x BY <1>6, <1>7
<1> QED BY <1>2, <1>8 DEF PlaceOf, x, nm, pm, m, n

LEMMA flashReadFuncKeeps ==
  ASSUME FlashInv, flashReadFunc
  PROVE  FlashInv'
<1>1. PICK v : Plays(v) BY DEF FlashInv
<1>2. PICK p \in Pages, offset \in 0..(PAGE_BYTES - 1), length \in {1, PAGE_BYTES} :
        /\ script' = Initialized \o flash_memory_beginRead(p, offset) \o Length(1)
                     \o Times(length, spi_transfer(<<0>>) \o <<<<"print">>>>)
                     \o deassert_CS_FLASH
        /\ host' = [Idle EXCEPT !.at = p * PAGE_BYTES + offset]
  BY DEF flashReadFunc
<1>3. /\ UNCHANGED <<flash_is_initialized, data_length, rx, buffer, chip, pages, known, resets>>
      /\ script = <<>>
  BY DEF flashReadFunc, Types, mcu
<1>4. p \in Nat /\ offset \in Nat /\ length \in Nat BY <1>2, Address, FlashAssumption
<1> DEFINE at == PlaceOf(p, offset)
<1>5. at \in Int /\ host' = [Idle EXCEPT !.at = at] BY <1>2, <1>4, Address, PlaceIs
<1>6. /\ HostIs(host') /\ host'.at = at /\ host'.good = FALSE /\ host'.changing = {}
  <2> HIDE DEF at
  <2> QED BY <1>5, IdleIs DEF HostIs
<1> HIDE DEF at
<1>7. PICK w : w = View(v.length, 0, <<>>, v.level, v.ready, {}, host'.at, 0) OBVIOUS
<1>8. /\ v \in Views /\ AtRest(v) /\ v.level \in {0, 4}
      /\ (flash_is_initialized <=> v.level = 4)
      /\ View(v.length, 0, <<>>, v.level, v.ready, {}, at, 0) \in Views
  BY <1>1, <1>3, <1>5, WordStarts
<1>9. PICK c : c = Context' OBVIOUS
<1>10. \E n : AtRest(n) /\ Leads(c, w, script', n)
  <2> DEFINE a == v.length
             level == v.level
             ready == v.ready
  <2>1. /\ View(a, 0, <<>>, level, ready, {}, PlaceOf(p, offset), 0) \in Views
        /\ level \in {0, 4} /\ (flash_is_initialized <=> level = 4)
    BY <1>8 DEF at
  <2>2. w = View(a, 0, <<>>, level, ready, {}, PlaceOf(p, offset), 0) BY <1>6, <1>7 DEF at
  <2> HIDE DEF a, level, ready
  <2>3. \E n : /\ AtRest(n)
               /\ Leads(c, View(a, 0, <<>>, level, ready, {}, PlaceOf(p, offset), 0),
                        Initialized \o flash_memory_beginRead(p, offset) \o Length(1)
                        \o Times(length, spi_transfer(<<0>>) \o <<<<"print">>>>)
                        \o deassert_CS_FLASH, n)
    BY <2>1, <1>4, ReadWordLeads
  <2> QED BY <2>2, <2>3, <1>2
<1>11. \E x : Plays(x)' BY <1>1, <1>3, <1>6, <1>7, <1>8, <1>9, <1>10, FromRest
<1>12. Typed' /\ Steady' BY <1>3, <1>6 DEF FlashInv, Typed, Steady, FlashTypeOK
<1> QED BY <1>11, <1>12 DEF FlashInv

LEMMA flashErasePageFuncKeeps ==
  ASSUME FlashInv, flashErasePageFunc
  PROVE  FlashInv'
<1>1. PICK v : Plays(v) BY DEF FlashInv
<1>2. PICK p \in Pages, confirmed \in BOOLEAN :
        /\ script' = IF confirmed THEN Initialized \o flash_memory_erasePage(p) ELSE <<>>
        /\ host' = [Idle EXCEPT !.changing = IF confirmed THEN {p} ELSE {}]
        /\ known' = IF confirmed THEN [known EXCEPT ![p] = Erased] ELSE known
  BY DEF flashErasePageFunc
<1>3. /\ UNCHANGED <<flash_is_initialized, data_length, rx, buffer, chip, pages, resets>>
      /\ script = <<>>
  BY DEF flashErasePageFunc, Types, mcu
<1> DEFINE changing == IF confirmed THEN {p} ELSE {}
<1>4. /\ p \in Nat /\ changing \in SUBSET Pages
      /\ known \in [Pages -> Contents \union {Erased, <<>>}]
  BY FlashAssumption DEF FlashInv, Typed, FlashTypeOK
<1>5. /\ known' \in [Pages -> Contents \union {Erased, <<>>}]
      /\ \A q \in Pages : known'[q] = known[q] \/ q \in changing
      /\ confirmed => known'[p] = Erased
  BY <1>2, <1>4
<1>6. host' = [Idle EXCEPT !.changing = changing] BY <1>2
<1>7. /\ HostIs(host') /\ host'.at = 0 /\ host'.good = FALSE /\ host'.changing = changing
  <2> HIDE DEF changing
  <2> QED BY <1>4, <1>6, IdleIs DEF HostIs
<1>8. PICK w : w = View(v.length, 0, <<>>, v.level, v.ready, changing, host'.at, 0) OBVIOUS
<1>9. /\ v \in Views /\ AtRest(v) /\ v.level \in {0, 4}
      /\ (flash_is_initialized <=> v.level = 4)
      /\ View(v.length, 0, <<>>, v.level, v.ready, changing, 0, 0) \in Views
  <2>1. 0 \in Int /\ 0 \in {0, 1} OBVIOUS
  <2> HIDE DEF changing
  <2> QED BY <2>1, <1>1, <1>3, <1>4, WordStarts
<1>10. PICK c : c = Context' OBVIOUS
<1>11. c.known = known' /\ c.changing = changing BY <1>7, <1>10 DEF Context
<1>12. \E n : AtRest(n) /\ Leads(c, w, script', n)
  <2> DEFINE a == v.length
             level == v.level
             ready == v.ready
  <2>1. CASE confirmed
    <3>1. /\ View(a, 0, <<>>, level, ready, {p}, 0, 0) \in Views
          /\ level \in {0, 4} /\ (flash_is_initialized <=> level = 4)
          /\ w = View(a, 0, <<>>, level, ready, {p}, 0, 0)
      BY <2>1, <1>7, <1>8, <1>9
    <3>2. p \in c.changing /\ c.known[p] = Erased BY <2>1, <1>5, <1>11
    <3> HIDE DEF a, level, ready
    <3>3. \E n : /\ AtRest(n)
                 /\ Leads(c, View(a, 0, <<>>, level, ready, {p}, 0, 0),
                          Initialized \o flash_memory_erasePage(p), n)
      BY <3>1, <3>2, <1>4, EraseWordLeads
    <3> QED BY <3>1, <3>3, <2>1, <1>2
  <2>2. CASE ~confirmed
    <3>1. w = View(a, 0, <<>>, level, ready, {}, 0, 0) /\ script' = <<>>
      BY <2>2, <1>2, <1>7, <1>8
    <3>2. w \in Views BY <2>2, <3>1, <1>9
    <3>3. Leads(c, w, <<>>, w) BY <3>2, LeadsNowhere
    <3>4. AtRest(w) BY <3>1, <1>9 DEF AtRest, View
    <3> QED BY <3>1, <3>3, <3>4
  <2> QED BY <2>1, <2>2
<1>13. \E x : Plays(x)'
  <2> HIDE DEF changing
  <2> QED BY <1>1, <1>3, <1>5, <1>7, <1>8, <1>9, <1>10, <1>12, FromRest
<1>14. Typed' /\ Steady' BY <1>3, <1>5, <1>7 DEF FlashInv, Typed, Steady, FlashTypeOK
<1> QED BY <1>13, <1>14 DEF FlashInv

LEMMA flashEraseMultiplePagesFuncKeeps ==
  ASSUME FlashInv, flashEraseMultiplePagesFunc
  PROVE  FlashInv'
<1>1. PICK v : Plays(v) BY DEF FlashInv
<1>2. PICK p \in Pages, q \in Pages, confirmed \in BOOLEAN :
        LET pages1 == IF confirmed THEN p..q ELSE {} IN
        /\ p <= q
        /\ script' = IF confirmed
                     THEN Initialized \o FlattenSeq([n1 \in 1..(q - p + 1) |->
                                                      flash_memory_erasePage(p + n1 - 1)])
                     ELSE <<>>
        /\ host' = [Idle EXCEPT !.changing = pages1]
        /\ known' = [r \in Pages |-> IF r \in pages1 THEN Erased ELSE known[r]]
  BY DEF flashEraseMultiplePagesFunc
<1>3. /\ UNCHANGED <<flash_is_initialized, data_length, rx, buffer, chip, pages, resets>>
      /\ script = <<>>
  BY DEF flashEraseMultiplePagesFunc, Types, mcu
<1> DEFINE changing == IF confirmed THEN p..q ELSE {}
<1>4. /\ p \in Nat /\ q \in Nat /\ changing \in SUBSET Pages
      /\ known \in [Pages -> Contents \union {Erased, <<>>}]
  BY FlashAssumption DEF FlashInv, Typed, FlashTypeOK
<1>5. /\ known' \in [Pages -> Contents \union {Erased, <<>>}]
      /\ \A r \in Pages : known'[r] = known[r] \/ r \in changing
      /\ \A r \in changing : known'[r] = Erased
  <2> HIDE DEF changing
  <2>1. known' = [r \in Pages |-> IF r \in changing THEN Erased ELSE known[r]]
    BY <1>2 DEF changing
  <2> QED BY <2>1, <1>4
<1>6. host' = [Idle EXCEPT !.changing = changing] BY <1>2
<1>7. /\ HostIs(host') /\ host'.at = 0 /\ host'.good = FALSE /\ host'.changing = changing
  <2> HIDE DEF changing
  <2> QED BY <1>4, <1>6, IdleIs DEF HostIs
<1>8. PICK w : w = View(v.length, 0, <<>>, v.level, v.ready, changing, host'.at, 0) OBVIOUS
<1>9. /\ v \in Views /\ AtRest(v) /\ v.level \in {0, 4}
      /\ (flash_is_initialized <=> v.level = 4)
      /\ View(v.length, 0, <<>>, v.level, v.ready, changing, 0, 0) \in Views
  <2>1. 0 \in Int /\ 0 \in {0, 1} OBVIOUS
  <2> HIDE DEF changing
  <2> QED BY <2>1, <1>1, <1>3, <1>4, WordStarts
<1>10. PICK c : c = Context' OBVIOUS
<1>11. c.known = known' /\ c.changing = changing BY <1>7, <1>10 DEF Context
<1>12. \E n : AtRest(n) /\ Leads(c, w, script', n)
  <2> DEFINE a == v.length
             level == v.level
             ready == v.ready
  <2>1. CASE confirmed
    <3>1. /\ View(a, 0, <<>>, level, ready, p..q, 0, 0) \in Views
          /\ level \in {0, 4} /\ (flash_is_initialized <=> level = 4)
          /\ w = View(a, 0, <<>>, level, ready, p..q, 0, 0)
      BY <2>1, <1>7, <1>8, <1>9
    <3>2. \A r \in p..q : r \in c.changing /\ c.known[r] = Erased BY <2>1, <1>5, <1>11
    <3> HIDE DEF a, level, ready
    <3>3. \E n : /\ AtRest(n)
                 /\ Leads(c, View(a, 0, <<>>, level, ready, p..q, 0, 0),
                          Initialized \o FlattenSeq([n1 \in 1..(q - p + 1) |->
                                                      flash_memory_erasePage(p + n1 - 1)]), n)
      BY <3>1, <3>2, <1>2, <1>4, EraseManyLeads
    <3> QED BY <3>1, <3>3, <2>1, <1>2
  <2>2. CASE ~confirmed
    <3>1. w = View(a, 0, <<>>, level, ready, {}, 0, 0) /\ script' = <<>>
      BY <2>2, <1>2, <1>7, <1>8
    <3>2. w \in Views BY <2>2, <3>1, <1>9
    <3>3. Leads(c, w, <<>>, w) BY <3>2, LeadsNowhere
    <3>4. AtRest(w) BY <3>1, <1>9 DEF AtRest, View
    <3> QED BY <3>1, <3>3, <3>4
  <2> QED BY <2>1, <2>2
<1>13. \E x : Plays(x)'
  <2> HIDE DEF changing
  <2> QED BY <1>1, <1>3, <1>5, <1>7, <1>8, <1>9, <1>10, <1>12, FromRest
<1>14. Typed' /\ Steady' BY <1>3, <1>5, <1>7 DEF FlashInv, Typed, Steady, FlashTypeOK
<1> QED BY <1>13, <1>14 DEF FlashInv

LEMMA flashWritePageFuncKeeps ==
  ASSUME FlashInv, flashWritePageFunc
  PROVE  FlashInv'
<1>1. PICK v : Plays(v) BY DEF FlashInv
<1>2. PICK p \in Pages, image \in Contents : host' = [Idle EXCEPT !.page = p, !.image = image]
  BY DEF flashWritePageFunc
<1>a. PICK compressed \in BOOLEAN :
        script' = Initialized
                  \o (IF compressed THEN <<<<"inflate">>>>
                      ELSE Times(PAGE_BYTES, <<<<"receive">>>>))
                  \o <<<<"crc">>, <<"answer">>>>
  BY DEF flashWritePageFunc
<1>3. /\ UNCHANGED <<flash_is_initialized, data_length, rx, chip, pages, known, resets>>
      /\ script = <<>> /\ buffer' = <<>>
  BY DEF flashWritePageFunc, Types
<1>4. /\ HostIs(host') /\ host'.at = 0 /\ host'.good = FALSE /\ host'.changing = {}
      /\ host'.image = image
  BY <1>2, IdleIs DEF HostIs
<1>5. PICK w : w = View(v.length, 0, <<>>, v.level, v.ready, {}, host'.at, 0) OBVIOUS
<1>6. /\ v \in Views /\ AtRest(v) /\ v.level \in {0, 4}
      /\ (flash_is_initialized <=> v.level = 4)
      /\ View(v.length, 0, <<>>, v.level, v.ready, {}, 0, 0) \in Views
  <2>1. 0 \in Int /\ 0 \in {0, 1} /\ {} \in SUBSET Pages OBVIOUS
  <2> QED BY <2>1, <1>1, <1>3, WordStarts
<1>7. PICK c : c = Context' OBVIOUS
<1>8. c.image \in Contents BY <1>2, <1>4, <1>7 DEF Context
<1>9. \E n : AtRest(n) /\ Leads(c, w, script', n)
  <2> DEFINE a == v.length
             level == v.level
             ready == v.ready
  <2>1. /\ View(a, 0, <<>>, level, ready, {}, 0, 0) \in Views
        /\ level \in {0, 4} /\ (flash_is_initialized <=> level = 4)
        /\ w = View(a, 0, <<>>, level, ready, {}, 0, 0)
    BY <1>4, <1>5, <1>6
  <2> HIDE DEF a, level, ready
  <2>2. \E n : /\ AtRest(n)
               /\ Leads(c, View(a, 0, <<>>, level, ready, {}, 0, 0),
                        Initialized
                        \o (IF compressed THEN <<<<"inflate">>>>
                            ELSE Times(PAGE_BYTES, <<<<"receive">>>>))
                        \o <<<<"crc">>, <<"answer">>>>, n)
    BY <2>1, <1>8, WriteWordLeads
  <2> QED BY <2>1, <2>2, <1>a
<1>10. \E x : Plays(x)' BY <1>1, <1>3, <1>4, <1>5, <1>6, <1>7, <1>9, FromRest
<1>11. Typed' /\ Steady'
  <2>1. <<>> \in Seq(Data) OBVIOUS
  <2> QED BY <2>1, <1>3, <1>4 DEF FlashInv, Typed, Steady, FlashTypeOK
<1> QED BY <1>10, <1>11 DEF FlashInv

LEMMA ResetKeeps ==
  ASSUME FlashInv, Reset
  PROVE  FlashInv' /\ \A p \in Pages : pages'[p] # pages[p] => p \in host.changing
<1>1. PICK v : Plays(v) BY DEF FlashInv
<1> DEFINE k == v.command
           lost(p) == script # <<>> /\ p \in host.changing
<1>b. data_length' = 1 /\ rx' = 0 /\ flash_is_initialized' = FALSE /\ buffer' = <<>>
  BY DEF Reset
<1>2. /\ resets' = resets + 1 /\ script' = <<>> /\ flash_is_initialized' = FALSE
      /\ data_length' = 1 /\ rx' = 0 /\ buffer' = <<>> /\ host' = Idle
      /\ known' = [p \in Pages |-> IF lost(p) THEN <<>> ELSE known[p]]
      /\ IF chip.selected THEN Carries(chip.command) ELSE UNCHANGED <<chip, pages>>
  BY DEF Reset
<1>3. /\ PinsAgree(v) /\ CommandAgrees(v) /\ LevelAgrees(v) /\ ReadyAgrees(v) /\ HostAgrees(v)
      /\ Proper(Context, v) /\ ChipIs(chip) /\ (chip.busy => ~chip.protected) /\ resets \in Nat
      /\ pages \in [Pages -> Contents \union {Erased, Torn}]
      /\ known \in [Pages -> Contents \union {Erased, <<>>}]
  BY <1>1 DEF Plays, Agrees, FlashInv, Typed, Steady, FlashTypeOK
<1>4. v \in Views
  <2>1. PICK n : Leads(Context, v, script, n) BY <1>1 DEF Plays
  <2> QED BY <2>1, LeadsFrom
<1>5. v.selected \in {0, 1} BY <1>4, ViewFields
<1>6. script = <<>> => k = <<>> /\ v.owed = {} BY <1>1, RestIs DEF AtRest
<1>7. resets' # 0 /\ resets' \in Nat BY <1>2, <1>3
<1>8. ~Programs(<<>>) BY DEF Programs
<1>9. /\ ChipIs(chip') /\ ~chip'.selected /\ chip'.command = <<>>
      /\ (chip'.busy => ~chip'.protected)
      /\ pages' \in [Pages -> Contents \union {Erased, Torn}]
      /\ \A p \in Pages : pages'[p] # pages[p] => Programs(k) /\ p \in host.changing
  <2>1. CASE chip.selected
    <3>1. Effect(k) /\ pages' \in [Pages -> Contents \union {Erased, Torn}]
      BY <2>1, <1>1, <1>2, EffectIs
    <3>2. \A p \in Pages : pages'[p] # pages[p] => Programs(k) /\ p \in host.changing
      <4> HIDE DEF k
      <4> QED BY <3>1, <1>3 DEF Effect
    <3> QED BY <3>1, <3>2 DEF Effect
  <2>2. CASE ~chip.selected
    <3>1. k = <<>> BY <2>2, <1>3, <1>5 DEF PinsAgree, Proper
    <3>2. <<>> # <<SPI_FLASH_OPCODE_WAKE>> /\ <<>> # SPI_FLASH_OPCODE_UNPROTECT
      BY DEF SPI_FLASH_OPCODE_UNPROTECT
    <3>3. chip.command = <<>> BY <3>1, <3>2, <1>3 DEF CommandAgrees, Missed
    <3>4. chip' = chip /\ pages' = pages BY <2>2, <1>2
    <3> QED BY <2>2, <3>3, <3>4, <1>3
  <2> QED BY <2>1, <2>2
<1>10. PICK w : w = View(1, 0, <<>>, 0, 0, {}, 0, 0) OBVIOUS
<1>11. /\ w.length = 1 /\ w.selected = 0 /\ w.command = <<>> /\ w.level = 0 /\ w.ready = 0
       /\ w.owed = {} /\ w.at = 0 /\ w.judged = 0
  BY <1>10 DEF View
<1>12. Agrees(w)'
  <2>0. <<>> # Asks BY DEF Asks
  <2>1. PinsAgree(w)' BY <1>2, <1>9, <1>11 DEF PinsAgree
  <2>2. CommandAgrees(w)' BY <1>9, <1>11 DEF CommandAgrees
  <2>3. LevelAgrees(w)' BY <1>2, <1>7, <1>11 DEF LevelAgrees
  <2>4. ReadyAgrees(w)' BY <2>0, <1>11 DEF ReadyAgrees
  <2>5. ReadAgrees(w)' BY <1>11 DEF ReadAgrees
  <2>6. HostAgrees(w)'
    <3>1. ASSUME NEW p \in Pages PROVE known'[p] = <<>> \/ known'[p] = pages'[p]
      <4>1. CASE lost(p) BY <4>1, <1>2
      <4>2. CASE ~lost(p)
        <5>1. known'[p] = known[p] BY <4>2, <1>2
        <5>2. p \notin v.owed BY <4>2, <1>3, <1>6 DEF Proper, Context
        <5>3. known[p] = <<>> \/ known[p] = pages[p] BY <5>2, <1>3 DEF HostAgrees
        <5>4. pages'[p] = pages[p] BY <4>2, <1>6, <1>8, <1>9
        <5> QED BY <5>1, <5>3, <5>4
      <4> QED BY <4>1, <4>2
    <3> QED BY <3>1, <1>2, <1>11, IdleIs DEF HostAgrees
  <2> QED BY <2>1, <2>2, <2>3, <2>4, <2>5, <2>6 DEF Agrees
<1>13. Proper(Context, w)'
  <2>1. MaySend(Context', w.level, w.ready, <<>>) BY DEF MaySend
  <2> QED BY <2>1, <1>7, <1>11 DEF Proper, Context
<1>14. AtRest(w) /\ Leads(Context', w, script', w)
  <2>1. w \in Views
    <3>1. <<>> \in Seq(Int) OBVIOUS
    <3> QED BY <3>1, <1>10 DEF View, Views
  <2>2. Leads(Context', w, <<>>, w) BY <2>1, LeadsNowhere
  <2> QED BY <2>2, <1>2, <1>11 DEF AtRest
<1>15. Plays(w)' BY <1>12, <1>13, <1>14 DEF Plays
<1>16. Typed'
  <2>1. chip'.state \in {"asleep", "waking", "awake"} /\ chip'.command \in Seq(Int)
    BY <1>9 DEF ChipIs
  <2>2. HostIs(host') BY <1>2, IdleIs
  <2>3. known' \in [Pages -> Contents \union {Erased, <<>>}]
    <3> HIDE DEF lost
    <3> QED BY <1>2, <1>3
  <2>4. <<>> \in Seq(Data) OBVIOUS
  <2>5. FlashTypeOK'
    <3>1. data_length' \in {1, 4} /\ rx' \in Int BY <1>b
    <3>4. flash_is_initialized' \in BOOLEAN BY <1>b
    <3>3. buffer' \in Seq(Data) BY <2>4, <1>b
    <3>2. pages' \in [Pages -> Contents \union {Erased, Torn}] BY <1>9
    <3> QED BY <2>1, <2>3, <3>1, <3>2, <3>3, <3>4 DEF FlashTypeOK
  <2> QED BY <2>2, <2>5, <1>7, <1>9 DEF Typed
<1>17. Steady' BY <1>2, <1>7, <1>9, IdleIs DEF Steady
<1> QED BY <1>9, <1>15, <1>16, <1>17 DEF FlashInv

-----------------------------------------------------------------------------
(* The theorems.                                                            *)

LEMMA Starting ==
  ASSUME Init
  PROVE  FlashInv
<1>1. PICK state \in {"asleep", "awake"} :
        chip = [state |-> state, selected |-> FALSE, command |-> <<>>, busy |-> FALSE,
                protected |-> TRUE, disturbed |-> FALSE]
  BY DEF Init
<1>2. /\ script = <<>> /\ flash_is_initialized = FALSE /\ data_length = 1 /\ rx = 0
      /\ buffer = <<>> /\ pages = [p \in Pages |-> Erased] /\ known = [p \in Pages |-> <<>>]
      /\ host = Idle /\ resets = 0
  BY DEF Init
<1>3. <<>> \in Seq(Data) /\ <<>> \in Seq(Int) /\ <<>> # Asks BY DEF Asks
<1>4. /\ ChipIs(chip) /\ ~chip.selected /\ chip.command = <<>> /\ ~chip.busy /\ ~chip.disturbed
      /\ chip.state # "waking"
  BY <1>1, <1>3 DEF ChipIs
<1>5. Typed
  <2>1. pages \in [Pages -> Contents \union {Erased, Torn}] BY <1>2
  <2>2. known \in [Pages -> Contents \union {Erased, <<>>}] BY <1>2
  <2>3. HostIs(host) BY <1>2, IdleIs
  <2>4. data_length \in {1, 4} /\ rx \in Int BY <1>2
  <2>5. flash_is_initialized \in BOOLEAN BY <1>2
  <2>6. buffer \in Seq(Data) BY <1>2, <1>3
  <2>7. chip.state \in {"asleep", "waking", "awake"} /\ chip.command \in Seq(Int)
    BY <1>4 DEF ChipIs
  <2>8. resets \in Nat BY <1>2
  <2> QED BY <1>4, <2>1, <2>2, <2>3, <2>4, <2>5, <2>6, <2>7, <2>8 DEF Typed, FlashTypeOK
<1>6. Steady BY <1>2, <1>4, IdleIs, ErasedIs DEF Steady
<1>7. PICK v : v = View(1, 0, <<>>, 0, 2, {}, 0, 0) OBVIOUS
<1>8. /\ v.length = 1 /\ v.selected = 0 /\ v.command = <<>> /\ v.level = 0 /\ v.ready = 2
      /\ v.owed = {} /\ v.at = 0 /\ v.judged = 0
  BY <1>7 DEF View
<1>9. Agrees(v)
  <2>1. PinsAgree(v) BY <1>2, <1>4, <1>8 DEF PinsAgree
  <2>2. CommandAgrees(v) BY <1>4, <1>8 DEF CommandAgrees
  <2>3. LevelAgrees(v) BY <1>2, <1>4, <1>8 DEF LevelAgrees
  <2>4. ReadyAgrees(v) BY <1>3, <1>4, <1>8 DEF ReadyAgrees
  <2>5. ReadAgrees(v) BY <1>8 DEF ReadAgrees
  <2>6. HostAgrees(v) BY <1>2, <1>8, IdleIs DEF HostAgrees
  <2> QED BY <2>1, <2>2, <2>3, <2>4, <2>5, <2>6 DEF Agrees
<1>10. Proper(Context, v)
  <2>1. MaySend(Context, v.level, v.ready, <<>>) BY DEF MaySend
  <2> QED BY <2>1, <1>8 DEF Proper
<1>11. v \in Views BY <1>3, <1>7 DEF View, Views
<1>12. AtRest(v) /\ Leads(Context, v, script, v) BY <1>2, <1>8, <1>11, LeadsNowhere DEF AtRest
<1> QED BY <1>5, <1>6, <1>9, <1>10, <1>12 DEF FlashInv, Plays

LEMMA StandsStill ==
  ASSUME FlashInv, UNCHANGED vars
  PROVE  FlashInv'
<1>1. PICK v : Plays(v) BY DEF FlashInv
<1>2. UNCHANGED <<script, flash_is_initialized, data_length, rx, buffer, chip, pages, host, known,
                  resets>>
  BY DEF vars
<1>3. Context' = Context BY <1>2 DEF Context
<1>4. Agrees(v)'
  <2>0. Agrees(v) /\ PinsAgree(v) /\ HostAgrees(v) BY <1>1 DEF Plays, Agrees
  <2>1. PinsAgree(v)' BY <2>0, <1>2 DEF PinsAgree
  <2>2. /\ CommandAgrees(v)' /\ LevelAgrees(v)' /\ ReadyAgrees(v)' /\ ReadAgrees(v)'
    BY <2>0, <1>2, AgreesOn
  <2>3. HostAgrees(v)' BY <2>0, <1>2 DEF HostAgrees
  <2> QED BY <2>1, <2>2, <2>3 DEF Agrees
<1>5. Plays(v)' BY <1>1, <1>2, <1>3, <1>4 DEF Plays
<1>6. Typed' /\ Steady' BY <1>2 DEF FlashInv, Typed, Steady, FlashTypeOK
<1> QED BY <1>5, <1>6 DEF FlashInv

\* Every step keeps the invariant, and changes only pages that the host has
\* confirmed.
LEMMA EveryStepKeeps ==
  ASSUME FlashInv, [Next]_vars
  PROVE  FlashInv' /\ \A p \in Pages : pages'[p] # pages[p] => p \in host.changing
<1>1. CASE Deselect BY <1>1, DeselectKeeps
<1>2. CASE Reset BY <1>2, ResetKeeps
<1>3. CASE SetLength \/ Select \/ Transfer \/ Again \/ Delay \/ SetInitialized
  <2>1. FlashInv'
    BY <1>3, SetLengthKeeps, SelectKeeps, TransferKeeps, AgainKeeps, DelayKeeps,
       SetInitializedKeeps
  <2>2. pages' = pages BY <1>3 DEF SetLength, Select, Transfer, Again, Delay, SetInitialized
  <2> QED BY <2>1, <2>2
<1>4. CASE Word
  <2>1. FlashInv'
    BY <1>4, PrintByteKeeps, ReceiveKeeps, InflateKeeps, PrintCrcKeeps, ReceiveAnswerKeeps
       DEF Word
  <2>2. pages' = pages
    BY <1>4 DEF Word, PrintByte, Receive, Inflate, PrintCrc, ReceiveAnswer
  <2> QED BY <2>1, <2>2
<1>5. CASE Chip
  <2>1. FlashInv' BY <1>5, ChipReadyKeeps, ChipAwakeKeeps DEF Chip
  <2>2. pages' = pages BY <1>5 DEF Chip, ChipReady, ChipAwake
  <2> QED BY <2>1, <2>2
<1>6. CASE flashReadFunc \/ flashErasePageFunc \/ flashEraseMultiplePagesFunc \/ flashWritePageFunc
  <2>1. FlashInv'
    BY <1>6, flashReadFuncKeeps, flashErasePageFuncKeeps, flashEraseMultiplePagesFuncKeeps,
       flashWritePageFuncKeeps
  <2>2. pages' = pages
    BY <1>6 DEF flashReadFunc, flashErasePageFunc, flashEraseMultiplePagesFunc, flashWritePageFunc
  <2> QED BY <2>1, <2>2
<1>7. CASE UNCHANGED vars
  <2>1. pages' = pages BY <1>7 DEF vars
  <2> QED BY <2>1, <1>7, StandsStill
<1> QED BY <1>1, <1>2, <1>3, <1>4, <1>5, <1>6, <1>7 DEF Next, Driver

\* In every state that the processor, the chip and the host reach there is a view
\* that agrees with it, and what is left of the script leads from that view to rest.
THEOREM FlashInvariant ==
  Spec => []FlashInv
<1>1. Init => FlashInv BY Starting
<1>2. FlashInv /\ [Next]_vars => FlashInv' BY EveryStepKeeps
<1> QED BY <1>1, <1>2, PTL DEF Spec

\* The registers, the chip, its pages and what the host knows of them stay what
\* they are said to be, a page whole or torn but never of another kind.
THEOREM FlashIsTyped ==
  Spec => []FlashTypeOK
<1>1. FlashInv => FlashTypeOK BY DEF FlashInv, Typed
<1> QED BY <1>1, FlashInvariant, PTL

\* Until the processor is reset, the driver never gives the chip a command that
\* it cannot take and never writes a page in part: every function of the driver
\* asks the chip first (flash_memory.c 83, 110, 143), and the words call them in
\* an order that lets it wake and be unprotected before anything else.
THEOREM CommandsAreTaken ==
  Spec => []NeverDisturbed
<1>1. FlashInv => NeverDisturbed
  BY DEF FlashInv, Typed, Steady, NeverDisturbed
<1> QED BY <1>1, FlashInvariant, PTL

\* What fr prints is what the host knows of the page, after any words, any damage
\* on the line and any resets.
THEOREM ReadBackIsKnown ==
  Spec => []ReadsBack
<1>1. FlashInv => ReadsBack
  <2> DEFINE q == host.at \div PAGE_BYTES
             page == known[q]
  <2> SUFFICES ASSUME FlashInv, Step("print"), page # <<>>
               PROVE  rx = page[(host.at % PAGE_BYTES) + 1]
    BY DEF ReadsBack
  <2>1. PICK v : Plays(v) BY DEF FlashInv
  <2> DEFINE k == v.command
             at == k[4] + Len(k) - 6
             p == (k[3] + at \div PAGE_BYTES) % PageCount
             i == (at % PAGE_BYTES) + 1
  <2>2. Prints(v) /\ v \in Views
    <3>1. script # <<>> /\ Head(script)[1] = "print" BY DEF Step
    <3> QED BY <2>1, <3>1, StepIs, AllowedIs
  <2>3. /\ v.owed = {} /\ Len(k) > 5 /\ k[1] = SPI_FLASH_OPCODE_READ_HF
        /\ v.at \div PAGE_BYTES = p /\ v.at % PAGE_BYTES = at % PAGE_BYTES
    BY <2>2 DEF Prints
  <2>4. k # <<>>
    <3>1. Len(<<>>) = 0 OBVIOUS
    <3> QED BY <2>3, <3>1
  <2>5. k \in Seq(Int) BY <2>2, ViewFields
  <2>6. p \in Pages BY <2>3, <2>5, PlaceRead
  <2>7. rx = pages[p][i]
    <3>1. ReadAgrees(v) BY <2>1 DEF Plays, Agrees
    <3>2. rx = ByteRead(k) BY <2>3, <2>4, <3>1 DEF ReadAgrees
    <3>3. ByteRead(k) = pages[p][i] BY DEF ByteRead
    <3> QED BY <3>2, <3>3
  <2>8. /\ host.at = v.at
        /\ \A r \in Pages : known[r] = <<>> \/ known[r] = pages[r]
    BY <2>1, <2>3 DEF Plays, Agrees, HostAgrees
  <2>9. q = p /\ (host.at % PAGE_BYTES) + 1 = i BY <2>3, <2>8
  <2> HIDE DEF q, p, i
  <2>10. known[p] = pages[p] BY <2>6, <2>8, <2>9
  <2> QED BY <2>7, <2>9, <2>10
<1> QED BY <1>1, FlashInvariant, PTL

\* No page changes but one that the host has confirmed, whatever is sent, and
\* also when a reset falls in the middle of a command.
THEOREM ChangesNeedConfirmation ==
  Spec => ChangesAreConfirmed
<1>1. FlashInv /\ [Next]_vars
      => [\A p \in Pages : pages'[p] # pages[p] => p \in host.changing]_vars
  BY EveryStepKeeps
<1> QED BY <1>1, FlashInvariant, PTL DEF Spec, ChangesAreConfirmed

=============================================================================
