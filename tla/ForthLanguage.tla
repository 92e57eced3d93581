--------------------------- MODULE ForthLanguage ---------------------------
(***************************************************************************)
(* What a text means, without a compiler: words are executed one by one,   *)
(* if, begin and do choose among the words that stand between them and     *)
(* their ends, a user word stands for the words of its last definition.    *)
(* The effect of a word on the stack is the one its comment in execVM      *)
(* states, ( before -- after ).                                            *)
(***************************************************************************)
EXTENDS Integers, Sequences, SequencesExt, TLC

CONSTANT Numeral               \* the words that are numbers, and their values

\* ( before -- after ): the cells before, the last one on top.
Arity ==
  [w \in {"+", "-", "*", "/%", "swap", "<", ">", "==", "over", "tuck", "max",
          "min", "and", "or"} |-> 2] @@
  [w \in {"dup", "drop", "abs", "not", "neg", "*2", "/2"} |-> 1] @@
  [w \in {"depth"} |-> 0] @@ [w \in {"*/"} |-> 3]
Truth(b) == IF b THEN 1 ELSE 0
Effect(w, x, depth) ==
  CASE w = "+" -> <<x[1] + x[2]>>        [] w = "-" -> <<x[1] - x[2]>>
    [] w = "<" -> <<Truth(x[1] < x[2])>> [] w = ">" -> <<Truth(x[1] > x[2])>>
    [] w = "==" -> <<Truth(x[1] = x[2])>>
    [] w = "and" -> <<Truth(x[1] # 0 /\ x[2] # 0)>>
    [] w = "or" -> <<Truth(x[1] # 0 \/ x[2] # 0)>>
    [] w = "max" -> <<IF x[1] > x[2] THEN x[1] ELSE x[2]>>
    [] w = "min" -> <<IF x[1] < x[2] THEN x[1] ELSE x[2]>>
    [] w = "*" -> <<-Truth(x[1] * x[2] < 0), x[1] * x[2]>>
    [] w = "/%" -> <<x[1] \div x[2], x[1] % x[2]>>
    [] w = "*/" -> <<(x[1] * x[2]) \div x[3]>>
    [] w = "swap" -> <<x[2], x[1]>>      [] w = "over" -> <<x[1], x[2], x[1]>>
    [] w = "tuck" -> <<x[2], x[1], x[2]>> [] w = "dup" -> <<x[1], x[1]>>
    [] w = "drop" -> <<>>                [] w = "neg" -> <<-x[1]>>
    [] w = "abs" -> <<IF x[1] < 0 THEN -x[1] ELSE x[1]>>
    [] w = "not" -> <<Truth(x[1] = 0)>>  [] w = "*2" -> <<x[1] + x[1]>>
    [] w = "/2" -> <<x[1] \div 2>>       [] w = "depth" -> <<depth>>

Keywords == {":", ";", "if", "else", "then", "begin", "until", "do", "loop",
             "+loop", "i", "j", ".", "pick", "roll", "ndrop", "var", "p@", "p!"}

\* The position of the word of the set that ends the construct open at the
\* head of the text, whose own kind is opened and closed by the other two.
Ending(t, opened, closed, wanted) ==
  LET open(n) == Len(SelectSeq(SubSeq(t, 1, n), LAMBDA w : w = opened))
                 - Len(SelectSeq(SubSeq(t, 1, n), LAMBDA w : w \in closed))
      found == {n \in 1..Len(t) : t[n] \in wanted /\
                  open(n) = (IF t[n] \in closed THEN -1 ELSE 0)}
  IN  IF found = {} THEN 0 ELSE CHOOSE n \in found : \A m \in found : n <= m
From(t, n) == SubSeq(t, n, Len(t))

\* Whether a text keeps to the language: what is opened is closed.
Balanced(t) ==
  \A n \in 1..Len(t) : t[n] = "if" => Ending(From(t, n + 1), "if", {"then"}, {"then"}) # 0

Known(w, s) == w \in DOMAIN Numeral \/ w \in DOMAIN Arity \/ w \in Keywords
               \/ w \in DOMAIN s.words
Push(s, x) == [s EXCEPT !.stack = Append(@, x)]
Drop(s, n) == [s EXCEPT !.stack = SubSeq(@, 1, Len(@) - n)]

\* s: stack, what was printed, definitions, variables, counts of the loops.
RECURSIVE Meaning(_, _), Counting(_, _, _, _, _), Repeating(_, _)
Meaning(t, s) ==
  IF t = <<>> THEN s ELSE
  LET w == Head(t)
      r == Tail(t)
      x == Last(s.stack)
  IN
  CASE w = ":" ->            \* words that are not known are told and left out
        LET e == Ending(r, ":", {";"}, {";"})
            name == Head(r)
            body == SubSeq(r, 2, e - 1)
            d == [s EXCEPT !.words = [v \in DOMAIN s.words \union {name} |->
                    IF v = name THEN SelectSeq(body, LAMBDA v2 : v2 = name \/ Known(v2, s))
                    ELSE s.words[v]]]
            told == FlattenSeq([n \in 1..Len(body) |->
                      IF Known(body[n], d) THEN <<>>
                      ELSE <<<<"char", 63>>, <<"word", body[n]>>>>])
        IN  Meaning(From(r, e + 1), [d EXCEPT !.out = @ \o told])
    [] w = "if" ->
        LET e == Ending(r, "if", {"then"}, {"then"})
            l == Ending(r, "if", {"then"}, {"else"})
            split == IF l # 0 /\ l < e THEN l ELSE e
        IN  Meaning(From(r, e + 1),
                    Meaning(IF x # 0 THEN SubSeq(r, 1, split - 1)
                            ELSE SubSeq(r, split + 1, e - 1), Drop(s, 1)))
    [] w = "begin" ->
        LET e == Ending(r, "begin", {"until"}, {"until"})
        IN  Meaning(From(r, e + 1), Repeating(SubSeq(r, 1, e - 1), s))
    [] w = "do" ->
        LET e == Ending(r, "do", {"loop", "+loop"}, {"loop", "+loop"})
        IN  Meaning(From(r, e + 1),
                    Counting(SubSeq(r, 1, e - 1), r[e], x, s.stack[Len(s.stack) - 1], Drop(s, 2)))
    [] w = "i" -> Meaning(r, Push(s, Last(s.counts)))
    [] w = "j" -> Meaning(r, Push(s, s.counts[Len(s.counts) - 1]))
    [] w = "." -> Meaning(r, Drop([s EXCEPT !.out = Append(@, <<"number", x>>)], 1))
    [] w = "ndrop" -> Meaning(r, Drop(s, x + 1))
    [] w = "pick" -> Meaning(r, Push(Drop(s, 1), s.stack[Len(s.stack) - 1 - x]))
    [] w = "roll" ->
        LET b == Drop(s, 1).stack
            m == b[Len(b) - x]
        IN  Meaning(r, [s EXCEPT !.stack = SubSeq(b, 1, Len(b) - x - 1)
                                           \o SubSeq(b, Len(b) - x + 1, Len(b)) \o <<m>>])
    [] w = "var" ->            \* the variable pushes a name of its cell
        Meaning(Tail(r), [s EXCEPT !.words = (Head(r) :> <<"cell", Head(r)>>) @@ @,
                                   !.cells = (Head(r) :> 0) @@ @])
    [] w \in DOMAIN Numeral -> Meaning(r, Push(s, Numeral[w]))
    [] w \in DOMAIN s.cells ->
        IF Head(r) = "p@" THEN Meaning(Tail(r), Push(s, s.cells[w]))
        ELSE Meaning(Tail(r), Drop([s EXCEPT !.cells[w] = x], 1))
    [] w \in DOMAIN s.words /\ w \notin DOMAIN s.cells -> Meaning(r, Meaning(s.words[w], s))
    [] w \in DOMAIN Arity ->
        LET n == Arity[w]
            a == SubSeq(s.stack, Len(s.stack) - n + 1, Len(s.stack))
        IN  Meaning(r, [s EXCEPT !.stack = SubSeq(@, 1, Len(@) - n)
                                           \o Effect(w, a, Len(s.stack))])
    [] OTHER -> Meaning(r, [s EXCEPT !.out = Append(@, <<"char", 63>>)])

Repeating(body, s) ==
  LET a == Meaning(body, s)
  IN  IF Last(a.stack) # 0 THEN Drop(a, 1) ELSE Repeating(body, Drop(a, 1))

\* The body runs at least once; loop adds one, +loop what is on the stack.
Counting(body, how, count, limit, s) ==
  LET a == Meaning(body, [s EXCEPT !.counts = Append(@, count)])
      n == IF how = "loop" THEN 1 ELSE Last(a.stack)
      b == [a EXCEPT !.counts = Front(@),
                     !.stack = IF how = "loop" THEN @ ELSE Front(@)]
  IN  IF (n > 0 /\ count + n < limit) \/ (n < 0 /\ count + n > limit)
      THEN Counting(body, how, count + n, limit, b) ELSE b

Fresh == [stack |-> <<>>, out |-> <<>>, words |-> <<>>, cells |-> <<>>, counts |-> <<>>]
=============================================================================
