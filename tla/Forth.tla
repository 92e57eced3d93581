------------------------------- MODULE Forth -------------------------------
(***************************************************************************)
(* The virtual machine of the Forth interpreter (rv4th.c). Its monitor and *)
(* its compiler are themselves programs of the machine, hand-compiled in   *)
(* the table progBi: the monitor reads a word and executes it, `:' reads   *)
(* words and appends their opcodes to prog. if, else and then are resolved *)
(* while compiling, by branch addresses kept on the math stack.            *)
(*                                                                         *)
(* A step executes one opcode. The input is the sequence of words typed;   *)
(* how they are cut out of characters is left out, as are the words that    *)
(* drive peripherals and access memory directly, and the width of numbers. *)
(***************************************************************************)
EXTENDS Integers, Sequences, SequencesExt

CONSTANTS
  Texts,                       \* what may be typed: sequences of words
  NumberOf,                    \* the words that are numbers, and their values
  MATH_STACK_SIZE, ADDR_STACK_SIZE, USER_PROG_SIZE, USER_OPCODE_MAPPING_SIZE

\* What the word buffer may hold: nothing yet, or a word that is typed.
Words == {""} \union UNION {{text[n] : n \in DOMAIN text} : text \in Texts}

ASSUME ForthAssumption ==
  /\ \A text \in Texts : text \in Seq(Words)
  /\ \A word \in DOMAIN NumberOf : NumberOf[word] \in Int
  /\ {MATH_STACK_SIZE, ADDR_STACK_SIZE, USER_PROG_SIZE, USER_OPCODE_MAPPING_SIZE}
       \subseteq Nat \ {0}

VARIABLES
  progCounter,                 \* index into prog, or 10000 plus index into progBi
  mathStack, addrStack,        \* the top is the last element
  prog,                        \* cells 1 .. progIdx - 1 of the program space
  cmdList,                     \* names of user words, in the order of definition
  progOpcodes,                 \* user opcode -> start of its definition in prog
  wordBuffer, line,            \* the current word and the words still to come
  nested,                      \* a built-in opcode that exec runs, or 0
  strayed,                     \* an access outside the arrays has happened
  typed, out                   \* history: words taken, what was printed

vars == <<progCounter, mathStack, addrStack, prog, cmdList, progOpcodes,
          wordBuffer, line, nested, strayed, typed, out>>
dictionary == <<prog, cmdList, progOpcodes>>
console    == <<wordBuffer, line, typed>>

\* The word lists: the position of a word is its opcode, less the offset.
BUILTIN_OPCODE_OFFSET == 20000
BUILTIN_INTERP_OFFSET == 10000
cmdListBi == <<"bye", "+", "-", "*", "/%", ".", "dup", "drop", "swap", "<",
  ">", "==", "hb.", "gw", "dfn", "abs", ",", "p@", "p!", "not", "list", "if",
  "then", "else", "begin", "until", "depth", "h.", "]", "num", "push0", "goto",
  "exec", "lu", "pushn", "over", "push1", "pwrd", "emit", ";", "@", "!", "h@",
  "do", "loop", "+loop", "i", "j", "k", "~", "^", "&", "|", "*/", "key", "cr",
  "*2", "/2", "call0", "call1", "call2", "call3", "call4", "ndrop", "swpb",
  "+!", "roll", "pick", "tuck", "max", "min", "s.", "sh.", "neg", "echo",
  "init", "o2w", "o2p", "rst", "clk", "fr", "fw", "fe", "sbi", "cbi", "mask",
  "and", "or", "swphw", "sll", "srl", "mr", "mw", "me", "wadc">>
cmdListBi2 == <<"[", ":", "var">>
cmdList2N  == <<10000, 10032, 10135>>

\* The monitor, the compiler and var, as they stand in the table.
MonitorCode == <<
  20025, 20014, 20030, 20022, 10008, 20031, 20032, 10030,
  20008, 20034, 20022, 10026, 20035, 93, 20036, 20012, 20022, 10022,
  20008, 20037, 20032, 10030, 20033, 20031, 20032, 10030,
  20035, 63, 20039, 20031, 20026, 20040>>
ColonCode == <<
  20035, 21845, 20014, 20015, 20025, 20014, 20030, 20022, 10047,
  20035, 20035, 20017, 20017, 20031, 20026, 20008, 20034, 20020, 20022, 10058,
  20035, 63, 20039, 20038, 20031, 20026,
  20035, 20022, 20036, 20012, 20022, 10070, 20017, 20043, 20007, 20017, 20031, 20026,
  20035, 20024, 20036, 20012, 20022, 10088, 20035, 20032, 20017, 20043, 20009, 20017,
  20009, 20043, 20009, 20019, 20031, 20026,
  20035, 20023, 20036, 20012, 20022, 10100, 20008, 20043, 20009, 20019, 20031, 20026,
  20035, 10001, 20036, 20012, 20022, 10109, 10001, 20031, 20026,
  20035, 20040, 20036, 20012, 20020, 20022, 10119, 20017, 20031, 20026>>
\* Variant: the mark is compared with < (20010).
SemicolonCodeVariant == <<
  20017, 20035, 21845, 20010, 20020, 20022, 10132, 20035, 63, 20039, 20035, 115, 20039,
  20037, 20026, 20040>>
\* The end of a definition: is the mark 0x5555 still on top?
SemicolonCode == <<
  20017, 20035, 21845, 20012, 20020, 20022, 10132, 20035, 63, 20039, 20035, 115, 20039,
  20037, 20026, 20040>>
VarCode == <<20043, 20031, 20017, 20014, 20015, 20035, 20035, 20017, 20017,
             20035, 20040, 20017, 20040>>
progBi == MonitorCode \o ColonCode \o SemicolonCode \o VarCode

lookupToken(word, list) == SelectInSeq(list, LAMBDA w : w = word)
Opcode(w) == BUILTIN_OPCODE_OFFSET + lookupToken(w, cmdListBi)

-----------------------------------------------------------------------------
(* The machine before a step. *)

progIdx == Len(prog) + 1
TOS == Last(mathStack)
STACK(n) == mathStack[Len(mathStack) - n]
ASTACK(n) == addrStack[Len(addrStack) - n]

InTable(a) == a >= BUILTIN_INTERP_OFFSET /\ a - BUILTIN_INTERP_OFFSET < Len(progBi)
Readable(a) == InTable(a) \/ a \in 1..Len(prog)
Cell(a) == IF InTable(a) THEN progBi[a - BUILTIN_INTERP_OFFSET + 1] ELSE prog[a]

\* What rv4th_processLoop executes next: the cell at progCounter, unless exec
\* has just called execVM with an opcode of its own. pc is progCounter after
\* the fetch.
opcode == IF nested # 0 THEN nested ELSE Cell(progCounter)
pc == IF nested # 0 THEN progCounter ELSE progCounter + 1
BuiltIn == opcode >= BUILTIN_OPCODE_OFFSET
Word == IF BuiltIn /\ opcode - BUILTIN_OPCODE_OFFSET \in 1..Len(cmdListBi)
        THEN cmdListBi[opcode - BUILTIN_OPCODE_OFFSET] ELSE ""

\* Variant: no check for underflow.
PoppedVariant(s) == Front(s)
\* popMathStack does not move below the bottom cell.
Popped(s) == IF Len(s) > 1 THEN Front(s) ELSE s
Chopped(s, n) == SubSeq(s, 1, Len(s) - n)
OnTop(s, x) == Append(Front(s), x)

Flag(b) == IF b THEN 1 ELSE 0
Halved(a) == a \div 2                              \* >> on a signed number
Quotient(a, b) == LET q == (IF a < 0 THEN -a ELSE a) \div (IF b < 0 THEN -b ELSE b)
                  IN  IF (a < 0) = (b < 0) THEN q ELSE -q
Remainder(a, b) == a - b * Quotient(a, b)

Unary == {"abs", "not", "neg", "*2", "/2"}
UnaryResult(w, a) ==
  CASE w = "abs" -> IF a < 0 THEN -a ELSE a
    [] w = "not" -> Flag(a = 0)
    [] w = "neg" -> -a
    [] w = "*2"  -> 2 * a
    [] w = "/2"  -> Halved(a)

Binary == {"+", "-", "<", ">", "==", "max", "min", "and", "or"}
BinaryResult(w, a, b) ==
  CASE w = "+"   -> a + b
    [] w = "-"   -> a - b
    [] w = "<"   -> Flag(a < b)
    [] w = ">"   -> Flag(a > b)
    [] w = "=="  -> Flag(a = b)
    [] w = "max" -> IF b > a THEN b ELSE a
    [] w = "min" -> IF b < a THEN b ELSE a
    [] w = "and" -> Flag(a # 0 /\ b # 0)
    [] w = "or"  -> Flag(a # 0 \/ b # 0)

\* rollFunc: the cell n below the top moves to the top.
Rolled(s, n) == Append(RemoveAt(s, Len(s) - n), s[Len(s) - n])

\* The math stack after a word that touches nothing else.
Shuffles == {"*", "/%", "*/", "dup", "drop", "swap", "over", "tuck", "ndrop",
             "roll", "pick", "push0", "push1", "depth", "h@", "p@", "o2p"}
MathWords == Unary \union Binary \union Shuffles
MathAfter(w, s) ==
  LET t == Last(s)
      u == s[Len(s) - 1]
      p == Popped(s)
  IN CASE w \in Unary  -> OnTop(s, UnaryResult(w, t))
       [] w \in Binary -> OnTop(p, BinaryResult(w, Last(p), t))
       [] w = "*"      -> Chopped(s, 2) \o <<IF t * u < 0 THEN -1 ELSE 0, t * u>>
       [] w = "/%"     -> Chopped(s, 2) \o <<Quotient(u, t), Remainder(u, t)>>
       [] w = "*/"     -> OnTop(Chopped(s, 2), Quotient(u * s[Len(s) - 2], t))
       [] w = "dup"    -> Append(s, t)
       [] w = "drop"   -> p
       [] w = "swap"   -> Chopped(s, 2) \o <<t, u>>
       [] w = "over"   -> Append(s, u)
       [] w = "tuck"   -> Chopped(s, 2) \o <<t, u, t>>
       [] w = "ndrop"  -> IF t < Len(p) THEN Chopped(p, t) ELSE <<s[1]>>
       [] w = "roll"   -> Rolled(p, t)
       [] w = "pick"   -> Append(p, p[Len(p) - t])
       [] w = "push0"  -> Append(s, 0)
       [] w = "push1"  -> Append(s, 1)
       [] w = "depth"  -> Append(s, Len(s) - 1)
       [] w = "h@"     -> Append(s, progIdx)
       [] w = "p@"     -> OnTop(s, prog[t])
       [] w = "o2p"    -> OnTop(s, IF t >= BUILTIN_INTERP_OFFSET THEN 0
                                   ELSE progOpcodes[t])

\* How many cells of a stack a word reaches down, or writes up.
MathReach ==
  CASE Word \in {"+", "-", "*", "/%", "swap", "over", "tuck"} -> 2
    [] Word = "*/" -> 3
    [] Word \in {"roll", "pick"} -> TOS + 2
    [] OTHER -> 1
MathGrowth ==
  CASE Word \in {"num", "lu"} -> 2
    [] Word \in {"dup", "over", "tuck", "push0", "push1", "depth", "h@",
                 "pushn", "i", "j", "k"} -> 1
    [] OTHER -> 0
AddrReach ==
  CASE Word \in {";", "until"} -> 1
    [] Word = "i" -> 2
    [] Word \in {"loop", "+loop"} -> 3
    [] Word = "j" -> 5
    [] Word = "k" -> 8
    [] OTHER -> 0
AddrGrowth ==
  CASE ~BuiltIn -> 1
    [] Word \in {"begin", "exec"} -> 1
    [] Word = "do" -> 3
    [] OTHER -> 0

\* An opcode below the offset of the built-in ones is a call, of a user word.
Callable(op) == op \in DOMAIN progOpcodes

\* Where dfn puts the start of a definition of the word in the buffer.
Entry == lookupToken(wordBuffer, Append(cmdList, wordBuffer))

\* The list that names an opcode, and its place there, which o2w walks to from
\* the start: the end of the list stops it only if the place is the next one.
OpcodeList(op) ==
  CASE op >= BUILTIN_OPCODE_OFFSET -> cmdListBi
    [] op < BUILTIN_OPCODE_OFFSET /\ op >= BUILTIN_INTERP_OFFSET -> cmdListBi2
    [] OTHER -> cmdList
OpcodeIndex(op) ==
  CASE op >= BUILTIN_OPCODE_OFFSET -> op - BUILTIN_OPCODE_OFFSET
    [] op < BUILTIN_OPCODE_OFFSET /\ op >= BUILTIN_INTERP_OFFSET -> op - BUILTIN_INTERP_OFFSET
    [] OTHER -> op

\* The next step reads or writes outside an array, or a cell that was never
\* written or is no longer on its stack: none of this is checked, and what
\* follows depends on the memory there. The address stack starts at its last
\* cell, which is therefore never used; the math stack starts there with a 0.
Outside ==
  \/ nested = 0 /\ ~Readable(progCounter)
  \/ MathReach > Len(mathStack) \/ Len(mathStack) + MathGrowth > MATH_STACK_SIZE
  \/ AddrReach > Len(addrStack) \/ Len(addrStack) + AddrGrowth >= ADDR_STACK_SIZE
  \/ Word \in {"roll", "pick", "ndrop"} /\ TOS < 0
  \/ ~BuiltIn /\ ~Callable(opcode)
  \/ Word = "exec" /\ TOS < BUILTIN_INTERP_OFFSET /\ ~Callable(TOS)
  \/ /\ Word = "exec" /\ TOS >= BUILTIN_INTERP_OFFSET /\ TOS < BUILTIN_OPCODE_OFFSET
     /\ TOS - BUILTIN_INTERP_OFFSET \notin DOMAIN cmdList2N
  \/ Word = "o2p" /\ TOS < BUILTIN_INTERP_OFFSET /\ ~Callable(TOS)
  \/ Word = "o2w" /\ OpcodeIndex(TOS) > Len(OpcodeList(TOS)) + 1
  \/ Word \in {"p@", "p!"} /\ TOS \notin 1..Len(prog)
  \/ Word \in {"if", "goto", "pushn"} /\ ~Readable(pc)
  \/ Word \in {"/%", "*/"} /\ TOS = 0
  \/ Word = "," /\ progIdx >= USER_PROG_SIZE
  \/ Word = "dfn" /\ Entry >= USER_OPCODE_MAPPING_SIZE

-----------------------------------------------------------------------------
(* Actions: one opcode each. *)

Runs(w) == ~strayed /\ Word = w /\ ~Outside
Executed == nested' = 0 /\ UNCHANGED strayed
Next_pc == progCounter' = pc

\* A word that works on the math stack only.
MathWord ==
  /\ Word \in MathWords /\ Runs(Word)
  /\ mathStack' = MathAfter(Word, mathStack)
  /\ Next_pc /\ Executed
  /\ UNCHANGED <<addrStack, dictionary, console, out>>

\* , and p! write the program space.
Comma ==
  /\ Runs(",")
  /\ prog' = Append(prog, TOS)
  /\ mathStack' = Popped(mathStack)
  /\ Next_pc /\ Executed
  /\ UNCHANGED <<addrStack, cmdList, progOpcodes, console, out>>

StoreProg ==
  /\ Runs("p!")
  /\ prog' = [prog EXCEPT ![TOS] = Last(Popped(mathStack))]
  /\ mathStack' = Popped(Popped(mathStack))
  /\ Next_pc /\ Executed
  /\ UNCHANGED <<addrStack, cmdList, progOpcodes, console, out>>

\* pushn: the next cell is a number.
pushnFunc ==
  /\ Runs("pushn")
  /\ mathStack' = Append(mathStack, Cell(pc))
  /\ progCounter' = pc + 1 /\ Executed
  /\ UNCHANGED <<addrStack, dictionary, console, out>>

\* if and goto: the next cell is where to go.
ifFunc ==
  /\ Runs("if")
  /\ progCounter' = IF TOS = 0 THEN Cell(pc) ELSE pc + 1
  /\ mathStack' = Popped(mathStack)
  /\ Executed
  /\ UNCHANGED <<addrStack, dictionary, console, out>>

gotoFunc ==
  /\ Runs("goto")
  /\ progCounter' = Cell(pc)
  /\ Executed
  /\ UNCHANGED <<mathStack, addrStack, dictionary, console, out>>

\* Variant: begin is part of the loop.
BeginVariant ==
  /\ Runs("begin")
  /\ addrStack' = Append(addrStack, pc - 1)
  /\ Next_pc /\ Executed
  /\ UNCHANGED <<mathStack, dictionary, console, out>>
\* begin leaves the address of the loop, until goes back to it or drops it.
Begin ==
  /\ Runs("begin")
  /\ addrStack' = Append(addrStack, pc)
  /\ Next_pc /\ Executed
  /\ UNCHANGED <<mathStack, dictionary, console, out>>

\* Variant: the pointer to the address is not put back.
UntilVariant ==
  /\ Runs("until")
  /\ progCounter' = IF TOS = 0 THEN ASTACK(0) ELSE pc
  /\ addrStack' = Front(addrStack)
  /\ mathStack' = Popped(mathStack)
  /\ Executed
  /\ UNCHANGED <<dictionary, console, out>>
Until ==
  /\ Runs("until")
  /\ IF TOS = 0 THEN progCounter' = ASTACK(0) /\ UNCHANGED addrStack
                ELSE Next_pc /\ addrStack' = Front(addrStack)
  /\ mathStack' = Popped(mathStack)
  /\ Executed
  /\ UNCHANGED <<dictionary, console, out>>

\* do keeps limit, count and address; loop and +loop (loopFunc) count.
Do ==
  /\ Runs("do")
  /\ addrStack' = addrStack \o <<Last(Popped(mathStack)), TOS, pc>>
  /\ mathStack' = Popped(Popped(mathStack))
  /\ Next_pc /\ Executed
  /\ UNCHANGED <<dictionary, console, out>>

loopFunc(w, n) ==
  LET count == ASTACK(1) + n
      limit == ASTACK(2)
  IN /\ Runs(w)
     /\ IF (n > 0 /\ count < limit) \/ (n < 0 /\ count > limit)
        THEN /\ addrStack' = [addrStack EXCEPT ![Len(addrStack) - 1] = count]
             /\ progCounter' = ASTACK(0)
        ELSE /\ addrStack' = Chopped(addrStack, 3)
             /\ Next_pc
     /\ Executed
     /\ UNCHANGED <<dictionary, console, out>>

Loop == loopFunc("loop", 1) /\ UNCHANGED mathStack
PlusLoop == loopFunc("+loop", TOS) /\ mathStack' = Popped(mathStack)

\* i, j and k: the counts of the loops around.
LoopCount ==
  /\ \E d \in {<<"i", 1>>, <<"j", 4>>, <<"k", 7>>} :
       Runs(d[1]) /\ mathStack' = Append(mathStack, ASTACK(d[2]))
  /\ Next_pc /\ Executed
  /\ UNCHANGED <<addrStack, dictionary, console, out>>

\* A user opcode in a program, and ; at the end of one.
Call ==
  /\ ~strayed /\ ~BuiltIn /\ ~Outside
  /\ addrStack' = Append(addrStack, pc)
  /\ progCounter' = progOpcodes[opcode]
  /\ Executed
  /\ UNCHANGED <<mathStack, dictionary, console, out>>

Return ==
  /\ Runs(";")
  /\ progCounter' = Last(addrStack)
  /\ addrStack' = Front(addrStack)
  /\ Executed
  /\ UNCHANGED <<mathStack, dictionary, console, out>>

\* exec: the opcode on the stack, built in, a program of the table or a user's.
execFunc ==
  /\ Runs("exec")
  /\ mathStack' = Popped(mathStack)
  /\ IF TOS >= BUILTIN_OPCODE_OFFSET
     THEN nested' = TOS /\ Next_pc /\ UNCHANGED addrStack
     ELSE /\ nested' = 0
          /\ addrStack' = Append(addrStack, pc)
          /\ progCounter' = IF TOS >= BUILTIN_INTERP_OFFSET
                            THEN cmdList2N[TOS - BUILTIN_INTERP_OFFSET]
                            ELSE progOpcodes[TOS]
  /\ UNCHANGED <<strayed, dictionary, console, out>>

\* gw waits in getKeyB while nothing is typed.
getWordFunc ==
  /\ Runs("gw") /\ line # <<>>
  /\ wordBuffer' = Head(line) /\ line' = Tail(line)
  /\ typed' = Append(typed, Head(line))
  /\ Next_pc /\ Executed
  /\ UNCHANGED <<mathStack, addrStack, dictionary, out>>

\* Variant: the start of the definition goes to the new entry of the list.
dfnFuncVariant ==
  /\ Runs("dfn")
  /\ cmdList' = Append(cmdList, wordBuffer)
  /\ progOpcodes' = Append(progOpcodes, progIdx)
  /\ Next_pc /\ Executed
  /\ UNCHANGED <<mathStack, addrStack, prog, console, out>>
\* dfn: the name goes to the end of the list, but the start of the definition
\* to the first entry of that name.
dfnFunc ==
  /\ Runs("dfn")
  /\ cmdList' = Append(cmdList, wordBuffer)
  /\ progOpcodes' = [k \in DOMAIN progOpcodes \union {Entry} |->
                       IF k = Entry THEN progIdx ELSE progOpcodes[k]]
  /\ Next_pc /\ Executed
  /\ UNCHANGED <<mathStack, addrStack, prog, console, out>>

numFunc ==
  /\ Runs("num")
  /\ mathStack' = mathStack \o (IF wordBuffer \in DOMAIN NumberOf
                                THEN <<NumberOf[wordBuffer], 1>> ELSE <<0, 0>>)
  /\ Next_pc /\ Executed
  /\ UNCHANGED <<addrStack, dictionary, console, out>>

\* lu: built-in words come first, then the three programs, then the user's.
FoundOpcode(w) ==
  LET b == lookupToken(w, cmdListBi)
      t == lookupToken(w, cmdListBi2)
  IN CASE b # 0 -> BUILTIN_OPCODE_OFFSET + b
       [] b = 0 /\ t # 0 -> BUILTIN_INTERP_OFFSET + t
       [] OTHER -> lookupToken(w, cmdList)
luFunc ==
  /\ Runs("lu")
  /\ LET op == FoundOpcode(wordBuffer)
     IN  mathStack' = mathStack \o (IF op # 0 THEN <<op, 1>> ELSE <<0>>)
  /\ Next_pc /\ Executed
  /\ UNCHANGED <<addrStack, dictionary, console, out>>

\* opcode2word: the name of an opcode in its list, or ? at the end of it.
WordOf(op) ==
  LET n == OpcodeIndex(op)
  IN  IF n > Len(OpcodeList(op)) THEN "?" ELSE OpcodeList(op)[IF n < 1 THEN 1 ELSE n]

\* Words that print.
Speak ==
  LET popping == {".", "hb.", "h.", "emit", "o2w"}
  IN /\ Word \in popping \union {"pwrd", "cr", "s.", "sh."} /\ Runs(Word)
     /\ out' = out \o (CASE Word \in {".", "hb.", "h."} -> <<<<"number", TOS>>>>
                         [] Word = "emit" -> <<<<"char", TOS>>>>
                         [] Word = "o2w" -> <<<<"word", WordOf(TOS)>>>>
                         [] Word = "pwrd" -> <<<<"word", wordBuffer>>>>
                         [] Word = "cr" -> <<<<"char", 10>>>>
                         [] Word \in {"s.", "sh."} ->
                              [n \in DOMAIN mathStack |-> <<"number", mathStack[n]>>])
     /\ mathStack' = IF Word \in popping THEN Popped(mathStack) ELSE mathStack
     /\ Next_pc /\ Executed
     /\ UNCHANGED <<addrStack, dictionary, console>>

\* then, else and ] do nothing when they are executed.
NoOperation ==
  /\ Word \in {"then", "else", "]", "mw"} /\ Runs(Word)
  /\ Next_pc /\ Executed
  /\ UNCHANGED <<mathStack, addrStack, dictionary, console, out>>

Stray ==
  /\ ~strayed /\ Outside
  /\ strayed' = TRUE
  /\ UNCHANGED <<progCounter, mathStack, addrStack, dictionary, console, nested, out>>

\* rv4th_init, with a text typed ahead.
Init ==
  /\ progCounter = BUILTIN_INTERP_OFFSET
  /\ mathStack = <<0>> /\ addrStack = <<>>
  /\ prog = <<>> /\ cmdList = <<>> /\ progOpcodes = <<>>
  /\ wordBuffer = "" /\ line \in Texts
  /\ nested = 0 /\ strayed = FALSE
  /\ typed = <<>> /\ out = <<>>

Next ==
  \/ MathWord \/ Comma \/ StoreProg \/ pushnFunc \/ ifFunc \/ gotoFunc
  \/ Begin \/ Until \/ Do \/ Loop \/ PlusLoop \/ LoopCount
  \/ Call \/ Return \/ execFunc \/ getWordFunc \/ dfnFunc \/ numFunc \/ luFunc
  \/ Speak \/ NoOperation \/ Stray

\* The interpreter is the only program that runs: it goes on.
Spec == Init /\ [][Next]_vars /\ WF_vars(Next)

-----------------------------------------------------------------------------
(* Types. *)

\* What lu finds among the user's words can be called, and starts in the
\* program space or right after it: a name that is listed twice has its start
\* at its first entry, and the entry of the second is never looked at.
DictionaryOK ==
  /\ DOMAIN progOpcodes \subseteq 1..Len(cmdList)
  /\ \A n \in DOMAIN progOpcodes : n < USER_OPCODE_MAPPING_SIZE /\ progOpcodes[n] \in 1..progIdx
  /\ \A n \in 1..Len(cmdList) : lookupToken(cmdList[n], cmdList) \in DOMAIN progOpcodes

\* Type invariant: as long as nothing has strayed, and for every text, the
\* stacks and the program space stay in their arrays (rv4th.c 83-86) and the
\* dictionary can be followed.
ForthTypeOK ==
  /\ progCounter \in Int /\ strayed \in BOOLEAN
  /\ nested \in Int /\ (nested # 0 => nested >= BUILTIN_OPCODE_OFFSET)
  /\ mathStack \in Seq(Int) /\ Len(mathStack) \in 1..MATH_STACK_SIZE
  /\ addrStack \in Seq(Int) /\ Len(addrStack) < ADDR_STACK_SIZE
  /\ prog \in Seq(Int) /\ Len(prog) < USER_PROG_SIZE
  /\ cmdList \in Seq(Words) /\ wordBuffer \in Words
  /\ line \in Seq(Words) /\ typed \in Seq(Words)
  /\ DictionaryOK

\* The monitor is about to take a word; nothing typed is left to do.
AtPrompt == progCounter = 10001 /\ nested = 0
Waiting == Word = "gw" /\ nested = 0 /\ line = <<>>
=============================================================================
