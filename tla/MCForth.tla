------------------------------ MODULE MCForth ------------------------------
(***************************************************************************)
(* The interpreter on texts built from a grammar, compared with            *)
(* ForthLanguage.                                                          *)
(***************************************************************************)
EXTENDS Forth

MCNumberOf == [w \in {"0", "1", "2", "3", "7"} |->
  CASE w = "0" -> 0 [] w = "1" -> 1 [] w = "2" -> 2 [] w = "3" -> 3 [] w = "7" -> 7]

L == INSTANCE ForthLanguage WITH Numeral <- MCNumberOf

-----------------------------------------------------------------------------
(* Texts. A block leaves the stack as it found it. *)

\* The words that only work on the stack, each on the cells 7 2 3; the last one is printed.
Trial(w) == <<"7", "2", "3", w, ".">>
Trials == {Trial(w) : w \in {"+", "-", "<", ">", "==", "max", "min", "and", "or",
             "*", "/%", "*/", "swap", "over", "tuck", "dup", "drop", "neg",
             "abs", "not", "*2", "/2", "depth"}}
          \union {<<"7", "2", "3", "1", "pick", ".">>, <<"7", "2", "3", "2", "roll", ".">>,
                  <<"3", "7", "7", "2", "ndrop", ".">>}

Atoms == {<<"1", ".">>, <<"a">>, <<"zz">>}
Wrap(B) ==
  {<<c, "if">> \o b \o <<"then">> : c \in {"0", "1"}, b \in B}
  \union {<<c, "if">> \o b \o <<"else", "2", ".">> \o <<"then">> : c \in {"0", "1"}, b \in B}
  \union {<<"begin">> \o b \o <<"1", "until">> : b \in B}
  \union {<<"2", "0", "do">> \o b \o <<"i", ".", "loop">> : b \in B}
Blocks == Atoms \union Wrap(Atoms) \union Wrap(Wrap(Atoms))
          \union Wrap(Wrap(Wrap({<<"1", ".">>})))
Loops == {
  <<"3", "begin", "dup", ".", "1", "-", "dup", "not", "until", "drop">>,
  <<"1", "3", "do", "i", ".", "1", "neg", "+loop">>,
  <<"3", "0", "do", "i", ".", "2", "+loop">>,
  <<"2", "0", "do", "2", "0", "do", "j", ".", "i", ".", "loop", "loop">>}

Define(name, body) == <<":", name>> \o body \o <<";">>
Legal ==
  {Define("a", <<"3", ".">>) \o Define("b", b) \o <<"b", "7", ".">> : b \in Blocks \union Loops \union Trials}
  \union Trials
  \union {Define("a", a) \o Define("b", <<"a">>) \o Define("a", a2) \o <<"b">> :
            a, a2 \in Wrap({<<"1", ".">>})}
  \union {<<"var", "v", "7", "v", "p!">> \o Define("b", <<"v", "p@", ".">>) \o <<"b", "3", "v", "p!", "b">>}

\* Definitions that end with an if still open, which the compiler tells of.
Open == {Define("a", <<"1", "if">> \o b) \o <<"7", ".">> :
           b \in {<<"1", ".">>, <<"1", "if", "then">>, <<"else">>, <<"if">>}}

\* Words that the compiler or the program cannot carry out: a then without an
\* if, a monitor within a definition, a cell that is not there, the name of an
\* opcode that was never given.
Careless == {Define("a", <<"1", "then">>), Define("a", <<"[", "1", "]">>),
             <<"1", "7", "pick">>, <<"7", "o2w">>}

\* More is taken from the stack than is there, which is checked; a word of
\* the compiler at the prompt.
Empty == {<<".", "drop", "1">>, <<"then", "1">>}

MCTexts == Legal \union Open \union Careless \union Empty
Text == typed \o line

-----------------------------------------------------------------------------
(* Properties. *)

\* The interpreter checks no array (rv4th.c 96-105), and yet a text that keeps
\* to the language, or only leaves an if open, never makes it read or write
\* outside one: neither the compiler nor what it compiled does.
StraysOnlyWhenAsked == strayed => Text \in Careless

\* Compiled code does what the source says: whenever the monitor is about to
\* take a word of its own, the stack and the output are those that the words
\* taken so far mean when they are executed one by one: branches, loops and
\* calls were compiled to the right places. (The address of a variable has no
\* meaning of its own, so the word after it is waited for.)
MeansWhatItSays ==
  AtPrompt /\ Text \in Legal /\ (typed # <<>> => Last(typed) # "v") =>
    LET s == L!Meaning(typed, L!Fresh)
    IN  out = s.out /\ mathStack = <<0>> \o s.stack

\* The monitor, the compiler and the words of the user share the address
\* stack, and the monitor keeps the start of its own loop there: whatever a text
\* compiles or executes, at the prompt nothing else is left.
PromptIsClean == AtPrompt => Len(addrStack) = 1

\* A branch of a finished definition that was never given its destination
\* has been told of, by "?s".
Hole(n) ==
  \/ prog[n - 1] = Opcode("if") /\ prog[n] = n
  \/ prog[n - 1] = Opcode("goto") /\ prog[n] = Opcode("else")
HolesAreTold ==
  AtPrompt /\ (\E n \in 2..Len(prog) : Hole(n)) =>
    \E n \in 2..Len(out) : out[n - 1] = <<"char", 63>> /\ out[n] = <<"char", 115>>

\* Every other text is worked off: the interpreter comes back for more.
ComesBack == <>(Waiting \/ Text \in Careless)
=============================================================================
