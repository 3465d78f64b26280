------------------------------ MODULE Language ------------------------------
(***************************************************************************)
(* What running a source promises, step by step: it prints, reads and ends *)
(* as module Reference says, in that order, and not otherwise.  A step of  *)
(* this specification is one instruction of the machine that somebody      *)
(* outside can see.                                                        *)
(***************************************************************************)
EXTENDS Reference

VARIABLES
  source,   \* the program
  output,   \* what it has printed
  input,    \* what it has read
  status    \* "run", then how it ended

visible == << source, output, input, status >>

Meaning == Run(source, input)

(* Everything the source prints before it reads on or ends is printed.      *)
UpToDate == Len(output) = Len(Meaning.out)

Init == output = << >> /\ input = << >> /\ status = "run"

(* What is printed is what comes next.                                      *)
Prints ==
  /\ Len(output') > Len(output)
  /\ SubSeq(output', 1, Len(output)) = output
  /\ PrintedSoFar(output', Meaning.out)
  /\ UNCHANGED << source, input, status >>

Reads ==
  /\ Meaning.flow = "wait" /\ UpToDate
  /\ Len(input') = Len(input) + 1
  /\ SubSeq(input', 1, Len(input)) = input
  /\ UNCHANGED << source, output, status >>

Ends ==
  /\ Meaning.flow \in {"halt", "error"} /\ UpToDate
  /\ status' = Meaning.flow
  /\ UNCHANGED << source, output, input >>

(* Nothing is promised of a program that has used an element nobody         *)
(* assigned, nor beyond the turns that Fuel pays for.                       *)
Unspecified == Meaning.flow \in {"undef", "fuel"} /\ Len(output) >= Len(Meaning.out)

Next ==
  /\ visible' # visible
  /\ status = "run" /\ (Prints \/ Reads \/ Ends \/ Unspecified)

Spec == Init /\ [][Next]_visible

(* A machine of bounded size may also stop, with an error and at any time.   *)
Overflows ==
  /\ status = "run" /\ status' = "error"
  /\ UNCHANGED << source, output, input >>

SpecUpToLimit == Init /\ [][Next \/ Overflows]_visible
=============================================================================
