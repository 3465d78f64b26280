----------------------------- MODULE Toolchain -----------------------------
(***************************************************************************)
(* yala.c, compile and then execute: the code generator's image is written *)
(* to a file, read back in another process and run.  What comes of it is   *)
(* compared with the source, as what run does is.                          *)
(***************************************************************************)
EXTENDS Yala, Serialization

toolVars == << vars, serialVars >>

ToolInit == Init /\ object = image /\ SerialInit

(* run_execute: the machine starts on what deserialize_bytecode returns.    *)
Start ==
  /\ phase = "loaded"
  /\ image' = [image EXCEPT !.fns = loaded]
  /\ phase' = "execute"
  /\ UNCHANGED << framese, framestack, stack, astack, argstack, argsp, argasp,
                  status, output, input >>
  /\ UNCHANGED << object, file, torn, writer, reader, loaded, pos >>

ToolNext == \/ SerialNext /\ UNCHANGED vars
            \/ Start
            \/ phase = "execute" /\ Execute /\ UNCHANGED serialVars

ToolSpec == ToolInit /\ [][ToolNext]_toolVars

(* No process pauses for ever.                                             *)
ToolFairSpec ==
  /\ ToolSpec
  /\ WF_toolVars(WriterStep /\ UNCHANGED vars)
  /\ WF_toolVars(ReaderStep /\ UNCHANGED vars)
  /\ WF_toolVars(Start)
  /\ WF_toolVars(phase = "execute" /\ Execute /\ UNCHANGED serialVars)

-----------------------------------------------------------------------------
(* What execute prints, reads and ends with is what the source says.        *)
ExecuteImplementsSource == Abstract!Spec

(* The image the code generator makes is fit for the serializer.            *)
CompilesToSerializable == phase = "write" => Serializable(object)

(* Both processes end, with a run of the program or with a refusal.          *)
ExecuteEnds == <>(status # "run" \/ phase \in {"panic", "wild"})
=============================================================================
