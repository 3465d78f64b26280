----------------------------- MODULE MCPrograms -----------------------------
(***************************************************************************)
(* Compiler and machine on the programs of three families: control flow,   *)
(* procedures, and vectors.                                                *)
(***************************************************************************)
EXTENDS Yala, Families

Control    == INSTANCE ControlFamily
Procedures == INSTANCE ProcedureFamily
Vectors    == INSTANCE VectorFamily

MCPrograms == ({"control"} \X Control!Members) \cup ({"procedures"} \X Procedures!Members)
                \cup ({"vectors"} \X Vectors!Members)

MCImages(p) ==
  LET program == CASE p[1] = "control"    -> Control!Member(p[2])
                   [] p[1] = "procedures" -> Procedures!Member(p[2])
                   [] p[1] = "vectors"    -> Vectors!Member(p[2])
  IN  Compiled(program)
=============================================================================
