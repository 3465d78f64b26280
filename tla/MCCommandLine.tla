--------------------------- MODULE MCCommandLine ---------------------------
(***************************************************************************)
(* Every call of up to MaxArguments words.                                 *)
(***************************************************************************)
EXTENDS CommandLine

CONSTANT MaxArguments

MCWords == {"run", "compile", "execute", "help", "--display-tree", "--no-execute", "--output",
            "--unknown", "in", "out"}

MCArguments == UNION {[1 .. n -> MCWords] : n \in 0 .. MaxArguments}

MCInputs == {"absent", "unparsable", "rejected", "program", "image", "torn"}
=============================================================================
