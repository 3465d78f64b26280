------------------------------ MODULE MCParser ------------------------------
(***************************************************************************)
(* Every change of a token, at every place of the programs of the family,  *)
(* and every two changes of two smaller ones.                              *)
(***************************************************************************)
EXTENDS Edits, WrittenFamily

(* One token of every kind the parser tells apart.                           *)
MCExtra ==
  {Word(w) : w \in {"error", "(", ")", "[", "]", ",", ";", ":", ".", "=", "-", "!", "*", "<", "and",
                    "if", "then", "else", "elsif", "end", "begin", "do", "while", "repeat", "until",
                    "for", "to", "read", "write", "exit", "integer", "vector", "of", "program",
                    "function", "procedure", "inout"}}
    \cup {Name("x"), Name("main"), Token("integerlit", "", 1)}

MCAll == MCPrograms \cup MCFew

MCFewExtra == {Word(w) : w \in {"error", "(", "[", ",", ";", ":", "end", "else", "integer"}}

MCParserOf(toks) == LET given == toks IN parse(given)
=============================================================================
