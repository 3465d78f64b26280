------------------------------ MODULE Families ------------------------------
(***************************************************************************)
(* What the model-checking modules share: choosing the n-th member of a    *)
(* family of programs, and values for constants that a configuration file  *)
(* cannot write.                                                           *)
(***************************************************************************)
EXTENDS Shapes

(* The n-th choice of one number in 1 .. radices[k] for each k.             *)
Choice(n, radices) ==
  LET weight[m \in 1 .. Len(radices)] ==
        IF m = 1 THEN 1 ELSE weight[m - 1] * radices[m - 1]
  IN  [k \in DOMAIN radices |-> (((n - 1) \div weight[k]) % radices[k]) + 1]

ChoiceCount(radices) == Product(radices)

(* The modules that extend this one define MCImages(p) with a LET: TLC's     *)
(* coverage counts follow calls through all definitions, but not into a     *)
(* LET, and the compiler has too many paths for them.                       *)

MCIntMin  == -256
MCStrings == << << >>, << 1 >>, << 1, 2 >>, << 2, 1 >> >>

x == Id("x")
y == Id("y")
b == Id("b")
Inc(v)     == Assign(v, Bin("plus", v, IntC(1)))
Less(e, f) == Bin("lt", e, f)
=============================================================================
