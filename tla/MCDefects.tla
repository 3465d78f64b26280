----------------------------- MODULE MCDefects -----------------------------
(***************************************************************************)
(* Two programs with which compiler and machine do not do what the tests   *)
(* of the repository say.  Each has a run of its own, in which a property   *)
(* that holds of the other programs is violated.                           *)
(***************************************************************************)
EXTENDS Yala, Families

MCPrograms == {"only"}
X == Var(<< "x" >>, IntT)

(* Repeat until x is 2 or more.                                             *)
UntilImages(p) ==
  LET program ==
        Program(<< X >>, << >>,
          << ReadS(<< x >>), Repeat(<< Inc(x) >>, Bin("ge", x, IntC(2))),
             Writeln(<< x >>) >>)
  IN  Compiled(program)

(* inner reads a parameter of outer, which is called from a procedure.      *)
inner == Proc("inner", << >>, << >>, << >>,
              << Writeln(<< Bin("plus", Id("n"), IntC(1)) >>) >>)
outer == Proc("outer", << Param("n", IntT, "in") >>, << >>, << inner >>,
              << ExprS(CallE(Id("inner"), << >>)) >>)
via   == Proc("via", << Param("s", StrT, "in") >>, << >>, << >>,
              << ExprS(CallE(Id("outer"), << IntC(3) >>)) >>)

NestedImages(p) ==
  LET program ==
        Program(<< X >>, << outer, via >>,
          << ReadS(<< x >>), ExprS(CallE(Id("outer"), << x >>)),
             ExprS(CallE(Id("via"), << StrC(2) >>)) >>)
  IN  Compiled(program)
=============================================================================
