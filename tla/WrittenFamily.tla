--------------------------- MODULE WrittenFamily ---------------------------
(***************************************************************************)
(* Programs that between them hold every production of the language, small *)
(* ones.                                                                   *)
(***************************************************************************)
EXTENDS Grammar

MCIntMin  == -256
MCStrings == << << >> >>

x == Id("x")
y == Id("y")
f == Id("f")
One == IntC(1)
X == Var(<< "x" >>, IntT)

In(id)    == [id |-> id, mod |-> "in"]
Out(id)   == [id |-> id, mod |-> "out"]
InOut(id) == [id |-> id, mod |-> "inout"]

Main(stats) == Program(<< >>, << >>, stats)
Expression(e) == Main(<< Assign(x, e) >>)

Matrix == TypeLabel(VAL_STRING, << 2, 3 >>)

Elsif(c, s, d, t, u) ==
  Node("if", << Node("cas", << c, List(s) >>), Node("cas", << d, List(t) >>), List(u) >>)
Choose(c, e, d, g, h) ==
  Node("condexpr", << Node("cas", << c, e >>), Node("cas", << d, g >>), h >>)

MCPrograms == {
  (* levels and sides *)
  Expression(Bin("or", Bin("and", Bin("lt", x, Bin("plus", y, One)), BoolC(TRUE)), x)),
  Expression(Bin("minus", x, Bin("minus", y, Bin("times", Bin("plus", x, y), One)))),
  Expression(Bin("divide", Neg(Bin("plus", x, y)), Neg(Not1(x)))),
  Expression(Bin("eq", Bin("neq", x, y), Bin("or", x, y))),
  Expression(Bin("and", Bin("and", x, y), Bin("or", x, Bin("ge", x, y)))),
  (* terms *)
  Expression(Index(CallE(Index(x, << One, y >>), << >>), << Bin("plus", x, One) >>)),
  Expression(Index(Vec(<< x, Vec(<< One >>) >>), << One >>)),
  Expression(CallE(f, << StrC(2), Vec(<< x >>) >>)),
  Expression(Choose(x, One, Bin("gt", x, y), Cond(x, y, One), BoolC(FALSE))),
  (* statements *)
  Main(<< ReadS(<< x, Index(y, << One >>) >>), Writeln(<< One >>), WriteS(<< x, y >>) >>),
  Main(<< ReadS(<< Vec(<< x, Index(y, << One >>) >>) >>) >>),
  Main(<< While(x, << Break >>), Repeat(<< Exit, ExprS(CallE(f, << >>)) >>, Bin("le", x, y)) >>),
  Main(<< For("x", One, Bin("plus", x, One), << X >>), Var(<< "x", "y" >>, Matrix) >>),
  Main(<< If(x, << >>), IfElse(x, << Exit >>, << If(y, << Break >>) >>) >>),
  Main(<< Elsif(x, << Exit >>, y, << >>, << ExprS(Cond(x, y, One)) >>) >>),
  (* modules *)
  Program(<< X, Var(<< "y", "f" >>, Matrix) >>, << >>, << >>),
  Program(<< X >>, << Func("f", << >>, BoolT, x), Proc("y", << >>, << X >>, << >>, << >>) >>, << >>),
  Program(<< >>, << Proc("f", << Group(<< In("x"), Out("y") >>, IntT), Group(<< InOut("f") >>, StrT) >>,
                         << >>, << Func("y", << Group(<< In("x") >>, Matrix) >>, IntT, One) >>,
                         << Exit >>) >>, << Exit >>)
}

MCFew == {
  Main(<< ReadS(<< x >>), If(y, << Break >>) >>),
  Program(<< X >>, << Func("f", << Group(<< In("x"), Out("y") >>, IntT) >>, BoolT, CallE(x, << y >>)) >>, << >>)
}
=============================================================================
