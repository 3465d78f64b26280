------------------------------ MODULE MCLimits ------------------------------
(***************************************************************************)
(* Programs that need more room than the machine has: recursion that does  *)
(* not end, in a procedure, in a function, of the program itself; vectors  *)
(* that do not fit; loops that leave copies of vectors behind; a wide      *)
(* expression.  StackMax takes the program's own variables and a few       *)
(* cells more, so that every kind of push meets the end of its stack.      *)
(***************************************************************************)
EXTENDS Yala, Families

v == Id("v")
n == Id("n")
CallOf(f, args) == CallE(Id(f), args)

rec(body) == Proc("rec", << Param("n", IntT, "inout") >>,
                  << Var(<< "u" >>, VecT(2)) >>, << >>, body)
sum  == Func("sum", << Param("n", IntT, "in") >>, IntT,
             Bin("plus", n, CallOf("sum", << Bin("plus", n, IntC(1)) >>)))
pick == Func("pick", << Param("u", VecT(2), "in") >>, IntT,
             Index(Id("u"), << IntC(1) >>))

RecBody == << << Inc(n), ExprS(CallOf("rec", << n >>)) >>,
           << Writeln(<< n >>), ExprS(CallOf("rec", << n >>)) >>,
           << If(Less(n, IntC(3)), << Inc(n), ExprS(CallOf("rec", << n >>)) >>),
              Inc(n) >>,
           << Var(<< "z" >>, VecT(3)), Assign(Index(Id("z"), << IntC(2) >>), n),
              Writeln(<< Index(Id("z"), << IntC(2) >>) >>) >> >>

Statement ==
  << ExprS(CallOf("rec", << x >>)),
     Writeln(<< x, CallOf("sum", << x >>) >>),
     ExprS(CallOf("main", << >>)),
     While(BoolC(TRUE), << Assign(v, Vec(<< x, IntC(1) >>)) >>),
     For("i", IntC(0), IntC(3),
         << Writeln(<< CallOf("pick", << v >>) >>) >>),
     Assign(x, Bin("plus", x, Bin("plus", x, Bin("plus", x, Bin("plus", x, x))))),
     If(BoolC(TRUE), << Var(<< "t" >>, VecT(6)), Inc(x) >>),
     Assign(v, Vec(<< CallOf("pick", << v >>), x >>)) >>

Template(ch) ==
  Program(<< Var(<< "x" >>, IntT), Var(<< "v" >>, VecT(2)) >>,
    << rec(RecBody[ch[1]]), sum, pick >>,
    << Assign(v, Vec(<< IntC(1), IntC(2) >>)), ReadS(<< x >>),
       Statement[ch[2]], Statement[ch[3]], Writeln(<< x >>) >>)

Radices == << Len(RecBody), Len(Statement), Len(Statement) >>

(* A program that has nothing but itself: its frames take a cell each.      *)
bare == Program(<< >>, << >>, << ExprS(CallOf("main", << >>)) >>)

MCPrograms == 0 .. ChoiceCount(Radices)

MCImages(k) ==
  LET program == IF k = 0 THEN bare ELSE Template(Choice(k, Radices))
  IN  Compiled(program)
=============================================================================
