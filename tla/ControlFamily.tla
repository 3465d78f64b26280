--------------------------- MODULE ControlFamily ----------------------------
(***************************************************************************)
(* Control flow: conditions, branches, loops and breaks over one integer   *)
(* that is read, another one and a Boolean.                                *)
(***************************************************************************)
EXTENDS Families

Conditions ==
  << Less(x, IntC(1)),
     Bin("and", Bin("neq", x, IntC(0)), Bin("gt", Bin("divide", IntC(4), x), IntC(2))),
     Bin("or", b, Bin("eq", x, y)),
     x >>

Simple ==
  << Assign(y, Bin("plus", y, x)), Assign(b, Not1(b)), Break, Exit,
     WriteS(<< y, b >>) >>

Compound(k, c, s, t) ==
  CASE k = 1 -> IfElse(c, << s >>, << t >>)
    [] k = 2 -> While(Less(y, IntC(3)), << Inc(y), If(c, << s >>), t >>)
    [] k = 3 -> For("i", IntC(0), IntC(1),
                    << For("j", Id("i"), x, << If(c, << s >>) >>), t >>)
    [] k = 4 -> If(c, << Var(<< "z" >>, IntT), Assign(Id("z"), Bin("minus", y, x)),
                         s, Assign(x, Neg(Id("z"))) >>)
    [] k = 5 -> Node("if", << Node("cas", << c, List(<< s >>) >>),
                              Node("cas", << b, List(<< t >>) >>),
                              List(<< Inc(x) >>) >>)
    [] k = 6 -> For("i", IntC(IntMax - 1), IntC(IntMax), << If(c, << s >>), t, Inc(x) >>)

Template(ch) ==
  Program(<< Var(<< "x", "y" >>, IntT), Var(<< "b" >>, BoolT) >>, << >>,
    << ReadS(<< x >>),
       Compound(ch[1], Conditions[ch[2]], Simple[ch[3]], Simple[ch[4]]),
       Writeln(<< x, y, b >>) >>)

Radices == << 6, 4, 5, 5 >>
Members == 1 .. ChoiceCount(Radices)
Member(k) == Template(Choice(k, Radices))
=============================================================================
