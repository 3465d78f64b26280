-------------------------- MODULE ProcedureFamily ---------------------------
(***************************************************************************)
(* Calls: in, out and inout parameters, the same variable or an element of *)
(* a vector as argument, recursion, variables of the program changed under *)
(* a call, a procedure inside a procedure.                                 *)
(***************************************************************************)
EXTENDS Families

g == Id("g")
h == Id("h")
v == Id("v")
At(i) == Index(v, << i >>)

Modes == << << "in", "out" >>, << "out", "inout" >>, << "inout", "inout" >>,
            << "inout", "in" >>, << "out", "out" >> >>

(* v[g] is another element after a call that changes g.                     *)
Arguments2 == << << g, h >>, << g, g >>, << At(g), g >>, << h, At(g) >>,
                 << At(IntC(1)), At(CallE(Id("sum"), << g >>)) >>,
                 << CallE(Id("sum"), << IntC(2) >>), g >> >>

a == Id("a")
c == Id("c")

Bodies ==
  << << Assign(a, Bin("plus", c, IntC(1))), Assign(c, Bin("plus", a, g)) >>,
     << Assign(c, IntC(4)), Inc(g), Assign(a, Bin("times", g, IntC(3))) >>,
     << Inc(g), If(Less(g, IntC(2)), << ExprS(CallE(Id("p"), << a, c >>)) >>),
        Inc(c) >>,
     << ExprS(CallE(Id("q"), << c >>)), Assign(a, Bin("minus", c, g)) >> >>

(* sum(n) = g + 1 + ... + n; q, inside p, reads a parameter of p.           *)
sum == Func("sum", << Param("n", IntT, "in") >>, IntT,
            Cond(Bin("le", Id("n"), IntC(0)), g,
                 Bin("plus", Id("n"),
                     CallE(Id("sum"), << Bin("minus", Id("n"), IntC(1)) >>))))

q == Proc("q", << Param("d", IntT, "inout") >>, << >>, << >>,
          << Assign(Id("d"), Bin("plus", Id("d"), a)), Assign(h, Id("d")) >>)

p(modes, body) ==
  Proc("p", << Param("a", IntT, modes[1]), Param("c", IntT, modes[2]) >>,
       << Var(<< "u" >>, IntT) >>, << q >>, body)

Template(ch) ==
  Program(<< Var(<< "g", "h" >>, IntT), Var(<< "v" >>, VecT(3)) >>,
    << sum, p(Modes[ch[1]], Bodies[ch[3]]) >>,
    << Assign(v, Vec(<< IntC(5), IntC(6), IntC(7) >>)),
       ReadS(<< g >>), Assign(h, IntC(2)),
       ExprS(CallE(Id("p"), Arguments2[ch[2]])),
       Writeln(<< g, h, At(IntC(0)), At(IntC(1)) >>),
       Writeln(<< At(IntC(2)), CallE(Id("sum"), << IntC(1) >>) >>) >>)

Radices == << 5, 6, 4 >>
Members == 1 .. ChoiceCount(Radices)
Member(k) == Template(Choice(k, Radices))
=============================================================================
