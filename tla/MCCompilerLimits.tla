-------------------------- MODULE MCCompilerLimits --------------------------
(***************************************************************************)
(* Programs with every kind of jump and constant, in the program itself and *)
(* in functions of it, small enough for every limit from 0 to beyond what   *)
(* they need.                                                              *)
(***************************************************************************)
EXTENDS CompilerLimits, Families

Wide(k) == IntC(300 + k)

Loops == << While(Less(x, Wide(1)), << Inc(x), If(b, << Break >>) >>),
            Repeat(<< Inc(x), Break >>, Less(Wide(2), x)),
            For("i", IntC(0), Wide(3), << Assign(x, Id("i")) >>),
            WriteS(<< StrC(2), StrC(2) >>) >>

Chains == << If(b, << Exit >>),
             IfElse(b, << Inc(x) >>, << Assign(x, Wide(4)) >>),
             Node("if", << Node("cas", << b, List(<< Inc(x) >>) >>),
                           Node("cas", << Less(x, y), List(<< Inc(y) >>) >>),
                           Node("cas", << Less(y, x), List(<< Exit >>) >>) >>),
             Assign(x, Cond(Bin("or", b, Less(x, y)), Cond(Not1(b), Wide(5), x), y)) >>

Vars == << Var(<< "x", "y" >>, IntT), Var(<< "b" >>, BoolT) >>

MCPrograms ==
  {Program(Vars, << >>, << Loops[k], Chains[n] >>) :
     k \in DOMAIN Loops, n \in DOMAIN Chains}
  \cup {Program(Vars, << Proc("q", << >>, Vars, << >>, << Chains[n], Loops[k] >>) >>,
                << ExprS(CallE(Id("q"), << >>)) >>) :
          k \in DOMAIN Loops, n \in DOMAIN Chains}

MCCompile(p, l, r) == LET given == p IN CompiledWith(given, l, r)
=============================================================================
