---------------------------- MODULE VectorFamily ----------------------------
(***************************************************************************)
(* Vectors: copies between variables, rows of a matrix, temporaries, the   *)
(* results and the arguments of calls; indices out of range; elements that *)
(* nobody assigned.                                                        *)
(***************************************************************************)
EXTENDS Families

v == Id("v")
w == Id("w")
m == Id("m")
At(u, i)  == Index(u, << IntC(i) >>)
Row(i)    == At(m, i)
Pair(i, j) == Vec(<< IntC(i), IntC(j) >>)
CallOf(f, args) == CallE(Id(f), args)
Matrix == TypeLabel(VAL_INTEGER, << 2, 2 >>)

mk  == Func("mk", << Param("n", IntT, "in") >>, VecT(2),
            Vec(<< Id("n"), Bin("times", Id("n"), IntC(2)) >>))
same == Func("same", << Param("u", VecT(2), "in") >>, VecT(2), Id("u"))
tot == Func("tot", << Param("u", VecT(2), "in") >>, IntT,
            Bin("plus", At(Id("u"), 0), At(Id("u"), 1)))
sw  == Proc("sw", << Param("s", VecT(2), "inout"), Param("t", VecT(2), "inout") >>,
            << Var(<< "z" >>, VecT(2)) >>, << >>,
            << Assign(Id("z"), Id("s")), Assign(Id("s"), Id("t")),
               Assign(Id("t"), Id("z")) >>)
fill == Proc("fill", << Param("u", VecT(2), "out") >>, << >>, << >>,
             << Assign(At(Id("u"), 1), x) >>)

Statement ==
  << Assign(Row(0), v),
     Assign(v, Index(m, << x >>)),
     Assign(v, CallOf("mk", << x >>)),
     Assign(v, CallOf("same", << Row(1) >>)),
     ExprS(CallOf("sw", << v, Row(0) >>)),
     ExprS(CallOf("sw", << v, v >>)),
     ExprS(CallOf("fill", << w >>)),
     Assign(Index(v, << x >>), CallOf("tot", << v >>)),
     Assign(m, Vec(<< Pair(11, 12), Pair(13, 14) >>)),
     Assign(Index(m, << IntC(1), Bin("minus", IntC(1), x) >>), At(v, 0)),
     If(Bin("eq", v, Row(1)),
        << Var(<< "u" >>, VecT(2)), Assign(Id("u"), v), Assign(v, Row(0)),
           Assign(At(v, 0), At(Id("u"), 1)) >>),
     Assign(v, Cond(Less(x, IntC(1)), CallOf("mk", << IntC(3) >>), v)),
     For("i", IntC(0), IntC(1), << Assign(Index(v, << Id("i") >>), Id("i")) >>),
     Writeln(<< Row(1), CallOf("mk", << IntC(1) >>), At(v, 1) >>),
     Writeln(<< Index(CallOf("same", << v >>), << x >>) >>) >>

Member(ch) ==
  Program(<< Var(<< "x" >>, IntT), Var(<< "v", "w" >>, VecT(2)),
             Var(<< "m" >>, Matrix) >>,
    << mk, same, tot, sw, fill >>,
    << Assign(v, Pair(1, 2)), Assign(w, Pair(7, 8)), Assign(m, Vec(<< Pair(3, 4), Pair(5, 6) >>)),
       ReadS(<< x >>), Statement[ch[1]], Statement[ch[2]],
       Writeln(<< At(v, 0), At(v, 1) >>), Writeln(<< Row(0), Row(1) >>),
       Writeln(<< At(w, 1), At(w, 0) >>) >>)

(* The second statement does not come before the first in the list, where   *)
(* those that only look stand last.                                         *)
Members == {ch \in (DOMAIN Statement) \X (DOMAIN Statement) : ch[1] <= ch[2]}
=============================================================================
