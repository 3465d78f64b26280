---------------------------- MODULE MCToolchain ----------------------------
(***************************************************************************)
(* compile and then execute, on the same programs.  First, programs with a *)
(* constant of every kind, in every order, in functions one inside the     *)
(* other; no function uses a variable or a function of the functions       *)
(* around it.                                                              *)
(***************************************************************************)
EXTENDS Toolchain, Families

MCWideMin == -512

s == Id("s")
Pair(i, j) == Vec(<< IntC(i), IntC(j) >>)
CallOf(f, args) == CallE(Id(f), args)

Constant == << IntC(300), StrC(3), Index(Pair(5, 6), << IntC(1) >>), StrC(1) >>

half == Func("half", << Param("n", IntT, "in") >>, IntT,
             Bin("divide", Id("n"), IntC(2)))
dup  == Func("dup", << Param("n", IntT, "in") >>, VecT(2),
             Vec(<< Id("n"), Bin("times", Id("n"), IntC(3)) >>))

(* say has functions of its own, and constants before and after them.       *)
say(const, mods) ==
  Proc("say", << Param("s", StrT, "in"), Param("n", IntT, "inout") >>,
       << Var(<< "u" >>, VecT(2)) >>, mods,
       << Writeln(<< s, const >>), Assign(Id("u"), CallOf(mods[1].name, << Id("n") >>)),
          Assign(Id("n"), Index(Id("u"), << IntC(1) >>)) >>)

Inner == << << dup >>, << dup, half >> >>
Outer(const, mods) == << << say(const, mods) >>, << half, say(const, mods) >>,
                         << say(const, mods), half >> >>

Template(ch) ==
  Program(<< Var(<< "x" >>, IntT) >>, Outer(Constant[ch[1]], Inner[ch[2]])[ch[3]],
    << ReadS(<< x >>),
       If(Less(x, IntC(2)), << ExprS(CallOf("say", << StrC(3), x >>)) >>),
       Writeln(<< Constant[ch[4]], x >>) >>)

Radices == << 4, 2, 3, 2 >>
MCPrograms == 1 .. ChoiceCount(Radices)

MCImages(k) ==
  LET program == Template(Choice(k, Radices))
  IN  Compiled(program)

-----------------------------------------------------------------------------
(***************************************************************************)
(* And one that does: under run it does one thing, and another under       *)
(* compile and then execute.                                               *)
(***************************************************************************)
OuterPrograms == {"only"}

X == << Var(<< "x" >>, IntT) >>

(* set assigns a variable of the program.                                   *)
set == Proc("set", << >>, << >>, << >>, << Assign(x, IntC(2)) >>)

OuterImages(p) ==
  LET program ==
        Program(X, << set >>,
          << ReadS(<< x >>), ExprS(CallE(Id("set"), << >>)), Writeln(<< x >>) >>)
  IN  Compiled(program)
=============================================================================
