------------------------------- MODULE Syntax -------------------------------
(***************************************************************************)
(* The parse tree that frontend/parser.c hands to semantics/semantics.c,   *)
(* for the programs the parser accepts.  struct tree_node has fixed        *)
(* children left, right, child and a chain next; here the children of a    *)
(* node are one sequence, in the order in which the compiler visits them.  *)
(* Names are strings; a token's position in the text is left out.          *)
(***************************************************************************)
EXTENDS Values, SequencesExt

(* A type label: rank 0 is the scalar type base.                           *)
TypeLabel(base, dims) == [base |-> base, dims |-> dims]
IntT   == TypeLabel(VAL_INTEGER, << >>)
BoolT  == TypeLabel(VAL_BOOLEAN, << >>)
StrT   == TypeLabel(VAL_STRING, << >>)
VoidT  == TypeLabel(VAL_VOID, << >>)    \* no type label where one is optional
VecT(n) == TypeLabel(VAL_INTEGER, << n >>)

(* kind, children, name, literal value, type label, names declared.        *)
Node(kind, kids) ==
  [kind |-> kind, kids |-> kids, id |-> "", val |-> 0, ty |-> VoidT,
   ids |-> << >>]

(* Expressions.                                                            *)
IntC(x)      == [Node("int", << >>)  EXCEPT !.val = x]
BoolC(b)     == [Node("bool", << >>) EXCEPT !.val = IF b THEN 1 ELSE 0]
StrC(s)      == [Node("str", << >>)  EXCEPT !.val = s]
Id(name)     == [Node("id", << >>)   EXCEPT !.id = name]
Bin(op, l, r) == Node(op, << l, r >>)
Not1(e)      == Node("not", << e >>)
Neg(e)       == Node("neg", << e >>)
Vec(elems)   == Node("vector", elems)
Index(v, ix) == Node("index", << v >> \o ix)
CallE(f, args) == Node("call", << f >> \o args)
Cond(c, t, e) == Node("condexpr", << Node("cas", << c, t >>), e >>)

(* Statements.                                                             *)
List(stats)  == Node("list", stats)
Var(ids, ty) == [Node("var", << >>) EXCEPT !.ids = ids, !.ty = ty]
Writeln(es)  == Node("writeln", es)
WriteS(es)   == Node("write", es)
ReadS(vs)    == Node("read", vs)
Assign(l, e) == Node("assign", << l, e >>)
If(c, s)     == Node("if", << Node("cas", << c, List(s) >>) >>)
IfElse(c, s, t) == Node("if", << Node("cas", << c, List(s) >>), List(t) >>)
While(c, s)  == Node("while", << c, List(s) >>)
Repeat(s, c) == Node("repeat", << List(s), c >>)
For(i, from, to, s) ==
  Node("for", << Assign(Id(i), from), to, List(s) >>)
ExprS(e)     == Node("expr", << e >>)
Exit         == Node("exit", << >>)
Break        == Node("break", << >>)
ReturnS(es)  == Node("return", es)

(* Parameters and modules.  A body ends in the return the parser appends.  *)
Param(id, ty, mod) == [id |-> id, ty |-> ty, mod |-> mod]

Proc(name, params, vars, mods, stats) ==
  [kind |-> "procedure", name |-> name, params |-> params, ret |-> VoidT,
   vars |-> vars, mods |-> mods, body |-> Append(stats, ReturnS(<< >>))]

Func(name, params, ret, e) ==
  [kind |-> "function", name |-> name, params |-> params, ret |-> ret,
   vars |-> << >>, mods |-> << >>, body |-> << ReturnS(<< e >>) >>]

Program(vars, mods, stats) ==
  [Proc("main", << >>, vars, mods, stats) EXCEPT !.kind = "program"]

(* lhs_variable.                                                           *)
lhs_variable(lhs) == IF lhs.kind = "index" THEN lhs.kids[1] ELSE lhs
=============================================================================
