----------------------------- MODULE Reference -----------------------------
(***************************************************************************)
(* What a Yala program means, told from its parse tree alone: variables    *)
(* hold values, a vector is the sequence of its scalars, names are bound   *)
(* statically, arguments are copied in and, where the parameter is out or  *)
(* inout, copied out.  There is no bytecode and no stack.  Run(program,    *)
(* input) is what the program prints and how it ends, given the values it  *)
(* reads.  Compiler and virtual machine together are checked against it.   *)
(*                                                                         *)
(* Every operator maps a store s to a store:                               *)
(*   mem     what each location holds, a sequence of scalars,              *)
(*   frames  the environments functions were declared in,                  *)
(*   in, out the values still to be read, what was printed,                *)
(*   flow    "run", or why execution does not go on here: "break", "halt", *)
(*           "error", "wait" (for input), "undef" (an element nobody       *)
(*           assigned was used), "fuel" (Fuel loop turns and calls made),  *)
(*   res     the value of the expression: type label and scalars, or the   *)
(*           function and its environment.                                 *)
(* An environment env binds names; up is the index of the one around it.   *)
(***************************************************************************)
EXTENDS Syntax, TLC

CONSTANT Fuel

Scalar(base, v) == [ty |-> TypeLabel(base, << >>), v |-> << v >>]
IntR(x)  == Scalar(VAL_INTEGER, IntV(x))
BoolR(b) == Scalar(VAL_BOOLEAN, BoolV(b))

Truth(res) == res.v[1].i # 0
Number(res) == res.v[1].i

Stop(s, flow)   == [s EXCEPT !.flow = flow]
Result(s, res)  == [s EXCEPT !.res = res]
StopIf(s, b, flow) == IF b THEN Stop(s, flow) ELSE s

(* A turn of a loop, a call.                                               *)
Burn(s) == IF s.fuel = 0 THEN Stop(s, "fuel") ELSE [s EXCEPT !.fuel = @ - 1]

(* The number of scalars in a value of dimensions dims.                    *)
Elements(dims) ==
  LET e[k \in 0 .. Len(dims)] == IF k = 0 THEN 1 ELSE e[k - 1] * dims[k]
  IN  e[Len(dims)]

Default(ty) ==
  IF ty.dims # << >> THEN [k \in 1 .. Elements(ty.dims) |-> Junk]
  ELSE CASE ty.base = VAL_BOOLEAN -> << BoolV(FALSE) >>
         [] ty.base = VAL_STRING  -> << StrV(1) >>
         [] OTHER                 -> << IntV(0) >>

-----------------------------------------------------------------------------
(* Names.                                                                  *)

Bound(loc, ty) == [loc |-> loc, ty |-> ty, decl |-> << >>, up |-> 0]

RECURSIVE Binding(_, _, _)
Binding(s, env, name) ==
  IF name \in DOMAIN env.names THEN env.names[name]
  ELSE Binding(s, s.frames[env.up], name)

(* New variables ids of type ty: the store, the environment.               *)
RECURSIVE Declare(_, _, _, _)
Declare(s, env, ids, ty) ==
  IF ids = << >> THEN [s |-> s, env |-> env]
  ELSE Declare([s EXCEPT !.mem = Append(@, Default(ty))],
               [env EXCEPT !.names =
                  (Head(ids) :> Bound(Len(s.mem) + 1, ty)) @@ @],
               Tail(ids), ty)

RECURSIVE DeclareAll(_, _, _)
DeclareAll(s, env, vars) ==
  IF vars = << >> THEN [s |-> s, env |-> env]
  ELSE LET d == Declare(s, env, Head(vars).ids, Head(vars).ty)
       IN  DeclareAll(d.s, d.env, Tail(vars))

-----------------------------------------------------------------------------
(* Vectors.  The scalars of v[i1]..[in] are a segment of those of v.        *)

Outside(dims, ixs) == \E k \in DOMAIN ixs : ixs[k] < 0 \/ ixs[k] >= dims[k]

(* Where the segment begins, row by row.                                   *)
Offset(dims, ixs) ==
  LET o[k \in 0 .. Len(ixs)] ==
        IF k = 0 THEN 0
        ELSE o[k - 1] + ixs[k] * Elements(SubSeq(dims, k + 1, Len(dims)))
  IN  o[Len(ixs)]

Selected(ty, ixs) == TypeLabel(ty.base, SubSeq(ty.dims, Len(ixs) + 1, Len(ty.dims)))

Part(v, ty, ixs) ==
  LET o == Offset(ty.dims, ixs)
  IN  SubSeq(v, o + 1, o + Elements(Selected(ty, ixs).dims))

Overwrite(v, ty, ixs, part) ==
  LET o == Offset(ty.dims, ixs)
  IN  [k \in DOMAIN v |-> IF k - o \in DOMAIN part THEN part[k - o] ELSE v[k]]

HasJunk(v) == \E k \in DOMAIN v : v[k].t = "junk"

-----------------------------------------------------------------------------
RECURSIVE Eval(_, _, _), EvalAll(_, _, _, _), Elems(_, _, _, _)
RECURSIVE Exec(_, _, _), ExecAll(_, _, _), Branches(_, _, _)
RECURSIVE WhileLoop(_, _, _), RepeatLoop(_, _, _), ForLoop(_, _, _, _, _)
RECURSIVE Arguments(_, _, _, _, _), CopyOut(_, _, _, _, _), ReadAll(_, _, _)
RECURSIVE WriteAll(_, _, _)

(* The integers es evaluate to, left to right, in vals.                    *)
EvalAll(s, env, es, vals) ==
  IF es = << >> \/ s.flow # "run" THEN [s |-> s, vals |-> vals]
  ELSE LET e == Eval(s, env, Head(es))
       IN  EvalAll(e, env, Tail(es),
                   IF e.flow = "run" THEN Append(vals, Number(e.res)) ELSE vals)

Arith(op, a, b) ==
  CASE op = "plus"   -> Wrap(a + b)
    [] op = "minus"  -> Wrap(a - b)
    [] op = "times"  -> Wrap(a * b)
    [] op = "divide" -> Wrap(TruncDiv(a, b))

Ordered(op, a, b) ==
  CASE op = "ge" -> a >= b
    [] op = "gt" -> a > b
    [] op = "le" -> a <= b
    [] op = "lt" -> a < b

Binary(s, op, l, r) ==
  LET a == Number(l)
      b == Number(r)
  IN  CASE op \in {"plus", "minus", "times"} -> Result(s, IntR(Arith(op, a, b)))
        [] op = "divide" -> IF b = 0 THEN Stop(s, "error")
                            ELSE Result(s, IntR(Arith(op, a, b)))
        [] op \in {"ge", "gt", "le", "lt"} -> Result(s, BoolR(Ordered(op, a, b)))
        [] op \in {"eq", "neq"} ->
             IF HasJunk(l.v) \/ HasJunk(r.v) THEN Stop(s, "undef")
             ELSE Result(s, BoolR((l.v = r.v) = (op = "eq")))

(* A literal: its scalars in order.                                        *)
Elems(s, env, elems, res) ==
  IF elems = << >> \/ s.flow # "run" THEN Result(s, res)
  ELSE LET e == Eval(s, env, Head(elems))
       IN  IF e.flow # "run" THEN e
           ELSE Elems(e, env, Tail(elems),
                      [ty |-> TypeLabel(e.res.ty.base,
                                << Len(res.v) + 1 >> \o e.res.ty.dims),
                       v |-> res.v \o e.res.v])

Literal(s, env, elems) ==
  LET all == Elems(s, env, elems, [ty |-> IntT, v |-> << >>])
  IN  IF all.flow # "run" THEN all
      ELSE [all EXCEPT !.res.ty.dims[1] = Len(elems)]

(* lhs := val.                                                             *)
Store(s, env, lhs, val) ==
  LET b   == Binding(s, env, lhs_variable(lhs).id)
      ixs == EvalAll(s, env, IF lhs.kind = "index" THEN Tail(lhs.kids)
                             ELSE << >>, << >>)
  IN  IF s.flow # "run" \/ ixs.s.flow # "run" THEN ixs.s
      ELSE IF Outside(b.ty.dims, ixs.vals) THEN Stop(ixs.s, "error")
      ELSE [ixs.s EXCEPT !.mem[b.loc] = Overwrite(@, b.ty, ixs.vals, val)]

TypeOf(s, env, lhs) ==
  LET b == Binding(s, env, lhs_variable(lhs).id)
  IN  IF lhs.kind = "index" THEN Selected(b.ty, Tail(lhs.kids)) ELSE b.ty

(* The arguments: the location of each parameter, a fresh copy.  An out     *)
(* parameter starts from the default, which its argument is set to first.   *)
Arguments(s, env, params, args, locs) ==
  IF args = << >> \/ s.flow # "run" THEN [s |-> s, locs |-> locs]
  ELSE LET arg == Head(args)
           s1  == IF Head(params).mod # "out" THEN s
                  ELSE Store(s, env, arg, Default(TypeOf(s, env, arg)))
           e   == IF s1.flow = "run" THEN Eval(s1, env, arg) ELSE s1
       IN  IF e.flow # "run" THEN [s |-> e, locs |-> locs]
           ELSE Arguments([e EXCEPT !.mem = Append(@, e.res.v)], env,
                          Tail(params), Tail(args), Append(locs, Len(e.mem) + 1))

CopyOut(s, env, params, args, locs) ==
  IF args = << >> \/ s.flow # "run" THEN s
  ELSE CopyOut(IF Head(params).mod = "in" THEN s
               ELSE Store(s, env, Head(args), s.mem[Head(locs)]),
               env, Tail(params), Tail(args), Tail(locs))

(* The body of decl, declared in frames[up], its parameters at locs.        *)
Body(s, decl, up, locs) ==
  LET params == [names |-> [n \in {decl.params[k].id : k \in DOMAIN locs} |->
                   LET k == CHOOSE k \in DOMAIN locs : decl.params[k].id = n
                   IN  Bound(locs[k], decl.params[k].ty)],
                 up |-> up]
      vars == DeclareAll(s, params, decl.vars)
      id   == Len(s.frames) + 1
      fns  == [n \in {decl.mods[k].name : k \in DOMAIN decl.mods} |->
                LET k == CHOOSE k \in DOMAIN decl.mods : decl.mods[k].name = n
                IN  [Bound(0, VoidT) EXCEPT !.decl = decl.mods[k], !.up = id]]
      env  == [vars.env EXCEPT !.names = fns @@ @]
  IN  ExecAll([vars.s EXCEPT !.frames = Append(@, env)], env, decl.body)

Called(s, env, f, args) ==
  LET b   == Binding(s, env, f.id)
      in  == Arguments(Burn(s), env, b.decl.params, args, << >>)
      ret == Body(in.s, b.decl, b.up, in.locs)
      out == CopyOut(ret, env, b.decl.params, args, in.locs)
  IN  IF in.s.flow # "run" THEN in.s ELSE [out EXCEPT !.res = ret.res]

(* if c1 then e1 elsif c2 then e2 ... else e end, for values and for        *)
(* statements.                                                              *)
Branches(s, env, kids) ==
  IF kids = << >> THEN s
  ELSE IF Head(kids).kind # "cas"
  THEN IF Head(kids).kind = "list" THEN Exec(s, env, Head(kids))
       ELSE Eval(s, env, Head(kids))
  ELSE LET c == Eval(s, env, Head(kids).kids[1])
       IN  IF c.flow # "run" THEN c
           ELSE IF Truth(c.res) THEN Branches(c, env, Tail(Head(kids).kids))
           ELSE Branches(c, env, Tail(kids))

Eval(s, env, e) ==
  LET sub(k) == Eval(s, env, e.kids[k])
      l == sub(1)
      r == Eval(l, env, e.kids[2])
  IN  CASE e.kind = "int"    -> Result(s, IntR(e.val))
        [] e.kind = "bool"   -> Result(s, BoolR(e.val = 1))
        [] e.kind = "str"    -> Result(s, Scalar(VAL_STRING, StrV(e.val)))
        [] e.kind = "id"     -> LET b == Binding(s, env, e.id)
                                IN  Result(s, [ty |-> b.ty, v |-> s.mem[b.loc]])
        [] e.kind = "vector" -> Literal(s, env, e.kids)
        [] e.kind = "call"   -> Called(s, env, e.kids[1], Tail(e.kids))
        [] e.kind = "condexpr" -> Branches(s, env, e.kids)
        [] l.flow # "run"    -> l
        [] e.kind = "not"    -> Result(l, BoolR(~Truth(l.res)))
        [] e.kind = "neg"    -> Result(l, IntR(Wrap(-Number(l.res))))
        [] e.kind = "and"    -> IF Truth(l.res) THEN r ELSE l
        [] e.kind = "or"     -> IF Truth(l.res) THEN l ELSE r
        [] e.kind = "index"  ->
             LET ixs  == EvalAll(l, env, Tail(e.kids), << >>)
                 part == Part(l.res.v, l.res.ty, ixs.vals)
                 ty   == Selected(l.res.ty, ixs.vals)
             IN  IF ixs.s.flow # "run" THEN ixs.s
                 ELSE IF Outside(l.res.ty.dims, ixs.vals) THEN Stop(ixs.s, "error")
                 ELSE IF ty.dims = << >> /\ HasJunk(part) THEN Stop(ixs.s, "undef")
                 ELSE Result(ixs.s, [ty |-> ty, v |-> part])
        [] r.flow # "run"    -> r
        [] OTHER             -> Binary(r, e.kind, l.res, r.res)

-----------------------------------------------------------------------------
(* Statements.  A declaration holds for the statements after it.            *)

ExecAll(s, env, stats) ==
  IF stats = << >> \/ s.flow # "run" THEN s
  ELSE IF Head(stats).kind = "var"
  THEN LET d == Declare(s, env, Head(stats).ids, Head(stats).ty)
       IN  ExecAll(d.s, d.env, Tail(stats))
  ELSE ExecAll(Exec(s, env, Head(stats)), env, Tail(stats))

(* The end of a loop's body.                                               *)
Left(s) == IF s.flow = "break" THEN Stop(s, "run") ELSE s

WhileLoop(s, env, node) ==
  LET c    == Eval(Burn(s), env, node.kids[1])
      body == Exec(c, env, node.kids[2])
  IN  IF s.fuel = 0 THEN Stop(s, "fuel")
      ELSE IF c.flow # "run" \/ ~Truth(c.res) THEN c
      ELSE IF body.flow # "run" THEN Left(body)
      ELSE WhileLoop(body, env, node)

RepeatLoop(s, env, node) ==
  LET body == Exec(Burn(s), env, node.kids[1])
      c    == Eval(body, env, node.kids[2])
  IN  IF s.fuel = 0 THEN Stop(s, "fuel")
      ELSE IF body.flow # "run" THEN Left(body)
      ELSE IF c.flow # "run" \/ Truth(c.res) THEN c
      ELSE RepeatLoop(c, env, node)

(* env binds the loop variable, at loc.                                    *)
ForLoop(s, env, loc, limit, body) ==
  LET done == Exec(Burn(s), env, body)
      i    == s.mem[loc][1].i
      next == [done EXCEPT !.mem[loc] = << IntV(i + 1) >>]
  IN  IF i > limit THEN s
      ELSE IF s.fuel = 0 THEN Stop(s, "fuel")
      ELSE IF done.flow # "run" THEN Left(done)
      ELSE ForLoop(next, env, loc, limit, body)

For1(s, env, node) ==
  LET d     == Declare(s, env, << node.kids[1].kids[1].id >>, IntT)
      init  == Exec(d.s, d.env, node.kids[1])
      limit == Eval(init, d.env, node.kids[2])
  IN  IF init.flow # "run" THEN init
      ELSE IF limit.flow # "run" THEN limit
      ELSE ForLoop(limit, d.env, Len(s.mem) + 1, Number(limit.res), node.kids[3])

WriteAll(s, env, es) ==
  LET e == Eval(s, env, Head(es))
      type == IF e.res.ty.dims = << >> THEN e.res.ty.base ELSE VAL_VECTOR
  IN  IF es = << >> \/ s.flow # "run" THEN [s |-> s, out |-> << >>]
      ELSE IF e.flow # "run" THEN [s |-> e, out |-> << >>]
      ELSE LET rest == WriteAll(e, env, Tail(es))
           IN  [rest EXCEPT !.out = << [type |-> type, vals |-> e.res.v] >> \o @]

Printed(s, env, node) ==
  LET w == WriteAll(s, env, node.kids)
      newline == IF node.kind = "writeln"
                 THEN << [type |-> VAL_VOID, vals |-> << >>] >> ELSE << >>
  IN  IF w.s.flow # "run" THEN w.s ELSE [w.s EXCEPT !.out = @ \o w.out \o newline]

ReadAll(s, env, lhss) ==
  IF lhss = << >> \/ s.flow # "run" THEN s
  ELSE IF s.in = << >> THEN Stop(s, "wait")
  ELSE ReadAll(Store([s EXCEPT !.in = Tail(@)], env, Head(lhss), << Head(s.in) >>),
               env, Tail(lhss))

Exec(s, env, node) ==
  LET e == Eval(s, env, node.kids[IF node.kind = "assign" THEN 2 ELSE 1])
  IN  IF s.flow # "run" THEN s ELSE
      CASE node.kind = "list"    -> ExecAll(s, env, node.kids)
        [] node.kind \in {"write", "writeln"} -> Printed(s, env, node)
        [] node.kind = "read"    -> ReadAll(s, env, node.kids)
        [] node.kind = "assign"  ->
             IF e.flow # "run" THEN e
             ELSE Store(e, env, node.kids[1], e.res.v)
        [] node.kind = "if"      -> Branches(s, env, node.kids)
        [] node.kind = "while"   -> WhileLoop(s, env, node)
        [] node.kind = "repeat"  -> RepeatLoop(s, env, node)
        [] node.kind = "for"     -> For1(s, env, node)
        [] node.kind = "expr"    -> e
        [] node.kind = "exit"    -> Stop(s, "halt")
        [] node.kind = "break"   -> Stop(s, "break")
        [] node.kind = "return"  -> IF node.kids = << >> THEN s ELSE e

-----------------------------------------------------------------------------
(* The program: what is left of the store tells how it ends.                *)
Run(program, input) ==
  LET main == [Bound(0, VoidT) EXCEPT !.decl = program, !.up = 1]
      s0 == [mem |-> << >>,
             frames |-> << [names |-> program.name :> main, up |-> 0] >>,
             in |-> input, out |-> << >>, flow |-> "run", res |-> IntR(0),
             fuel |-> Fuel]
      s  == Body(s0, program, 1, << >>)
  IN  [out |-> s.out, flow |-> IF s.flow = "run" THEN "halt" ELSE s.flow]

(* What the machine printed agrees with what is specified: an element       *)
(* nobody assigned may print as anything.                                   *)
SameItem(a, b) ==
  /\ a.type = b.type
  /\ Len(a.vals) = Len(b.vals)
  /\ \A k \in DOMAIN a.vals : b.vals[k].t = "junk" \/ a.vals[k] = b.vals[k]

PrintedSoFar(out, specified) ==
  /\ Len(out) <= Len(specified)
  /\ \A k \in DOMAIN out : SameItem(out[k], specified[k])
=============================================================================
