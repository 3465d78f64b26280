------------------------------ MODULE Verifier ------------------------------
(***************************************************************************)
(* What the compiler has to promise about the value stack so that the      *)
(* machine, which checks nothing but the upper end of its stacks, keeps to *)
(* it.  A bytecode object carries a shape: for every ip that is reached,   *)
(* what the frame holds above its base, 0 for a value and g for the        *)
(* function with index g.  WellFormed says that the shapes of an image     *)
(* agree with every instruction of it.  This is a specification: the       *)
(* program has no verifier.                                                *)
(***************************************************************************)
EXTENDS Bytecode, Integers, Sequences

(* Operands of the instruction at ip.                                      *)
OpAt(fn, ip)       == fn.code[ip + 1]
ArgAt(fn, ip, k)   == fn.code[ip + 1 + k]
LongAt(fn, ip, k)  == join_bytes(ArgAt(fn, ip, k), ArgAt(fn, ip, k + 1))
NextAt(fn, ip)     == ip + 1 + OperandBytes(OpAt(fn, ip))

LoadOps   == {OP_LOCI_LONG, OP_LOCS_LONG, OP_LOCF_LONG}
PushOps   == {OP_LOC_ALINK_LONG, OP_PUSH_BYTE, OP_ZERO, OP_ONE, OP_TRUE,
              OP_FALSE, OP_EMPTY_STRING, OP_READ, OP_ARGSTACK_PEEK}
BinaryOps == {OP_ADDI, OP_SUBI, OP_MULI, OP_DIVI, OP_GRT, OP_GRTEQ, OP_LT,
              OP_LEQ, OP_EQUA}
DropOps   == {OP_POPV, OP_POPA, OP_POP_TO_ASTACK, OP_ASTACK_SHIFT_UP,
              OP_SET_LOCAL_LONG}

(* How many values the instruction takes off the stack.                    *)
Pops(fn, ip) ==
  LET op == OpAt(fn, ip)
  IN  IF op \in BinaryOps THEN 2
      ELSE IF op \in DropOps \cup {OP_NOT} THEN 1
      ELSE IF op = OP_GET_INDEX THEN ArgAt(fn, ip, 1) + ArgAt(fn, ip, 2) + 1
      ELSE IF op = OP_SET_INDEX_LOCAL_LONG
      THEN ArgAt(fn, ip, 5) + ArgAt(fn, ip, 6) + 1
      ELSE IF op = OP_WRITE THEN 3 * ArgAt(fn, ip, 1)
      ELSE IF op = OP_CALL  THEN ArgAt(fn, ip, 1) + 1
      ELSE 0

(* How many values it has to find there.                                   *)
Needs(fn, ip) ==
  IF OpAt(fn, ip) \in {OP_SKIPF_LONG, OP_SHIFT_ASTACKENT_TO_BASE, OP_RETURN}
  THEN 1 ELSE Pops(fn, ip)

(* The variable slot k of the environment level levels up from the root, as *)
(* far as every frame of that level is known to hold it.                    *)
OuterSlot(img, level, k) ==
  IF level = 0 /\ k = 0 THEN 2
  ELSE IF level = 1 /\ k < Len(img.fns[2].slots) THEN img.fns[2].slots[k + 1]
  ELSE 0

(* What it pushes: << >> or the shape of one value.                        *)
Pushes(img, f, ip) ==
  LET fn  == img.fns[f]
      op  == OpAt(fn, ip)
      off == LongAt(fn, ip, 1)
      k   == LongAt(fn, ip, 3)
      val == fn.constants[off + 1]
  IN  IF op \in LoadOps THEN << IF val.t = "fn" THEN val.i ELSE 0 >>
      ELSE IF op = OP_GET_LOCAL_LONG
      THEN << IF off = 0 THEN fn.shape[ip][k + 1]
              ELSE OuterSlot(img, fn.level - off, k) >>
      ELSE IF op \in PushOps \cup BinaryOps
                       \cup {OP_NOT, OP_GET_INDEX, OP_CALL} THEN << 0 >>
      ELSE << >>

After(img, f, ip) ==
  LET s == img.fns[f].shape[ip]
  IN  SubSeq(s, 1, Len(s) - Pops(img.fns[f], ip)) \o Pushes(img, f, ip)

(* Where control goes.                                                     *)
Targets(fn, ip) ==
  LET op   == OpAt(fn, ip)
      next == NextAt(fn, ip)
  IN  IF op = OP_SKIP_LONG THEN {next + LongAt(fn, ip, 1)}
      ELSE IF op = OP_SKIPF_LONG THEN {next, next + LongAt(fn, ip, 1)}
      ELSE IF op = OP_SKIP_BACK_LONG THEN {next - LongAt(fn, ip, 1)}
      ELSE IF op \in {OP_HALT, OP_RETURN} THEN {}
      ELSE {next}

-----------------------------------------------------------------------------
(* A frame of shape s may be taken for one of shape t.                     *)
Fits(s, t) == Len(s) = Len(t) /\ \A k \in 1 .. Len(s) : t[k] \in {0, s[k]}

(* The instruction lies within the code.                                   *)
InCodeAt(fn, ip) ==
  /\ ip + 1 \in DOMAIN fn.code
  /\ OpAt(fn, ip) \in Opcodes
  /\ ip + 1 + OperandBytes(OpAt(fn, ip)) \in DOMAIN fn.code

(* A load finds its constant, a local access its slot; no function slot is  *)
(* assigned; beyond its own frame, a function assigns to the program's      *)
(* variables only.                                                          *)
AddressOK(img, f, ip) ==
  LET fn  == img.fns[f]
      s   == fn.shape[ip]
      op  == OpAt(fn, ip)
      off == LongAt(fn, ip, 1)
      k   == LongAt(fn, ip, 3)
  IN  /\ op \in LocOpcodes => off + 1 \in DOMAIN fn.constants
      /\ op \in {OP_GET_LOCAL_LONG, OP_SET_LOCAL_LONG} => off <= fn.level
      /\ op = OP_GET_LOCAL_LONG /\ off = 0 => k < Len(s)
      /\ op = OP_SET_LOCAL_LONG =>
           IF off = 0 THEN k + 1 < Len(s) /\ s[k + 1] = 0
           ELSE /\ fn.level - off = 1
                /\ k < Len(img.fns[2].slots)
                /\ img.fns[2].slots[k + 1] = 0

(* The callee is known and takes as many arguments as the call passes; the  *)
(* root calls the program and holds nothing else; the program calls nothing *)
(* before its variables and functions are in place.                         *)
CallOK(img, f, ip) ==
  LET fn    == img.fns[f]
      s     == fn.shape[ip]
      arity == ArgAt(fn, ip, 1)
      g     == s[Len(s) - arity]
      back  == fn.shape[NextAt(fn, ip)]
      slots == img.fns[2].slots
  IN  OpAt(fn, ip) = OP_CALL =>
        /\ g # 0
        /\ img.fns[g].arity = arity
        /\ f = 1 => s = << 2 >>
        /\ f = 2 => /\ Len(slots) < Len(back)
                    /\ \A k \in 1 .. Len(slots) : back[k] = slots[k]

ReturnOK(img, f, ip) ==
  LET fn == img.fns[f]
  IN  /\ OpAt(fn, ip) = OP_RETURN =>
           f # 1 /\ ArgAt(fn, ip, 1) = fn.arity
      /\ OpAt(fn, ip) = OP_SHIFT_ASTACKENT_TO_BASE =>
           f # 1 /\ fn.shape[ip][Len(fn.shape[ip])] = 0

InstructionOK(img, f, ip) ==
  LET fn == img.fns[f]
  IN  /\ InCodeAt(fn, ip)
      /\ Needs(fn, ip) <= Len(fn.shape[ip])
      /\ AddressOK(img, f, ip)
      /\ CallOK(img, f, ip)
      /\ ReturnOK(img, f, ip)
      /\ \A t \in Targets(fn, ip) :
           t \in DOMAIN fn.shape /\ Fits(After(img, f, ip), fn.shape[t])

(* The objects of an image: the root, the program, its functions.  What a   *)
(* frame holds are functions of its own level, of the next one, in which    *)
(* its own functions are, or of levels further out.                         *)
HeaderOK(img, f) ==
  LET fn == img.fns[f]
  IN  /\ fn.arity \in Nat
      /\ fn.level \in Nat
      /\ fn.level = 0 <=> f = 1
      /\ fn.level = 1 <=> f = 2
      /\ fn.slots \in Seq(Nat)
      /\ 0 \in DOMAIN fn.shape
      /\ fn.shape[0] = [k \in 1 .. fn.arity |-> 0]
      /\ \A ip \in DOMAIN fn.shape :
           /\ ip \in Nat
           /\ fn.shape[ip] \in Seq({0} \cup (DOMAIN img.fns \ {1}))
           /\ \A k \in 1 .. Len(fn.shape[ip]) :
                LET g == fn.shape[ip][k]
                IN  g # 0 => img.fns[g].level <= fn.level + 1
      /\ \A k \in DOMAIN fn.constants :
           LET val == fn.constants[k]
           IN  val.t = "fn" => /\ val.i \in DOMAIN img.fns \ {1}
                               /\ val.n = img.fns[val.i].level

WellFormed(img) ==
  /\ 2 \in DOMAIN img.fns
  /\ img.fns[1].arity = 0
  /\ \A f \in DOMAIN img.fns :
       /\ HeaderOK(img, f)
       /\ \A ip \in DOMAIN img.fns[f].shape : InstructionOK(img, f, ip)
-----------------------------------------------------------------------------
(***************************************************************************)
(* What the compiler has to promise about the array stack and the argument  *)
(* stack, for which a shape is not enough.  views[f] describes object f:    *)
(*   held   the kinds of its parameters, variables and functions,           *)
(*   gives  the kind of its result,                                         *)
(*   outs   what it leaves on the argument stack, 1 for a vector,           *)
(*   blind  whether it leaves the argument stack and the locals of other    *)
(*          functions alone, the program's variables excepted,              *)
(*   reach  how many cells of the function around it it may look at,        *)
(*   at     for every ip that is reached, the kinds of what the frame       *)
(*          holds, how many cells on the array stack belong to no vector    *)
(*          yet (loose), and what the argument stack holds (args).          *)
(* A kind is a number >= 0 where that is the integer the value stands for,  *)
(* and otherwise one of these.                                              *)
(***************************************************************************)
AnyKind == -1   \* if it is a vector, no vector built later overlaps it
ScalarKind  == -2   \* no vector
Temp    == -3   \* a vector that lies above all that came before it
Copied  == -4   \* a vector among the copies of arguments
Moved   == -5   \* the result, a vector at the caller's end of the array stack

IsScalar(kind) == kind = ScalarKind \/ kind >= 0

(* A value of kind a may be taken for one of kind b.                        *)
KindFits(a, b) ==
  \/ a = b
  \/ b = AnyKind /\ a \notin {Copied, Moved}
  \/ b = ScalarKind /\ a >= 0

(* The variable slot k that a function finds offset levels out.             *)
OuterKind(views, level, k) ==
  IF level = 0 THEN ScalarKind
  ELSE IF level = 1 THEN views[2].held[k + 1]
  ELSE AnyKind

(* The kind of what the instruction pushes; of a function that is called    *)
(* what the shape says.                                                     *)
PushedKind(img, views, f, ip) ==
  LET fn   == img.fns[f]
      view == views[f].at[ip]
      op   == OpAt(fn, ip)
      off  == LongAt(fn, ip, 1)
      k    == LongAt(fn, ip, 3)
      val  == fn.constants[off + 1]
      s    == fn.shape[ip]
  IN  CASE op \in LoadOps -> IF val.t = "int" /\ val.i >= 0 THEN val.i ELSE ScalarKind
        [] op = OP_PUSH_BYTE -> ArgAt(fn, ip, 1)
        [] op = OP_ZERO -> 0
        [] op = OP_ONE  -> 1
        [] op = OP_LOC_ALINK_LONG -> Temp
        [] op = OP_GET_LOCAL_LONG ->
             IF off # 0 THEN OuterKind(views, fn.level - off, k)
             ELSE IF IsScalar(view.kinds[k + 1]) THEN ScalarKind ELSE AnyKind
        [] op = OP_GET_INDEX ->
             IF ArgAt(fn, ip, 1) = ArgAt(fn, ip, 2) THEN ScalarKind ELSE Temp
        [] op = OP_CALL -> views[s[Len(s) - ArgAt(fn, ip, 1)]].gives
        [] op = OP_ARGSTACK_PEEK ->
             IF view.args[Len(view.args)] = 1 THEN Copied ELSE ScalarKind
        [] OTHER -> ScalarKind

(* What is known after the instruction of the values the frame holds, ...   *)
KindsAfter(img, views, f, ip) ==
  LET fn    == img.fns[f]
      op    == OpAt(fn, ip)
      kinds == views[f].at[ip].kinds
      below == SubSeq(kinds, 1, Len(kinds) - Pops(fn, ip))
  IN  IF op = OP_SET_LOCAL_LONG /\ LongAt(fn, ip, 1) = 0
      THEN [below EXCEPT ![LongAt(fn, ip, 3) + 1] = ScalarKind]
      ELSE IF op = OP_SHIFT_ASTACKENT_TO_BASE
      THEN [below EXCEPT ![Len(kinds)] = Moved]
      ELSE IF Pushes(img, f, ip) = << >> THEN below
      ELSE below \o << PushedKind(img, views, f, ip) >>

(* ... of the cells that belong to no vector, ...                           *)
LooseAfter(img, views, f, ip) ==
  LET fn    == img.fns[f]
      op    == OpAt(fn, ip)
      view  == views[f].at[ip]
      kinds == view.kinds
  IN  IF op = OP_POP_TO_ASTACK THEN view.loose + 1
      ELSE IF op = OP_ASTACK_SHIFT_UP THEN view.loose + kinds[Len(kinds)]
      ELSE IF op \in {OP_LOC_ALINK_LONG, OP_GET_INDEX, OP_CALL}
              /\ PushedKind(img, views, f, ip) = Temp THEN 0
      ELSE view.loose

(* ... and of the argument stack.                                           *)
ArgsAfter(img, views, f, ip) ==
  LET fn   == img.fns[f]
      op   == OpAt(fn, ip)
      args == views[f].at[ip].args
      s    == fn.shape[ip]
      g    == s[Len(s) - ArgAt(fn, ip, 1)]
  IN  IF op = OP_ARGSTACK_LOAD THEN Append(args, ArgAt(fn, ip, 2))
      ELSE IF op = OP_ARGSTACK_UNLOAD THEN SubSeq(args, 1, Len(args) - 1)
      ELSE IF op = OP_CALL /\ ~views[g].blind THEN views[g].outs
      ELSE args

NoneIn(kind, kinds) == \A k \in 1 .. Len(kinds) : kinds[k] # kind

(* A vector is made of cells that belong to none; only scalars go to the    *)
(* array stack one by one; what is taken off again is a temporary.          *)
ElementsOK(img, views, f, ip) ==
  LET fn    == img.fns[f]
      op    == OpAt(fn, ip)
      view  == views[f].at[ip]
      kinds == view.kinds
      n     == Len(kinds)
      below == n - Pops(fn, ip)
      val   == fn.constants[LongAt(fn, ip, 1) + 1]
  IN  /\ op \in LoadOps => val.t # "vec"
      /\ op = OP_LOC_ALINK_LONG => val.n \in 0 .. view.loose
      /\ op = OP_POP_TO_ASTACK => IsScalar(kinds[n])
      /\ op = OP_ASTACK_SHIFT_UP => kinds[n] >= 0
      /\ op = OP_POPA => kinds[n] = Temp
      /\ op = OP_GET_INDEX => ArgAt(fn, ip, 1) <= ArgAt(fn, ip, 2)
      /\ op = OP_SET_INDEX_LOCAL_LONG /\ ArgAt(fn, ip, 5) = ArgAt(fn, ip, 6) =>
           IsScalar(kinds[below + 1])
      /\ op = OP_WRITE =>
           \A k \in 1 .. ArgAt(fn, ip, 1) :
             /\ kinds[below + 3 * k - 1] \in VAL_INTEGER .. VAL_FUNCTION
             /\ kinds[below + 3 * k - 1] = VAL_VECTOR <=>
                  kinds[below + 3 * k - 2] = Temp

(* A variable is never given a vector; what is read from further out is     *)
(* known to be there and is no copy of an argument.                         *)
VariablesOK(img, views, f, ip) ==
  LET fn    == img.fns[f]
      op    == OpAt(fn, ip)
      kinds == views[f].at[ip].kinds
      off   == LongAt(fn, ip, 1)
      k     == LongAt(fn, ip, 3)
      level == fn.level - off
  IN  /\ op = OP_GET_LOCAL_LONG =>
           IF off = 0 THEN kinds[k + 1] # Copied
           ELSE \/ level = 0 /\ k = 0
                \/ level = 1 /\ k < Len(views[2].held)
                \/ /\ level > 1 /\ off = 1
                   /\ ~views[f].blind /\ k < views[f].reach
      /\ op = OP_SET_LOCAL_LONG =>
           /\ IsScalar(kinds[Len(kinds)])
           /\ off # 0 => views[2].held[k + 1] = ScalarKind

(* The callee is given what it takes, and the caller knows what it gets.    *)
PassingOK(img, views, f, ip) ==
  LET fn    == img.fns[f]
      view  == views[f].at[ip]
      s     == fn.shape[ip]
      below == Len(s) - ArgAt(fn, ip, 1)
      g     == s[below]
      back  == views[f].at[NextAt(fn, ip)]
  IN  OpAt(fn, ip) = OP_CALL =>
        /\ \A k \in 1 .. ArgAt(fn, ip, 1) :
             KindFits(view.kinds[below + k], views[g].held[k])
        /\ views[f].blind => views[g].blind
        /\ ~views[g].blind => view.args = << >> /\ NoneIn(Copied, back.kinds)
        /\ views[g].reach <= below
        /\ f = 2 => \A k \in 1 .. Len(views[2].held) :
                      IF views[2].held[k] = ScalarKind THEN back.kinds[k] = ScalarKind
                      ELSE back.kinds[k] # Copied

(* Where a result that has moved is, the function returns; so it does with  *)
(* its out and inout parameters, which the caller unloads in turn.          *)
ArgumentsOK(img, views, f, ip) ==
  LET fn    == img.fns[f]
      op    == OpAt(fn, ip)
      view  == views[f].at[ip]
      kinds == view.kinds
      n     == Len(kinds)
      slot  == ArgAt(fn, ip, 1) + 1
  IN  /\ op # OP_RETURN => NoneIn(Moved, kinds)
      /\ op = OP_RETURN => /\ KindFits(kinds[n], IF views[f].gives = Temp
                                                 THEN Moved ELSE ScalarKind)
                           /\ view.args = views[f].outs
      /\ op \in {OP_ARGSTACK_LOAD, OP_ARGSTACK_PEEK, OP_ARGSTACK_UNLOAD, OP_HALT} =>
           ~views[f].blind
      /\ op = OP_ARGSTACK_LOAD =>
           /\ slot <= n
           /\ ArgAt(fn, ip, 2) \in {0, 1}
           /\ ArgAt(fn, ip, 2) = 0 => IsScalar(kinds[slot])
      /\ op \in {OP_ARGSTACK_PEEK, OP_ARGSTACK_UNLOAD} => view.args # << >>
      /\ op = OP_ARGSTACK_UNLOAD =>
           /\ ArgAt(fn, ip, 1) = view.args[Len(view.args)]
           /\ NoneIn(Copied, kinds)
      /\ op = OP_HALT => view.args = << >>

ViewAfterOK(img, views, f, ip) ==
  LET kinds == KindsAfter(img, views, f, ip)
  IN  \A t \in Targets(img.fns[f], ip) :
        LET view == views[f].at[t]
        IN  /\ \A k \in 1 .. Len(kinds) : KindFits(kinds[k], view.kinds[k])
            /\ view.loose <= LooseAfter(img, views, f, ip)
            /\ view.args = ArgsAfter(img, views, f, ip)

ViewOK(img, views, f, ip) ==
  LET view == views[f].at[ip]
  IN  /\ view.kinds \in Seq(Int) /\ Len(view.kinds) = Len(img.fns[f].shape[ip])
      /\ \A k \in 1 .. Len(view.kinds) : view.kinds[k] >= Moved
      /\ view.loose \in Nat
      /\ view.args \in Seq({0, 1})

ViewHeaderOK(img, views, f) ==
  LET held  == views[f].held
      entry == views[f].at[0]
  IN  /\ held \in Seq({AnyKind, ScalarKind})
      /\ img.fns[f].arity <= Len(held) /\ Len(held) = Len(img.fns[f].slots)
      /\ views[f].gives \in {ScalarKind, Temp}
      /\ views[f].reach \in Nat
      /\ \A k \in 1 .. img.fns[f].arity : entry.kinds[k] = held[k]
      /\ entry.loose = 0 /\ entry.args = << >>

(* The views agree with every instruction of a well-formed image.           *)
ArraysWellFormed(img, views) ==
  \A f \in DOMAIN img.fns :
    /\ ViewHeaderOK(img, views, f)
    /\ \A ip \in DOMAIN img.fns[f].shape :
         /\ ViewOK(img, views, f, ip)
         /\ ElementsOK(img, views, f, ip)
         /\ VariablesOK(img, views, f, ip)
         /\ PassingOK(img, views, f, ip)
         /\ ArgumentsOK(img, views, f, ip)
         /\ ViewAfterOK(img, views, f, ip)
=============================================================================
