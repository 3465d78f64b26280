-------------------------- MODULE StackDiscipline --------------------------
(***************************************************************************)
(* What holds of the value stack and the frame stack while a well-formed   *)
(* image runs (see Verifier).  The machine pops, indexes and calls without *)
(* a check: that it stays within its frames rests on the code alone.       *)
(***************************************************************************)
EXTENDS YalaVM, Verifier

Fn(f)      == image.fns[framestack[f].fn]
ShapeOf(f) == Fn(f).shape[framestack[f].ip]

(* The first cell above what frame f holds; for a frame that is waiting for *)
(* a call, without the arguments of the call.                               *)
Height(f) == framestack[f].base + Len(ShapeOf(f))

(* Each frame runs a known object at a known ip, with the envindex of its   *)
(* level, which is that of a live frame: framestack[envindex - offset] is   *)
(* one.  The root has frame 0, the program frame 1.                         *)
FramesKnown ==
  \A f \in 0 .. framese :
    /\ framestack[f].fn \in DOMAIN image.fns
    /\ framestack[f].ip \in DOMAIN Fn(f).shape
    /\ framestack[f].env = Fn(f).level /\ framestack[f].env <= f
    /\ f = 0 <=> framestack[f].fn = 1
    /\ f = 1 => framestack[f].fn = 2

(* The current frame is as high as its shape says.  A calling frame ends    *)
(* where the frame above it begins, and its sp is past the arguments: the   *)
(* return takes them off again.                                             *)
HeightsAgree ==
  /\ \A f \in 0 .. framese :
       /\ framestack[f].base \in Nat
       /\ framestack[f].sp =
            IF f = framese THEN Height(f)
            ELSE framestack[f + 1].base + Fn(f + 1).arity
       /\ f < framese => /\ framestack[f + 1].base = Height(f)
                         /\ Len(ShapeOf(f)) > 0
  /\ SP <= StackMax

(* Frames do not overlap, and each one stands on at least one cell of the   *)
(* frame below it.                                                          *)
FramesStacked ==
  \A f, g \in 0 .. framese :
    /\ f <= framestack[f].base
    /\ f < g => Height(f) <= framestack[g].base

(* Where a shape promises a function, the stack holds it.                   *)
FunctionSlots ==
  \A f \in 0 .. framese : \A k \in 1 .. Len(ShapeOf(f)) :
    LET g == ShapeOf(f)[k]
    IN  g # 0 => stack[framestack[f].base + k - 1] = FnV(g, image.fns[g].level)

(* The program's variables and functions are in place once it has called.   *)
ProgramSlots ==
  framese > 1 =>
    LET slots == image.fns[2].slots
    IN  /\ Len(slots) < Len(ShapeOf(1))
        /\ \A k \in 1 .. Len(slots) : ShapeOf(1)[k] = slots[k]

Discipline == FramesKnown /\ HeightsAgree /\ FramesStacked /\ FunctionSlots
              /\ ProgramSlots

StackDiscipline == status = "run" => Discipline

(* CALL does not check that framestack has room: the frame it enters is at  *)
(* most the one past the last, and from there it calls no further.          *)
FrameLimit ==
  status = "run" /\ InCode(0) /\ Op = OP_CALL => framese < StackMax

-----------------------------------------------------------------------------
(* The frames are the activations of a call, with the cells that the shape  *)
(* of each gives it.                                                        *)
ActiveFrames ==
  IF status = "run"
  THEN [i \in 1 .. framese + 1 |->
          [fn   |-> framestack[i - 1].fn,
           vals |-> [k \in 1 .. Len(ShapeOf(i - 1)) |->
                       stack[framestack[i - 1].base + k - 1]]]]
  ELSE << >>

Calls == INSTANCE Activations WITH frames <- ActiveFrames

(* Frames that share one stack, begin and end in the middle of what another *)
(* one pushed, and move by changing pointers, behave as if each had values  *)
(* of its own (vm.c:367 CALL, vm.c:381 RETURN, vm.c:435 the frame of a      *)
(* local, and every pop).                                                   *)
ImplementsCalls == Calls!Spec

-----------------------------------------------------------------------------
(* A vector on the value stack lies below the top of the array stack, or    *)
(* among the argument copies: what is pushed next does not overwrite it.    *)
(* At a return the result is all that is left, and it has moved to the      *)
(* caller's end of the stack.                                               *)
Held(vec, top) == \/ 0 <= vec.i /\ vec.i + vec.n <= top
                  \/ argasp <= vec.i /\ vec.i + vec.n <= StackMax

VectorsLive ==
  status = "run" =>
    LET returning == Op = OP_RETURN
        top  == IF returning THEN framestack[framese - 1].asp ELSE ASP
        live == IF returning THEN {SP - 1} ELSE 0 .. (SP - 1)
    IN  \A c \in live :
          stack[c].t = "vec" /\ stack[c].n > 0 => Held(stack[c], top)

(* How values are read.  popa, the write of a vector and the taking back of *)
(* an argument lower a stack by the size they find in a union value; each   *)
(* of them finds a vector there.  What is written out is of a type there    *)
(* is, what is put into an element is no vector, and a call finds a         *)
(* function.                                                                *)
ReadAsWritten ==
  status = "run" =>
    /\ Op = OP_POPA => peekv(1).t = "vec"
    /\ Op = OP_POP_TO_ASTACK => peekv(1).t # "vec"
    /\ Op = OP_SET_INDEX_LOCAL_LONG /\ Arg(5) = Arg(6) =>
         peekv(Arg(5) + Arg(6) + 1).t # "vec"
    /\ Op = OP_CALL => peekv(Arg(1) + 1).t = "fn"
    /\ Op = OP_WRITE => \A k \in 1 .. Arg(1) :
         /\ peekv(3 * k - 1).i \in VAL_INTEGER .. VAL_FUNCTION
         /\ peekv(3 * k - 1).i = VAL_VECTOR => peekv(3 * k).t = "vec"
    /\ Op = OP_ARGSTACK_UNLOAD /\ Arg(1) # 0 => argstack[argsp - 1].t = "vec"

(* The region of the array stack that holds argument copies is as large as  *)
(* the vectors on the argument stack, from the top down, and a program ends *)
(* with none; ...                                                           *)
ArgumentsCounted ==
  status = "run" =>
    LET size[k \in 0 .. argsp] ==
          IF k = 0 THEN 0
          ELSE size[k - 1] + (IF argstack[k - 1].t = "vec"
                              THEN argstack[k - 1].n ELSE 0)
    IN  /\ argasp = StackMax - size[argsp]
        /\ Op = OP_HALT => argsp = 0

(* ... and the array stack has not grown into it.                           *)
ArgumentCopies == ArgumentsCounted /\ (status = "run" => ASP <= argasp)
=============================================================================
