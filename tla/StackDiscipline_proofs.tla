----------------------- MODULE StackDiscipline_proofs -----------------------
(***************************************************************************)
(* A well-formed image keeps the stack discipline: for every image, every  *)
(* size of the stacks and every width of the integers.                     *)
(*                                                                         *)
(* The inductive invariant is DInv.  For a handler that stays in its frame *)
(* it is enough to know where the frame goes on, how high it is then, and  *)
(* that no cell is overwritten in which a shape promises a function        *)
(* (GoesOn, StepKeeps); the lemmas PushStep, DropStep and StoreStep give   *)
(* that for what handlers do to the stack, and one lemma for each group of *)
(* actions applies them.  Calls and returns change the frames and are      *)
(* proved on their own.                                                    *)
(***************************************************************************)
EXTENDS StackDiscipline, YalaVM_proofs

(* What the frames need beyond Discipline.  The slot of a caller's shape    *)
(* that will hold the result promises no function.                          *)
ResultSlots ==
  \A f \in 0 .. framese - 1 : ShapeOf(f)[Len(ShapeOf(f))] = 0

(* The root pushes the program, and calls it: it stays below its frame.     *)
ProgramCell ==
  /\ framestack[0].base = 0
  /\ framese > 0 => stack[0] = FnV(2, image.fns[2].level)

FrameInv == Discipline /\ ResultSlots /\ ProgramCell

(* A handler that ends the loop may leave the frames as it likes.           *)
DInv == IInv /\ WellFormed(image) /\ (status = "run" => FrameInv)

-----------------------------------------------------------------------------
(* Shapes.                                                                 *)

(* The lower part of a sequence.                                            *)
LEMMA TakenOff ==
  ASSUME NEW T, NEW s \in Seq(T), NEW n \in Nat, n <= Len(s)
  PROVE  /\ SubSeq(s, 1, n) \in Seq(T) /\ Len(SubSeq(s, 1, n)) = n
         /\ \A k \in 1 .. n : SubSeq(s, 1, n)[k] = s[k]
OBVIOUS

(* One more value goes to the end of a sequence.                            *)
LEMMA PushedOn ==
  ASSUME NEW T, NEW q \in Seq(T), NEW x \in T
  PROVE  /\ Len(q \o << x >>) = Len(q) + 1
         /\ \A k \in 1 .. Len(q) : (q \o << x >>)[k] = q[k]
         /\ (q \o << x >>)[Len(q) + 1] = x
OBVIOUS

(* What a running machine knows of the instruction it executes.             *)
LEMMA CurrentFacts ==
  ASSUME DInv, status = "run"
  PROVE  /\ Frame.fn \in DOMAIN image.fns /\ Fn(framese) = image.fns[Frame.fn]
         /\ IP \in DOMAIN Fn(framese).shape
         /\ ShapeOf(framese) = Fn(framese).shape[IP]
         /\ HeaderOK(image, Frame.fn) /\ InstructionOK(image, Frame.fn, IP)
         /\ ShapeOf(framese) \in Seq({0} \cup (DOMAIN image.fns \ {1}))
         /\ Len(ShapeOf(framese)) \in Nat
         /\ Frame.base \in Nat
         /\ SP = Frame.base + Len(ShapeOf(framese)) /\ SP <= StackMax
         /\ framese \in Nat
<1>1. framese \in 0 .. framese /\ framese \in Nat
  BY SizesAssumption DEF DInv, IInv, TypeOK, FrameIndex
<1>2. /\ framestack[framese].fn \in DOMAIN image.fns
      /\ framestack[framese].ip \in DOMAIN Fn(framese).shape
  BY <1>1 DEF DInv, FrameInv, Discipline, FramesKnown
<1>3. /\ framestack[framese].base \in Nat
      /\ framestack[framese].sp = Height(framese) /\ SP <= StackMax
  BY <1>1 DEF DInv, FrameInv, Discipline, HeightsAgree
<1>4. /\ HeaderOK(image, framestack[framese].fn)
      /\ InstructionOK(image, framestack[framese].fn, framestack[framese].ip)
  BY <1>2 DEF DInv, WellFormed, Fn
<1>5. ShapeOf(framese) \in Seq({0} \cup (DOMAIN image.fns \ {1}))
  BY <1>2, <1>4 DEF HeaderOK, ShapeOf, Fn
<1>6. Len(ShapeOf(framese)) \in Nat
  BY ONLY <1>5
<1>7. SP = Frame.base + Len(ShapeOf(framese)) /\ SP <= StackMax /\ Frame.base \in Nat
  BY ONLY <1>3 DEF Frame, SP, Height
<1>8. ShapeOf(framese) = Fn(framese).shape[IP] /\ Fn(framese) = image.fns[Frame.fn]
  BY DEF ShapeOf, Fn, Frame, IP
<1> QED
  BY ONLY <1>1, <1>2, <1>4, <1>5, <1>6, <1>7, <1>8 DEF Frame, IP

(* The verifier reads the instruction as the machine does.                  *)
LEMMA SameInstruction ==
  LET fn == image.fns[Frame.fn]
  IN  /\ OpAt(fn, IP) = Op /\ NextAt(fn, IP) = NextIP
      /\ \A k : ArgAt(fn, IP, k) = Arg(k) /\ LongAt(fn, IP, k) = ArgLong(k)
BY DEF OpAt, Op, NextAt, NextIP, ArgAt, Arg, LongAt, ArgLong, Code

(* The shape after an instruction that pops p values and pushes x, or       *)
(* nothing.                                                                 *)
LEMMA AfterPush ==
  ASSUME DInv, status = "run", NEW x, Pushes(image, Frame.fn, IP) = << x >>,
         NEW p \in Nat, Pops(Fn(framese), IP) = p, p <= Len(ShapeOf(framese)),
         NEW after, after = After(image, Frame.fn, IP)
  PROVE  /\ Len(after) = Len(ShapeOf(framese)) - p + 1
         /\ \A k \in 1 .. Len(ShapeOf(framese)) - p :
              after[k] = ShapeOf(framese)[k]
         /\ after[Len(ShapeOf(framese)) - p + 1] = x
<1> DEFINE T == {0} \cup (DOMAIN image.fns \ {1}) \cup {x}
           s == ShapeOf(framese)
           n == Len(s) - p
<1>1. s \in Seq(T) /\ n \in Nat /\ n <= Len(s) /\ x \in T
  BY CurrentFacts
<1>2. after = SubSeq(s, 1, n) \o << x >>
  BY CurrentFacts DEF After
<1> HIDE DEF T, s, n
<1>3. /\ SubSeq(s, 1, n) \in Seq(T) /\ Len(SubSeq(s, 1, n)) = n
      /\ \A k \in 1 .. n : SubSeq(s, 1, n)[k] = s[k]
  BY <1>1, TakenOff
<1>4. Len(after) = n + 1 /\ (\A k \in 1 .. n : after[k] = s[k])
      /\ after[n + 1] = x
  BY <1>1, <1>2, <1>3, PushedOn
<1> QED
  BY <1>4 DEF s, n

(* The same where nothing is pushed.                                        *)
LEMMA AfterDrop ==
  ASSUME DInv, status = "run", Pushes(image, Frame.fn, IP) = << >>,
         NEW p \in Nat, Pops(Fn(framese), IP) = p, p <= Len(ShapeOf(framese)),
         NEW after, after = After(image, Frame.fn, IP)
  PROVE  /\ Len(after) = Len(ShapeOf(framese)) - p
         /\ \A k \in 1 .. Len(ShapeOf(framese)) - p :
              after[k] = ShapeOf(framese)[k]
<1> DEFINE T == {0} \cup (DOMAIN image.fns \ {1})
           s == ShapeOf(framese)
           n == Len(s) - p
<1>1. s \in Seq(T) /\ n \in Nat /\ n <= Len(s)
  BY CurrentFacts
<1>2. after = SubSeq(s, 1, n) \o << >>
  BY CurrentFacts DEF After
<1> HIDE DEF T, s, n
<1>3. /\ SubSeq(s, 1, n) \in Seq(T) /\ Len(SubSeq(s, 1, n)) = n
      /\ \A k \in 1 .. n : SubSeq(s, 1, n)[k] = s[k]
  BY <1>1, TakenOff
<1>4. after = SubSeq(s, 1, n)
  BY <1>2, <1>3
<1> QED
  BY <1>3, <1>4 DEF s, n

-----------------------------------------------------------------------------
(* The instructions as the verifier sees them.                             *)

(* The groups of opcodes are disjoint.                                      *)
Jumps == {OP_SKIP_LONG, OP_SKIPF_LONG, OP_SKIP_BACK_LONG}
Peeks == {OP_SKIPF_LONG, OP_SHIFT_ASTACKENT_TO_BASE, OP_RETURN}
Ends  == {OP_HALT, OP_RETURN}
Stays == {OP_NEWLINE, OP_ARGSTACK_LOAD, OP_ARGSTACK_UNLOAD,
          OP_SHIFT_ASTACKENT_TO_BASE}
Alone == {OP_NOT, OP_GET_INDEX, OP_SET_INDEX_LOCAL_LONG, OP_WRITE, OP_CALL,
          OP_GET_LOCAL_LONG}

(* No opcode is in two groups that the verifier tells apart.                *)
LEMMA Groups ==
  /\ PushOps \cap (LoadOps \cup BinaryOps \cup DropOps \cup Alone
                   \cup Jumps \cup Ends \cup Peeks) = {}
  /\ LoadOps \cap (BinaryOps \cup DropOps \cup Alone
                   \cup Jumps \cup Ends \cup Peeks) = {}
  /\ BinaryOps \cap (DropOps \cup Alone \cup Jumps \cup Ends \cup Peeks) = {}
  /\ DropOps \cap (Alone \cup Jumps \cup Ends \cup Peeks) = {}
  /\ Stays \cap (PushOps \cup LoadOps \cup BinaryOps \cup DropOps \cup Alone
                 \cup Jumps \cup Ends) = {}
  /\ Jumps \cap (Alone \cup Ends) = {}
  /\ Alone \cap (Ends \cup Peeks) = {}
<1> USE DEF PushOps, LoadOps, BinaryOps, DropOps, Jumps, Peeks, Ends, Stays,
       Alone,
       OP_LOCI_LONG, OP_LOCS_LONG, OP_LOCF_LONG, OP_LOC_ALINK_LONG,
       OP_PUSH_BYTE, OP_ADDI, OP_SUBI, OP_MULI, OP_DIVI, OP_GRT, OP_GRTEQ,
       OP_LT, OP_LEQ, OP_EQUA, OP_NOT, OP_SKIP_LONG, OP_SKIPF_LONG,
       OP_SKIP_BACK_LONG, OP_ZERO, OP_ONE, OP_TRUE, OP_FALSE,
       OP_EMPTY_STRING, OP_POPV, OP_GET_LOCAL_LONG, OP_SET_LOCAL_LONG,
       OP_WRITE, OP_NEWLINE, OP_POP_TO_ASTACK, OP_POPA, OP_ASTACK_SHIFT_UP,
       OP_GET_INDEX, OP_SET_INDEX_LOCAL_LONG, OP_READ, OP_CALL, OP_RETURN,
       OP_SHIFT_ASTACKENT_TO_BASE, OP_ARGSTACK_LOAD, OP_ARGSTACK_PEEK,
       OP_ARGSTACK_UNLOAD, OP_HALT
<1>1. PushOps \cap (LoadOps \cup BinaryOps \cup DropOps \cup Alone
                   \cup Jumps \cup Ends \cup Peeks) = {}
  OBVIOUS
<1>2. LoadOps \cap (BinaryOps \cup DropOps \cup Alone
                   \cup Jumps \cup Ends \cup Peeks) = {}
  OBVIOUS
<1>3. BinaryOps \cap (DropOps \cup Alone \cup Jumps \cup Ends \cup Peeks) = {}
  OBVIOUS
<1>4. DropOps \cap (Alone \cup Jumps \cup Ends \cup Peeks) = {}
  OBVIOUS
<1>5. Stays \cap (PushOps \cup LoadOps \cup BinaryOps \cup DropOps \cup Alone
                 \cup Jumps \cup Ends) = {}
  OBVIOUS
<1>6. Jumps \cap (Alone \cup Ends) = {}
  OBVIOUS
<1>7. Alone \cap (Ends \cup Peeks) = {}
  OBVIOUS
<1> HIDE DEF PushOps, LoadOps, BinaryOps, DropOps, Jumps, Peeks, Ends, Stays,
             Alone
<1> QED
  BY <1>1, <1>2, <1>3, <1>4, <1>5, <1>6, <1>7

(* The opcodes that are told apart one by one.                              *)
LEMMA Singles ==
  /\ OP_GET_INDEX # OP_NOT
  /\ OP_SET_INDEX_LOCAL_LONG \notin {OP_NOT, OP_GET_INDEX}
  /\ OP_WRITE \notin {OP_NOT, OP_GET_INDEX, OP_SET_INDEX_LOCAL_LONG}
  /\ OP_CALL \notin {OP_NOT, OP_GET_INDEX, OP_SET_INDEX_LOCAL_LONG, OP_WRITE}
  /\ OP_GET_LOCAL_LONG \notin {OP_NOT, OP_GET_INDEX, OP_SET_INDEX_LOCAL_LONG,
                               OP_WRITE, OP_CALL}
  /\ OP_SKIPF_LONG # OP_SKIP_LONG
  /\ OP_SKIP_BACK_LONG \notin {OP_SKIP_LONG, OP_SKIPF_LONG}
BY DEF OP_NOT, OP_GET_INDEX, OP_SET_INDEX_LOCAL_LONG, OP_WRITE, OP_CALL,
       OP_GET_LOCAL_LONG, OP_SKIP_LONG, OP_SKIPF_LONG, OP_SKIP_BACK_LONG

(* What the current instruction pops and pushes, and where it goes.         *)
Effect(p, pushed) ==
  /\ Pops(Fn(framese), IP) = p
  /\ Pushes(image, Frame.fn, IP) = pushed
  /\ Targets(Fn(framese), IP) = {NextIP}

LEMMA Effects ==
  /\ Op \in PushOps => Effect(0, << 0 >>)
  /\ Op \in LoadOps =>
       LET val == Constants[ArgLong(1) + 1]
       IN  Effect(0, << IF val.t = "fn" THEN val.i ELSE 0 >>)
  /\ Op \in BinaryOps => Effect(2, << 0 >>)
  /\ Op \in DropOps => Effect(1, << >>)
  /\ Op = OP_NOT => Effect(1, << 0 >>)
  /\ Op = OP_GET_INDEX => Effect(Arg(1) + Arg(2) + 1, << 0 >>)
  /\ Op = OP_SET_INDEX_LOCAL_LONG => Effect(Arg(5) + Arg(6) + 1, << >>)
  /\ Op = OP_WRITE => Effect(3 * Arg(1), << >>)
  /\ Op = OP_CALL => Effect(Arg(1) + 1, << 0 >>)
  /\ Op \in Stays => Effect(0, << >>)
<1>1. Fn(framese) = image.fns[Frame.fn]
  BY DEF Fn, Frame
<1>2. /\ OpAt(Fn(framese), IP) = Op /\ NextAt(Fn(framese), IP) = NextIP
      /\ \A k : /\ ArgAt(Fn(framese), IP, k) = Arg(k)
               /\ LongAt(Fn(framese), IP, k) = ArgLong(k)
      /\ Fn(framese).constants = Constants
  BY <1>1, SameInstruction DEF Constants
<1> USE DEF Effect, Pops, Pushes, Targets
<1>3. ASSUME Op \in PushOps PROVE Effect(0, << 0 >>)
  <2>1. Op \notin LoadOps \cup BinaryOps \cup DropOps \cup Alone
                 \cup Jumps \cup Ends
    BY <1>3, Groups
  <2> QED
    BY <1>1, <1>2, <1>3, <2>1 DEF Alone, Jumps, Ends
<1>4. ASSUME Op \in LoadOps
      PROVE  LET val == Constants[ArgLong(1) + 1]
             IN  Effect(0, << IF val.t = "fn" THEN val.i ELSE 0 >>)
  <2>1. Op \notin PushOps \cup BinaryOps \cup DropOps \cup Alone
                 \cup Jumps \cup Ends
    BY <1>4, Groups
  <2> QED
    BY <1>1, <1>2, <1>4, <2>1 DEF Alone, Jumps, Ends
<1>5. ASSUME Op \in BinaryOps PROVE Effect(2, << 0 >>)
  <2>1. Op \notin LoadOps \cup PushOps \cup DropOps \cup Alone
                 \cup Jumps \cup Ends
    BY <1>5, Groups
  <2> QED
    BY <1>1, <1>2, <1>5, <2>1 DEF Alone, Jumps, Ends
<1>6. ASSUME Op \in DropOps PROVE Effect(1, << >>)
  <2>1. Op \notin LoadOps \cup BinaryOps \cup PushOps \cup Alone
                 \cup Jumps \cup Ends
    BY <1>6, Groups
  <2> QED
    BY <1>1, <1>2, <1>6, <2>1 DEF Alone, Jumps, Ends
<1>7. ASSUME Op \in Alone
      PROVE  /\ Op \notin LoadOps \cup BinaryOps \cup PushOps \cup DropOps
             /\ Op \notin Jumps \cup Ends
  BY <1>7, Groups
<1>8. ASSUME Op = OP_NOT PROVE Effect(1, << 0 >>)
  BY <1>1, <1>2, <1>7, <1>8, Singles DEF Alone, Jumps, Ends
<1>9. ASSUME Op = OP_GET_INDEX PROVE Effect(Arg(1) + Arg(2) + 1, << 0 >>)
  BY <1>1, <1>2, <1>7, <1>9, Singles DEF Alone, Jumps, Ends
<1>10. ASSUME Op = OP_SET_INDEX_LOCAL_LONG
       PROVE  Effect(Arg(5) + Arg(6) + 1, << >>)
  BY <1>1, <1>2, <1>7, <1>10, Singles DEF Alone, Jumps, Ends
<1>11. ASSUME Op = OP_WRITE PROVE Effect(3 * Arg(1), << >>)
  BY <1>1, <1>2, <1>7, <1>11, Singles DEF Alone, Jumps, Ends
<1>12. ASSUME Op = OP_CALL PROVE Effect(Arg(1) + 1, << 0 >>)
  BY <1>1, <1>2, <1>7, <1>12, Singles DEF Alone, Jumps, Ends
<1>13. ASSUME Op \in Stays PROVE Effect(0, << >>)
  <2>1. /\ Op \notin LoadOps \cup BinaryOps \cup PushOps \cup DropOps
        /\ Op \notin Jumps \cup Ends \cup Alone
    BY <1>13, Groups
  <2> QED
    BY <1>1, <1>2, <2>1 DEF Alone, Jumps, Ends
<1> HIDE DEF Effect, Pops, Pushes, Targets
<1> QED
  BY <1>3, <1>4, <1>5, <1>6, <1>8, <1>9, <1>10, <1>11, <1>12, <1>13

(* The jumps, and the load of a local.                                      *)
LEMMA JumpEffects ==
  /\ Op \in Jumps => /\ Pops(Fn(framese), IP) = 0
                     /\ Pushes(image, Frame.fn, IP) = << >>
  /\ Op = OP_SKIP_LONG => Targets(Fn(framese), IP) = {NextIP + ArgLong(1)}
  /\ Op = OP_SKIPF_LONG =>
       Targets(Fn(framese), IP) = {NextIP, NextIP + ArgLong(1)}
  /\ Op = OP_SKIP_BACK_LONG => Targets(Fn(framese), IP) = {NextIP - ArgLong(1)}
<1>1. /\ OpAt(Fn(framese), IP) = Op /\ NextAt(Fn(framese), IP) = NextIP
      /\ LongAt(Fn(framese), IP, 1) = ArgLong(1)
      /\ image.fns[Frame.fn] = Fn(framese)
  BY SameInstruction DEF Fn, Frame
<1>2. ASSUME Op \in Jumps
      PROVE  /\ Pops(Fn(framese), IP) = 0
             /\ Pushes(image, Frame.fn, IP) = << >>
  <2>1. Op \notin LoadOps \cup BinaryOps \cup PushOps \cup DropOps \cup Alone
    BY <1>2, Groups
  <2> QED
    BY <1>1, <2>1 DEF Pops, Pushes, Alone
<1> QED
  BY <1>1, <1>2, Singles DEF Targets

LEMMA LocalEffect ==
  ASSUME Op = OP_GET_LOCAL_LONG
  PROVE  Effect(0, << IF ArgLong(1) = 0 THEN ShapeOf(framese)[ArgLong(3) + 1]
                      ELSE OuterSlot(image, Fn(framese).level - ArgLong(1),
                                     ArgLong(3)) >>)
<1>1. /\ OpAt(Fn(framese), IP) = Op /\ NextAt(Fn(framese), IP) = NextIP
      /\ \A k : LongAt(Fn(framese), IP, k) = ArgLong(k)
      /\ image.fns[Frame.fn] = Fn(framese)
      /\ Fn(framese).shape[IP] = ShapeOf(framese)
  BY SameInstruction DEF Fn, Frame, ShapeOf, IP
<1>2. /\ Op \notin LoadOps \cup BinaryOps \cup PushOps \cup DropOps
      /\ Op \notin Jumps \cup Ends
  BY Groups DEF Alone
<1> QED
  BY <1>1, <1>2, Singles DEF Effect, Pops, Pushes, Targets, Jumps, Ends

-----------------------------------------------------------------------------
(* Steps within a frame.                                                   *)

(* The frame goes on at a target t of its instruction, with the height the  *)
(* verifier gave it; no function that a shape promises is overwritten.      *)
GoesOn(t, after) ==
  /\ t \in Targets(Fn(framese), IP)
  /\ after = After(image, Frame.fn, IP)
  /\ UNCHANGED << image, framese >>
  /\ \A f \in 0 .. framese : /\ framestack'[f].fn = framestack[f].fn
                             /\ framestack'[f].env = framestack[f].env
                             /\ framestack'[f].base = framestack[f].base
  /\ \A f \in 0 .. framese - 1 : /\ framestack'[f].ip = framestack[f].ip
                                 /\ framestack'[f].sp = framestack[f].sp
  /\ framestack'[framese].ip = t
  /\ framestack'[framese].sp = Frame.base + Len(after)
  /\ \A f \in 0 .. framese - 1 : \A k \in 1 .. Len(ShapeOf(f)) :
       ShapeOf(f)[k] # 0 => stack'[framestack[f].base + k - 1] =
                              stack[framestack[f].base + k - 1]
  /\ \A k \in 1 .. Len(after) :
       after[k] # 0 => stack'[Frame.base + k - 1] =
                         FnV(after[k], image.fns[after[k]].level)
  /\ framese > 0 => stack'[0] = stack[0]

(* A handler that goes on that way keeps the frames.                        *)
LEMMA StepKeeps ==
  ASSUME DInv, IInv', status = "run", status' = "run",
         NEW t, NEW after, GoesOn(t, after)
  PROVE  FrameInv'
<1> USE DEF GoesOn
<1>1. /\ t \in DOMAIN Fn(framese).shape
      /\ Fits(after, Fn(framese).shape[t])
      /\ framese \in Nat
  BY CurrentFacts DEF InstructionOK
<1> DEFINE new == Fn(framese).shape[t]
<1>2. Len(new) = Len(after) /\ \A k \in 1 .. Len(new) : new[k] \in {0, after[k]}
  BY <1>1 DEF Fits
<1>3. \A f \in 0 .. framese : Fn(f)' = Fn(f)
  BY DEF Fn
<1>4. \A f \in 0 .. framese - 1 :
        /\ f \in 0 .. framese /\ f # framese
        /\ ShapeOf(f)' = ShapeOf(f) /\ Height(f)' = Height(f)
  BY <1>1, <1>3 DEF ShapeOf, Height
<1>5. /\ framese \in 0 .. framese
      /\ ShapeOf(framese)' = new
      /\ Height(framese)' = framestack[framese].base + Len(new)
  BY <1>1, <1>3 DEF ShapeOf, Height
<1>a. \A f \in 0 .. framese : f # framese => f \in 0 .. framese - 1
  BY <1>1
<1>6. FramesKnown'
  BY <1>1, <1>3, <1>4, <1>5, <1>a DEF FramesKnown, DInv, FrameInv, Discipline
<1>7. HeightsAgree'
  <2>1. (SP <= StackMax)'
    BY <1>1 DEF IInv, Guarded, SP, Frame
  <2>2. \A f \in 0 .. framese - 1 : f + 1 \in 0 .. framese
    BY <1>1
  <2>3. framestack[framese].base \in Nat
        /\ framestack'[framese].sp = Height(framese)'
    BY <1>2, <1>5 DEF DInv, FrameInv, Discipline, HeightsAgree, Frame
  <2>4. ASSUME NEW f \in 0 .. framese - 1
        PROVE  /\ framestack[f].base \in Nat
               /\ framestack[f].sp = framestack[f + 1].base + Fn(f + 1).arity
               /\ framestack[f + 1].base = Height(f)
               /\ Len(ShapeOf(f)) > 0
    BY <1>1, <1>4 DEF DInv, FrameInv, Discipline, HeightsAgree
  <2>5. ASSUME NEW f \in 0 .. framese
        PROVE  /\ framestack'[f].base \in Nat
               /\ framestack'[f].sp =
                    IF f = framese' THEN Height(f)'
                    ELSE framestack'[f + 1].base + (Fn(f + 1).arity)'
               /\ f < framese' => /\ framestack'[f + 1].base = Height(f)'
                                  /\ (Len(ShapeOf(f)) > 0)'
    <3>1. CASE f = framese
      BY <1>1, <1>5, <2>3, <3>1
    <3>2. CASE f # framese
      <4>1. f \in 0 .. framese - 1
        BY <1>a, <3>2
      <4> QED
        BY <1>3, <1>4, <2>2, <2>4, <3>2, <4>1
    <3> QED
      BY <3>1, <3>2
  <2> QED
    BY <2>1, <2>5 DEF HeightsAgree
<1>8. FramesStacked'
  <2>1. \A f, g \in 0 .. framese :
          /\ f <= framestack[f].base
          /\ f < g => Height(f) <= framestack[g].base
    BY DEF DInv, FrameInv, Discipline, FramesStacked
  <2>2. \A f, g \in 0 .. framese : f < g => f \in 0 .. framese - 1
    BY <1>1
  <2> QED
    BY <1>4, <2>1, <2>2 DEF FramesStacked
<1>9. FunctionSlots'
  <2> SUFFICES ASSUME NEW f \in 0 .. framese, NEW k \in 1 .. Len(ShapeOf(f)'),
                      ShapeOf(f)'[k] # 0
               PROVE  stack'[framestack'[f].base + k - 1] =
                        FnV(ShapeOf(f)'[k], image.fns[ShapeOf(f)'[k]].level)
    BY DEF FunctionSlots
  <2>1. CASE f = framese
    BY <1>2, <1>5, <2>1 DEF Frame
  <2>2. CASE f # framese
    <3>1. f \in 0 .. framese - 1 /\ ShapeOf(f)' = ShapeOf(f)
      BY <1>4, <1>a, <2>2
    <3>2. stack[framestack[f].base + k - 1] =
            FnV(ShapeOf(f)[k], image.fns[ShapeOf(f)[k]].level)
      BY <3>1 DEF DInv, FrameInv, Discipline, FunctionSlots
    <3> QED
      BY <3>1, <3>2
  <2> QED
    BY <2>1, <2>2
<1>10. ProgramSlots'
  <2>1. framese > 1 => 1 \in 0 .. framese - 1
    BY <1>1
  <2> QED
    BY <1>4, <2>1 DEF ProgramSlots, DInv, FrameInv, Discipline
<1>11. ResultSlots' /\ ProgramCell'
  <2>1. 0 \in 0 .. framese
    BY <1>1
  <2> QED
    BY <1>4, <2>1 DEF ResultSlots, ProgramCell, DInv, FrameInv
<1> QED
  BY <1>6, <1>7, <1>8, <1>9, <1>10, <1>11 DEF FrameInv, Discipline

(* Resume moves the current frame and no other.                             *)
LEMMA ResumeMoves ==
  ASSUME TypeOK, UNCHANGED framese, NEW ip, NEW sp, NEW asp, Resume(ip, sp, asp)
  PROVE  /\ \A f \in 0 .. framese : /\ framestack'[f].fn = framestack[f].fn
                                    /\ framestack'[f].env = framestack[f].env
                                    /\ framestack'[f].base = framestack[f].base
         /\ \A f \in 0 .. framese - 1 : framestack'[f] = framestack[f]
         /\ framestack'[framese].ip = ip /\ framestack'[framese].sp = sp
<1>1. /\ framese \in Nat /\ framese \in FrameIndex
      /\ \A f \in 0 .. framese : f \in FrameIndex
  BY SizesAssumption DEF TypeOK, FrameIndex
<1>2. framestack \in [FrameIndex -> FrameType]
  BY DEF TypeOK
<1>3. \A f \in FrameIndex : f # framese => framestack'[f] = framestack[f]
  BY <1>2 DEF Resume
<1>4. /\ framestack'[framese] = [framestack[framese] EXCEPT
                                  !.ip = ip, !.sp = sp, !.asp = asp]
      /\ framestack[framese] \in FrameType
  BY <1>1, <1>2 DEF Resume
<1>5. /\ framestack'[framese].ip = ip /\ framestack'[framese].sp = sp
      /\ framestack'[framese].fn = framestack[framese].fn
      /\ framestack'[framese].env = framestack[framese].env
      /\ framestack'[framese].base = framestack[framese].base
  BY <1>4 DEF FrameType
<1> QED
  BY <1>1, <1>3, <1>5

(* A cell of a frame that ends below top.                                   *)
LEMMA CellOfFrame ==
  ASSUME NEW base \in Nat, NEW len \in Nat, NEW k \in 1 .. len,
         NEW top \in Nat, base + len <= top, top <= StackMax
  PROVE  base + k - 1 \in CellIndex /\ base + k - 1 < top
BY SizesAssumption DEF CellIndex

(* Where the frames below the current one end.                              *)
LEMMA Below ==
  ASSUME DInv, status = "run"
  PROVE  /\ framese <= Frame.base
         /\ \A f \in 0 .. framese - 1 : \A k \in 1 .. Len(ShapeOf(f)) :
              /\ framestack[f].base + k - 1 \in CellIndex
              /\ framestack[f].base + k - 1 < Frame.base
<1>1. framese \in Nat /\ Frame.base \in Nat /\ Frame.base <= StackMax
      /\ StackMax \in Nat
  BY CurrentFacts, SizesAssumption
<1>2. framese \in 0 .. framese /\ framese <= Frame.base
  BY <1>1 DEF DInv, FrameInv, Discipline, FramesStacked, Frame
<1>3. ASSUME NEW f \in 0 .. framese - 1, NEW k \in 1 .. Len(ShapeOf(f))
      PROVE  /\ framestack[f].base + k - 1 \in CellIndex
             /\ framestack[f].base + k - 1 < Frame.base
  <2>1. f \in 0 .. framese /\ f < framese
    BY <1>1
  <2>2. Height(f) <= Frame.base
    BY <1>2, <2>1 DEF DInv, FrameInv, Discipline, FramesStacked, Frame
  <2>3. framestack[f].base \in Nat
    BY <2>1 DEF DInv, FrameInv, Discipline, HeightsAgree
  <2>4. ShapeOf(f) \in Seq({0} \cup (DOMAIN image.fns \ {1}))
    BY <2>1 DEF DInv, FrameInv, Discipline, FramesKnown, WellFormed, HeaderOK,
                Fn, ShapeOf
  <2>5. Len(ShapeOf(f)) \in Nat
    BY <2>4
  <2>6. framestack[f].base + Len(ShapeOf(f)) <= Frame.base
    BY ONLY <2>2 DEF Height
  <2> QED
    BY ONLY <1>1, <2>3, <2>5, <2>6, k \in 1 .. Len(ShapeOf(f)), CellOfFrame
<1> QED
  BY <1>2, <1>3

(* An instruction that pops p values and pushes v; where the verifier       *)
(* counts on a function, v is that function.                                *)
LEMMA PushStep ==
  ASSUME DInv, IInv', status = "run", status' = "run",
         UNCHANGED << image, framese >>,
         NEW p \in Nat, NEW x, Effect(p, << x >>),
         p <= Len(ShapeOf(framese)),
         NEW v, x # 0 => v = FnV(x, image.fns[x].level),
         NEW cell, cell = SP - p,
         NEW asp, Resume(NextIP, cell + 1, asp),
         stack' = [stack EXCEPT ![cell] = v]
  PROVE  FrameInv'
<1> DEFINE s     == ShapeOf(framese)
           after == After(image, Frame.fn, IP)
           n     == Len(s) - p
<1>1. /\ Len(s) \in Nat /\ n \in Nat /\ Len(s) = n + p /\ cell = Frame.base + n
      /\ Frame.base \in Nat /\ framese \in Nat /\ cell \in Nat
  BY CurrentFacts
<1>2. /\ Len(after) = n + 1
      /\ \A k \in 1 .. n : after[k] = s[k]
      /\ after[n + 1] = x
  BY AfterPush DEF Effect
<1> HIDE DEF s, after, n
<1>3. stack \in [CellIndex -> Value] /\ StackMax \in Nat \ {0}
  BY SizesAssumption DEF DInv, IInv, TypeOK
<1>4. /\ framestack'[framese].ip = NextIP
      /\ framestack'[framese].sp = cell + 1
      /\ \A f \in 0 .. framese : /\ framestack'[f].fn = framestack[f].fn
                                 /\ framestack'[f].env = framestack[f].env
                                 /\ framestack'[f].base = framestack[f].base
      /\ \A f \in 0 .. framese - 1 : framestack'[f] = framestack[f]
  <2>1. TypeOK
    BY DEF DInv, IInv
  <2> QED
    BY <2>1, ResumeMoves
<1>5. cell \in CellIndex
  <2>1. cell + 1 <= StackMax
    <3>1. framese' \in 0 .. framese'
      BY <1>1
    <3> QED
      BY <1>4, <3>1 DEF IInv, Guarded
  <2> QED
    BY <1>1, <1>3, <2>1 DEF CellIndex
<1>6. /\ stack'[cell] = v
      /\ \A c \in CellIndex : c # cell => stack'[c] = stack[c]
  BY <1>3, <1>5
<1>7. \A f \in 0 .. framese - 1 : \A k \in 1 .. Len(ShapeOf(f)) :
        stack'[framestack[f].base + k - 1] = stack[framestack[f].base + k - 1]
  <2>1. \A f \in 0 .. framese - 1 : \A k \in 1 .. Len(ShapeOf(f)) :
           /\ framestack[f].base + k - 1 \in CellIndex
           /\ framestack[f].base + k - 1 < Frame.base
    BY Below
  <2>2. \A c \in CellIndex : c < Frame.base => c # cell
    BY <1>1 DEF CellIndex
  <2> QED
    BY <1>6, <2>1, <2>2
<1>8. framese > 0 => stack'[0] = stack[0]
  <2>1. framese <= Frame.base
    BY Below
  <2>2. framese > 0 => 0 # cell /\ 0 \in CellIndex
    BY <1>1, <1>3, <2>1 DEF CellIndex
  <2> QED
    BY <1>6, <2>2
<1>9. ASSUME NEW k \in 1 .. Len(after), after[k] # 0
      PROVE  stack'[Frame.base + k - 1] =
               FnV(after[k], image.fns[after[k]].level)
  <2>1. CASE k = n + 1
    <3>1. Frame.base + k - 1 = cell
      BY <1>1, <2>1
    <3> QED
      BY <1>2, <1>6, <1>9, <2>1, <3>1
  <2>2. CASE k # n + 1
    <3>1. k \in 1 .. n /\ k \in 1 .. Len(s)
      BY <1>1, <1>2, <2>2
    <3>b. \A b, m \in Nat : \A i \in 1 .. m :
            b + i - 1 \in Nat /\ b + i - 1 < b + m
      OBVIOUS
    <3>a. Frame.base + k - 1 \in Nat /\ Frame.base + k - 1 < cell
      BY <1>1, <3>1, <3>b
    <3>2. Frame.base + k - 1 # cell /\ Frame.base + k - 1 \in CellIndex
      <4>1. Frame.base + k - 1 # cell
        BY <1>1, <3>a
      <4>2. cell <= StackMax - 1
        BY <1>5 DEF CellIndex
      <4> QED
        BY <1>1, <1>3, <3>a, <4>1, <4>2 DEF CellIndex
    <3>3. after[k] = s[k] /\ s[k] # 0 /\ framese \in 0 .. framese
      BY <1>1, <1>2, <1>9, <3>1
    <3>4. stack[Frame.base + k - 1] = FnV(s[k], image.fns[s[k]].level)
      BY <3>1, <3>3 DEF s, DInv, FrameInv, Discipline, FunctionSlots, Frame
    <3> QED
      BY <1>6, <3>2, <3>3, <3>4
  <2> QED
    BY <2>1, <2>2
<1>10. NextIP \in Targets(Fn(framese), IP)
  BY DEF Effect
<1>11. framestack'[framese].sp = Frame.base + Len(after)
  <2>1. Len(after) = n + 1
    BY <1>2
  <2>a. \A b, m \in Nat : (b + m) + 1 = b + (m + 1)
    OBVIOUS
  <2>b. (Frame.base + n) + 1 = Frame.base + (n + 1)
    BY <1>1, <2>a
  <2>2. cell + 1 = Frame.base + Len(after)
    BY <1>1, <2>1, <2>b
  <2> QED
    BY <1>4, <2>2
<1>12. after = After(image, Frame.fn, IP)
  BY DEF after
<1>13. \A f \in 0 .. framese - 1 : /\ framestack'[f].ip = framestack[f].ip
                                  /\ framestack'[f].sp = framestack[f].sp
  BY <1>4
<1>14. \A f \in 0 .. framese - 1 : \A k \in 1 .. Len(ShapeOf(f)) :
         ShapeOf(f)[k] # 0 => stack'[framestack[f].base + k - 1] =
                                stack[framestack[f].base + k - 1]
  BY <1>7
<1>15. \A k \in 1 .. Len(after) :
         after[k] # 0 => stack'[Frame.base + k - 1] =
                           FnV(after[k], image.fns[after[k]].level)
  BY <1>9
<1>16. GoesOn(NextIP, after)
  BY <1>4, <1>8, <1>10, <1>11, <1>12, <1>13, <1>14, <1>15 DEF GoesOn
<1> QED
  BY <1>16, StepKeeps

(* An instruction that pops p values and leaves the stack as it is.         *)
LEMMA DropStep ==
  ASSUME DInv, IInv', status = "run", status' = "run",
         UNCHANGED << image, framese, stack >>,
         Pushes(image, Frame.fn, IP) = << >>,
         NEW t \in Targets(Fn(framese), IP),
         NEW p \in Nat, Pops(Fn(framese), IP) = p,
         p <= Len(ShapeOf(framese)),
         NEW sp, sp = SP - p,
         NEW asp, Resume(t, sp, asp)
  PROVE  FrameInv'
<1> DEFINE s     == ShapeOf(framese)
           after == After(image, Frame.fn, IP)
           n     == Len(s) - p
<1>1. /\ Len(s) \in Nat /\ n \in Nat /\ Len(s) = n + p /\ sp = Frame.base + n
      /\ Frame.base \in Nat /\ framese \in Nat
  BY CurrentFacts
<1>2. /\ Len(after) = n
      /\ \A k \in 1 .. n : after[k] = s[k]
  BY AfterDrop
<1> HIDE DEF s, after, n
<1>4. /\ framestack'[framese].ip = t
      /\ framestack'[framese].sp = sp
      /\ \A f \in 0 .. framese : /\ framestack'[f].fn = framestack[f].fn
                                 /\ framestack'[f].env = framestack[f].env
                                 /\ framestack'[f].base = framestack[f].base
      /\ \A f \in 0 .. framese - 1 : framestack'[f] = framestack[f]
  <2>1. TypeOK
    BY DEF DInv, IInv
  <2> QED
    BY <2>1, ResumeMoves
<1>5. ASSUME NEW k \in 1 .. Len(after), after[k] # 0
      PROVE  stack'[Frame.base + k - 1] =
               FnV(after[k], image.fns[after[k]].level)
  <2>1. k \in 1 .. Len(s) /\ after[k] = s[k] /\ s[k] # 0
        /\ framese \in 0 .. framese
    BY <1>1, <1>2, <1>5
  <2> QED
    BY <2>1 DEF s, DInv, FrameInv, Discipline, FunctionSlots, Frame
<1>11. framestack'[framese].sp = Frame.base + Len(after)
  BY <1>1, <1>2, <1>4
<1>12. after = After(image, Frame.fn, IP)
  BY DEF after
<1>13. \A f \in 0 .. framese - 1 : /\ framestack'[f].ip = framestack[f].ip
                                  /\ framestack'[f].sp = framestack[f].sp
  BY <1>4
<1>14. \A f \in 0 .. framese - 1 : \A k \in 1 .. Len(ShapeOf(f)) :
         ShapeOf(f)[k] # 0 => stack'[framestack[f].base + k - 1] =
                                stack[framestack[f].base + k - 1]
  OBVIOUS
<1>15. \A k \in 1 .. Len(after) :
         after[k] # 0 => stack'[Frame.base + k - 1] =
                           FnV(after[k], image.fns[after[k]].level)
  BY <1>5
<1>16. UNCHANGED << image, framese >> /\ (framese > 0 => stack'[0] = stack[0])
  OBVIOUS
<1>17. GoesOn(t, after)
  BY <1>4, <1>11, <1>12, <1>13, <1>14, <1>15, <1>16 DEF GoesOn
<1> QED
  BY <1>17, StepKeeps
(* What the current instruction takes off the stack is there.               *)
LEMMA EnoughThere ==
  ASSUME DInv, status = "run", NEW p \in Nat, Pops(Fn(framese), IP) = p,
         Op \notin Peeks
  PROVE  p <= Len(ShapeOf(framese))
BY CurrentFacts, SameInstruction DEF InstructionOK, Needs, Peeks

(* pushv, where it finds room.                                              *)
LEMMA PushvStep ==
  ASSUME DInv, IInv', status = "run", status' = "run", UNCHANGED image,
         Op \notin Peeks,
         NEW p \in Nat, NEW x, Effect(p, << x >>),
         NEW v, x # 0 => v = FnV(x, image.fns[x].level),
         NEW asp, pushv(NextIP, SP - p, asp, v)
  PROVE  FrameInv'
<1>1. ~(SP - p < 0) /\ ~(SP - p >= StackMax)
  BY DEF pushv, Wild
<1>2. /\ UNCHANGED framese /\ Resume(NextIP, SP - p + 1, asp)
      /\ stack' = [stack EXCEPT ![SP - p] = v]
  BY <1>1 DEF pushv
<1>3. p <= Len(ShapeOf(framese))
  BY EnoughThere DEF Effect
<1> QED
  BY <1>2, <1>3, PushStep


(* A handler that only takes p values off.                                  *)
LEMMA TakeStep ==
  ASSUME DInv, IInv', status = "run", status' = "run",
         UNCHANGED << image, framese, stack >>,
         Op \notin Peeks, NEW p \in Nat, Effect(p, << >>),
         NEW asp, Resume(NextIP, SP - p, asp)
  PROVE  FrameInv'
<1>1. p <= Len(ShapeOf(framese))
  BY EnoughThere DEF Effect
<1>2. NextIP \in Targets(Fn(framese), IP)
  BY DEF Effect
<1> QED
  BY <1>1, <1>2, DropStep DEF Effect

-----------------------------------------------------------------------------
(* The handlers.                                                           *)

(* Loads of constants: a function's bytecode comes with the envindex of its *)
(* level.                                                                   *)
LEMMA ConstantStep ==
  ASSUME DInv, IInv', status' = "run", UNCHANGED image,
         LoadConstant \/ LocAlink
  PROVE  FrameInv'
<1>1. CASE LoadConstant
  <2>1. status = "run" /\ Op \in LoadOps
    BY <1>1 DEF LoadConstant, Fetch, LoadOps
  <2>2. Op \notin Peeks
    BY <2>1, Groups
  <2> DEFINE address == ArgLong(1) + 1
             val     == Constants[address]
             x       == IF val.t = "fn" THEN val.i ELSE 0
  <2>3. address \in DOMAIN Constants /\ pushv(NextIP, SP - 0, ASP, val)
    <3>1. SP - 0 = SP
      BY FrameFacts DEF DInv, IInv
    <3> QED
      BY <1>1, <3>1 DEF LoadConstant, Wild
  <2>4. Effect(0, << x >>)
    BY <2>1, Effects
  <2>5. ASSUME x # 0
        PROVE  val = FnV(x, image.fns[x].level)
    <3>1. val.t = "fn"
      BY <2>5
    <3>2. val \in Value
      BY <2>3, FrameFacts DEF DInv, IInv
    <3>3. val.n = image.fns[val.i].level
      BY <2>1, <2>3, <3>1, CurrentFacts DEF HeaderOK, Constants
    <3> QED
      BY <3>1, <3>2, <3>3 DEF Value, FnV
  <2> HIDE DEF address, val, x
  <2> QED
    BY <2>1, <2>2, <2>3, <2>4, <2>5, PushvStep
<1>2. CASE LocAlink
  <2>1. status = "run" /\ Op \in PushOps
    BY <1>2 DEF LocAlink, Fetch, PushOps
  <2>2. Op \notin Peeks /\ Effect(0, << 0 >>)
    BY <2>1, Groups, Effects
  <2>3. PICK v : pushv(NextIP, SP, ASP, v)
    BY <1>2 DEF LocAlink, Wild
  <2>4. SP - 0 = SP
    BY FrameFacts DEF DInv, IInv
  <2> QED
    BY <2>1, <2>2, <2>3, <2>4, PushvStep
<1> QED
  BY <1>1, <1>2

(* Handlers that push one value and pop none.                               *)
LEMMA PlainPushStep ==
  ASSUME DInv, IInv', status' = "run", UNCHANGED image,
         PushByte \/ Zero \/ One \/ PushFalse \/ PushTrue \/ EmptyString
           \/ ArgstackPeek \/ Read
  PROVE  FrameInv'
<1>1. status = "run" /\ Op \in PushOps
  BY DEF PushByte, Zero, One, PushFalse, PushTrue, EmptyString, ArgstackPeek,
         Read, Fetch, PushOps
<1>2. Op \notin Peeks /\ Effect(0, << 0 >>)
  BY <1>1, Groups, Effects
<1>3. PICK v : pushv(NextIP, SP, ASP, v)
  <2>1. CASE ArgstackPeek
    BY <2>1 DEF ArgstackPeek, Wild
  <2>2. CASE Read
    BY <2>2 DEF Read, Abort
  <2> QED
    BY <2>1, <2>2 DEF PushByte, Zero, One, PushFalse, PushTrue, EmptyString
<1>4. SP - 0 = SP
  BY FrameFacts DEF DInv, IInv
<1> QED
  BY <1>1, <1>2, <1>3, <1>4, PushvStep

(* Handlers that replace two values, or one, by another.                    *)
LEMMA OperatorStep ==
  ASSUME DInv, IInv', status' = "run", UNCHANGED image,
         Addi \/ Subi \/ Muli \/ Divi \/ Compare \/ Equa \/ Not
  PROVE  FrameInv'
<1>1. CASE Not
  <2>1. status = "run" /\ Op = OP_NOT
    BY <1>1 DEF Not, Fetch
  <2>2. Op \notin Peeks /\ Effect(1, << 0 >>)
    BY <2>1, Groups, Effects DEF Alone
  <2> QED
    BY <1>1, <2>1, <2>2, PushvStep DEF Not
<1>2. CASE Addi \/ Subi \/ Muli \/ Divi \/ Compare \/ Equa
  <2>1. status = "run" /\ Op \in BinaryOps
    BY <1>2 DEF Addi, Subi, Muli, Divi, Compare, Equa, Fetch, BinaryOps
  <2>2. Op \notin Peeks /\ Effect(2, << 0 >>)
    BY <2>1, Groups, Effects
  <2>3. PICK v : pushv(NextIP, SP - 2, ASP, v)
    <3>1. CASE Divi
      BY <3>1 DEF Divi, runtime_error, Abort
    <3>2. CASE Compare
      BY <3>2 DEF Compare, Abort
    <3>3. CASE Equa
      BY <3>3 DEF Equa, Abort
    <3> QED
      BY <1>2, <3>1, <3>2, <3>3 DEF Addi, Subi, Muli
  <2> QED
    BY <2>1, <2>2, <2>3, PushvStep
<1> QED
  BY <1>1, <1>2

(* Handlers that leave the value stack as it is and take values off, or     *)
(* none, and go on with the next instruction.                               *)
LEMMA TakeHandlersStep ==
  ASSUME DInv, IInv', status' = "run", UNCHANGED image,
         Popv \/ Popa \/ PopToAstack \/ AstackShiftUp \/ Newline
           \/ ArgstackLoad \/ ArgstackUnload
  PROVE  FrameInv'
<1>1. status = "run" /\ Op \notin Peeks
  BY Groups DEF Popv, Popa, PopToAstack, AstackShiftUp, Newline, ArgstackLoad,
                ArgstackUnload, Fetch, DropOps, Stays, Peeks, OP_NEWLINE,
                OP_ARGSTACK_LOAD, OP_ARGSTACK_UNLOAD, OP_SKIPF_LONG,
                OP_SHIFT_ASTACKENT_TO_BASE, OP_RETURN
<1>2. CASE Popv \/ Popa \/ PopToAstack \/ AstackShiftUp
  <2>1. Op \in DropOps
    BY <1>2 DEF Popv, Popa, PopToAstack, AstackShiftUp, Fetch, DropOps
  <2>2. Effect(1, << >>)
    BY <2>1, Effects
  <2>3. PICK asp : /\ UNCHANGED << framese, stack >>
                   /\ Resume(NextIP, SP - 1, asp)
    <3>1. CASE Popv
      BY <3>1 DEF Popv, Goto
    <3>2. CASE Popa
      BY <3>2 DEF Popa, Goto
    <3>3. CASE PopToAstack
      BY <3>3 DEF PopToAstack, runtime_error, Wild
    <3>4. CASE AstackShiftUp
      BY <3>4 DEF AstackShiftUp, runtime_error, Goto
    <3> QED
      BY <1>2, <3>1, <3>2, <3>3, <3>4
  <2> QED
    BY <1>1, <2>2, <2>3, TakeStep
<1>3. CASE Newline \/ ArgstackLoad \/ ArgstackUnload
  <2>1. Op \in Stays
    BY <1>3 DEF Newline, ArgstackLoad, ArgstackUnload, Fetch, Stays
  <2>2. Effect(0, << >>)
    BY <2>1, Effects
  <2>3. /\ UNCHANGED << framese, stack >>
        /\ Resume(NextIP, SP, ASP)
    <3>1. CASE Newline
      BY <3>1 DEF Newline
    <3>2. CASE ArgstackLoad
      BY <3>2 DEF ArgstackLoad, Wild
    <3>3. CASE ArgstackUnload
      BY <3>3 DEF ArgstackUnload, Wild
    <3> QED
      BY <1>3, <3>1, <3>2, <3>3
  <2>4. SP - 0 = SP
    BY FrameFacts DEF DInv, IInv
  <2> QED
    BY <1>1, <2>2, <2>3, <2>4, TakeStep
<1> QED
  BY <1>2, <1>3

(* Write takes three values off for each that it prints.                    *)
LEMMA WriteStep ==
  ASSUME DInv, IInv', status' = "run", UNCHANGED image, Write
  PROVE  FrameInv'
<1>1. status = "run" /\ Op = OP_WRITE /\ Fetch(OP_WRITE)
  BY DEF Write, Fetch
<1>2. Op \notin Peeks /\ Effect(3 * Arg(1), << >>)
  BY <1>1, Groups, Effects DEF Alone
<1>3. 3 * Arg(1) \in Nat
  <2>1. Arg(1) \in Nat
    BY <1>1, HandlerFacts, Operands DEF DInv, OneOperandByte
  <2> QED
    BY <2>1
<1>4. PICK asp : /\ UNCHANGED << framese, stack >>
                 /\ Resume(NextIP, SP - 3 * Arg(1), asp)
  BY DEF Write, Wild, Abort
<1> QED
  BY <1>1, <1>2, <1>3, <1>4, TakeStep

(* A store to an element leaves the value stack as it is.                   *)
LEMMA SetIndexStep ==
  ASSUME DInv, IInv', status' = "run", UNCHANGED image, SetIndexLocal
  PROVE  FrameInv'
<1>1. status = "run" /\ Op = OP_SET_INDEX_LOCAL_LONG
      /\ Fetch(OP_SET_INDEX_LOCAL_LONG)
  BY DEF SetIndexLocal, Fetch
<1>2. Op \notin Peeks /\ Effect(Arg(5) + Arg(6) + 1, << >>)
  BY <1>1, Groups, Effects DEF Alone
<1>3. Arg(5) \in Nat /\ Arg(6) \in Nat /\ SP \in Int
  BY <1>1, HandlerFacts, Operands DEF DInv
<1>4. /\ UNCHANGED << framese, stack >>
      /\ Resume(NextIP, SP - Arg(6) - Arg(5) - 1, ASP)
  BY DEF SetIndexLocal, Wild, runtime_error
<1>5. SP - Arg(6) - Arg(5) - 1 = SP - (Arg(5) + Arg(6) + 1)
      /\ Arg(5) + Arg(6) + 1 \in Nat
  BY <1>3
<1> QED
  BY <1>1, <1>2, <1>4, <1>5, TakeStep

(* A load of an element replaces the vector, its dimensions and the indices *)
(* by a value or by a new vector.                                           *)
LEMMA GetIndexStep ==
  ASSUME DInv, IInv', status' = "run", UNCHANGED image, GetIndex
  PROVE  FrameInv'
<1>1. status = "run" /\ Op = OP_GET_INDEX /\ Fetch(OP_GET_INDEX)
  BY DEF GetIndex, Fetch
<1>2. Op \notin Peeks /\ Effect(Arg(1) + Arg(2) + 1, << 0 >>)
  BY <1>1, Groups, Effects DEF Alone
<1>3. Arg(1) \in Nat /\ Arg(2) \in Nat /\ SP \in Int
  BY <1>1, HandlerFacts, Operands DEF DInv, TwoOperandBytes
<1> DEFINE p == Arg(1) + Arg(2) + 1
<1>4. SP - Arg(2) - Arg(1) - 1 = SP - p /\ p \in Nat
  BY <1>3
<1> DEFINE dims  == Dimensions(Arg(2))
           ixs   == Indices(Arg(1), Arg(2))
           vec   == peekv(Arg(2) + Arg(1) + 1)
           start == vec.i + index_flattened(dims, Padded(ixs, Arg(2)))
           count == Capped(ElementCount(dims, Arg(1)))
<1>5. CASE \E v : pushv(NextIP, SP - p, ASP, v)
  <2>1. PICK v : pushv(NextIP, SP - p, ASP, v)
    BY <1>5
  <2> HIDE DEF p
  <2> QED
    BY <1>1, <1>2, <1>4, <2>1, PushvStep DEF p
<1>6. CASE \E v, asp : /\ UNCHANGED framese
                       /\ Resume(NextIP, SP - p + 1, asp)
                       /\ stack' = [stack EXCEPT ![SP - p] = v]
  <2>1. PICK v, asp : /\ UNCHANGED framese
                      /\ Resume(NextIP, SP - p + 1, asp)
                      /\ stack' = [stack EXCEPT ![SP - p] = v]
    BY <1>6
  <2>2. p <= Len(ShapeOf(framese))
    BY <1>1, <1>2, <1>4, EnoughThere DEF Effect
  <2> HIDE DEF p
  <2> QED
    BY <1>1, <1>2, <1>4, <2>1, <2>2, PushStep DEF p
<1>7. \/ \E v : pushv(NextIP, SP - p, ASP, v)
      \/ \E v, asp : /\ UNCHANGED framese
                     /\ Resume(NextIP, SP - p + 1, asp)
                     /\ stack' = [stack EXCEPT ![SP - p] = v]
  <2> HIDE DEF p
  <2> QED
    BY <1>4 DEF GetIndex, Wild, runtime_error
<1> QED
  BY <1>5, <1>6, <1>7

(* The jumps keep the stack.                                                *)
LEMMA JumpStep ==
  ASSUME DInv, IInv', status' = "run", UNCHANGED image,
         Skip \/ SkipBack \/ SkipF
  PROVE  FrameInv'
<1>1. status = "run" /\ Op \in Jumps
  BY DEF Skip, SkipBack, SkipF, Fetch, Jumps
<1>2. Pops(Fn(framese), IP) = 0 /\ Pushes(image, Frame.fn, IP) = << >>
  BY <1>1, JumpEffects
<1>3. SP - 0 = SP /\ 0 <= Len(ShapeOf(framese))
  BY <1>1, FrameFacts, CurrentFacts DEF DInv, IInv
<1>4. UNCHANGED << framese, stack >>
  BY DEF Skip, SkipBack, SkipF, Goto
<1>5. PICK t \in Targets(Fn(framese), IP) : Resume(t, SP, ASP)
  <2>1. CASE Skip
    <3>1. Op = OP_SKIP_LONG /\ Resume(NextIP + ArgLong(1), SP, ASP)
      BY <2>1 DEF Skip, Fetch, Goto
    <3> QED
      BY <3>1, JumpEffects
  <2>2. CASE SkipBack
    <3>1. Op = OP_SKIP_BACK_LONG /\ Resume(NextIP - ArgLong(1), SP, ASP)
      BY <2>2 DEF SkipBack, Fetch, Goto
    <3> QED
      BY <3>1, JumpEffects
  <2>3. CASE SkipF
    <3>1. /\ Op = OP_SKIPF_LONG /\ NextIP + 0 = NextIP
          /\ Resume(NextIP + (IF peekv(1).i = 0 THEN ArgLong(1) ELSE 0),
                    SP, ASP)
      BY <2>3, HandlerFacts DEF SkipF, Fetch, Goto, DInv
    <3> QED
      BY <3>1, JumpEffects
  <2> QED
    BY <2>1, <2>2, <2>3
<1> QED
  BY <1>1, <1>2, <1>3, <1>4, <1>5, DropStep

-----------------------------------------------------------------------------
(* Handlers that write below the top of the stack.                          *)

(* What a frame holds.                                                      *)
LEMMA FrameHolds ==
  ASSUME DInv, status = "run", NEW f \in 0 .. framese
  PROVE  /\ framestack[f].fn \in DOMAIN image.fns
         /\ HeaderOK(image, framestack[f].fn)
         /\ Fn(f) = image.fns[framestack[f].fn]
         /\ ShapeOf(f) \in Seq({0} \cup (DOMAIN image.fns \ {1}))
         /\ Len(ShapeOf(f)) \in Nat /\ framestack[f].base \in Nat
         /\ f <= framestack[f].base
         /\ framestack[f].env = Fn(f).level
         /\ \A k \in 1 .. Len(ShapeOf(f)) :
              /\ framestack[f].base + k - 1 \in CellIndex
              /\ ShapeOf(f)[k] # 0 =>
                   stack[framestack[f].base + k - 1] =
                     FnV(ShapeOf(f)[k], image.fns[ShapeOf(f)[k]].level)
<1>1. /\ framestack[f].fn \in DOMAIN image.fns
      /\ HeaderOK(image, framestack[f].fn)
      /\ Fn(f) = image.fns[framestack[f].fn]
      /\ framestack[f].ip \in DOMAIN Fn(f).shape
      /\ framestack[f].env = Fn(f).level
  BY DEF DInv, FrameInv, Discipline, FramesKnown, WellFormed, Fn
<1>2. ShapeOf(f) \in Seq({0} \cup (DOMAIN image.fns \ {1}))
  BY <1>1 DEF HeaderOK, ShapeOf
<1>3. /\ Len(ShapeOf(f)) \in Nat /\ framestack[f].base \in Nat
      /\ f <= framestack[f].base
  BY <1>2 DEF DInv, FrameInv, Discipline, HeightsAgree, FramesStacked
<1>4. framese \in Nat /\ StackMax \in Nat \ {0}
  BY CurrentFacts, SizesAssumption
<1>5. ASSUME NEW k \in 1 .. Len(ShapeOf(f))
      PROVE  framestack[f].base + k - 1 \in CellIndex
  <2>1. CASE f = framese
    <3>1. framestack[f].base + Len(ShapeOf(f)) <= StackMax
      BY <2>1, CurrentFacts DEF Frame
    <3>2. StackMax \in Nat /\ StackMax <= StackMax
      BY ONLY <1>4
    <3> QED
      BY ONLY <1>3, <3>1, <3>2, k \in 1 .. Len(ShapeOf(f)), CellOfFrame
  <2>2. CASE f # framese
    <3>1. f \in 0 .. framese - 1
      BY <1>4, <2>2
    <3> QED
      BY <3>1, Below
  <2> QED
    BY <2>1, <2>2
<1>6. \A k \in 1 .. Len(ShapeOf(f)) :
        ShapeOf(f)[k] # 0 =>
          stack[framestack[f].base + k - 1] =
            FnV(ShapeOf(f)[k], image.fns[ShapeOf(f)[k]].level)
  BY DEF DInv, FrameInv, Discipline, FunctionSlots
<1> QED
  BY <1>1, <1>2, <1>3, <1>5, <1>6

(* Two frames: the lower one ends where the upper one begins, or before.    *)
LEMMA FramesApart ==
  ASSUME DInv, status = "run", NEW f \in 0 .. framese, NEW g \in 0 .. framese,
         f < g
  PROVE  /\ Len(ShapeOf(f)) > 0
         /\ framestack[f].base + Len(ShapeOf(f)) <= framestack[g].base
<1>1. framese \in Nat /\ f < framese
  BY CurrentFacts
<1> QED
  BY <1>1 DEF DInv, FrameInv, Discipline, HeightsAgree, FramesStacked, Height

(* A handler that takes p values off and writes v to a cell in which no     *)
(* shape promises a function.                                               *)
LEMMA StoreStep ==
  ASSUME DInv, IInv', status = "run", status' = "run",
         UNCHANGED << image, framese >>,
         NEW p \in Nat, Effect(p, << >>), p <= Len(ShapeOf(framese)),
         NEW slot, NEW v, stack' = [stack EXCEPT ![slot] = v],
         \A f \in 0 .. framese : /\ framestack'[f].fn = framestack[f].fn
                                 /\ framestack'[f].env = framestack[f].env
                                 /\ framestack'[f].base = framestack[f].base,
         \A f \in 0 .. framese - 1 : /\ framestack'[f].ip = framestack[f].ip
                                     /\ framestack'[f].sp = framestack[f].sp,
         framestack'[framese].ip = NextIP,
         framestack'[framese].sp = SP - p,
         \A f \in 0 .. framese : \A k \in 1 .. Len(ShapeOf(f)) :
           (f = framese => k <= Len(ShapeOf(f)) - p) /\ ShapeOf(f)[k] # 0
             => framestack[f].base + k - 1 # slot,
         framese > 0 => slot # 0
  PROVE  FrameInv'
<1> DEFINE s     == ShapeOf(framese)
           after == After(image, Frame.fn, IP)
           n     == Len(s) - p
<1>1. /\ Len(s) \in Nat /\ n \in Nat /\ Len(s) = n + p
      /\ SP - p = Frame.base + n
      /\ Frame.base \in Nat /\ framese \in Nat /\ framese \in 0 .. framese
  BY CurrentFacts
<1>2. /\ Len(after) = n
      /\ \A k \in 1 .. n : after[k] = s[k]
  BY AfterDrop DEF Effect
<1>3. stack \in [CellIndex -> Value] /\ 0 \in CellIndex
  BY SizesAssumption DEF DInv, IInv, TypeOK, CellIndex
<1>4. \A c \in CellIndex : c # slot => stack'[c] = stack[c]
  BY <1>3
<1>5. \A f \in 0 .. framese - 1 : \A k \in 1 .. Len(ShapeOf(f)) :
        ShapeOf(f)[k] # 0 => stack'[framestack[f].base + k - 1] =
                               stack[framestack[f].base + k - 1]
  <2>1. \A f \in 0 .. framese - 1 : f \in 0 .. framese /\ f # framese
    BY <1>1
  <2> QED
    BY <1>4, <2>1, FrameHolds
<1>6. ASSUME NEW k \in 1 .. Len(after), after[k] # 0
      PROVE  stack'[Frame.base + k - 1] =
               FnV(after[k], image.fns[after[k]].level)
  <2>1. /\ k \in 1 .. Len(s) /\ k <= Len(s) - p
        /\ after[k] = s[k] /\ s[k] # 0
    BY <1>1, <1>2, <1>6
  <2>2. /\ Frame.base + k - 1 \in CellIndex
        /\ stack[Frame.base + k - 1] = FnV(s[k], image.fns[s[k]].level)
    BY <1>1, <2>1, FrameHolds DEF Frame
  <2>3. Frame.base + k - 1 # slot
    BY <1>1, <2>1 DEF Frame
  <2> QED
    BY <1>4, <2>1, <2>2, <2>3
<1>7. framese > 0 => stack'[0] = stack[0]
  BY <1>3, <1>4
<1>8. NextIP \in Targets(Fn(framese), IP)
  BY DEF Effect
<1>9. framestack'[framese].sp = Frame.base + Len(after)
  BY <1>1, <1>2
<1> HIDE DEF s, n
<1>10. GoesOn(NextIP, after)
  BY <1>5, <1>6, <1>7, <1>8, <1>9 DEF GoesOn
<1> QED
  BY <1>10, StepKeeps

(* A function of level 1 runs above the root, one of a higher level above   *)
(* the program.                                                             *)
LEMMA Levels ==
  ASSUME DInv, status = "run"
  PROVE  /\ Frame.env = Fn(framese).level /\ Fn(framese).level \in Nat
         /\ Fn(framese).level > 0 => framese > 0
         /\ Fn(framese).level > 1 => framese > 1
<1>1. framese \in Nat /\ framese \in 0 .. framese
  BY CurrentFacts
<1>2. /\ Frame.env = Fn(framese).level
      /\ framese = 0 <=> Frame.fn = 1
      /\ framese = 1 => Frame.fn = 2
  BY <1>1 DEF DInv, FrameInv, Discipline, FramesKnown, Frame
<1>3. /\ Fn(framese).level \in Nat
      /\ Fn(framese).level = 0 <=> Frame.fn = 1
      /\ Fn(framese).level = 1 <=> Frame.fn = 2
  BY CurrentFacts DEF HeaderOK
<1> QED
  BY <1>1, <1>2, <1>3

(* The program's variables and functions, as the functions see them.        *)
LEMMA OuterCells ==
  ASSUME DInv, status = "run", framese > 1,
         NEW k \in Nat, k < Len(image.fns[2].slots)
  PROVE  /\ 1 \in 0 .. framese /\ k + 1 \in 1 .. Len(ShapeOf(1))
         /\ ShapeOf(1)[k + 1] = image.fns[2].slots[k + 1]
         /\ framestack[1].base + k = framestack[1].base + (k + 1) - 1
<1>1. 1 \in 0 .. framese
  BY CurrentFacts
<1>2. Len(ShapeOf(1)) \in Nat /\ framestack[1].base \in Nat
  BY <1>1, FrameHolds
<1>3. Len(image.fns[2].slots) \in Nat
  BY DEF DInv, WellFormed, HeaderOK
<1>4. /\ Len(image.fns[2].slots) < Len(ShapeOf(1))
      /\ \A i \in 1 .. Len(image.fns[2].slots) :
           ShapeOf(1)[i] = image.fns[2].slots[i]
  BY DEF DInv, FrameInv, Discipline, ProgramSlots
<1>5. k + 1 \in 1 .. Len(image.fns[2].slots) /\ k + 1 \in 1 .. Len(ShapeOf(1))
  BY <1>2, <1>3, <1>4
<1> QED
  BY <1>1, <1>2, <1>4, <1>5

(* A load of a local finds the function the verifier counts on.             *)
LEMMA GetLocalStep ==
  ASSUME DInv, IInv', status' = "run", UNCHANGED image, GetLocal
  PROVE  FrameInv'
<1> DEFINE off == ArgLong(1)
           k   == ArgLong(3)
           lev == Fn(framese).level
           f   == FrameAt(off)
           a   == framestack[f].base + k
           x   == IF off = 0 THEN ShapeOf(framese)[k + 1]
                  ELSE OuterSlot(image, lev - off, k)
<1>1. status = "run" /\ Op = OP_GET_LOCAL_LONG /\ Fetch(OP_GET_LOCAL_LONG)
  BY DEF GetLocal, Fetch
<1>2. Op \notin Peeks /\ Effect(0, << x >>)
  BY <1>1, Groups, LocalEffect DEF Alone
<1>3. off \in Nat /\ k \in Nat
  BY <1>1, LongType, Operands DEF DInv, IInv
<1>4. /\ framese \in Nat /\ framese \in 0 .. framese
      /\ Frame.env = lev /\ lev \in Nat
      /\ lev > 0 => framese > 0
      /\ lev > 1 => framese > 1
  BY <1>1, CurrentFacts, Levels
<1>5. /\ off <= lev
      /\ off = 0 => k < Len(ShapeOf(framese))
  BY <1>1, CurrentFacts, SameInstruction DEF InstructionOK, AddressOK
<1>6. stack \in [CellIndex -> Value] /\ 0 \in CellIndex
  BY SizesAssumption DEF DInv, IInv, TypeOK, CellIndex
<1>7. pushv(NextIP, SP - 0, ASP, Slot(a))
  <2>1. SP - 0 = SP
    BY FrameFacts DEF DInv, IInv
  <2> QED
    BY <2>1 DEF GetLocal, Wild
<1>8. ASSUME x # 0
      PROVE  Slot(a) = FnV(x, image.fns[x].level)
  <2>1. CASE off = 0
    <3>1. f = framese /\ k + 1 \in 1 .. Len(ShapeOf(framese))
      BY <1>1, <1>3, <1>5, <2>1, CurrentFacts DEF FrameAt
    <3>2. a = framestack[framese].base + (k + 1) - 1
      BY <1>1, <1>3, <1>4, <3>1, FrameHolds
    <3>3. x = ShapeOf(framese)[k + 1]
      BY <2>1
    <3>4. a \in CellIndex /\ stack[a] = FnV(x, image.fns[x].level)
      BY <1>1, <1>4, <1>8, <3>1, <3>2, <3>3, FrameHolds
    <3> QED
      BY <1>6, <3>4 DEF Slot, Cell
  <2>2. CASE off # 0 /\ lev = off /\ k = 0
    <3>1. f = 0 /\ x = 2
      BY <1>3, <1>4, <2>2 DEF FrameAt, OuterSlot
    <3>2. a = 0 /\ framese > 0
      BY <1>1, <1>3, <1>4, <2>2, <3>1 DEF DInv, FrameInv, ProgramCell
    <3>3. stack[0] = FnV(2, image.fns[2].level)
      BY <1>1, <3>2 DEF DInv, FrameInv, ProgramCell
    <3> QED
      BY <1>6, <3>1, <3>2, <3>3 DEF Slot, Cell
  <2>3. CASE off # 0 /\ ~(lev = off /\ k = 0)
    <3>1. x = OuterSlot(image, lev - off, k)
      BY <2>3
    <3>2. /\ lev - off = 1 /\ k < Len(image.fns[2].slots)
          /\ x = image.fns[2].slots[k + 1]
      BY <1>3, <1>4, <1>8, <2>3, <3>1 DEF OuterSlot
    <3>3. f = 1 /\ framese > 1
      BY <1>3, <1>4, <2>3, <3>2 DEF FrameAt
    <3>4. /\ 1 \in 0 .. framese /\ k + 1 \in 1 .. Len(ShapeOf(1))
          /\ ShapeOf(1)[k + 1] = x
          /\ a = framestack[1].base + (k + 1) - 1
      BY <1>1, <1>3, <3>2, <3>3, OuterCells
    <3>5. a \in CellIndex /\ stack[a] = FnV(x, image.fns[x].level)
      BY <1>1, <1>8, <3>4, FrameHolds
    <3> QED
      BY <1>6, <3>5 DEF Slot, Cell
  <2> QED
    BY <2>1, <2>2, <2>3
<1> HIDE DEF a, x
<1> QED
  BY <1>1, <1>2, <1>7, <1>8, PushvStep

(* Cells of frames of which one ends before the other begins.               *)
LEMMA CellsApart ==
  \A b, c, m, k \in Nat : b + m <= c =>
    /\ \A i \in 1 .. m : b + i - 1 # c + k
    /\ k + 1 <= m => \A i \in Nat \ {0} : c + i - 1 # b + k
OBVIOUS

(* Two positions of one frame are two cells.                                *)
LEMMA OtherCell ==
  \A b, k \in Nat : \A i \in Nat \ {0} : i # k + 1 => b + i - 1 # b + k
OBVIOUS

(* A store to a local overwrites no function: neither in its own frame nor  *)
(* among the program's variables.                                           *)
LEMMA SetLocalStep ==
  ASSUME DInv, IInv', status' = "run", UNCHANGED image, SetLocal
  PROVE  FrameInv'
<1> DEFINE off  == ArgLong(1)
           k    == ArgLong(3)
           lev  == Fn(framese).level
           f    == FrameAt(off)
           slot == framestack[f].base + k
<1>1. status = "run" /\ Op = OP_SET_LOCAL_LONG /\ Fetch(OP_SET_LOCAL_LONG)
  BY DEF SetLocal, Fetch
<1>2. Op \notin Peeks /\ Effect(1, << >>)
  <2>1. Op \in DropOps
    BY <1>1 DEF DropOps
  <2> QED
    BY <2>1, Groups, Effects
<1>3. 1 <= Len(ShapeOf(framese))
  BY <1>1, <1>2, EnoughThere DEF Effect
<1>4. off \in Nat /\ k \in Nat
  BY <1>1, LongType, Operands DEF DInv, IInv
<1>5. /\ framese \in Nat /\ framese \in 0 .. framese
      /\ Frame.env = lev /\ lev \in Nat
      /\ lev > 0 => framese > 0
      /\ lev > 1 => framese > 1
  BY <1>1, CurrentFacts, Levels
<1>6. /\ off <= lev
      /\ off = 0 => /\ k + 1 < Len(ShapeOf(framese))
                    /\ ShapeOf(framese)[k + 1] = 0
      /\ off # 0 => /\ lev - off = 1
                    /\ k < Len(image.fns[2].slots)
                    /\ image.fns[2].slots[k + 1] = 0
  BY <1>1, CurrentFacts, SameInstruction DEF InstructionOK, AddressOK
<1>7. /\ Resume(NextIP, SP - 1, ASP) /\ UNCHANGED framese
      /\ stack' = [stack EXCEPT ![slot] = peekv(1)]
  BY DEF SetLocal, Wild
(* The frame the slot belongs to, and that it is one of its plain values.   *)
<1>8. /\ f \in 0 .. framese /\ k + 1 \in 1 .. Len(ShapeOf(f))
      /\ ShapeOf(f)[k + 1] = 0
      /\ framese > 0 => f > 0
  <2>1. CASE off = 0
    <3>1. f = framese
      BY <2>1 DEF FrameAt
    <3>2. Len(ShapeOf(framese)) \in Nat
      BY <1>1, CurrentFacts
    <3> QED
      BY <1>4, <1>5, <1>6, <2>1, <3>1, <3>2
  <2>2. CASE off # 0
    <3>1. f = 1 /\ framese > 1
      BY <1>4, <1>5, <1>6, <2>2 DEF FrameAt
    <3> QED
      BY <1>1, <1>4, <1>6, <2>2, <3>1, OuterCells
  <2> QED
    BY <2>1, <2>2
<1>9. f \in Nat /\ framestack[f].base \in Nat /\ f <= framestack[f].base
  BY <1>1, <1>8, FrameHolds
<1>10. framese > 0 => slot # 0
  BY <1>4, <1>8, <1>9
<1>11. ASSUME NEW g \in 0 .. framese, NEW i \in 1 .. Len(ShapeOf(g)),
              ShapeOf(g)[i] # 0
       PROVE  framestack[g].base + i - 1 # slot
  <2>1. /\ framestack[g].base \in Nat /\ Len(ShapeOf(g)) \in Nat
        /\ Len(ShapeOf(f)) \in Nat
    BY <1>1, <1>8, FrameHolds
  <2>2. CASE g = f
    <3>1. i # k + 1
      BY <1>8, <1>11, <2>2
    <3>2. i \in Nat \ {0}
      BY <2>1
    <3> QED
      BY <1>4, <1>9, <2>2, <3>1, <3>2, OtherCell
  <2>3. CASE g < f
    <3>1. framestack[g].base + Len(ShapeOf(g)) <= framestack[f].base
      BY <1>1, <1>8, <2>3, FramesApart
    <3> QED
      BY <1>4, <1>9, <2>1, <3>1, CellsApart, ZenonT(60)
  <2>4. CASE f < g
    <3>1. framestack[f].base + Len(ShapeOf(f)) <= framestack[g].base
      BY <1>1, <1>8, <2>4, FramesApart
    <3>2. k + 1 <= Len(ShapeOf(f))
      BY <1>4, <1>8
    <3>3. i \in Nat \ {0}
      BY <2>1
    <3> QED
      BY <1>4, <1>9, <2>1, <3>1, <3>2, <3>3, CellsApart
  <2> QED
    BY <1>8, <1>9, <2>2, <2>3, <2>4
<1>12. /\ framestack'[framese].ip = NextIP
       /\ framestack'[framese].sp = SP - 1
       /\ \A g \in 0 .. framese : /\ framestack'[g].fn = framestack[g].fn
                                  /\ framestack'[g].env = framestack[g].env
                                  /\ framestack'[g].base = framestack[g].base
       /\ \A g \in 0 .. framese - 1 : framestack'[g] = framestack[g]
  <2>1. TypeOK
    BY DEF DInv, IInv
  <2> QED
    BY <1>7, <2>1, ResumeMoves
<1> DEFINE v == peekv(1)
<1>13. stack' = [stack EXCEPT ![slot] = v]
  BY <1>7
<1> HIDE DEF slot, v, f, k, off, lev
<1>14. \A g \in 0 .. framese : \A i \in 1 .. Len(ShapeOf(g)) :
         (g = framese => i <= Len(ShapeOf(g)) - 1) /\ ShapeOf(g)[i] # 0
           => framestack[g].base + i - 1 # slot
  BY <1>11
<1>15. \A g \in 0 .. framese - 1 : /\ framestack'[g].ip = framestack[g].ip
                                   /\ framestack'[g].sp = framestack[g].sp
  BY <1>12
<1>16. UNCHANGED << image, framese >>
  BY <1>7
<1>17. \A g \in 0 .. framese : /\ framestack'[g].fn = framestack[g].fn
                               /\ framestack'[g].env = framestack[g].env
                               /\ framestack'[g].base = framestack[g].base
  BY <1>12
<1>18. framestack'[framese].ip = NextIP /\ framestack'[framese].sp = SP - 1
  BY <1>12
<1>19. status = "run" /\ 1 \in Nat /\ Effect(1, << >>)
  BY <1>1, <1>2
<1> QED
  BY <1>3, <1>10, <1>13, <1>14, <1>15, <1>16, <1>17, <1>18, <1>19, StoreStep

(* The returned vector is a plain value at the top of the stack.            *)
LEMMA ShiftStep ==
  ASSUME DInv, IInv', status' = "run", UNCHANGED image, ShiftAstackentToBase
  PROVE  FrameInv'
<1> DEFINE s == ShapeOf(framese)
<1>1. status = "run" /\ Op = OP_SHIFT_ASTACKENT_TO_BASE
  BY DEF ShiftAstackentToBase, Fetch
<1>2. Effect(0, << >>)
  BY <1>1, Effects DEF Stays
<1>3. /\ framese \in Nat /\ framese \in 0 .. framese
      /\ Len(s) \in Nat /\ Frame.base \in Nat /\ SP = Frame.base + Len(s)
  BY <1>1, CurrentFacts
<1>4. Len(s) >= 1 /\ s[Len(s)] = 0
  BY <1>1, CurrentFacts, SameInstruction DEF InstructionOK, ReturnOK, Needs
<1> DEFINE caller == framese - 1
           asp == framestack[caller].asp
           vec == peekv(1)
<1>5. /\ UNCHANGED framese /\ framese # 0
      /\ stack' = [stack EXCEPT ![SP - 1] = VecV(asp, vec.n)]
      /\ framestack' = [framestack EXCEPT ![caller].asp = asp + vec.n,
                                          ![framese].ip = NextIP]
  BY DEF ShiftAstackentToBase, Wild
<1>6. /\ framestack \in [FrameIndex -> FrameType]
      /\ \A f \in 0 .. framese : f \in FrameIndex
      /\ caller \in 0 .. framese /\ caller # framese
  BY <1>3, <1>5, SizesAssumption DEF DInv, IInv, TypeOK, FrameIndex
<1>7. /\ framestack'[framese] = [framestack[framese] EXCEPT !.ip = NextIP]
      /\ framestack'[caller] = [framestack[caller] EXCEPT !.asp = asp + vec.n]
      /\ \A f \in 0 .. framese :
           f # framese /\ f # caller => framestack'[f] = framestack[f]
      /\ \A f \in 0 .. framese : framestack[f] \in FrameType
  BY <1>3, <1>5, <1>6
<1>8. /\ \A f \in 0 .. framese : /\ framestack'[f].fn = framestack[f].fn
                                 /\ framestack'[f].env = framestack[f].env
                                 /\ framestack'[f].base = framestack[f].base
                                 /\ framestack'[f].sp = framestack[f].sp
      /\ \A f \in 0 .. framese : f # framese =>
           framestack'[f].ip = framestack[f].ip
      /\ framestack'[framese].ip = NextIP
  <2>1. framestack'[framese].ip = NextIP
    BY <1>3, <1>7 DEF FrameType
  <2> SUFFICES ASSUME NEW f \in 0 .. framese
               PROVE  /\ framestack'[f].fn = framestack[f].fn
                      /\ framestack'[f].env = framestack[f].env
                      /\ framestack'[f].base = framestack[f].base
                      /\ framestack'[f].sp = framestack[f].sp
                      /\ f # framese => framestack'[f].ip = framestack[f].ip
    BY <2>1
  <2>2. CASE f = framese
    BY <1>7, <2>2 DEF FrameType
  <2>3. CASE f = caller
    BY <1>6, <1>7, <2>3 DEF FrameType
  <2>4. CASE f # framese /\ f # caller
    BY <1>7, <2>4
  <2> QED
    BY <2>2, <2>3, <2>4
<1>9. \A f \in 0 .. framese - 1 : f \in 0 .. framese /\ f # framese
  BY <1>3
<1>10. SP - 0 = SP /\ 0 <= Len(s)
  BY <1>3
<1>11. framestack'[framese].sp = SP - 0
  BY <1>3, <1>8, <1>10 DEF SP, Frame
<1>12. SP - 1 # 0
  <2>1. framese <= Frame.base
    BY <1>1, Below
  <2> QED
    BY <1>3, <1>4, <1>5, <2>1
<1>13. ASSUME NEW f \in 0 .. framese, NEW k \in 1 .. Len(ShapeOf(f)),
              ShapeOf(f)[k] # 0
       PROVE  framestack[f].base + k - 1 # SP - 1
  <2>1. framestack[f].base \in Nat /\ Len(ShapeOf(f)) \in Nat
    BY <1>1, FrameHolds
  <2>2. CASE f = framese
    <3>1. k # Len(s) /\ framestack[f].base = Frame.base /\ k \in 1 .. Len(s)
      BY <1>4, <1>13, <2>2 DEF Frame
    <3> QED
      BY <1>3, <3>1
  <2>3. CASE f # framese
    <3>1. framestack[f].base + k - 1 < Frame.base
      BY <1>1, <1>3, <2>3, Below
    <3> QED
      BY <1>3, <1>4, <2>1, <3>1
  <2> QED
    BY <2>2, <2>3
<1>14. \A f \in 0 .. framese - 1 : /\ framestack'[f].ip = framestack[f].ip
                                  /\ framestack'[f].sp = framestack[f].sp
  BY <1>8, <1>9
<1>18. /\ \A f \in 0 .. framese : /\ framestack'[f].fn = framestack[f].fn
                                  /\ framestack'[f].env = framestack[f].env
                                  /\ framestack'[f].base = framestack[f].base
       /\ framestack'[framese].ip = NextIP
  BY <1>8
<1>15. 0 <= Len(ShapeOf(framese)) /\ UNCHANGED << image, framese >>
  BY <1>5, <1>10
<1> DEFINE v == VecV(asp, vec.n)
           slot == SP - 1
<1>16. stack' = [stack EXCEPT ![slot] = v]
  BY <1>5
<1>17. /\ \A f \in 0 .. framese : \A k \in 1 .. Len(ShapeOf(f)) :
            (f = framese => k <= Len(ShapeOf(f)) - 0) /\ ShapeOf(f)[k] # 0
              => framestack[f].base + k - 1 # slot
       /\ framese > 0 => slot # 0
       /\ 0 \in Nat
  BY <1>12, <1>13
<1> HIDE DEF s, caller, asp, vec, v, slot
<1> QED
  BY <1>1, <1>2, <1>11, <1>14, <1>15, <1>16, <1>17, <1>18, StoreStep

-----------------------------------------------------------------------------
(* Calls and returns.                                                       *)

(* The arithmetic of a call: a frame of n values at base b calls with a     *)
(* arguments.                                                               *)
LEMMA CallArithmetic ==
  \A b, n, a \in Nat : \A sp : a + 1 <= n /\ sp = b + n =>
    /\ n - (a + 1) + 1 = n - a /\ n - a \in 1 .. n
    /\ n - (a + 1) \in Nat /\ n - (a + 1) < n - a
    /\ sp - a = b + (n - a) /\ sp - a \in Nat
    /\ (sp - a) + a = sp
    /\ b + (n - a) - 1 = sp - (a + 1)
OBVIOUS

(* A call: the callee's frame begins where its caller's shape ends.         *)
LEMMA CallStep ==
  ASSUME DInv, IInv', status' = "run", UNCHANGED image, Call
  PROVE  FrameInv'
<1> DEFINE s     == ShapeOf(framese)
           n     == Len(s)
           arity == Arg(1)
           g     == s[n - arity]
           after == After(image, Frame.fn, IP)
           c     == Fn(framese).shape[NextIP]
           new   == framese + 1
           zeros == image.fns[g].shape[0]
<1>1. status = "run" /\ Op = OP_CALL /\ Fetch(OP_CALL)
  BY DEF Call, Fetch
<1>2. Op \notin Peeks /\ Effect(arity + 1, << 0 >>)
  BY <1>1, Groups, Effects DEF Alone
<1>3. /\ framese \in Nat /\ framese \in 0 .. framese
      /\ n \in Nat /\ Frame.base \in Nat /\ SP = Frame.base + n
      /\ SP <= StackMax /\ s \in Seq({0} \cup (DOMAIN image.fns \ {1}))
  BY <1>1, CurrentFacts
<1>4. arity \in Nat
  BY <1>1, HandlerFacts, Operands DEF DInv, OneOperandByte
<1>5. arity + 1 <= n /\ arity + 1 \in Nat
  BY <1>1, <1>2, <1>4, EnoughThere DEF Effect
<1>6. /\ n - (arity + 1) + 1 = n - arity /\ n - arity \in 1 .. n
      /\ n - (arity + 1) \in Nat /\ n - (arity + 1) < n - arity
      /\ SP - arity = Frame.base + (n - arity) /\ SP - arity \in Nat
      /\ (SP - arity) + arity = SP
      /\ Frame.base + (n - arity) - 1 = SP - (arity + 1)
  <2> HIDE DEF n, arity
  <2> QED
    BY <1>3, <1>4, <1>5, CallArithmetic
<1>7. /\ g # 0 /\ image.fns[g].arity = arity
      /\ Frame.fn = 1 => s = << 2 >>
      /\ Frame.fn = 2 =>
           /\ Len(image.fns[2].slots) < Len(c)
           /\ \A k \in 1 .. Len(image.fns[2].slots) :
                c[k] = image.fns[2].slots[k]
  <2>1. CallOK(image, Frame.fn, IP)
    BY <1>1, CurrentFacts DEF InstructionOK
  <2>2. /\ OpAt(image.fns[Frame.fn], IP) = OP_CALL
        /\ ArgAt(image.fns[Frame.fn], IP, 1) = arity
        /\ NextAt(image.fns[Frame.fn], IP) = NextIP
        /\ image.fns[Frame.fn] = Fn(framese)
        /\ Fn(framese).shape[IP] = s
    BY <1>1, SameInstruction, CurrentFacts
  <2> QED
    BY <2>1, <2>2 DEF CallOK
<1>8. g \in DOMAIN image.fns /\ g # 1
  BY <1>3, <1>6, <1>7
(* The machine calls the function that the verifier names.                  *)
<1>9. peekv(arity + 1) = FnV(g, image.fns[g].level)
  <2>1. /\ Frame.base + (n - arity) - 1 \in CellIndex
        /\ stack[Frame.base + (n - arity) - 1] = FnV(g, image.fns[g].level)
    BY <1>1, <1>3, <1>6, <1>7, FrameHolds DEF Frame
  <2>2. stack \in [CellIndex -> Value]
    BY DEF DInv, IInv, TypeOK
  <2> QED
    BY <1>6, <2>1, <2>2 DEF peekv, Slot, Cell
<1>10. /\ framese' = new /\ framese # StackMax /\ UNCHANGED stack
       /\ framestack' = [framestack EXCEPT
            ![framese].ip = NextIP,
            ![framese + 1] =
              [ip |-> 0, sp |-> SP, base |-> SP - arity, asp |-> ASP,
               fn |-> peekv(arity + 1).i, env |-> peekv(arity + 1).n]]
  BY DEF Call, Wild
<1>11. /\ framestack \in [FrameIndex -> FrameType]
       /\ \A f \in 0 .. new : f \in FrameIndex
  BY <1>3, <1>10, SizesAssumption DEF DInv, IInv, TypeOK, FrameIndex
<1>12. /\ new \in 0 .. new /\ framese \in 0 .. new /\ framese # new
       /\ \A f \in 0 .. framese : f \in 0 .. new /\ f # new
       /\ \A f \in 0 .. new : f # new => f \in 0 .. framese
       /\ \A f \in 0 .. framese :
            f # framese => f + 1 \in 0 .. framese /\ f < framese
  BY <1>3
<1>13. /\ framestack'[new].ip = 0 /\ framestack'[new].sp = SP
       /\ framestack'[new].base = SP - arity /\ framestack'[new].fn = g
       /\ framestack'[new].env = image.fns[g].level
  <2>1. framestack'[new] =
          [ip |-> 0, sp |-> SP, base |-> SP - arity, asp |-> ASP,
           fn |-> peekv(arity + 1).i, env |-> peekv(arity + 1).n]
    BY <1>10, <1>11, <1>12
  <2> QED
    BY <1>9, <2>1 DEF FnV
<1>14. /\ framestack'[framese].ip = NextIP
       /\ \A f \in 0 .. framese : /\ framestack'[f].fn = framestack[f].fn
                                  /\ framestack'[f].env = framestack[f].env
                                  /\ framestack'[f].base = framestack[f].base
                                  /\ framestack'[f].sp = framestack[f].sp
       /\ \A f \in 0 .. framese :
            f # framese => framestack'[f].ip = framestack[f].ip
  <2>1. framestack'[framese] = [framestack[framese] EXCEPT !.ip = NextIP]
    BY <1>10, <1>11, <1>12
  <2>2. \A f \in 0 .. framese : f # framese => framestack'[f] = framestack[f]
    BY <1>10, <1>11, <1>12
  <2>3. framestack[framese] \in FrameType
    BY <1>11, <1>12
  <2>4. /\ framestack'[framese].ip = NextIP
        /\ framestack'[framese].fn = framestack[framese].fn
        /\ framestack'[framese].env = framestack[framese].env
        /\ framestack'[framese].base = framestack[framese].base
        /\ framestack'[framese].sp = framestack[framese].sp
    BY <2>1, <2>3 DEF FrameType
  <2> QED
    BY <2>2, <2>4
(* The shapes: the caller's below the result, the callee's arguments.       *)
<1>15. /\ NextIP \in DOMAIN Fn(framese).shape
       /\ Len(c) = n - arity /\ c[Len(c)] = 0
       /\ \A k \in 1 .. Len(c) : c[k] # 0 => k \in 1 .. n /\ c[k] = s[k]
  <2>1. /\ Len(after) = n - arity
        /\ \A k \in 1 .. n - (arity + 1) : after[k] = s[k]
        /\ after[n - arity] = 0
    BY <1>1, <1>2, <1>5, <1>6, AfterPush DEF Effect
  <2>2. NextIP \in DOMAIN Fn(framese).shape /\ Fits(after, c)
    BY <1>1, <1>2, CurrentFacts DEF InstructionOK, Effect
  <2>3. Len(c) = n - arity /\ \A k \in 1 .. Len(c) : c[k] \in {0, after[k]}
    BY <2>1, <2>2 DEF Fits
  <2>4. ASSUME NEW k \in 1 .. Len(c), c[k] # 0
        PROVE  k \in 1 .. n /\ c[k] = s[k]
    <3>1. c[k] = after[k] /\ k # n - arity
      BY <2>1, <2>3, <2>4
    <3>2. k \in 1 .. n - (arity + 1) /\ k \in 1 .. n
      <4> HIDE DEF n, arity, c
      <4>1. k \in 1 .. n - arity
        BY <2>3
      <4> QED
        BY ONLY <1>3, <1>4, <3>1, <4>1
    <3> QED
      BY <2>1, <3>1, <3>2
  <2>5. n - arity \in 1 .. n - arity
    BY <1>6
  <2> QED
    BY <2>1, <2>2, <2>3, <2>4, <2>5
<1>16. HeaderOK(image, g) /\ 0 \in DOMAIN image.fns[g].shape
       /\ Len(zeros) = arity /\ \A k \in 1 .. Len(zeros) : zeros[k] = 0
  <2>1. HeaderOK(image, g)
    BY <1>8 DEF DInv, WellFormed
  <2>2. zeros = [k \in 1 .. arity |-> 0] /\ 0 \in DOMAIN image.fns[g].shape
    BY <1>7, <2>1 DEF HeaderOK
  <2>3. zeros \in Seq({0}) /\ Len(zeros) = arity
    BY <1>4, <2>2
  <2> QED
    BY <2>1, <2>2, <2>3
<1>17. /\ \A f \in 0 .. framese : /\ Fn(f)' = Fn(f)
                                  /\ f # framese => ShapeOf(f)' = ShapeOf(f)
                                  /\ f = framese => ShapeOf(f)' = c
       /\ \A f : f = new => Fn(f)' = image.fns[g] /\ ShapeOf(f)' = zeros
  <2>1. \A f \in 0 .. framese : Fn(f)' = Fn(f)
    BY <1>14 DEF Fn
  <2>2. \A f \in 0 .. framese : /\ f # framese => ShapeOf(f)' = ShapeOf(f)
                                /\ f = framese => ShapeOf(f)' = c
    BY <1>14, <2>1 DEF ShapeOf
  <2>3. \A f : f = new => Fn(f)' = image.fns[g]
    BY <1>13 DEF Fn
  <2>4. \A f : f = new => ShapeOf(f)' = zeros
    BY <1>13, <2>3 DEF ShapeOf
  <2> QED
    BY <2>1, <2>2, <2>3, <2>4
<1>18. /\ Frame.base = framestack[framese].base
       /\ Frame.fn = framestack[framese].fn
       /\ SP = framestack[framese].sp
  BY DEF Frame, SP
(* The callee's level is at most the next one.                              *)
<1>19. image.fns[g].level <= new
  <2>1. image.fns[g].level <= Fn(framese).level + 1
    <3>1. n - arity \in 1 .. Len(Fn(framese).shape[IP])
      BY <1>1, <1>6, CurrentFacts
    <3>2. g = Fn(framese).shape[IP][n - arity]
      BY <1>1, CurrentFacts
    <3> HIDE DEF g, n, arity
    <3>3. /\ HeaderOK(image, Frame.fn) /\ Fn(framese) = image.fns[Frame.fn]
          /\ IP \in DOMAIN Fn(framese).shape
      BY <1>1, CurrentFacts
    <3>4. \A k \in 1 .. Len(Fn(framese).shape[IP]) :
            LET h == Fn(framese).shape[IP][k]
            IN  h # 0 => image.fns[h].level <= Fn(framese).level + 1
      BY ONLY <3>3 DEF HeaderOK
    <3> QED
      BY <1>7, <3>1, <3>2, <3>4
  <2>2. Fn(framese).level <= framese /\ Fn(framese).level \in Nat
    BY <1>1, <1>3, Levels DEF DInv, FrameInv, Discipline, FramesKnown, Frame
  <2>3. image.fns[g].level \in Nat
    BY <1>8 DEF DInv, WellFormed, HeaderOK
  <2> HIDE DEF g
  <2> QED
    BY <1>3, <2>1, <2>2, <2>3
<1> HIDE DEF s, n, arity, g, after, c, new, zeros
<1>20. FramesKnown'
  <2>1. \A f \in 0 .. framese :
          /\ framestack[f].fn \in DOMAIN image.fns
          /\ framestack[f].ip \in DOMAIN Fn(f).shape
          /\ framestack[f].env = Fn(f).level /\ framestack[f].env <= f
          /\ f = 0 <=> framestack[f].fn = 1
          /\ f = 1 => framestack[f].fn = 2
    BY <1>1 DEF DInv, FrameInv, Discipline, FramesKnown
  <2>2. new # 0 /\ (new = 1 => framese = 0)
    BY <1>3 DEF new
  <2>3. new = 1 => g = 2
    <3>1. ASSUME new = 1
          PROVE  g = 2
      <4>1. s = << 2 >>
        BY <1>3, <1>7, <1>18, <2>1, <2>2, <3>1
      <4>2. n = 1 /\ n - arity = 1
        BY <1>3, <1>4, <1>5, <4>1 DEF n, s
      <4> QED
        BY <4>1, <4>2 DEF g
    <3> QED
      BY <3>1
  <2> SUFFICES ASSUME NEW f \in 0 .. new
               PROVE  /\ framestack'[f].fn \in DOMAIN image.fns
                      /\ framestack'[f].ip \in DOMAIN (Fn(f).shape)'
                      /\ framestack'[f].env = (Fn(f).level)' /\ framestack'[f].env <= f
                      /\ f = 0 <=> framestack'[f].fn = 1
                      /\ f = 1 => framestack'[f].fn = 2
    BY <1>10 DEF FramesKnown
  <2>4. CASE f = new
    BY <1>8, <1>13, <1>16, <1>17, <1>19, <2>2, <2>3, <2>4
  <2>5. CASE f # new /\ f # framese
    BY <1>12, <1>14, <1>17, <2>1, <2>5
  <2>6. CASE f = framese
    BY <1>12, <1>14, <1>15, <1>17, <2>1, <2>6
  <2> QED
    BY <2>4, <2>5, <2>6
<1>21. \A f \in 0 .. framese : /\ framestack[f].base \in Nat
                               /\ Len(ShapeOf(f)) \in Nat
                               /\ f <= framestack[f].base
                               /\ framestack'[f].base = framestack[f].base
  BY <1>1, <1>14, FrameHolds
<1>22. /\ \A f : f = framese => Height(f)' = SP - arity
       /\ \A f : f = new => Height(f)' = SP
       /\ \A f \in 0 .. framese : f # framese => Height(f)' = Height(f)
  BY <1>6, <1>12, <1>13, <1>14, <1>15, <1>16, <1>17, <1>18 DEF Height
<1>23. HeightsAgree'
  <2>1. ASSUME NEW f \in 0 .. framese, f # framese
        PROVE  /\ framestack[f].sp = framestack[f + 1].base + Fn(f + 1).arity
               /\ framestack[f + 1].base = Height(f)
               /\ Len(ShapeOf(f)) > 0
               /\ f + 1 \in 0 .. framese /\ f + 1 # new /\ f # new
    BY <1>1, <1>12, <2>1 DEF DInv, FrameInv, Discipline, HeightsAgree
  <2>2. ASSUME NEW f \in 0 .. framese'
        PROVE  /\ framestack'[f].base \in Nat
               /\ framestack'[f].sp =
                    IF f = framese' THEN Height(f)'
                    ELSE framestack'[f + 1].base + (Fn(f + 1).arity)'
               /\ f < framese' => /\ framestack'[f + 1].base = Height(f)'
                             /\ (Len(ShapeOf(f)) > 0)'
    <3>1. framese' = new /\ f \in 0 .. new
      BY <1>10
    <3>2. CASE f = new
      BY <1>6, <1>13, <1>22, <3>1, <3>2 DEF new
    <3>3. CASE f = framese
      <4>1. f + 1 = new /\ f # new
        BY <1>12, <3>3 DEF new
      <4>2. framestack'[f].sp = SP
        BY <1>12, <1>14, <1>18, <3>3
      <4>3. (Fn(f + 1).arity)' = arity
        BY <1>7, <1>17, <4>1
      <4>4. Len(ShapeOf(f)') > 0
        BY <1>6, <1>12, <1>15, <1>17, <3>3
      <4> QED
        BY <1>6, <1>12, <1>13, <1>21, <1>22, <3>1, <3>3, <4>1, <4>2, <4>3, <4>4
    <3>4. CASE f # new /\ f # framese
      <4>1. f \in 0 .. framese
        BY <1>12, <3>1, <3>4
      <4>2. (Fn(f + 1).arity)' = Fn(f + 1).arity
        BY <1>17, <2>1, <3>4, <4>1
      <4> QED
        BY <1>14, <1>17, <1>21, <1>22, <2>1, <3>1, <3>4, <4>1, <4>2
    <3> QED
      BY <1>12, <3>1, <3>2, <3>3, <3>4
  <2>3. (SP <= StackMax)'
    BY <1>3, <1>10, <1>13 DEF SP, Frame
  <2> QED
    BY <1>10, <2>2, <2>3 DEF HeightsAgree
<1>24. FramesStacked'
  <2>1. \A f, g1 \in 0 .. framese : f < g1 => Height(f) <= framestack[g1].base
    BY <1>1 DEF DInv, FrameInv, Discipline, FramesStacked
  <2>2. ASSUME NEW f \in 0 .. framese
        PROVE  Height(f)' <= SP - arity
    <3>1. CASE f = framese
      BY <1>6, <1>22, <3>1
    <3>2. CASE f # framese
      <4>1. Height(f) <= Frame.base /\ Height(f)' = Height(f)
        BY <1>12, <1>18, <1>22, <2>1, <3>2
      <4>2. Height(f) \in Nat
        BY <1>21 DEF Height
      <4>3. Frame.base <= SP - arity /\ SP - arity \in Nat
        BY ONLY <1>3, <1>6
      <4> QED
        BY ONLY <1>3, <4>1, <4>2, <4>3
    <3> QED
      BY <3>1, <3>2
  <2>3. ASSUME NEW f \in 0 .. new
        PROVE  f <= framestack'[f].base
    <3>1. CASE f = new
      <4>1. framese <= Frame.base
        BY <1>12, <1>18, <1>21
      <4>2. new <= SP - arity
        BY <1>3, <1>6, <4>1 DEF new
      <4> QED
        BY <1>13, <3>1, <4>2
    <3>2. CASE f # new
      BY <1>12, <1>21, <3>2
    <3> QED
      BY <3>1, <3>2
  <2>4. ASSUME NEW f \in 0 .. new, NEW h \in 0 .. new, f < h
        PROVE  Height(f)' <= framestack'[h].base
    <3>1. f \in 0 .. framese /\ f # h
      BY <1>3, <2>4 DEF new
    <3>2. CASE h = new
      BY <1>13, <2>2, <3>1, <3>2
    <3>3. CASE h # new
      <4>1. h \in 0 .. framese /\ f # framese
        BY <1>3, <1>12, <2>4, <3>3
      <4> QED
        BY <1>21, <1>22, <2>1, <2>4, <3>1, <4>1
    <3> QED
      BY <3>2, <3>3
  <2> QED
    BY <1>10, <2>3, <2>4 DEF FramesStacked
<1>25. FunctionSlots'
  <2> SUFFICES ASSUME NEW f \in 0 .. new, NEW k \in 1 .. Len(ShapeOf(f)'),
                      ShapeOf(f)'[k] # 0
               PROVE  stack[framestack'[f].base + k - 1] =
                        FnV(ShapeOf(f)'[k], image.fns[ShapeOf(f)'[k]].level)
    BY <1>10 DEF FunctionSlots
  <2>1. CASE f = new
    BY <1>16, <1>17, <2>1
  <2>2. CASE f = framese
    <3>1. ShapeOf(f)'[k] = s[k] /\ k \in 1 .. n /\ s[k] # 0
      BY <1>12, <1>15, <1>17, <2>2
    <3> QED
      BY <1>1, <1>12, <1>14, <2>2, <3>1, FrameHolds DEF s, n
  <2>3. CASE f # new /\ f # framese
    <3>1. f \in 0 .. framese /\ ShapeOf(f)' = ShapeOf(f)
      BY <1>12, <1>17, <2>3
    <3> QED
      BY <1>1, <1>14, <3>1, FrameHolds
  <2> QED
    BY <2>1, <2>2, <2>3
<1>26. ProgramSlots'
  <2> SUFFICES ASSUME new > 1
               PROVE  /\ Len(image.fns[2].slots) < Len(ShapeOf(1)')
                      /\ \A k \in 1 .. Len(image.fns[2].slots) :
                           ShapeOf(1)'[k] = image.fns[2].slots[k]
    BY <1>10 DEF ProgramSlots
  <2>1. CASE framese = 1
    <3>1. Frame.fn = 2
      BY <1>1, <1>12, <1>18, <2>1 DEF DInv, FrameInv, Discipline, FramesKnown
    <3>2. ShapeOf(1)' = c
      BY <1>12, <1>17, <2>1
    <3> QED
      BY <1>7, <3>1, <3>2
  <2>2. CASE framese # 1
    <3>1. framese > 1 /\ 1 \in 0 .. framese
      BY <1>3, <2>2 DEF new
    <3>2. ShapeOf(1)' = ShapeOf(1)
      BY <1>17, <2>2, <3>1
    <3> QED
      BY <1>1, <3>1, <3>2 DEF DInv, FrameInv, Discipline, ProgramSlots
  <2> QED
    BY <2>1, <2>2
<1>27. ResultSlots'
  <2> SUFFICES ASSUME NEW f \in 0 .. new - 1
               PROVE  ShapeOf(f)'[Len(ShapeOf(f)')] = 0
    BY <1>10 DEF ResultSlots
  <2>1. f \in 0 .. framese /\ (f # framese => f \in 0 .. framese - 1)
    BY <1>3 DEF new
  <2>2. CASE f = framese
    BY <1>15, <1>17, <2>1, <2>2
  <2>3. CASE f # framese
    BY <1>1, <1>17, <2>1, <2>3 DEF DInv, FrameInv, ResultSlots
  <2> QED
    BY <2>2, <2>3
<1>28. ProgramCell'
  <2>1. 0 \in 0 .. framese /\ framestack[0].base = 0
    BY <1>1, <1>3 DEF DInv, FrameInv, ProgramCell
  <2>2. stack[0] = FnV(2, image.fns[2].level)
    <3>1. CASE framese = 0
      <4>1. s = << 2 >>
        <5>1. Frame.fn = 1
          BY <1>1, <1>12, <1>18, <3>1
          DEF DInv, FrameInv, Discipline, FramesKnown
        <5> QED
          BY <1>7, <5>1
      <4>2. 1 \in 1 .. Len(ShapeOf(0)) /\ ShapeOf(0)[1] = 2
        BY <3>1, <4>1 DEF s
      <4>a. \A k \in 1 .. Len(ShapeOf(0)) :
              ShapeOf(0)[k] # 0 =>
                stack[framestack[0].base + k - 1] =
                  FnV(ShapeOf(0)[k], image.fns[ShapeOf(0)[k]].level)
        BY <1>1, <2>1, FrameHolds
      <4>3. stack[framestack[0].base + 1 - 1] = FnV(2, image.fns[2].level)
        BY <4>2, <4>a
      <4>4. framestack[0].base + 1 - 1 = 0
        BY <2>1
      <4> QED
        BY <4>3, <4>4
    <3>2. CASE framese # 0
      BY <1>1, <1>3, <3>2 DEF DInv, FrameInv, ProgramCell
    <3> QED
      BY <3>1, <3>2
  <2> QED
    BY <1>10, <1>14, <2>1, <2>2 DEF ProgramCell
<1> QED
  BY <1>20, <1>23, <1>24, <1>25, <1>26, <1>27, <1>28 DEF FrameInv, Discipline

(* The arithmetic of a return: the result is the last of n values at base b. *)
LEMMA ResultArithmetic ==
  /\ \A b, n, k \in Nat : k # n => b + k - 1 # b + n - 1
  /\ \A b, m, c, n \in Nat : b + m <= c /\ n > 0 =>
       \A k \in 1 .. m : b + k - 1 # c + n - 1
OBVIOUS

(* A return: the result takes the place of the function that was called.    *)
LEMMA ReturnStep ==
  ASSUME DInv, IInv', status' = "run", UNCHANGED image, Return
  PROVE  FrameInv'
<1> DEFINE c  == framese - 1
           sp == framestack[c].sp - Arg(1) - 1
           n  == Len(ShapeOf(c))
<1>1. status = "run" /\ Op = OP_RETURN
  BY DEF Return, Fetch
<1>2. /\ framese' = c /\ framese # 0
      /\ framestack' = [framestack EXCEPT ![c].sp = sp + 1]
      /\ stack' = [stack EXCEPT ![sp] = peekv(1)]
  BY DEF Return, Wild
<1>3. framese \in Nat /\ framese \in 0 .. framese
  BY <1>1, CurrentFacts
<1>4. /\ c \in Nat /\ c \in 0 .. c /\ c \in 0 .. framese /\ c < framese
      /\ c + 1 = framese
      /\ \A f \in 0 .. c : f \in 0 .. framese /\ f < framese
      /\ \A f \in 0 .. c - 1 : f \in 0 .. c /\ f < c
      /\ \A f \in 0 .. c : f # c => f < c /\ f + 1 \in 0 .. c
  BY <1>2, <1>3
<1>5. \A f \in 0 .. framese : /\ Len(ShapeOf(f)) \in Nat
                              /\ framestack[f].base \in Nat
                              /\ f <= framestack[f].base
  BY <1>1, FrameHolds
<1>6. Arg(1) = Fn(framese).arity /\ Arg(1) \in Int
  <2>1. ReturnOK(image, Frame.fn, IP)
    BY <1>1, CurrentFacts DEF InstructionOK
  <2>2. Fn(framese).arity \in Nat
    BY <1>1, CurrentFacts DEF HeaderOK
  <2> QED
    BY <1>1, <2>1, <2>2, SameInstruction, CurrentFacts DEF ReturnOK
<1>7. /\ framestack[c].sp = framestack[framese].base + Fn(framese).arity
      /\ framestack[framese].base = framestack[c].base + n
      /\ n > 0
  BY <1>1, <1>4 DEF DInv, FrameInv, Discipline, HeightsAgree, Height
<1>8. sp = framestack[c].base + n - 1 /\ sp + 1 = framestack[c].base + n
      /\ sp \in Nat
  <2>1. framestack[c].base \in Nat /\ n \in Nat
    BY <1>4, <1>5
  <2>2. sp = (framestack[c].base + n + Arg(1)) - Arg(1) - 1
    BY <1>6, <1>7
  <2> HIDE DEF n, sp, c
  <2> QED
    BY <1>6, <1>7, <2>1, <2>2
<1>9. /\ framestack \in [FrameIndex -> FrameType]
      /\ \A f \in 0 .. framese : f \in FrameIndex
      /\ stack \in [CellIndex -> Value] /\ 0 \in CellIndex
  BY <1>3, SizesAssumption DEF DInv, IInv, TypeOK, FrameIndex, CellIndex
<1> HIDE DEF c, sp, n
<1>10. /\ framestack'[c].sp = sp + 1
       /\ \A f \in 0 .. c : /\ framestack'[f].fn = framestack[f].fn
                            /\ framestack'[f].env = framestack[f].env
                            /\ framestack'[f].base = framestack[f].base
                            /\ framestack'[f].ip = framestack[f].ip
                            /\ f # c => framestack'[f].sp = framestack[f].sp
  <2>1. framestack'[c] = [framestack[c] EXCEPT !.sp = sp + 1]
    BY <1>2, <1>4, <1>9
  <2>2. \A f \in 0 .. c : f # c => framestack'[f] = framestack[f]
    BY <1>2, <1>4, <1>9
  <2>3. framestack[c] \in FrameType
    BY <1>4, <1>9
  <2>4. /\ framestack'[c].sp = sp + 1 /\ framestack'[c].fn = framestack[c].fn
        /\ framestack'[c].env = framestack[c].env
        /\ framestack'[c].base = framestack[c].base
        /\ framestack'[c].ip = framestack[c].ip
    BY <2>1, <2>3 DEF FrameType
  <2> QED
    BY <2>2, <2>4
<1>11. \A f \in 0 .. c : /\ Fn(f)' = Fn(f)
                         /\ ShapeOf(f)' = ShapeOf(f)
                         /\ Height(f)' = Height(f)
  BY <1>10 DEF Fn, ShapeOf, Height
<1>12. \A a \in CellIndex : a # sp => stack'[a] = stack[a]
  BY <1>2, <1>9
<1>13. FramesKnown'
  BY <1>1, <1>2, <1>4, <1>10, <1>11 DEF FramesKnown, DInv, FrameInv, Discipline
<1>14. HeightsAgree'
  <2>1. (SP <= StackMax)'
    <3>1. framese' \in 0 .. framese'
      BY <1>2, <1>4
    <3> QED
      BY <3>1 DEF IInv, Guarded, SP, Frame
  <2>2. ASSUME NEW f \in 0 .. framese'
        PROVE  /\ framestack'[f].base \in Nat
               /\ framestack'[f].sp =
                    IF f = framese' THEN Height(f)'
                    ELSE framestack'[f + 1].base + (Fn(f + 1).arity)'
               /\ f < framese' => /\ framestack'[f + 1].base = Height(f)'
                                  /\ (Len(ShapeOf(f)) > 0)'
    <3>1. framese' = c /\ f \in 0 .. c
      BY <1>2
    <3>2. CASE f = c
      <4>1. Height(f) = sp + 1
        BY <1>8, <3>2 DEF Height, n
      <4> QED
        BY <1>4, <1>5, <1>10, <1>11, <3>1, <3>2, <4>1
    <3>3. CASE f # c
      <4>1. f < framese /\ f \in 0 .. framese /\ f # framese
            /\ f + 1 \in 0 .. c
        BY <1>4, <3>1, <3>3
      <4>2. /\ framestack[f].sp = framestack[f + 1].base + Fn(f + 1).arity
            /\ framestack[f + 1].base = Height(f)
            /\ Len(ShapeOf(f)) > 0
        BY <1>1, <4>1 DEF DInv, FrameInv, Discipline, HeightsAgree
      <4> QED
        BY <1>5, <1>10, <1>11, <3>1, <3>3, <4>1, <4>2
    <3> QED
      BY <3>2, <3>3
  <2> QED
    BY <2>1, <2>2 DEF HeightsAgree
<1>15. FramesStacked'
  BY <1>1, <1>2, <1>4, <1>10, <1>11
  DEF FramesStacked, DInv, FrameInv, Discipline
(* The cell of the result promises no function.                             *)
<1>16. ASSUME NEW f \in 0 .. c, NEW k \in 1 .. Len(ShapeOf(f)),
              ShapeOf(f)[k] # 0
       PROVE  framestack[f].base + k - 1 # sp
  <2>1. f \in 0 .. framese /\ framestack[f].base \in Nat
        /\ Len(ShapeOf(f)) \in Nat
    BY <1>4, <1>5
  <2>2. CASE f = c
    <3>1. ShapeOf(c)[n] = 0
      BY <1>1, <1>3, <1>4 DEF n, c, DInv, FrameInv, ResultSlots
    <3>2. k # n /\ k \in Nat /\ n \in Nat
      BY <1>16, <2>1, <2>2, <3>1 DEF n
    <3> QED
      BY <1>8, <2>1, <2>2, <3>2, ResultArithmetic
  <2>3. CASE f # c
    <3>1. framestack[f].base + Len(ShapeOf(f)) <= framestack[c].base
      BY <1>1, <1>4, <2>1, <2>3, FramesApart
    <3>2. framestack[c].base \in Nat /\ n \in Nat /\ n > 0
      BY <1>4, <1>5, <1>7 DEF n
    <3> QED
      BY <1>8, <2>1, <3>1, <3>2, ResultArithmetic, ZenonT(60)
  <2> QED
    BY <2>2, <2>3
<1>17. FunctionSlots'
  <2>1. ASSUME NEW f \in 0 .. framese', NEW k \in 1 .. Len(ShapeOf(f)'),
               ShapeOf(f)'[k] # 0
        PROVE  stack'[framestack'[f].base + k - 1] =
                 FnV(ShapeOf(f)'[k], image.fns[ShapeOf(f)'[k]].level)
    <3>1. f \in 0 .. c /\ f \in 0 .. framese /\ ShapeOf(f)' = ShapeOf(f)
          /\ framestack'[f].base = framestack[f].base
      BY <1>2, <1>4, <1>10, <1>11
    <3>2. /\ framestack[f].base + k - 1 \in CellIndex
          /\ stack[framestack[f].base + k - 1] =
               FnV(ShapeOf(f)[k], image.fns[ShapeOf(f)[k]].level)
      BY <1>1, <2>1, <3>1, FrameHolds
    <3> QED
      BY <1>12, <1>16, <2>1, <3>1, <3>2
  <2> QED
    BY <2>1 DEF FunctionSlots
<1>18. ProgramSlots'
  <2>1. framese' > 1 => framese > 1 /\ 1 \in 0 .. c
    BY <1>2, <1>4
  <2> QED
    BY <1>1, <1>11, <2>1 DEF ProgramSlots, DInv, FrameInv, Discipline
<1>19. ResultSlots'
  <2>1. \A f \in 0 .. c - 1 : f \in 0 .. c /\ f \in 0 .. framese - 1
    BY <1>3, <1>4
  <2> QED
    BY <1>1, <1>2, <1>11, <2>1 DEF ResultSlots, DInv, FrameInv
<1>20. ProgramCell'
  <2>1. 0 \in 0 .. c /\ framese > 0
    BY <1>4
  <2>2. /\ framestack[0].base = 0
        /\ stack[0] = FnV(2, image.fns[2].level)
    BY <1>1, <2>1 DEF DInv, FrameInv, ProgramCell
  <2>3. c > 0 => sp # 0
    <3>1. c <= framestack[c].base /\ framestack[c].base \in Nat /\ n \in Nat
      BY <1>4, <1>5 DEF n
    <3> QED
      BY <1>4, <1>7, <1>8, <3>1
  <2> QED
    BY <1>2, <1>9, <1>10, <1>12, <2>1, <2>2, <2>3 DEF ProgramCell
<1> QED
  BY <1>13, <1>14, <1>15, <1>17, <1>18, <1>19, <1>20 DEF FrameInv, Discipline

-----------------------------------------------------------------------------
(* The theorems.                                                           *)

(* A well-formed image starts with an empty frame of the root.              *)
LEMMA InitDInv == Init /\ WellFormed(image) => DInv
<1> SUFFICES ASSUME Init, WellFormed(image)
             PROVE  DInv
  OBVIOUS
<1>1. IInv
  BY InitIInv
<1>2. /\ framese = 0 /\ 0 .. framese = {0} /\ 0 .. framese - 1 = {}
      /\ framestack[0] = NoFrame /\ StackMax \in Nat
  BY SizesAssumption DEF Init, FrameIndex
<1>3. /\ 1 \in DOMAIN image.fns /\ HeaderOK(image, 1)
      /\ image.fns[1].arity = 0
  BY <1>1 DEF IInv, TypeOK, IsImage, WellFormed
<1>4. /\ image.fns[1].level = 0 /\ 0 \in DOMAIN image.fns[1].shape
      /\ Len(image.fns[1].shape[0]) = 0
  <2>1. image.fns[1].shape[0] = [k \in 1 .. 0 |-> 0]
    BY <1>3 DEF HeaderOK
  <2>2. image.fns[1].shape[0] = << >>
    BY <2>1
  <2> QED
    BY <1>3, <2>2 DEF HeaderOK
<1>5. Fn(0) = image.fns[1] /\ Len(ShapeOf(0)) = 0 /\ Height(0) = 0 /\ SP = 0
  BY <1>2, <1>4 DEF Fn, ShapeOf, Height, NoFrame, root, SP, Frame
<1>6. FramesKnown
  BY <1>2, <1>3, <1>4, <1>5 DEF FramesKnown, NoFrame, root
<1>7. HeightsAgree
  BY <1>2, <1>5 DEF HeightsAgree, NoFrame
<1>8. /\ FramesStacked /\ FunctionSlots /\ ProgramSlots
      /\ ResultSlots /\ ProgramCell
  BY <1>2, <1>5 DEF FramesStacked, FunctionSlots, ProgramSlots, ResultSlots,
                    ProgramCell, NoFrame
<1> QED
  BY <1>1, <1>6, <1>7, <1>8 DEF DInv, FrameInv, Discipline

(* Every turn of the loop keeps DInv.                                       *)
LEMMA NextDInv == DInv /\ [Next]_vars => DInv'
<1> SUFFICES ASSUME DInv, [Next]_vars
             PROVE  DInv'
  OBVIOUS
<1>1. IInv'
  BY NextIInv DEF DInv
<1>2. UNCHANGED image
  BY DEF Next, Execute, Returned, vars
<1>3. WellFormed(image)'
  <2>1. WellFormed(image)
    BY DEF DInv
  <2> QED
    BY <1>2, <2>1
<1>4. ASSUME status' = "run"
      PROVE  FrameInv'
  <2>1. CASE Execute /\ Step
    <3>1. ~Halt /\ ~BadCode
      BY <1>4 DEF Halt, BadCode, Wild, runtime_error
    <3> QED
      BY <1>1, <1>2, <1>4, <2>1, <3>1, ConstantStep, PlainPushStep,
         OperatorStep, TakeHandlersStep, WriteStep, SetIndexStep, GetIndexStep,
         JumpStep,
         GetLocalStep, SetLocalStep, ShiftStep, CallStep, ReturnStep
      DEF Step
  <2>2. CASE Execute /\ Read
    BY <1>1, <1>2, <1>4, <2>2, PlainPushStep
  <2>3. CASE UNCHANGED vars
    <3>1. FrameInv
      BY <1>4, <2>3 DEF DInv, vars
    <3> QED
      BY <2>3, <3>1, ZenonT(60)
      DEF vars, FrameInv, Discipline, ResultSlots, ProgramCell, FramesKnown,
         HeightsAgree, FramesStacked, FunctionSlots, ProgramSlots, Height,
         ShapeOf, Fn, SP, Frame
  <2> QED
    BY <2>1, <2>2, <2>3 DEF Next, Execute, Returned
<1> QED
  BY <1>1, <1>3, <1>4 DEF DInv

(* Whatever well-formed image it is started on, whatever the size of its    *)
(* stacks: as long as vm_run executes, every frame is as high as the        *)
(* compiler's view of it, no frame reaches into another, and a call finds   *)
(* the function that was meant.  The handlers check none of it.             *)
THEOREM VMStackDiscipline == Spec /\ WellFormed(image) => []StackDiscipline
<1>1. Spec /\ WellFormed(image) => []DInv
  BY InitDInv, NextDInv, PTL DEF Spec
<1>2. DInv => StackDiscipline
  BY DEF DInv, FrameInv, StackDiscipline
<1> QED
  BY <1>1, <1>2, PTL

(* OP_CALL never takes the frame after the last one of framestack as its    *)
(* caller: a frame that calls stands on as many cells as there are frames   *)
(* below it and holds the function it calls, and pushv has checked that the *)
(* stack is no higher than STACK_MAX.                                       *)
THEOREM VMFrameLimit == Spec /\ WellFormed(image) => []FrameLimit
<1>1. Spec /\ WellFormed(image) => []DInv
  BY InitDInv, NextDInv, PTL DEF Spec
<1>2. DInv => FrameLimit
  <2> SUFFICES ASSUME DInv, status = "run", InCode(0), Op = OP_CALL
               PROVE  framese < StackMax
    BY DEF FrameLimit
  <2>1. Op \notin Peeks /\ Effect(Arg(1) + 1, << 0 >>)
    BY Groups, Effects DEF Alone
  <2>2. Arg(1) \in Nat
    <3>1. IInv /\ IP \in Nat
      BY CurrentFacts DEF DInv, HeaderOK
    <3>2. Code \in Seq(Byte) /\ IP + 1 + OperandBytes(Op) \in DOMAIN Code
      BY <3>1, FrameFacts, CurrentFacts, SameInstruction
      DEF IInv, InstructionOK, InCodeAt, Code
    <3>3. Fetch(OP_CALL)
      BY <3>1, <3>2, Operands DEF Fetch, InCode, OneOperandByte
    <3> QED
      BY <3>1, <3>3, HandlerFacts, Operands DEF OneOperandByte
  <2>3. Arg(1) + 1 <= Len(ShapeOf(framese))
    BY <2>1, <2>2, EnoughThere DEF Effect
  <2>4. /\ framese \in Nat /\ Frame.base \in Nat /\ framese <= Frame.base
        /\ Len(ShapeOf(framese)) \in Nat
        /\ SP = Frame.base + Len(ShapeOf(framese)) /\ SP <= StackMax
    BY CurrentFacts, Below
  <2> QED
    BY <2>2, <2>3, <2>4, SizesAssumption
<1> QED
  BY <1>1, <1>2, PTL

(* No well-formed image leaves its code.                                    *)
LEMMA WholeInstruction ==
  ASSUME DInv, status = "run"
  PROVE  InCode(0) /\ Op \in Opcodes /\ InCode(OperandBytes(Op))
<1>1. IP \in Nat /\ Code \in Seq(Byte) /\ OperandBytes(Op) \in Nat
  BY CurrentFacts, FrameFacts, OperandBytesType DEF DInv, IInv, HeaderOK
<1>2. /\ Op \in Opcodes
      /\ IP + 1 \in DOMAIN Code
      /\ IP + 1 + OperandBytes(Op) \in DOMAIN Code
  BY CurrentFacts, SameInstruction DEF InstructionOK, InCodeAt, Code
<1> QED
  BY <1>1, <1>2 DEF InCode

(* The machine is at an opcode, all of whose operands are in the code.      *)
InstructionWhole ==
  status = "run" =>
    InCode(0) /\ Op \in Opcodes /\ InCode(OperandBytes(Op))

(* vm_run fetches whole instructions only: ip of a well-formed image never  *)
(* leaves the code, never stops at a byte that is no opcode, and the        *)
(* operands that advance_ip and advance_long_ip read lie within the code.   *)
THEOREM VMInstructionWhole == Spec /\ WellFormed(image) => []InstructionWhole
<1>1. Spec /\ WellFormed(image) => []DInv
  BY InitDInv, NextDInv, PTL DEF Spec
<1>2. DInv => InstructionWhole
  BY WholeInstruction DEF InstructionWhole
<1> QED
  BY <1>1, <1>2, PTL

-----------------------------------------------------------------------------
(* What a step may never do.                                               *)

(* Whether these handlers keep to their arrays rests on what a frame has on *)
(* the array stack and on the argument stack, and on the types of values;   *)
(* the shapes of an image do not speak of that.                             *)
VectorOps == {OP_POP_TO_ASTACK, OP_GET_INDEX, OP_SET_INDEX_LOCAL_LONG,
              OP_SHIFT_ASTACKENT_TO_BASE, OP_ARGSTACK_LOAD, OP_ARGSTACK_PEEK,
              OP_ARGSTACK_UNLOAD}

(* No other handler reads or writes through a pointer outside of its array. *)
KeepsToArrays ==
  status = "run" /\ status' = "wild" => Op \in VectorOps

(* What the frames below the current one hold stays as it is, but for the   *)
(* result that a return leaves with its caller and for the program's        *)
(* variables, which an inner function may assign to.                        *)
KeepsLowerFrames ==
  status = "run" =>
    \A f \in 0 .. framese - 1 : \A k \in 1 .. Len(ShapeOf(f)) :
      \/ stack'[framestack[f].base + k - 1] = stack[framestack[f].base + k - 1]
      \/ Op = OP_RETURN /\ f = framese - 1 /\ k = Len(ShapeOf(f))
      \/ /\ Op = OP_SET_LOCAL_LONG /\ ArgLong(1) # 0
         /\ f = 1 /\ k = ArgLong(3) + 1

(* Most handlers write to their own frame and above, or nothing.            *)
Contained ==
  /\ KeepsToArrays
  /\ \A a \in CellIndex : a < Frame.base => stack'[a] = stack[a]

LEMMA ContainedKeeps ==
  ASSUME DInv, Contained
  PROVE  KeepsToArrays /\ KeepsLowerFrames
BY Below DEF Contained, KeepsLowerFrames

(* A handler that takes p values off and pushes one.                        *)
LEMMA PushvContained ==
  ASSUME DInv, status = "run", Op \notin Peeks,
         NEW p \in Nat, Pops(Fn(framese), IP) = p,
         NEW asp, NEW v, pushv(NextIP, SP - p, asp, v)
  PROVE  Contained
<1>1. /\ Frame.base \in Nat /\ Len(ShapeOf(framese)) \in Nat
      /\ SP = Frame.base + Len(ShapeOf(framese))
      /\ p <= Len(ShapeOf(framese))
  BY CurrentFacts, EnoughThere
<1> DEFINE cell == SP - p
<1>2. cell \in Nat /\ Frame.base <= cell /\ ~(cell < 0)
  BY <1>1
<1>3. pushv(NextIP, cell, asp, v) /\ stack \in [CellIndex -> Value]
  BY DEF DInv, IInv, TypeOK
<1> HIDE DEF cell
<1>4. status' # "wild"
  BY <1>2, <1>3 DEF pushv
<1>5. UNCHANGED stack \/ stack' = [stack EXCEPT ![cell] = v]
  BY <1>2, <1>3 DEF pushv
<1>6. \A a \in CellIndex : a < Frame.base => a # cell
  BY <1>1, <1>2 DEF CellIndex
<1> QED
  BY <1>3, <1>4, <1>5, <1>6 DEF Contained, KeepsToArrays

(* The constant that a load names is there.                                 *)
LEMMA ConstantFound ==
  ASSUME DInv, status = "run", Op \in LocOpcodes
  PROVE  ArgLong(1) + 1 \in DOMAIN Constants
BY CurrentFacts, SameInstruction DEF InstructionOK, AddressOK, Constants

LEMMA ConstantContained ==
  ASSUME DInv, LoadConstant \/ LocAlink
  PROVE  Contained
<1>1. /\ status = "run" /\ Op \in LocOpcodes
      /\ Op \in LoadOps \/ Op \in PushOps
  BY DEF LoadConstant, LocAlink, Fetch, LocOpcodes, LoadOps, PushOps
<1>2. Op \notin Peeks /\ Pops(Fn(framese), IP) = 0
  BY <1>1, Groups, Effects DEF Effect
<1>3. ArgLong(1) + 1 \in DOMAIN Constants
  BY <1>1, ConstantFound
<1>4. PICK v : pushv(NextIP, SP, ASP, v)
  BY <1>3 DEF LoadConstant, LocAlink
<1>5. SP - 0 = SP
  BY FrameFacts DEF DInv, IInv
<1> QED
  BY <1>1, <1>2, <1>4, <1>5, PushvContained

LEMMA PlainPushContained ==
  ASSUME DInv,
         PushByte \/ Zero \/ One \/ PushFalse \/ PushTrue \/ EmptyString
           \/ ArgstackPeek \/ Read
  PROVE  Contained
<1>1. status = "run" /\ Op \in PushOps
  BY DEF PushByte, Zero, One, PushFalse, PushTrue, EmptyString, ArgstackPeek,
         Read, Fetch, PushOps
<1>2. Op \notin Peeks /\ Pops(Fn(framese), IP) = 0
  BY <1>1, Groups, Effects DEF Effect
<1>3. \/ \E v : pushv(NextIP, SP, ASP, v)
      \/ UNCHANGED stack /\ KeepsToArrays
  <2>1. CASE ArgstackPeek
    BY <2>1 DEF ArgstackPeek, Wild, Fetch, VectorOps, KeepsToArrays
  <2>2. CASE Read
    BY <2>2 DEF Read, Abort, KeepsToArrays
  <2> QED
    BY <2>1, <2>2 DEF PushByte, Zero, One, PushFalse, PushTrue, EmptyString
<1>4. SP - 0 = SP
  BY FrameFacts DEF DInv, IInv
<1>5. CASE \E v : pushv(NextIP, SP, ASP, v)
  <2>1. PICK v : pushv(NextIP, SP, ASP, v)
    BY <1>5
  <2> QED
    BY <1>1, <1>2, <1>4, <2>1, PushvContained
<1>6. CASE UNCHANGED stack /\ KeepsToArrays
  BY <1>6 DEF Contained
<1> QED
  BY <1>3, <1>5, <1>6

LEMMA OperatorContained ==
  ASSUME DInv, Addi \/ Subi \/ Muli \/ Divi \/ Compare \/ Equa \/ Not
  PROVE  Contained
<1>1. CASE Not
  <2>1. status = "run" /\ Op = OP_NOT
    BY <1>1 DEF Not, Fetch
  <2>2. Op \notin Peeks /\ Pops(Fn(framese), IP) = 1
    BY <2>1, Groups, Effects DEF Alone, Effect
  <2> QED
    BY <1>1, <2>1, <2>2, PushvContained DEF Not
<1>2. CASE Addi \/ Subi \/ Muli \/ Divi \/ Compare \/ Equa
  <2>1. status = "run" /\ Op \in BinaryOps
    BY <1>2 DEF Addi, Subi, Muli, Divi, Compare, Equa, Fetch, BinaryOps
  <2>2. Op \notin Peeks /\ Pops(Fn(framese), IP) = 2
    BY <2>1, Groups, Effects DEF Effect
  <2>3. \/ \E v : pushv(NextIP, SP - 2, ASP, v)
        \/ UNCHANGED stack /\ KeepsToArrays
    <3>1. CASE Divi
      BY <3>1 DEF Divi, runtime_error, Abort, KeepsToArrays
    <3>2. CASE Compare
      BY <3>2 DEF Compare, Abort, KeepsToArrays
    <3>3. CASE Equa
      BY <3>3 DEF Equa, Abort, KeepsToArrays
    <3> QED
      BY <1>2, <3>1, <3>2, <3>3 DEF Addi, Subi, Muli
  <2>4. CASE \E v : pushv(NextIP, SP - 2, ASP, v)
    BY <2>1, <2>2, <2>4, PushvContained
  <2>5. CASE UNCHANGED stack /\ KeepsToArrays
    BY <2>5 DEF Contained
  <2> QED
    BY <2>3, <2>4, <2>5
<1> QED
  BY <1>1, <1>2

(* Handlers that leave the value stack as it is.                            *)
LEMMA QuietContained ==
  ASSUME DInv,
         Popv \/ Popa \/ PopToAstack \/ AstackShiftUp \/ Newline
           \/ ArgstackLoad \/ ArgstackUnload \/ Skip \/ SkipBack \/ SkipF
           \/ SetIndexLocal \/ Halt
  PROVE  Contained
<1>1. UNCHANGED stack
  BY DEF Popv, Popa, PopToAstack, AstackShiftUp, Newline, ArgstackLoad,
         ArgstackUnload, Skip, SkipBack, SkipF, SetIndexLocal, Halt, Goto,
         runtime_error, Wild
<1>2. CASE Popv \/ Popa \/ AstackShiftUp \/ Newline \/ Skip \/ SkipBack
             \/ SkipF \/ Halt
  <2>1. status' # "wild" \/ status = "wild"
    BY <1>2 DEF Popv, Popa, AstackShiftUp, Newline, Skip, SkipBack, SkipF,
                Halt, Goto, runtime_error
  <2> QED
    BY <1>1, <2>1 DEF Contained, KeepsToArrays
<1>3. CASE PopToAstack \/ ArgstackLoad \/ ArgstackUnload \/ SetIndexLocal
  <2>1. Op \in VectorOps
    BY <1>3 DEF PopToAstack, ArgstackLoad, ArgstackUnload, SetIndexLocal,
                Fetch, VectorOps
  <2> QED
    BY <1>1, <2>1 DEF Contained, KeepsToArrays
<1> QED
  BY <1>2, <1>3

(* The values that Write prints are on its own frame.                       *)
LEMMA WriteContained ==
  ASSUME DInv, Write
  PROVE  Contained
<1>1. status = "run" /\ Op = OP_WRITE /\ Fetch(OP_WRITE)
  BY DEF Write, Fetch
<1>2. Op \notin Peeks /\ Pops(Fn(framese), IP) = 3 * Arg(1)
  BY <1>1, Groups, Effects DEF Alone, Effect
<1>3. 3 * Arg(1) \in Nat
  <2>1. Arg(1) \in Nat
    BY <1>1, HandlerFacts, Operands DEF DInv, OneOperandByte
  <2> QED
    BY <2>1
<1>4. 3 * Arg(1) <= Len(ShapeOf(framese))
  BY <1>1, <1>2, <1>3, EnoughThere
<1> DEFINE taken == 3 * Arg(1)
<1>5. ~(SP - taken < 0)
  <2>1. /\ Frame.base \in Nat /\ Len(ShapeOf(framese)) \in Nat
        /\ SP = Frame.base + Len(ShapeOf(framese))
        /\ taken \in Nat /\ taken <= Len(ShapeOf(framese))
    BY <1>1, <1>3, <1>4, CurrentFacts
  <2> HIDE DEF taken
  <2> QED
    BY <2>1
<1>6. UNCHANGED stack /\ status' # "wild"
  BY <1>1, <1>5 DEF Write, Abort, Wild
<1> QED
  BY <1>6 DEF Contained, KeepsToArrays

(* A load of an element leaves it, or its vector, on its own frame.         *)
LEMMA GetIndexContained ==
  ASSUME DInv, GetIndex
  PROVE  Contained
<1>1. status = "run" /\ Op = OP_GET_INDEX /\ Fetch(OP_GET_INDEX)
  BY DEF GetIndex, Fetch
<1>2. Op \notin Peeks /\ Pops(Fn(framese), IP) = Arg(1) + Arg(2) + 1
  BY <1>1, Groups, Effects DEF Alone, Effect
<1>3. Arg(1) \in Nat /\ Arg(2) \in Nat /\ SP \in Int
  BY <1>1, HandlerFacts, Operands DEF DInv, TwoOperandBytes
<1> DEFINE p == Arg(1) + Arg(2) + 1
<1>4. SP - Arg(2) - Arg(1) - 1 = SP - p /\ p \in Nat
  BY <1>3
<1>5. Op \in VectorOps
  BY <1>1 DEF VectorOps
<1>6. CASE UNCHANGED stack
  BY <1>5, <1>6 DEF Contained, KeepsToArrays
<1>7. CASE \E v : pushv(NextIP, SP - p, ASP, v)
  <2>1. PICK v : pushv(NextIP, SP - p, ASP, v)
    BY <1>7
  <2> HIDE DEF p
  <2> QED
    BY <1>1, <1>2, <1>4, <2>1, PushvContained DEF p
<1>8. CASE \E v : stack' = [stack EXCEPT ![SP - p] = v]
  <2>1. PICK v : stack' = [stack EXCEPT ![SP - p] = v]
    BY <1>8
  <2>2. p <= Len(ShapeOf(framese))
    BY <1>1, <1>2, <1>4, EnoughThere
  <2>3. /\ Frame.base \in Nat /\ Len(ShapeOf(framese)) \in Nat
        /\ SP = Frame.base + Len(ShapeOf(framese))
    BY <1>1, CurrentFacts
  <2>4. stack \in [CellIndex -> Value]
    BY DEF DInv, IInv, TypeOK
  <2> HIDE DEF p
  <2>5. \A a \in CellIndex : a < Frame.base => a # SP - p
    BY <1>4, <2>2, <2>3 DEF CellIndex
  <2> QED
    BY <1>5, <2>1, <2>4, <2>5 DEF Contained, KeepsToArrays
<1>9. \/ UNCHANGED stack
      \/ \E v : pushv(NextIP, SP - p, ASP, v)
      \/ \E v : stack' = [stack EXCEPT ![SP - p] = v]
  <2> HIDE DEF p
  <2> QED
    BY <1>4 DEF GetIndex, Wild, runtime_error
<1> QED
  BY <1>6, <1>7, <1>8, <1>9

(* The frame of a local is one of the live ones.                            *)
LEMMA LocalFrame ==
  ASSUME DInv, status = "run", NEW off \in Nat, off <= Fn(framese).level
  PROVE  FrameAt(off) \in 0 .. framese
<1>1. /\ framese \in Nat /\ Frame.env \in Nat /\ off <= Frame.env
      /\ Frame.env <= framese
  <2>1. framese \in Nat /\ framese \in 0 .. framese
    BY CurrentFacts
  <2>2. Frame.env = Fn(framese).level /\ Frame.env <= framese
    BY <2>1 DEF DInv, FrameInv, Discipline, FramesKnown, Frame
  <2> QED
    BY <2>1, <2>2, Levels
<1> QED
  BY <1>1 DEF FrameAt

LEMMA GetLocalContained ==
  ASSUME DInv, GetLocal
  PROVE  Contained
<1>1. status = "run" /\ Op = OP_GET_LOCAL_LONG /\ Fetch(OP_GET_LOCAL_LONG)
  BY DEF GetLocal, Fetch
<1>2. Op \notin Peeks /\ Pops(Fn(framese), IP) = 0
  BY <1>1, Groups, LocalEffect DEF Alone, Effect
<1>3. ArgLong(1) \in Nat
  BY <1>1, LongType, Operands DEF DInv, IInv
<1>4. ArgLong(1) <= Fn(framese).level
  BY <1>1, CurrentFacts, SameInstruction DEF InstructionOK, AddressOK
<1>5. FrameAt(ArgLong(1)) \in FrameIndex
  <2>1. framese \in FrameIndex
    BY DEF DInv, IInv, TypeOK
  <2>2. FrameAt(ArgLong(1)) \in 0 .. framese
    BY <1>1, <1>3, <1>4, LocalFrame
  <2> QED
    BY <2>1, <2>2, SizesAssumption DEF FrameIndex
<1>6. PICK v : pushv(NextIP, SP, ASP, v)
  BY <1>5 DEF GetLocal
<1>7. SP - 0 = SP
  BY FrameFacts DEF DInv, IInv
<1> QED
  BY <1>1, <1>2, <1>6, <1>7, PushvContained

(* A store reaches a variable of its own frame, or one of the program's.    *)
LEMMA SetLocalKept ==
  ASSUME DInv, SetLocal
  PROVE  KeepsToArrays /\ KeepsLowerFrames
<1> DEFINE off  == ArgLong(1)
           k    == ArgLong(3)
           f    == FrameAt(off)
           slot == framestack[f].base + k
<1>1. status = "run" /\ Op = OP_SET_LOCAL_LONG /\ Fetch(OP_SET_LOCAL_LONG)
  BY DEF SetLocal, Fetch
<1>2. off \in Nat /\ k \in Nat
  BY <1>1, LongType, Operands DEF DInv, IInv
<1>3. /\ framese \in Nat /\ framese \in 0 .. framese
      /\ Frame.env = Fn(framese).level /\ Fn(framese).level \in Nat
      /\ Fn(framese).level > 1 => framese > 1
      /\ Len(ShapeOf(framese)) \in Nat
  BY <1>1, CurrentFacts, Levels
<1>4. /\ off <= Fn(framese).level
      /\ off = 0 => k + 1 < Len(ShapeOf(framese))
      /\ off # 0 => /\ Fn(framese).level - off = 1
                    /\ k < Len(image.fns[2].slots)
  BY <1>1, CurrentFacts, SameInstruction DEF InstructionOK, AddressOK
<1>5. /\ f \in 0 .. framese /\ k + 1 \in 1 .. Len(ShapeOf(f))
      /\ IF off = 0 THEN f = framese ELSE f = 1
  <2>1. CASE off = 0
    BY <1>2, <1>3, <1>4, <2>1 DEF FrameAt
  <2>2. CASE off # 0
    <3>1. f = 1 /\ framese > 1
      BY <1>2, <1>3, <1>4, <2>2 DEF FrameAt
    <3> QED
      BY <1>1, <1>2, <1>4, <2>2, <3>1, OuterCells
  <2> QED
    BY <2>1, <2>2
<1>6. /\ framestack[f].base \in Nat /\ Len(ShapeOf(f)) \in Nat
      /\ framestack[f].base + (k + 1) - 1 \in CellIndex
  BY <1>1, <1>5, FrameHolds
<1>7. f \in FrameIndex /\ InStack(slot, 1)
  <2>1. framese \in FrameIndex
    BY DEF DInv, IInv, TypeOK
  <2> HIDE DEF f, k
  <2>2. f \in FrameIndex
    BY ONLY <1>5, <2>1, SizesAssumption DEF FrameIndex
  <2>3. slot \in CellIndex
    <3>1. framestack[f].base + (k + 1) - 1 = framestack[f].base + k
      BY ONLY <1>2, <1>6
    <3> QED
      BY ONLY <1>6, <3>1
  <2>4. InStack(slot, 1)
    BY ONLY <2>3, SizesAssumption DEF CellIndex, InStack
  <2> QED
    BY ONLY <2>2, <2>4
<1>8. /\ stack' = [stack EXCEPT ![slot] = peekv(1)] /\ UNCHANGED status
      /\ stack \in [CellIndex -> Value]
  BY <1>7 DEF SetLocal, DInv, IInv, TypeOK
<1>9. ASSUME NEW g \in 0 .. framese - 1, NEW i \in 1 .. Len(ShapeOf(g)),
             ~(off # 0 /\ g = 1 /\ i = k + 1)
      PROVE  stack'[framestack[g].base + i - 1] =
               stack[framestack[g].base + i - 1]
  <2>1. /\ g \in 0 .. framese /\ g \in Nat /\ g < framese
        /\ framestack[g].base \in Nat
        /\ Len(ShapeOf(g)) \in Nat /\ i \in Nat \ {0}
        /\ framestack[g].base + i - 1 \in CellIndex
    <3>1. g \in 0 .. framese /\ g \in Nat /\ g < framese
      BY <1>3
    <3>2. /\ framestack[g].base \in Nat /\ Len(ShapeOf(g)) \in Nat
          /\ framestack[g].base + i - 1 \in CellIndex
      BY <1>1, <3>1, FrameHolds
    <3> QED
      BY <3>1, <3>2
  <2>2. framestack[g].base + i - 1 # slot
    <3>1. CASE g = f
      <4>1. i # k + 1
        BY <1>5, <1>9, <2>1, <3>1
      <4> QED
        BY <1>2, <1>6, <2>1, <3>1, <4>1, OtherCell
    <3>2. CASE g < f
      <4>1. framestack[g].base + Len(ShapeOf(g)) <= framestack[f].base
        BY <1>1, <1>5, <2>1, <3>2, FramesApart
      <4> QED
        BY <1>2, <1>6, <2>1, <4>1, CellsApart, ZenonT(60)
    <3>3. CASE f < g
      <4>1. framestack[f].base + Len(ShapeOf(f)) <= framestack[g].base
        BY <1>1, <1>5, <2>1, <3>3, FramesApart
      <4>2. k + 1 <= Len(ShapeOf(f))
        BY <1>2, <1>5
      <4> QED
        BY <1>2, <1>6, <2>1, <4>1, <4>2, CellsApart
    <3>4. f \in Nat
      BY <1>5
    <3> QED
      BY <2>1, <3>1, <3>2, <3>3, <3>4
  <2> QED
    BY <1>8, <2>1, <2>2
<1>10. KeepsToArrays
  BY <1>8 DEF KeepsToArrays
<1> HIDE DEF slot, f
<1> QED
  BY <1>1, <1>9, <1>10 DEF KeepsLowerFrames

(* A returned vector replaces the topmost value of its own frame.           *)
LEMMA ShiftContained ==
  ASSUME DInv, ShiftAstackentToBase
  PROVE  Contained
<1>1. status = "run" /\ Op = OP_SHIFT_ASTACKENT_TO_BASE
  BY DEF ShiftAstackentToBase, Fetch
<1>2. Op \in VectorOps
  BY <1>1 DEF VectorOps
<1>3. /\ Len(ShapeOf(framese)) \in Nat /\ Len(ShapeOf(framese)) >= 1
      /\ Frame.base \in Nat /\ SP = Frame.base + Len(ShapeOf(framese))
  BY <1>1, CurrentFacts, SameInstruction DEF InstructionOK, Needs
<1>4. UNCHANGED stack \/ \E v : stack' = [stack EXCEPT ![SP - 1] = v]
  BY DEF ShiftAstackentToBase, Wild
<1>5. \A a \in CellIndex : a < Frame.base => a # SP - 1
  BY <1>3 DEF CellIndex
<1>6. stack \in [CellIndex -> Value]
  BY DEF DInv, IInv, TypeOK
<1> QED
  BY <1>2, <1>4, <1>5, <1>6 DEF Contained, KeepsToArrays

(* A call leaves the stack as it is, and finds what it calls.               *)
LEMMA CallContained ==
  ASSUME DInv, Call
  PROVE  Contained
<1> DEFINE s     == ShapeOf(framese)
           n     == Len(s)
           arity == Arg(1)
           g     == s[n - arity]
<1>1. status = "run" /\ Op = OP_CALL /\ Fetch(OP_CALL)
  BY DEF Call, Fetch
<1>2. Op \notin Peeks /\ Pops(Fn(framese), IP) = arity + 1
  BY <1>1, Groups, Effects DEF Alone, Effect
<1>3. /\ framese \in Nat /\ framese \in 0 .. framese
      /\ n \in Nat /\ Frame.base \in Nat /\ SP = Frame.base + n
      /\ SP <= StackMax /\ s \in Seq({0} \cup (DOMAIN image.fns \ {1}))
  BY <1>1, CurrentFacts
<1>4. arity \in Nat
  BY <1>1, HandlerFacts, Operands DEF DInv, OneOperandByte
<1>5. arity + 1 <= n /\ arity + 1 \in Nat
  BY <1>1, <1>2, <1>4, EnoughThere
<1>6. /\ n - arity \in 1 .. n /\ SP - arity \in Nat /\ SP - arity >= 1
      /\ Frame.base + (n - arity) - 1 = SP - (arity + 1)
  <2> HIDE DEF n, s, arity
  <2>1. /\ n - arity \in 1 .. n /\ SP - arity = Frame.base + (n - arity)
        /\ SP - arity \in Nat /\ Frame.base + (n - arity) - 1 = SP - (arity + 1)
    BY ONLY <1>3, <1>4, <1>5, CallArithmetic
  <2>2. PICK b, held, kept : b = Frame.base /\ held = n - arity /\ kept = SP - arity
    OBVIOUS
  <2>3. b \in Nat /\ held \in 1 .. n /\ n \in Nat /\ kept = b + held
    BY ONLY <1>3, <2>1, <2>2
  <2>4. kept >= 1
    BY ONLY <2>3
  <2> QED
    BY ONLY <2>1, <2>2, <2>4
<1>7. g # 0
  <2>1. CallOK(image, Frame.fn, IP)
    BY <1>1, CurrentFacts DEF InstructionOK
  <2>2. /\ OpAt(image.fns[Frame.fn], IP) = OP_CALL
        /\ ArgAt(image.fns[Frame.fn], IP, 1) = arity
        /\ image.fns[Frame.fn] = Fn(framese)
        /\ Fn(framese).shape[IP] = s
    BY <1>1, SameInstruction, CurrentFacts
  <2> QED
    BY <2>1, <2>2 DEF CallOK
<1>8. g \in DOMAIN image.fns
  BY <1>3, <1>6, <1>7
<1>9. peekv(arity + 1) = FnV(g, image.fns[g].level)
  <2>1. /\ Frame.base + (n - arity) - 1 \in CellIndex
        /\ stack[Frame.base + (n - arity) - 1] = FnV(g, image.fns[g].level)
    BY <1>1, <1>3, <1>6, <1>7, FrameHolds DEF Frame
  <2>2. stack \in [CellIndex -> Value]
    BY DEF DInv, IInv, TypeOK
  <2> QED
    BY <1>6, <2>1, <2>2 DEF peekv, Slot, Cell
<1>10. framese < StackMax
  <2>1. framese <= Frame.base
    BY <1>1, Below
  <2> HIDE DEF n, arity
  <2> QED
    BY <1>3, <1>4, <1>5, <2>1, SizesAssumption
<1>11. ~(SP - arity - 1 < 0) /\ ~(framese = StackMax)
  <2> HIDE DEF n, s, arity
  <2>1. SP \in Int
    BY ONLY <1>3
  <2>2. SP - arity - 1 >= 0
    BY ONLY <1>4, <1>6, <2>1
  <2>3. framese # StackMax
    BY ONLY <1>3, <1>10, SizesAssumption
  <2> QED
    BY ONLY <1>4, <2>1, <2>2, <2>3
<1>12. peekv(arity + 1).t = "fn" /\ peekv(arity + 1).i = g
  BY <1>9 DEF FnV
<1> HIDE DEF g, n, s
<1>13. UNCHANGED << stack, status >>
  BY <1>8, <1>11, <1>12 DEF Call
<1> QED
  BY <1>13 DEF Contained, KeepsToArrays

(* A return leaves its result where its caller held the function.           *)
LEMMA ReturnKept ==
  ASSUME DInv, Return
  PROVE  KeepsToArrays /\ KeepsLowerFrames
<1> DEFINE c  == framese - 1
           sp == framestack[c].sp - Arg(1) - 1
           n  == Len(ShapeOf(c))
<1>1. status = "run" /\ Op = OP_RETURN
  BY DEF Return, Fetch
<1>2. framese \in Nat /\ framese \in 0 .. framese
  BY <1>1, CurrentFacts
<1>3. /\ Frame.fn # 1 /\ Arg(1) = Fn(framese).arity
      /\ Fn(framese).arity \in Nat /\ Len(ShapeOf(framese)) >= 1
  <2>1. ReturnOK(image, Frame.fn, IP)
    BY <1>1, CurrentFacts DEF InstructionOK
  <2>2. Fn(framese).arity \in Nat
    BY <1>1, CurrentFacts DEF HeaderOK
  <2>3. Len(ShapeOf(framese)) >= 1
    BY <1>1, CurrentFacts, SameInstruction DEF InstructionOK, Needs
  <2>4. /\ OpAt(image.fns[Frame.fn], IP) = OP_RETURN
        /\ ArgAt(image.fns[Frame.fn], IP, 1) = Arg(1)
        /\ image.fns[Frame.fn] = Fn(framese)
    BY <1>1, SameInstruction, CurrentFacts
  <2> QED
    BY ONLY <2>1, <2>2, <2>3, <2>4 DEF ReturnOK
<1>4. framese # 0
  <2>1. framese = 0 <=> framestack[framese].fn = 1
    BY <1>1, <1>2 DEF DInv, FrameInv, Discipline, FramesKnown
  <2> QED
    BY ONLY <1>3, <2>1 DEF Frame
<1>5. c \in 0 .. framese /\ c < framese /\ c + 1 = framese
  BY <1>2, <1>4
<1>6. /\ framestack[c].sp = framestack[framese].base + Fn(framese).arity
      /\ framestack[framese].base = framestack[c].base + n
      /\ n > 0
  <2>1. HeightsAgree
    BY <1>1 DEF DInv, FrameInv, Discipline
  <2>2. c \in 0 .. framese /\ c < framese /\ c # framese /\ c + 1 = framese
    BY ONLY <1>2, <1>5
  <2> HIDE DEF c
  <2>3. /\ framestack[c].sp = framestack[c + 1].base + Fn(c + 1).arity
        /\ framestack[c + 1].base = Height(c)
        /\ Len(ShapeOf(c)) > 0
    BY ONLY <2>1, <2>2 DEF HeightsAgree
  <2> QED
    BY ONLY <2>2, <2>3 DEF Height
<1>7. framestack[c].base \in Nat /\ n \in Nat
  BY <1>1, <1>5, FrameHolds
<1>8. sp = framestack[c].base + n - 1
  <2>1. sp = (framestack[c].base + n + Arg(1)) - Arg(1) - 1
    BY <1>3, <1>6
  <2> HIDE DEF n, sp, c
  <2> QED
    BY <1>3, <1>6, <1>7, <2>1
<1>9. /\ SP = Frame.base + Len(ShapeOf(framese)) /\ SP <= StackMax
      /\ Frame.base \in Nat /\ Len(ShapeOf(framese)) \in Nat
  BY <1>1, CurrentFacts
<1>10. ~(SP < 1) /\ InStack(sp, 1)
  <2> DEFINE b == framestack[c].base
             m == Len(ShapeOf(framese))
  <2>1. /\ Frame.base = b + n /\ SP = b + n + m /\ m \in Nat /\ m >= 1
        /\ b \in Nat /\ n \in Nat /\ n > 0 /\ sp = b + n - 1
        /\ SP <= StackMax /\ StackMax \in Nat
    BY <1>3, <1>6, <1>7, <1>8, <1>9, SizesAssumption DEF Frame
  <2> HIDE DEF n, sp, c, b, m
  <2> QED
    BY ONLY <2>1 DEF InStack
<1>11. /\ UNCHANGED status /\ stack' = [stack EXCEPT ![sp] = peekv(1)]
       /\ stack \in [CellIndex -> Value]
  BY <1>4, <1>10 DEF Return, DInv, IInv, TypeOK
<1>12. ASSUME NEW f \in 0 .. framese - 1, NEW k \in 1 .. Len(ShapeOf(f)),
              ~(f = c /\ k = Len(ShapeOf(f)))
       PROVE  stack'[framestack[f].base + k - 1] =
                stack[framestack[f].base + k - 1]
  <2>1. /\ f \in 0 .. framese /\ f \in Nat /\ f < framese
        /\ framestack[f].base \in Nat
        /\ Len(ShapeOf(f)) \in Nat /\ k \in Nat
        /\ framestack[f].base + k - 1 \in CellIndex
    BY <1>1, <1>2, FrameHolds
  <2>2. framestack[f].base + k - 1 # sp
    <3>1. CASE f = c
      <4>1. k # n
        BY <1>12, <3>1
      <4> HIDE DEF n, sp, c
      <4> QED
        BY ONLY <1>7, <1>8, <2>1, <3>1, <4>1, ResultArithmetic
    <3>2. CASE f < c
      <4>1. framestack[f].base + Len(ShapeOf(f)) <= framestack[c].base
        BY <1>1, <1>5, <2>1, <3>2, FramesApart
      <4> HIDE DEF n, sp, c
      <4>2. n > 0
        BY <1>6
      <4> QED
        BY ONLY <1>7, <1>8, <2>1, <4>1, <4>2, k \in 1 .. Len(ShapeOf(f)),
                ResultArithmetic
    <3> QED
      BY <1>2, <2>1, <3>1, <3>2
  <2> QED
    BY <1>11, <2>1, <2>2
<1>13. KeepsToArrays
  BY <1>11 DEF KeepsToArrays
<1> HIDE DEF sp, n
<1> QED
  BY <1>1, <1>12, <1>13 DEF KeepsLowerFrames

(* What no turn of the loop does.                                           *)
LEMMA StepContained ==
  ASSUME DInv, [Next]_vars
  PROVE  KeepsToArrays /\ KeepsLowerFrames
<1>1. CASE Execute /\ Step
  <2>1. ~BadCode
    BY WholeInstruction DEF BadCode, LeftCode
  <2>2. CASE SetLocal
    BY <2>2, SetLocalKept
  <2>3. CASE Return
    BY <2>3, ReturnKept
  <2>4. CASE ~SetLocal /\ ~Return
    <3>1. Contained
      BY <1>1, <2>1, <2>4, ConstantContained, PlainPushContained,
         OperatorContained, QuietContained, WriteContained, GetIndexContained,
         GetLocalContained, ShiftContained, CallContained
      DEF Step
    <3> QED
      BY <3>1, ContainedKeeps
  <2> QED
    BY <2>2, <2>3, <2>4
<1>2. CASE Execute /\ Read
  BY <1>2, PlainPushContained, ContainedKeeps
<1>3. CASE UNCHANGED vars
  BY <1>3 DEF vars, KeepsToArrays, KeepsLowerFrames
<1> QED
  BY <1>1, <1>2, <1>3 DEF Next, Execute, Returned

(* vm_run checks the upper end of the value stack and little else; running  *)
(* a well-formed image, it reads and writes outside of its arrays in the    *)
(* handlers of vectors and of the argument stack at most.                   *)
THEOREM VMWildOnlyByVectors ==
  Spec /\ WellFormed(image) => [][KeepsToArrays]_vars
<1>1. Spec /\ WellFormed(image) => []DInv
  BY InitDInv, NextDInv, PTL DEF Spec
<1>2. DInv /\ [Next]_vars => [KeepsToArrays]_vars
  BY StepContained
<1> QED
  BY <1>1, <1>2, PTL DEF Spec

(* No instruction of a well-formed image changes a value of a frame that    *)
(* waits for its callee: not by popping too much, not by a local access     *)
(* with a wrong offset, not by a return that puts its result into the wrong *)
(* cell.  Only the program's variables are open to the functions in it.     *)
THEOREM VMLowerFramesKept ==
  Spec /\ WellFormed(image) => [][KeepsLowerFrames]_vars
<1>1. Spec /\ WellFormed(image) => []DInv
  BY InitDInv, NextDInv, PTL DEF Spec
<1>2. DInv /\ [Next]_vars => [KeepsLowerFrames]_vars
  BY StepContained
<1> QED
  BY <1>1, <1>2, PTL DEF Spec
-----------------------------------------------------------------------------
(***************************************************************************)
(* The machine implements module Activations.                              *)
(*                                                                         *)
(* The step simulation uses DInv on both sides of a step.  Before it, the  *)
(* shapes say where each activation lies on the stack; after it, they say  *)
(* how long it is, so that a call or a return needs nothing of the shapes  *)
(* of its own.  What other activations hold is a matter of                 *)
(* KeepsLowerFrames.                                                       *)
(***************************************************************************)

(* The values of frame f, and its activation.                               *)
Vals(f) ==
  [k \in 1 .. Len(ShapeOf(f)) |-> stack[framestack[f].base + k - 1]]

Activation(f) == [fn |-> framestack[f].fn, vals |-> Vals(f)]

-----------------------------------------------------------------------------
(* Sequences of activations.                                               *)

(* s is a sequence of L elements.                                           *)
Sequence(s, L) == s = [i \in 1 .. L |-> s[i]]

(* The sequence that a call leaves: the last element is shortened, another  *)
(* one appended.                                                            *)
LEMMA LastReplaced ==
  ASSUME NEW L \in Nat \ {0}, NEW s, Sequence(s, L),
         NEW t, Sequence(t, L + 1),
         \A i \in 1 .. L - 1 : t[i] = s[i],
         NEW x, t[L] = x
  PROVE  t = Append([s EXCEPT ![L] = x], t[L + 1])
<1> DEFINE T == {s[i] : i \in 1 .. L} \cup {t[i] : i \in 1 .. L + 1}
           r == [s EXCEPT ![L] = x]
           u == Append(r, t[L + 1])
<1>0. s = [i \in 1 .. L |-> s[i]] /\ t = [i \in 1 .. L + 1 |-> t[i]]
  BY DEF Sequence
<1>1. r = [i \in 1 .. L |-> IF i = L THEN x ELSE s[i]]
  BY <1>0
<1>2. /\ L \in 1 .. L + 1 /\ L + 1 \in 1 .. L + 1
      /\ \A i \in 1 .. L : i \in 1 .. L + 1
      /\ \A i \in 1 .. L : i # L => i \in 1 .. L - 1
      /\ \A i \in 1 .. L + 1 : i # L + 1 => i \in 1 .. L
      /\ L + 1 \notin 1 .. L
  OBVIOUS
<1>3. \A i \in 1 .. L : r[i] = t[i] /\ r[i] \in T
  BY <1>1, <1>2
<1>5. t[L + 1] \in T
  BY <1>2
<1> HIDE DEF T, r
<1>a. r = [i \in 1 .. L |-> r[i]]
  BY <1>1
<1>4. r \in Seq(T) /\ Len(r) = L
  BY ONLY <1>3, <1>a, L \in Nat
<1>6. /\ u = [i \in 1 .. L + 1 |-> u[i]]
      /\ \A i \in 1 .. L : u[i] = r[i]
      /\ u[L + 1] = t[L + 1]
  BY <1>4, <1>5
<1>7. \A i \in 1 .. L + 1 : u[i] = t[i]
  BY <1>2, <1>3, <1>6
<1> HIDE DEF u
<1>8. u = t
  BY <1>0, <1>6, <1>7
<1> QED
  BY <1>8 DEF u, r

(* The sequence that a return leaves: the last element is gone, the one     *)
(* before it replaced.                                                      *)
LEMMA LastDropped ==
  ASSUME NEW L \in Nat \ {0}, NEW s, Sequence(s, L + 1),
         NEW t, Sequence(t, L),
         \A i \in 1 .. L - 1 : t[i] = s[i],
         NEW x, t[L] = x
  PROVE  t = [SubSeq(s, 1, L) EXCEPT ![L] = x]
<1> DEFINE T == {s[i] : i \in 1 .. L + 1}
           r == SubSeq(s, 1, L)
<1>0. s = [i \in 1 .. L + 1 |-> s[i]] /\ t = [i \in 1 .. L |-> t[i]]
  BY DEF Sequence
<1>1. s \in Seq(T) /\ Len(s) = L + 1
  <2>1. \A i \in 1 .. L + 1 : s[i] \in T
    OBVIOUS
  <2>2. L + 1 \in Nat
    OBVIOUS
  <2> HIDE DEF T
  <2> QED
    BY ONLY <1>0, <2>1, <2>2
<1> HIDE DEF T
<1>2. r = [i \in 1 .. L |-> s[i]]
  BY <1>1
<1> HIDE DEF r
<1>3. \A i \in 1 .. L : i # L => i \in 1 .. L - 1
  OBVIOUS
<1>4. [r EXCEPT ![L] = x] = [i \in 1 .. L |-> IF i = L THEN x ELSE s[i]]
  BY <1>2
<1>5. \A i \in 1 .. L : t[i] = IF i = L THEN x ELSE s[i]
  BY <1>3
<1>6. t = [i \in 1 .. L |-> IF i = L THEN x ELSE s[i]]
  BY <1>0, <1>5
<1> QED
  BY <1>4, <1>6 DEF r

(* A value of a sequence is replaced, and only that.                        *)
LEMMA OneReplaced ==
  ASSUME NEW m, NEW v, v = [i \in 1 .. m |-> v[i]],
         NEW w, w = [i \in 1 .. m |-> w[i]],
         NEW k \in 1 .. m, \A i \in 1 .. m : i # k => w[i] = v[i]
  PROVE  w = [v EXCEPT ![k] = w[k]]
OBVIOUS

(* The parts of a sequence of values below and above m.                     *)
LEMMA Parts ==
  ASSUME NEW n \in Nat, NEW v, Sequence(v, n), NEW m \in 0 .. n
  PROVE  /\ SubSeq(v, 1, m) = [k \in 1 .. m |-> v[k]]
         /\ SubSeq(v, m + 1, n) = [k \in 1 .. n - m |-> v[m + k]]
<1> DEFINE T == {v[i] : i \in 1 .. n}
<1>1. v \in Seq(T) /\ Len(v) = n
  BY DEF Sequence
<1> HIDE DEF T
<1>2. SubSeq(v, 1, m) = [k \in 1 .. m |-> v[k]]
  BY <1>1
<1>3. SubSeq(v, m + 1, n) = [k \in 1 .. n - m |-> v[m + k]]
  BY <1>1
<1> QED
  BY <1>2, <1>3

-----------------------------------------------------------------------------
(* The activations of a running machine.                                   *)

LEMMA ActiveFacts ==
  ASSUME DInv, status = "run"
  PROVE  /\ framese \in Nat
         /\ ActiveFrames = [i \in 1 .. framese + 1 |-> Activation(i - 1)]
         /\ ActiveFrames = [i \in 1 .. framese + 1 |-> ActiveFrames[i]]
         /\ Len(ActiveFrames) = framese + 1
         /\ ActiveFrames # << >>
         /\ \A f \in 0 .. framese : ActiveFrames[f + 1] = Activation(f)
         /\ Calls!Current = Activation(framese)
<1>1. framese \in Nat
  BY CurrentFacts
<1>2. ActiveFrames = [i \in 1 .. framese + 1 |-> Activation(i - 1)]
  BY DEF ActiveFrames, Activation, Vals
<1>3. /\ Len(ActiveFrames) = framese + 1
      /\ ActiveFrames = [i \in 1 .. framese + 1 |-> ActiveFrames[i]]
      /\ ActiveFrames # << >>
  BY <1>1, <1>2
<1>4. ASSUME NEW f \in 0 .. framese
      PROVE  ActiveFrames[f + 1] = Activation(f)
  <2>1. f + 1 \in 1 .. framese + 1 /\ (f + 1) - 1 = f
    BY <1>1
  <2> QED
    BY <1>2, <2>1
<1>5. framese \in 0 .. framese
  BY <1>1
<1> QED
  BY <1>1, <1>2, <1>3, <1>4, <1>5 DEF Calls!Current

(* The same after a step.                                                   *)
LEMMA ActiveFactsNext ==
  ASSUME DInv', status' = "run", NEW n, n = framese'
  PROVE  /\ n \in Nat
         /\ ActiveFrames' = [i \in 1 .. n + 1 |-> ActiveFrames'[i]]
         /\ Len(ActiveFrames') = n + 1
         /\ \A f \in 0 .. n : ActiveFrames'[f + 1] = Activation(f)'
<1>1. n \in Nat
  BY SizesAssumption DEF DInv, IInv, TypeOK, FrameIndex
<1>2. ActiveFrames' = [i \in 1 .. n + 1 |-> Activation(i - 1)']
  BY DEF ActiveFrames, Activation, Vals
<1>3. /\ ActiveFrames' = [i \in 1 .. n + 1 |-> ActiveFrames'[i]]
      /\ \A i \in 1 .. n + 1 : ActiveFrames'[i] = Activation(i - 1)'
  BY ONLY <1>2
<1>4. Len(ActiveFrames') = n + 1
  BY ONLY <1>1, <1>3
<1>5. \A f \in 0 .. n : f + 1 \in 1 .. n + 1 /\ (f + 1) - 1 = f
  BY ONLY <1>1
<1>6. ASSUME NEW f \in 0 .. n
      PROVE  ActiveFrames'[f + 1] = Activation(f)'
  BY <1>3, <1>5, Zenon
<1> QED
  BY ONLY <1>1, <1>3, <1>4, <1>6

(* The frames stay where they are.                                          *)
FramesStay ==
  /\ UNCHANGED framese
  /\ \A f \in 0 .. framese : /\ framestack'[f].fn = framestack[f].fn
                             /\ framestack'[f].base = framestack[f].base
  /\ \A f \in 0 .. framese - 1 : framestack'[f].ip = framestack[f].ip

LEMMA ResumeStays ==
  ASSUME DInv, UNCHANGED framese,
         \E ip, sp, asp : Resume(ip, sp, asp)
  PROVE  FramesStay
<1>1. TypeOK
  BY DEF DInv, IInv
<1> QED
  BY <1>1, ResumeMoves DEF FramesStay

(* What a waiting frame holds is what it held, where its cells are kept.    *)
LEMMA SameVals ==
  ASSUME NEW f, UNCHANGED image,
         framestack'[f].fn = framestack[f].fn,
         framestack'[f].base = framestack[f].base,
         framestack'[f].ip = framestack[f].ip
  PROVE  /\ ShapeOf(f)' = ShapeOf(f)
         /\ Vals(f)' = [k \in 1 .. Len(ShapeOf(f)) |->
                          stack'[framestack[f].base + k - 1]]
<1>1. ShapeOf(f)' = ShapeOf(f)
  BY DEF ShapeOf, Fn
<1> QED
  BY <1>1 DEF Vals

(* A step that moves no frame is a step of the current activation, or an    *)
(* assignment to a variable of the program.                                 *)
LEMMA StaysSimulated ==
  ASSUME DInv, DInv', status = "run", status' = "run", UNCHANGED image,
         FramesStay, KeepsLowerFrames, Op # OP_RETURN,
         Op = OP_SET_LOCAL_LONG => Fetch(OP_SET_LOCAL_LONG)
  PROVE  Calls!Work \/ Calls!Assign
<1> DEFINE off   == ArgLong(1)
           k     == ArgLong(3)
           slots == image.fns[2].slots
<1>0. PICK n : n = framese
  OBVIOUS
<1>1. /\ n \in Nat /\ framese' = n
      /\ Len(ActiveFrames) = n + 1 /\ Len(ActiveFrames') = n + 1
      /\ ActiveFrames # << >> /\ Calls!Current = Activation(n)
      /\ \A f \in 0 .. n : /\ ActiveFrames[f + 1] = Activation(f)
                           /\ ActiveFrames'[f + 1] = Activation(f)'
  BY <1>0, ActiveFacts, ActiveFactsNext DEF FramesStay
<1>2. n \in 0 .. n /\ \A f \in 0 .. n - 1 : f \in 0 .. n
  BY <1>1
<1>3. ActiveFrames'[Len(ActiveFrames)].fn = Calls!Current.fn
  <2>1. Activation(framese).fn = framestack[framese].fn
    BY DEF Activation
  <2>2. Activation(n)'.fn = framestack'[n].fn
    BY DEF Activation
  <2> QED
    BY <1>0, <1>1, <1>2, <2>1, <2>2 DEF FramesStay
(* The activations below the current one.                                   *)
<1>4. ASSUME NEW f \in 0 .. n - 1
      PROVE  /\ ShapeOf(f)' = ShapeOf(f)
             /\ Vals(f)' = [i \in 1 .. Len(ShapeOf(f)) |->
                              stack'[framestack[f].base + i - 1]]
             /\ framestack'[f].fn = framestack[f].fn
  <2>1. /\ framestack'[f].fn = framestack[f].fn
        /\ framestack'[f].base = framestack[f].base
        /\ framestack'[f].ip = framestack[f].ip
    BY <1>0, <1>2 DEF FramesStay
  <2> QED
    BY <2>1, SameVals
<1>5. ASSUME NEW f \in 0 .. n - 1,
             ~(Op = OP_SET_LOCAL_LONG /\ off # 0 /\ f = 1)
      PROVE  ActiveFrames'[f + 1] = ActiveFrames[f + 1]
  <2>1. \A i \in 1 .. Len(ShapeOf(f)) :
          stack'[framestack[f].base + i - 1] = stack[framestack[f].base + i - 1]
    BY <1>0, <1>5 DEF KeepsLowerFrames
  <2>2. Vals(f)' = Vals(f)
    BY <1>4, <2>1 DEF Vals
  <2>3. Activation(f)' = Activation(f)
    BY <1>4, <2>2 DEF Activation
  <2> QED
    BY <1>1, <1>2, <2>3
<1>6. ASSUME NEW i \in 1 .. Len(ActiveFrames) - 1
      PROVE  i - 1 \in 0 .. n - 1 /\ (i - 1) + 1 = i
  BY <1>1
<1>7. CASE ~(Op = OP_SET_LOCAL_LONG /\ off # 0)
  <2>1. \A i \in 1 .. Len(ActiveFrames) - 1 : ActiveFrames'[i] = ActiveFrames[i]
    BY <1>5, <1>6, <1>7
  <2> QED
    BY <1>1, <1>3, <2>1 DEF Calls!Work, Calls!OthersKeep
<1>8. CASE Op = OP_SET_LOCAL_LONG /\ off # 0
  <2>1. off \in Nat /\ k \in Nat
    BY <1>8, LongType, Operands DEF DInv, IInv
  <2>2. /\ off <= Fn(framese).level /\ Fn(framese).level - off = 1
        /\ k < Len(slots) /\ slots[k + 1] = 0
    BY <1>8, CurrentFacts, SameInstruction DEF InstructionOK, AddressOK
  <2>3. framese > 1
    BY <1>8, <2>1, <2>2, Levels
  <2>4. /\ 1 \in 0 .. n - 1 /\ 1 + 1 = 2 /\ Len(ActiveFrames) > 2
        /\ k + 1 \in 1 .. Len(slots) /\ k + 1 \in 1 .. Len(ShapeOf(1))
    <3>1. k + 1 \in 1 .. Len(ShapeOf(1))
      BY <2>1, <2>2, <2>3, OuterCells
    <3>2. Len(slots) \in Nat
      <4>1. 2 \in DOMAIN image.fns /\ \A f \in DOMAIN image.fns : HeaderOK(image, f)
        BY DEF DInv, WellFormed
      <4> QED
        BY ONLY <4>1 DEF HeaderOK
    <3> QED
      BY <1>0, <1>1, <2>1, <2>2, <2>3, <3>1, <3>2
  <2>5. /\ ActiveFrames[2] = Activation(1) /\ ActiveFrames'[2] = Activation(1)'
    BY <1>1, <1>2, <2>4
  <2>6. \A i \in 1 .. Len(ShapeOf(1)) :
          i # k + 1 => stack'[framestack[1].base + i - 1] =
                         stack[framestack[1].base + i - 1]
    BY <1>0, <2>4 DEF KeepsLowerFrames
  <2>7. Vals(1)' = [Vals(1) EXCEPT ![k + 1] = Vals(1)'[k + 1]]
    <3>1. PICK m, v, w : m = Len(ShapeOf(1)) /\ v = Vals(1) /\ w = Vals(1)'
      OBVIOUS
    <3>2. v = [i \in 1 .. m |-> stack[framestack[1].base + i - 1]]
      BY ONLY <3>1 DEF Vals
    <3>3. w = [i \in 1 .. m |-> stack'[framestack[1].base + i - 1]]
      BY ONLY <1>4, <2>4, <3>1
    <3>4. \A i \in 1 .. m : i # k + 1 => w[i] = v[i]
      BY ONLY <2>6, <3>1, <3>2, <3>3
    <3>5. k + 1 \in 1 .. m
      BY ONLY <2>4, <3>1
    <3>6. v = [i \in 1 .. m |-> v[i]] /\ w = [i \in 1 .. m |-> w[i]]
      BY ONLY <3>2, <3>3
    <3>7. w = [v EXCEPT ![k + 1] = w[k + 1]]
      BY ONLY <3>4, <3>5, <3>6, OneReplaced
    <3> QED
      BY ONLY <3>1, <3>7
  <2>8. Activation(1)' = [Activation(1) EXCEPT
                            !.vals = [@ EXCEPT ![k + 1] = Activation(1)'.vals[k + 1]]]
    <3>1. /\ Activation(1)' = [fn |-> framestack[1].fn, vals |-> Vals(1)']
          /\ Activation(1) = [fn |-> framestack[1].fn, vals |-> Vals(1)]
      BY <1>4, <2>4 DEF Activation
    <3> QED
      BY <2>7, <3>1
  <2>9. ActiveFrames'[2] =
          [ActiveFrames[2] EXCEPT
             !.vals = [@ EXCEPT ![k + 1] = ActiveFrames'[2].vals[k + 1]]]
    BY <2>5, <2>8
  <2>10. \A i \in (1 .. Len(ActiveFrames) - 1) \ {2} :
           ActiveFrames'[i] = ActiveFrames[i]
    <3> SUFFICES ASSUME NEW i \in 1 .. Len(ActiveFrames) - 1, i # 2
                 PROVE  ActiveFrames'[i] = ActiveFrames[i]
      OBVIOUS
    <3>1. i - 1 \in 0 .. n - 1 /\ (i - 1) + 1 = i /\ i - 1 # 1
      BY <1>6
    <3> QED
      BY <1>5, <3>1
  <2> HIDE DEF off, k, slots
  <2>11. Calls!OthersKeep({2})
    BY <1>1, <1>3, <2>10 DEF Calls!OthersKeep
  <2> QED
    BY <2>2, <2>4, <2>9, <2>11 DEF Calls!Assign, slots
<1> QED
  BY <1>7, <1>8

-----------------------------------------------------------------------------
(* The handlers.                                                           *)

(* Every handler but three moves pointers of the current frame only.        *)
LEMMA ResumingHandlers ==
  ASSUME status = "run", status' = "run", Step \/ Read,
         ~Call, ~Return, ~ShiftAstackentToBase
  PROVE  UNCHANGED framese /\ \E ip, sp, asp : Resume(ip, sp, asp)
<1>1. ASSUME NEW ip, NEW sp, NEW asp, NEW v, pushv(ip, sp, asp, v)
      PROVE  UNCHANGED framese /\ \E i, s, a : Resume(i, s, a)
  <2>1. CASE sp < 0 \/ sp >= StackMax
    BY <1>1, <2>1 DEF pushv, Wild
  <2>2. CASE ~(sp < 0) /\ ~(sp >= StackMax)
    BY <1>1, <2>2 DEF pushv
  <2> QED
    BY <2>1, <2>2
<1>2. ASSUME NEW ip, NEW sp, NEW asp, Goto(ip, sp, asp)
      PROVE  UNCHANGED framese /\ \E i, s, a : Resume(i, s, a)
  BY <1>2 DEF Goto
<1>3. ASSUME NEW sp, runtime_error(sp)
      PROVE  UNCHANGED framese /\ \E i, s, a : Resume(i, s, a)
  BY <1>3 DEF runtime_error
<1>4. ~Wild /\ ~Abort
  BY DEF Wild, Abort
<1>5. CASE LoadConstant \/ LocAlink
  BY <1>1, <1>4, <1>5 DEF LoadConstant, LocAlink
<1>6. CASE PushByte \/ Zero \/ One \/ PushFalse \/ PushTrue \/ EmptyString
  BY <1>1, <1>6 DEF PushByte, Zero, One, PushFalse, PushTrue, EmptyString
<1>7. CASE Addi \/ Subi \/ Muli \/ Not
  BY <1>1, <1>7 DEF Addi, Subi, Muli, Not
<1>8. CASE Divi
  BY <1>1, <1>3, <1>4, <1>8 DEF Divi
<1>9. CASE Compare
  BY <1>1, <1>4, <1>9 DEF Compare
<1>10. CASE Equa
  BY <1>1, <1>4, <1>10 DEF Equa
<1>11. CASE Skip \/ SkipBack \/ SkipF \/ Popv \/ Popa
  BY <1>2, <1>11 DEF Skip, SkipBack, SkipF, Popv, Popa
<1>12. CASE PopToAstack
  BY <1>3, <1>4, <1>12 DEF PopToAstack
<1>13. CASE AstackShiftUp
  BY <1>2, <1>3, <1>13 DEF AstackShiftUp
<1>14. CASE GetLocal
  BY <1>1, <1>4, <1>14 DEF GetLocal
<1>15. CASE SetLocal
  BY <1>4, <1>15 DEF SetLocal
<1>16. CASE GetIndex
  BY <1>1, <1>3, <1>4, <1>16 DEF GetIndex
<1>17. CASE SetIndexLocal
  BY <1>3, <1>4, <1>17 DEF SetIndexLocal
<1>18. CASE Write
  BY <1>4, <1>18 DEF Write
<1>19. CASE Newline \/ Halt
  BY <1>19 DEF Newline, Halt
<1>20. CASE ArgstackLoad
  BY <1>4, <1>20 DEF ArgstackLoad
<1>21. CASE ArgstackPeek
  BY <1>1, <1>4, <1>21 DEF ArgstackPeek
<1>22. CASE ArgstackUnload
  BY <1>4, <1>22 DEF ArgstackUnload
<1>23. CASE BadCode
  BY <1>3, <1>4, <1>23 DEF BadCode
<1>24. CASE Read
  BY <1>1, <1>4, <1>24 DEF Read
<1> QED
  BY <1>5, <1>6, <1>7, <1>8, <1>9, <1>10, <1>11, <1>12, <1>13, <1>14, <1>15,
     <1>16, <1>17, <1>18, <1>19, <1>20, <1>21, <1>22, <1>23, <1>24 DEF Step

(* A returned vector moves the array stack of the caller.                   *)
LEMMA ShiftStays ==
  ASSUME DInv, ShiftAstackentToBase, status' = "run"
  PROVE  FramesStay
<1> DEFINE caller == framese - 1
<1>1. status = "run"
  BY DEF ShiftAstackentToBase, Fetch
<1>2. framese \in Nat /\ framese \in 0 .. framese
  BY <1>1, CurrentFacts
<1>3. PICK asp : /\ UNCHANGED framese /\ framese # 0
                 /\ framestack' = [framestack EXCEPT ![caller].asp = asp,
                                                     ![framese].ip = NextIP]
  BY DEF ShiftAstackentToBase, Wild
<1>4. /\ framestack \in [FrameIndex -> FrameType]
      /\ \A f \in 0 .. framese : f \in FrameIndex /\ framestack[f] \in FrameType
      /\ caller \in 0 .. framese /\ caller # framese
  BY <1>2, <1>3, SizesAssumption DEF DInv, IInv, TypeOK, FrameIndex
<1>5. /\ framestack'[framese] = [framestack[framese] EXCEPT !.ip = NextIP]
      /\ framestack'[caller] = [framestack[caller] EXCEPT !.asp = asp]
      /\ \A f \in 0 .. framese :
           f # framese /\ f # caller => framestack'[f] = framestack[f]
  BY <1>2, <1>3, <1>4
<1>6. ASSUME NEW f \in 0 .. framese
      PROVE  /\ framestack'[f].fn = framestack[f].fn
             /\ framestack'[f].base = framestack[f].base
             /\ f # framese => framestack'[f].ip = framestack[f].ip
  <2>1. CASE f = framese
    BY <1>4, <1>5, <2>1 DEF FrameType
  <2>2. CASE f = caller
    BY <1>4, <1>5, <2>2 DEF FrameType
  <2>3. CASE f # framese /\ f # caller
    BY <1>5, <2>3
  <2> QED
    BY <2>1, <2>2, <2>3
<1>7. \A f \in 0 .. framese - 1 : f \in 0 .. framese /\ f # framese
  BY <1>2
<1> QED
  BY <1>3, <1>6, <1>7 DEF FramesStay

-----------------------------------------------------------------------------
(* Calls and returns.                                                      *)

(* The frames after a step have shapes.                                     *)
LEMMA NextShapes ==
  ASSUME DInv', status' = "run", NEW f, f \in 0 .. framese'
  PROVE  Len(ShapeOf(f)') \in Nat
<1>1. /\ framestack'[f].fn \in DOMAIN image'.fns
      /\ HeaderOK(image, framestack[f].fn)'
      /\ framestack'[f].ip \in DOMAIN Fn(f)'.shape
  BY DEF DInv, FrameInv, Discipline, FramesKnown, WellFormed
<1>2. ShapeOf(f)' \in Seq({0} \cup (DOMAIN image'.fns \ {1}))
  BY <1>1 DEF HeaderOK, ShapeOf, Fn
<1> QED
  BY <1>2

(* A call hands the arguments over.                                         *)
LEMMA EnterSimulated ==
  ASSUME DInv, DInv', status' = "run", UNCHANGED image, Call
  PROVE  Calls!Enter
<1>0. PICK n, arity, len, b, m, new :
        /\ n = framese /\ arity = Arg(1) /\ len = Len(ShapeOf(framese))
        /\ b = Frame.base /\ m = Len(ShapeOf(framese)) - Arg(1)
        /\ new = framese + 1
  OBVIOUS
<1> DEFINE callee == peekv(arity + 1)
<1>1. status = "run" /\ Fetch(OP_CALL)
  BY DEF Call, Fetch
<1>2. arity \in Nat
  BY <1>0, <1>1, HandlerFacts, Operands DEF DInv, OneOperandByte
<1>3. /\ n \in Nat /\ b \in Nat /\ len \in Nat /\ SP = b + len
      /\ m = len - arity /\ new = n + 1
  BY <1>0, <1>1, CurrentFacts
<1>4. /\ framese' = new /\ n # StackMax /\ UNCHANGED stack
      /\ callee.t = "fn" /\ callee.i \in DOMAIN image.fns
      /\ framestack' = [framestack EXCEPT
           ![n].ip = NextIP,
           ![new] = [ip |-> 0, sp |-> SP, base |-> SP - arity, asp |-> ASP,
                     fn |-> callee.i, env |-> callee.n]]
  BY <1>0 DEF Call, Wild
<1>5. /\ framestack \in [FrameIndex -> FrameType]
      /\ \A f \in 0 .. new : f \in FrameIndex
      /\ \A f \in 0 .. n : f \in 0 .. new /\ f # new
      /\ new \in 0 .. new /\ n \in 0 .. new /\ n \in 0 .. n /\ n # new
      /\ \A f \in 0 .. n - 1 : f \in 0 .. n /\ f # n
  <2>1. framestack \in [FrameIndex -> FrameType] /\ framese \in FrameIndex
    BY DEF DInv, IInv, TypeOK
  <2>2. \A f \in 0 .. new : f \in FrameIndex
    BY ONLY <1>0, <1>3, <1>4, <2>1, SizesAssumption DEF FrameIndex
  <2>3. /\ \A f \in 0 .. n : f \in 0 .. new /\ f # new
        /\ new \in 0 .. new /\ n \in 0 .. new /\ n \in 0 .. n /\ n # new
        /\ \A f \in 0 .. n - 1 : f \in 0 .. n /\ f # n
    BY ONLY <1>3
  <2> QED
    BY ONLY <2>1, <2>2, <2>3
<1>6. /\ framestack'[new].sp = SP /\ framestack'[new].base = SP - arity
      /\ framestack'[new].fn = callee.i
  BY <1>4, <1>5
<1>7. /\ framestack'[n].fn = framestack[n].fn
      /\ framestack'[n].base = framestack[n].base
      /\ framestack'[n].sp = framestack[n].sp
  <2>1. framestack'[n] = [framestack[n] EXCEPT !.ip = NextIP]
    BY <1>4, <1>5
  <2>2. framestack[n] \in FrameType
    BY <1>5
  <2> QED
    BY <2>1, <2>2 DEF FrameType
<1>8. \A f \in 0 .. n - 1 : framestack'[f] = framestack[f]
  BY <1>4, <1>5
<1>9. framestack[n].base = b /\ framestack[n].sp = b + len
  BY <1>0, <1>3 DEF Frame, SP
<1> HIDE DEF callee
(* How long the two frames are then.                                        *)
<1>10. /\ Len(ShapeOf(n)') = m /\ Len(ShapeOf(new)') = arity
       /\ m \in Nat /\ m > 0 /\ image.fns[callee.i].arity = arity
  <2>1. PICK h, g, a : /\ h = Len(ShapeOf(n)') /\ g = Len(ShapeOf(new)')
                       /\ a = Fn(new)'.arity
    OBVIOUS
  <2>2. h \in Nat /\ g \in Nat
    BY <1>4, <1>5, <2>1, NextShapes
  <2>3. n < new /\ n + 1 = new
    BY <1>3
  <2>4. /\ framestack'[n].sp = framestack'[new].base + a
        /\ framestack'[new].base = framestack'[n].base + h /\ h > 0
        /\ framestack'[new].sp = framestack'[new].base + g
    BY <1>4, <1>5, <2>1, <2>3
    DEF DInv, FrameInv, Discipline, HeightsAgree, Height
  <2>5. a = image.fns[callee.i].arity /\ a \in Nat
    <3>1. /\ framestack'[new].fn \in DOMAIN image'.fns
          /\ HeaderOK(image, framestack[new].fn)'
      BY <1>4, <1>5 DEF DInv, FrameInv, Discipline, FramesKnown, WellFormed
    <3>2. Fn(new)' = image.fns[callee.i]
      BY <1>6 DEF Fn
    <3> QED
      BY <1>6, <2>1, <3>1, <3>2 DEF HeaderOK
  <2>6. /\ b + len = (b + len - arity) + a
        /\ b + len - arity = b + h /\ h > 0
        /\ b + len = (b + len - arity) + g
    <3>1. PICK p, q, u, w : /\ p = framestack'[n].sp /\ q = framestack'[n].base
                            /\ u = framestack'[new].sp /\ w = framestack'[new].base
      OBVIOUS
    <3>2. p = b + len /\ q = b /\ u = SP /\ w = SP - arity
      BY ONLY <1>6, <1>7, <1>9, <3>1
    <3>3. p = w + a /\ w = q + h /\ h > 0 /\ u = w + g
      BY ONLY <2>4, <3>1
    <3>4. u = b + len /\ w = b + len - arity
      BY ONLY <1>2, <1>3, <3>2
    <3> QED
      BY ONLY <3>2, <3>3, <3>4
  <2>7. h = m /\ g = arity /\ a = arity
    BY ONLY <1>2, <1>3, <2>2, <2>5, <2>6
  <2> QED
    BY <2>1, <2>2, <2>5, <2>6, <2>7
<1>11. /\ m \in 1 .. len /\ m \in 0 .. len /\ len - m = arity
       /\ arity \in 0 .. len - 1 /\ len - arity = m
  <2>1. m \in Nat /\ m > 0
    BY ONLY <1>10
  <2> QED
    BY ONLY <1>2, <1>3, <2>1
(* What they hold.                                                          *)
<1>12. /\ Vals(n) = [k \in 1 .. len |-> stack[b + k - 1]]
       /\ Vals(n) = [k \in 1 .. len |-> Vals(n)[k]]
       /\ \A k \in 1 .. len : Vals(n)[k] = stack[b + k - 1]
       /\ Len(Vals(n)) = len
  <2>1. Vals(n) = [k \in 1 .. len |-> stack[b + k - 1]]
    BY <1>0, <1>9 DEF Vals
  <2> QED
    BY <1>3, <2>1
<1>13. /\ SubSeq(Vals(n), 1, m) = [k \in 1 .. m |-> Vals(n)[k]]
       /\ SubSeq(Vals(n), m + 1, len) = [k \in 1 .. arity |-> Vals(n)[m + k]]
  <2> DEFINE v == Vals(n)
  <2>1. Sequence(v, len)
    BY <1>12 DEF Sequence
  <2> HIDE DEF v
  <2>2. /\ SubSeq(v, 1, m) = [k \in 1 .. m |-> v[k]]
        /\ SubSeq(v, m + 1, len) = [k \in 1 .. len - m |-> v[m + k]]
    <3>1. len \in Nat /\ m \in 0 .. len
      BY ONLY <1>3, <1>11
    <3> QED
      BY ONLY <2>1, <3>1, Parts
  <2> QED
    BY <1>11, <2>2 DEF v
<1>14. Vals(n)' = SubSeq(Vals(n), 1, m)
  <2>1. Vals(n)' = [k \in 1 .. m |-> stack[b + k - 1]]
    BY <1>4, <1>7, <1>9, <1>10 DEF Vals
  <2>2. \A k \in 1 .. m : Vals(n)[k] = stack[b + k - 1]
    BY <1>3, <1>11, <1>12
  <2> QED
    BY <1>13, <2>1, <2>2
<1>15. Vals(new)' = SubSeq(Vals(n), m + 1, len)
  <2>1. Vals(new)' = [k \in 1 .. arity |-> stack[(SP - arity) + k - 1]]
    BY <1>4, <1>6, <1>10 DEF Vals
  <2>2. \A k \in 1 .. arity : /\ m + k \in 1 .. len
                              /\ b + (m + k) - 1 = (SP - arity) + k - 1
    BY <1>2, <1>3, <1>11
  <2>3. \A k \in 1 .. arity : Vals(n)[m + k] = stack[(SP - arity) + k - 1]
    BY <1>12, <2>2
  <2> QED
    BY <1>13, <2>1, <2>3
<1>16. Vals(n)[m] = callee
  <2>1. b + m - 1 \in CellIndex
    BY <1>0, <1>1, <1>5, <1>9, <1>11, FrameHolds
  <2>2. SP - (arity + 1) = b + m - 1
    BY <1>2, <1>3
  <2>3. stack \in [CellIndex -> Value]
    BY DEF DInv, IInv, TypeOK
  <2>4. callee = stack[b + m - 1]
    BY <2>1, <2>2, <2>3 DEF callee, peekv, Slot, Cell
  <2> QED
    BY <1>11, <1>12, <2>4
(* The sequence of activations.                                             *)
<1> DEFINE old == ActiveFrames
           now == ActiveFrames'
<1>17. /\ old = [i \in 1 .. new |-> old[i]] /\ Len(old) = new
       /\ old # << >> /\ Calls!Current = Activation(n)
       /\ now = [i \in 1 .. new + 1 |-> now[i]]
       /\ \A f \in 0 .. n : old[f + 1] = Activation(f)
       /\ \A f \in 0 .. new : now[f + 1] = Activation(f)'
  BY <1>0, <1>1, <1>4, ActiveFacts, ActiveFactsNext
<1>18. Activation(new)' = [fn |-> callee.i, vals |-> SubSeq(Vals(n), m + 1, len)]
  BY <1>6, <1>15 DEF Activation
<1>19. Activation(n)' = [Activation(n) EXCEPT !.vals = SubSeq(Vals(n), 1, m)]
  <2>1. Activation(n)' = [fn |-> framestack[n].fn, vals |-> SubSeq(Vals(n), 1, m)]
    BY <1>7, <1>14 DEF Activation
  <2>2. Activation(n) = [fn |-> framestack[n].fn, vals |-> Vals(n)]
    BY DEF Activation
  <2> DEFINE below == SubSeq(Vals(n), 1, m)
  <2> HIDE DEF below
  <2>3. [[fn |-> framestack[n].fn, vals |-> Vals(n)] EXCEPT !.vals = below] =
          [fn |-> framestack[n].fn, vals |-> below]
    OBVIOUS
  <2>4. [Activation(n) EXCEPT !.vals = below] =
          [fn |-> framestack[n].fn, vals |-> below]
    BY ONLY <2>2, <2>3
  <2> QED
    BY <2>1, <2>4 DEF below
<1>20. ASSUME NEW i \in 1 .. new - 1
       PROVE  now[i] = old[i]
  <2>1. PICK f : f = i - 1
    OBVIOUS
  <2>2. f \in 0 .. n - 1 /\ f + 1 = i
    BY <1>3, <2>1
  <2>3. framestack'[f] = framestack[f] /\ f \in 0 .. n /\ f \in 0 .. new
    BY <1>5, <1>8, <2>2
  <2>4. Vals(f)' = [k \in 1 .. Len(ShapeOf(f)) |->
                      stack'[framestack[f].base + k - 1]]
    BY <2>3, SameVals
  <2>a. Vals(f)' = Vals(f)
    BY <1>4, <2>4 DEF Vals
  <2>5. Activation(f)' = Activation(f)
    BY <2>3, <2>a DEF Activation
  <2> QED
    BY <1>17, <2>2, <2>3, <2>5
<1>21. old[new] = Activation(n) /\ now[new] = Activation(n)'
       /\ now[new + 1] = Activation(new)' /\ new \in Nat \ {0}
  <2>1. n + 1 = new /\ new \in Nat \ {0}
    BY ONLY <1>3
  <2> HIDE DEF old, now
  <2>2. old[n + 1] = Activation(n) /\ now[n + 1] = Activation(n)'
    BY <1>5, <1>17
  <2>3. now[new + 1] = Activation(new)'
    BY <1>5, <1>17
  <2> QED
    BY <2>1, <2>2, <2>3
<1> HIDE DEF old, now
<1> DEFINE x == Activation(n)'
<1>22. now[new] = x
  BY <1>21
<1> HIDE DEF x
<1>23. now = Append([old EXCEPT ![new] = x], now[new + 1])
  <2>1. \A i \in 1 .. new - 1 : now[i] = old[i]
    BY <1>20
  <2>2. Sequence(old, new) /\ Sequence(now, new + 1)
    BY ONLY <1>17 DEF Sequence
  <2> QED
    BY ONLY <1>21, <1>22, <2>1, <2>2, LastReplaced
<1>24. [old EXCEPT ![new] = x] =
         [old EXCEPT ![new].vals = SubSeq(Vals(n), 1, m)]
  BY <1>19, <1>21 DEF x
<1>25. now = Append([old EXCEPT ![Len(old)].vals = SubSeq(Vals(n), 1, m)],
                    [fn |-> callee.i, vals |-> SubSeq(Vals(n), m + 1, len)])
  BY <1>17, <1>18, <1>21, <1>23, <1>24
<1>26. Calls!Current.vals = Vals(n)
  BY <1>17 DEF Activation
<1> DEFINE vals == Vals(n)
<1>27. /\ Calls!Current.vals = vals /\ Len(vals) = len
       /\ vals[len - arity] = callee
  BY <1>11, <1>12, <1>16, <1>26
<1>28. now = Append([old EXCEPT ![Len(old)].vals = SubSeq(vals, 1, len - arity)],
                    [fn |-> callee.i,
                     vals |-> SubSeq(vals, (len - arity) + 1, len)])
  BY <1>11, <1>25
<1> HIDE DEF vals
<1> QED
  BY <1>4, <1>10, <1>11, <1>17, <1>27, <1>28 DEF Calls!Enter, old, now

(* A return hands the topmost value back.                                   *)
LEMMA LeaveSimulated ==
  ASSUME DInv, DInv', status' = "run", UNCHANGED image, KeepsLowerFrames,
         Return
  PROVE  Calls!Leave
<1>0. PICK n, c, b, len, sp :
        /\ n = framese /\ c = framese - 1
        /\ b = framestack[framese - 1].base /\ len = Len(ShapeOf(framese - 1))
        /\ sp = framestack[framese - 1].sp - Arg(1) - 1
  OBVIOUS
<1>1. status = "run" /\ Op = OP_RETURN
  BY DEF Return, Fetch
<1>2. /\ framese' = c /\ n # 0
      /\ framestack' = [framestack EXCEPT ![c].sp = sp + 1]
      /\ stack' = [stack EXCEPT ![sp] = peekv(1)]
  BY <1>0 DEF Return, Wild
<1>3. /\ n \in Nat /\ n \in 0 .. n /\ c \in Nat /\ n = c + 1
      /\ c \in 0 .. n /\ c \in 0 .. n - 1 /\ c \in 0 .. c /\ c < n
      /\ \A f \in 0 .. c : f \in 0 .. n /\ f \in 0 .. n - 1
  <2>1. n \in Nat /\ c = n - 1
    BY <1>0, <1>1, CurrentFacts
  <2>2. n # 0
    BY <1>2
  <2> QED
    BY ONLY <2>1, <2>2
<1>4. /\ b \in Nat /\ len \in Nat
      /\ \A k \in 1 .. len : b + k - 1 \in CellIndex
  BY <1>0, <1>1, <1>3, FrameHolds
<1>5. Arg(1) = Fn(framese).arity /\ Fn(framese).arity \in Nat
      /\ Len(ShapeOf(framese)) >= 1
  <2>1. ReturnOK(image, Frame.fn, IP)
    BY <1>1, CurrentFacts DEF InstructionOK
  <2>2. Fn(framese).arity \in Nat
    BY <1>1, CurrentFacts DEF HeaderOK
  <2>3. Len(ShapeOf(framese)) >= 1
    BY <1>1, CurrentFacts, SameInstruction DEF InstructionOK, Needs
  <2> QED
    BY <1>1, <2>1, <2>2, <2>3, SameInstruction, CurrentFacts DEF ReturnOK
<1>6. len > 0 /\ sp = b + len - 1
  <2>1. PICK r, a, p : /\ r = framestack[framese].base /\ a = Fn(framese).arity
                       /\ p = framestack[c].sp
    OBVIOUS
  <2>2. p = r + a /\ r = b + len /\ len > 0
    BY <1>0, <1>1, <1>3, <2>1
    DEF DInv, FrameInv, Discipline, HeightsAgree, Height
  <2>3. a \in Nat /\ sp = p - a - 1
    BY <1>0, <1>5, <2>1
  <2> QED
    BY ONLY <1>4, <2>2, <2>3
<1>7. len \in 1 .. len /\ sp \in CellIndex
  <2>1. len \in 1 .. len
    BY ONLY <1>4, <1>6
  <2> QED
    BY <1>4, <1>6, <2>1
<1>8. /\ framestack \in [FrameIndex -> FrameType]
      /\ \A f \in 0 .. n : f \in FrameIndex
      /\ stack \in [CellIndex -> Value]
  BY <1>0, <1>3, SizesAssumption DEF DInv, IInv, TypeOK, FrameIndex
<1>9. \A f \in 0 .. c : /\ framestack'[f].fn = framestack[f].fn
                        /\ framestack'[f].base = framestack[f].base
                        /\ framestack'[f].ip = framestack[f].ip
  <2>1. framestack'[c] = [framestack[c] EXCEPT !.sp = sp + 1]
    BY <1>2, <1>3, <1>8
  <2>2. \A f \in 0 .. c : f # c => framestack'[f] = framestack[f]
    BY <1>2, <1>3, <1>8
  <2>3. framestack[c] \in FrameType
    BY <1>3, <1>8
  <2>4. /\ framestack'[c].fn = framestack[c].fn
        /\ framestack'[c].base = framestack[c].base
        /\ framestack'[c].ip = framestack[c].ip
    BY <2>1, <2>3 DEF FrameType
  <2> QED
    BY <2>2, <2>4
<1>10. \A f \in 0 .. c : Vals(f)' = [k \in 1 .. Len(ShapeOf(f)) |->
                                       stack'[framestack[f].base + k - 1]]
  BY <1>9, SameVals
(* The value that is returned.                                              *)
<1>11. PICK top : top = Len(ShapeOf(framese))
  OBVIOUS
<1>12. /\ top \in 1 .. top /\ top \in Nat
       /\ Vals(n) = [k \in 1 .. top |-> stack[framestack[n].base + k - 1]]
       /\ Vals(n)[top] = peekv(1) /\ Len(Vals(n)) = top /\ Vals(n) # << >>
  <2>1. /\ top \in Nat /\ top >= 1 /\ Frame.base \in Nat /\ SP = Frame.base + top
        /\ Frame.base = framestack[n].base
    BY <1>0, <1>1, <1>5, <1>11, CurrentFacts DEF Frame
  <2>2. top \in 1 .. top /\ SP - 1 = framestack[n].base + top - 1
    BY ONLY <2>1
  <2>3. Vals(n) = [k \in 1 .. top |-> stack[framestack[n].base + k - 1]]
    BY <1>0, <1>11 DEF Vals
  <2>4. framestack[n].base + top - 1 \in CellIndex
    BY <1>0, <1>1, <1>3, <1>11, <2>2, FrameHolds
  <2>5. Vals(n)[top] = peekv(1)
    BY <1>8, <2>2, <2>3, <2>4 DEF peekv, Slot, Cell
  <2>6. Len(Vals(n)) = top
    BY <2>1, <2>3
  <2>7. Vals(n) # << >>
    BY <2>1, <2>6
  <2> QED
    BY <2>1, <2>2, <2>3, <2>5, <2>6, <2>7
(* What the caller holds then.                                              *)
<1>13. /\ Vals(c) = [k \in 1 .. len |-> stack[b + k - 1]]
       /\ Len(Vals(c)) = len /\ Vals(c) # << >>
  <2>1. Vals(c) = [k \in 1 .. len |-> stack[b + k - 1]]
    BY <1>0 DEF Vals
  <2>2. Len(Vals(c)) = len
    BY <1>4, <2>1
  <2> QED
    BY <1>4, <1>6, <2>1, <2>2
<1>14. Vals(c)' = [Vals(c) EXCEPT ![len] = peekv(1)]
  <2>1. \A k \in 1 .. len : k # len => stack'[b + k - 1] = stack[b + k - 1]
    BY <1>0, <1>1, <1>3, Singles DEF KeepsLowerFrames, OP_RETURN, OP_SET_LOCAL_LONG
  <2>2. stack'[b + len - 1] = peekv(1)
    BY <1>2, <1>6, <1>7, <1>8
  <2>3. Vals(c)' = [k \in 1 .. len |-> stack'[b + k - 1]]
    BY <1>0, <1>3, <1>10
  <2> HIDE DEF Vals
  <2>4. [Vals(c) EXCEPT ![len] = peekv(1)] =
          [k \in 1 .. len |-> IF k = len THEN peekv(1) ELSE stack[b + k - 1]]
    BY <1>13
  <2> QED
    BY <2>1, <2>2, <2>3, <2>4
(* The sequence of activations.                                             *)
<1> DEFINE old == ActiveFrames
           now == ActiveFrames'
<1>15. /\ old = [i \in 1 .. n + 1 |-> old[i]] /\ Len(old) = n + 1
       /\ old # << >> /\ Calls!Current = Activation(n)
       /\ now = [i \in 1 .. c + 1 |-> now[i]]
       /\ \A f \in 0 .. n : old[f + 1] = Activation(f)
       /\ \A f \in 0 .. c : now[f + 1] = Activation(f)'
  BY <1>0, <1>1, <1>2, ActiveFacts, ActiveFactsNext
<1>16. ASSUME NEW i \in 1 .. n - 1
       PROVE  now[i] = old[i]
  <2>1. PICK f : f = i - 1
    OBVIOUS
  <2>2. f \in 0 .. c /\ f \in 0 .. n - 1 /\ f \in 0 .. n /\ f + 1 = i /\ f # n - 1
    BY ONLY <1>3, <2>1, i \in 1 .. n - 1
  <2>3. \A k \in 1 .. Len(ShapeOf(f)) :
          stack'[framestack[f].base + k - 1] = stack[framestack[f].base + k - 1]
    BY <1>0, <1>1, <2>2
    DEF KeepsLowerFrames, OP_RETURN, OP_SET_LOCAL_LONG
  <2>4. Vals(f)' = Vals(f)
    BY <1>10, <2>2, <2>3 DEF Vals
  <2>5. Activation(f)' = Activation(f)
    BY <1>9, <2>2, <2>4 DEF Activation
  <2> QED
    BY <1>15, <2>2, <2>5
<1>17. Activation(c)' = [Activation(c) EXCEPT
                           !.vals = [Vals(c) EXCEPT ![len] = peekv(1)]]
  <2> DEFINE v == [Vals(c) EXCEPT ![len] = peekv(1)]
  <2>1. Activation(c)' = [fn |-> framestack[c].fn, vals |-> v]
    BY <1>3, <1>9, <1>14 DEF Activation
  <2>2. Activation(c) = [fn |-> framestack[c].fn, vals |-> Vals(c)]
    BY DEF Activation
  <2> HIDE DEF v
  <2>3. [[fn |-> framestack[c].fn, vals |-> Vals(c)] EXCEPT !.vals = v] =
          [fn |-> framestack[c].fn, vals |-> v]
    OBVIOUS
  <2>4. [Activation(c) EXCEPT !.vals = v] = [fn |-> framestack[c].fn, vals |-> v]
    BY ONLY <2>2, <2>3
  <2> QED
    BY <2>1, <2>4 DEF v
<1>18. /\ old[n] = Activation(c) /\ now[n] = Activation(c)' /\ c + 1 = n
       /\ n \in Nat \ {0} /\ n + 1 > 1 /\ (n + 1) - 1 = n
  <2>1. c + 1 = n /\ n \in Nat \ {0} /\ n + 1 > 1 /\ (n + 1) - 1 = n
    BY ONLY <1>2, <1>3
  <2> HIDE DEF old, now
  <2>2. old[c + 1] = Activation(c) /\ now[c + 1] = Activation(c)'
    BY <1>3, <1>15
  <2> QED
    BY <2>1, <2>2
<1> HIDE DEF old, now
<1> DEFINE x == Activation(c)'
<1>19. now[n] = x
  BY <1>18
<1> HIDE DEF x
<1>20. now = [SubSeq(old, 1, n) EXCEPT ![n] = x]
  <2>1. \A i \in 1 .. n - 1 : now[i] = old[i]
    BY <1>16
  <2>2. Sequence(old, n + 1) /\ Sequence(now, n)
    BY ONLY <1>15, <1>18 DEF Sequence
  <2> QED
    BY ONLY <1>18, <1>19, <2>1, <2>2, LastDropped
<1>21. SubSeq(old, 1, n)[n] = old[n]
  <2>1. n \in 0 .. n + 1 /\ n + 1 \in Nat /\ n \in 1 .. n
    BY ONLY <1>18
  <2>2. SubSeq(old, 1, n) = [k \in 1 .. n |-> old[k]]
    <3>1. Sequence(old, n + 1)
      BY ONLY <1>15 DEF Sequence
    <3> QED
      BY ONLY <2>1, <3>1, Parts
  <2> QED
    BY ONLY <2>1, <2>2
<1> DEFINE caller == Vals(c)
           result == peekv(1)
<1>22. [SubSeq(old, 1, n) EXCEPT ![n] = x] =
         [SubSeq(old, 1, n) EXCEPT
            ![n].vals = [caller EXCEPT ![len] = result]]
  BY <1>17, <1>18, <1>21 DEF x
<1>23. /\ Len(old) > 1 /\ Len(old) - 1 = n
       /\ Calls!Current.vals = Vals(n) /\ Calls!Current.vals # << >>
       /\ Calls!Current.vals[Len(Calls!Current.vals)] = result
       /\ old[n].vals = caller /\ caller # << >> /\ Len(caller) = len
  <2>1. Len(old) > 1 /\ Len(old) - 1 = n
    <3>1. Len(old) = n + 1
      BY <1>15
    <3> QED
      BY ONLY <1>18, <3>1
  <2>2. Calls!Current.vals = Vals(n)
    <3>1. Calls!Current = [fn |-> framestack[n].fn, vals |-> Vals(n)]
      BY <1>15 DEF Activation
    <3> QED
      BY ONLY <3>1
  <2>3. /\ Calls!Current.vals # << >>
        /\ Calls!Current.vals[Len(Calls!Current.vals)] = peekv(1)
    BY ONLY <1>12, <2>2
  <2>4. old[n].vals = Vals(c)
    <3>1. old[n] = [fn |-> framestack[c].fn, vals |-> Vals(c)]
      BY <1>18 DEF Activation
    <3> QED
      BY ONLY <3>1
  <2>5. Vals(c) # << >> /\ Len(Vals(c)) = len
    BY <1>13
  <2> QED
    BY <2>1, <2>2, <2>3, <2>4, <2>5
<1>24. now = [SubSeq(old, 1, n) EXCEPT
                ![n].vals = [caller EXCEPT ![len] = result]]
  BY ONLY <1>20, <1>22
<1> HIDE DEF caller, result
<1> QED
  BY <1>23, <1>24 DEF Calls!Leave, old, now

-----------------------------------------------------------------------------
(* The theorem.                                                            *)

LEMMA StartSimulated ==
  ASSUME Init, WellFormed(image)
  PROVE  Calls!Start
<1>1. DInv /\ status = "run" /\ framese = 0 /\ framestack[0] = NoFrame
  BY InitDInv, SizesAssumption DEF Init, FrameIndex
<1>2. /\ ActiveFrames = [i \in 1 .. 1 |-> Activation(i - 1)]
      /\ Len(ActiveFrames) = 1 /\ ActiveFrames[1] = Activation(0)
  BY <1>1, ActiveFacts
<1>3. ShapeOf(0) = << >> /\ Len(ShapeOf(0)) = 0
  <2>1. Fn(0) = image.fns[1] /\ framestack[0].ip = 0
    BY <1>1 DEF Fn, NoFrame, root
  <2>2. HeaderOK(image, 1) /\ image.fns[1].arity = 0
    BY <1>1 DEF DInv, IInv, TypeOK, IsImage, WellFormed
  <2>3. image.fns[1].shape[0] = [k \in 1 .. 0 |-> 0]
    BY <2>2 DEF HeaderOK
  <2> QED
    BY <2>1, <2>3 DEF ShapeOf
<1>4. Activation(0) = [fn |-> 1, vals |-> << >>]
  BY <1>1, <1>3 DEF Activation, Vals, NoFrame, root
<1> QED
  BY <1>2, <1>4 DEF Calls!Start

(* Each turn of the loop is a turn of the activations, or leaves them.      *)
LEMMA TurnSimulated ==
  ASSUME DInv, DInv', [Next]_vars
  PROVE  [Calls!Turn]_<< image, ActiveFrames >>
<1>1. UNCHANGED image
  BY DEF Next, Execute, Returned, vars
<1>2. CASE UNCHANGED vars
  BY <1>2 DEF vars, ActiveFrames, ShapeOf, Fn
<1>3. CASE Execute
  <2>1. Step \/ Read
    BY <1>3 DEF Execute
  <2>2. status = "run" /\ ActiveFrames # << >>
    <3>1. status = "run"
      BY <2>1 DEF Step, LoadConstant, LocAlink, PushByte, Zero, One, PushFalse,
         PushTrue, EmptyString, Addi, Subi, Muli, Divi, Compare, Equa, Not,
         Skip, SkipBack, SkipF, Popv, Popa, PopToAstack, AstackShiftUp,
         GetLocal, SetLocal, GetIndex, SetIndexLocal, Write, Newline, Call,
         ShiftAstackentToBase, Return, ArgstackLoad, ArgstackPeek,
         ArgstackUnload, Halt, BadCode, Read, Fetch
    <3> QED
      BY <3>1, ActiveFacts
  <2>3. KeepsLowerFrames
    BY StepContained
  <2>4. CASE status' # "run"
    <3>1. ActiveFrames' = << >>
      BY <2>4 DEF ActiveFrames
    <3> QED
      BY <1>1, <2>2, <3>1 DEF Calls!Turn, Calls!Stop
  <2>5. CASE status' = "run" /\ Call
    BY <1>1, <2>5, EnterSimulated DEF Calls!Turn
  <2>6. CASE status' = "run" /\ Return
    BY <1>1, <2>3, <2>6, LeaveSimulated DEF Calls!Turn
  <2>7. CASE status' = "run" /\ ~Call /\ ~Return
    <3>1. FramesStay
      <4>1. CASE ShiftAstackentToBase
        BY <2>7, <4>1, ShiftStays
      <4>2. CASE ~ShiftAstackentToBase
        BY <2>1, <2>2, <2>7, <4>2, ResumingHandlers, ResumeStays
      <4> QED
        BY <4>1, <4>2
    <3>2. /\ Op # OP_RETURN
          /\ Op = OP_SET_LOCAL_LONG => Fetch(OP_SET_LOCAL_LONG)
      <4>1. Fetch(Op)
        BY <2>2, WholeInstruction DEF Fetch
      <4>2. Op # OP_RETURN
        BY <2>1, <2>2, <2>7, WholeInstruction, OnlyHandlers
      <4> QED
        BY <4>1, <4>2
    <3> QED
      BY <1>1, <2>2, <2>3, <2>7, <3>1, <3>2, StaysSimulated DEF Calls!Turn
  <2> QED
    BY <2>4, <2>5, <2>6, <2>7
<1> QED
  BY <1>2, <1>3 DEF Next, Returned

(* The activations of a program are what module Activations says, on every  *)
(* well-formed image and whatever the size of the stacks: arguments are     *)
(* handed over in order, a result goes where the function was, and nothing  *)
(* else of one activation is another's.                                     *)
THEOREM VMImplementsCalls == Spec /\ WellFormed(image) => ImplementsCalls
<1>1. Spec /\ WellFormed(image) => []DInv
  BY InitDInv, NextDInv, PTL DEF Spec
<1>2. Init /\ WellFormed(image) => Calls!Start
  BY StartSimulated
<1>3. DInv /\ DInv' /\ [Next]_vars => [Calls!Turn]_<< image, ActiveFrames >>
  BY TurnSimulated
<1> QED
  BY <1>1, <1>2, <1>3, PTL DEF Spec, ImplementsCalls, Calls!Spec
=============================================================================
