--------------------------- MODULE YalaVM_proofs ---------------------------
(***************************************************************************)
(* Theorems about the virtual machine for every image, every size of its   *)
(* stacks and every width of its integers: whatever the code, the machine  *)
(* keeps the types of its state, and neither of its stacks grows past its  *)
(* end without an error.                                                   *)
(***************************************************************************)
EXTENDS YalaVM, Induction

-----------------------------------------------------------------------------
(* Values.                                                                 *)

(* What the constructors make are values.                                   *)
LEMMA MakingValues ==
  /\ Junk \in Value
  /\ \A x \in Int : IntV(x) \in Value /\ StrV(x) \in Value
  /\ \A x, y \in Int : VecV(x, y) \in Value /\ FnV(x, y) \in Value
  /\ \A b \in BOOLEAN : BoolV(b) \in Value
BY DEF Junk, Value, IntV, StrV, VecV, FnV, BoolV

(* Wrapped arithmetic gives integers.                                       *)
LEMMA WrapType == \A x \in Int : Wrap(x) \in Int
BY IntRangeAssumption DEF Wrap

(* So does the division of OP_DIVI where the divisor is not 0.              *)
LEMMA TruncDivType ==
  \A a, b \in Int : b # 0 => TruncDiv(a, b) \in Int
<1> SUFFICES ASSUME NEW a \in Int, NEW b \in Int, b # 0
             PROVE  TruncDiv(a, b) \in Int
  OBVIOUS
<1>1. Abs(a) \in Nat /\ Abs(b) \in Nat \ {0}
  BY DEF Abs
<1>2. Abs(a) \div Abs(b) \in Int
  BY <1>1
<1> QED
  BY <1>2 DEF TruncDiv

(* Reading memory gives a value at any address.                             *)
LEMMA CellType ==
  ASSUME NEW mem \in [CellIndex -> Value], NEW a
  PROVE  Cell(mem, a) \in Value
BY MakingValues DEF Cell

(* Memory stays memory when a vector is copied, wherever from and to.       *)
LEMMA CopyCellsType ==
  ASSUME NEW mem \in [CellIndex -> Value], NEW dst, NEW src, NEW n
  PROVE  CopyCells(mem, dst, src, n) \in [CellIndex -> Value]
BY CellType DEF CopyCells

(* The fields of a value are integers, whatever was last written to it.     *)
LEMMA ValueFields ==
  \A v \in Value : v.i \in Int /\ v.n \in Int
BY DEF Value

(* A capped size is a number of cells.                                      *)
LEMMA CappedType == \A size : Capped(size) \in Nat
BY SizesAssumption DEF Capped

(* Every byte has a number of operands, an unknown opcode none.             *)
LEMMA OperandBytesType == \A op : OperandBytes(op) \in Nat
BY DEF OperandBytes

-----------------------------------------------------------------------------
(* What a handler reads.                                                   *)

(* What TypeOK says of the current frame and its code.                      *)
LEMMA FrameFacts ==
  ASSUME TypeOK
  PROVE  /\ Frame \in FrameType
         /\ IP \in Int /\ SP \in Int /\ ASP \in Int
         /\ Frame.base \in Int /\ Frame.env \in Int
         /\ Code \in Seq(Byte) /\ Constants \in Seq(Value)
         /\ \A k : peekv(k) \in Value /\ Slot(k) \in Value
<1>1. Frame \in FrameType
  BY DEF TypeOK, Frame
<1>2. IP \in Int /\ SP \in Int /\ ASP \in Int
      /\ Frame.base \in Int /\ Frame.env \in Int /\ Frame.fn \in DOMAIN image.fns
  BY <1>1 DEF FrameType, IP, SP, ASP
<1>3. Code \in Seq(Byte) /\ Constants \in Seq(Value)
  BY <1>2 DEF TypeOK, IsImage, Code, Constants
<1>4. \A k : Slot(k) \in Value
  BY CellType DEF TypeOK, Slot
<1>5. \A k : peekv(k) \in Value
  BY <1>4 DEF peekv
<1> QED
  BY <1>1, <1>2, <1>3, <1>4, <1>5

(* The bytes of the instruction that is executed lie within the code.       *)
LEMMA FetchFacts ==
  ASSUME TypeOK, NEW op, Fetch(op)
  PROVE  /\ Op = op
         /\ NextIP \in Int
         /\ \A k \in 1 .. OperandBytes(op) : Arg(k) \in Byte
<1>1. /\ IP \in Int /\ Code \in Seq(Byte)
      /\ OperandBytes(op) \in Nat /\ OperandBytes(Op) \in Nat
  BY FrameFacts, OperandBytesType
<1>2. Op = op /\ 0 <= IP /\ IP + OperandBytes(op) < Len(Code)
  BY DEF Fetch, InCode
<1>3. NextIP \in Int
  BY <1>1 DEF NextIP
<1>4. ASSUME NEW k \in 1 .. OperandBytes(op)
      PROVE  Arg(k) \in Byte
  <2>1. IP + 1 + k \in 1 .. Len(Code)
    BY <1>1, <1>2
  <2> QED
    BY <1>1, <2>1 DEF Arg
<1> QED
  BY <1>2, <1>3, <1>4

(* Operands are integers.                                                   *)
LEMMA ByteInt == Byte \subseteq Int
BY DEF Byte

(* A two-byte operand that lies within the code is a number.                *)
LEMMA LongType ==
  ASSUME TypeOK, NEW op, Fetch(op), NEW k \in Nat \ {0},
         k + 1 <= OperandBytes(op)
  PROVE  ArgLong(k) \in Nat
<1>1. k \in 1 .. OperandBytes(op) /\ k + 1 \in 1 .. OperandBytes(op)
  BY OperandBytesType
<1>2. Arg(k) \in Byte /\ Arg(k + 1) \in Byte
  BY <1>1, FetchFacts
<1>3. \A a, b \in Byte : join_bytes(a, b) \in Nat
  BY DEF join_bytes, Byte
<1> QED
  BY <1>2, <1>3 DEF ArgLong

(* How many operand bytes each opcode has, spelled out.                     *)
LEMMA Operands ==
  /\ \A op \in OneOperandByte : OperandBytes(op) = 1
  /\ \A op \in TwoOperandBytes : OperandBytes(op) = 2
  /\ \A op \in {OP_GET_LOCAL_LONG, OP_SET_LOCAL_LONG} : OperandBytes(op) = 4
  /\ OperandBytes(OP_SET_INDEX_LOCAL_LONG) = 6
BY DEF OperandBytes, OneOperandByte, TwoOperandBytes, LocOpcodes,
       OP_LOCI_LONG, OP_LOCS_LONG, OP_LOCF_LONG,
       OP_LOC_ALINK_LONG, OP_SKIP_BACK_LONG, OP_SKIP_LONG, OP_SKIPF_LONG,
       OP_GET_INDEX, OP_EQUA, OP_ARGSTACK_LOAD, OP_GET_LOCAL_LONG,
       OP_SET_LOCAL_LONG, OP_LT, OP_LEQ, OP_GRT, OP_GRTEQ, OP_PUSH_BYTE,
       OP_WRITE, OP_CALL, OP_RETURN, OP_READ, OP_ARGSTACK_UNLOAD,
       OP_SET_INDEX_LOCAL_LONG

-----------------------------------------------------------------------------
(* The tails of the handlers.                                              *)

IInv == TypeOK /\ Guarded

(* What the next instruction finds when the machine is running.             *)
LEMMA RunningFacts ==
  ASSUME IInv, status = "run"
  PROVE  SP <= StackMax /\ ASP <= StackMax
BY DEF IInv, TypeOK, Guarded, SP, ASP, Frame, FrameIndex

(* Moving the pointers of the current frame keeps its type, and the bounds  *)
(* where the new pointers are within them.                                  *)
LEMMA ResumeKeeps ==
  ASSUME IInv, status = "run", UNCHANGED << image, framese >>,
         NEW ip \in Int, NEW sp \in Int, NEW asp \in Int,
         Resume(ip, sp, asp)
  PROVE  /\ IsImage(image)' /\ (framese \in FrameIndex)'
         /\ (framestack \in [FrameIndex -> FrameType])'
         /\ sp <= StackMax /\ asp <= StackMax => Guarded'
<1>1. /\ IsImage(image)' /\ (framese \in FrameIndex)'
      /\ FrameType' = FrameType /\ FrameIndex' = FrameIndex
  BY DEF IInv, TypeOK, IsImage, FrameType, FrameIndex
<1>2. (framestack \in [FrameIndex -> FrameType])'
  <2>1. [framestack[framese] EXCEPT !.ip = ip, !.sp = sp, !.asp = asp]
          \in FrameType
    BY DEF IInv, TypeOK, FrameType
  <2> QED
    BY <1>1, <2>1 DEF IInv, TypeOK, Resume
<1>3. ASSUME sp <= StackMax, asp <= StackMax
      PROVE  Guarded'
  <2>1. \A f \in 0 .. framese :
          framestack[f].sp <= StackMax /\ framestack[f].asp <= StackMax
    BY DEF IInv, Guarded
  <2> SUFFICES ASSUME NEW f \in 0 .. framese
               PROVE  /\ framestack'[f].sp <= StackMax
                      /\ framestack'[f].asp <= StackMax
    BY DEF Guarded
  <2>2. f \in FrameIndex
    BY SizesAssumption DEF IInv, TypeOK, FrameIndex
  <2>3. CASE f = framese
    BY <1>3, <2>2, <2>3 DEF IInv, TypeOK, Resume, FrameType
  <2>4. CASE f # framese
    BY <2>1, <2>2, <2>4 DEF IInv, TypeOK, Resume
  <2> QED
    BY <2>3, <2>4
<1> QED
  BY <1>1, <1>2, <1>3

(* Everything but the stacks the handler moved on has stayed.               *)
LEMMA WildKeeps ==
  ASSUME IInv, UNCHANGED image, Wild
  PROVE  IInv'
BY DEF IInv, Wild, TypeOK, IsImage, Statuses, FrameType, FrameIndex, Guarded,
       CellIndex

(* Nothing is promised of the bounds once the machine has aborted.          *)
LEMMA AbortKeeps ==
  ASSUME IInv, UNCHANGED image, Abort
  PROVE  IInv'
BY DEF IInv, Abort, TypeOK, IsImage, Statuses, FrameType, FrameIndex, Guarded,
       CellIndex

(* pushv either has room or reports the overflow and pushes nothing.        *)
LEMMA pushvKeeps ==
  ASSUME IInv, status = "run", UNCHANGED image,
         NEW ip \in Int, NEW sp \in Int, NEW asp \in Int, asp <= StackMax,
         NEW v \in Value, pushv(ip, sp, asp, v)
  PROVE  IInv'
<1>1. CASE sp < 0
  BY <1>1, WildKeeps DEF pushv
<1>2. CASE sp >= 0 /\ sp >= StackMax
  <2>1. /\ Resume(ip, sp, asp) /\ status' = "error"
        /\ UNCHANGED << framese, stack, astack, argstack, argsp, argasp >>
    BY <1>2 DEF pushv
  <2> QED
    BY <2>1, ResumeKeeps DEF IInv, TypeOK, Guarded, Statuses, CellIndex
<1>3. CASE sp >= 0 /\ ~(sp >= StackMax)
  <2>1. /\ Resume(ip, sp + 1, asp)
        /\ stack' = [stack EXCEPT ![sp] = v]
        /\ UNCHANGED << framese, status, astack, argstack, argsp, argasp >>
    BY <1>3 DEF pushv
  <2>2. sp + 1 \in Int /\ sp + 1 <= StackMax
    BY <1>3, SizesAssumption
  <2>3. (stack \in [CellIndex -> Value])'
    BY <2>1 DEF IInv, TypeOK, CellIndex
  <2> QED
    BY <2>1, <2>2, <2>3, ResumeKeeps DEF IInv, TypeOK, CellIndex
<1> QED
  BY <1>1, <1>2, <1>3

(* A handler that only moves pointers, to places within the bounds.         *)
LEMMA GotoKeeps ==
  ASSUME IInv, status = "run", UNCHANGED image,
         NEW ip \in Int, NEW sp \in Int, NEW asp \in Int,
         sp <= StackMax, asp <= StackMax, Goto(ip, sp, asp)
  PROVE  IInv'
<1>1. /\ Resume(ip, sp, asp)
      /\ UNCHANGED << framese, status, stack, astack, argstack, argsp, argasp >>
  BY DEF Goto
<1> QED
  BY <1>1, ResumeKeeps DEF IInv, TypeOK, CellIndex

(* An error ends the loop; the pointers the handler left no longer matter.  *)
LEMMA runtime_errorKeeps ==
  ASSUME IInv, status = "run", UNCHANGED image, NextIP \in Int,
         NEW sp \in Int, runtime_error(sp)
  PROVE  IInv'
<1>1. /\ Resume(NextIP, sp, ASP) /\ status' = "error"
      /\ UNCHANGED << framese, stack, astack, argstack, argsp, argasp >>
  BY DEF runtime_error
<1>2. ASP \in Int
  BY FrameFacts DEF IInv
<1> QED
  BY <1>1, <1>2, ResumeKeeps DEF IInv, TypeOK, Guarded, Statuses, CellIndex

-----------------------------------------------------------------------------
(* The handlers, one lemma for each group of actions.                      *)

(* What a handler may rely on.                                              *)
LEMMA HandlerFacts ==
  ASSUME IInv, NEW op, Fetch(op)
  PROVE  /\ status = "run" /\ Op = op /\ NextIP \in Int
         /\ SP \in Int /\ SP <= StackMax /\ ASP \in Int /\ ASP <= StackMax
         /\ Frame.base \in Int /\ Frame.env \in Int
         /\ Constants \in Seq(Value)
         /\ \A k : /\ peekv(k) \in Value /\ Slot(k) \in Value
                   /\ peekv(k).i \in Int /\ peekv(k).n \in Int
                   /\ Slot(k).i \in Int /\ Slot(k).n \in Int
         /\ \A k \in 1 .. OperandBytes(op) : Arg(k) \in Nat
<1>1. TypeOK /\ status = "run"
  BY DEF IInv, Fetch
<1>2. \A k \in 1 .. OperandBytes(op) : Arg(k) \in Nat
  BY <1>1, FetchFacts DEF Byte
<1> QED
  BY <1>1, <1>2, FetchFacts, FrameFacts, RunningFacts, ValueFields

(* The loads push a constant of the object, or go wild beyond its last.     *)
LEMMA ConstantsKeep ==
  ASSUME IInv, UNCHANGED image, LoadConstant \/ LocAlink
  PROVE  IInv'
<1>1. CASE LoadConstant
  <2>1. PICK op \in {OP_LOCI_LONG, OP_LOCS_LONG, OP_LOCF_LONG} : Fetch(op)
    BY <1>1 DEF LoadConstant
  <2>2. CASE ArgLong(1) + 1 \notin DOMAIN Constants
    BY <1>1, <2>2, WildKeeps DEF LoadConstant
  <2>3. CASE ArgLong(1) + 1 \in DOMAIN Constants
    <3>1. Constants[ArgLong(1) + 1] \in Value
      BY <2>1, <2>3, HandlerFacts
    <3>2. pushv(NextIP, SP, ASP, Constants[ArgLong(1) + 1])
      BY <1>1, <2>3 DEF LoadConstant
    <3> QED
      BY <2>1, <3>1, <3>2, HandlerFacts, pushvKeeps
  <2> QED
    BY <2>2, <2>3
<1>2. CASE LocAlink
  <2>1. Fetch(OP_LOC_ALINK_LONG)
    BY <1>2 DEF LocAlink
  <2>2. CASE ArgLong(1) + 1 \notin DOMAIN Constants
    BY <1>2, <2>2, WildKeeps DEF LocAlink
  <2>3. CASE ArgLong(1) + 1 \in DOMAIN Constants
    <3> DEFINE size == Constants[ArgLong(1) + 1].n
    <3>1. size \in Int
      BY <2>1, <2>3, HandlerFacts, ValueFields
    <3>2. VecV(ASP - size, size) \in Value
      BY <2>1, <3>1, HandlerFacts, MakingValues
    <3>3. pushv(NextIP, SP, ASP, VecV(ASP - size, size))
      BY <1>2, <2>3 DEF LocAlink
    <3> QED
      BY <2>1, <3>2, <3>3, HandlerFacts, pushvKeeps
  <2> QED
    BY <2>2, <2>3
<1> QED
  BY <1>1, <1>2

(* The opcodes that push a value of their own.                              *)
LEMMA PushesKeep ==
  ASSUME IInv, UNCHANGED image,
         PushByte \/ Zero \/ One \/ PushFalse \/ PushTrue \/ EmptyString
  PROVE  IInv'
<1>1. CASE PushByte
  <2>1. Fetch(OP_PUSH_BYTE) /\ pushv(NextIP, SP, ASP, IntV(Arg(1)))
    BY <1>1 DEF PushByte
  <2>2. 1 \in 1 .. OperandBytes(OP_PUSH_BYTE)
    BY Operands DEF OneOperandByte
  <2>3. Arg(1) \in Int
    BY <2>1, <2>2, HandlerFacts
  <2>4. IntV(Arg(1)) \in Value
    BY <2>3, MakingValues
  <2> QED
    BY <2>1, <2>4, HandlerFacts, pushvKeeps
<1>2. CASE Zero
  BY <1>2, HandlerFacts, MakingValues, pushvKeeps DEF Zero
<1>3. CASE One
  BY <1>3, HandlerFacts, MakingValues, pushvKeeps DEF One
<1>4. CASE PushFalse
  BY <1>4, HandlerFacts, MakingValues, pushvKeeps DEF PushFalse
<1>5. CASE PushTrue
  BY <1>5, HandlerFacts, MakingValues, pushvKeeps DEF PushTrue
<1>6. CASE EmptyString
  BY <1>6, HandlerFacts, MakingValues, pushvKeeps DEF EmptyString
<1> QED
  BY <1>1, <1>2, <1>3, <1>4, <1>5, <1>6

(* Two values are popped and one integer is pushed.                         *)
LEMMA ArithmeticKeeps ==
  ASSUME IInv, UNCHANGED image, Addi \/ Subi \/ Muli \/ Divi
  PROVE  IInv'
<1>1. ASSUME NEW op, Fetch(op), NEW x \in Int,
             pushv(NextIP, SP - 2, ASP, IntV(Wrap(x)))
      PROVE  IInv'
  <2>1. IntV(Wrap(x)) \in Value
    BY <1>1, WrapType, MakingValues
  <2>2. SP - 2 \in Int
    BY <1>1, HandlerFacts
  <2> QED
    BY <1>1, <2>1, <2>2, HandlerFacts, pushvKeeps
<1>2. CASE Addi
  <2>1. Fetch(OP_ADDI)
    BY <1>2 DEF Addi
  <2>2. peekv(2).i + peekv(1).i \in Int
    BY <2>1, HandlerFacts
  <2> QED
    BY <1>1, <1>2, <2>1, <2>2 DEF Addi
<1>3. CASE Subi
  <2>1. Fetch(OP_SUBI)
    BY <1>3 DEF Subi
  <2>2. peekv(2).i - peekv(1).i \in Int
    BY <2>1, HandlerFacts
  <2> QED
    BY <1>1, <1>3, <2>1, <2>2 DEF Subi
<1>4. CASE Muli
  <2>1. Fetch(OP_MULI)
    BY <1>4 DEF Muli
  <2>2. peekv(2).i * peekv(1).i \in Int
    BY <2>1, HandlerFacts
  <2> QED
    BY <1>1, <1>4, <2>1, <2>2 DEF Muli
<1>5. CASE Divi
  <2>1. Fetch(OP_DIVI)
    BY <1>5 DEF Divi
  <2>2. CASE peekv(1).i = 0
    <3>1. SP - 2 \in Int /\ runtime_error(SP - 2)
      BY <1>5, <2>1, <2>2, HandlerFacts DEF Divi
    <3> QED
      BY <2>1, <3>1, HandlerFacts, runtime_errorKeeps
  <2>3. CASE peekv(1).i # 0
    <3> DEFINE q == TruncDiv(peekv(2).i, peekv(1).i)
    <3>1. q \in Int
      BY <2>1, <2>3, HandlerFacts, TruncDivType
    <3>2. Abort \/ pushv(NextIP, SP - 2, ASP, IntV(q))
      BY <1>5, <2>3 DEF Divi
    <3> HIDE DEF q
    <3>3. IntV(q) \in Value /\ SP - 2 \in Int
      BY <2>1, <3>1, HandlerFacts, MakingValues
    <3> QED
      BY <2>1, <3>2, <3>3, HandlerFacts, pushvKeeps, AbortKeeps
  <2> QED
    BY <2>2, <2>3
<1> QED
  BY <1>2, <1>3, <1>4, <1>5

(* One or two values are popped and a Boolean is pushed.                    *)
LEMMA ComparisonsKeep ==
  ASSUME IInv, UNCHANGED image, Compare \/ Equa \/ Not
  PROVE  IInv'
<1>1. ASSUME NEW op, Fetch(op), NEW k \in 1 .. 2, NEW b \in BOOLEAN,
             pushv(NextIP, SP - k, ASP, BoolV(b))
      PROVE  IInv'
  <2>1. BoolV(b) \in Value /\ SP - k \in Int
    BY <1>1, MakingValues, HandlerFacts
  <2> QED
    BY <1>1, <2>1, HandlerFacts, pushvKeeps
<1>2. CASE Compare
  <2>1. PICK op \in {OP_GRT, OP_GRTEQ, OP_LT, OP_LEQ} : Fetch(op)
    BY <1>2 DEF Compare
  <2>2. CASE ~Comparable(Arg(1))
    BY <1>2, <2>2, AbortKeeps DEF Compare
  <2>3. CASE Comparable(Arg(1))
    <3>1. PICK sign \in compare_values(peekv(2), peekv(1), Arg(1)) :
            pushv(NextIP, SP - 2, ASP, BoolV(Holds(Op, sign)))
      BY <1>2, <2>3 DEF Compare
    <3>2. Holds(Op, sign) \in BOOLEAN
      BY DEF Holds
    <3> QED
      BY <1>1, <2>1, <3>1, <3>2
  <2> QED
    BY <2>2, <2>3
<1>3. CASE Equa
  <2>1. Fetch(OP_EQUA)
    BY <1>3 DEF Equa
  <2>2. CASE Arg(1) \notin VAL_INTEGER .. VAL_FUNCTION
    BY <1>3, <2>2, AbortKeeps DEF Equa
  <2>3. CASE Arg(1) \in VAL_INTEGER .. VAL_FUNCTION
    <3>1. PICK b \in values_equal(astack, peekv(2), peekv(1), Arg(1), Arg(2)) :
            pushv(NextIP, SP - 2, ASP, BoolV(b))
      BY <1>3, <2>3 DEF Equa
    <3>2. b \in BOOLEAN
      BY <3>1 DEF values_equal, ScalarsEqual
    <3> QED
      BY <1>1, <2>1, <3>1, <3>2
  <2> QED
    BY <2>2, <2>3
<1>4. CASE Not
  <2>1. Fetch(OP_NOT) /\ pushv(NextIP, SP - 1, ASP, BoolV(peekv(1).i = 0))
    BY <1>4 DEF Not
  <2>2. BoolV(peekv(1).i = 0) \in Value
    BY MakingValues DEF BoolV
  <2>3. SP - 1 \in Int
    BY <2>1, HandlerFacts
  <2> QED
    BY <2>1, <2>2, <2>3, HandlerFacts, pushvKeeps
<1> QED
  BY <1>2, <1>3, <1>4

(* Jumps move ip alone.                                                     *)
LEMMA JumpsKeep ==
  ASSUME IInv, UNCHANGED image, Skip \/ SkipBack \/ SkipF
  PROVE  IInv'
<1>1. ASSUME NEW op \in TwoOperandBytes, Fetch(op),
             NEW ip \in Int, Goto(ip, SP, ASP)
      PROVE  IInv'
  BY <1>1, HandlerFacts, GotoKeeps
<1>2. ASSUME NEW op \in {OP_SKIP_LONG, OP_SKIP_BACK_LONG, OP_SKIPF_LONG},
             Fetch(op)
      PROVE  op \in TwoOperandBytes /\ NextIP \in Int /\ ArgLong(1) \in Nat
  <2>1. op \in TwoOperandBytes
    BY <1>2 DEF TwoOperandBytes
  <2>2. 1 + 1 <= OperandBytes(op)
    BY <2>1, Operands
  <2> QED
    BY <1>2, <2>1, <2>2, LongType, HandlerFacts DEF IInv
<1>3. CASE Skip
  BY <1>1, <1>2, <1>3 DEF Skip
<1>4. CASE SkipBack
  BY <1>1, <1>2, <1>4 DEF SkipBack
<1>5. CASE SkipF
  BY <1>1, <1>2, <1>5 DEF SkipF
<1> QED
  BY <1>3, <1>4, <1>5

(* Handlers that give cells back, or take cells of the array stack after    *)
(* a check that there are as many.                                          *)
LEMMA PopsKeep ==
  ASSUME IInv, UNCHANGED image,
         Popv \/ Popa \/ PopToAstack \/ AstackShiftUp
  PROVE  IInv'
<1>1. CASE Popv
  <2>1. Fetch(OP_POPV) /\ Goto(NextIP, SP - 1, ASP)
    BY <1>1 DEF Popv
  <2>2. SP - 1 \in Int /\ SP - 1 <= StackMax
    BY <2>1, HandlerFacts, SizesAssumption
  <2> QED
    BY <2>1, <2>2, HandlerFacts, GotoKeeps
<1>2. CASE Popa
  <2>1. /\ Fetch(OP_POPA)
        /\ Goto(NextIP, SP - 1, ASP - Popped(peekv(1).n))
    BY <1>2 DEF Popa
  <2>2. Popped(peekv(1).n) \in Nat
    BY <2>1, HandlerFacts DEF Popped
  <2>3. /\ SP - 1 \in Int /\ SP - 1 <= StackMax
        /\ ASP - Popped(peekv(1).n) \in Int
        /\ ASP - Popped(peekv(1).n) <= StackMax
    BY <2>1, <2>2, HandlerFacts, SizesAssumption
  <2> QED
    BY <2>1, <2>3, HandlerFacts, GotoKeeps
<1>3. CASE PopToAstack
  <2>1. Fetch(OP_POP_TO_ASTACK)
    BY <1>3 DEF PopToAstack
  <2>2. /\ SP - 1 \in Int /\ SP - 1 <= StackMax
        /\ ASP + 1 \in Int
    BY <2>1, HandlerFacts, SizesAssumption
  <2>3. CASE ASP >= StackMax
    BY <1>3, <2>1, <2>2, <2>3, HandlerFacts, runtime_errorKeeps DEF PopToAstack
  <2>4. CASE ~(ASP >= StackMax) /\ ASP < 0
    BY <1>3, <2>4, WildKeeps DEF PopToAstack
  <2>5. CASE ~(ASP >= StackMax) /\ ~(ASP < 0)
    <3>1. /\ Resume(NextIP, SP - 1, ASP + 1)
          /\ astack' = [astack EXCEPT ![ASP] = peekv(1)]
          /\ UNCHANGED << framese, status, stack, argstack, argsp, argasp >>
      BY <1>3, <2>5 DEF PopToAstack
    <3>2. ASP + 1 <= StackMax
      BY <2>1, <2>5, HandlerFacts, SizesAssumption
    <3>3. (astack \in [CellIndex -> Value])'
      BY <2>1, <3>1, HandlerFacts DEF IInv, TypeOK, CellIndex
    <3> QED
      BY <2>1, <2>2, <3>1, <3>2, <3>3, HandlerFacts, ResumeKeeps
      DEF IInv, TypeOK, CellIndex
  <2> QED
    BY <2>3, <2>4, <2>5
<1>4. CASE AstackShiftUp
  <2>1. Fetch(OP_ASTACK_SHIFT_UP)
    BY <1>4 DEF AstackShiftUp
  <2>2. /\ SP - 1 \in Int /\ SP - 1 <= StackMax
        /\ ASP + peekv(1).i \in Int
    BY <2>1, HandlerFacts, SizesAssumption
  <2>3. CASE ASP + peekv(1).i > StackMax
    BY <1>4, <2>1, <2>2, <2>3, HandlerFacts, runtime_errorKeeps
    DEF AstackShiftUp
  <2>4. CASE ~(ASP + peekv(1).i > StackMax)
    <3>1. ASP + peekv(1).i <= StackMax
      BY <2>2, <2>4, SizesAssumption
    <3>2. Goto(NextIP, SP - 1, ASP + peekv(1).i)
      BY <1>4, <2>4 DEF AstackShiftUp
    <3> QED
      BY <2>1, <2>2, <3>1, <3>2, HandlerFacts, GotoKeeps
  <2> QED
    BY <2>3, <2>4
<1> QED
  BY <1>1, <1>2, <1>3, <1>4

(* A local is read or written through whatever frame its offset selects.    *)
LEMMA LocalsKeep ==
  ASSUME IInv, UNCHANGED image, GetLocal \/ SetLocal
  PROVE  IInv'
<1>1. CASE GetLocal
  <2>1. Fetch(OP_GET_LOCAL_LONG)
    BY <1>1 DEF GetLocal
  <2> DEFINE f == FrameAt(ArgLong(1))
             v == Slot(framestack[f].base + ArgLong(3))
  <2>2. CASE f \notin FrameIndex
    BY <1>1, <2>2, WildKeeps DEF GetLocal
  <2>3. CASE f \in FrameIndex
    <3>1. pushv(NextIP, SP, ASP, v)
      BY <1>1, <2>3 DEF GetLocal
    <3>2. v \in Value
      BY <2>1, HandlerFacts
    <3> HIDE DEF v
    <3> QED
      BY <2>1, <3>1, <3>2, HandlerFacts, pushvKeeps
  <2> QED
    BY <2>2, <2>3
<1>2. CASE SetLocal
  <2>1. Fetch(OP_SET_LOCAL_LONG)
    BY <1>2 DEF SetLocal
  <2> DEFINE f    == FrameAt(ArgLong(1))
             slot == framestack[f].base + ArgLong(3)
  <2>2. CASE f \notin FrameIndex \/ ~InStack(slot, 1)
    BY <1>2, <2>2, WildKeeps DEF SetLocal
  <2>3. CASE f \in FrameIndex /\ InStack(slot, 1)
    <3>1. /\ Resume(NextIP, SP - 1, ASP)
          /\ stack' = [stack EXCEPT ![slot] = peekv(1)]
          /\ UNCHANGED << framese, status, astack, argstack, argsp, argasp >>
      BY <1>2, <2>3 DEF SetLocal
    <3>2. SP - 1 \in Int /\ SP - 1 <= StackMax
      BY <2>1, HandlerFacts, SizesAssumption
    <3>3. (stack \in [CellIndex -> Value])'
      <4>1. peekv(1) \in Value
        BY <2>1, HandlerFacts
      <4> HIDE DEF slot
      <4> QED
        BY <3>1, <4>1 DEF IInv, TypeOK, CellIndex
    <3> QED
      BY <2>1, <3>1, <3>2, <3>3, HandlerFacts, ResumeKeeps
      DEF IInv, TypeOK, CellIndex
  <2> QED
    BY <2>2, <2>3
<1> QED
  BY <1>1, <1>2

(* An element or a subvector is pushed in place of indices and vector; a    *)
(* subvector of a temporary is moved down.                                  *)
LEMMA GetIndexKeeps ==
  ASSUME IInv, UNCHANGED image, GetIndex
  PROVE  IInv'
<1> DEFINE n     == Arg(1)
           rank  == Arg(2)
           dims  == Dimensions(rank)
           ixs   == Indices(n, rank)
           vec   == peekv(rank + n + 1)
           sp    == SP - rank - n - 1
           start == vec.i + index_flattened(dims, Padded(ixs, rank))
           count == Capped(ElementCount(dims, n))
           room  == IF ASP + count <= StackMax THEN count ELSE StackMax - ASP
<1>1. Fetch(OP_GET_INDEX)
  BY DEF GetIndex
<1>2. n \in Nat /\ rank \in Nat
  <2>1. OperandBytes(OP_GET_INDEX) = 2
    BY Operands DEF TwoOperandBytes
  <2> QED
    BY <1>1, <2>1, HandlerFacts
<1>3. sp \in Int /\ sp + 1 \in Int /\ sp + 1 <= StackMax
  BY <1>1, <1>2, HandlerFacts, SizesAssumption
<1>4. count \in Nat
  BY CappedType
<1> HIDE DEF n, rank, dims, ixs, vec, sp, start, count
<1>5. CASE sp < 0 \/ n > rank
  BY <1>5, WildKeeps DEF GetIndex, n, rank, sp
<1>6. CASE ~(sp < 0 \/ n > rank) /\ is_out_of_bounds(ixs, dims)
  <2>1. runtime_error(sp)
    BY <1>6 DEF GetIndex, n, rank, sp, ixs, dims
  <2> QED
    BY <1>1, <1>3, <2>1, HandlerFacts, runtime_errorKeeps
<1>7. CASE /\ ~(sp < 0 \/ n > rank) /\ ~is_out_of_bounds(ixs, dims)
           /\ n = rank
  <2>1. PICK v \in Loaded(Cell(astack, start)) : pushv(NextIP, sp, ASP, v)
    BY <1>7 DEF GetIndex, n, rank, sp, ixs, dims, start, vec
  <2>2. v \in Value
    <3>1. Cell(astack, start) \in Value
      BY CellType DEF IInv, TypeOK
    <3> QED
      BY <2>1, <3>1, MakingValues, AnyIntAssumption DEF Loaded
  <2> QED
    BY <1>1, <1>3, <2>1, <2>2, HandlerFacts, pushvKeeps
<1>8. CASE /\ ~(sp < 0 \/ n > rank) /\ ~is_out_of_bounds(ixs, dims)
           /\ n # rank /\ ASP < 0
  BY <1>8, WildKeeps DEF GetIndex, n, rank, sp, ixs, dims
<1>9. CASE /\ ~(sp < 0 \/ n > rank) /\ ~is_out_of_bounds(ixs, dims)
           /\ n # rank /\ ~(ASP < 0)
  <2>1. /\ room \in Int /\ ASP + room \in Int /\ ASP + room <= StackMax
        /\ VecV(ASP + room - count, count) \in Value
    BY <1>1, <1>4, HandlerFacts, SizesAssumption, MakingValues
  <2> HIDE DEF room
  <2>2. /\ Resume(NextIP, sp + 1, ASP + room)
        /\ astack' = CopyCells(astack, ASP, start, room)
        /\ stack' = [stack EXCEPT ![sp] = VecV(ASP + room - count, count)]
        /\ status' = IF room < count THEN "error" ELSE status
        /\ UNCHANGED << framese, argstack, argsp, argasp >>
    BY <1>9 DEF GetIndex, n, rank, sp, ixs, dims, start, vec, count, room
  <2>3. (astack \in [CellIndex -> Value])'
    BY <2>2, CopyCellsType DEF IInv, TypeOK, CellIndex
  <2>4. (stack \in [CellIndex -> Value])'
    BY <2>1, <2>2 DEF IInv, TypeOK, CellIndex
  <2>5. /\ IsImage(image)' /\ (framese \in FrameIndex)'
        /\ (framestack \in [FrameIndex -> FrameType])' /\ Guarded'
    BY <1>1, <1>3, <2>1, <2>2, HandlerFacts, ResumeKeeps
  <2>6. (status \in Statuses)'
    BY <2>2 DEF IInv, TypeOK, Statuses
  <2> QED
    BY <2>2, <2>3, <2>4, <2>5, <2>6 DEF IInv, TypeOK
<1> QED
  BY <1>5, <1>6, <1>7, <1>8, <1>9

(* The cells an indexed assignment writes get values.                       *)
LEMMA SetIndexLocalKeeps ==
  ASSUME IInv, UNCHANGED image, SetIndexLocal
  PROVE  IInv'
<1> DEFINE f     == FrameAt(ArgLong(1))
           n     == Arg(5)
           rank  == Arg(6)
           dims  == Dimensions(rank)
           ixs   == Indices(n, rank)
           val   == peekv(rank + n + 1)
           sp    == SP - rank - n
           vec   == Slot(framestack[f].base + ArgLong(3))
           start == vec.i + index_flattened(dims, Padded(ixs, rank))
           count == IF n = rank THEN 1 ELSE val.n
<1>1. Fetch(OP_SET_INDEX_LOCAL_LONG)
  BY DEF SetIndexLocal
<1>2. n \in Nat /\ rank \in Nat
  BY <1>1, HandlerFacts, Operands
<1>3. sp \in Int /\ sp - 1 \in Int /\ sp - 1 <= StackMax
  BY <1>1, <1>2, HandlerFacts, SizesAssumption
<1>4. val \in Value
  BY <1>1, HandlerFacts
<1> HIDE DEF f, n, rank, dims, ixs, val, sp, vec, start, count
<1>5. CASE f \notin FrameIndex \/ sp < 0 \/ n > rank
  BY <1>5, WildKeeps DEF SetIndexLocal, f, n, rank, sp
<1>6. CASE /\ ~(f \notin FrameIndex \/ sp < 0 \/ n > rank)
           /\ is_out_of_bounds(ixs, dims)
  <2>1. runtime_error(sp)
    BY <1>6 DEF SetIndexLocal, f, n, rank, sp, ixs, dims
  <2> QED
    BY <1>1, <1>3, <2>1, HandlerFacts, runtime_errorKeeps
<1>7. CASE /\ ~(f \notin FrameIndex \/ sp < 0 \/ n > rank)
           /\ ~is_out_of_bounds(ixs, dims)
           /\ sp < 1 \/ ~InStack(start, count)
  BY <1>7, WildKeeps
  DEF SetIndexLocal, f, n, rank, sp, ixs, dims, start, vec, count, val
<1>8. CASE /\ ~(f \notin FrameIndex \/ sp < 0 \/ n > rank)
           /\ ~is_out_of_bounds(ixs, dims)
           /\ ~(sp < 1 \/ ~InStack(start, count))
  <2>1. /\ Resume(NextIP, sp - 1, ASP)
        /\ astack' = IF n = rank THEN [astack EXCEPT ![start] = val]
                     ELSE CopyCells(astack, start, val.i, val.n)
        /\ UNCHANGED << framese, stack, argstack, argsp, argasp, status >>
    BY <1>8
    DEF SetIndexLocal, f, n, rank, sp, ixs, dims, start, vec, count, val
  <2>2. (astack \in [CellIndex -> Value])'
    <3>1. CASE n = rank
      BY <1>4, <2>1, <3>1 DEF IInv, TypeOK, CellIndex
    <3>2. CASE n # rank
      BY <2>1, <3>2, CopyCellsType DEF IInv, TypeOK, CellIndex
    <3> QED
      BY <3>1, <3>2
  <2> QED
    BY <1>1, <1>3, <2>1, <2>2, HandlerFacts, ResumeKeeps
    DEF IInv, TypeOK, CellIndex
<1> QED
  BY <1>5, <1>6, <1>7, <1>8

(* Writing pops, reading pushes a value of the type that was asked for.     *)
LEMMA InputOutputKeeps ==
  ASSUME IInv, UNCHANGED image, Write \/ Newline \/ Read \/ Halt \/ BadCode
  PROVE  IInv'
<1>1. CASE Write
  <2> DEFINE n  == Arg(1)
             sp == SP - 3 * n
             val(k)  == Slot(sp + 3 * (k - 1))
             type(k) == Slot(sp + 3 * (k - 1) + 1).i
             popped[k \in 0 .. n] ==
               IF k = 0 THEN 0
               ELSE popped[k - 1] +
                    (IF type(k) = VAL_VECTOR THEN Popped(val(k).n) ELSE 0)
             size == Capped(popped[n])
  <2>1. Fetch(OP_WRITE)
    BY <1>1 DEF Write
  <2>2. n \in Nat
    <3>1. OperandBytes(OP_WRITE) = 1
      BY Operands DEF OneOperandByte
    <3> QED
      BY <2>1, <3>1, HandlerFacts
  <2>3. sp \in Int /\ sp <= StackMax
    BY <2>1, <2>2, HandlerFacts, SizesAssumption
  <2>4. size \in Nat
    BY CappedType
  <2>5. Wild \/ Abort \/ (/\ Resume(NextIP, sp, ASP - size)
                          /\ UNCHANGED << framese, stack, astack, argstack,
                                          argsp, argasp, status >>)
    BY <1>1 DEF Write
  <2> HIDE DEF sp, size
  <2>6. ASP - size \in Int /\ ASP - size <= StackMax
    BY <2>1, <2>4, HandlerFacts, SizesAssumption
  <2>7. CASE /\ Resume(NextIP, sp, ASP - size)
             /\ UNCHANGED << framese, stack, astack, argstack, argsp, argasp,
                             status >>
    BY <2>1, <2>3, <2>6, <2>7, HandlerFacts, ResumeKeeps
    DEF IInv, TypeOK, CellIndex
  <2> QED
    BY <2>5, <2>7, WildKeeps, AbortKeeps
<1>2. CASE Newline
  <2>1. /\ Fetch(OP_NEWLINE) /\ Resume(NextIP, SP, ASP)
        /\ UNCHANGED << framese, stack, astack, argstack, argsp, argasp, status >>
    BY <1>2 DEF Newline
  <2> QED
    BY <2>1, HandlerFacts, ResumeKeeps DEF IInv, TypeOK, CellIndex
<1>3. CASE Read
  <2>1. Fetch(OP_READ)
    BY <1>3 DEF Read
  <2>2. Abort \/ \E v \in ReadValues(Arg(1)) : pushv(NextIP, SP, ASP, v)
    BY <1>3 DEF Read
  <2>3. ASSUME NEW v \in ReadValues(Arg(1)), pushv(NextIP, SP, ASP, v)
        PROVE  IInv'
    <3>1. v \in Value
      <4>1. DOMAIN Strings \subseteq Int
        BY StringsAssumption
      <4> QED
        BY <2>3, <4>1, MakingValues, InputAssumption DEF ReadValues
    <3> QED
      BY <2>1, <2>3, <3>1, HandlerFacts, pushvKeeps
  <2> QED
    BY <2>2, <2>3, AbortKeeps
<1>4. CASE Halt
  <2>1. /\ Fetch(OP_HALT) /\ Resume(NextIP, SP, ASP) /\ status' = "halt"
        /\ UNCHANGED << framese, stack, astack, argstack, argsp, argasp >>
    BY <1>4 DEF Halt
  <2> QED
    BY <2>1, HandlerFacts, ResumeKeeps DEF IInv, TypeOK, CellIndex, Statuses
<1>5. CASE BadCode
  <2>1. CASE Wild
    BY <2>1, WildKeeps
  <2>2. CASE InCode(0) /\ Op \notin Opcodes /\ runtime_error(SP)
    <3>1. status = "run" /\ TypeOK
      BY <1>5 DEF BadCode, IInv
    <3>2. NextIP \in Int /\ SP \in Int
      BY <3>1, FrameFacts, OperandBytesType DEF NextIP
    <3> QED
      BY <2>2, <3>1, <3>2, runtime_errorKeeps
  <2> QED
    BY <1>5, <2>1, <2>2 DEF BadCode
<1> QED
  BY <1>1, <1>2, <1>3, <1>4, <1>5

(* A call enters a frame whose pointers are those of the caller, or goes    *)
(* wild where there is no frame or no function.                             *)
LEMMA CallKeeps ==
  ASSUME IInv, UNCHANGED image, Call
  PROVE  IInv'
<1> DEFINE arity  == Arg(1)
           callee == peekv(arity + 1)
           entered == [ip |-> 0, sp |-> SP, base |-> SP - arity, asp |-> ASP,
                       fn |-> callee.i, env |-> callee.n]
           wild == \/ SP - arity - 1 < 0 \/ framese = StackMax
                   \/ callee.t # "fn"    \/ callee.i \notin DOMAIN image.fns
<1>1. Fetch(OP_CALL)
  BY DEF Call
<1>2. arity \in Nat
  <2>1. OperandBytes(OP_CALL) = 1
    BY Operands DEF OneOperandByte
  <2> QED
    BY <1>1, <2>1, HandlerFacts
<1>3. CASE wild
  BY <1>3, WildKeeps DEF Call
<1>4. CASE ~wild
  <2>1. /\ framese' = framese + 1
        /\ framestack' = [framestack EXCEPT ![framese].ip = NextIP,
                                            ![framese + 1] = entered]
        /\ UNCHANGED << stack, astack, argstack, argsp, argasp, status >>
    BY <1>4 DEF Call
  <2>2. callee \in Value /\ callee.n \in Int
    BY <1>1, HandlerFacts
  <2>3. entered \in FrameType
    BY <1>1, <1>2, <1>4, <2>2, HandlerFacts DEF FrameType
  <2>4. entered.sp <= StackMax /\ entered.asp <= StackMax
    BY <1>1, HandlerFacts
  <2>5. framese \in FrameIndex /\ framese # StackMax
    BY <1>4 DEF IInv, TypeOK
  <2>6. framese + 1 \in FrameIndex
    BY <2>5, SizesAssumption DEF FrameIndex
  <2>7. framestack \in [FrameIndex -> FrameType] /\ NextIP \in Int
    BY <1>1, HandlerFacts DEF IInv, TypeOK
  <2>8. [framestack[framese] EXCEPT !.ip = NextIP] \in FrameType
    BY <2>5, <2>7 DEF FrameType
  <2> HIDE DEF entered, wild
  <2>9. /\ framestack' \in [FrameIndex -> FrameType]
        /\ FrameType' = FrameType /\ FrameIndex' = FrameIndex
    BY <2>1, <2>3, <2>7, <2>8 DEF FrameType, FrameIndex
  <2>10. TypeOK'
    BY <2>1, <2>6, <2>9 DEF IInv, TypeOK, CellIndex, IsImage
  <2>11. Guarded'
    <3> SUFFICES ASSUME NEW g \in 0 .. framese + 1
                 PROVE  /\ framestack'[g].sp <= StackMax
                        /\ framestack'[g].asp <= StackMax
      BY <2>1 DEF Guarded
    <3>1. /\ \A h \in 0 .. framese : /\ framestack[h].sp <= StackMax
                                     /\ framestack[h].asp <= StackMax
          /\ g \in FrameIndex
      BY <1>1, <2>5, <2>6, HandlerFacts, SizesAssumption
      DEF IInv, Guarded, FrameIndex
    <3>2. CASE g = framese + 1
      BY <2>1, <2>4, <2>6, <2>7, <3>2
    <3>3. CASE g = framese
      <4>1. framestack'[g] = [framestack[framese] EXCEPT !.ip = NextIP]
        BY <2>1, <2>5, <2>7, <3>3 DEF FrameIndex
      <4> QED
        BY <2>5, <2>7, <3>1, <3>3, <4>1 DEF FrameType, FrameIndex
    <3>4. CASE g \in 0 .. framese /\ g # framese
      BY <2>1, <2>5, <2>7, <3>1, <3>4 DEF FrameIndex
    <3> QED
      BY <2>5, <3>2, <3>3, <3>4 DEF FrameIndex
  <2> QED
    BY <2>10, <2>11 DEF IInv
<1> QED
  BY <1>3, <1>4

(* A return leaves for a frame that was within the bounds and puts the      *)
(* result on it.                                                            *)
LEMMA ReturnKeeps ==
  ASSUME IInv, UNCHANGED image, Return
  PROVE  IInv'
<1> DEFINE val == peekv(1)
           sp  == framestack[framese - 1].sp - Arg(1) - 1
           wild == framese = 0 \/ SP < 1 \/ ~InStack(sp, 1)
<1>1. Fetch(OP_RETURN)
  BY DEF Return
<1>2. CASE wild
  BY <1>2, WildKeeps DEF Return
<1>3. CASE ~wild
  <2>1. /\ framese' = framese - 1
        /\ framestack' = [framestack EXCEPT ![framese - 1].sp = sp + 1]
        /\ stack' = [stack EXCEPT ![sp] = val]
        /\ UNCHANGED << astack, argstack, argsp, argasp, status >>
    BY <1>3 DEF Return
  <2>2. framese \in FrameIndex /\ framese - 1 \in FrameIndex
    BY <1>3, SizesAssumption DEF IInv, TypeOK, FrameIndex
  <2>3. val \in Value
    BY <1>1, HandlerFacts
  <2>4. sp + 1 \in Int /\ sp + 1 <= StackMax
    <3>1. Arg(1) \in Nat
      <4>1. OperandBytes(OP_RETURN) = 1
        BY Operands DEF OneOperandByte
      <4> QED
        BY <1>1, <4>1, HandlerFacts
    <3>2. framestack[framese - 1].sp \in Int
      BY <2>2 DEF IInv, TypeOK, FrameType
    <3> QED
      BY <1>3, <3>1, <3>2, SizesAssumption DEF InStack
  <2> HIDE DEF val, sp, wild
  <2>5. /\ framestack' \in [FrameIndex -> FrameType]
        /\ FrameType' = FrameType /\ FrameIndex' = FrameIndex
    BY <2>1, <2>2, <2>4 DEF IInv, TypeOK, FrameType, FrameIndex
  <2>6. (stack \in [CellIndex -> Value])'
    BY <2>1, <2>3 DEF IInv, TypeOK, CellIndex
  <2>7. TypeOK'
    BY <2>1, <2>2, <2>5, <2>6 DEF IInv, TypeOK, CellIndex, IsImage
  <2>8. Guarded'
    <3> SUFFICES ASSUME NEW g \in 0 .. framese - 1
                 PROVE  /\ framestack'[g].sp <= StackMax
                        /\ framestack'[g].asp <= StackMax
      BY <2>1 DEF Guarded
    <3>1. /\ framestack[g].sp <= StackMax /\ framestack[g].asp <= StackMax
          /\ g \in FrameIndex
      BY <1>1, <2>2, HandlerFacts, SizesAssumption DEF IInv, Guarded, FrameIndex
    <3>2. CASE g = framese - 1
      <4>1. framestack'[g] = [framestack[g] EXCEPT !.sp = sp + 1]
        BY <2>1, <2>2, <3>2 DEF IInv, TypeOK
      <4> QED
        BY <2>4, <3>1, <4>1 DEF IInv, TypeOK, FrameType
    <3>3. CASE g # framese - 1
      BY <2>1, <3>1, <3>3 DEF IInv, TypeOK
    <3> QED
      BY <3>2, <3>3
  <2> QED
    BY <2>7, <2>8 DEF IInv
<1> QED
  BY <1>2, <1>3

(* The caller's asp moves past the result, which lies within the array      *)
(* stack or else the handler has written outside of it.                     *)
LEMMA ShiftAstackentToBaseKeeps ==
  ASSUME IInv, UNCHANGED image, ShiftAstackentToBase
  PROVE  IInv'
<1> DEFINE vec == peekv(1)
           asp == framestack[framese - 1].asp
           wild == framese = 0 \/ SP < 1 \/ vec.n < 0 \/ ~InStack(asp, vec.n)
<1>1. Fetch(OP_SHIFT_ASTACKENT_TO_BASE)
  BY DEF ShiftAstackentToBase
<1>2. CASE wild
  BY <1>2, WildKeeps DEF ShiftAstackentToBase
<1>3. CASE ~wild
  <2>1. /\ astack' = CopyCells(astack, asp, vec.i, vec.n)
        /\ stack' = [stack EXCEPT ![SP - 1] = VecV(asp, vec.n)]
        /\ framestack' = [framestack EXCEPT ![framese - 1].asp = asp + vec.n,
                                            ![framese].ip = NextIP]
        /\ UNCHANGED << framese, argstack, argsp, argasp, status >>
    BY <1>3 DEF ShiftAstackentToBase
  <2>2. framese \in FrameIndex /\ framese - 1 \in FrameIndex
    BY <1>3, SizesAssumption DEF IInv, TypeOK, FrameIndex
  <2>3. NextIP \in Int /\ vec.n \in Int /\ asp \in Int
    BY <1>1, <2>2, HandlerFacts DEF IInv, TypeOK, FrameType
  <2>4. asp + vec.n \in Int /\ asp + vec.n <= StackMax
    BY <1>3, <2>3, SizesAssumption DEF InStack
  <2>5. VecV(asp, vec.n) \in Value
    BY <2>3, MakingValues
  <2> HIDE DEF vec, asp, wild
  <2> DEFINE lower == [framestack[framese - 1] EXCEPT !.asp = asp + vec.n]
             upper == [framestack[framese] EXCEPT !.ip = NextIP]
  <2>6. /\ framestack' = [[framestack EXCEPT ![framese - 1] = lower]
                            EXCEPT ![framese] = upper]
        /\ lower \in FrameType /\ upper \in FrameType
    <3>1. framese # framese - 1
      BY <2>2 DEF FrameIndex
    <3> QED
      BY <2>1, <2>2, <2>3, <2>4, <3>1 DEF IInv, TypeOK, FrameType
  <2>7. /\ framestack' \in [FrameIndex -> FrameType]
        /\ FrameType' = FrameType /\ FrameIndex' = FrameIndex
    BY <2>6 DEF IInv, TypeOK, FrameType, FrameIndex
  <2>8. (stack \in [CellIndex -> Value])' /\ (astack \in [CellIndex -> Value])'
    BY <2>1, <2>5, CopyCellsType DEF IInv, TypeOK, CellIndex
  <2>9. TypeOK'
    BY <2>1, <2>2, <2>7, <2>8 DEF IInv, TypeOK, CellIndex, IsImage
  <2>10. Guarded'
    <3> SUFFICES ASSUME NEW g \in 0 .. framese
                 PROVE  /\ framestack'[g].sp <= StackMax
                        /\ framestack'[g].asp <= StackMax
      BY <2>1 DEF Guarded
    <3>1. /\ framestack[g].sp <= StackMax /\ framestack[g].asp <= StackMax
          /\ g \in FrameIndex
      BY <1>1, <2>2, HandlerFacts, SizesAssumption DEF IInv, Guarded, FrameIndex
    <3>2. CASE g = framese
      <4>1. framestack'[g] = upper
        BY <2>2, <2>6, <3>2 DEF IInv, TypeOK
      <4> QED
        BY <2>2, <3>1, <3>2, <4>1 DEF IInv, TypeOK, FrameType
    <3>3. CASE g = framese - 1
      <4>1. framestack'[g] = lower
        BY <2>2, <2>6, <3>3 DEF IInv, TypeOK, FrameIndex
      <4> QED
        BY <2>2, <2>4, <3>1, <3>3, <4>1 DEF IInv, TypeOK, FrameType
    <3>4. CASE g # framese /\ g # framese - 1
      BY <2>6, <3>1, <3>4 DEF IInv, TypeOK
    <3> QED
      BY <3>2, <3>3, <3>4
  <2> QED
    BY <2>9, <2>10 DEF IInv
<1> QED
  BY <1>2, <1>3

(* The argument stack holds at most MaxArity values.                        *)
LEMMA ArgstackKeeps ==
  ASSUME IInv, UNCHANGED image,
         ArgstackLoad \/ ArgstackPeek \/ ArgstackUnload
  PROVE  IInv'
<1>0. argsp \in 0 .. MaxArity /\ MaxArity \in Nat /\ argasp \in Int
  BY MaxArityAssumption DEF IInv, TypeOK, Byte
<1>1. CASE ArgstackLoad
  <2> DEFINE val  == Slot(Frame.base + Arg(1))
             size == IF Arg(2) # 0 THEN val.n ELSE 0
             low  == argasp - size
             wild == argsp >= MaxArity \/ size < 0 \/ ~InStack(low, size)
             copied == IF Arg(2) # 0 THEN VecV(low, size) ELSE val
  <2>1. Fetch(OP_ARGSTACK_LOAD)
    BY <1>1 DEF ArgstackLoad
  <2>2. CASE wild
    BY <1>1, <2>2, WildKeeps DEF ArgstackLoad
  <2>3. CASE ~wild
    <3>1. /\ argasp' = low
          /\ astack' = CopyCells(astack, low, val.i, size)
          /\ argstack' = [argstack EXCEPT ![argsp] = copied]
          /\ argsp' = argsp + 1
          /\ Resume(NextIP, SP, ASP)
          /\ UNCHANGED << framese, stack, status >>
      BY <1>1, <2>3 DEF ArgstackLoad
    <3>2. val \in Value /\ val.n \in Int
      BY <2>1, HandlerFacts
    <3>3. low \in Int /\ copied \in Value
      BY <1>0, <3>2, MakingValues
    <3>4. (argsp \in 0 .. MaxArity)'
      BY <1>0, <2>3, <3>1
    <3> HIDE DEF val, size, low, wild, copied
    <3>5. (astack \in [CellIndex -> Value])'
      BY <3>1, CopyCellsType DEF IInv, TypeOK, CellIndex
    <3>6. (argstack \in [0 .. (MaxArity - 1) -> Value])'
      BY <3>1, <3>3 DEF IInv, TypeOK
    <3> QED
      BY <2>1, <3>1, <3>3, <3>4, <3>5, <3>6, HandlerFacts, ResumeKeeps
      DEF IInv, TypeOK, CellIndex
  <2> QED
    BY <2>2, <2>3
<1>2. CASE ArgstackPeek
  <2>1. Fetch(OP_ARGSTACK_PEEK)
    BY <1>2 DEF ArgstackPeek
  <2>2. CASE argsp = 0
    BY <1>2, <2>2, WildKeeps DEF ArgstackPeek
  <2>3. CASE argsp # 0
    <3>1. argsp - 1 \in 0 .. (MaxArity - 1)
      BY <1>0, <2>3
    <3>2. argstack[argsp - 1] \in Value
      BY <3>1 DEF IInv, TypeOK
    <3>3. pushv(NextIP, SP, ASP, argstack[argsp - 1])
      BY <1>2, <2>3 DEF ArgstackPeek
    <3> QED
      BY <2>1, <3>2, <3>3, HandlerFacts, pushvKeeps
  <2> QED
    BY <2>2, <2>3
<1>3. CASE ArgstackUnload
  <2> DEFINE freed == IF Arg(1) # 0 THEN argstack[argsp - 1].n ELSE 0
  <2>1. Fetch(OP_ARGSTACK_UNLOAD)
    BY <1>3 DEF ArgstackUnload
  <2>2. CASE argsp = 0
    BY <1>3, <2>2, WildKeeps DEF ArgstackUnload
  <2>3. CASE argsp # 0
    <3>1. /\ argsp' = argsp - 1
          /\ argasp' = argasp + freed
          /\ Resume(NextIP, SP, ASP)
          /\ UNCHANGED << framese, stack, astack, argstack, status >>
      BY <1>3, <2>3 DEF ArgstackUnload
    <3>2. argsp - 1 \in 0 .. (MaxArity - 1) /\ (argsp \in 0 .. MaxArity)'
      BY <1>0, <2>3, <3>1
    <3>3. freed \in Int
      BY <3>2, ValueFields DEF IInv, TypeOK
    <3> HIDE DEF freed
    <3>4. (argasp \in Int)'
      BY <1>0, <3>1, <3>3
    <3> QED
      BY <2>1, <3>1, <3>2, <3>4, HandlerFacts, ResumeKeeps
      DEF IInv, TypeOK, CellIndex
  <2> QED
    BY <2>2, <2>3
<1> QED
  BY <1>1, <1>2, <1>3

-----------------------------------------------------------------------------
(* The theorems.                                                           *)

(* The machine starts with nothing on its stacks.                           *)
LEMMA InitIInv == Init => IInv
<1> SUFFICES ASSUME Init
             PROVE  IInv
  OBVIOUS
<1>1. IsImage(image)
  BY ImagesAssumption DEF Init
<1>2. framese = 0 /\ framese \in FrameIndex
  BY SizesAssumption DEF Init, FrameIndex
<1>3. NoFrame \in FrameType
  BY <1>1 DEF NoFrame, FrameType, root, IsImage
<1>4. framestack \in [FrameIndex -> FrameType]
  BY <1>3 DEF Init
<1>5. MaxArity \in Nat
  BY MaxArityAssumption DEF Byte
<1>6. TypeOK
  BY <1>1, <1>2, <1>4, <1>5, MakingValues, SizesAssumption
  DEF Init, TypeOK, Statuses
<1>7. Guarded
  BY SizesAssumption DEF Init, Guarded, NoFrame, FrameIndex
<1> QED
  BY <1>6, <1>7 DEF IInv

(* IInv is inductive: every opcode keeps it, and so does a step that        *)
(* changes nothing.                                                         *)
LEMMA NextIInv == IInv /\ [Next]_vars => IInv'
<1> SUFFICES ASSUME IInv, [Next]_vars
             PROVE  IInv'
  OBVIOUS
<1>1. CASE Execute /\ Step
  BY <1>1, ConstantsKeep, PushesKeep, ArithmeticKeeps, ComparisonsKeep,
     JumpsKeep, PopsKeep, LocalsKeep, GetIndexKeeps, SetIndexLocalKeeps,
     InputOutputKeeps, CallKeeps, ReturnKeeps, ShiftAstackentToBaseKeeps,
     ArgstackKeeps
  DEF Execute, Step
<1>2. CASE Execute /\ Read
  BY <1>2, InputOutputKeeps DEF Execute
<1>3. CASE UNCHANGED vars
  BY <1>3 DEF vars, IInv, TypeOK, Guarded, IsImage, FrameType, FrameIndex,
              CellIndex
<1> QED
  BY <1>1, <1>2, <1>3 DEF Next, Execute, Returned

(* vm_run keeps the types of its state: whatever bytes it is given, each    *)
(* handler leaves indices that are numbers, cells that hold values, a       *)
(* current frame in framestack or just past it, and at most MAX_ARITY       *)
(* values on the argument stack.                                            *)
THEOREM VMTypes == Spec => []TypeOK
<1>1. Spec => []IInv
  BY InitIInv, NextIInv, PTL DEF Spec
<1>2. IInv => TypeOK
  BY DEF IInv
<1> QED
  BY <1>1, <1>2, PTL

(* The checks in pushv, pusha, asp_move_up and OP_GET_INDEX, and the one    *)
(* this model makes where a handler would write past an array, keep sp and  *)
(* asp of every live frame at or below STACK_MAX, whatever the code.        *)
THEOREM VMGuarded == Spec => []Guarded
<1>1. Spec => []IInv
  BY InitIInv, NextIInv, PTL DEF Spec
<1>2. IInv => Guarded
  BY DEF IInv
<1> QED
  BY <1>1, <1>2, PTL

-----------------------------------------------------------------------------
(* Addresses of elements.                                                  *)

LEMMA Factors == \A x, y, z \in Int : (x * y) * z = x * (y * z)
OBVIOUS

(* The recursive function in ElementCount.                                  *)
CountsFrom(dims, n, rank, g) ==
  g = [k \in n .. rank |-> IF k = n THEN 1 ELSE g[k - 1] * dims[k]]

LEMMA CountsExist ==
  ASSUME NEW rank \in Nat, NEW dims \in [1 .. rank -> Nat], NEW n \in 0 .. rank
  PROVE  \E g : CountsFrom(dims, n, rank, g)
<1> DEFINE m == rank - n
           step == [k \in 1 .. m |-> [v \in Nat |-> v * dims[n + k]]]
<1>1. /\ m \in Nat /\ n \in Nat /\ \A k \in 1 .. m : n + k \in 1 .. rank
      /\ \A k \in n .. rank : k - n \in 0 .. m /\ (k # n => k - n \in 1 .. m)
  OBVIOUS
<1>2. step \in [1 .. m -> [Nat -> Nat]]
  <2>1. \A k \in 1 .. m : dims[n + k] \in Nat
    BY <1>1
  <2> HIDE DEF m
  <2>2. \A k \in 1 .. m : [v \in Nat |-> v * dims[n + k]] \in [Nat -> Nat]
    BY <2>1
  <2> QED
    BY <2>2
<1>3. PICK g \in [0 .. m -> Nat] :
        g[0] = 1 /\ \A k \in 1 .. m : g[k] = step[k][g[k - 1]]
  <2> HIDE DEF m, step
  <2> QED
    <3>1. \A l \in Nat : \A s \in [1 .. l -> [Nat -> Nat]] :
            \E g \in [0 .. l -> Nat] :
              g[0] = 1 /\ \A k \in 1 .. l : g[k] = s[k][g[k - 1]]
      BY 1 \in Nat, Recursion, Zenon
    <3> QED
      BY <1>1, <1>2, <3>1
<1> DEFINE h == [k \in n .. rank |-> g[k - n]]
<1>4. ASSUME NEW k \in n .. rank
      PROVE  h[k] = IF k = n THEN 1 ELSE h[k - 1] * dims[k]
  <2>1. CASE k = n
    BY <1>1, <1>3, <2>1
  <2>2. CASE k # n
    <3>1. PICK j : j = k - n
      OBVIOUS
    <3>2. /\ j \in 1 .. m /\ n + j = k /\ j - 1 \in 0 .. m
          /\ k - 1 \in n .. rank /\ (k - 1) - n = j - 1
      BY <1>1, <2>2, <3>1
    <3>3. g[j] = g[j - 1] * dims[n + j] /\ h[k - 1] = g[j - 1] /\ h[k] = g[j]
      BY <1>3, <3>1, <3>2
    <3> QED
      BY ONLY <2>2, <3>2, <3>3
  <2> QED
    BY <2>1, <2>2
<1>5. h = [k \in n .. rank |-> h[k]]
  OBVIOUS
<1> HIDE DEF h
<1> QED
  BY <1>4, <1>5 DEF CountsFrom

(* The place after the j-th one behind n.                                   *)
LEMMA NextPlace ==
  ASSUME NEW rank \in Nat, NEW n \in 0 .. rank, NEW j \in 0 .. ((rank - n) - 1)
  PROVE  /\ n + j + 1 \in n + 1 .. rank /\ n + j + 1 \in 1 .. rank
         /\ (n + j + 1) - 1 = n + j /\ n + j + 1 = n + (j + 1)
         /\ j + 1 \in 0 .. rank - n
OBVIOUS

LEMMA CountFacts ==
  ASSUME NEW rank \in Nat, NEW dims \in [1 .. rank -> Nat], NEW n \in 0 .. rank
  PROVE  \E c \in [n .. rank -> Nat] :
           /\ c[n] = 1 /\ ElementCount(dims, n) = c[rank]
           /\ \A k \in n + 1 .. rank : c[k] = c[k - 1] * dims[k]
<1>1. PICK c : CountsFrom(dims, n, rank, c) /\ ElementCount(dims, n) = c[rank]
  <2> DEFINE c == CHOOSE g : CountsFrom(dims, n, rank, g)
  <2>1. CountsFrom(dims, n, rank, c)
    BY CountsExist
  <2>2. Len(dims) = rank
    OBVIOUS
  <2>3. ElementCount(dims, n) = c[rank]
    BY <2>2 DEF ElementCount, CountsFrom
  <2> QED
    BY <2>1, <2>3
<1>2. c = [k \in n .. rank |-> c[k]] /\ n \in Nat /\ rank - n \in Nat
  BY <1>1 DEF CountsFrom
<1>3. c[n] = 1 /\ \A k \in n + 1 .. rank : c[k] = c[k - 1] * dims[k]
  BY <1>1 DEF CountsFrom
<1> DEFINE T == {j \in 0 .. rank - n : c[n + j] \in Nat}
<1>4. 0 \in T
  BY <1>2, <1>3
<1>5. \A j \in 0 .. ((rank - n) - 1) : j \in T => j + 1 \in T
  <2> SUFFICES ASSUME NEW j \in 0 .. ((rank - n) - 1), j \in T
               PROVE  j + 1 \in T
    OBVIOUS
  <2>1. PICK k : k = n + j + 1
    OBVIOUS
  <2>2. /\ k \in n + 1 .. rank /\ k - 1 = n + j /\ k = n + (j + 1)
        /\ k \in 1 .. rank /\ j + 1 \in 0 .. rank - n
    BY ONLY <2>1, rank \in Nat, n \in 0 .. rank, j \in 0 .. ((rank - n) - 1), NextPlace
  <2>3. c[k - 1] \in Nat /\ dims[k] \in Nat
    BY <2>2
  <2>4. c[k] \in Nat
    BY <1>3, <2>2, <2>3
  <2> QED
    BY <2>2, <2>4
<1>6. \A j \in 0 .. rank - n : j \in T
  <2> HIDE DEF T
  <2> QED
    BY ONLY <1>2, <1>4, <1>5, InductionUpTo
<1>7. ASSUME NEW k \in n .. rank PROVE c[k] \in Nat
  <2>1. k - n \in 0 .. rank - n /\ n + (k - n) = k
    OBVIOUS
  <2> QED
    BY <1>6, <2>1
<1> QED
  BY <1>1, <1>2, <1>3, <1>7

(* The elements of a vector are as many as a row has, times the rows.       *)
LEMMA ElementCounts ==
  ASSUME NEW rank \in Nat, NEW dims \in [1 .. rank -> Nat]
  PROVE  /\ ElementCount(dims, rank) = 1
         /\ \A n \in 0 .. rank : ElementCount(dims, n) \in Nat
         /\ \A n \in 0 .. rank - 1 :
              ElementCount(dims, n) = dims[n + 1] * ElementCount(dims, n + 1)
<1>1. \A n \in 0 .. rank : ElementCount(dims, n) \in Nat
  BY CountFacts
<1>2. ElementCount(dims, rank) = 1
  <2>1. rank \in 0 .. rank
    OBVIOUS
  <2>2. PICK c \in [rank .. rank -> Nat] :
          c[rank] = 1 /\ ElementCount(dims, rank) = c[rank]
    BY <2>1, CountFacts
  <2> QED
    BY <2>2
<1>3. ASSUME NEW n \in 0 .. rank - 1
      PROVE  ElementCount(dims, n) = dims[n + 1] * ElementCount(dims, n + 1)
  <2>1. n \in 0 .. rank /\ n + 1 \in 0 .. rank /\ n + 1 \in 1 .. rank
        /\ n \in Nat /\ (rank - n) - 1 \in Nat
    OBVIOUS
  <2>2. PICK c \in [n .. rank -> Nat] :
          /\ c[n] = 1 /\ ElementCount(dims, n) = c[rank]
          /\ \A k \in n + 1 .. rank : c[k] = c[k - 1] * dims[k]
    BY <2>1, CountFacts
  <2>3. PICK e \in [n + 1 .. rank -> Nat] :
          /\ e[n + 1] = 1 /\ ElementCount(dims, n + 1) = e[rank]
          /\ \A k \in (n + 1) + 1 .. rank : e[k] = e[k - 1] * dims[k]
    BY <2>1, CountFacts
  <2>4. PICK d \in Nat : d = dims[n + 1]
    BY <2>1
  <2> DEFINE m == (rank - n) - 1
             T == {j \in 0 .. m : c[n + 1 + j] = d * e[n + 1 + j]}
  <2>5. 0 \in T
    <3>1. c[n + 1] = c[n] * d /\ (n + 1) - 1 = n /\ n + 1 \in n + 1 .. rank
      BY <2>1, <2>2, <2>4
    <3>2. 0 \in 0 .. m /\ n + 1 + 0 = n + 1
      BY <2>1
    <3> QED
      BY <2>2, <2>3, <2>4, <3>1, <3>2
  <2>6. ASSUME NEW j \in 0 .. (m - 1), j \in T
        PROVE  j + 1 \in T
    <3>1. PICK k : k = n + 1 + (j + 1)
      OBVIOUS
    <3>2. /\ k \in n + 1 .. rank /\ k \in (n + 1) + 1 .. rank /\ k - 1 = n + 1 + j
          /\ k \in 1 .. rank /\ j + 1 \in 0 .. m /\ k - 1 \in n + 1 .. rank
      BY <2>1, <3>1
    <3>3. c[k] = (d * e[k - 1]) * dims[k] /\ e[k] = e[k - 1] * dims[k]
      BY <2>2, <2>3, <2>6, <3>2
    <3>4. e[k - 1] \in Int /\ dims[k] \in Int /\ d \in Int
      BY <2>3, <3>2
    <3>5. (d * e[k - 1]) * dims[k] = d * (e[k - 1] * dims[k])
      BY ONLY <3>4, Factors, Zenon
    <3>6. c[k] = d * e[k]
      BY ONLY <3>3, <3>5, Zenon
    <3> QED
      BY <3>1, <3>2, <3>6
  <2>7. m \in Nat /\ m \in 0 .. m /\ n + 1 + m = rank
    BY <2>1
  <2>8. m \in T
    <3> HIDE DEF T, m
    <3>1. \A j \in 0 .. (m - 1) : j \in T => j + 1 \in T
      BY <2>6
    <3>2. \A j \in 0 .. m : j \in T
      BY ONLY <2>5, <2>7, <3>1, InductionUpTo
    <3> QED
      BY <2>7, <3>2
  <2> QED
    BY <2>2, <2>3, <2>4, <2>7, <2>8
<1> QED
  BY <1>1, <1>2, <1>3

(* The recursive functions in index_flattened.                              *)
StridesOf(dims, rank, g) ==
  g = [k \in 1 .. rank |-> IF k = rank THEN 1 ELSE dims[k + 1] * g[k + 1]]

SumsOf(stride, ixs, rank, g) ==
  g = [k \in 0 .. rank |-> IF k = 0 THEN 0 ELSE g[k - 1] + ixs[k] * stride[k]]

(* A step along one dimension passes all the elements of a row of the next. *)
LEMMA StridesAreCounts ==
  ASSUME NEW rank \in Nat, NEW dims \in [1 .. rank -> Nat],
         NEW g, StridesOf(dims, rank, g)
  PROVE  \A k \in 1 .. rank : g[k] = ElementCount(dims, k)
<1> DEFINE T == {j \in 0 .. rank - 1 : g[rank - j] = ElementCount(dims, rank - j)}
<1> SUFFICES ASSUME NEW k \in 1 .. rank PROVE g[k] = ElementCount(dims, k)
  OBVIOUS
<1>1. g[rank] = 1 /\ \A i \in 1 .. rank - 1 : g[i] = dims[i + 1] * g[i + 1]
  BY DEF StridesOf
<1>2. 0 \in T
  BY <1>1, ElementCounts
<1>3. ASSUME NEW j \in 0 .. ((rank - 1) - 1), j \in T
      PROVE  j + 1 \in T
  <2>1. PICK i : i = rank - (j + 1)
    OBVIOUS
  <2>2. /\ i \in 1 .. rank - 1 /\ i \in 0 .. rank - 1 /\ i + 1 = rank - j
        /\ j + 1 \in 0 .. rank - 1
    BY ONLY <2>1, rank \in Nat, j \in 0 .. ((rank - 1) - 1)
  <2>3. g[i + 1] = ElementCount(dims, i + 1)
    BY <1>3, <2>2
  <2>4. g[i] = ElementCount(dims, i)
    BY <1>1, <2>2, <2>3, ElementCounts
  <2> QED
    BY <2>1, <2>2, <2>4
<1>4. \A j \in 0 .. rank - 1 : j \in T
  <2> HIDE DEF T
  <2>1. rank - 1 \in Nat
    OBVIOUS
  <2> QED
    BY ONLY <1>2, <1>3, <2>1, InductionUpTo
<1>5. rank - k \in 0 .. rank - 1 /\ rank - (rank - k) = k
  OBVIOUS
<1> QED
  BY <1>4, <1>5

LEMMA StridesExist ==
  ASSUME NEW rank \in Nat, NEW dims \in [1 .. rank -> Nat]
  PROVE  \E g : StridesOf(dims, rank, g)
<1> DEFINE h == [k \in 1 .. rank |-> ElementCount(dims, k)]
<1>1. ASSUME NEW k \in 1 .. rank
      PROVE  h[k] = IF k = rank THEN 1 ELSE dims[k + 1] * h[k + 1]
  <2>1. CASE k = rank
    BY <2>1, ElementCounts
  <2>2. CASE k # rank
    <3>1. k \in 0 .. rank - 1 /\ k + 1 \in 1 .. rank
      BY <2>2
    <3> QED
      BY <2>2, <3>1, ElementCounts
  <2> QED
    BY <2>1, <2>2
<1>2. h = [k \in 1 .. rank |-> h[k]]
  OBVIOUS
<1> HIDE DEF h
<1> QED
  BY <1>1, <1>2 DEF StridesOf

LEMMA SumsExist ==
  ASSUME NEW rank \in Nat, NEW stride \in [1 .. rank -> Nat],
         NEW ixs \in [1 .. rank -> Nat]
  PROVE  \E g : SumsOf(stride, ixs, rank, g)
<1> DEFINE step == [k \in 1 .. rank |-> [v \in Nat |-> v + ixs[k] * stride[k]]]
<1>1. step \in [1 .. rank -> [Nat -> Nat]]
  <2>1. \A k \in 1 .. rank : ixs[k] * stride[k] \in Nat
    <3>1. \A x, y \in Nat : x * y \in Nat
      OBVIOUS
    <3> QED
      BY <3>1
  <2>2. \A k \in 1 .. rank : [v \in Nat |-> v + ixs[k] * stride[k]] \in [Nat -> Nat]
    <3>1. \A p \in Nat : [v \in Nat |-> v + p] \in [Nat -> Nat]
      OBVIOUS
    <3> QED
      BY ONLY <2>1, <3>1
  <2> QED
    BY <2>2
<1>2. PICK g \in [0 .. rank -> Nat] :
        g[0] = 0 /\ \A k \in 1 .. rank : g[k] = step[k][g[k - 1]]
  <2> HIDE DEF step
  <2>1. 0 \in Nat
    OBVIOUS
  <2> QED
    BY ONLY <1>1, <2>1, rank \in Nat, Recursion
<1>3. ASSUME NEW k \in 0 .. rank
      PROVE  g[k] = IF k = 0 THEN 0 ELSE g[k - 1] + ixs[k] * stride[k]
  <2>1. CASE k = 0
    BY <1>2, <2>1
  <2>2. CASE k # 0
    <3>1. k \in 1 .. rank /\ k - 1 \in 0 .. rank
      BY <2>2
    <3>2. g[k - 1] \in Nat
      BY <3>1
    <3> QED
      BY <1>2, <2>2, <3>1, <3>2
  <2> QED
    BY <2>1, <2>2
<1>4. g = [k \in 0 .. rank |-> g[k]]
  OBVIOUS
<1> QED
  BY <1>3, <1>4 DEF SumsOf

(* Where the block begins that the first k indices select, for each k.      *)
LEMMA AddressFacts ==
  ASSUME NEW rank \in Nat, NEW dims \in [1 .. rank -> Nat],
         NEW ixs \in [1 .. rank -> Nat]
  PROVE  \E a : /\ a[0] = 0 /\ index_flattened(dims, ixs) = a[rank]
                /\ \A k \in 0 .. rank : a[k] \in Nat
                /\ \A k \in 1 .. rank :
                     a[k] = a[k - 1] + ixs[k] * ElementCount(dims, k)
<1> DEFINE stride == CHOOSE g : StridesOf(dims, rank, g)
           sum == CHOOSE g : SumsOf(stride, ixs, rank, g)
<1>1. StridesOf(dims, rank, stride)
  BY StridesExist
<1>2. stride \in [1 .. rank -> Nat]
      /\ \A k \in 1 .. rank : stride[k] = ElementCount(dims, k)
  <2> HIDE DEF stride
  <2>1. \A k \in 1 .. rank : stride[k] = ElementCount(dims, k)
    BY <1>1, StridesAreCounts
  <2>2. stride = [k \in 1 .. rank |-> stride[k]]
    BY <1>1 DEF StridesOf
  <2>3. \A k \in 1 .. rank : stride[k] \in Nat
    <3>1. \A k \in 1 .. rank : k \in 0 .. rank
      OBVIOUS
    <3>2. \A k \in 0 .. rank : ElementCount(dims, k) \in Nat
      BY ElementCounts
    <3> QED
      BY ONLY <2>1, <3>1, <3>2
  <2> QED
    BY ONLY <2>1, <2>2, <2>3
<1>3. index_flattened(dims, ixs) = sum[rank]
  <2>1. Len(ixs) = rank
    OBVIOUS
  <2> QED
    BY <2>1 DEF index_flattened, StridesOf, SumsOf
<1> HIDE DEF stride
<1>4. SumsOf(stride, ixs, rank, sum)
  BY <1>2, SumsExist
<1> HIDE DEF sum
<1>5. sum[0] = 0 /\ \A k \in 1 .. rank : sum[k] = sum[k - 1] + ixs[k] * stride[k]
  BY <1>4 DEF SumsOf
<1> DEFINE T == {k \in 0 .. rank : sum[k] \in Nat}
<1>6. 0 \in T
  BY <1>5
<1>7. ASSUME NEW k \in 0 .. rank - 1, k \in T
      PROVE  k + 1 \in T
  <2>1. k + 1 \in 1 .. rank /\ (k + 1) - 1 = k /\ k + 1 \in 0 .. rank
    OBVIOUS
  <2>2. sum[k] \in Nat /\ ixs[k + 1] \in Nat /\ stride[k + 1] \in Nat
    BY <1>2, <1>7, <2>1
  <2>3. sum[k + 1] = sum[k] + ixs[k + 1] * stride[k + 1]
    BY <1>5, <2>1
  <2>4. \A y, z \in Nat : y * z \in Nat
    OBVIOUS
  <2>5. PICK p : p = ixs[k + 1] * stride[k + 1]
    OBVIOUS
  <2>6. p \in Nat /\ sum[k + 1] = sum[k] + p
    BY ONLY <2>2, <2>3, <2>4, <2>5, Zenon
  <2>7. sum[k + 1] \in Nat
    BY ONLY <2>2, <2>6
  <2> QED
    BY <2>1, <2>7
<1>8. \A k \in 0 .. rank : sum[k] \in Nat
  <2> HIDE DEF T
  <2>1. \A k \in 0 .. rank : k \in T
    BY ONLY <1>6, <1>7, rank \in Nat, InductionUpTo
  <2> QED
    BY <2>1 DEF T
<1> QED
  BY <1>2, <1>3, <1>5, <1>8

(* One more index selects a block within the block.                         *)
LEMMA BlockWithin ==
  ASSUME NEW x \in Nat, NEW d \in Nat, NEW row \in Nat, x < d
  PROVE  x * row \in Nat /\ d * row \in Nat /\ x * row + row <= d * row
<1>1. PICK y \in Nat : d = x + 1 + y
  <2>1. d - (x + 1) \in Nat /\ d = x + 1 + (d - (x + 1))
    OBVIOUS
  <2> QED
    BY <2>1
<1>2. y * row \in Nat /\ x * row \in Nat
  OBVIOUS
<1>3. (x + 1 + y) * row = x * row + row + y * row
  OBVIOUS
<1> QED
  BY <1>1, <1>2, <1>3

LEMMA NowWithin ==
  ASSUME NEW b \in Nat, NEW p \in Nat, NEW q \in Nat, NEW row \in Nat, p + row <= q
  PROVE  (b + p) + row <= b + q
OBVIOUS

(* Indices, filled up with 0 to the rank, that OP_GET_INDEX or              *)
(* OP_SET_INDEX_LOCAL_LONG has found to be in bounds.                       *)
InBounds(dims, ixs, n) ==
  /\ ixs \in [1 .. n -> Int]
  /\ ~is_out_of_bounds(ixs, dims)

LEMMA PaddedFacts ==
  ASSUME NEW rank \in Nat, NEW dims \in [1 .. rank -> Nat],
         NEW n \in 0 .. rank, NEW ixs, InBounds(dims, ixs, n)
  PROVE  /\ Padded(ixs, rank) \in [1 .. rank -> Nat]
         /\ \A k \in 1 .. n : Padded(ixs, rank)[k] = ixs[k] /\ ixs[k] < dims[k]
         /\ \A k \in n + 1 .. rank : Padded(ixs, rank)[k] = 0
<1>1. DOMAIN ixs = 1 .. n /\ \A k \in 1 .. n : ixs[k] \in Nat /\ ixs[k] < dims[k]
  <2>1. /\ DOMAIN ixs = 1 .. n /\ \A k \in 1 .. n : ixs[k] \in Int
        /\ \A k \in 1 .. n : ~(ixs[k] >= dims[k] \/ ixs[k] < 0)
    BY DEF InBounds, is_out_of_bounds
  <2>2. \A k \in 1 .. n : dims[k] \in Nat
    OBVIOUS
  <2> QED
    BY <2>1, <2>2
<1>2. /\ \A k \in 1 .. n : k \in 1 .. rank
      /\ \A k \in n + 1 .. rank : k \in 1 .. rank /\ k \notin 1 .. n
  OBVIOUS
<1> QED
  BY <1>1, <1>2 DEF Padded

(* Where blocks begin, and that they lie within the vector.                 *)
Blocks(dims, rank, n, ixs, a) ==
  /\ a[0] = 0
  /\ index_flattened(dims, Padded(ixs, rank)) = a[n]
  /\ \A k \in 0 .. n :
       /\ a[k] \in Nat
       /\ a[k] + ElementCount(dims, k) <= ElementCount(dims, 0)
  /\ \A k \in 1 .. n :
       /\ ixs[k] \in Nat
       /\ a[k] = a[k - 1] + ixs[k] * ElementCount(dims, k)
       /\ a[k] + ElementCount(dims, k) <= a[k - 1] + ElementCount(dims, k - 1)

LEMMA BlocksOf ==
  ASSUME NEW rank \in Nat, NEW dims \in [1 .. rank -> Nat],
         NEW n \in 0 .. rank, NEW ixs, InBounds(dims, ixs, n)
  PROVE  \E a : Blocks(dims, rank, n, ixs, a)
<1> DEFINE all == Padded(ixs, rank)
           E(k) == ElementCount(dims, k)
<1>1. /\ all \in [1 .. rank -> Nat]
      /\ \A k \in 1 .. n : all[k] = ixs[k] /\ ixs[k] < dims[k]
      /\ \A k \in n + 1 .. rank : all[k] = 0
  BY PaddedFacts
<1> HIDE DEF all
<1>2. PICK a : /\ a[0] = 0 /\ index_flattened(dims, all) = a[rank]
               /\ \A k \in 0 .. rank : a[k] \in Nat
               /\ \A k \in 1 .. rank : a[k] = a[k - 1] + all[k] * E(k)
  BY <1>1, AddressFacts
<1>3. /\ \A k \in 0 .. rank : E(k) \in Nat
      /\ \A k \in 1 .. rank : E(k - 1) = dims[k] * E(k)
  <2>1. ASSUME NEW k \in 1 .. rank PROVE E(k - 1) = dims[k] * E(k)
    <3>1. PICK j : j = k - 1
      OBVIOUS
    <3>2. j \in 0 .. rank - 1 /\ j + 1 = k
      BY <3>1
    <3>3. E(j) = dims[j + 1] * E(j + 1)
      BY <3>2, ElementCounts
    <3> QED
      BY ONLY <3>1, <3>2, <3>3
  <2> QED
    BY <2>1, ElementCounts
<1> HIDE DEF E
<1>4. ASSUME NEW k \in 1 .. n
      PROVE  /\ ixs[k] \in Nat /\ a[k] = a[k - 1] + ixs[k] * E(k)
             /\ a[k] + E(k) <= a[k - 1] + E(k - 1)
  <2>1. k \in 1 .. rank /\ k \in 0 .. rank /\ k - 1 \in 0 .. rank
    OBVIOUS
  <2>2. PICK x \in Nat, d \in Nat, row \in Nat, b \in Nat :
          /\ x = ixs[k] /\ d = dims[k] /\ row = E(k) /\ b = a[k - 1] /\ x < d
    BY <1>1, <1>2, <1>3, <2>1
  <2>3. a[k] = b + x * row /\ E(k - 1) = d * row
    BY <1>1, <1>2, <1>3, <2>1, <2>2
  <2>4. x \in Nat /\ d \in Nat /\ row \in Nat /\ b \in Nat /\ x < d
    BY ONLY <2>2
  <2>5. x * row \in Nat /\ d * row \in Nat /\ x * row + row <= d * row
    BY ONLY <2>4, BlockWithin
  <2>6. (b + x * row) + row <= b + d * row
    BY ONLY <2>4, <2>5, NowWithin
  <2>7. a[k] + row <= b + E(k - 1)
    BY ONLY <2>3, <2>6
  <2> QED
    BY <2>2, <2>3, <2>7
<1>5. ASSUME NEW k \in 0 .. n PROVE a[k] + E(k) <= E(0)
  <2> DEFINE T == {j \in 0 .. n : a[j] + E(j) <= E(0)}
  <2>1. 0 \in T
    BY <1>2, <1>3
  <2>2. ASSUME NEW j \in 0 .. n - 1, j \in T PROVE j + 1 \in T
    <3>1. /\ j + 1 \in 1 .. n /\ (j + 1) - 1 = j /\ j + 1 \in 0 .. n
          /\ j \in 0 .. rank /\ j + 1 \in 0 .. rank /\ 0 \in 0 .. rank
      OBVIOUS
    <3>2. a[j + 1] + E(j + 1) <= a[j] + E(j) /\ a[j] + E(j) <= E(0)
      BY <1>4, <2>2, <3>1
    <3>3. PICK p, q, r, t, all0 : /\ p = a[j] /\ q = E(j) /\ r = a[j + 1]
                                  /\ t = E(j + 1) /\ all0 = E(0)
      BY Zenon
    <3>4. p \in Nat /\ q \in Nat /\ r \in Nat /\ t \in Nat /\ all0 \in Nat
      BY <1>2, <1>3, <3>1, <3>3, Zenon
    <3>5. r + t <= p + q /\ p + q <= all0
      BY ONLY <3>2, <3>3, Zenon
    <3>6. r + t <= all0
      BY ONLY <3>4, <3>5
    <3>7. a[j + 1] + E(j + 1) <= E(0)
      BY ONLY <3>3, <3>6, Zenon
    <3> QED
      BY ONLY <3>1, <3>7
  <2>3. n \in Nat
    OBVIOUS
  <2> HIDE DEF T
  <2>4. \A j \in 0 .. n : j \in T
    BY ONLY <2>1, <2>2, <2>3, InductionUpTo
  <2> QED
    BY <2>4 DEF T
<1>6. a[rank] = a[n]
  <2> DEFINE T == {j \in 0 .. rank - n : a[n + j] = a[n]}
  <2>1. 0 \in T
    OBVIOUS
  <2>2. ASSUME NEW j \in 0 .. ((rank - n) - 1), j \in T PROVE j + 1 \in T
    <3>1. PICK k : k = n + (j + 1)
      OBVIOUS
    <3>2. /\ k \in n + 1 .. rank /\ k \in 1 .. rank /\ k - 1 = n + j
          /\ k - 1 \in 0 .. rank /\ k \in 0 .. rank
      BY ONLY <3>1, rank \in Nat, n \in 0 .. rank, j \in 0 .. ((rank - n) - 1)
    <3>3. j + 1 \in 0 .. rank - n
      BY ONLY rank \in Nat, n \in 0 .. rank, j \in 0 .. ((rank - n) - 1)
    <3>4. a[k] = a[k - 1] + 0 * E(k) /\ a[k - 1] \in Nat /\ E(k) \in Nat
      BY <1>1, <1>2, <1>3, <3>2
    <3>5. a[k] = a[k - 1]
      BY ONLY <3>4
    <3> QED
      BY <2>2, <3>1, <3>2, <3>3, <3>5
  <2>3. rank - n \in Nat /\ n + (rank - n) = rank /\ rank - n \in 0 .. rank - n
    OBVIOUS
  <2> HIDE DEF T
  <2>4. \A j \in 0 .. rank - n : j \in T
    BY ONLY <2>1, <2>2, <2>3, InductionUpTo
  <2> QED
    BY <2>3, <2>4 DEF T
<1>7. \A k \in 0 .. n : k \in 0 .. rank
  OBVIOUS
<1>8. /\ a[0] = 0 /\ index_flattened(dims, Padded(ixs, rank)) = a[n]
      /\ \A k \in 0 .. n : a[k] \in Nat
  BY <1>2, <1>6, <1>7 DEF all
<1> QED
  BY <1>4, <1>5, <1>8 DEF E, Blocks

(* An index that is_out_of_bounds lets pass selects elements of the vector  *)
(* only: the first is not below it and the last not above, for every rank,  *)
(* all dimensions and as many indices as there may be.                      *)
THEOREM ElementsInVector ==
  ASSUME NEW rank \in Nat, NEW dims \in [1 .. rank -> Nat],
         NEW n \in 0 .. rank, NEW ixs, InBounds(dims, ixs, n)
  PROVE  LET first == index_flattened(dims, Padded(ixs, rank))
         IN  first \in Nat /\ first + ElementCount(dims, n) <= ElementCount(dims, 0)
<1>1. n \in 0 .. n
  OBVIOUS
<1>2. PICK a : Blocks(dims, rank, n, ixs, a)
  BY BlocksOf
<1> QED
  BY <1>1, <1>2 DEF Blocks

LEMMA StillApart ==
  ASSUME NEW a0 \in Nat, NEW b0 \in Nat, NEW e0 \in Nat, NEW e1 \in Nat,
         NEW p \in Nat, NEW q \in Nat,
         (a0 + p) + e1 <= a0 + e0, (b0 + q) + e1 <= b0 + e0
  PROVE  /\ a0 + e0 <= b0 => (a0 + p) + e1 <= b0 + q
         /\ b0 + e0 <= a0 => (b0 + q) + e1 <= a0 + p
OBVIOUS

LEMMA NowApart ==
  ASSUME NEW c \in Nat, NEW p \in Nat, NEW q \in Nat, NEW row \in Nat
  PROVE  /\ p + row <= q => (c + p) + row <= c + q
         /\ q + row <= p => (c + q) + row <= c + p
OBVIOUS

(* Different indices select different elements, and different rows have no  *)
(* element in common.                                                       *)
THEOREM ElementsApart ==
  ASSUME NEW rank \in Nat, NEW dims \in [1 .. rank -> Nat],
         NEW n \in 0 .. rank, NEW ixs, NEW jxs,
         InBounds(dims, ixs, n), InBounds(dims, jxs, n), ixs # jxs
  PROVE  LET first(s) == index_flattened(dims, Padded(s, rank))
             count    == ElementCount(dims, n)
         IN  \/ first(ixs) + count <= first(jxs)
             \/ first(jxs) + count <= first(ixs)
<1> DEFINE E(k) == ElementCount(dims, k)
<1>1. PICK a : Blocks(dims, rank, n, ixs, a)
  BY BlocksOf
<1>2. PICK b : Blocks(dims, rank, n, jxs, b)
  BY BlocksOf
<1>3. \A k \in 0 .. n : E(k) \in Nat
  BY ElementCounts
<1>4. /\ a[0] = 0 /\ index_flattened(dims, Padded(ixs, rank)) = a[n]
      /\ \A k \in 0 .. n : a[k] \in Nat
      /\ \A k \in 1 .. n : /\ ixs[k] \in Nat
                           /\ a[k] = a[k - 1] + ixs[k] * E(k)
                           /\ a[k] + E(k) <= a[k - 1] + E(k - 1)
  BY <1>1 DEF Blocks
<1>5. /\ b[0] = 0 /\ index_flattened(dims, Padded(jxs, rank)) = b[n]
      /\ \A k \in 0 .. n : b[k] \in Nat
      /\ \A k \in 1 .. n : /\ jxs[k] \in Nat
                           /\ b[k] = b[k - 1] + jxs[k] * E(k)
                           /\ b[k] + E(k) <= b[k - 1] + E(k - 1)
  BY <1>2 DEF Blocks
<1> HIDE DEF E
(* Once an index differs, the blocks are apart, and so they stay.           *)
<1> DEFINE Apart(k) == a[k] + E(k) <= b[k] \/ b[k] + E(k) <= a[k]
           Same(k) == a[k] = b[k] /\ \A i \in 1 .. k : ixs[i] = jxs[i]
           T == {k \in 0 .. n : Apart(k) \/ Same(k)}
<1>6. 0 \in T
  BY <1>4, <1>5
<1>7. ASSUME NEW j \in 0 .. n - 1, j \in T PROVE j + 1 \in T
  <2>1. PICK k : k = j + 1
    OBVIOUS
  <2>2. k \in 1 .. n /\ k \in 0 .. n /\ j \in 0 .. n /\ k - 1 = j
    BY ONLY <2>1, n \in 0 .. rank, rank \in Nat, j \in 0 .. n - 1
  <2>3. /\ a[k] = a[j] + ixs[k] * E(k) /\ a[k] + E(k) <= a[j] + E(j)
        /\ b[k] = b[j] + jxs[k] * E(k) /\ b[k] + E(k) <= b[j] + E(j)
    BY <1>4, <1>5, <2>2
  <2>4. /\ a[k] \in Nat /\ b[k] \in Nat /\ a[j] \in Nat /\ b[j] \in Nat
        /\ E(k) \in Nat /\ E(j) \in Nat /\ ixs[k] \in Nat /\ jxs[k] \in Nat
    BY <1>4, <1>5, <1>3, <2>2
  <2>5. \A x, row \in Nat : x * row \in Nat
    OBVIOUS
  <2>6. CASE Apart(j)
    <3>1. ixs[k] * E(k) \in Nat /\ jxs[k] * E(k) \in Nat
      BY <2>4, <2>5
    <3>2. PICK p \in Nat, q \in Nat : p = ixs[k] * E(k) /\ q = jxs[k] * E(k)
      BY <3>1
    <3>3. a[k] = a[j] + p /\ b[k] = b[j] + q
      BY ONLY <2>3, <3>2
    <3>4. (a[j] + p) + E(k) <= a[j] + E(j) /\ (b[j] + q) + E(k) <= b[j] + E(j)
      BY ONLY <2>3, <3>3
    <3>5. /\ a[j] + E(j) <= b[j] => (a[j] + p) + E(k) <= b[j] + q
          /\ b[j] + E(j) <= a[j] => (b[j] + q) + E(k) <= a[j] + p
      BY ONLY <2>4, <3>2, <3>4, StillApart
    <3>6. Apart(k)
      BY <2>6, <3>3, <3>5
    <3> QED
      BY <2>1, <2>2, <3>6
  <2>7. CASE Same(j) /\ ixs[k] = jxs[k]
    <3>1. a[k] = b[k]
      BY <2>3, <2>7
    <3>2. \A i \in 1 .. k : i \in 1 .. j \/ i = k
      BY <2>2
    <3> QED
      BY <2>1, <2>2, <2>7, <3>1, <3>2
  <2>8. CASE Same(j) /\ ixs[k] # jxs[k]
    <3>1. PICK x \in Nat, y \in Nat, row \in Nat, c \in Nat :
            x = ixs[k] /\ y = jxs[k] /\ row = E(k) /\ c = a[j]
      BY <2>4
    <3>2. a[k] = c + x * row /\ b[k] = c + y * row /\ x # y
      BY <2>3, <2>8, <3>1
    <3>3. x * row \in Nat /\ y * row \in Nat
      BY ONLY <3>1, <2>5
    <3>4. x < y => x * row + row <= y * row
      BY ONLY <3>1, BlockWithin
    <3>5. y < x => y * row + row <= x * row
      BY ONLY <3>1, BlockWithin
    <3>6. x < y \/ y < x
      BY ONLY <3>1, <3>2
    <3>7. PICK p \in Nat, q \in Nat : p = x * row /\ q = y * row
      BY <3>3
    <3>8. p + row <= q \/ q + row <= p
      BY ONLY <3>4, <3>5, <3>6, <3>7
    <3>9. a[k] = c + p /\ b[k] = c + q
      BY ONLY <3>2, <3>7
    <3>10. a[k] + row <= b[k] \/ b[k] + row <= a[k]
      <4>1. /\ p + row <= q => (c + p) + row <= c + q
            /\ q + row <= p => (c + q) + row <= c + p
        BY <3>1, <3>7, NowApart, Zenon
      <4> QED
        BY ONLY <3>8, <3>9, <4>1
    <3> QED
      BY <2>1, <2>2, <3>1, <3>10
  <2> QED
    BY <1>7, <2>6, <2>7, <2>8
<1>8. n \in T
  <2>1. n \in Nat /\ n \in 0 .. n
    OBVIOUS
  <2> HIDE DEF T
  <2>2. \A k \in 0 .. n : k \in T
    BY ONLY <1>6, <1>7, <2>1, InductionUpTo
  <2> QED
    BY <2>1, <2>2
<1>9. ~ \A i \in 1 .. n : ixs[i] = jxs[i]
  BY DEF InBounds
<1>10. Apart(n)
  BY <1>8, <1>9
<1> QED
  BY <1>4, <1>5, <1>10 DEF E

-----------------------------------------------------------------------------
(* Assignments to elements.                                                *)

(* RETURN and the assignment of an element have one handler each.           *)
LEMMA OnlyHandlers ==
  ASSUME Step \/ Read, Op \in Opcodes, InCode(0), InCode(OperandBytes(Op))
  PROVE  /\ Op = OP_RETURN => Return
         /\ Op = OP_SET_INDEX_LOCAL_LONG => SetIndexLocal
<1> USE DEF OP_RETURN, OP_SET_INDEX_LOCAL_LONG
<1>1. CASE LoadConstant \/ LocAlink \/ PushByte
  BY <1>1 DEF LoadConstant, LocAlink, PushByte, Fetch, OP_LOCI_LONG,
     OP_LOCS_LONG, OP_LOCF_LONG, OP_LOC_ALINK_LONG, OP_PUSH_BYTE
<1>2. CASE Zero \/ One \/ PushFalse \/ PushTrue \/ EmptyString
  <2>1. \E op \in {OP_ZERO, OP_ONE, OP_FALSE, OP_TRUE, OP_EMPTY_STRING} :
          Fetch(op)
    BY <1>2, Zenon DEF Zero, One, PushFalse, PushTrue, EmptyString
  <2> QED
    BY <2>1 DEF Fetch, OP_ZERO, OP_ONE, OP_FALSE, OP_TRUE, OP_EMPTY_STRING
<1>3. CASE Addi \/ Subi \/ Muli \/ Divi
  BY <1>3 DEF Addi, Subi, Muli, Divi, Fetch, OP_ADDI, OP_SUBI, OP_MULI, OP_DIVI
<1>4. CASE Compare
  BY <1>4 DEF Compare, Fetch, OP_GRT, OP_GRTEQ, OP_LT, OP_LEQ
<1>5. CASE Equa \/ Not \/ Skip \/ SkipBack \/ SkipF
  BY <1>5 DEF Equa, Not, Skip, SkipBack, SkipF, Fetch, OP_EQUA, OP_NOT,
     OP_SKIP_LONG, OP_SKIP_BACK_LONG, OP_SKIPF_LONG
<1>6. CASE Popv \/ Popa \/ PopToAstack \/ AstackShiftUp
  BY <1>6 DEF Popv, Popa, PopToAstack, AstackShiftUp, Fetch, OP_POPV, OP_POPA,
     OP_POP_TO_ASTACK, OP_ASTACK_SHIFT_UP
<1>7. CASE GetLocal \/ SetLocal \/ GetIndex
  BY <1>7 DEF GetLocal, SetLocal, GetIndex, Fetch,
     OP_GET_LOCAL_LONG, OP_SET_LOCAL_LONG, OP_GET_INDEX
<1>8. CASE Write \/ Newline \/ Call \/ ShiftAstackentToBase
  BY <1>8 DEF Write, Newline, Call, ShiftAstackentToBase, Fetch, OP_WRITE,
     OP_NEWLINE, OP_CALL, OP_SHIFT_ASTACKENT_TO_BASE
<1>9. CASE ArgstackLoad \/ ArgstackPeek \/ ArgstackUnload
  BY <1>9 DEF ArgstackLoad, ArgstackPeek, ArgstackUnload, Fetch,
     OP_ARGSTACK_LOAD, OP_ARGSTACK_PEEK, OP_ARGSTACK_UNLOAD
<1>10. CASE Halt \/ BadCode \/ Read
  <2>1. ~BadCode
    BY DEF BadCode, LeftCode
  <2>2. Fetch(OP_HALT) \/ Fetch(OP_READ)
    BY <1>10, <2>1 DEF Halt, Read
  <2> QED
    BY <2>2 DEF Fetch, OP_HALT, OP_READ
<1>11. CASE SetIndexLocal
  <2>1. Fetch(OP_SET_INDEX_LOCAL_LONG)
    BY <1>11 DEF SetIndexLocal
  <2> QED
    BY <1>11, <2>1 DEF Fetch
<1>12. CASE Return
  <2>1. Fetch(OP_RETURN)
    BY <1>12 DEF Return
  <2> QED
    BY <1>12, <2>1 DEF Fetch
<1> QED
  BY <1>1, <1>2, <1>3, <1>4, <1>5, <1>6, <1>7, <1>8, <1>9, <1>10, <1>11,
     <1>12 DEF Step


(* The vector that OP_SET_INDEX_LOCAL_LONG is about to store into, as it    *)
(* finds it on the stacks.                                                  *)
VectorStoredInto == Slot(framestack[FrameAt(ArgLong(1))].base + ArgLong(3))

(* An element, or a row that is no longer than the row it replaces, goes     *)
(* into its vector: no cell outside of it changes.                          *)
StoresInVector ==
  LET n    == Arg(5)
      rank == Arg(6)
      dims == Dimensions(rank)
      vec  == VectorStoredInto
      val  == peekv(rank + n + 1)
  IN  /\ Fetch(OP_SET_INDEX_LOCAL_LONG)
      /\ dims \in [1 .. rank -> Nat]
      /\ n < rank => val.n <= ElementCount(dims, n)
      => \A c \in CellIndex :
           \/ vec.i <= c /\ c < vec.i + ElementCount(dims, 0)
           \/ astack'[c] = astack[c]

LEMMA SetIndexLocalStores ==
  ASSUME IInv, SetIndexLocal
  PROVE  StoresInVector
<1> DEFINE f     == FrameAt(ArgLong(1))
           n     == Arg(5)
           rank  == Arg(6)
           dims  == Dimensions(rank)
           ixs   == Indices(n, rank)
           val   == peekv(rank + n + 1)
           sp    == SP - rank - n
           vec   == VectorStoredInto
           first == index_flattened(dims, Padded(ixs, rank))
           start == vec.i + first
           count == IF n = rank THEN 1 ELSE val.n
<1> SUFFICES ASSUME dims \in [1 .. rank -> Nat],
                    n < rank => val.n <= ElementCount(dims, n),
                    NEW c \in CellIndex, astack'[c] # astack[c]
             PROVE  vec.i <= c /\ c < vec.i + ElementCount(dims, 0)
  BY DEF StoresInVector
<1>1. Fetch(OP_SET_INDEX_LOCAL_LONG)
  BY DEF SetIndexLocal
<1>2. /\ n \in Nat /\ rank \in Nat /\ val \in Value
      /\ \A k : peekv(k) \in Value
  BY <1>1, HandlerFacts, Operands
<1>3. astack \in [CellIndex -> Value]
  BY DEF IInv, TypeOK
<1>4. ixs \in [1 .. n -> Int]
  BY <1>2, ValueFields DEF Indices
<1>5. vec.i \in Int /\ val.i \in Int /\ val.n \in Int
  BY <1>1, <1>2, HandlerFacts, ValueFields DEF VectorStoredInto
<1>6. /\ ~(f \notin FrameIndex \/ sp < 0 \/ n > rank)
      /\ ~is_out_of_bounds(ixs, dims)
      /\ ~(sp < 1 \/ ~InStack(start, count))
      /\ astack' = IF n = rank THEN [astack EXCEPT ![start] = val]
                   ELSE CopyCells(astack, start, val.i, val.n)
  BY DEF SetIndexLocal, runtime_error, Wild, VectorStoredInto
<1> HIDE DEF f, n, rank, dims, ixs, val, sp, vec, first
<1>7. n \in 0 .. rank /\ InBounds(dims, ixs, n)
  BY <1>2, <1>4, <1>6 DEF InBounds
<1>8. first \in Nat /\ first + ElementCount(dims, n) <= ElementCount(dims, 0)
  BY <1>2, <1>7, ElementsInVector DEF first
<1>9. /\ ElementCount(dims, n) \in Nat /\ ElementCount(dims, 0) \in Nat
      /\ n = rank => ElementCount(dims, n) = 1
  <2>1. 0 \in 0 .. rank
    BY <1>2
  <2> QED
    BY <1>2, <1>7, <2>1, ElementCounts
<1>10. c \in Int /\ start <= c /\ c < start + count
  <2>1. CASE n = rank
    BY <1>3, <1>5, <1>6, <1>8, <2>1 DEF CellIndex
  <2>2. CASE n # rank
    BY <1>3, <1>5, <1>6, <1>8, <2>2 DEF CellIndex, CopyCells
  <2> QED
    BY <2>1, <2>2
<1>11. count \in Int /\ count <= ElementCount(dims, n)
  <2>1. CASE n = rank
    BY <1>9, <2>1
  <2>2. CASE n # rank
    <3>1. n < rank
      BY <1>2, <1>7, <2>2
    <3> QED
      BY <1>5, <2>2, <3>1
  <2> QED
    BY <2>1, <2>2
<1> HIDE DEF start, count
<1>12. start = vec.i + first
  BY DEF start
<1>13. PICK v, row, all : /\ v = vec.i /\ v \in Int
                          /\ row = ElementCount(dims, n) /\ row \in Nat
                          /\ all = ElementCount(dims, 0) /\ all \in Nat
  BY <1>5, <1>9
<1>14. /\ first \in Nat /\ first + row <= all /\ start = v + first
       /\ c \in Int /\ start <= c /\ c < start + count
       /\ count \in Int /\ count <= row
  BY <1>8, <1>10, <1>11, <1>12, <1>13
<1>15. v <= c /\ c < v + all
  BY ONLY <1>13, <1>14
<1> QED
  BY <1>13, <1>15

(* Whatever the code, an assignment to an element or a row of a vector       *)
(* stays within the vector that it is given: the index check and the        *)
(* flattening of the index (vm.c:187, value.c:383) suffice for every rank.   *)
THEOREM VMStoresInVector == Spec => [][StoresInVector]_vars
<1>1. Spec => []IInv
  BY InitIInv, NextIInv, PTL DEF Spec
<1>2. IInv /\ [Next]_vars => [StoresInVector]_vars
  <2> SUFFICES ASSUME IInv, Next, Fetch(OP_SET_INDEX_LOCAL_LONG)
               PROVE  StoresInVector
    BY DEF StoresInVector
  <2>1. status = "run" /\ Op = OP_SET_INDEX_LOCAL_LONG /\ InCode(0)
        /\ InCode(OperandBytes(Op))
    BY DEF Fetch
  <2>2. Step \/ Read
    BY <2>1 DEF Next, Execute, Returned
  <2>3. Op \in Opcodes
    BY <2>1 DEF Opcodes, OP_SET_INDEX_LOCAL_LONG, OP_LOCI_LONG, OP_HALT
  <2> QED
    BY <2>1, <2>2, <2>3, OnlyHandlers, SetIndexLocalStores
<1> QED
  BY <1>1, <1>2, PTL DEF Spec
=============================================================================
