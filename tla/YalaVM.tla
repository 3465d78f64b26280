------------------------------- MODULE YalaVM -------------------------------
(***************************************************************************)
(* The virtual machine (vm/vm.c, vm/vm.h): value stack, array stack, frame *)
(* stack, argument stack and the instruction loop of vm_run.               *)
(*                                                                         *)
(* Memory is modelled as the arrays of struct vm and indices into them;    *)
(* framese, sp, stackbase, asp, argsp and argasp are those indices.        *)
(* The machine is started on an image of one of Programs; a bytecode       *)
(* object is an index into fns of the image, so a function value is such   *)
(* an index and an envindex.  Each action is one turn of the loop of       *)
(* vm_run: fetch, decode, execute.  Line information is left out.          *)
(*                                                                         *)
(* status says how the loop goes on: "run"; "error" after runtime_error    *)
(* (the rest of the handler still takes effect); "halt"; "abort" for       *)
(* exit(100) and for the signal a division raises whose quotient is no     *)
(* int; "wild" when the handler reads or writes through a pointer outside  *)
(* of the object it belongs to, after which nothing is promised.           *)
(***************************************************************************)
EXTENDS ImageFormat, FiniteSets

CONSTANTS
  StackMax,   \* STACK_MAX: cells of stack and astack, frames of framestack
  ReadInts    \* the integers a line of input may stand for

ASSUME SizesAssumption == StackMax \in Nat \ {0}

ASSUME InputAssumption == ReadInts \subseteq Int

VARIABLES
  image,       \* the image that is run (never changes)
  framese,     \* index of the current frame in framestack
  framestack,  \* [ip, sp, base, asp, fn, env] for every frame
  stack,       \* the value stack
  astack,      \* the array stack
  argstack,    \* the argument stack, values being copied out of a call
  argsp,       \* its first free cell
  argasp,      \* lowest cell of astack that holds a vector of argstack
  status,
  output,      \* what was printed, in order
  input        \* what was read, in order

vars == << image, framese, framestack, stack, astack, argstack, argsp, argasp,
           status, output, input >>

(* One frame more than the array has: see CALL.                            *)
FrameIndex == 0 .. StackMax
CellIndex  == 0 .. (StackMax - 1)

Statuses == {"run", "error", "halt", "abort", "wild"}

Frame == framestack[framese]
IP  == Frame.ip
SP  == Frame.sp
ASP == Frame.asp
Code      == image.fns[Frame.fn].code
Constants == image.fns[Frame.fn].constants

-----------------------------------------------------------------------------
(* Instruction decoding: advance_ip and advance_long_ip.                   *)

InCode(k) == 0 <= IP /\ IP + k < Len(Code)
Op        == Code[IP + 1]
Arg(k)    == Code[IP + 1 + k]
ArgLong(k) == join_bytes(Arg(k), Arg(k + 1))

(* The handler of op: its opcode and operands lie within the code.         *)
Fetch(op) == status = "run" /\ InCode(0) /\ Op = op /\ InCode(OperandBytes(op))

(* ip after the current instruction.                                       *)
NextIP == IP + 1 + OperandBytes(Op)

-----------------------------------------------------------------------------
(* Stack access.                                                           *)

Slot(a)   == Cell(stack, a)
peekv(k)  == Slot(SP - k)
InStack(a, n)  == 0 <= a /\ a + n <= StackMax

(* No vector is larger than the array stack: a size beyond it is as good    *)
(* as any other such size, every handler fails on it.                       *)
Capped(size) == IF size \in 0 .. StackMax THEN size ELSE StackMax + 1

(* The current frame continues at ip with its stack pointers at sp, asp.   *)
Resume(ip, sp, asp) ==
  framestack' = [framestack EXCEPT ![framese] =
                   [@ EXCEPT !.ip = ip, !.sp = sp, !.asp = asp]]

Wild == /\ status' = "wild"
        /\ UNCHANGED << framese, framestack, stack, astack, argstack, argsp,
                        argasp, output >>

(* Slips in pushv: one cell too many; nothing said of the end of the stack. *)
pushv_OneTooMany(ip, sp, asp, v) ==
  /\ UNCHANGED << framese, astack, argstack, argsp, argasp, output >>
  /\ IF sp > StackMax
     THEN Resume(ip, sp, asp) /\ status' = "error" /\ UNCHANGED stack
     ELSE /\ Resume(ip, sp + 1, asp)
          /\ stack' = [stack EXCEPT ![sp] = v]
          /\ UNCHANGED status

pushv_Silent(ip, sp, asp, v) ==
  /\ UNCHANGED << framese, astack, argstack, argsp, argasp, status, output >>
  /\ Resume(ip, IF sp < StackMax THEN sp + 1 ELSE sp, asp)
  /\ stack' = [stack EXCEPT ![sp] = v]

(* The tail of a handler that has popped down to sp and pushes v.          *)
pushv(ip, sp, asp, v) ==
  IF sp < 0 THEN Wild
  ELSE /\ UNCHANGED << framese, astack, argstack, argsp, argasp, output >>
       /\ IF sp >= StackMax
          THEN Resume(ip, sp, asp) /\ status' = "error" /\ UNCHANGED stack
          ELSE /\ Resume(ip, sp + 1, asp)
               /\ stack' = [stack EXCEPT ![sp] = v]
               /\ UNCHANGED status

(* The tail of a handler that only moves pointers.                         *)
Goto(ip, sp, asp) ==
  /\ Resume(ip, sp, asp)
  /\ UNCHANGED << framese, stack, astack, argstack, argsp, argasp, status,
                  output >>

(* runtime_error in a handler that has popped down to sp.                  *)
runtime_error(sp) ==
  /\ Resume(NextIP, sp, ASP)
  /\ status' = "error"
  /\ UNCHANGED << framese, stack, astack, argstack, argsp, argasp, output >>

-----------------------------------------------------------------------------
(* vm_init: the frame of the program's root bytecode, empty stacks.        *)

root == 1

NoFrame == [ip |-> 0, sp |-> 0, base |-> 0, asp |-> 0, fn |-> root, env |-> 0]

Init ==
  /\ \E p \in Programs : image \in Images(p)
  /\ framese = 0
  /\ framestack = [f \in FrameIndex |-> NoFrame]
  /\ stack  = [c \in CellIndex |-> Junk]
  /\ astack = [c \in CellIndex |-> Junk]
  /\ argstack = [c \in 0 .. (MaxArity - 1) |-> Junk]
  /\ argsp  = 0
  /\ argasp = StackMax
  /\ status = "run"
  /\ output = << >>
  /\ input  = << >>

-----------------------------------------------------------------------------
(* Constants.                                                              *)

LoadConstant ==
  /\ \E op \in {OP_LOCI_LONG, OP_LOCS_LONG, OP_LOCF_LONG} : Fetch(op)
  /\ LET address == ArgLong(1) + 1
     IN  IF address \notin DOMAIN Constants THEN Wild
         ELSE pushv(NextIP, SP, ASP, Constants[address])

(* The constant of a vector literal is its size; the vector is the cells    *)
(* that were last pushed on the array stack.  (The handler also stores      *)
(* astackent in the constant, where nothing else reads it.)                 *)
LocAlink ==
  /\ Fetch(OP_LOC_ALINK_LONG)
  /\ LET address == ArgLong(1) + 1
     IN  IF address \notin DOMAIN Constants THEN Wild
         ELSE LET size == Constants[address].n
              IN  pushv(NextIP, SP, ASP, VecV(ASP - size, size))

PushByte    == Fetch(OP_PUSH_BYTE) /\ pushv(NextIP, SP, ASP, IntV(Arg(1)))
Zero        == Fetch(OP_ZERO)  /\ pushv(NextIP, SP, ASP, IntV(0))
One         == Fetch(OP_ONE)   /\ pushv(NextIP, SP, ASP, IntV(1))
PushFalse   == Fetch(OP_FALSE) /\ pushv(NextIP, SP, ASP, BoolV(FALSE))
PushTrue    == Fetch(OP_TRUE)  /\ pushv(NextIP, SP, ASP, BoolV(TRUE))
EmptyString == Fetch(OP_EMPTY_STRING) /\ pushv(NextIP, SP, ASP, StrV(1))

-----------------------------------------------------------------------------
(* Arithmetic, comparison and logic on the topmost values.                 *)

Addi == /\ Fetch(OP_ADDI)
        /\ pushv(NextIP, SP - 2, ASP, IntV(Wrap(peekv(2).i + peekv(1).i)))

Subi == /\ Fetch(OP_SUBI)
        /\ pushv(NextIP, SP - 2, ASP, IntV(Wrap(peekv(2).i - peekv(1).i)))

Muli == /\ Fetch(OP_MULI)
        /\ pushv(NextIP, SP - 2, ASP, IntV(Wrap(peekv(2).i * peekv(1).i)))

Abort == /\ status' = "abort"
         /\ UNCHANGED << framese, framestack, stack, astack, argstack, argsp,
                         argasp, output >>

Divi == /\ Fetch(OP_DIVI)
        /\ IF peekv(1).i = 0 THEN runtime_error(SP - 2)
           ELSE LET q == TruncDiv(peekv(2).i, peekv(1).i)
                IN  IF q > IntMax THEN Abort
                    ELSE pushv(NextIP, SP - 2, ASP, IntV(q))

(* A slip in Holds: less or equal taken for less.                          *)
Holds_Strict(op, sign) ==
  \/ op \in {OP_GRT, OP_GRTEQ} /\ sign > 0
  \/ op \in {OP_LT, OP_LEQ} /\ sign < 0

(* How each ordering opcode reads the sign compare_values returned.        *)
Holds(op, sign) ==
  \/ op = OP_GRT   /\ sign > 0
  \/ op = OP_GRTEQ /\ sign >= 0
  \/ op = OP_LT    /\ sign < 0
  \/ op = OP_LEQ   /\ sign <= 0

Compare ==
  /\ \E op \in {OP_GRT, OP_GRTEQ, OP_LT, OP_LEQ} : Fetch(op)
  /\ IF ~Comparable(Arg(1)) THEN Abort
     ELSE \E sign \in compare_values(peekv(2), peekv(1), Arg(1)) :
            pushv(NextIP, SP - 2, ASP, BoolV(Holds(Op, sign)))

Equa ==
  /\ Fetch(OP_EQUA)
  /\ IF Arg(1) \notin VAL_INTEGER .. VAL_FUNCTION THEN Abort
     ELSE \E b \in values_equal(astack, peekv(2), peekv(1), Arg(1), Arg(2)) :
            pushv(NextIP, SP - 2, ASP, BoolV(b))

Not == Fetch(OP_NOT) /\ pushv(NextIP, SP - 1, ASP, BoolV(peekv(1).i = 0))

-----------------------------------------------------------------------------
(* Jumps.  OP_SKIPF_LONG leaves the condition on the stack.                *)

Skip     == Fetch(OP_SKIP_LONG) /\ Goto(NextIP + ArgLong(1), SP, ASP)
SkipBack == Fetch(OP_SKIP_BACK_LONG) /\ Goto(NextIP - ArgLong(1), SP, ASP)
SkipF    == /\ Fetch(OP_SKIPF_LONG)
            /\ Goto(NextIP + (IF peekv(1).i = 0 THEN ArgLong(1) ELSE 0), SP, ASP)

-----------------------------------------------------------------------------
(* The value stack and the array stack.                                    *)

Popv == Fetch(OP_POPV) /\ Goto(NextIP, SP - 1, ASP)

(* popa: a loop that counts up to size.                                    *)
Popped(size) == IF size > 0 THEN size ELSE 0

Popa == Fetch(OP_POPA) /\ Goto(NextIP, SP - 1, ASP - Popped(peekv(1).n))

(* A slip in PopToAstack: a full array stack takes no more, and no error.  *)
PopToAstack_Silent ==
  /\ Fetch(OP_POP_TO_ASTACK)
  /\ Resume(NextIP, SP - 1, IF ASP < StackMax THEN ASP + 1 ELSE ASP)
  /\ astack' = [astack EXCEPT ![ASP] = peekv(1)]
  /\ UNCHANGED << framese, stack, argstack, argsp, argasp, status, output >>

(* pusha has no lower bound: below the array stack it writes elsewhere.    *)
PopToAstack ==
  /\ Fetch(OP_POP_TO_ASTACK)
  /\ IF ASP >= StackMax THEN runtime_error(SP - 1)
     ELSE IF ASP < 0 THEN Wild
     ELSE /\ Resume(NextIP, SP - 1, ASP + 1)
          /\ astack' = [astack EXCEPT ![ASP] = peekv(1)]
          /\ UNCHANGED << framese, stack, argstack, argsp, argasp, status,
                          output >>

(* asp_move_up: room for a vector whose cells are not initialised.         *)
AstackShiftUp ==
  /\ Fetch(OP_ASTACK_SHIFT_UP)
  /\ LET size == peekv(1).i
     IN  IF ASP + size > StackMax THEN runtime_error(SP - 1)
         ELSE Goto(NextIP, SP - 1, ASP + size)

-----------------------------------------------------------------------------
(* Locals.  The frame of a variable offset levels out is looked for at      *)
(* framestack[envindex - offset]; offset 0 is the current frame.            *)

FrameAt(offset) == IF offset = 0 THEN framese ELSE Frame.env - offset

GetLocal ==
  /\ Fetch(OP_GET_LOCAL_LONG)
  /\ LET f == FrameAt(ArgLong(1))
     IN  IF f \notin FrameIndex THEN Wild
         ELSE pushv(NextIP, SP, ASP, Slot(framestack[f].base + ArgLong(3)))

SetLocal ==
  /\ Fetch(OP_SET_LOCAL_LONG)
  /\ LET f    == FrameAt(ArgLong(1))
         slot == framestack[f].base + ArgLong(3)
     IN  IF f \notin FrameIndex THEN Wild
         ELSE IF ~InStack(slot, 1) THEN Wild
         ELSE /\ Resume(NextIP, SP - 1, ASP)
              /\ stack' = [stack EXCEPT ![slot] = peekv(1)]
              /\ UNCHANGED << framese, astack, argstack, argsp, argasp,
                              status, output >>

-----------------------------------------------------------------------------
(* Vector elements.  The indices, then the dimensions of the vector, are    *)
(* the topmost values.                                                      *)

Dimensions(rank)  == [k \in 1 .. rank |-> peekv(rank + 1 - k).i]
Indices(n, rank)  == [k \in 1 .. n |-> peekv(rank + n + 1 - k).i]

is_out_of_bounds(indices, dimensions) ==
  \E k \in DOMAIN indices : indices[k] >= dimensions[k] \/ indices[k] < 0

(* A prefix of the indices stands for the first element of the subvector.  *)
Padded(indices, rank) ==
  [k \in 1 .. rank |-> IF k \in DOMAIN indices THEN indices[k] ELSE 0]

(* Elements of the subvector that n indices select.                        *)
ElementCount(dimensions, n) ==
  LET rank == Len(dimensions)
      count[k \in n .. rank] ==
        IF k = n THEN 1 ELSE count[k - 1] * dimensions[k]
  IN  count[rank]

(* The values an element read as a scalar may turn out to be.              *)
Loaded(v) == IF v.t = "junk" THEN {IntV(x) : x \in AnyInt} ELSE {v}

GetIndex ==
  /\ Fetch(OP_GET_INDEX)
  /\ LET n     == Arg(1)
         rank  == Arg(2)
         dims  == Dimensions(rank)
         ixs   == Indices(n, rank)
         vec   == peekv(rank + n + 1)
         sp    == SP - rank - n - 1
         start == vec.i + index_flattened(dims, Padded(ixs, rank))
         count == Capped(ElementCount(dims, n))
     IN  IF sp < 0 \/ n > rank THEN Wild
         ELSE IF is_out_of_bounds(ixs, dims) THEN runtime_error(sp)
         ELSE IF n = rank
         THEN \E v \in Loaded(Cell(astack, start)) : pushv(NextIP, sp, ASP, v)
         ELSE IF ASP < 0 THEN Wild
         ELSE LET room == IF ASP + count <= StackMax THEN count
                          ELSE StackMax - ASP
              IN  /\ Resume(NextIP, sp + 1, ASP + room)
                  /\ astack' = CopyCells(astack, ASP, start, room)
                  /\ stack' = [stack EXCEPT
                                 ![sp] = VecV(ASP + room - count, count)]
                  /\ status' = IF room < count THEN "error" ELSE status
                  /\ UNCHANGED << framese, argstack, argsp, argasp, output >>

SetIndexLocal ==
  /\ Fetch(OP_SET_INDEX_LOCAL_LONG)
  /\ LET f     == FrameAt(ArgLong(1))
         n     == Arg(5)
         rank  == Arg(6)
         dims  == Dimensions(rank)
         ixs   == Indices(n, rank)
         val   == peekv(rank + n + 1)
         sp    == SP - rank - n
         vec   == Slot(framestack[f].base + ArgLong(3))
         start == vec.i + index_flattened(dims, Padded(ixs, rank))
         count == IF n = rank THEN 1 ELSE val.n
     IN  IF f \notin FrameIndex \/ sp < 0 \/ n > rank THEN Wild
         ELSE IF is_out_of_bounds(ixs, dims) THEN runtime_error(sp)
         ELSE IF sp < 1 \/ ~InStack(start, count) THEN Wild
         ELSE /\ Resume(NextIP, sp - 1, ASP)
              /\ astack' = IF n = rank
                           THEN [astack EXCEPT ![start] = val]
                           ELSE CopyCells(astack, start, val.i, val.n)
              /\ UNCHANGED << framese, stack, argstack, argsp, argasp, status,
                              output >>

-----------------------------------------------------------------------------
(* Input and output.                                                       *)

(* For each of arg0 values: the value, its type, its base type.  Vectors    *)
(* are popped off the array stack, whoever they belong to.                  *)
Write ==
  /\ Fetch(OP_WRITE)
  /\ LET n == Arg(1)
         sp == SP - 3 * n
         val(k)  == Slot(sp + 3 * (k - 1))
         type(k) == Slot(sp + 3 * (k - 1) + 1).i
         popped[k \in 0 .. n] ==
           IF k = 0 THEN 0
           ELSE popped[k - 1] +
                (IF type(k) = VAL_VECTOR THEN Popped(val(k).n) ELSE 0)
     IN  IF sp < 0 THEN Wild
         ELSE IF \E k \in 1 .. n : type(k) \notin VAL_INTEGER .. VAL_FUNCTION
         THEN Abort
         ELSE /\ Resume(NextIP, sp, ASP - Capped(popped[n]))
              /\ output' = output \o
                   [k \in 1 .. n |-> value_print(astack, val(k), type(k))]
              /\ UNCHANGED << framese, stack, astack, argstack, argsp, argasp,
                              status >>

Newline ==
  /\ Fetch(OP_NEWLINE)
  /\ Resume(NextIP, SP, ASP)
  /\ output' = Append(output, [type |-> VAL_VOID, vals |-> << >>])
  /\ UNCHANGED << framese, stack, astack, argstack, argsp, argasp, status >>

(* mgetline, atob, atoi: a line stands for some Boolean, integer, string.  *)
ReadValues(type) ==
  CASE type = VAL_BOOLEAN -> {BoolV(b) : b \in BOOLEAN}
    [] type = VAL_INTEGER -> {IntV(x) : x \in ReadInts}
    [] OTHER              -> {StrV(s) : s \in DOMAIN Strings}

Read ==
  /\ Fetch(OP_READ)
  /\ IF Arg(1) \notin {VAL_BOOLEAN, VAL_INTEGER, VAL_STRING} THEN Abort /\ UNCHANGED input
     ELSE \E v \in ReadValues(Arg(1)) :
            pushv(NextIP, SP, ASP, v) /\ input' = Append(input, v)

-----------------------------------------------------------------------------
(* Calls.                                                                  *)

(* No handler checks that framestack has room.  Every call is preceded by   *)
(* the push of the function that is called, so that the frame after the     *)
(* last one is reached at most once, with a full value stack; framestack is *)
(* modelled with that extra frame (in the program it overlaps argstack).    *)
Call ==
  /\ Fetch(OP_CALL)
  /\ LET arity  == Arg(1)
         callee == peekv(arity + 1)
     IN  IF \/ SP - arity - 1 < 0 \/ framese = StackMax
            \/ callee.t # "fn"    \/ callee.i \notin DOMAIN image.fns
         THEN Wild
         ELSE /\ framese' = framese + 1
              /\ framestack' = [framestack EXCEPT
                   ![framese].ip = NextIP,
                   ![framese + 1] =
                     [ip |-> 0, sp |-> SP, base |-> SP - arity, asp |-> ASP,
                      fn |-> callee.i, env |-> callee.n]]
              /\ UNCHANGED << stack, astack, argstack, argsp, argasp, status,
                              output >>

(* A slip in ShiftAstackentToBase: the caller's asp stays below the vector. *)
ShiftAstackentToBase_Unclaimed ==
  /\ Fetch(OP_SHIFT_ASTACKENT_TO_BASE)
  /\ LET vec == peekv(1)
         asp == framestack[framese - 1].asp
     IN  /\ astack' = CopyCells(astack, asp, vec.i, vec.n)
         /\ stack' = [stack EXCEPT ![SP - 1] = VecV(asp, vec.n)]
         /\ framestack' = [framestack EXCEPT ![framese].ip = NextIP]
         /\ UNCHANGED << framese, argstack, argsp, argasp, status, output >>

(* The returned vector is moved to the top of the caller's array stack,     *)
(* without a check for room.                                                *)
ShiftAstackentToBase ==
  /\ Fetch(OP_SHIFT_ASTACKENT_TO_BASE)
  /\ LET vec == peekv(1)
         asp == framestack[framese - 1].asp
     IN  IF framese = 0 \/ SP < 1 \/ vec.n < 0 THEN Wild
         ELSE IF ~InStack(asp, vec.n) THEN Wild
         ELSE /\ astack' = CopyCells(astack, asp, vec.i, vec.n)
              /\ stack' = [stack EXCEPT ![SP - 1] = VecV(asp, vec.n)]
              /\ framestack' = [framestack EXCEPT
                   ![framese - 1].asp = asp + vec.n,
                   ![framese].ip = NextIP]
              /\ UNCHANGED << framese, argstack, argsp, argasp, status, output >>

(* A slip in Return: the result lands below the function that was called.  *)
Return_OneTooLow ==
  /\ Fetch(OP_RETURN)
  /\ LET sp == framestack[framese - 1].sp - Arg(1) - 2
     IN  /\ framese' = framese - 1
         /\ framestack' = [framestack EXCEPT ![framese - 1].sp = sp + 1]
         /\ stack' = [stack EXCEPT ![sp] = peekv(1)]
  /\ UNCHANGED << astack, argstack, argsp, argasp, status, output >>

Return ==
  /\ Fetch(OP_RETURN)
  /\ LET val == peekv(1)
         sp  == framestack[framese - 1].sp - Arg(1) - 1
     IN  IF framese = 0 \/ SP < 1 THEN Wild
         ELSE IF ~InStack(sp, 1) THEN Wild
         ELSE /\ framese' = framese - 1
              /\ framestack' = [framestack EXCEPT ![framese - 1].sp = sp + 1]
              /\ stack' = [stack EXCEPT ![sp] = val]
              /\ UNCHANGED << astack, argstack, argsp, argasp, status, output >>

-----------------------------------------------------------------------------
(* Out and inout arguments.                                                *)

(* A slip in ArgstackLoad: one argument too many.                          *)
ArgstackLoad_OneTooMany ==
  /\ Fetch(OP_ARGSTACK_LOAD)
  /\ IF argsp > MaxArity THEN Wild
     ELSE /\ argstack' = [argstack EXCEPT ![argsp] = Slot(Frame.base + Arg(1))]
          /\ argsp' = argsp + 1
          /\ Resume(NextIP, SP, ASP)
          /\ UNCHANGED << framese, stack, astack, argasp, status, output >>

ArgstackLoad ==
  /\ Fetch(OP_ARGSTACK_LOAD)
  /\ LET val  == Slot(Frame.base + Arg(1))
         size == IF Arg(2) # 0 THEN val.n ELSE 0
         low  == argasp - size
     IN  IF argsp >= MaxArity \/ size < 0 \/ ~InStack(low, size) THEN Wild
         ELSE /\ argasp' = low
              /\ astack' = CopyCells(astack, low, val.i, size)
              /\ argstack' = [argstack EXCEPT ![argsp] =
                                IF Arg(2) # 0 THEN VecV(low, size) ELSE val]
              /\ argsp' = argsp + 1
              /\ Resume(NextIP, SP, ASP)
              /\ UNCHANGED << framese, stack, status, output >>

ArgstackPeek ==
  /\ Fetch(OP_ARGSTACK_PEEK)
  /\ IF argsp = 0 THEN Wild
     ELSE pushv(NextIP, SP, ASP, argstack[argsp - 1])

(* A slip in ArgstackUnload: the cells of a vector stay taken.             *)
ArgstackUnload_KeepsCells ==
  /\ Fetch(OP_ARGSTACK_UNLOAD)
  /\ IF argsp = 0 THEN Wild
     ELSE /\ argsp' = argsp - 1
          /\ Resume(NextIP, SP, ASP)
          /\ UNCHANGED << framese, stack, astack, argstack, argasp, status,
                          output >>

ArgstackUnload ==
  /\ Fetch(OP_ARGSTACK_UNLOAD)
  /\ IF argsp = 0 THEN Wild
     ELSE /\ argsp' = argsp - 1
          /\ argasp' = argasp +
               (IF Arg(1) # 0 THEN argstack[argsp - 1].n ELSE 0)
          /\ Resume(NextIP, SP, ASP)
          /\ UNCHANGED << framese, stack, astack, argstack, status, output >>

-----------------------------------------------------------------------------
(* The end of the loop.                                                    *)

Halt ==
  /\ Fetch(OP_HALT)
  /\ status' = "halt"
  /\ Resume(NextIP, SP, ASP)
  /\ UNCHANGED << framese, stack, astack, argstack, argsp, argasp, output >>

(* ip has left the code, or the byte at ip is no opcode.                   *)
LeftCode == IF InCode(0) THEN Op \in Opcodes /\ ~InCode(OperandBytes(Op))
            ELSE TRUE

BadCode ==
  /\ status = "run"
  /\ \/ LeftCode /\ Wild
     \/ InCode(0) /\ Op \notin Opcodes /\ runtime_error(SP)

(* vm_run has returned.                                                    *)
Returned == status # "run" /\ UNCHANGED vars

(* One turn of the loop that reads no input.                               *)
Step ==
     \/ LoadConstant \/ LocAlink \/ PushByte \/ Zero \/ One \/ PushFalse
     \/ PushTrue \/ EmptyString
     \/ Addi \/ Subi \/ Muli \/ Divi \/ Compare \/ Equa \/ Not
     \/ Skip \/ SkipBack \/ SkipF
     \/ Popv \/ Popa \/ PopToAstack \/ AstackShiftUp
     \/ GetLocal \/ SetLocal \/ GetIndex \/ SetIndexLocal
     \/ Write \/ Newline
     \/ Call \/ ShiftAstackentToBase \/ Return
     \/ ArgstackLoad \/ ArgstackPeek \/ ArgstackUnload
     \/ Halt \/ BadCode

Execute ==
  /\ UNCHANGED image
  /\ \/ Step /\ UNCHANGED input
     \/ Read

Next == Execute \/ Returned

Spec == Init /\ [][Next]_vars

(* vm_run does not pause while it has an instruction to execute.             *)
FairSpec == Spec /\ WF_vars(Execute)

-----------------------------------------------------------------------------
(* Types.                                                                  *)

FrameType == [ip : Int, sp : Int, base : Int, asp : Int,
              fn : DOMAIN image.fns, env : Int]

TypeOK ==
  /\ IsImage(image)
  /\ framese \in FrameIndex
  /\ framestack \in [FrameIndex -> FrameType]
  /\ stack  \in [CellIndex -> Value]
  /\ astack \in [CellIndex -> Value]
  /\ argstack \in [0 .. (MaxArity - 1) -> Value]
  /\ argsp  \in 0 .. MaxArity
  /\ argasp \in Int
  /\ status \in Statuses

-----------------------------------------------------------------------------
(* What the machine itself checks, whatever the code: neither stack grows   *)
(* past its end.                                                            *)
Guarded ==
  status \in {"run", "halt"} =>
    \A f \in 0 .. framese :
      framestack[f].sp <= StackMax /\ framestack[f].asp <= StackMax
=============================================================================
