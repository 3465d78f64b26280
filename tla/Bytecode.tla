------------------------------ MODULE Bytecode ------------------------------
(***************************************************************************)
(* The instruction set of the virtual machine (semantics/semantics.h), the *)
(* way a 16-bit operand is laid out in the byte stream                     *)
(* (semantics/value.c) and the number of operand bytes of every opcode, as *)
(* the tables of the serializer and the disassembler give it.              *)
(***************************************************************************)
EXTENDS Naturals, Sequences

(* enum opcode: C numbers the members from 0 in order of declaration.      *)
OP_LOCI_LONG               == 0
OP_LOCS_LONG               == 1
OP_LOCF_LONG               == 2
OP_LOC_ALINK_LONG          == 3
OP_PUSH_BYTE               == 4
OP_ADDI                    == 5
OP_SUBI                    == 6
OP_MULI                    == 7
OP_DIVI                    == 8
OP_GRT                     == 9
OP_GRTEQ                   == 10
OP_LT                      == 11
OP_LEQ                     == 12
OP_EQUA                    == 13
OP_NOT                     == 14
OP_SKIP_LONG               == 15
OP_SKIPF_LONG              == 16
OP_SKIP_BACK_LONG          == 17
OP_ZERO                    == 18
OP_ONE                     == 19
OP_TRUE                    == 20
OP_FALSE                   == 21
OP_EMPTY_STRING            == 22
OP_POPV                    == 23
OP_GET_LOCAL_LONG          == 24
OP_SET_LOCAL_LONG          == 25
OP_WRITE                   == 26
OP_NEWLINE                 == 27
OP_POP_TO_ASTACK           == 28
OP_POPA                    == 29
OP_ASTACK_SHIFT_UP         == 30
OP_GET_INDEX               == 31
OP_SET_INDEX_LOCAL_LONG    == 32
OP_READ                    == 33
OP_CALL                    == 34
OP_RETURN                  == 35
OP_SHIFT_ASTACKENT_TO_BASE == 36
OP_ARGSTACK_LOAD           == 37
OP_ARGSTACK_PEEK           == 38
OP_ARGSTACK_UNLOAD         == 39
OP_HALT                    == 40

(* enum value_type.                                                        *)
VAL_INTEGER  == 0
VAL_BOOLEAN  == 1
VAL_STRING   == 2
VAL_VECTOR   == 3
VAL_FUNCTION == 4
VAL_VOID     == 5

Opcodes == OP_LOCI_LONG .. OP_HALT
Byte    == 0 .. 255
Word16  == 0 .. 65535

(***************************************************************************)
(* A 16-bit operand is stored high byte first.  left_byte and right_byte   *)
(* take a uint16_t: an argument that is too large loses its high bits.     *)
(***************************************************************************)
left_byte(word)         == (word % 65536) \div 256
right_byte(word)        == word % 256
join_bytes(left, right) == left * 256 + right

(* The opcodes that load a constant by its address.                        *)
LocOpcodes == {OP_LOCI_LONG, OP_LOCS_LONG, OP_LOCF_LONG, OP_LOC_ALINK_LONG}

(***************************************************************************)
(* Operand bytes that follow each opcode.  serialize_constants walks the   *)
(* code of a function with this table.                                     *)
(***************************************************************************)
OneOperandByte  == {OP_LT, OP_LEQ, OP_GRT, OP_GRTEQ, OP_PUSH_BYTE, OP_WRITE,
                    OP_CALL, OP_RETURN, OP_READ, OP_ARGSTACK_UNLOAD}
TwoOperandBytes == LocOpcodes \cup
                   {OP_SKIP_BACK_LONG, OP_SKIP_LONG, OP_SKIPF_LONG,
                    OP_GET_INDEX, OP_EQUA, OP_ARGSTACK_LOAD}

OperandBytes(op) ==
  IF op \in OneOperandByte THEN 1
  ELSE IF op \in TwoOperandBytes THEN 2
  ELSE IF op \in {OP_GET_LOCAL_LONG, OP_SET_LOCAL_LONG} THEN 4
  ELSE IF op = OP_SET_INDEX_LOCAL_LONG THEN 6
  ELSE 0
=============================================================================
