----------------------------- MODULE MCAnyCode -----------------------------
(***************************************************************************)
(* The machine on code no compiler wrote: some values are pushed, then one *)
(* instruction with arbitrary operands runs, once or four times, then the  *)
(* code ends or halts.                                                     *)
(***************************************************************************)
EXTENDS YalaVM

MCIntMin  == -256
MCStrings == << << >>, << 1 >> >>
MCAnyInt  == {0}
MCReadInts == {-1, 2}

Setups ==
  << << >>,
     << OP_ZERO, OP_ONE, OP_PUSH_BYTE, 2 >>,
     << OP_LOCF_LONG, 0, 0, OP_ONE, OP_ONE >>,
     << OP_PUSH_BYTE, 2, OP_ASTACK_SHIFT_UP, OP_LOC_ALINK_LONG, 0, 1 >>,
     << OP_LOCI_LONG, 0, 2, OP_PUSH_BYTE, 3 >>,
     << OP_LOCI_LONG, 0, 3, OP_LOCI_LONG, 0, 4 >> >>

Loops == {"once", "again", "cut"}

(* An opcode that does not exist is among them.                             *)
MCPrograms == [setup : DOMAIN Setups, op : Opcodes \cup {41},
               a : {0, 1, 3}, b : {0, 1, 2}, loop : Loops]

Instruction(p) ==
  << p.op >> \o [k \in 1 .. OperandBytes(p.op) |->
                   IF OperandBytes(p.op) > 1 /\ k % 2 = 1 THEN p.b \div 2 ELSE
                   IF k = OperandBytes(p.op) THEN p.a ELSE p.b]

CodeOf(p) ==
  LET body == Setups[p.setup] \o Instruction(p)
  IN  CASE p.loop = "cut"   -> body
        [] p.loop = "once"  -> body \o << OP_NEWLINE, OP_HALT >>
        [] p.loop = "again" -> body \o body \o body \o body

MCImages(p) ==
  {[fns |-> << [code |-> CodeOf(p),
                constants |-> << FnV(1, 0), VecV(0, 2), IntV(-2),
                              IntV(MCIntMin), IntV(-1) >>] >>]}
============================================================================
