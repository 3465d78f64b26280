--------------------------- MODULE CompilerLimits ---------------------------
(***************************************************************************)
(* The limits of the code generator: jumps and constant addresses have two *)
(* bytes, and the jumps out of an if-chain are kept in an array.  One      *)
(* program is compiled again and again, with one limit raised by one each  *)
(* time, and held against the program compiled with room for everything.   *)
(***************************************************************************)
EXTENDS Shapes, FiniteSetsExt

CONSTANTS
  Programs,
  Compile(_, _, _), \* CompiledWith; a parameter, so that TLC does not count its paths
  MaxRoom       \* bound: how far a limit is raised

Limits == {"skip", "constants", "branches"}

VARIABLES
  program,
  limit,        \* the limit that is tight
  room,         \* and how tight
  free,         \* the program compiled with room for everything
  compiled      \* and with this room

limitVars == << program, limit, room, free, compiled >>

Within(skip, constants, branches) ==
  INSTANCE Semantics WITH MaxSkipLong <- skip, MaxConstants <- constants,
                          MaxConditional <- branches

(* p, compiled with room r below the limit l.                                *)
CompiledWith(p, l, r) ==
  Within(IF l = "skip" THEN r ELSE MaxSkipLong,
         IF l = "constants" THEN r ELSE MaxConstants,
         IF l = "branches" THEN r ELSE MaxConditional)!generate_bytecode(p)

LimitInit ==
  /\ program \in Programs /\ limit \in Limits /\ room = 0
  /\ free = Compile(program, "none", 0)
  /\ compiled = Compile(program, limit, 0)

Widen ==
  /\ room < MaxRoom
  /\ room' = room + 1
  /\ compiled' = Compile(program, limit, room + 1)
  /\ UNCHANGED << program, limit, free >>

LimitSpec == LimitInit /\ [][Widen]_limitVars

-----------------------------------------------------------------------------
(* What the program needs.                                                  *)
Jumps(code) ==
  {join_bytes(code[ip + 2], code[ip + 3]) :
     ip \in {i \in DOMAIN Walked(code, 0, 0) \ {Len(code)} :
               code[i + 1] \in {OP_SKIP_LONG, OP_SKIPF_LONG, OP_SKIP_BACK_LONG}}}

RECURSIVE Branches(_)
Branches(node) ==
  Max({Cardinality({k \in DOMAIN node.kids : node.kids[k].kind = "cas"})}
        \cup {Branches(node.kids[k]) : k \in DOMAIN node.kids})

RECURSIVE BranchesOf(_)
BranchesOf(decl) ==
  Max({0} \cup {Branches(decl.body[k]) : k \in DOMAIN decl.body}
          \cup {BranchesOf(decl.mods[k]) : k \in DOMAIN decl.mods})

Need ==
  CASE limit = "skip"      -> Max({0} \cup UNION {Jumps(free.fns[f].code) : f \in DOMAIN free.fns})
    [] limit = "constants" -> Max({Len(free.fns[f].constants) : f \in DOMAIN free.fns})
    [] limit = "branches"  -> BranchesOf(program)

(* A program is rejected if and only if it does not fit, whatever the limit  *)
(* and wherever in the program it is met, and one that fits is compiled to   *)
(* what it would be without limits: no jump and no address is ever cut off  *)
(* (patch_skip_long, emit_skip_back_long, emit_constant and the chains).     *)
LimitsExact ==
  IF room >= Need THEN compiled = free ELSE ~compiled.ok
=============================================================================
