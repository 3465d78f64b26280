----------------------------- MODULE Activations -----------------------------
(***************************************************************************)
(* What vm_run promises about the calls of a program, without a stack: an  *)
(* activation is a function and the values it holds, which belong to it    *)
(* alone.  A call hands the topmost values of the caller over, a return    *)
(* hands one back.  That the machine lays all of this out in one array,    *)
(* and that CALL and RETURN only move pointers in it, is a matter of       *)
(* module StackDiscipline.  This is a specification: vm.c has no such      *)
(* structure.                                                              *)
(***************************************************************************)
EXTENDS Integers, Sequences

VARIABLES
  image,    \* the image that is run; fns[1] is the root, fns[2] the program
  frames    \* the activations, the root's first; << >> when vm_run is over

Current == frames[Len(frames)]

Start == frames = << [fn |-> 1, vals |-> << >>] >>

(* The activations below the current one, but for those in except, are as  *)
(* they were.                                                              *)
OthersKeep(except) ==
  /\ Len(frames') = Len(frames)
  /\ frames'[Len(frames)].fn = Current.fn
  /\ \A i \in (1 .. Len(frames) - 1) \ except : frames'[i] = frames[i]

(* Any instruction that stays within the activation.                       *)
Work == frames # << >> /\ OthersKeep({})

(* A function in the program assigns to one of the program's variables.    *)
Assign ==
  LET slots == image.fns[2].slots
      old   == frames[2]
  IN  /\ Len(frames) > 2
      /\ OthersKeep({2})
      /\ \E k \in 1 .. Len(slots) :
           /\ slots[k] = 0
           /\ frames'[2] = [old EXCEPT !.vals = [@ EXCEPT
                              ![k] = frames'[2].vals[k]]]

(* The callee lies below its arguments.  They become the first values of    *)
(* its activation, and the caller holds them no more.                       *)
Enter ==
  /\ frames # << >>
  /\ \E n \in 0 .. Len(Current.vals) - 1 :
       LET vals   == Current.vals
           below  == Len(vals) - n
           callee == vals[below]
       IN  /\ callee.t = "fn" /\ callee.i \in DOMAIN image.fns
           /\ image.fns[callee.i].arity = n
           /\ frames' = Append(
                [frames EXCEPT ![Len(frames)].vals = SubSeq(vals, 1, below)],
                [fn |-> callee.i, vals |-> SubSeq(vals, below + 1, Len(vals))])

(* The topmost value takes the place of the callee.                         *)
Leave ==
  /\ Len(frames) > 1 /\ Current.vals # << >>
  /\ LET caller == frames[Len(frames) - 1].vals
         result == Current.vals[Len(Current.vals)]
     IN  /\ caller # << >>
         /\ frames' = [SubSeq(frames, 1, Len(frames) - 1) EXCEPT
              ![Len(frames) - 1].vals = [caller EXCEPT ![Len(caller)] = result]]

Stop == frames # << >> /\ frames' = << >>

Turn == UNCHANGED image /\ (Work \/ Assign \/ Enter \/ Leave \/ Stop)

Spec == Start /\ [][Turn]_<< image, frames >>
=============================================================================
