---------------------------- MODULE ImageFormat ----------------------------
(***************************************************************************)
(* Compiled programs, as the code generator hands them to the virtual      *)
(* machine and to the serializer.                                          *)
(***************************************************************************)
EXTENDS Values

CONSTANTS
  Programs,   \* the programs the machine may be started on
  Images(_),  \* the image of a program; none where there is an error in it
  AnyInt      \* the integers a word that was never written may hold

ASSUME AnyIntAssumption == AnyInt \subseteq Int

(***************************************************************************)
(* An image lists the bytecode objects of a program, the root object       *)
(* first.  Next to its code and constants, an object carries what the      *)
(* compiler knows of it and the machine never sees: arity, level (the      *)
(* index of its environment), slots and shape, see module Verifier, and    *)
(* walk, see module Serialization.                                         *)
(***************************************************************************)
IsImage(img) ==
  /\ DOMAIN img.fns = 1 .. Len(img.fns)
  /\ 1 \in DOMAIN img.fns
  /\ \A f \in DOMAIN img.fns :
       /\ img.fns[f].code \in Seq(Byte)
       /\ img.fns[f].constants \in Seq(Value)

ASSUME ImagesAssumption ==
  \A p \in Programs : \A img \in Images(p) : IsImage(img)
=============================================================================
