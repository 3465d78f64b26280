------------------------------- MODULE Shapes -------------------------------
(***************************************************************************)
(* The shapes of an image (see Verifier), found by following its code from *)
(* the entry of every bytecode object.  Where two paths meet, a slot that  *)
(* they disagree on is a plain value; where they disagree on the height,   *)
(* the first path to arrive wins and the image is not well formed.         *)
(***************************************************************************)
EXTENDS Verifier, Semantics, TLC

WithShape(img, f, shape) == [img EXCEPT !.fns[f].shape = shape]

Meet(s, t) == [k \in DOMAIN s |-> IF s[k] = t[k] THEN s[k] ELSE 0]

(* The shapes once the ips of work have been followed.                     *)
RECURSIVE Follow(_, _, _)
Follow(img, f, work) ==
  IF work = {} THEN img
  ELSE
    LET ip    == CHOOSE w \in work : TRUE
        fn    == img.fns[f]
        sound == /\ InCodeAt(fn, ip)
                 /\ Needs(fn, ip) <= Len(fn.shape[ip])
                 /\ AddressOK(img, f, ip)
        after == After(img, f, ip)
        new(t) == IF t \notin DOMAIN fn.shape THEN after
                  ELSE IF Len(after) # Len(fn.shape[t]) THEN fn.shape[t]
                  ELSE Meet(fn.shape[t], after)
        moved == {t \in Targets(fn, ip) :
                    t \notin DOMAIN fn.shape \/ new(t) # fn.shape[t]}
        shape == [t \in moved |-> new(t)] @@ fn.shape
    IN  IF ~sound THEN Follow(img, f, work \ {ip})
        ELSE Follow(WithShape(img, f, shape), f, (work \ {ip}) \cup moved)

RECURSIVE Shaped(_, _)
Shaped(img, f) ==
  IF f > Len(img.fns) THEN img
  ELSE Shaped(Follow(WithShape(img, f, 0 :> [k \in 1 .. img.fns[f].arity |-> 0]),
                     f, {0}), f + 1)

(* The walk of the serializer, see module Serialization: the constants      *)
(* loaded before each ip it comes to.                                      *)
RECURSIVE Walked(_, _, _)
Walked(code, ip, done) ==
  (ip :> done) @@
  IF ip >= Len(code) THEN << >>
  ELSE Walked(code, ip + 1 + OperandBytes(code[ip + 1]),
              done + IF code[ip + 1] \in LocOpcodes THEN 1 ELSE 0)

(* A compiled program as an image of the machine.  (Concatenation makes TLC *)
(* evaluate a sequence once instead of at every use.)                       *)
ImageOf(compiled) ==
  Shaped([fns |-> << >> \o [f \in DOMAIN compiled.fns |->
            [code |-> << >> \o compiled.fns[f].code,
             constants |-> << >> \o compiled.fns[f].constants,
             arity |-> compiled.fns[f].arity, level |-> compiled.fns[f].level,
             slots |-> << >> \o compiled.fns[f].slots, shape |-> << >>,
             walk |-> Walked(compiled.fns[f].code, 0, 0)]]], 1)

-----------------------------------------------------------------------------
(* The views of an image (see Verifier).  A slot on which two paths disagree *)
(* is a scalar if it is one on both, else a vector nothing more is known of. *)

KindOf(type) == IF type.id = VAL_VECTOR THEN AnyKind ELSE ScalarKind

OutsOf(params) ==
  LET out == SelectSeq(Reverse(params), IsOut)
  IN  [k \in DOMAIN out |-> IF out[k].id = VAL_VECTOR THEN 1 ELSE 0]

MeetKind(a, b) == IF a = b THEN a
                  ELSE IF IsScalar(a) /\ IsScalar(b) THEN ScalarKind
                  ELSE AnyKind

MeetView(v, w) ==
  [v EXCEPT !.kinds = [k \in DOMAIN @ |-> MeetKind(@[k], w.kinds[k])],
            !.loose = IF @ <= w.loose THEN @ ELSE w.loose]

RECURSIVE FollowViews(_, _, _, _)
FollowViews(img, views, f, work) ==
  IF work = {} THEN views
  ELSE
    LET ip    == CHOOSE w \in work : TRUE
        sound == /\ ElementsOK(img, views, f, ip)
                 /\ VariablesOK(img, views, f, ip)
        after == [kinds |-> << >> \o KindsAfter(img, views, f, ip),
                  loose |-> LooseAfter(img, views, f, ip),
                  args  |-> << >> \o ArgsAfter(img, views, f, ip)]
        at    == views[f].at
        new(t) == IF t \notin DOMAIN at THEN after ELSE MeetView(at[t], after)
        moved == {t \in Targets(img.fns[f], ip) :
                    t \notin DOMAIN at \/ new(t) # at[t]}
    IN  IF ~sound THEN FollowViews(img, views, f, work \ {ip})
        ELSE FollowViews(img, [views EXCEPT ![f].at = [t \in moved |-> new(t)] @@ @],
                         f, (work \ {ip}) \cup moved)

(* What a function reads of the function around it.                         *)
OuterReads(fn) ==
  {LongAt(fn, ip, 3) : ip \in
     {i \in DOMAIN fn.shape : /\ OpAt(fn, i) = OP_GET_LOCAL_LONG
                              /\ LongAt(fn, i, 1) # 0
                              /\ fn.level - LongAt(fn, i, 1) > 1}}

ArgumentOps == {OP_ARGSTACK_LOAD, OP_ARGSTACK_PEEK, OP_ARGSTACK_UNLOAD, OP_HALT}

CalledBy(fn) ==
  {fn.shape[ip][Len(fn.shape[ip]) - ArgAt(fn, ip, 1)] :
     ip \in {i \in DOMAIN fn.shape : OpAt(fn, i) = OP_CALL}}

RECURSIVE BlindAmong(_, _)
BlindAmong(img, candidates) ==
  LET blind == {f \in candidates : CalledBy(img.fns[f]) \subseteq candidates}
  IN  IF blind = candidates THEN blind ELSE BlindAmong(img, blind)

BlindIn(img) ==
  BlindAmong(img, {f \in DOMAIN img.fns :
                     /\ OuterReads(img.fns[f]) = {}
                     /\ \A ip \in DOMAIN img.fns[f].shape :
                          OpAt(img.fns[f], ip) \notin ArgumentOps})

RECURSIVE Viewed(_, _, _)
Viewed(img, views, f) ==
  IF f > Len(img.fns) THEN views
  ELSE Viewed(img, FollowViews(img, views, f, {0}), f + 1)

(* What the types of the source say of the vectors of each object.          *)
Declared(fns) ==
  << >> \o [f \in DOMAIN fns |->
    [held  |-> << >> \o [k \in DOMAIN fns[f].types |-> KindOf(fns[f].types[k])],
     gives |-> IF fns[f].type.ret[1].id = VAL_VECTOR THEN Temp ELSE ScalarKind,
     outs  |-> << >> \o OutsOf(fns[f].type.args)]]

(* The views of a well-formed image.                                        *)
ViewsOf(img) ==
  LET blind == BlindIn(img)
  IN  Viewed(img,
        << >> \o [f \in DOMAIN img.fns |->
          LET declared == img.declared[f]
          IN  [held  |-> declared.held, gives |-> declared.gives, outs |-> declared.outs,
               blind |-> f \in blind,
               reach |-> Max({0} \cup {k + 1 : k \in OuterReads(img.fns[f])}),
               at    |-> 0 :> [kinds |-> SubSeq(declared.held, 1, img.fns[f].arity),
                               loose |-> 0, args |-> << >>]]], 1)

-----------------------------------------------------------------------------
(* yala.c, compile_tree: the image of program, if the compiler accepts it.  *)
Compiled(program) ==
  UNION {{[source |-> program, fns |-> img.fns, declared |-> Declared(c.fns)] :
            img \in {ImageOf(c)}} :
         c \in {d \in {generate_bytecode(program)} : d.ok}}
=============================================================================
