---------------------------- MODULE MCTypeLabels ----------------------------
(***************************************************************************)
(* Labels of up to three dimensions around the limit of an 8-bit int, and   *)
(* of one dimension more than MaxVectorDimensions lets through.             *)
(***************************************************************************)
EXTENDS TypeLabels, Semantics

MCIntMin  == -256
MCStrings == << << >> >>

Small == {<< 1 >>, << 2 >>, << 4 >>, << 1, 6 >>}
Large == {<< 0 >>, << 0, 7 >>, << 8, 5 >>, << 2, 5, 5 >>, << 2, 5, 6 >>,
          << 3, 0, 0 >>, << 9, 9, 9, 9 >>}

MCLabels == UNION {[1 .. n -> Small \cup Large] : n \in 1 .. 3} \cup [1 .. 4 -> Small]

Dims == [k \in DOMAIN label |-> Decimal(label[k], Len(label[k]))]

(* The code comes to an error exactly where Semantics says so, and to the   *)
(* same type otherwise: to what the label says (AcceptedIfFits).            *)
LabelsAsInSemantics ==
  /\ AcceptedIfFits
  /\ step = "done" =>
       LET ty   == TypeLabel(VAL_INTEGER, Dims)
           type == type_node_to_type(ty)
       IN  /\ error <=> (\E k \in DOMAIN Dims : Dims[k] > IntMax) \/ BadTypeLabel(ty)
           /\ ~error => inside = [rank |-> type.rank, size |-> type.size]
=============================================================================
