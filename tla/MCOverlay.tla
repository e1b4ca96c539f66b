------------------------------ MODULE MCOverlay ------------------------------
(***************************************************************************)
(* Overlay for TLC: two nodes, the second of which has an address of the   *)
(* other network too. With buckets of one node and a table of one node, a  *)
(* node is heard again, gives way to another, or is refused.               *)
(***************************************************************************)
EXTENDS Overlay

CONSTANTS n1, n2, a1, a2, f1

Three == {[id |-> n1, addr |-> a1], [id |-> n2, addr |-> a2],
          [id |-> n2, addr |-> f1]}

\* Both in one bucket, where one gives way to the other; in two buckets, where
\* the second is refused; or n2 has the ID of the service itself.
ThreeLayouts == {[n \in ID |-> 0],
                 [n \in ID |-> IF n = n1 THEN 0 ELSE 1],
                 [n \in ID |-> IF n = n1 THEN 1 ELSE -1]}
=============================================================================
