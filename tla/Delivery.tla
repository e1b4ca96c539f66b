------------------------------ MODULE Delivery ------------------------------
(***************************************************************************)
(* What the worker and its master promise together, whichever of them      *)
(* opens the connections: a record that the worker has accepted is let go  *)
(* only after the master has ingested it. Records may reach the master     *)
(* more than once; a worker that dies forgets some of its records, or      *)
(* remembers some that it had let go.                                      *)
(***************************************************************************)
EXTENDS Naturals

CONSTANT Metadata

VARIABLES
    accepted,    \* everything a worker's Enqueue ever took
    held,        \* what the worker holds for the master
    delivered,   \* what the master has ingested at least once
    epoch        \* how often the worker's process has started again

vars == <<accepted, held, delivered, epoch>>

Init ==
    /\ accepted = {}
    /\ held = {}
    /\ delivered = {}
    /\ epoch = 0

Accept(md) ==
    /\ accepted' = accepted \cup {md}
    /\ held' = held \cup {md}
    /\ UNCHANGED <<delivered, epoch>>

\* A batch arrives, for the first time or again.
Deliver(S) ==
    /\ delivered' = delivered \cup S
    /\ UNCHANGED <<accepted, held, epoch>>

Release(S) ==
    /\ S \subseteq delivered
    /\ held' = held \ S
    /\ UNCHANGED <<accepted, delivered, epoch>>

\* The worker process dies and starts again.
Restart(S) ==
    /\ held' = S
    /\ epoch' = epoch + 1
    /\ UNCHANGED <<accepted, delivered>>

Next ==
    \/ \E md \in Metadata : Accept(md)
    \/ \E S \in SUBSET accepted : Deliver(S)
    \/ \E S \in SUBSET held : Release(S)
    \/ \E S \in SUBSET accepted : Restart(S)

Spec == Init /\ [][Next]_vars

=============================================================================
