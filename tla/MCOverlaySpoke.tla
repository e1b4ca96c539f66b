--------------------------- MODULE MCOverlaySpoke ---------------------------
(***************************************************************************)
(* Overlay with a history variable: the addresses from which the service   *)
(* ever received anything, be it a reply or a query.                       *)
(***************************************************************************)
EXTENDS MCOverlay

VARIABLE spoke

\* The addresses whose message a step handles.
Speaking ==
    {c.addr : c \in {d \in Contacts :
        OnQuery(d) \/ \E L \in SUBSET Contacts : OnNodes(d, L)}}

SpokeSpec ==
    /\ Init /\ spoke = {}
    /\ [][Next /\ spoke' = spoke \cup Speaking]_<<vars, spoke>>

\* README.md: only nodes that have responded properly through the network's own
\* socket enter its routing table. Even if a query counts as a response, the code
\* adds the nodes that another node lists.
OnlyResponders == Addresses \subseteq spoke

=============================================================================
