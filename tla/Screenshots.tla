---------------------------- MODULE Screenshots ----------------------------
(***************************************************************************)
(* scripts/screenshot.js, which the screenshots workflow runs beside a     *)
(* server that it has just started: it waits for the server and takes a    *)
(* picture of each page with one browser tab.                              *)
(*                                                                         *)
(* Every await is a step of its own. What the server does is free: a       *)
(* navigation fails (the connection is refused, or playwright's timeout    *)
(* ends it), or is answered with status 200 or with another one, as by a   *)
(* server that asks for a password.                                        *)
(***************************************************************************)
EXTENDS Naturals, Sequences

CONSTANT Retries           \* the initial value of retries: 30

ASSUME RetriesAssumption == Retries \in Nat \ {0}

\* The pages, in the order in which they are captured.
pages == <<"dashboard", "search", "discover", "watches", "blacklist",
           "settings", "trawl">>

VARIABLES
    pc,          \* the await the script is at, or how it ended
    retries,
    answer,      \* how the last navigation ended: none, 200, other or failed
    tab,         \* the page the tab shows
    next,        \* index of the page to capture
    files        \* what the picture of each page shows

vars == <<pc, retries, answer, tab, next, files>>

Ended == pc \in {"finished", "timed out", "crashed"}

Answers == {"200", "other", "failed"}
Names == {pages[i] : i \in DOMAIN pages}

\* The directory may hold the pictures of an earlier run.
Init ==
    /\ pc = "launching"
    /\ retries = Retries
    /\ answer = "none"
    /\ tab = "blank"
    /\ next = 1
    /\ files = [p \in Names |-> "earlier"]

-----------------------------------------------------------------------------
\* The browser starts, with its tab, and the directory is made.
Launch ==
    /\ pc = "launching"
    /\ pc' = "loop"
    /\ UNCHANGED <<retries, answer, tab, next, files>>

\* Nothing catches an error of the launch, nor of the close.
Crash ==
    /\ pc \in {"launching", "closing"}
    /\ pc' = "crashed"
    /\ UNCHANGED <<retries, answer, tab, next, files>>

\* What the tab shows after a navigation to p: one that failed may have left
\* the old page, an error of the browser, or part of the new page. One that did
\* not fail shows p, since no route of the server for a page redirects.
Shows(p, a) == IF a = "failed" THEN {tab, "error", p} ELSE {p}

\* The loop asks for /health.
AskHealth ==
    /\ pc = "loop" /\ retries > 0
    /\ pc' = "asking"
    /\ UNCHANGED <<retries, answer, tab, next, files>>

\* A bug: a failed attempt is not counted.
RetriesUncounted(a) == retries

\* An exception costs a retry, and a second of waiting. An answer other than 200
\* costs neither.
RetriesAfter(a) == IF a = "failed" THEN retries - 1 ELSE retries

HealthAnswered(a) ==
    /\ pc = "asking"
    /\ answer' = a
    /\ tab' \in Shows("health", a)
    /\ retries' = RetriesAfter(a)
    /\ pc' = IF a = "200" THEN "capturing" ELSE "loop"
    /\ UNCHANGED <<next, files>>

\* No retries are left.
TimeOut ==
    /\ pc = "loop" /\ retries = 0
    /\ pc' = "timed out"
    /\ UNCHANGED <<retries, answer, tab, next, files>>

-----------------------------------------------------------------------------
\* A bug: the picture is taken although the navigation failed.
AfterGotoAlways(a) == "shooting"

\* An exception ends the turn of the page; the status is not looked at.
AfterGoto(a) == IF a = "failed" THEN "capturing" ELSE "shooting"

Goto(a) ==
    /\ pc = "capturing" /\ next <= Len(pages)
    /\ answer' = a
    /\ tab' \in Shows(pages[next], a)
    /\ pc' = AfterGoto(a)
    /\ next' = IF AfterGoto(a) = "capturing" THEN next + 1 ELSE next
    /\ UNCHANGED <<retries, files>>

\* After two seconds the picture is taken, unless that fails.
Screenshot(taken) ==
    /\ pc = "shooting"
    /\ files' = IF taken THEN [files EXCEPT ![pages[next]] = tab] ELSE files
    /\ next' = next + 1
    /\ pc' = "capturing"
    /\ UNCHANGED <<retries, answer, tab>>

AllDone ==
    /\ pc = "capturing" /\ next > Len(pages)
    /\ pc' = "closing"
    /\ UNCHANGED <<retries, answer, tab, next, files>>

Close ==
    /\ pc = "closing"
    /\ pc' = "finished"
    /\ UNCHANGED <<retries, answer, tab, next, files>>

Next ==
    \/ Launch
    \/ Crash
    \/ AskHealth
    \/ \E a \in Answers : HealthAnswered(a)
    \/ TimeOut
    \/ \E a \in Answers : Goto(a)
    \/ \E taken \in BOOLEAN : Screenshot(taken)
    \/ AllDone
    \/ Close

\* Every await ends: playwright gives a navigation 30 seconds.
FairSpec == Init /\ [][Next]_vars /\ WF_vars(Next)

-----------------------------------------------------------------------------
(***************************************************************************)
(* Properties                                                              *)
(***************************************************************************)

\* A picture shows the page it is named after or is that of an earlier run:
\* the tab is shared, and a navigation that failed may leave it on any page.
PicturesMatch == \A p \in Names : files[p] \in {"earlier", p}

\* The script comes to an end, whatever fails and however often, unless the
\* server answers /health with another status than 200 from some time on.
ScriptEnds ==
    <>Ended \/ <>[](pc \in {"loop", "asking"} /\ answer = "other")
=============================================================================
