------------------------- MODULE ScreenshotsProofs -------------------------
(***************************************************************************)
(* Proofs about Screenshots, for every number of retries.                  *)
(***************************************************************************)
EXTENDS Screenshots, TLAPS

\* The pictures can only be right because the tab is when one is taken.
TabInv ==
    /\ next \in Nat \ {0}
    /\ DOMAIN files = Names
    /\ pc = "shooting" => next \in DOMAIN pages /\ tab = pages[next]
    /\ PicturesMatch

\* Every step preserves the invariant.
LEMMA NextTab == ASSUME TabInv, [Next]_vars PROVE TabInv'
<1>1. CASE \E a \in Answers : Goto(a)
  <2>1. PICK a \in Answers : Goto(a)
    BY <1>1
  <2>2. next \in DOMAIN pages
    BY <2>1 DEF Goto, TabInv, pages
  <2>3. AfterGoto(a) = "shooting" => tab' = pages[next]
    BY <2>1 DEF Goto, AfterGoto, Shows
  <2>4. AfterGoto(a) \in {"shooting", "capturing"}
    BY DEF AfterGoto
  <2> QED BY <2>1, <2>2, <2>3, <2>4 DEF Goto, TabInv, PicturesMatch
<1>2. CASE \E taken \in BOOLEAN : Screenshot(taken)
  <2>1. /\ pc = "shooting" /\ pc' = "capturing" /\ next' = next + 1
        /\ files' \in {files, [files EXCEPT ![pages[next]] = tab]}
    BY <1>2 DEF Screenshot
  <2>2. tab = pages[next] /\ DOMAIN files = Names
    BY <2>1 DEF TabInv
  <2>3. DOMAIN files' = Names
    BY <2>1, <2>2
  <2>4. \A p \in Names : files'[p] = files[p] \/ files'[p] = p
    BY <2>1, <2>2
  <2> QED BY <2>1, <2>3, <2>4 DEF TabInv, PicturesMatch
<1>3. CASE pc' # "shooting" /\ UNCHANGED <<next, files>>
  BY <1>3 DEF TabInv, PicturesMatch
<1>4. CASE UNCHANGED vars
  BY <1>4 DEF TabInv, PicturesMatch, vars
<1>5. ASSUME Launch \/ Crash \/ AskHealth \/ TimeOut \/ AllDone \/ Close
             \/ \E a \in Answers : HealthAnswered(a)
      PROVE  pc' # "shooting" /\ UNCHANGED <<next, files>>
  BY <1>5 DEF Launch, Crash, AskHealth, TimeOut, AllDone, Close, HealthAnswered
<1> QED BY <1>1, <1>2, <1>3, <1>4, <1>5 DEF Next

\* Whichever navigations fail, no picture of the script shows another page than
\* the one it is named after, as long as no page redirects to another.
THEOREM PicturesCorrect == FairSpec => []PicturesMatch
<1>1. Init => TabInv
  BY DEF Init, TabInv, PicturesMatch
<1>2. TabInv => PicturesMatch
  BY DEF TabInv
<1> QED BY <1>1, <1>2, NextTab, PTL DEF FairSpec
=============================================================================
