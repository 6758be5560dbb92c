-------------------------- MODULE TargetScanProofs --------------------------
(***************************************************************************)
(* Theorems about the resolution of a target, for every set of threads and *)
(* every page size and page limit.                                         *)
(***************************************************************************)
EXTENDS TargetScan, TLAPS

\* A thread that stood still is not lost between the pages: as long as the
\* scan goes on, the cursor has either shown it or is still in front of it.
NothingStillIsSkipped == pc = "list" => still \cap bearers \subseteq matches \cup behind

\* What the position in the command says about the scan.
Scanning ==
  /\ pc = "list" => pages < MaxScanPages /\ target = {} /\ OnlyOne(matches)
  /\ pc = "resolve" => ~ByName
  /\ ByName /\ pc \in {"read", "done"} => target = matches /\ still \cap bearers \subseteq matches
  /\ why # "none" => pc = "failed"
  /\ why = "ambiguous_target" => ~OnlyOne(matches)
  /\ why = "target_not_found" => still \cap bearers = {}

Inv ==
  /\ TypeOK
  /\ NothingStillIsSkipped
  /\ Scanning
  /\ bearers \subseteq bore /\ matches \subseteq bore

LEMMA InitInv == Init => Inv
<1> SUFFICES ASSUME Init PROVE Inv
  OBVIOUS
<1>1. TypeOK
  BY ScanAssumption DEF Init, TypeOK, OnlyOne
<1>2. NothingStillIsSkipped /\ Scanning
  BY ScanAssumption DEF Init, NothingStillIsSkipped, Scanning, ByName, OnlyOne
<1> QED BY <1>1, <1>2 DEF Init, Inv

-----------------------------------------------------------------------------
\* What another session does to t disturbs what is known of no other thread.
LEMMA TableStep ==
  ASSUME TypeOK, NEW t \in Thread, Touched(t) \/ Renamed(t) \/ Archived(t) \/ Created(t)
  PROVE  /\ bearers' \subseteq listed' /\ listed' \subseteq Thread
         /\ still' \subseteq listed' /\ still' = still \ {t}
         /\ still' \cap bearers' \subseteq (still \cap bearers) \ {t}
         /\ behind' \in {behind, behind \ {t}, listed'}
         /\ bore' = bore \cup bearers' /\ alone' \subseteq alone \cup bearers'
         /\ UNCHANGED scanVars
<1> USE DEF TypeOK, Happens, Moves
<1>1. CASE Touched(t)
  BY <1>1 DEF Touched, tableVars
<1>2. CASE Renamed(t)
  BY <1>2 DEF Renamed
<1>3. CASE Archived(t)
  BY <1>3 DEF Archived
<1>4. CASE Created(t)
  BY <1>4 DEF Created
<1> QED BY <1>1, <1>2, <1>3, <1>4

LEMMA TableKeepsInv ==
  ASSUME Inv, NEW t \in Thread, Touched(t) \/ Renamed(t) \/ Archived(t) \/ Created(t)
  PROVE  Inv'
<1> USE DEF Inv
<1>1. /\ bearers' \subseteq listed' /\ listed' \subseteq Thread
      /\ still' \subseteq listed' /\ still' = still \ {t}
      /\ still' \cap bearers' \subseteq (still \cap bearers) \ {t}
      /\ behind' \in {behind, behind \ {t}, listed'}
      /\ bore' = bore \cup bearers' /\ alone' \subseteq alone \cup bearers'
      /\ UNCHANGED <<matches, pages, target, pc, why>>
  BY TableStep DEF scanVars
<1>2. TypeOK'
  BY <1>1 DEF TypeOK
<1>3. NothingStillIsSkipped'
  BY <1>1 DEF NothingStillIsSkipped
<1>4. Scanning'
  BY <1>1 DEF Scanning, ByName
<1> QED BY <1>1, <1>2, <1>3, <1>4

-----------------------------------------------------------------------------
\* A page that is not the last leaves unseen threads behind the cursor, and
\* the last one shows all of them.
LEMMA PageShows ==
  ASSUME Inv, pc = "list", NEW page \in SUBSET Thread, NEW more \in BOOLEAN,
         Page(page, more), NEW found, found = matches \cup (page \cap bearers)
  PROVE  /\ still \cap bearers \subseteq found \cup (behind \ page)
         /\ ~more => still \cap bearers \subseteq found
         /\ found \subseteq Thread /\ found \subseteq bore
  BY DEF Inv, TypeOK, NothingStillIsSkipped, Page

LEMMA ScanKeepsInv == Inv /\ ScanPage => Inv'
<1> SUFFICES ASSUME Inv, ScanPage PROVE Inv'
  OBVIOUS
<1> USE DEF Inv
<1>1. PICK page \in SUBSET Thread, more \in BOOLEAN :
        /\ Page(page, more)
        /\ matches' = matches \cup (page \cap bearers)
        /\ AfterPage(matches', more)
        /\ behind' = behind \ page
  BY DEF ScanPage
<1>2. /\ still \cap bearers \subseteq matches' \cup behind'
      /\ ~more => still \cap bearers \subseteq matches'
      /\ matches' \subseteq Thread /\ matches' \subseteq bore
  BY <1>1, PageShows DEF ScanPage
<1>3. /\ pc = "list" /\ pages' = pages + 1 /\ pages \in 0 .. MaxScanPages
      /\ pages < MaxScanPages /\ target = {} /\ why = "none"
      /\ UNCHANGED <<listed, bearers, still, bore, alone>>
  BY DEF ScanPage, tableVars, historyVars, TypeOK, Scanning
<1>4. pages' \in 0 .. MaxScanPages /\ pages' > 0
  BY <1>3, ScanAssumption
<1>5. behind' \subseteq Thread
  BY <1>1 DEF TypeOK
<1>6. CASE ~OnlyOne(matches')
  <2>1. pc' = "failed" /\ why' = "ambiguous_target" /\ target' = {}
    BY <1>1, <1>3, <1>6 DEF AfterPage, Fail
  <2>2. TypeOK' /\ NothingStillIsSkipped' /\ Scanning'
    BY <1>2, <1>3, <1>4, <1>5, <1>6, <2>1
       DEF TypeOK, NothingStillIsSkipped, Scanning, ByName, OnlyOne
  <2> QED BY <1>2, <1>3, <2>2
<1>7. CASE OnlyOne(matches') /\ ReadsOn(more)
  <2>1. UNCHANGED <<pc, why, target>>
    BY <1>1, <1>7 DEF AfterPage
  <2>2. pages' < MaxScanPages
    BY <1>3, <1>7 DEF ReadsOn
  <2>3. TypeOK' /\ NothingStillIsSkipped' /\ Scanning'
    BY <1>2, <1>3, <1>4, <1>5, <1>7, <2>1, <2>2
       DEF TypeOK, NothingStillIsSkipped, Scanning, ByName, OnlyOne
  <2> QED BY <1>2, <1>3, <2>3
<1>8. CASE OnlyOne(matches') /\ ~ReadsOn(more)
  <2>1. Conclude(matches', more)
    BY <1>1, <1>8 DEF AfterPage
  <2>2. CASE more
    <3>1. pc' = "failed" /\ why' = "target_scan_limit" /\ target' = {}
      BY <1>3, <2>1, <2>2 DEF Conclude, Fail
    <3>2. TypeOK' /\ NothingStillIsSkipped' /\ Scanning'
      BY <1>2, <1>3, <1>4, <1>5, <1>8, <3>1
         DEF TypeOK, NothingStillIsSkipped, Scanning, ByName, OnlyOne
    <3> QED BY <1>2, <1>3, <3>2
  <2>3. CASE ~more /\ matches' = {}
    <3>1. pc' = "failed" /\ why' = "target_not_found" /\ target' = {}
      BY <1>3, <2>1, <2>3 DEF Conclude, Fail
    <3>2. TypeOK' /\ NothingStillIsSkipped' /\ Scanning'
      BY <1>2, <1>3, <1>4, <1>5, <1>8, <2>3, <3>1
         DEF TypeOK, NothingStillIsSkipped, Scanning, ByName, OnlyOne
    <3> QED BY <1>2, <1>3, <3>2
  <2>4. CASE ~more /\ matches' # {}
    <3>1. pc' = "read" /\ why' = "none" /\ target' = matches'
      BY <1>3, <2>1, <2>4 DEF Conclude, Resolved
    <3>2. TypeOK' /\ NothingStillIsSkipped' /\ Scanning'
      BY <1>2, <1>3, <1>4, <1>5, <1>8, <2>4, <3>1
         DEF TypeOK, NothingStillIsSkipped, Scanning, ByName
    <3> QED BY <1>2, <1>3, <3>2
  <2> QED BY <2>2, <2>3, <2>4
<1> QED BY <1>6, <1>7, <1>8

LEMMA NextInv == Inv /\ [Next]_vars => Inv'
<1> SUFFICES ASSUME Inv, [Next]_vars PROVE Inv'
  OBVIOUS
<1> USE DEF Inv
<1>1. CASE \E t \in Thread : Touched(t) \/ Renamed(t) \/ Archived(t) \/ Created(t)
  BY <1>1, TableKeepsInv
<1>2. CASE ScanPage
  BY <1>2, ScanKeepsInv
<1>3. CASE ReadThread
  BY <1>3 DEF ReadThread, tableVars, historyVars, TypeOK, NothingStillIsSkipped,
              Scanning, ByName
<1>4. CASE RequestFails
  BY <1>4 DEF RequestFails, Fail, tableVars, historyVars, TypeOK,
              NothingStillIsSkipped, Scanning, ByName
<1>5. CASE UNCHANGED vars
  BY <1>5 DEF vars, tableVars, scanVars, historyVars, TypeOK, NothingStillIsSkipped,
              Scanning, ByName
<1> QED BY <1>1, <1>2, <1>3, <1>4, <1>5 DEF Next

-----------------------------------------------------------------------------
\* Every reachable state has well-typed variables; the pages stay in their limit.
THEOREM TypeCorrect == Spec => []TypeOK
<1>1. Inv => TypeOK
  BY DEF Inv
<1> QED BY InitInv, NextInv, <1>1, PTL DEF Spec

\* A name leads to a thread that bore it, and past no other unmoved bearer.
THEOREM Resolves == Spec => []ResolvesToTheOne
<1>1. Inv => ResolvesToTheOne
  BY DEF Inv, Scanning, ResolvesToTheOne
<1> QED BY InitInv, NextInv, <1>1, PTL DEF Spec

\* "ambiguous_target" and "target_not_found" are said of a name for cause.
THEOREM Refuses == Spec => []RefusesForCause
<1>1. Inv => RefusesForCause
  BY DEF Inv, Scanning, RefusesForCause, OnlyOne
<1> QED BY InitInv, NextInv, <1>1, PTL DEF Spec

=============================================================================
