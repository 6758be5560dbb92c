----------------------------- MODULE TargetScan -----------------------------
(***************************************************************************)
(* resolveTarget (sessionctl.mjs) and the read of the target by id that    *)
(* follows it, against a thread table that changes between any two         *)
(* requests.  Pages are cut from the order by updated_at: a thread that is *)
(* touched while it is still behind the cursor moves in front of it, and   *)
(* no later page shows it.                                                 *)
(*                                                                         *)
(* A request, its answer and the continuation are one step: the            *)
(* continuation looks at nothing but the answer.                           *)
(***************************************************************************)
EXTENDS Naturals, FiniteSets

CONSTANTS Thread,
          PageSize,      \* TARGET_SCAN_PAGE_SIZE
          MaxScanPages   \* MAX_TARGET_SCAN_PAGES

ASSUME ScanAssumption == PageSize \in Nat \ {0} /\ MaxScanPages \in Nat \ {0}

VARIABLES listed,    \* threads in the table
          bearers,   \* those that bear the wanted name now
          behind,    \* threads behind the cursor
          matches, pages,
          target,    \* the thread that was resolved, if any, as a set
          pc,        \* the request that is awaited, "done" or "failed"
          why,       \* the error that ended the command
          still,     \* history: threads that nothing has happened to
          bore,      \* history: threads that have borne the name
          alone      \* history: threads that were its only bearer

tableVars   == <<listed, bearers>>
scanVars    == <<matches, pages, target, pc, why>>
historyVars == <<still, bore, alone>>
vars == <<tableVars, behind, scanVars, historyVars>>

OnlyOne(S) == \A s, t \in S : s = t

\* The target is a name, or a UUID, which no name is ever compared with.
Init ==
  /\ listed \in SUBSET Thread /\ bearers \in SUBSET listed /\ behind = listed
  /\ matches = {} /\ pages = 0 /\ why = "none"
  /\ \/ pc = "list" /\ target = {}
     \/ pc = "resolve" /\ \E t \in Thread : target = {t}
  /\ still = listed /\ bore = bearers
  /\ alone = IF OnlyOne(bearers) THEN bearers ELSE {}

-----------------------------------------------------------------------------
\* The other sessions: a thread is touched, renamed, archived or created.

\* t is no longer behind the cursor, if there is one.
Moves(t) == behind' = IF pages = 0 THEN listed' ELSE behind \ {t}

Happens(t) ==
  /\ still' = still \ {t}
  /\ bore' = bore \cup bearers'
  /\ alone' = IF OnlyOne(bearers') THEN alone \cup bearers' ELSE alone
  /\ UNCHANGED scanVars

Touched(t) ==
  /\ t \in listed
  /\ UNCHANGED tableVars
  /\ Moves(t)
  /\ Happens(t)

Renamed(t) ==
  /\ t \in listed
  /\ bearers' = IF t \in bearers THEN bearers \ {t} ELSE bearers \cup {t}
  /\ UNCHANGED <<listed, behind>>
  /\ Happens(t)

Archived(t) ==
  /\ t \in listed
  /\ listed' = listed \ {t} /\ bearers' = bearers \ {t}
  /\ Moves(t)
  /\ Happens(t)

Created(t) ==
  /\ t \notin listed
  /\ listed' = listed \cup {t} /\ bearers' \in {bearers, bearers \cup {t}}
  /\ Moves(t)
  /\ Happens(t)

-----------------------------------------------------------------------------
\* resolveTarget

Fail(code) == pc' = "failed" /\ why' = code /\ UNCHANGED target

\* A page of what is behind the cursor; only the last one has no cursor.
Page(page, more) ==
  /\ page \in SUBSET behind /\ Cardinality(page) <= PageSize
  /\ more = FALSE => page = behind

\* Faulty: one page too many.
ReadsOnTooLong(more) == more /\ pages < MaxScanPages

ReadsOn(more) == more /\ pages + 1 < MaxScanPages

Resolved(found) == target' = found /\ pc' = "read" /\ UNCHANGED why

\* Faulty: what was found before the limit is good enough.
ConcludeAtLimit(found, more) ==
  IF found = {} THEN Fail("target_not_found") ELSE Resolved(found)

\* Faulty: the checks that end the scan are swapped.
ConcludeSwapped(found, more) ==
  IF found = {} THEN Fail("target_not_found")
  ELSE IF more THEN Fail("target_scan_limit")
  ELSE Resolved(found)

Conclude(found, more) ==
  IF more THEN Fail("target_scan_limit")
  ELSE IF found = {} THEN Fail("target_not_found")
  ELSE Resolved(found)

AfterPage(found, more) ==
  IF ~OnlyOne(found) THEN Fail("ambiguous_target")
  ELSE IF ReadsOn(more) THEN UNCHANGED <<pc, why, target>>
  ELSE Conclude(found, more)

ScanPage ==
  /\ pc = "list"
  /\ \E page \in SUBSET Thread, more \in BOOLEAN :
       /\ Page(page, more)
       /\ matches' = matches \cup (page \cap bearers)
       /\ AfterPage(matches', more)
       /\ behind' = behind \ page
  /\ pages' = pages + 1
  /\ UNCHANGED <<tableVars, historyVars>>

\* A UUID is read at once, and `send` reads a resolved target once more.
ReadThread ==
  /\ pc \in {"resolve", "read"} /\ target \subseteq listed
  /\ pc' = IF pc = "resolve" THEN "read" ELSE "done"
  /\ UNCHANGED <<tableVars, behind, matches, pages, target, why, historyVars>>

\* An answer is refused, an error or too late.
RequestFails ==
  /\ pc \in {"list", "resolve", "read"}
  /\ Fail("app_server")
  /\ UNCHANGED <<tableVars, behind, matches, pages, historyVars>>

Next ==
  \/ \E t \in Thread : Touched(t) \/ Renamed(t) \/ Archived(t) \/ Created(t)
  \/ ScanPage
  \/ ReadThread
  \/ RequestFails

Spec == Init /\ [][Next]_vars

-----------------------------------------------------------------------------
ByName == pages > 0

TypeOK ==
  /\ bearers \subseteq listed /\ listed \subseteq Thread
  /\ behind \subseteq Thread /\ matches \subseteq Thread
  /\ OnlyOne(matches) \/ why = "ambiguous_target"
  /\ pages \in 0 .. MaxScanPages
  /\ target \subseteq Thread /\ OnlyOne(target)
  /\ pc \in {"list", "resolve", "read", "done", "failed"}
  /\ why \in {"none", "ambiguous_target", "target_scan_limit", "target_not_found", "app_server"}
  /\ still \subseteq listed /\ bore \subseteq Thread /\ alone \subseteq bore

(***************************************************************************)
(* A name leads to a thread that bore it during the command, and to no     *)
(* thread while another one that nobody has touched bears it as well.      *)
(***************************************************************************)
ResolvesToTheOne ==
  ByName /\ pc \in {"read", "done"} =>
    target \subseteq bore /\ still \cap bearers \subseteq target

(***************************************************************************)
(* A refusal has its cause: two threads have borne an ambiguous name, and  *)
(* a name that is not found is borne by no thread that stood still.        *)
(***************************************************************************)
RefusesForCause ==
  /\ why = "ambiguous_target" => ~OnlyOne(bore)
  /\ why = "target_not_found" => still \cap bearers = {}

(***************************************************************************)
(* SKILL.md: "Stop on missing or duplicate names"; a name that leads to a  *)
(* thread was, at some moment of the command, borne by that thread alone.  *)
(***************************************************************************)
StopsOnDuplicates == ByName /\ pc \in {"read", "done"} => target \subseteq alone

=============================================================================
