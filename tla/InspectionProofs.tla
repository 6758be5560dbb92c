-------------------------- MODULE InspectionProofs --------------------------
(***************************************************************************)
(* What self, list and status print is true and complete (Inspection), for *)
(* every set of threads, however often these change meanwhile and in       *)
(* whatever order the answers come.                                        *)
(***************************************************************************)
EXTENDS Inspection, TLAPS

\* What is to be printed was true, and what is still asked for completes it.
PartsSoFar ==
  /\ \A t \in DOMAIN session : session[t] \in had[t]
  /\ \A t \in DOMAIN reported : reported[t] \in had[t]
  /\ pc \in {"parts", "done"} => \A t \in Thread :
       t \in DOMAIN session \/ <<"thread", t>> \in asked
         <=> t \in DOMAIN reported \/ <<"goal", t>> \in asked

\* A page that is not truncated showed what was listed; nobody joins still.
PageSoFar ==
  /\ pc = "threads" => session = Nothing /\ reported = Nothing
  /\ command = "list" /\ pc \in {"parts", "done"} /\ ~truncated =>
       still \subseteq DOMAIN session

\* Both are inductive together with the types.
Inv ==
  /\ TypeOK
  /\ goal = [t \in Thread |-> goal[t]] /\ had = [t \in Thread |-> had[t]]
  /\ PartsSoFar
  /\ PageSoFar

\* Nothing is printed of no thread.
LEMMA EmptyFunction == DOMAIN Nothing = {}
  BY DEF Nothing

\* A goal of t names t.
LEMMA GoalFacts ==
  ASSUME NEW t \in Thread, NEW g \in Goal(t)
  PROVE  \A x \in g : x.threadId = t
  BY DEF Goal

-----------------------------------------------------------------------------
\* A command begins with nothing to print, and self with its two requests.
LEMMA InitInv == Init => Inv
<1> SUFFICES ASSUME Init PROVE Inv
  OBVIOUS
<1>1. /\ goal = [t \in Thread |-> goal[t]]
      /\ \A t \in Thread : goal[t] \in Goal(t)
      /\ had = [t \in Thread |-> {runtime[t], goal[t]}]
  <2>1. PICK G : goal \in [Thread -> G]
    BY DEF Init
  <2> QED BY <2>1 DEF Init
<1>2. asked \subseteq {"thread", "goal"} \X Thread /\ (pc = "parts" <=> asked # {})
  <2>1. CASE asked = {} /\ pc = "threads"
    BY <2>1
  <2>2. CASE pc = "parts" /\ \E t \in Thread : asked = {"thread", "goal"} \X {t}
    <3>1. PICK t \in Thread : asked = {"thread", "goal"} \X {t}
      BY <2>2
    <3>2. <<"goal", t>> \in asked
      BY <3>1
    <3> QED BY <2>2, <3>1, <3>2
  <2> QED BY <2>1, <2>2 DEF Init
<1>3. TypeOK
  <2>1. \A t \in Thread : {runtime[t], goal[t]} \subseteq had[t]
    BY <1>1
  <2>2. DOMAIN session \cup DOMAIN reported \subseteq Thread
    BY EmptyFunction DEF Init
  <2>3. /\ listed \subseteq Thread /\ still \subseteq listed
        /\ runtime \in [Thread -> Runtime] /\ changes \in 0 .. MaxChanges
        /\ command \in {"self", "list", "status"} /\ pc \in {"threads", "parts", "done", "failed"}
        /\ truncated \in BOOLEAN
    <3>1. changes = 0 /\ MaxChanges \in Nat
      BY InspectionAssumption DEF Init
    <3>2. changes \in 0 .. MaxChanges
      BY <3>1
    <3> QED BY <3>2, Zenon DEF Init
  <2> QED BY <1>1, <1>2, <2>1, <2>2, <2>3 DEF TypeOK
<1>4. PartsSoFar
  <2>1. CASE pc = "threads"
    BY <2>1, EmptyFunction DEF Init, PartsSoFar
  <2>2. CASE \E t \in Thread : asked = {"thread", "goal"} \X {t}
    <3>1. \A t \in Thread : <<"thread", t>> \in asked <=> <<"goal", t>> \in asked
      BY <2>2
    <3> QED BY <3>1, EmptyFunction DEF Init, PartsSoFar
  <2> QED BY <2>1, <2>2 DEF Init
<1>5. PageSoFar
  BY DEF Init, PageSoFar
<1> QED BY <1>1, <1>3, <1>4, <1>5 DEF Inv

\* What happens to a thread leaves the command alone.
LEMMA ChangeKeepsInv ==
  ASSUME Inv, NEW t \in Thread, Changes(t)
  PROVE  Inv'
<1> USE DEF Inv
<1>1. /\ listed' \subseteq Thread
      /\ runtime' \in [Thread -> Runtime]
      /\ goal' = [u \in Thread |-> goal'[u]] /\ \A u \in Thread : goal'[u] \in Goal(u)
      /\ \A u \in Thread \ {t} : runtime'[u] = runtime[u] /\ goal'[u] = goal[u]
  <2>1. CASE (\E r \in Runtime : runtime' = [runtime EXCEPT ![t] = r]) /\ UNCHANGED <<listed, goal>>
    BY <2>1 DEF TypeOK
  <2>2. CASE (\E g \in Goal(t) : goal' = [goal EXCEPT ![t] = g]) /\ UNCHANGED <<listed, runtime>>
    BY <2>2 DEF TypeOK
  <2>3. CASE listed' \in {listed \ {t}, listed \cup {t}} /\ UNCHANGED <<runtime, goal>>
    BY <2>3 DEF TypeOK
  <2> QED BY <2>1, <2>2, <2>3 DEF Changes
<1>2. /\ had' = [u \in Thread |-> had'[u]]
      /\ \A u \in Thread : had[u] \subseteq had'[u] /\ {runtime'[u], goal'[u]} \subseteq had'[u]
  <2>1. had' = [had EXCEPT ![t] = @ \cup {runtime'[t], goal'[t]}]
    BY DEF Changes
  <2>2. had'[t] = had[t] \cup {runtime'[t], goal'[t]} /\ \A u \in Thread \ {t} : had'[u] = had[u]
    BY <2>1
  <2>3. had' = [u \in Thread |-> had'[u]]
    BY <2>1
  <2>4. \A u \in Thread : {runtime[u], goal[u]} \subseteq had[u]
    BY DEF TypeOK
  <2> QED BY <1>1, <2>2, <2>3, <2>4
<1>3. still' \subseteq listed' /\ still' \subseteq still /\ changes' \in 0 .. MaxChanges
  BY InspectionAssumption DEF Changes, TypeOK
<1>4. UNCHANGED <<command, pc, asked, session, reported, truncated>>
  BY DEF Changes, commandVars
<1>5. TypeOK'
  BY <1>1, <1>2, <1>3, <1>4 DEF TypeOK
<1>6. PartsSoFar'
  <2>1. DOMAIN session \subseteq Thread /\ DOMAIN reported \subseteq Thread
    BY DEF TypeOK
  <2> QED BY <1>2, <1>4, <2>1 DEF PartsSoFar
<1>7. PageSoFar'
  BY <1>3, <1>4 DEF PageSoFar
<1> QED BY <1>1, <1>2, <1>5, <1>6, <1>7

\* A failed command prints nothing.
LEMMA FailKeepsInv ==
  ASSUME Inv, Fail, UNCHANGED <<tableVars, changes, still, had>>
  PROVE  Inv'
<1> USE DEF Inv, Fail, tableVars
<1>1. TypeOK'
  BY DEF TypeOK
<1>2. PartsSoFar' /\ PageSoFar'
  BY DEF PartsSoFar, PageSoFar
<1> QED BY <1>1, <1>2

\* A page shows threads as they are and asks for their goals.
LEMMA PageKeepsInv == Inv /\ PageAnswered => Inv'
<1> SUFFICES ASSUME Inv, PageAnswered PROVE Inv'
  OBVIOUS
<1> USE DEF Inv
<1>1. PICK page \in SUBSET listed, more \in BOOLEAN :
        /\ command = "list" => (more = FALSE => page = listed)
        /\ AskGoals(page, more)
  BY DEF PageAnswered
<1>2. /\ pc = "threads" /\ UNCHANGED <<tableVars, changes, still, had>>
      /\ DOMAIN reported = {} /\ UNCHANGED <<command, reported>>
      /\ page \subseteq Thread /\ still \subseteq listed
  BY <1>1, EmptyFunction DEF PageAnswered, PageSoFar, AskGoals, TypeOK
<1>3. /\ session' = [t \in page |-> runtime[t]] /\ truncated' = more
      /\ asked' = {"goal"} \X page /\ pc' = IF page = {} THEN "done" ELSE "parts"
  BY <1>1 DEF AskGoals
<1>4. asked' = {} <=> page = {}
  <2>1. \A t \in page : <<"goal", t>> \in asked'
    BY <1>3
  <2>2. page = {} => asked' = {}
    BY <1>3
  <2> QED BY <2>1, <2>2
<1>5. TypeOK'
  BY <1>2, <1>3, <1>4 DEF TypeOK, tableVars
<1>6. PartsSoFar'
  <2>1. \A t \in page : session'[t] \in had'[t]
    BY <1>2, <1>3 DEF TypeOK
  <2>2. \A t : <<"thread", t>> \notin asked' /\ (<<"goal", t>> \in asked' <=> t \in page)
    BY <1>3
  <2> QED BY <1>2, <1>3, <2>1, <2>2 DEF PartsSoFar
<1>7. PageSoFar'
  BY <1>1, <1>2, <1>3 DEF PageSoFar
<1> QED BY <1>2, <1>5, <1>6, <1>7 DEF tableVars

\* The answer to thread/read is what is true of t by then.
LEMMA ThreadKeepsInv == \A t \in Thread : Inv /\ ReadThread(t) => Inv'
<1> SUFFICES ASSUME NEW t \in Thread, Inv, ReadThread(t) PROVE Inv'
  OBVIOUS
<1> USE DEF Inv
<1>1. /\ <<"thread", t>> \in asked /\ asked' = asked \ {<<"thread", t>>}
      /\ session' = With(session, t, runtime[t])
      /\ pc' = (IF asked' = {} THEN "done" ELSE pc)
      /\ UNCHANGED <<tableVars, changes, still, had, command, truncated, reported>>
  BY DEF ReadThread, Received
<1>2. pc = "parts" /\ runtime[t] \in had[t]
  BY <1>1 DEF TypeOK
<1>3. /\ DOMAIN session' = DOMAIN session \cup {t}
      /\ \A u \in DOMAIN session' : session'[u] \in had[u]
  <2>1. /\ DOMAIN session' = DOMAIN session \cup {t}
        /\ \A u \in DOMAIN session \cup {t} :
             session'[u] = IF u = t THEN runtime[t] ELSE session[u]
    BY <1>1 DEF With
  <2> QED BY <1>2, <2>1 DEF PartsSoFar
<1>4. TypeOK'
  BY <1>1, <1>2, <1>3 DEF TypeOK, tableVars
<1>5. PartsSoFar'
  BY <1>1, <1>2, <1>3 DEF PartsSoFar, TypeOK
<1>6. PageSoFar'
  BY <1>1, <1>2, <1>3 DEF PageSoFar
<1> QED BY <1>1, <1>4, <1>5, <1>6 DEF tableVars

\* The goal of another thread is refused, so what is reported is t's own.
LEMMA GoalKeepsInv == \A t \in Thread : Inv /\ ReadGoal(t) => Inv'
<1> SUFFICES ASSUME NEW t \in Thread, Inv, ReadGoal(t) PROVE Inv'
  OBVIOUS
<1> USE DEF Inv
<1>1. PICK u \in Thread : (u = t \/ goal[u] # {}) /\ NormalizeGoal(goal[u], t)
  BY DEF ReadGoal
<1>2. <<"goal", t>> \in asked /\ UNCHANGED <<tableVars, changes, still, had>>
  BY DEF ReadGoal
<1>3. CASE ~Belongs(goal[u], t)
  BY <1>1, <1>2, <1>3, FailKeepsInv DEF NormalizeGoal
<1>4. CASE Belongs(goal[u], t)
  <2>1. u = t
    <3>1. \A x \in goal[u] : x.threadId = u /\ x.threadId = t
      BY <1>4, GoalFacts DEF Belongs, TypeOK
    <3> QED BY <1>1, <3>1
  <2>2. /\ asked' = asked \ {<<"goal", t>>}
        /\ reported' = With(reported, t, goal[t])
        /\ pc' = (IF asked' = {} THEN "done" ELSE pc)
        /\ UNCHANGED <<command, truncated, session>>
    BY <1>1, <1>4, <2>1 DEF NormalizeGoal, Received
  <2>3. pc = "parts" /\ goal[t] \in had[t]
    BY <1>2 DEF TypeOK
  <2>4. /\ DOMAIN reported' = DOMAIN reported \cup {t}
        /\ \A v \in DOMAIN reported' : reported'[v] \in had[v]
    <3>1. /\ DOMAIN reported' = DOMAIN reported \cup {t}
          /\ \A v \in DOMAIN reported \cup {t} :
               reported'[v] = IF v = t THEN goal[t] ELSE reported[v]
      BY <2>2 DEF With
    <3> QED BY <2>3, <3>1 DEF PartsSoFar
  <2>5. TypeOK'
    BY <1>2, <2>2, <2>3, <2>4 DEF TypeOK, tableVars
  <2>6. PartsSoFar'
    BY <1>2, <2>2, <2>3, <2>4 DEF PartsSoFar, TypeOK
  <2>7. PageSoFar'
    BY <1>2, <2>2, <2>3 DEF PageSoFar
  <2> QED BY <1>2, <2>5, <2>6, <2>7 DEF tableVars
<1> QED BY <1>3, <1>4

\* Every step keeps the invariant.
LEMMA NextInv == Inv /\ [Next]_vars => Inv'
<1> SUFFICES ASSUME Inv, [Next]_vars PROVE Inv'
  OBVIOUS
<1>1. CASE RequestFails
  BY <1>1, FailKeepsInv DEF RequestFails
<1>2. CASE UNCHANGED vars
  BY <1>2 DEF vars, tableVars, commandVars, Inv, TypeOK, PartsSoFar, PageSoFar
<1> QED BY <1>1, <1>2, ChangeKeepsInv, PageKeepsInv, ThreadKeepsInv, GoalKeepsInv DEF Next

-----------------------------------------------------------------------------
\* The inductive invariant holds of every reachable state.
THEOREM Correct == Spec => []Inv
  BY InitInv, NextInv, PTL DEF Spec

\* Every reachable state of self, list and status is well-typed: the command waits
\* exactly while something is asked for, and what is true now counts as seen.
THEOREM TypeCorrect == Spec => []TypeOK
<1>1. Inv => TypeOK
  BY DEF Inv
<1> QED BY <1>1, Correct, PTL

\* What is printed of a thread was true of that very thread while the command ran,
\* and neither of its parts is missing.
THEOREM PartsTrue == Spec => []PartsWereTrue
<1>1. Inv => PartsWereTrue
  <2> SUFFICES ASSUME Inv, pc = "done" PROVE PartsWereTrue
    BY DEF PartsWereTrue
  <2>1. asked = {} /\ DOMAIN session \subseteq Thread /\ DOMAIN reported \subseteq Thread
    BY DEF Inv, TypeOK
  <2>2. DOMAIN session = DOMAIN reported
    BY <2>1 DEF Inv, PartsSoFar
  <2> QED BY <2>2 DEF PartsWereTrue, Inv, PartsSoFar
<1> QED BY <1>1, Correct, PTL

\* A list that is not marked truncated leaves out no thread that was there all along.
THEOREM ListComplete == Spec => []CompleteUnlessTruncated
<1>1. Inv => CompleteUnlessTruncated
  BY DEF Inv, PageSoFar, CompleteUnlessTruncated
<1> QED BY <1>1, Correct, PTL

=============================================================================
