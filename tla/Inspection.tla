----------------------------- MODULE Inspection -----------------------------
(***************************************************************************)
(* The read-only commands self, list and status (runCommand in             *)
(* sessionctl.mjs).  What one of them prints is put together from several  *)
(* answers: the metadata of each thread from thread/read or a page of      *)
(* thread/list, its goal from a thread/goal/get of its own.  The goals of  *)
(* a page are asked for at once and answered in any order, while the       *)
(* threads go on changing, and one refused answer fails the command.       *)
(***************************************************************************)
EXTENDS Naturals, FiniteSets

CONSTANTS Thread,
          GoalStatus,   \* GOAL_STATUSES
          Runtime,      \* THREAD_STATUSES
          Limit,        \* of `list`
          MaxChanges    \* bound: what the other sessions do meanwhile

ASSUME InspectionAssumption == Limit \in Nat \ {0} /\ MaxChanges \in Nat

VARIABLES listed,    \* threads in the table
          runtime,   \* thread -> its runtime status
          goal,      \* thread -> its goal, if any, as a set
          changes,
          command, pc,
          asked,     \* requests outstanding
          session,   \* thread -> runtime status to be printed
          reported,  \* thread -> goal to be printed
          truncated,
          still,     \* history: threads listed from the start on
          had        \* history: thread -> what was true of it at some moment

tableVars   == <<listed, runtime, goal>>
commandVars == <<command, pc, asked, session, reported, truncated>>
vars == <<tableVars, changes, commandVars, still, had>>

Goal(t) == {{}} \cup {{[threadId |-> t, status |-> s]} : s \in GoalStatus}
Nothing == [t \in {} |-> {}]
With(f, t, v) == [u \in DOMAIN f \cup {t} |-> IF u = t THEN v ELSE f[u]]

\* self reads its own thread and goal together; status has found its target.
Init ==
  /\ listed \in SUBSET Thread
  /\ runtime \in [Thread -> Runtime]
  /\ goal \in {g \in [Thread -> UNION {Goal(t) : t \in Thread}] : \A t \in Thread : g[t] \in Goal(t)}
  /\ changes = 0
  /\ \/ command \in {"list", "status"} /\ pc = "threads" /\ asked = {}
     \/ command = "self" /\ pc = "parts" /\ \E t \in Thread : asked = {"thread", "goal"} \X {t}
  /\ session = Nothing /\ reported = Nothing /\ truncated = FALSE
  /\ still = listed
  /\ had = [t \in Thread |-> {runtime[t], goal[t]}]

-----------------------------------------------------------------------------
\* The other sessions.

Changes(t) ==
  /\ changes < MaxChanges /\ changes' = changes + 1
  /\ \/ /\ \E r \in Runtime : runtime' = [runtime EXCEPT ![t] = r]
        /\ UNCHANGED <<listed, goal>>
     \/ /\ \E g \in Goal(t) : goal' = [goal EXCEPT ![t] = g]
        /\ UNCHANGED <<listed, runtime>>
     \/ /\ listed' = IF t \in listed THEN listed \ {t} ELSE listed \cup {t}
        /\ UNCHANGED <<runtime, goal>>
  /\ still' = still \cap listed'
  /\ had' = [had EXCEPT ![t] = @ \cup {runtime'[t], goal'[t]}]
  /\ UNCHANGED commandVars

-----------------------------------------------------------------------------
\* The command.  A thread or a goal that does not validate fails it.

Fail == pc' = "failed" /\ asked' = {} /\ UNCHANGED <<command, session, reported, truncated>>

\* Faulty: a page is taken for the last when it is not full.
AskGoalsOfShortPage(page, more) ==
  /\ session' = [t \in page |-> runtime[t]]
  /\ truncated' = (Cardinality(page) = Limit)
  /\ asked' = {"goal"} \X page
  /\ pc' = IF page = {} THEN "done" ELSE "parts"
  /\ UNCHANGED <<command, reported>>

AskGoals(page, more) ==
  /\ session' = [t \in page |-> runtime[t]]
  /\ truncated' = more
  /\ asked' = {"goal"} \X page
  /\ pc' = IF page = {} THEN "done" ELSE "parts"
  /\ UNCHANGED <<command, reported>>

\* Only the last page has no cursor; status looks at one thread.
PageAnswered ==
  /\ pc = "threads"
  /\ \E page \in SUBSET listed, more \in BOOLEAN :
       /\ IF command = "list"
          THEN Cardinality(page) <= Limit /\ (more = FALSE => page = listed)
          ELSE Cardinality(page) = 1 /\ more = FALSE
       /\ AskGoals(page, more)
  /\ UNCHANGED <<tableVars, changes, still, had>>

\* Faulty: the first of the answers ends the wait.
ReceivedFirst(part, t) ==
  /\ asked' = asked \ {<<part, t>>}
  /\ pc' = "done"
  /\ UNCHANGED <<command, truncated>>

\* Promise.all
Received(part, t) ==
  /\ asked' = asked \ {<<part, t>>}
  /\ pc' = IF asked' = {} THEN "done" ELSE pc
  /\ UNCHANGED <<command, truncated>>

ReadThread(t) ==
  /\ <<"thread", t>> \in asked /\ t \in listed
  /\ session' = With(session, t, runtime[t])
  /\ UNCHANGED reported
  /\ Received("thread", t)
  /\ UNCHANGED <<tableVars, changes, still, had>>

Belongs(g, t) == \A x \in g : x.threadId = t

\* Faulty: a goal is taken for that of the thread it was asked for.
NormalizeAnyGoal(g, t) ==
  /\ reported' = With(reported, t, g)
  /\ UNCHANGED session
  /\ Received("goal", t)

NormalizeGoal(g, t) ==
  IF Belongs(g, t)
  THEN /\ reported' = With(reported, t, g)
       /\ UNCHANGED session
       /\ Received("goal", t)
  ELSE Fail

\* The server answers with the goal of t, or with that of another thread.
ReadGoal(t) ==
  /\ <<"goal", t>> \in asked
  /\ \E u \in Thread : (u = t \/ goal[u] # {}) /\ NormalizeGoal(goal[u], t)
  /\ UNCHANGED <<tableVars, changes, still, had>>

RequestFails ==
  /\ pc \in {"threads", "parts"}
  /\ Fail
  /\ UNCHANGED <<tableVars, changes, still, had>>

Next ==
  \/ \E t \in Thread : Changes(t) \/ ReadThread(t) \/ ReadGoal(t)
  \/ PageAnswered
  \/ RequestFails

Spec == Init /\ [][Next]_vars

-----------------------------------------------------------------------------
TypeOK ==
  /\ listed \subseteq Thread /\ still \subseteq listed
  /\ runtime \in [Thread -> Runtime] /\ \A t \in Thread : goal[t] \in Goal(t)
  /\ changes \in 0 .. MaxChanges
  /\ command \in {"self", "list", "status"} /\ pc \in {"threads", "parts", "done", "failed"}
  /\ asked \subseteq {"thread", "goal"} \X Thread /\ (pc = "parts" <=> asked # {})
  /\ DOMAIN session \cup DOMAIN reported \subseteq Thread
  /\ truncated \in BOOLEAN
  /\ \A t \in Thread : {runtime[t], goal[t]} \subseteq had[t]

(***************************************************************************)
(* Every part that is printed of a thread was true of that very thread     *)
(* while the command ran, and each printed thread has both parts.  Nothing *)
(* says that the two were true together.                                   *)
(***************************************************************************)
PartsWereTrue ==
  pc = "done" =>
    /\ DOMAIN session = DOMAIN reported
    /\ \A t \in DOMAIN session : {session[t], reported[t]} \subseteq had[t]

(***************************************************************************)
(* A list that is not marked truncated leaves out no thread that was there *)
(* the whole time.                                                         *)
(***************************************************************************)
CompleteUnlessTruncated ==
  pc = "done" /\ command = "list" /\ ~truncated => still \subseteq DOMAIN session

=============================================================================
