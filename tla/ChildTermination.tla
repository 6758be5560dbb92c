-------------------------- MODULE ChildTermination --------------------------
(***************************************************************************)
(* terminateChild (lib/process.mjs) at work on the children the helper     *)
(* owns, the app-server proxy and `codex queue`: the owner calls it once   *)
(* per child, at any moment of the child's life, and Node's events and the *)
(* grace timers follow in any order.                                       *)
(***************************************************************************)
EXTENDS ChildProcess

CONSTANT Owner      \* the callers of spawn(), one child each

VARIABLES child,    \* owner -> child, a record of ChildProcess
          called    \* the owners that have called terminateChild

childVars == <<child, called>>

\* The proxy's stdout and stderr are read, of `codex queue` only stderr.
Started == {NotStarted, Spawned(Pipe), Spawned({"stderr"})}

ChildInit == child \in [Owner -> Started] /\ called = {}

Becomes(o, c) == child' = [child EXCEPT ![o] = c]

\* close() of the client and the queue's timer each run once.
Terminate(o) ==
  /\ o \notin called
  /\ called' = called \cup {o}
  /\ Becomes(o, TerminateChild(child[o]))

Dies(o) == \E e \in Ends :
  CanEnd(child[o]) /\ Becomes(o, Ended(child[o], e)) /\ UNCHANGED called

ReachesEOF(o) == \E p \in Pipe :
  CanDrain(child[o], p) /\ Becomes(o, Drained(child[o], p)) /\ UNCHANGED called

ExitIsSeen(o) ==
  CanNotice(child[o]) /\ Becomes(o, Noticed(child[o])) /\ UNCHANGED called
SpawnFails(o) ==
  CanError(child[o]) /\ Becomes(o, Errored(child[o])) /\ UNCHANGED called
GraceEnds(o) ==
  CanExpire(child[o]) /\ Becomes(o, GraceExpired(child[o])) /\ UNCHANGED called
Closes(o) ==
  CanClose(child[o]) /\ Becomes(o, ClosedBy(child[o])) /\ UNCHANGED called

ChildNext == \E o \in Owner :
  \/ Terminate(o)
  \/ Dies(o)
  \/ ReachesEOF(o)
  \/ ExitIsSeen(o)
  \/ SpawnFails(o)
  \/ GraceEnds(o)
  \/ Closes(o)

\* A timer that is armed fires; nothing is assumed of the child or the system.
ChildFairness == \A o \in Owner : WF_childVars(GraceEnds(o))

ChildSpec == ChildInit /\ [][ChildNext]_childVars /\ ChildFairness

-----------------------------------------------------------------------------
ChildTypeOK == child \in [Owner -> Child] /\ called \subseteq Owner

(***************************************************************************)
(* After terminateChild, and once its timer is gone, nothing of the child  *)
(* keeps the helper alive: not a descendant that holds a pipe, not a child *)
(* that ignores its signals, not one that never started.                   *)
(***************************************************************************)
CleanedUp == \A o \in called : ~child[o].grace => ~Holds(child[o])

(***************************************************************************)
(* The helper lets go of a child that is still running only after SIGKILL, *)
(* and gives it the grace period between SIGTERM and SIGKILL.              *)
(***************************************************************************)
NoSurvivor == \A o \in Owner :
  /\ ~child[o].ref /\ child[o].os = "alive" => "SIGKILL" \in child[o].signals
  /\ "SIGKILL" \in child[o].signals => "SIGTERM" \in child[o].signals /\ ~child[o].grace

\* No signal goes to a child whose end Node has already reported.
SparesTheEnded ==
  [][\A o \in Owner : child[o].exitSeen => child'[o].signals = child[o].signals]_childVars

(***************************************************************************)
(* Once every child has been given up, the helper's event loop can drain,  *)
(* even if a child ignores SIGTERM or a descendant keeps its pipes open.   *)
(***************************************************************************)
LetsGo == called = Owner ~> \A o \in Owner : ~Holds(child[o])

=============================================================================
