--------------------------- MODULE QueueDelivery ----------------------------
(***************************************************************************)
(* runQueue on its own, called once by a helper that may be killed at any  *)
(* moment: it implements Delivery, so that its status never lies about     *)
(* the queue.                                                              *)
(***************************************************************************)
EXTENDS QueueRunner

VARIABLE running    \* the helper process is alive

vars == <<placed, queueVars, running>>

Init == placed = <<>> /\ QueueInit /\ running = TRUE

\* A step of the helper; the queue is not its to change.
Helper(step) == running /\ step /\ UNCHANGED <<placed, running>>

\* A step of `codex queue`, which outlives a helper that is killed.
Codex(step) == step /\ UNCHANGED running

Killed == running /\ running' = FALSE /\ UNCHANGED <<placed, queueVars>>

Next ==
  \/ Helper(RunQueue)
  \/ Helper(OnError)
  \/ Helper(OnClose)
  \/ Helper(OnTimeout)
  \/ Helper(GraceExpires)
  \/ Helper(QueueExitIsSeen)
  \/ Codex(CodexQueueAccepts)
  \/ Codex(CodexQueueEnds)
  \/ Codex(CodexQueueDrains)
  \/ Killed

\* Timers fire and a failed spawn is reported; `codex queue` owes nothing.
Fairness ==
  /\ WF_vars(Helper(OnTimeout))
  /\ WF_vars(Helper(GraceExpires))
  /\ WF_vars(Helper(OnError))

Spec == Init /\ [][Next]_vars /\ Fairness

-----------------------------------------------------------------------------
TypeOK == PlacedTypeOK /\ QueueTypeOK /\ running \in BOOLEAN

\* What `send` prints for a settled runQueue.
QueueReport ==
  CASE queueResult = "queued"          -> Queued
    [] queueResult = "rejected"        -> Rejected("queue")
    [] queueResult = "outcome_unknown" -> OutcomeUnknown("queue")
    [] queueResult = "threw"           -> Failed
    [] OTHER                           -> Unreported

Abstract == INSTANCE Delivery WITH report <- QueueReport

(***************************************************************************)
(* The settled promise is right about the queue whatever order the child's *)
(* end, the end of its stderr, the timer and a late acceptance come in.    *)
(***************************************************************************)
ImplementsDelivery == Abstract!DeliverySpec

(***************************************************************************)
(* A child that is still running when the promise is settled has been sent *)
(* SIGTERM: runQueue abandons nothing that it has not asked to stop.       *)
(***************************************************************************)
AbandonsNothing ==
  queueResult \in Settled /\ queueChild.os = "alive" => "SIGTERM" \in queueChild.signals

(***************************************************************************)
(* Once the child's "close" has been handled nothing is left behind,       *)
(* whether it came before the timeout, between SIGTERM and the grace timer,*)
(* or after SIGKILL: neither a timer nor a handle outlives it.             *)
(***************************************************************************)
NothingLingers == queueChild.closeSeen => ~queueTimer /\ ~Holds(queueChild)

(***************************************************************************)
(* runQueue always settles while the helper lives, and afterwards neither  *)
(* its timer nor its child keeps the helper's event loop alive.            *)
(***************************************************************************)
SettlesAndLetsGo ==
  queueResult = "pending"
    ~> ~running \/ (queueResult \in Settled /\ ~queueTimer /\ ~Holds(queueChild))

=============================================================================
