---------------------------- MODULE QueueRunner -----------------------------
(***************************************************************************)
(* runQueue (lib/queue.mjs): one `codex queue` child, the promise it       *)
(* settles and the timer that gives up on it, together with the child's    *)
(* own doings, which the helper learns of late and in any order.           *)
(***************************************************************************)
EXTENDS Outcomes, ChildProcess

VARIABLES queueChild,   \* the `codex queue` child, a record of ChildProcess
          queueTimer,   \* runQueue's timer is armed
          queueResult   \* the promise: what it was settled with, if called

queueVars == <<queueChild, queueTimer, queueResult>>

Settled == {"queued", "rejected", "outcome_unknown", "threw"}

QueueInit ==
  /\ queueChild = NotStarted
  /\ queueTimer = FALSE
  /\ queueResult = "uncalled"

QueueTypeOK ==
  /\ queueChild \in Child
  /\ queueTimer \in BOOLEAN
  /\ queueResult \in {"uncalled", "pending"} \cup Settled

\* Faulty: the timer is left armed.
FinishKeepsTimer(result) ==
  /\ IF queueResult = "pending" THEN queueResult' = result ELSE UNCHANGED queueResult
  /\ UNCHANGED queueTimer

\* finish(): only the first caller settles the promise and clears the timer.
Finish(result) ==
  IF queueResult = "pending"
  THEN queueResult' = result /\ queueTimer' = FALSE
  ELSE UNCHANGED <<queueResult, queueTimer>>

\* spawn() starts a child, or fails now (it throws) or later ("error").
RunQueue ==
  /\ queueResult = "uncalled"
  /\ \/ /\ queueChild' \in {NotStarted, Spawned({"stderr"})}
        /\ queueTimer' = TRUE
        /\ queueResult' = "pending"
     \/ queueResult' = "threw" /\ UNCHANGED <<queueChild, queueTimer>>

OnError ==
  /\ queueResult # "uncalled" /\ queueResult # "threw"
  /\ CanError(queueChild)
  /\ queueChild' = Errored(queueChild)
  /\ Finish("outcome_unknown")

\* Faulty: a child that died of a signal counts as one that refused.
OnCloseBySignalRefused ==
  /\ CanClose(queueChild)
  /\ queueChild' = ClosedBy(queueChild)
  /\ Finish(IF queueChild.end = "code0" THEN "queued" ELSE "rejected")

\* Faulty: the way the child ended is passed on as the status.
OnCloseUnmapped ==
  /\ CanClose(queueChild)
  /\ queueChild' = ClosedBy(queueChild)
  /\ Finish(IF queueChild.end = "code0" THEN "queued" ELSE queueChild.end)

OnClose ==
  /\ CanClose(queueChild)
  /\ queueChild' = ClosedBy(queueChild)
  /\ Finish(CASE queueChild.end = "signal" -> "outcome_unknown"
              [] queueChild.end = "code0"  -> "queued"
              [] queueChild.end = "codeN"  -> "rejected")

\* Faulty: gives up on the child without stopping it.
OnTimeoutLeavesChild ==
  /\ queueTimer
  /\ ~CanError(queueChild)
  /\ Finish("outcome_unknown")
  /\ UNCHANGED queueChild

\* "error" comes on the tick after spawn() and clears the timer.
OnTimeout ==
  /\ queueTimer
  /\ ~CanError(queueChild)
  /\ IF queueResult = "pending"
     THEN queueResult' = "outcome_unknown"
     ELSE UNCHANGED queueResult
  /\ queueTimer' = FALSE
  /\ queueChild' = TerminateChild(queueChild)

GraceExpires ==
  /\ CanExpire(queueChild)
  /\ queueChild' = GraceExpired(queueChild)
  /\ UNCHANGED <<queueTimer, queueResult>>

QueueExitIsSeen ==
  /\ CanNotice(queueChild)
  /\ queueChild' = Noticed(queueChild)
  /\ UNCHANGED <<queueTimer, queueResult>>

-----------------------------------------------------------------------------
(***************************************************************************)
(* `codex queue` itself, as the code relies on it: it puts the message in  *)
(* the thread's queue at most once; left alone, it exits with 0 only if it *)
(* did and with another code only if it did not.  Once signalled it may    *)
(* end in any way, with the message queued or handed to a process that     *)
(* still will.                                                             *)
(***************************************************************************)
InTheQueue   == \E i \in 1 .. Len(placed) : placed[i] = InQueue
Interrupted(c) == c.end = "signal" \/ c.signals # {}

CodexQueueAccepts ==
  /\ queueChild.os = "alive" \/ Interrupted(queueChild)
  /\ ~InTheQueue
  /\ placed' = Append(placed, InQueue)
  /\ UNCHANGED queueVars

CodexQueueEnds ==
  /\ CanEnd(queueChild)
  /\ \E e \in Ends :
       /\ e = "code0" => InTheQueue \/ Interrupted(queueChild)
       /\ e = "codeN" => ~InTheQueue \/ Interrupted(queueChild)
       /\ queueChild' = Ended(queueChild, e)
  /\ UNCHANGED <<queueTimer, queueResult, placed>>

\* The child closes its stderr, or the last descendant that holds it ends.
CodexQueueDrains ==
  /\ \E p \in Pipe : CanDrain(queueChild, p) /\ queueChild' = Drained(queueChild, p)
  /\ UNCHANGED <<queueTimer, queueResult, placed>>

-----------------------------------------------------------------------------
(***************************************************************************)
(* What the helper holds about `codex queue` is what happened, provided    *)
(* that nothing but `codex queue` places the message once it is called.    *)
(***************************************************************************)
QueueTruth ==
  /\ queueResult # "uncalled" => placed \in {<<>>, <<InQueue>>}
  /\ queueResult \in {"uncalled", "threw"} => queueChild = NotStarted
  /\ queueTimer <=> queueResult = "pending"
  /\ queueChild.os = "absent"
       => /\ queueChild.signals = {} /\ ~queueChild.grace
          /\ \/ /\ ~queueChild.exitSeen /\ queueChild.end = "none"
                /\ queueResult \in {"uncalled", "threw", "pending"}
             \/ /\ queueChild.exitSeen /\ queueChild.end = "codeN"
                /\ queueResult = "outcome_unknown"
  /\ queueChild.os = "alive" => queueChild.end = "none" /\ ~queueChild.exitSeen
  /\ queueChild.os = "dead" => queueChild.end # "none"
  /\ queueChild.signals # {} => queueResult = "outcome_unknown"
  /\ queueChild.grace => queueResult = "outcome_unknown"
  /\ queueChild.end = "code0" => Interrupted(queueChild) \/ placed = <<InQueue>>
  /\ queueChild.end = "codeN" => Interrupted(queueChild) \/ placed = <<>>
                                   \/ queueChild.os = "absent"
  /\ queueResult = "queued" => placed = <<InQueue>>
  /\ queueResult = "rejected"
       => queueChild.os = "dead" /\ ~Interrupted(queueChild) /\ placed = <<>>
  /\ queueResult = "threw" => placed = <<>>

=============================================================================
