----------------------------- MODULE SendLedger -----------------------------
(***************************************************************************)
(* Why `send` keeps its promise: the inductive invariant behind the        *)
(* theorems of SendCommandProofs, in parts that say what the helper's      *)
(* position implies for the wire, the queue child and the message.         *)
(***************************************************************************)
EXTENDS SendCommand

SteerOnWire == wire.method = "steer"

(***************************************************************************)
(* One request at a time: nothing is on the wire, and no answer unread,    *)
(* before the connection is up, while the helper is about to write, or     *)
(* once the awaited promise was settled by an answer.                      *)
(***************************************************************************)
OneInFlight ==
  /\ wire # Nothing => answer = NoAnswer
  /\ link \in {"none", "connecting"} => wire = Nothing /\ answer = NoAnswer
  /\ link = "open" /\ call # Pending => wire = Nothing /\ answer = NoAnswer
  /\ call \in Answer => wire = Nothing /\ answer = NoAnswer

\* The connection is up only while the helper awaits something of it.
LinkIsUsed ==
  /\ call = Pending => link \in {"connecting", "open"}
  /\ pc = "start" => link = "none"
  /\ link = "connecting" => pc = "ready" /\ call = Pending
  /\ link = "open" => pc \in CallPc
  /\ pc \notin CallPc => call = NoAnswer

\* The steer on the wire is the one being awaited, or was given up on.
SteerIsAwaited ==
  SteerOnWire => /\ pc = "steer" \/ report = OutcomeUnknown("steer")
                 /\ wire.turn = expected /\ expected \in TurnId
                 /\ placed = <<>>

\* Nothing is handed over before the helper is told about the target.
NothingBeforeSteer ==
  pc \notin {"steer", "queue", "done"} =>
    placed = <<>> /\ ~SteerOnWire /\ queueResult = "uncalled"

\* What an answer to turn/steer says is so.
Tells(a) ==
  /\ a = Steered(expected) => placed = <<InTurn(expected)>>
  /\ a.kind = "error" /\ a.code \in Refusals => placed = <<>> /\ ~SteerOnWire

WhileSteering ==
  pc = "steer" =>
    /\ expected \in TurnId
    /\ queueResult = "uncalled"
    /\ placed \in {<<>>, <<InTurn(expected)>>}
    /\ Tells(answer) /\ Tells(call)

\* Once runQueue is called the queue is the only place left.
OnceQueued ==
  queueResult # "uncalled" =>
    pc \in {"queue", "done"} /\ ~SteerOnWire

\* A report belongs to the end of main(), and agrees with the rest.
ReportTruth ==
  /\ pc = "done" <=> report # Unreported
  /\ pc = "queue" => queueResult # "uncalled"
  /\ report.via = "steer" => queueResult = "uncalled"
  /\ report = Queued => queueResult = "queued"
  /\ report = Rejected("queue") => queueResult = "rejected"
  /\ report = OutcomeUnknown("queue") => queueResult = "outcome_unknown"
  /\ report = Failed => queueResult \in {"uncalled", "threw"} /\ ~SteerOnWire
  /\ Warranted(report, placed)

\* The exit status follows the report.
ExitTruth ==
  /\ cli = "running" /\ pc # "done" => exitCode = 0
  /\ pc = "done" /\ exitCode = 0 => report.status \in {"accepted", "queued"}
  /\ cli = "exited" => pc = "done"
  /\ exitCode # 13

Ledger ==
  /\ OneInFlight
  /\ LinkIsUsed
  /\ SteerIsAwaited
  /\ NothingBeforeSteer
  /\ WhileSteering
  /\ OnceQueued
  /\ QueueTruth
  /\ ReportTruth
  /\ ExitTruth

=============================================================================
