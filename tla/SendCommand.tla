---------------------------- MODULE SendCommand -----------------------------
(***************************************************************************)
(* `sessionctl.mjs send`: main, runCommand's send branch, withClient,      *)
(* resolveTarget, readThread, readActiveTurnId, trySteer and runQueue, one *)
(* action per await, run against the app-server and `codex queue`.         *)
(*                                                                         *)
(* Node runs a continuation before any other event, so an event handler    *)
(* needs NodeIdle.  The exception is a second WebSocket frame in the same  *)
(* chunk of stdout, which is handled before the continuation of the first. *)
(***************************************************************************)
EXTENDS AppServer, QueueRunner

CONSTANT MaxScanPages     \* MAX_TARGET_SCAN_PAGES

ASSUME MaxScanPagesAssumption == MaxScanPages \in Nat \ {0}

VARIABLES cli,        \* the helper process
          pc,         \* the await it is suspended at
          call,       \* the promise it awaits from the client: its outcome
          link,       \* the connection: the proxy, the WebSocket, the client
          scan,       \* pages read and exact-name matches found by then
          expected,   \* the turn that turn/steer was asked for
          report,     \* what main() has printed
          exitCode    \* process.exitCode, then the status of the process

clientVars == <<cli, pc, call, link, scan, expected, report, exitCode>>
vars == <<clientVars, serverVars, queueVars, placed>>

Pending   == [kind |-> "pending"]    \* unsettled; its timer is armed
Transport == [kind |-> "transport"]  \* rejected by the client itself

CallPc == {"ready"} \cup Method      \* awaits of a promise of the client
Pc     == {"start", "queue", "done"} \cup CallPc

Init ==
  /\ placed = <<>> /\ ServerInit /\ QueueInit
  /\ cli = "running" /\ pc = "start" /\ call = NoAnswer /\ link = "none"
  /\ scan = [pages |-> 0, hits |-> 0] /\ expected = NoTurn
  /\ report = Unreported /\ exitCode = 0

-----------------------------------------------------------------------------
\* Pieces of the continuations.

\* client.close(): idempotent; the proxy is told to stop.
CloseLink == link' = IF link \in {"connecting", "open"} THEN "closing" ELSE link

\* Faulty: the exit status is set for errors only.
TellExitsZero(r, code) ==
  /\ pc' = "done" /\ report' = r /\ call' = NoAnswer
  /\ exitCode' = IF r = Failed THEN code ELSE 0
  /\ CloseLink
  /\ UNCHANGED <<cli, scan, expected, serverVars, queueVars, placed>>

\* Faulty: the client is not closed.
TellLeavesClient(r, code) ==
  /\ pc' = "done" /\ report' = r /\ exitCode' = code /\ call' = NoAnswer
  /\ UNCHANGED <<cli, link, scan, expected, serverVars, queueVars, placed>>

\* main() prints r; withClient's `finally` has closed the client by then.
Tell(r, code) ==
  /\ pc' = "done" /\ report' = r /\ exitCode' = code /\ call' = NoAnswer
  /\ CloseLink
  /\ UNCHANGED <<cli, scan, expected, serverVars, queueVars, placed>>

Fail == Tell(Failed, 1)

\* request(): written, or rejected on the spot when write() throws, because
\* the client is closed, its stdin not writable or the request too long.
Issue(request) ==
  /\ pc' = request.method
  /\ \/ link = "open" /\ wire' = request /\ call' = Pending
     \/ wire' = wire /\ call' = Transport
  /\ UNCHANGED <<cli, link, report, exitCode, thread, turn, answer, queueVars, placed>>

Ask(m) == Issue(Plain(m)) /\ UNCHANGED <<scan, expected>>

\* Steering is unavailable: close the client and start `codex queue`.
FallBack ==
  /\ pc' = "queue" /\ call' = NoAnswer
  /\ CloseLink
  /\ RunQueue
  /\ UNCHANGED <<cli, scan, expected, report, exitCode, serverVars, placed>>

\* The promise awaited at p is settled; its continuation runs next.
Resumes(p) == cli = "running" /\ pc = p /\ call # Pending

ContinuationReady ==
  \/ pc = "start"
  \/ pc \in CallPc /\ call # Pending
  \/ pc = "queue" /\ queueResult \in Settled

NodeIdle == cli = "running" /\ ~ContinuationReady

-----------------------------------------------------------------------------
\* The continuations.

\* Arguments, identity, timeout and Node version are checked; spawn() may throw.
Start ==
  /\ cli = "running" /\ pc = "start"
  /\ \/ \E code \in {1, 2} : Tell(Failed, code)
     \/ /\ pc' = "ready" /\ call' = Pending /\ link' = "connecting"
        /\ UNCHANGED <<cli, scan, expected, report, exitCode, serverVars, queueVars, placed>>

AfterReady ==
  /\ Resumes("ready")
  /\ IF call = Ok THEN Ask("initialize") ELSE Fail

\* write() of the notification "initialized" may throw as well.
AfterInitialize ==
  /\ Resumes("initialize")
  /\ \/ call = Ok /\ link = "open" /\ Ask("readSender")
     \/ Fail

\* The target is a UUID, a name, or neither.
AfterReadSender ==
  /\ Resumes("readSender")
  /\ \/ call = Ok /\ (Ask("resolve") \/ Ask("list"))
     \/ Fail

AfterResolve ==
  /\ Resumes("resolve")
  /\ IF call = Ok THEN Ask("readTarget") ELSE Fail

\* Faulty: ambiguity is looked for after the scan only.
AfterPageLateCheck ==
  /\ Resumes("list")
  /\ LET hits  == scan.hits + call.hits
         pages == scan.pages + 1
     IN  IF call.kind # "page" THEN Fail
         ELSE IF call.more /\ pages < MaxScanPages
         THEN /\ Issue(Plain("list"))
              /\ scan' = [pages |-> pages, hits |-> hits]
              /\ UNCHANGED expected
         ELSE IF call.more \/ hits # 1 THEN Fail ELSE Ask("readTarget")

AfterPage ==
  /\ Resumes("list")
  /\ LET hits  == scan.hits + call.hits
         pages == scan.pages + 1
     IN  IF call.kind # "page" \/ hits > 1
         THEN Fail
         ELSE IF call.more /\ pages < MaxScanPages
         THEN /\ Issue(Plain("list"))
              /\ scan' = [pages |-> pages, hits |-> hits]
              /\ UNCHANGED expected
         ELSE IF call.more \/ hits = 0 THEN Fail ELSE Ask("readTarget")

AfterReadTarget ==
  /\ Resumes("readTarget")
  /\ IF call.kind # "thread" \/ call = Status("systemError") THEN Fail
     ELSE IF call = Status("active") THEN Ask("turns")
     ELSE FallBack

AfterTurns ==
  /\ Resumes("turns")
  /\ IF call.kind # "turns" THEN Fail
     ELSE IF call.turn = NoTurn THEN FallBack
     ELSE /\ Issue(Steer(call.turn))
          /\ expected' = call.turn
          /\ UNCHANGED scan

\* Faulty: any turn counts as the one that was asked for.
ConfirmedByAnyTurn == call.kind = "steered"

Confirmed           == call = Steered(expected)

\* Faulty: the text decides, whatever the code.
UnavailableByText == call.kind = "error" /\ call.text = "fixed"

SteeringUnavailable == call = Error(InvalidParams, "fixed")
Refused             == call.kind = "error" /\ call.code \in Refusals

AfterSteer ==
  /\ Resumes("steer")
  /\ \/ Confirmed /\ Tell(Accepted(expected), 0)
     \/ SteeringUnavailable /\ FallBack
     \/ Refused /\ ~SteeringUnavailable /\ Tell(Rejected("steer"), 1)
     \/ ~Confirmed /\ ~SteeringUnavailable /\ ~Refused /\ Tell(OutcomeUnknown("steer"), 1)

AfterQueue ==
  /\ cli = "running" /\ pc = "queue"
  /\ \/ queueResult = "queued" /\ Tell(Queued, 0)
     \/ queueResult = "rejected" /\ Tell(Rejected("queue"), 1)
     \/ queueResult = "outcome_unknown" /\ Tell(OutcomeUnknown("queue"), 1)
     \/ queueResult = "threw" /\ Fail

Continues ==
  \/ Start
  \/ AfterReady
  \/ AfterInitialize
  \/ AfterReadSender
  \/ AfterResolve
  \/ AfterPage
  \/ AfterReadTarget
  \/ AfterTurns
  \/ AfterSteer
  \/ AfterQueue

-----------------------------------------------------------------------------
\* Events.

HandshakeDone ==
  /\ NodeIdle /\ link = "connecting"
  /\ link' = "open" /\ call' = Ok
  /\ UNCHANGED <<cli, pc, scan, expected, report, exitCode, serverVars, queueVars, placed>>

\* onMessage settles the pending request and clears its timer.
OnMessage ==
  /\ NodeIdle /\ link = "open" /\ answer # NoAnswer
  /\ call' = answer /\ answer' = NoAnswer
  /\ UNCHANGED <<cli, pc, link, scan, expected, report, exitCode,
                 thread, turn, wire, queueVars, placed>>

\* Faulty: the connection stays open after a timeout.
TimesOutLeavesOpen ==
  /\ NodeIdle /\ call = Pending
  /\ call' = Transport
  /\ UNCHANGED <<cli, pc, link, scan, expected, report, exitCode, serverVars, queueVars, placed>>

\* The timer of the handshake or of the request: reject and close().
TimesOut ==
  /\ NodeIdle /\ call = Pending
  /\ call' = Transport
  /\ CloseLink
  /\ UNCHANGED <<cli, pc, scan, expected, report, exitCode, serverVars, queueVars, placed>>

\* connectionFailure(): stdin breaks, or a frame is refused, which may be the
\* next one in the chunk that settled `call`.
ConnectionFails ==
  /\ cli = "running" /\ link \in {"connecting", "open"}
  /\ call' = IF call = Pending THEN Transport ELSE call
  /\ CloseLink
  /\ UNCHANGED <<cli, pc, scan, expected, report, exitCode, serverVars, queueVars, placed>>

\* The same for a proxy that did not start, or has exited: nothing to wait for.
ProxyFails ==
  /\ NodeIdle /\ link \in {"connecting", "open"}
  /\ call' = IF call = Pending THEN Transport ELSE call
  /\ link' = "gone"
  /\ UNCHANGED <<cli, pc, scan, expected, report, exitCode, serverVars, queueVars, placed>>

\* terminateChild has let go of the proxy (module ChildTermination).
ProxyReleased ==
  /\ NodeIdle /\ link = "closing"
  /\ link' = "gone"
  /\ UNCHANGED <<cli, pc, call, scan, expected, report, exitCode, serverVars, queueVars, placed>>

\* onFrame answers a ping even after close(), or when stdin has failed under an
\* earlier pong of the chunk: sendFrame throws in the handler of stdout, nothing
\* catches it, and Node ends the process with status 1.
PingThrows ==
  /\ \/ NodeIdle /\ link = "closing"
     \/ cli = "running" /\ link = "open" /\ call # Transport
  /\ cli' = "crashed" /\ exitCode' = 1
  /\ UNCHANGED <<pc, call, link, scan, expected, report, serverVars, queueVars, placed>>

QueueEvent ==
  /\ NodeIdle
  /\ OnError \/ OnClose \/ OnTimeout \/ GraceExpires \/ QueueExitIsSeen
  /\ UNCHANGED <<clientVars, serverVars, placed>>

\* Somebody kills the helper, for instance with Ctrl-C.
Killed ==
  /\ cli = "running" /\ cli' = "killed"
  /\ UNCHANGED <<pc, call, link, scan, expected, report, exitCode,
                 serverVars, queueVars, placed>>

QueueHolds == queueResult \notin {"uncalled", "threw"} /\ (queueTimer \/ Holds(queueChild))

\* The event loop is empty.  Node exits with 13 if main() is still suspended.
Exits ==
  /\ NodeIdle /\ call # Pending /\ link \in {"none", "gone"} /\ ~QueueHolds
  /\ cli' = "exited"
  /\ exitCode' = IF pc = "done" THEN exitCode ELSE 13
  /\ UNCHANGED <<pc, call, link, scan, expected, report, serverVars, queueVars, placed>>

\* The server and `codex queue` go on whether the helper lives or not.
Outside ==
  \/ Server /\ UNCHANGED <<clientVars, queueVars>>
  \/ /\ CodexQueueAccepts \/ CodexQueueEnds \/ CodexQueueDrains
     /\ UNCHANGED <<clientVars, serverVars>>

Next ==
  \/ Continues
  \/ HandshakeDone
  \/ OnMessage
  \/ TimesOut
  \/ ConnectionFails
  \/ ProxyFails
  \/ ProxyReleased
  \/ PingThrows
  \/ QueueEvent
  \/ Killed
  \/ Exits
  \/ Outside

(***************************************************************************)
(* What Node schedules happens: a continuation that is ready, a timer that *)
(* is armed, the error of a failed spawn, the exit of an idle process.     *)
(* Nothing is assumed of the server, the proxy, `codex queue` or a killer. *)
(***************************************************************************)
QueueTimers ==
  /\ NodeIdle
  /\ OnError \/ OnTimeout \/ GraceExpires
  /\ UNCHANGED <<clientVars, serverVars, placed>>

Fairness ==
  /\ WF_vars(Continues)
  /\ WF_vars(TimesOut)
  /\ WF_vars(ProxyReleased)
  /\ WF_vars(QueueTimers)
  /\ WF_vars(Exits)

Spec == Init /\ [][Next]_vars /\ Fairness

-----------------------------------------------------------------------------
Cli  == {"running", "exited", "crashed", "killed"}
Link == {"none", "connecting", "open", "closing", "gone"}

ClientTypeOK ==
  /\ cli \in Cli /\ pc \in Pc /\ link \in Link
  /\ call \in Answer \cup {NoAnswer, Pending, Transport}
  /\ scan \in [pages : 0 .. MaxScanPages - 1, hits : 0 .. 1]
  /\ expected \in TurnId \cup {NoTurn}
  /\ report \in Report /\ exitCode \in {0, 1, 2, 13}

TypeOK == PlacedTypeOK /\ ServerTypeOK /\ QueueTypeOK /\ ClientTypeOK

Abstract == INSTANCE Delivery

(***************************************************************************)
(* `send` keeps the promise of module Delivery: at most one landing, and a *)
(* report that stays true of it, whatever the server answers, whichever    *)
(* timer or failure comes first and whoever is killed.                     *)
(***************************************************************************)
ImplementsDelivery == Abstract!DeliverySpec

\* Its connection and what it awaits, in the terms of Connection.
Conn ==
  CASE link = "none" -> "none"
    [] link = "open" -> "up"
    [] link = "connecting" -> "connecting"
    [] OTHER -> "down"

Awaited ==
  CASE pc \notin CallPc -> "nothing"
    [] call = Pending -> "pending"
    [] call = Transport -> "failed"
    [] OTHER -> "answered"

Client == INSTANCE Connection WITH conn <- Conn, awaited <- Awaited

(***************************************************************************)
(* `send` uses its connection as a Connection, which RpcClient provides:   *)
(* whatever it is resumed with, the connection may have gone down since.   *)
(***************************************************************************)
UsesConnection == Client!ConnectionSpec

(***************************************************************************)
(* runQueue is called only when turn/steer was never sent or was refused   *)
(* by the server for good: no steer has landed and none is on the wire.    *)
(***************************************************************************)
FallbackIsExclusive ==
  queueResult # "uncalled" =>
    /\ wire.method # "steer"
    /\ \A i \in 1 .. Len(placed) : placed[i] = InQueue

(***************************************************************************)
(* A caller that only looks at the exit status is not misled: 0 means the  *)
(* message landed, a process that ended by itself has printed a report,    *)
(* and no path leaves main() suspended with nothing to wake it.            *)
(***************************************************************************)
ExitIsHonest ==
  /\ cli = "exited" => report # Unreported /\ exitCode # 13
  /\ cli = "exited" /\ exitCode = 0 => Len(placed) = 1

(***************************************************************************)
(* README.md's result table and SKILL.md know four results of an attempted *)
(* delivery: once the message was handed to `codex queue`, a helper that   *)
(* ends by itself has printed one of them, "outcome_unknown" if need be.   *)
(***************************************************************************)
EndsWithAReport ==
  cli \in {"exited", "crashed"} /\ queueResult # "uncalled" => report # Unreported

(***************************************************************************)
(* `send` ends: whatever the server, the proxy and `codex queue` do or     *)
(* leave undone, the helper exits, unless it is killed or crashes first.   *)
(***************************************************************************)
Terminates == <>(cli # "running")

=============================================================================
