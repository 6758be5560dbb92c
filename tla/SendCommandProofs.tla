-------------------------- MODULE SendCommandProofs --------------------------
(***************************************************************************)
(* Theorems about `send`: its state is well typed, the fallback to the     *)
(* queue excludes a steer, the exit status is honest, and SendCommand      *)
(* implements Delivery.  They all rest on Inv, which is inductive.         *)
(***************************************************************************)
EXTENDS SendLedger, QueueLemmas

Inv == TypeOK /\ Ledger

-----------------------------------------------------------------------------
\* The fields an answer of a given kind has.
LEMMA AnswerFields ==
  ASSUME NEW a \in Answer \cup {NoAnswer, Pending, Transport}
  PROVE  /\ a.kind = "page"  => a.hits \in Hits /\ a.more \in BOOLEAN
         /\ a.kind = "turns" => a.turn \in TurnId \cup {NoTurn}
         /\ a.kind \notin {"none", "pending", "transport"} <=> a \in Answer
<1> USE DEF Answer, NoAnswer, Pending, Transport, Ok, Malformed, Page, Status,
            Running, Steered, Error
<1>1. CASE a \in {Page(n, more) : n \in Hits, more \in BOOLEAN}
  BY <1>1
<1>2. CASE a \in {Running(t) : t \in TurnId \cup {NoTurn}}
  BY <1>2
<1>3. CASE a \in {Status(s) : s \in ThreadStatus}
  BY <1>3
<1>4. CASE a \in {Steered(t) : t \in TurnId \cup {NoTurn}}
  BY <1>4
<1>5. CASE a \in {Error(c, text) : c \in RpcCode, text \in Text}
  BY <1>5
<1>6. CASE a \in {Ok, Malformed}
  BY <1>6
<1>7. CASE a \in {NoAnswer, Pending, Transport}
  <2>1. a.kind \in {"none", "pending", "transport"}
    BY <1>7
  <2>2. \A b \in Answer : b.kind \notin {"none", "pending", "transport"}
    OBVIOUS
  <2> QED BY <2>1, <2>2
<1> QED BY <1>1, <1>2, <1>3, <1>4, <1>5, <1>6, <1>7

\* Values of the call that are told apart by their kind.
LEMMA Kinds ==
  /\ Pending.kind = "pending" /\ Transport.kind = "transport" /\ NoAnswer.kind = "none"
  /\ Ok.kind = "ok" /\ Malformed.kind = "malformed"
  /\ \A t : Steered(t).kind = "steered" /\ Steered(t).turn = t
  /\ \A c, text : Error(c, text).kind = "error" /\ Error(c, text).code = c
  /\ \A s : Status(s).kind = "thread"
  /\ \A t : Running(t).kind = "turns"
  /\ \A n, more : Page(n, more).kind = "page"
  /\ \A t : Steer(t).method = "steer" /\ Steer(t).turn = t
  /\ \A m : Plain(m).method = m /\ Plain(m).turn = NoTurn
  /\ Nothing.method = "none"
  BY DEF Pending, Transport, NoAnswer, Ok, Malformed, Steered, Error, Status,
         Running, Page, Steer, Plain, Nothing

\* The reports are told apart by status and route.
LEMMA Vocabulary ==
  /\ Unreported.status = "none" /\ Unreported.via = "none"
  /\ \A t : Accepted(t).status = "accepted" /\ Accepted(t).via = "steer"
              /\ Accepted(t).turn = t
  /\ Queued.status = "queued" /\ Queued.via = "queue"
  /\ \A v : Rejected(v).status = "rejected" /\ Rejected(v).via = v
  /\ \A v : OutcomeUnknown(v).status = "outcome_unknown" /\ OutcomeUnknown(v).via = v
  /\ Failed.status = "error" /\ Failed.via = "none"
  BY DEF Unreported, Accepted, Queued, Rejected, OutcomeUnknown, Failed

\* A queue that was not called for stays as it is.
LEMMA QueueIdle ==
  ASSUME QueueOK, queueResult = "uncalled", UNCHANGED queueVars, PlacedTypeOK'
  PROVE  QueueOK'
<1>1. QueueTypeOK'
  BY DEF QueueOK, QueueTypeOK, queueVars
<1>2. QueueTruth'
  BY DEF QueueOK, QueueTruth, queueVars, NotStarted, Interrupted
<1> QED BY <1>1, <1>2 DEF QueueOK

LEMMA QueueUnchanged ==
  ASSUME QueueOK, UNCHANGED <<queueVars, placed>>
  PROVE  QueueOK'
  BY DEF QueueOK, QueueTypeOK, QueueTruth, PlacedTypeOK, queueVars

-----------------------------------------------------------------------------
LEMMA InitInv == Init => Inv
<1> SUFFICES ASSUME Init PROVE Inv
  OBVIOUS
<1>1. ServerTypeOK
  BY MaxTurnAssumption DEF Init, ServerInit, ServerTypeOK, NoTurn, TurnKind
<1>2. QueueOK
  <2>1. NotStarted \in Child
    BY DEF NotStarted, Child
  <2>2. PlacedTypeOK
    BY DEF Init, PlacedTypeOK
  <2>3. QueueTypeOK
    BY <2>1 DEF Init, QueueInit, QueueTypeOK
  <2>4. QueueTruth
    BY DEF Init, QueueInit, QueueTruth, NotStarted, Interrupted
  <2> QED BY <2>2, <2>3, <2>4 DEF QueueOK
<1>3. ClientTypeOK
  BY MaxScanPagesAssumption
     DEF Init, ClientTypeOK, Cli, Pc, Link, Report
<1>4. OneInFlight /\ LinkIsUsed /\ SteerIsAwaited
  BY Kinds, AnswerFields
     DEF Init, ServerInit, OneInFlight, LinkIsUsed, SteerIsAwaited, SteerOnWire,
         CallPc, Method
<1>5. NothingBeforeSteer /\ WhileSteering /\ OnceQueued
  BY Kinds DEF Init, ServerInit, QueueInit, NothingBeforeSteer, WhileSteering,
               OnceQueued, SteerOnWire
<1>6. ReportTruth /\ ExitTruth
  BY DEF Init, QueueInit, ReportTruth, ExitTruth, Warranted, Unreported, Queued,
         Rejected, OutcomeUnknown, Failed
<1> QED BY <1>1, <1>2, <1>3, <1>4, <1>5, <1>6
        DEF Inv, TypeOK, Ledger, QueueOK

-----------------------------------------------------------------------------
(***************************************************************************)
(* The three things a continuation can do: ask the server, fall back, and  *)
(* report.                                                                 *)
(***************************************************************************)
LEMMA IssueKeeps ==
  ASSUME Inv, cli = "running", call \notin {Pending, Transport, NoAnswer},
         pc \in {"ready"} \cup (Method \ {"steer"}),
         NEW request \in Request, Issue(request),
         scan' \in [pages : 0 .. MaxScanPages - 1, hits : 0 .. 1],
         \/ request.method # "steer" /\ UNCHANGED expected
         \/ request.turn \in TurnId /\ expected' = request.turn
  PROVE  Inv'
<1> USE DEF Inv, TypeOK, Ledger
<1>1. wire = Nothing /\ answer = NoAnswer /\ ~SteerOnWire
  <2>1. call \in Answer
    BY DEF ClientTypeOK
  <2> QED BY <2>1, Kinds DEF OneInFlight, SteerOnWire
<1>2. /\ placed = <<>> /\ queueResult = "uncalled" /\ report = Unreported /\ exitCode = 0
  BY DEF NothingBeforeSteer, Method, ReportTruth, ExitTruth
<1>3. /\ pc' = request.method /\ pc' \in Method
      /\ UNCHANGED <<cli, link, report, exitCode, thread, turn, answer, queueVars, placed>>
      /\ \/ link = "open" /\ wire' = request /\ call' = Pending
         \/ wire' = wire /\ call' = Transport
  BY DEF Issue, Request
<1>4. QueueOK'
  BY <1>3, QueueUnchanged DEF QueueOK
<1>5. ServerTypeOK'
  BY <1>3 DEF ServerTypeOK
<1>6. ClientTypeOK'
  BY <1>3 DEF ClientTypeOK, Pc, CallPc
<1>7. call' \notin Answer
  BY <1>3, Kinds, AnswerFields
<1>8. OneInFlight'
  BY <1>1, <1>3, <1>7 DEF OneInFlight
<1>9. LinkIsUsed'
  BY <1>3, Kinds DEF LinkIsUsed, CallPc, Method
<1>10. SteerIsAwaited'
  BY <1>1, <1>2, <1>3 DEF SteerIsAwaited, SteerOnWire
<1>11. NothingBeforeSteer'
  BY <1>1, <1>2, <1>3, Kinds DEF NothingBeforeSteer, SteerOnWire, queueVars, Request
<1>12. WhileSteering'
  <2>1. Tells(answer)' /\ Tells(call)'
    BY <1>1, <1>3, Kinds DEF Tells
  <2> QED BY <1>2, <1>3, <2>1 DEF WhileSteering, queueVars
<1>13. OnceQueued' /\ ExitTruth'
  BY <1>2, <1>3 DEF OnceQueued, ExitTruth, queueVars, Method
<1>14. ReportTruth'
  <2>1. report' = Unreported /\ placed' = <<>> /\ queueResult' = "uncalled"
    BY <1>2, <1>3 DEF queueVars
  <2> QED BY <1>3, <2>1, Vocabulary DEF ReportTruth, Method, Warranted
<1> QED BY <1>4, <1>5, <1>6, <1>8, <1>9, <1>10, <1>11, <1>12, <1>13,
         <1>14 DEF QueueOK

LEMMA FallBackKeeps ==
  ASSUME Inv, cli = "running", call # Pending, FallBack,
         placed = <<>>, ~SteerOnWire, queueResult = "uncalled", pc # "done"
  PROVE  Inv'
<1> USE DEF Inv, TypeOK, Ledger
<1>1. /\ pc' = "queue" /\ call' = NoAnswer /\ link' \in {"none", "closing", "gone"}
      /\ link' = "none" => link = "none"
      /\ UNCHANGED <<cli, scan, expected, report, exitCode, serverVars, placed>>
      /\ RunQueue
  BY DEF FallBack, CloseLink, ClientTypeOK, Link
<1>2. report = Unreported /\ queueResult' \notin {"uncalled", "queued", "rejected", "outcome_unknown"}
  BY <1>1 DEF ReportTruth, RunQueue
<1>3. QueueOK'
  BY <1>1, RunQueueKeeps DEF QueueOK
<1>4. ServerTypeOK' /\ ClientTypeOK'
  BY <1>1 DEF ServerTypeOK, ClientTypeOK, serverVars, Pc, Link
<1>5. OneInFlight' /\ LinkIsUsed'
  BY <1>1, Kinds, AnswerFields DEF OneInFlight, LinkIsUsed, serverVars, CallPc, Method
<1>6. SteerIsAwaited' /\ NothingBeforeSteer' /\ WhileSteering' /\ OnceQueued'
  BY <1>1 DEF SteerIsAwaited, NothingBeforeSteer, WhileSteering, OnceQueued,
              SteerOnWire, serverVars
<1>7. ReportTruth' /\ ExitTruth'
  BY <1>1, <1>2, Vocabulary DEF ReportTruth, ExitTruth, Warranted
<1> QED BY <1>3, <1>4, <1>5, <1>6, <1>7 DEF QueueOK

\* A report that agrees with the rest of the state.
Justified(r) ==
  /\ Warranted(r, placed)
  /\ SteerOnWire => r = OutcomeUnknown("steer")
  /\ r.via = "steer" => queueResult = "uncalled"
  /\ r = Queued => queueResult = "queued"
  /\ r = Rejected("queue") => queueResult = "rejected"
  /\ r = OutcomeUnknown("queue") => queueResult = "outcome_unknown"
  /\ r = Failed => queueResult \in {"uncalled", "threw"}

LEMMA TellKeeps ==
  ASSUME Inv, cli = "running", pc # "done",
         NEW r \in Report \ {Unreported}, NEW code \in {0, 1, 2}, Tell(r, code),
         Justified(r), code = 0 => r.status \in {"accepted", "queued"}
  PROVE  Inv'
<1>1. /\ pc' = "done" /\ call' = NoAnswer /\ report' = r /\ exitCode' = code
      /\ link' \in {"none", "closing", "gone"}
      /\ link' = "none" => link = "none"
      /\ UNCHANGED <<cli, scan, expected, thread, turn, wire, answer, queueVars, placed>>
  BY DEF Tell, CloseLink, ClientTypeOK, Link, Inv, TypeOK, serverVars
<1>2. QueueOK'
  BY <1>1, QueueUnchanged DEF QueueOK, Inv, TypeOK, Ledger
<1>3. ServerTypeOK'
  BY <1>1 DEF ServerTypeOK, Inv, TypeOK
<1>4. ClientTypeOK'
  BY <1>1 DEF ClientTypeOK, Inv, TypeOK, Pc, Link
<1>5. OneInFlight'
  BY <1>1, Kinds, AnswerFields DEF OneInFlight, Inv, Ledger
<1>6. LinkIsUsed'
  BY <1>1, Kinds DEF LinkIsUsed, CallPc, Method
<1>7. report = Unreported
  BY DEF ReportTruth, Inv, Ledger
<1>8. SteerIsAwaited'
  <2>1. report # OutcomeUnknown("steer")
    BY <1>7, Vocabulary
  <2> QED BY <1>1, <2>1 DEF SteerIsAwaited, SteerOnWire, Inv, Ledger, Justified
<1>9. NothingBeforeSteer' /\ WhileSteering' /\ OnceQueued'
  BY <1>1 DEF NothingBeforeSteer, WhileSteering, OnceQueued, SteerOnWire, queueVars,
              Inv, Ledger
<1>10. ReportTruth'
  <2>1. Failed # OutcomeUnknown("steer")
    BY Vocabulary
  <2>2. Warranted(report, placed)'
    BY <1>1 DEF Warranted, Justified
  <2> QED BY <1>1, <2>1, <2>2 DEF ReportTruth, SteerOnWire, queueVars, Justified
<1>11. ExitTruth'
  BY <1>1 DEF ExitTruth, Inv, Ledger
<1> QED BY <1>2, <1>3, <1>4, <1>5, <1>6, <1>8, <1>9, <1>10, <1>11
        DEF QueueOK, Inv, TypeOK, Ledger

-----------------------------------------------------------------------------
\* The continuations, one by one.

\* Before the steer there is nothing to report but a failure.
LEMMA FailKeeps ==
  ASSUME Inv, cli = "running", NEW code \in {1, 2}, Tell(Failed, code),
         \/ pc \notin {"steer", "queue", "done"}
         \/ pc = "queue" /\ queueResult = "threw"
  PROVE  Inv'
<1>1. pc # "done" /\ placed = <<>> /\ ~SteerOnWire /\ queueResult \in {"uncalled", "threw"}
  BY DEF Inv, Ledger, NothingBeforeSteer, OnceQueued, QueueTruth
<1>2. Failed \in Report \ {Unreported}
  BY Vocabulary DEF Report
<1>3. Justified(Failed)
  BY <1>1, Vocabulary DEF Justified, Warranted
<1> QED BY <1>1, <1>2, <1>3, TellKeeps, Vocabulary

LEMMA AskKeeps ==
  ASSUME Inv, cli = "running", call \notin {Pending, Transport, NoAnswer},
         pc \in {"ready"} \cup (Method \ {"steer"}),
         NEW m \in Method \ {"steer"}, Ask(m)
  PROVE  Inv'
<1>1. Plain(m) \in Request
  BY DEF Plain, Request
<1>2. scan' \in [pages : 0 .. MaxScanPages - 1, hits : 0 .. 1]
  BY DEF Ask, Inv, TypeOK, ClientTypeOK
<1> QED BY <1>1, <1>2, IssueKeeps, Kinds DEF Ask

LEMMA StartKeeps ==
  ASSUME Inv, Start PROVE Inv'
<1>1. CASE \E code \in {1, 2} : Tell(Failed, code)
  BY <1>1, FailKeeps DEF Start
<1>2. CASE /\ pc' = "ready" /\ call' = Pending /\ link' = "connecting"
           /\ UNCHANGED <<cli, scan, expected, report, exitCode, serverVars, queueVars, placed>>
  <2>1. pc = "start" /\ link = "none"
    BY DEF Start, Inv, Ledger, LinkIsUsed
  <2>2. QueueOK'
    BY <1>2, QueueUnchanged DEF QueueOK, Inv, TypeOK, Ledger
  <2>3. ServerTypeOK' /\ ClientTypeOK'
    BY <1>2 DEF ServerTypeOK, ClientTypeOK, serverVars, Inv, TypeOK, Pc, CallPc, Link
  <2>4. wire = Nothing /\ answer = NoAnswer
    BY <2>1 DEF Inv, Ledger, OneInFlight
  <2>5. OneInFlight' /\ LinkIsUsed'
    BY <1>2, <2>1, <2>4, Kinds, AnswerFields DEF OneInFlight, LinkIsUsed, serverVars, CallPc
  <2>6. SteerIsAwaited' /\ NothingBeforeSteer' /\ WhileSteering' /\ OnceQueued'
    BY <1>2, <2>1 DEF Inv, Ledger, SteerIsAwaited, NothingBeforeSteer, WhileSteering,
          OnceQueued, SteerOnWire, serverVars, queueVars
  <2>7. ReportTruth' /\ ExitTruth'
    BY <1>2, <2>1 DEF Inv, Ledger, ReportTruth, ExitTruth, Warranted, SteerOnWire,
          serverVars, queueVars
  <2> QED BY <2>2, <2>3, <2>5, <2>6, <2>7 DEF QueueOK, Inv, TypeOK, Ledger
<1> QED BY <1>1, <1>2 DEF Start

LEMMA EarlyContinuationsKeep ==
  ASSUME Inv,
         AfterReady \/ AfterInitialize \/ AfterReadSender \/ AfterResolve \/ AfterPage
  PROVE  Inv'
<1>1. CASE AfterReady
  <2>1. cli = "running" /\ pc = "ready" /\ (Fail \/ (call = Ok /\ Ask("initialize")))
    BY <1>1 DEF AfterReady, Resumes
  <2> QED BY <2>1, FailKeeps, AskKeeps, Kinds DEF Fail, Method
<1>2. CASE AfterInitialize
  <2>1. cli = "running" /\ pc = "initialize" /\ (Fail \/ (call = Ok /\ Ask("readSender")))
    BY <1>2 DEF AfterInitialize, Resumes
  <2> QED BY <2>1, FailKeeps, AskKeeps, Kinds DEF Fail, Method
<1>3. CASE AfterReadSender
  <2>1. /\ cli = "running" /\ pc = "readSender"
        /\ Fail \/ (call = Ok /\ (Ask("resolve") \/ Ask("list")))
    BY <1>3 DEF AfterReadSender, Resumes
  <2> QED BY <2>1, FailKeeps, AskKeeps, Kinds DEF Fail, Method
<1>4. CASE AfterResolve
  <2>1. cli = "running" /\ pc = "resolve" /\ (Fail \/ (call = Ok /\ Ask("readTarget")))
    BY <1>4 DEF AfterResolve, Resumes
  <2> QED BY <2>1, FailKeeps, AskKeeps, Kinds DEF Fail, Method
<1>5. CASE AfterPage
  <2> DEFINE hits  == scan.hits + call.hits
             pages == scan.pages + 1
  <2>1. cli = "running" /\ pc = "list"
    BY <1>5 DEF AfterPage, Resumes
  <2>2. CASE Fail
    BY <2>1, <2>2, FailKeeps DEF Fail
  <2>3. CASE ~Fail
    <3>1. /\ call.kind = "page" /\ ~(hits > 1)
          /\ \/ /\ pages < MaxScanPages
                /\ Issue(Plain("list"))
                /\ scan' = [pages |-> pages, hits |-> hits]
                /\ UNCHANGED expected
             \/ Ask("readTarget")
      BY <1>5, <2>3 DEF AfterPage
    <3>2. call \notin {Pending, Transport, NoAnswer}
      BY <3>1, Kinds
    <3>3. call.hits \in 0 .. 2 /\ scan \in [pages : 0 .. MaxScanPages - 1, hits : 0 .. 1]
      BY <3>1, AnswerFields DEF Inv, TypeOK, ClientTypeOK, Hits
    <3>4. CASE Ask("readTarget")
      BY <2>1, <3>2, <3>4, AskKeeps DEF Method
    <3>5. CASE /\ pages < MaxScanPages
               /\ Issue(Plain("list"))
               /\ scan' = [pages |-> pages, hits |-> hits]
               /\ UNCHANGED expected
      <4>1. scan' \in [pages : 0 .. MaxScanPages - 1, hits : 0 .. 1]
        BY <3>1, <3>3, <3>5, MaxScanPagesAssumption
      <4>2. Plain("list") \in Request /\ Plain("list").method # "steer"
        BY Kinds DEF Plain, Request, Method
      <4> QED BY <2>1, <3>2, <3>5, <4>1, <4>2, IssueKeeps DEF Method
    <3> QED BY <3>1, <3>4, <3>5
  <2> QED BY <2>2, <2>3
<1> QED BY <1>1, <1>2, <1>3, <1>4, <1>5

LEMMA LateContinuationsKeep ==
  ASSUME Inv, AfterReadTarget \/ AfterTurns
  PROVE  Inv'
<1>1. CASE AfterReadTarget
  <2>1. /\ cli = "running" /\ pc = "readTarget" /\ call # Pending
        /\ Fail \/ (call = Status("active") /\ Ask("turns")) \/ FallBack
    BY <1>1 DEF AfterReadTarget, Resumes
  <2>2. placed = <<>> /\ ~SteerOnWire /\ queueResult = "uncalled"
    BY <2>1 DEF Inv, Ledger, NothingBeforeSteer
  <2> QED BY <2>1, <2>2, FailKeeps, AskKeeps, FallBackKeeps, Kinds DEF Fail, Method
<1>2. CASE AfterTurns
  <2>1. /\ cli = "running" /\ pc = "turns" /\ call # Pending
        /\ \/ Fail
           \/ FallBack
           \/ /\ call.kind = "turns" /\ call.turn # NoTurn
              /\ Issue(Steer(call.turn)) /\ expected' = call.turn /\ UNCHANGED scan
    BY <1>2 DEF AfterTurns, Resumes
  <2>2. placed = <<>> /\ ~SteerOnWire /\ queueResult = "uncalled"
    BY <2>1 DEF Inv, Ledger, NothingBeforeSteer
  <2>3. CASE Fail
    BY <2>1, <2>3, FailKeeps DEF Fail
  <2>4. CASE FallBack
    BY <2>1, <2>2, <2>4, FallBackKeeps
  <2>5. CASE /\ call.kind = "turns" /\ call.turn # NoTurn
             /\ Issue(Steer(call.turn)) /\ expected' = call.turn /\ UNCHANGED scan
    <3>1. call.turn \in TurnId
      BY <2>5, AnswerFields DEF Inv, TypeOK, ClientTypeOK
    <3>2. Steer(call.turn) \in Request
      BY <3>1 DEF Steer, Request, Method
    <3>3. scan' \in [pages : 0 .. MaxScanPages - 1, hits : 0 .. 1]
      BY <2>5 DEF Inv, TypeOK, ClientTypeOK
    <3>4. call \notin {Pending, Transport, NoAnswer}
      BY <2>5, Kinds
    <3> QED BY <2>1, <2>5, <3>1, <3>2, <3>3, <3>4, IssueKeeps, Kinds DEF Method
  <2> QED BY <2>1, <2>3, <2>4, <2>5
<1> QED BY <1>1, <1>2

LEMMA AfterSteerKeeps ==
  ASSUME Inv, AfterSteer PROVE Inv'
<1>1. /\ cli = "running" /\ pc = "steer" /\ call # Pending /\ queueResult = "uncalled"
      /\ expected \in TurnId /\ placed \in {<<>>, <<InTurn(expected)>>} /\ Tells(call)
  BY DEF AfterSteer, Resumes, Inv, Ledger, WhileSteering
<1>2. call \in Answer => ~SteerOnWire
  BY Kinds DEF Inv, Ledger, OneInFlight, SteerOnWire
<1>3. /\ Steered(expected) \in Answer
      /\ Refused => call \in Answer
  <2>1. Steered(expected) \in Answer
    BY <1>1 DEF Answer
  <2>2. Refused => call \in Answer
    BY AnswerFields DEF Refused, Inv, TypeOK, ClientTypeOK
  <2> QED BY <2>1, <2>2
<1>4. CASE Confirmed /\ Tell(Accepted(expected), 0)
  <2>1. placed = <<InTurn(expected)>> /\ ~SteerOnWire
    BY <1>1, <1>2, <1>3, <1>4 DEF Confirmed, Tells
  <2>2. Accepted(expected) \in Report \ {Unreported}
    BY <1>1, Vocabulary DEF Report
  <2>3. Justified(Accepted(expected))
    BY <1>1, <2>1, Vocabulary DEF Justified, Warranted
  <2> QED BY <1>1, <1>4, <2>2, <2>3, TellKeeps, Vocabulary
<1>5. CASE SteeringUnavailable /\ FallBack
  <2>1. placed = <<>> /\ ~SteerOnWire
    <3>1. call.kind = "error" /\ call.code = InvalidParams
      BY <1>5 DEF SteeringUnavailable, Error
    <3>2. InvalidParams \in Refusals
      BY DEF Refusals
    <3> QED BY <1>1, <3>1, <3>2 DEF Tells
  <2> QED BY <1>1, <1>5, <2>1, FallBackKeeps
<1>6. CASE Refused /\ Tell(Rejected("steer"), 1)
  <2>1. placed = <<>> /\ ~SteerOnWire
    BY <1>1, <1>6 DEF Refused, Tells
  <2>2. Rejected("steer") \in Report \ {Unreported}
    BY Vocabulary DEF Report, Route
  <2>3. Justified(Rejected("steer"))
    BY <1>1, <2>1, Vocabulary DEF Justified, Warranted
  <2> QED BY <1>1, <1>6, <2>2, <2>3, TellKeeps, Vocabulary
<1>7. CASE Tell(OutcomeUnknown("steer"), 1)
  <2>1. placed = <<>> \/ (Len(placed) = 1 /\ placed[1].via = "steer")
    <3>1. CASE placed = <<>>
      BY <3>1
    <3>2. CASE placed = <<InTurn(expected)>>
      BY <3>2 DEF InTurn
    <3> QED BY <1>1, <3>1, <3>2
  <2>2. OutcomeUnknown("steer") \in Report \ {Unreported}
    BY Vocabulary DEF Report, Route
  <2>3. Justified(OutcomeUnknown("steer"))
    BY <1>1, <2>1, Vocabulary DEF Justified, Warranted
  <2> QED BY <1>1, <1>7, <2>2, <2>3, TellKeeps, Vocabulary
<1> QED BY <1>4, <1>5, <1>6, <1>7 DEF AfterSteer

LEMMA AfterQueueKeeps ==
  ASSUME Inv, AfterQueue PROVE Inv'
<1>1. cli = "running" /\ pc = "queue" /\ ~SteerOnWire
  BY DEF AfterQueue, Inv, Ledger, ReportTruth, OnceQueued
<1>2. placed \in {<<>>, <<InQueue>>}
  BY <1>1 DEF Inv, Ledger, ReportTruth, QueueTruth
<1>3. placed = <<>> \/ (Len(placed) = 1 /\ placed[1].via = "queue")
  <2>1. CASE placed = <<>>
    BY <2>1
  <2>2. CASE placed = <<InQueue>>
    BY <2>2 DEF InQueue
  <2> QED BY <1>2, <2>1, <2>2
<1>4. CASE queueResult = "queued" /\ Tell(Queued, 0)
  <2>1. Queued \in Report \ {Unreported}
    BY Vocabulary DEF Report
  <2>2. Justified(Queued)
    BY <1>1, <1>4, Vocabulary DEF Justified, Warranted, Inv, Ledger, QueueTruth
  <2> QED BY <1>1, <1>4, <2>1, <2>2, TellKeeps, Vocabulary
<1>5. CASE queueResult = "rejected" /\ Tell(Rejected("queue"), 1)
  <2>1. Rejected("queue") \in Report \ {Unreported}
    BY Vocabulary DEF Report, Route
  <2>2. Justified(Rejected("queue"))
    BY <1>1, <1>5, Vocabulary DEF Justified, Warranted, Inv, Ledger, QueueTruth
  <2> QED BY <1>1, <1>5, <2>1, <2>2, TellKeeps, Vocabulary
<1>6. CASE queueResult = "outcome_unknown" /\ Tell(OutcomeUnknown("queue"), 1)
  <2>1. OutcomeUnknown("queue") \in Report \ {Unreported}
    BY Vocabulary DEF Report, Route
  <2>2. Justified(OutcomeUnknown("queue"))
    BY <1>1, <1>3, <1>6, Vocabulary DEF Justified, Warranted
  <2> QED BY <1>1, <1>6, <2>1, <2>2, TellKeeps, Vocabulary
<1>7. CASE queueResult = "threw" /\ Fail
  BY <1>1, <1>7, FailKeeps DEF Fail
<1> QED BY <1>4, <1>5, <1>6, <1>7 DEF AfterQueue

-----------------------------------------------------------------------------
(***************************************************************************)
(* The events.  A settled promise other than an answer, a connection that  *)
(* closes and a process that ends disturb none of the parts.               *)
(***************************************************************************)
LEMMA ConnectionEventsKeep ==
  ASSUME Inv, cli = "running",
         call' \in {call, Transport}, call = Pending \/ UNCHANGED call,
         link' \in {"closing", "gone"}, call' # Pending,
         link # "none",
         UNCHANGED <<cli, pc, scan, expected, report, exitCode, serverVars, queueVars, placed>>
  PROVE  Inv'
<1>1. UNCHANGED <<cli, pc, scan, expected, report, exitCode, thread, turn, wire, answer,
                  queueVars, placed>>
  BY DEF serverVars
<1>2. QueueOK'
  BY <1>1, QueueUnchanged DEF QueueOK, Inv, TypeOK, Ledger
<1>3. ServerTypeOK' /\ ClientTypeOK'
  BY <1>1 DEF ServerTypeOK, ClientTypeOK, Inv, TypeOK, Link
<1>4. call' \in Answer => call \in Answer
  BY Kinds, AnswerFields
<1>5. OneInFlight'
  BY <1>1, <1>4 DEF OneInFlight, Inv, Ledger
<1>6. LinkIsUsed'
  <2>1. pc \in CallPc \/ UNCHANGED call
    BY Kinds DEF LinkIsUsed, Inv, Ledger
  <2>2. pc # "start"
    BY DEF LinkIsUsed, Inv, Ledger
  <2> QED BY <1>1, <2>1, <2>2 DEF LinkIsUsed, Inv, Ledger
<1>7. SteerIsAwaited' /\ NothingBeforeSteer' /\ OnceQueued'
  BY <1>1 DEF SteerIsAwaited, NothingBeforeSteer, OnceQueued, SteerOnWire, queueVars,
              Inv, Ledger
<1>8. WhileSteering'
  <2>1. Tells(answer)' <=> Tells(answer)
    BY <1>1 DEF Tells, SteerOnWire
  <2>2. Tells(call) => Tells(call)'
    BY <1>1, Kinds DEF Tells, SteerOnWire
  <2> QED BY <1>1, <2>1, <2>2 DEF WhileSteering, queueVars, Inv, Ledger
<1>9. ReportTruth' /\ ExitTruth'
  BY <1>1 DEF ReportTruth, ExitTruth, Warranted, SteerOnWire, queueVars, Inv, Ledger
<1> QED BY <1>2, <1>3, <1>5, <1>6, <1>7, <1>8, <1>9 DEF QueueOK, Inv, TypeOK, Ledger

LEMMA ClosingEventsKeep ==
  ASSUME Inv, TimesOut \/ ConnectionFails \/ ProxyFails \/ ProxyReleased
  PROVE  Inv'
<1>1. CASE TimesOut
  <2>1. /\ cli = "running" /\ call = Pending /\ link \in {"connecting", "open"}
        /\ call' = Transport /\ link' = "closing"
        /\ UNCHANGED <<cli, pc, scan, expected, report, exitCode, serverVars, queueVars, placed>>
    BY <1>1 DEF TimesOut, NodeIdle, CloseLink, LinkIsUsed, Inv, Ledger
  <2> QED BY <2>1, ConnectionEventsKeep, Kinds
<1>2. CASE ConnectionFails
  <2>1. /\ cli = "running" /\ link \in {"connecting", "open"} /\ link' = "closing"
        /\ call' = IF call = Pending THEN Transport ELSE call
        /\ UNCHANGED <<cli, pc, scan, expected, report, exitCode, serverVars, queueVars, placed>>
    BY <1>2 DEF ConnectionFails, CloseLink
  <2> QED BY <2>1, ConnectionEventsKeep, Kinds
<1>3. CASE ProxyFails
  <2>1. /\ cli = "running" /\ link \in {"connecting", "open"} /\ link' = "gone"
        /\ call' = IF call = Pending THEN Transport ELSE call
        /\ UNCHANGED <<cli, pc, scan, expected, report, exitCode, serverVars, queueVars, placed>>
    BY <1>3 DEF ProxyFails, NodeIdle
  <2> QED BY <2>1, ConnectionEventsKeep, Kinds
<1>4. CASE ProxyReleased
  <2>1. /\ cli = "running" /\ link = "closing" /\ link' = "gone" /\ UNCHANGED call
        /\ UNCHANGED <<cli, pc, scan, expected, report, exitCode, serverVars, queueVars, placed>>
    BY <1>4 DEF ProxyReleased, NodeIdle
  <2>2. call # Pending
    BY <2>1 DEF LinkIsUsed, Inv, Ledger
  <2> QED BY <2>1, <2>2, ConnectionEventsKeep
<1> QED BY <1>1, <1>2, <1>3, <1>4

LEMMA HandshakeKeeps ==
  ASSUME Inv, HandshakeDone PROVE Inv'
<1>1. /\ cli = "running" /\ pc = "ready" /\ link' = "open" /\ call' = Ok
      /\ UNCHANGED <<cli, pc, scan, expected, report, exitCode, thread, turn, wire, answer,
                     queueVars, placed>>
  BY DEF HandshakeDone, NodeIdle, serverVars, LinkIsUsed, Inv, Ledger
<1>2. wire = Nothing /\ answer = NoAnswer
  BY DEF HandshakeDone, OneInFlight, Inv, Ledger
<1>3. QueueOK'
  BY <1>1, QueueUnchanged DEF QueueOK, Inv, TypeOK, Ledger
<1>4. ServerTypeOK' /\ ClientTypeOK'
  BY <1>1 DEF ServerTypeOK, ClientTypeOK, Inv, TypeOK, Link, Answer
<1>5. OneInFlight' /\ LinkIsUsed'
  BY <1>1, <1>2, Kinds DEF OneInFlight, LinkIsUsed, CallPc
<1>6. SteerIsAwaited' /\ NothingBeforeSteer' /\ WhileSteering' /\ OnceQueued'
  BY <1>1 DEF SteerIsAwaited, NothingBeforeSteer, WhileSteering, OnceQueued, SteerOnWire,
              queueVars, Inv, Ledger
<1>7. ReportTruth' /\ ExitTruth'
  BY <1>1 DEF ReportTruth, ExitTruth, Warranted, SteerOnWire, queueVars, Inv, Ledger
<1> QED BY <1>3, <1>4, <1>5, <1>6, <1>7 DEF QueueOK, Inv, TypeOK, Ledger

LEMMA OnMessageKeeps ==
  ASSUME Inv, OnMessage PROVE Inv'
<1>1. /\ cli = "running" /\ link = "open" /\ answer # NoAnswer
      /\ call' = answer /\ answer' = NoAnswer
      /\ UNCHANGED <<cli, pc, link, scan, expected, report, exitCode,
                     thread, turn, wire, queueVars, placed>>
  BY DEF OnMessage, NodeIdle
<1>2. wire = Nothing /\ call = Pending /\ answer \in Answer /\ pc \in CallPc
  BY <1>1 DEF OneInFlight, LinkIsUsed, ServerTypeOK, Inv, TypeOK, Ledger
<1>3. QueueOK'
  BY <1>1, QueueUnchanged DEF QueueOK, Inv, TypeOK, Ledger
<1>4. ServerTypeOK' /\ ClientTypeOK'
  BY <1>1, <1>2 DEF ServerTypeOK, ClientTypeOK, Inv, TypeOK
<1>5. OneInFlight' /\ LinkIsUsed'
  BY <1>1, <1>2, Kinds, AnswerFields DEF OneInFlight, LinkIsUsed, CallPc, Inv, Ledger
<1>6. SteerIsAwaited' /\ NothingBeforeSteer' /\ OnceQueued'
  BY <1>1 DEF SteerIsAwaited, NothingBeforeSteer, OnceQueued, SteerOnWire,
              queueVars, Inv, Ledger
<1>7. WhileSteering'
  <2>1. Tells(answer) => Tells(call)'
    BY <1>1 DEF Tells, SteerOnWire
  <2>2. Tells(answer)'
    BY <1>1, Kinds DEF Tells
  <2> QED BY <1>1, <2>1, <2>2 DEF WhileSteering, queueVars, Inv, Ledger
<1>8. ReportTruth' /\ ExitTruth'
  BY <1>1 DEF ReportTruth, ExitTruth, Warranted, SteerOnWire, queueVars, Inv, Ledger
<1> QED BY <1>3, <1>4, <1>5, <1>6, <1>7, <1>8 DEF QueueOK, Inv, TypeOK, Ledger

LEMMA EndingsKeep ==
  ASSUME Inv, PingThrows \/ Killed \/ Exits PROVE Inv'
<1>1. /\ cli' \in {"crashed", "killed", "exited"} /\ cli = "running"
      /\ cli' = "exited" => Exits
      /\ exitCode' \in {exitCode, 1, 13}
      /\ exitCode' \in {0, 13} => exitCode' = exitCode \/ (Exits /\ pc # "done")
      /\ UNCHANGED <<pc, call, link, scan, expected, report, thread, turn, wire, answer,
                     queueVars, placed>>
  BY DEF PingThrows, Killed, Exits, NodeIdle, serverVars
<1>2. Exits => pc = "done"
  <2> SUFFICES ASSUME Exits PROVE pc = "done"
    OBVIOUS
  <2>1. ~ContinuationReady /\ call # Pending /\ ~QueueHolds
    BY DEF Exits, NodeIdle
  <2>2. pc \notin CallPc /\ pc # "start"
    BY <2>1 DEF ContinuationReady
  <2>3. pc = "queue" => queueResult = "pending" /\ queueTimer
    BY <2>1 DEF ContinuationReady, ReportTruth, QueueTruth, QueueTypeOK, Inv, TypeOK, Ledger
  <2>4. pc # "queue"
    BY <2>1, <2>3 DEF QueueHolds
  <2> QED BY <2>2, <2>4 DEF ClientTypeOK, Pc, Inv, TypeOK
<1>3. QueueOK'
  BY <1>1, QueueUnchanged DEF QueueOK, Inv, TypeOK, Ledger
<1>4. ServerTypeOK' /\ ClientTypeOK'
  BY <1>1 DEF ServerTypeOK, ClientTypeOK, Inv, TypeOK, Cli
<1>5. OneInFlight' /\ LinkIsUsed'
  BY <1>1 DEF OneInFlight, LinkIsUsed, Inv, Ledger
<1>6. SteerIsAwaited' /\ NothingBeforeSteer' /\ OnceQueued' /\ WhileSteering'
  <2>1. Tells(answer)' /\ Tells(call)' <=> Tells(answer) /\ Tells(call)
    BY <1>1 DEF Tells, SteerOnWire
  <2> QED BY <1>1, <2>1 DEF SteerIsAwaited, NothingBeforeSteer, OnceQueued, SteerOnWire,
              WhileSteering, queueVars, Inv, Ledger
<1>7. ReportTruth'
  BY <1>1 DEF ReportTruth, Warranted, SteerOnWire, queueVars, Inv, Ledger
<1>8. ExitTruth'
  BY <1>1, <1>2 DEF ExitTruth, Inv, Ledger
<1> QED BY <1>3, <1>4, <1>5, <1>6, <1>7, <1>8 DEF QueueOK, Inv, TypeOK, Ledger

-----------------------------------------------------------------------------
(***************************************************************************)
(* The server.  A served request leaves the wire, its answer tells the     *)
(* truth, and only turn/steer can have placed the message.                 *)
(***************************************************************************)
LEMMA ReadAnswers ==
  ASSUME Inv, ServeRead
  PROVE  answer' \in Answer /\ answer'.kind \notin {"steered", "error"}
<1>1. wire \in Request /\ wire.method \in Method \ {"steer"}
  BY Kinds DEF ServeRead, ServerTypeOK, Inv, TypeOK, Request
<1>2. answer' = Malformed \/ answer' \in RightAnswers(wire.method)
  BY DEF ServeRead
<1>3. thread \in ThreadStatus /\ RunningTurn \in TurnId \cup {NoTurn}
  BY MaxTurnAssumption DEF ServerTypeOK, Inv, TypeOK, RunningTurn, TurnId, NoTurn
<1>4. CASE answer' = Malformed
  BY <1>4, Kinds DEF Answer
<1>5. CASE wire.method \in {"initialize", "readSender", "resolve"} /\ answer' = Ok
  BY <1>5, Kinds DEF Answer
<1>6. CASE answer' \in {Page(n, more) : n \in Hits, more \in BOOLEAN}
  BY <1>6, Kinds DEF Answer
<1>7. CASE answer' = Status(thread)
  BY <1>3, <1>7, Kinds DEF Answer
<1>8. CASE answer' = Running(RunningTurn)
  BY <1>3, <1>8, Kinds DEF Answer
<1> QED BY <1>1, <1>2, <1>4, <1>5, <1>6, <1>7, <1>8 DEF RightAnswers, Method

LEMMA UnclearSays ==
  ASSUME Inv, NEW a \in UnclearAnswers, wire.turn = expected
  PROVE  /\ a \in Answer \cup {NoAnswer}
         /\ a # Steered(expected)
         /\ ~(a.kind = "error" /\ a.code \in Refusals)
<1>1. CASE a = NoAnswer \/ a = Malformed
  BY <1>1, Kinds DEF Answer
<1>2. CASE a \in {Error(InternalError, text) : text \in Text}
  <2>1. PICK text \in Text : a = Error(InternalError, text)
    BY <1>2
  <2>2. a.kind = "error" /\ a.code = InternalError
    BY <2>1 DEF Error
  <2>3. InternalError \in RpcCode /\ InternalError \notin Refusals
    BY DEF RpcCode, Refusals, InternalError, InvalidRequest, MethodNotFound, InvalidParams
  <2>4. a \in Answer
    BY <2>1, <2>3 DEF Answer
  <2> QED BY <2>2, <2>3, <2>4, Kinds
<1>3. CASE a \in {Steered(t) : t \in (TurnId \cup {NoTurn}) \ {wire.turn}}
  <2>1. PICK t \in TurnId \cup {NoTurn} : t # wire.turn /\ a = Steered(t)
    BY <1>3
  <2> QED BY <2>1, Kinds DEF Answer
<1> QED BY <1>1, <1>2, <1>3 DEF UnclearAnswers

\* A served request: nothing but the wire, the answer and `placed` changes.
LEMMA ServedKeeps ==
  ASSUME Inv, wire # Nothing, wire' = Nothing, answer' \in Answer \cup {NoAnswer},
         UNCHANGED <<clientVars, queueVars, thread, turn>>,
         QueueOK', pc = "steer" => Tells(answer)' /\ placed' \in {<<>>, <<InTurn(expected)>>},
         UNCHANGED placed \/ pc \in {"steer", "done"},
         Warranted(report, placed)'
  PROVE  Inv'
<1>1. UNCHANGED <<cli, pc, call, link, scan, expected, report, exitCode, thread, turn,
                  queueTimer, queueChild, queueResult>>
  BY DEF clientVars, queueVars
<1>2. /\ link \notin {"none", "connecting"} /\ ~(link = "open" /\ call # Pending)
      /\ call \notin Answer
  BY DEF OneInFlight, Inv, Ledger
<1>3. ServerTypeOK' /\ ClientTypeOK'
  BY <1>1 DEF ServerTypeOK, ClientTypeOK, Inv, TypeOK
<1>4. OneInFlight' /\ LinkIsUsed'
  BY <1>1, <1>2 DEF OneInFlight, LinkIsUsed, Inv, Ledger
<1>5. ~SteerOnWire'
  BY Kinds DEF SteerOnWire
<1>6. SteerIsAwaited' /\ NothingBeforeSteer' /\ OnceQueued'
  BY <1>1, <1>5 DEF SteerIsAwaited, NothingBeforeSteer, OnceQueued, Inv, Ledger
<1>7. WhileSteering'
  <2>1. Tells(call)'
    BY <1>1, <1>2, Kinds, AnswerFields DEF Tells, ClientTypeOK, Inv, TypeOK
  <2> QED BY <1>1, <2>1 DEF WhileSteering, Inv, Ledger
<1>8. ReportTruth' /\ ExitTruth'
  BY <1>1, <1>5 DEF ReportTruth, ExitTruth, Inv, Ledger
<1> QED BY <1>3, <1>4, <1>6, <1>7, <1>8 DEF QueueOK, Inv, TypeOK, Ledger

LEMMA ServerKeeps ==
  ASSUME Inv, Server, UNCHANGED <<clientVars, queueVars>>
  PROVE  Inv'
<1>1. CASE TurnStarts \/ TurnStopsOrThreadMoves
  <2>1. UNCHANGED <<cli, pc, call, link, scan, expected, report, exitCode, wire, answer,
                    queueVars, placed>>
    BY <1>1 DEF TurnStarts, TurnStopsOrThreadMoves, clientVars
  <2>2. QueueOK'
    BY <2>1, QueueUnchanged DEF QueueOK, Inv, TypeOK, Ledger
  <2>3. ServerTypeOK'
    BY <1>1, MaxTurnAssumption
       DEF ServerTypeOK, Inv, TypeOK, TurnStarts, TurnStopsOrThreadMoves, ThreadStatus
  <2>4. ClientTypeOK'
    BY <2>1 DEF ClientTypeOK, Inv, TypeOK
  <2>5. OneInFlight' /\ LinkIsUsed'
    BY <2>1 DEF OneInFlight, LinkIsUsed, Inv, Ledger
  <2>6. SteerIsAwaited' /\ NothingBeforeSteer' /\ OnceQueued' /\ WhileSteering'
    <3>1. Tells(answer)' /\ Tells(call)' <=> Tells(answer) /\ Tells(call)
      BY <2>1 DEF Tells, SteerOnWire
    <3> QED BY <2>1, <3>1 DEF SteerIsAwaited, NothingBeforeSteer, OnceQueued, SteerOnWire,
                WhileSteering, queueVars, Inv, Ledger
  <2>7. ReportTruth' /\ ExitTruth'
    BY <2>1 DEF ReportTruth, ExitTruth, Warranted, SteerOnWire, queueVars, Inv, Ledger
  <2> QED BY <2>2, <2>3, <2>4, <2>5, <2>6, <2>7 DEF QueueOK, Inv, TypeOK, Ledger
<1>2. CASE ServeRead
  <2>1. wire # Nothing /\ wire' = Nothing /\ UNCHANGED <<thread, turn, placed>>
    BY <1>2, Kinds DEF ServeRead
  <2>2. QueueOK'
    BY <2>1, QueueUnchanged DEF QueueOK, Inv, TypeOK, Ledger
  <2>3. answer' \in Answer /\ Tells(answer)'
    BY <1>2, ReadAnswers, Kinds DEF Tells
  <2>4. pc = "steer" => placed' \in {<<>>, <<InTurn(expected)>>}
    BY <2>1 DEF WhileSteering, Inv, Ledger
  <2>5. Warranted(report, placed)'
    BY <2>1 DEF clientVars, Warranted, ReportTruth, Inv, Ledger
  <2> QED BY <2>1, <2>2, <2>3, <2>4, <2>5, ServedKeeps
<1>3. ASSUME wire.method = "steer"
      PROVE  /\ wire # Nothing /\ wire.turn = expected /\ expected \in TurnId
             /\ placed = <<>> /\ queueResult = "uncalled"
             /\ \/ pc = "steer" /\ report = Unreported
                \/ pc = "done" /\ report = OutcomeUnknown("steer")
  <2>1. wire # Nothing /\ wire.turn = expected /\ expected \in TurnId /\ placed = <<>>
    BY <1>3, Kinds DEF SteerIsAwaited, SteerOnWire, Inv, Ledger
  <2>2. CASE pc = "steer"
    BY <2>1, <2>2 DEF WhileSteering, ReportTruth, Inv, Ledger
  <2>3. CASE report = OutcomeUnknown("steer")
    BY <2>1, <2>3, Vocabulary DEF ReportTruth, Inv, Ledger
  <2> QED BY <1>3, <2>2, <2>3 DEF SteerIsAwaited, SteerOnWire, Inv, Ledger
<1>4. CASE AcceptSteer
  <2>1. /\ wire.method = "steer" /\ wire' = Nothing /\ UNCHANGED <<thread, turn>>
        /\ answer' \in {Steered(wire.turn)} \cup UnclearAnswers
    BY <1>4 DEF AcceptSteer
  <2>2. placed' = <<InTurn(expected)>>
    BY <1>3, <1>4, <2>1 DEF AcceptSteer
  <2>3. QueueOK'
    <3>1. PlacedTypeOK'
      BY <1>3, <2>1, <2>2 DEF PlacedTypeOK, Place
    <3> QED BY <1>3, <2>1, <3>1, QueueIdle DEF QueueOK, Inv, TypeOK, Ledger
  <2>4. answer' \in Answer \cup {NoAnswer} /\ Tells(answer)'
    <3>1. CASE answer' = Steered(expected)
      <4>1. answer' \in Answer
        BY <1>3, <2>1, <3>1 DEF Answer
      <4> QED BY <2>2, <3>1, <4>1, Kinds DEF Tells, clientVars
    <3>2. CASE answer' \in UnclearAnswers
      BY <1>3, <2>1, <3>2, UnclearSays DEF Tells, clientVars
    <3> QED BY <1>3, <2>1, <3>1, <3>2
  <2>5. Warranted(report, placed)'
    <3>1. report' = report /\ Len(placed') = 1 /\ placed'[1].via = "steer"
      BY <2>2 DEF clientVars, InTurn
    <3> QED BY <1>3, <2>1, <3>1, Vocabulary DEF Warranted
  <2> QED BY <1>3, <2>1, <2>2, <2>3, <2>4, <2>5, ServedKeeps
<1>5. CASE DeclineSteer
  <2>1. /\ wire.method = "steer" /\ wire' = Nothing /\ UNCHANGED <<thread, turn, placed>>
        /\ \/ answer' \in UnclearAnswers
           \/ \E c \in Refusals : answer' = Error(c, "other")
           \/ answer' = Error(InvalidParams, "fixed")
    BY <1>5 DEF DeclineSteer
  <2>2. QueueOK'
    BY <2>1, QueueUnchanged DEF QueueOK, Inv, TypeOK, Ledger
  <2>3. answer' \in Answer \cup {NoAnswer} /\ Tells(answer)'
    <3>1. CASE answer' \notin UnclearAnswers
      <4>1. PICK c \in Refusals : answer' = Error(c, "other") \/ answer' = Error(c, "fixed")
        <5>1. InvalidParams \in Refusals
          BY DEF Refusals
        <5> QED BY <2>1, <3>1, <5>1
      <4>2. answer' \in Answer
        <5>1. c \in RpcCode
          BY DEF RpcCode
        <5>2. Error(c, "other") \in Answer /\ Error(c, "fixed") \in Answer
          BY <5>1 DEF Answer, Text
        <5> QED BY <4>1, <5>2
      <4>3. answer' # Steered(expected')
        BY <4>1 DEF Error, Steered
      <4>4. placed' = <<>> /\ ~SteerOnWire'
        BY <1>3, <2>1, Kinds DEF SteerOnWire
      <4> QED BY <4>2, <4>3, <4>4 DEF Tells
    <3>2. CASE answer' \in UnclearAnswers
      BY <1>3, <2>1, <3>2, UnclearSays DEF Tells, clientVars
    <3> QED BY <2>1, <3>1, <3>2
  <2>4. Warranted(report, placed)'
    BY <2>1 DEF clientVars, Warranted, ReportTruth, Inv, Ledger
  <2> QED BY <1>3, <2>1, <2>2, <2>3, <2>4, ServedKeeps
<1> QED BY <1>1, <1>2, <1>4, <1>5 DEF Server

-----------------------------------------------------------------------------
\* The queue's steps change neither the client nor the server.
LEMMA QueueStepsKeep ==
  ASSUME Inv, UNCHANGED <<clientVars, serverVars>>, QueueOK',
         queueResult # "uncalled", queueResult' # "uncalled",
         queueResult \in Settled => UNCHANGED queueResult,
         Warranted(report, placed)'
  PROVE  Inv'
<1>1. UNCHANGED <<cli, pc, call, link, scan, expected, report, exitCode, thread, turn,
                  wire, answer>>
  BY DEF clientVars, serverVars
<1>2. pc \in {"queue", "done"} /\ ~SteerOnWire
  BY DEF OnceQueued, Inv, Ledger
<1>3. ServerTypeOK' /\ ClientTypeOK'
  BY <1>1 DEF ServerTypeOK, ClientTypeOK, Inv, TypeOK
<1>4. OneInFlight' /\ LinkIsUsed'
  BY <1>1 DEF OneInFlight, LinkIsUsed, Inv, Ledger
<1>5. SteerIsAwaited' /\ NothingBeforeSteer' /\ OnceQueued' /\ WhileSteering'
  BY <1>1, <1>2 DEF SteerIsAwaited, NothingBeforeSteer, OnceQueued, SteerOnWire,
                    WhileSteering
<1>6. ReportTruth'
  BY <1>1 DEF ReportTruth, SteerOnWire, Settled, Inv, Ledger
<1>7. ExitTruth'
  BY <1>1 DEF ExitTruth, Inv, Ledger
<1> QED BY <1>3, <1>4, <1>5, <1>6, <1>7 DEF QueueOK, Inv, TypeOK, Ledger

LEMMA QueueKeeps ==
  ASSUME Inv,
         \/ QueueEvent
         \/ /\ CodexQueueAccepts \/ CodexQueueEnds \/ CodexQueueDrains
            /\ UNCHANGED <<clientVars, serverVars>>
  PROVE  Inv'
<1>1. QueueOK /\ Warranted(report, placed)
  BY DEF QueueOK, ReportTruth, Inv, TypeOK, Ledger
<1>2. CASE QueueEvent
  <2>1. /\ OnError \/ OnClose \/ OnTimeout \/ GraceExpires \/ QueueExitIsSeen
        /\ UNCHANGED <<clientVars, serverVars, placed>>
    BY <1>2 DEF QueueEvent
  <2>2. Warranted(report, placed)'
    BY <1>1, <2>1 DEF Warranted, clientVars
  <2> QED BY <1>1, <2>1, <2>2, QueueEventKeeps, QueueStepsKeep
<1>3. CASE CodexQueueAccepts /\ UNCHANGED <<clientVars, serverVars>>
  <2>1. /\ queueResult \notin {"uncalled", "threw", "rejected", "queued"}
        /\ placed = <<>> /\ placed' = <<InQueue>> /\ QueueOK' /\ UNCHANGED queueResult
    BY <1>1, <1>3, QueueAccepts DEF CodexQueueAccepts, queueVars
  <2>2. report \in {Unreported, OutcomeUnknown("queue")}
    <3>1. report \in Report
      BY DEF ClientTypeOK, Inv, TypeOK
    <3>2. report \notin {Queued, Rejected("queue"), Failed} /\ report.via # "steer"
      BY <2>1 DEF ReportTruth, Inv, Ledger
    <3> QED BY <3>1, <3>2, Vocabulary DEF Report, Route
  <2>3. Warranted(report, placed)'
    <3>1. report' = report /\ Len(placed') = 1 /\ placed'[1].via = "queue"
      BY <1>3, <2>1 DEF clientVars, InQueue
    <3> QED BY <2>2, <3>1, Vocabulary DEF Warranted
  <2> QED BY <1>3, <2>1, <2>3, QueueStepsKeep
<1>4. CASE (CodexQueueEnds \/ CodexQueueDrains) /\ UNCHANGED <<clientVars, serverVars>>
  <2>1. QueueOK' /\ UNCHANGED <<placed, queueResult>>
    BY <1>1, <1>4, QueueEndsKeeps
  <2>2. queueResult # "uncalled"
    BY <1>1, <1>4 DEF QueueOK, QueueTruth, CodexQueueEnds, CodexQueueDrains, CanEnd,
                      CanDrain, NotStarted
  <2>3. Warranted(report, placed)'
    BY <1>1, <1>4, <2>1 DEF Warranted, clientVars
  <2> QED BY <1>4, <2>1, <2>2, <2>3, QueueStepsKeep
<1> QED BY <1>2, <1>3, <1>4

-----------------------------------------------------------------------------
LEMMA NextInv == Inv /\ [Next]_vars => Inv'
<1> SUFFICES ASSUME Inv, [Next]_vars PROVE Inv'
  OBVIOUS
<1>1. CASE Continues
  BY <1>1, StartKeeps, EarlyContinuationsKeep, LateContinuationsKeep, AfterSteerKeeps,
     AfterQueueKeeps DEF Continues
<1>2. CASE HandshakeDone \/ OnMessage
  BY <1>2, HandshakeKeeps, OnMessageKeeps
<1>3. CASE TimesOut \/ ConnectionFails \/ ProxyFails \/ ProxyReleased
  BY <1>3, ClosingEventsKeep
<1>4. CASE PingThrows \/ Killed \/ Exits
  BY <1>4, EndingsKeep
<1>5. CASE QueueEvent
  BY <1>5, QueueKeeps
<1>6. CASE Outside
  BY <1>6, ServerKeeps, QueueKeeps DEF Outside
<1>7. CASE UNCHANGED vars
  <2>1. UNCHANGED <<clientVars, serverVars, queueVars, placed>>
    BY <1>7 DEF vars
  <2>2. UNCHANGED <<cli, pc, call, link, scan, expected, report, exitCode, thread, turn,
                    wire, answer, queueChild, queueTimer, queueResult, placed>>
    BY <2>1 DEF clientVars, serverVars, queueVars
  <2>3. QueueOK'
    BY <2>1, QueueUnchanged DEF QueueOK, Inv, TypeOK, Ledger
  <2>4. ServerTypeOK' /\ ClientTypeOK'
    BY <2>2 DEF ServerTypeOK, ClientTypeOK, Inv, TypeOK
  <2>5. OneInFlight' /\ LinkIsUsed' /\ SteerIsAwaited' /\ NothingBeforeSteer' /\ OnceQueued'
    BY <2>2 DEF OneInFlight, LinkIsUsed, SteerIsAwaited, NothingBeforeSteer, OnceQueued,
                SteerOnWire, Inv, Ledger
  <2>6. WhileSteering' /\ ReportTruth' /\ ExitTruth'
    BY <2>2 DEF WhileSteering, Tells, ReportTruth, Warranted, ExitTruth, SteerOnWire,
                Inv, Ledger
  <2> QED BY <2>3, <2>4, <2>5, <2>6 DEF QueueOK, Inv, TypeOK, Ledger
<1> QED BY <1>1, <1>2, <1>3, <1>4, <1>5, <1>6, <1>7 DEF Next

-----------------------------------------------------------------------------
\* Every reachable state has well-typed variables.
THEOREM TypeCorrect == Spec => []TypeOK
<1>1. Inv => TypeOK
  BY DEF Inv
<1> QED BY InitInv, NextInv, <1>1, PTL DEF Spec

\* The invariant that the other theorems rest on holds in every reachable state.
THEOREM LedgerHolds == Spec => []Ledger
<1>1. Inv => Ledger
  BY DEF Inv
<1> QED BY InitInv, NextInv, <1>1, PTL DEF Spec

\* `codex queue` is started only for a message that no steer can deliver any more.
THEOREM FallbackExclusive == Spec => []FallbackIsExclusive
<1>1. Inv => FallbackIsExclusive
  <2> SUFFICES ASSUME Inv, queueResult # "uncalled"
               PROVE  /\ wire.method # "steer"
                      /\ \A i \in 1 .. Len(placed) : placed[i] = InQueue
    BY DEF FallbackIsExclusive
  <2>1. ~SteerOnWire /\ placed \in {<<>>, <<InQueue>>}
    BY DEF Inv, Ledger, OnceQueued, QueueTruth
  <2>2. CASE placed = <<>>
    BY <2>1, <2>2 DEF SteerOnWire
  <2>3. CASE placed = <<InQueue>>
    BY <2>1, <2>3 DEF SteerOnWire
  <2> QED BY <2>1, <2>2, <2>3
<1> QED BY InitInv, NextInv, <1>1, PTL DEF Spec

\* The exit status never claims more than what happened to the message.
THEOREM ExitHonest == Spec => []ExitIsHonest
<1>1. Inv => ExitIsHonest
  <2> SUFFICES ASSUME Inv, cli = "exited"
               PROVE  /\ report # Unreported /\ exitCode # 13
                      /\ exitCode = 0 => Len(placed) = 1
    BY DEF ExitIsHonest
  <2>1. /\ pc = "done" /\ report # Unreported /\ exitCode # 13
        /\ exitCode = 0 => report.status \in {"accepted", "queued"}
        /\ Warranted(report, placed)
    BY DEF Inv, Ledger, ExitTruth, ReportTruth
  <2>2. report.status \in {"accepted", "queued"} => Len(placed) = 1
    BY <2>1 DEF Warranted
  <2> QED BY <2>1, <2>2
<1> QED BY InitInv, NextInv, <1>1, PTL DEF Spec

-----------------------------------------------------------------------------
(***************************************************************************)
(* Refinement.  A step prints a report or lands the message, never both,   *)
(* and what it leaves behind is warranted by ReportTruth.                  *)
(***************************************************************************)
LEMMA SameVocabulary ==
  /\ Abstract!Unreported = Unreported
  /\ Abstract!Report = Report
  /\ Abstract!Place = Place
  /\ \A r, p : Abstract!Warranted(r, p) <=> Warranted(r, p)
<1>1. /\ Abstract!Unreported = Unreported
      /\ Abstract!Place = Place
      /\ Abstract!TurnId = TurnId
      /\ \A t : Abstract!Accepted(t) = Accepted(t)
      /\ \A via : Abstract!Rejected(via) = Rejected(via)
      /\ \A via : Abstract!OutcomeUnknown(via) = OutcomeUnknown(via)
      /\ Abstract!Queued = Queued /\ Abstract!Failed = Failed
      /\ Abstract!Route = Route
  BY DEF Abstract!Unreported, Unreported, Abstract!NoTurn, NoTurn, Abstract!Place,
         Place, Abstract!TurnId, TurnId, Abstract!InTurn, InTurn, Abstract!InQueue,
         InQueue, Abstract!Accepted, Accepted, Abstract!Rejected, Rejected,
         Abstract!OutcomeUnknown, OutcomeUnknown, Abstract!Queued, Queued,
         Abstract!Failed, Failed, Abstract!Route, Route
<1>2. Abstract!Report = Report
  BY <1>1 DEF Abstract!Report, Report
<1>3. ASSUME NEW r, NEW p
      PROVE  Abstract!Warranted(r, p) <=> Warranted(r, p)
  BY DEF Abstract!Warranted, Warranted, Abstract!InTurn, InTurn, Abstract!InQueue,
         InQueue, Abstract!NoTurn, NoTurn
<1> QED BY <1>1, <1>2, <1>3

\* A step that changes `placed` puts the first place there and nothing else.
LEMMA OnlyFirst ==
  ASSUME Inv, [Next]_vars
  PROVE  \/ UNCHANGED placed /\ (report = Unreported \/ UNCHANGED report)
         \/ /\ placed = <<>> /\ UNCHANGED report
            /\ \E where \in Place : placed' = <<where>>
<1>1. CASE Continues
  <2>1. pc # "done" /\ UNCHANGED placed
    BY <1>1 DEF Continues, Start, AfterReady, AfterInitialize, AfterReadSender, AfterResolve,
         AfterPage, AfterReadTarget, AfterTurns, AfterSteer, AfterQueue, Resumes,
         Tell, Fail, Ask, Issue, FallBack
  <2> QED BY <2>1 DEF Inv, Ledger, ReportTruth
<1>2. CASE \/ HandshakeDone \/ OnMessage \/ TimesOut \/ ConnectionFails \/ ProxyFails
           \/ ProxyReleased \/ PingThrows \/ Killed \/ Exits
  BY <1>2 DEF HandshakeDone, OnMessage, TimesOut, ConnectionFails, ProxyFails, ProxyReleased,
              PingThrows, Killed, Exits
<1>3. CASE QueueEvent
  BY <1>3 DEF QueueEvent, clientVars
<1>4. CASE Server /\ UNCHANGED <<clientVars, queueVars>>
  <2>1. UNCHANGED report
    BY <1>4 DEF clientVars
  <2>2. CASE AcceptSteer
    <3>1. placed = <<>> /\ wire.turn \in TurnId
      BY <2>2 DEF AcceptSteer, SteerIsAwaited, SteerOnWire, Inv, Ledger
    <3> QED BY <2>1, <2>2, <3>1 DEF AcceptSteer, Place
  <2>3. CASE ~AcceptSteer
    BY <1>4, <2>1, <2>3 DEF Server, TurnStarts, TurnStopsOrThreadMoves, ServeRead, DeclineSteer
  <2> QED BY <2>2, <2>3
<1>5. CASE CodexQueueAccepts /\ UNCHANGED clientVars
  BY <1>5, QueueAccepts DEF QueueOK, Inv, TypeOK, Ledger, clientVars, Place
<1>6. CASE (CodexQueueEnds \/ CodexQueueDrains) /\ UNCHANGED clientVars
  BY <1>6 DEF CodexQueueEnds, CodexQueueDrains, clientVars
<1>7. CASE UNCHANGED vars
  BY <1>7 DEF vars, clientVars
<1> QED BY <1>1, <1>2, <1>3, <1>4, <1>5, <1>6, <1>7 DEF Next, Outside

LEMMA StepImplements ==
  Inv /\ Inv' /\ [Next]_vars => [Abstract!DeliveryNext]_(Abstract!deliveryVars)
<1> SUFFICES ASSUME Inv, Inv', [Next]_vars
             PROVE  Abstract!DeliveryNext \/ UNCHANGED <<placed, report>>
  BY DEF Abstract!deliveryVars
<1>1. report' \in Report /\ Warranted(report', placed')
  BY DEF Inv, TypeOK, ClientTypeOK, Ledger, ReportTruth, Warranted
<1>2. CASE UNCHANGED placed /\ (report = Unreported \/ UNCHANGED report)
  <2>1. CASE report = Unreported /\ report' # Unreported
    <3>1. Abstract!Tell(report')
      BY <1>1, <1>2, <2>1, SameVocabulary DEF Abstract!Tell
    <3> QED BY <1>1, <2>1, <3>1, SameVocabulary DEF Abstract!DeliveryNext
  <2>2. CASE UNCHANGED report
    BY <1>2, <2>2
  <2> QED BY <1>2, <2>1, <2>2
<1>3. CASE /\ placed = <<>> /\ UNCHANGED report
           /\ \E where \in Place : placed' = <<where>>
  <2>1. PICK where \in Place : placed' = <<where>>
    BY <1>3
  <2>2. Abstract!Land(where)
    BY <1>1, <1>3, <2>1, SameVocabulary DEF Abstract!Land
  <2> QED BY <2>1, <2>2, SameVocabulary DEF Abstract!DeliveryNext
<1> QED BY <1>2, <1>3, OnlyFirst

\* `send` implements Delivery: one landing at most, and a report that stays true.
THEOREM Implements == Spec => ImplementsDelivery
<1>1. Init => Abstract!DeliveryInit
  BY SameVocabulary DEF Init, Abstract!DeliveryInit
<1> QED BY InitInv, NextInv, StepImplements, <1>1, PTL
        DEF Spec, ImplementsDelivery, Abstract!DeliverySpec

-----------------------------------------------------------------------------
\* The connection and what is awaited of it, by their cases.
Cases ==
  /\ link = "none" => Conn = "none"
  /\ link = "connecting" => Conn = "connecting"
  /\ link = "open" => Conn = "up"
  /\ link \in {"closing", "gone"} => Conn = "down"
  /\ pc \notin CallPc => Awaited = "nothing"
  /\ pc \in CallPc /\ call = Pending => Awaited = "pending"
  /\ pc \in CallPc /\ call = Transport => Awaited = "failed"
  /\ pc \in CallPc /\ call \notin {Pending, Transport} => Awaited = "answered"

LEMMA Standing == Inv => Cases
<1> SUFFICES ASSUME Inv PROVE Cases
  OBVIOUS
<1>1. Pending # Transport /\ Pending # NoAnswer /\ Transport # NoAnswer
  BY Kinds
<1>2. pc \notin CallPc => call = NoAnswer
  BY DEF Inv, Ledger, LinkIsUsed
<1>3. /\ link = "none" => Conn = "none"
      /\ link = "connecting" => Conn = "connecting"
      /\ link = "open" => Conn = "up"
      /\ link \in {"closing", "gone"} => Conn = "down"
  BY DEF Conn
<1>4. /\ pc \notin CallPc => Awaited = "nothing"
      /\ pc \in CallPc /\ call = Pending => Awaited = "pending"
      /\ pc \in CallPc /\ call = Transport => Awaited = "failed"
      /\ pc \in CallPc /\ call \notin {Pending, Transport} => Awaited = "answered"
  BY <1>1, <1>2 DEF Awaited
<1> QED BY <1>3, <1>4 DEF Cases

\* A continuation asks for one more thing, or lets go of the connection.
LEMMA ContinuesKinds ==
  ASSUME Continues
  PROVE  \/ pc = "start" /\ pc' = "ready" /\ call' = Pending /\ link' = "connecting"
         \/ /\ pc \in CallPc /\ call # Pending /\ pc' \in CallPc /\ UNCHANGED link
            /\ (link = "open" /\ call' = Pending) \/ call' = Transport
         \/ /\ pc \notin CallPc \/ call # Pending
            /\ pc' \notin CallPc /\ CloseLink
<1>1. ASSUME NEW m \in Method, NEW t, Issue([method |-> m, turn |-> t])
      PROVE  /\ pc' \in CallPc /\ UNCHANGED link
             /\ (link = "open" /\ call' = Pending) \/ call' = Transport
  BY <1>1 DEF Issue, CallPc
<1>2. ASSUME NEW m \in Method, Ask(m) \/ Issue(Plain(m))
      PROVE  /\ pc' \in CallPc /\ UNCHANGED link
             /\ (link = "open" /\ call' = Pending) \/ call' = Transport
  BY <1>1, <1>2 DEF Ask, Plain
<1>3. ASSUME NEW r, NEW code, Tell(r, code) PROVE pc' \notin CallPc /\ CloseLink
  BY <1>3 DEF Tell, CallPc, Method
<1>4. ASSUME FallBack PROVE pc' \notin CallPc /\ CloseLink
  BY <1>4 DEF FallBack, CallPc, Method
<1>5. "start" \notin CallPc /\ "queue" \notin CallPc
  BY DEF CallPc, Method
<1>6. CASE Start
  BY <1>3, <1>5, <1>6 DEF Start
<1>7. CASE AfterReady \/ AfterInitialize \/ AfterReadSender \/ AfterResolve
  <2>1. pc \in CallPc /\ call # Pending
    BY <1>7 DEF AfterReady, AfterInitialize, AfterReadSender, AfterResolve, Resumes,
                CallPc, Method
  <2> QED BY <1>2, <1>3, <1>7, <2>1
          DEF AfterReady, AfterInitialize, AfterReadSender, AfterResolve, Fail, Method
<1>8. CASE AfterPage \/ AfterReadTarget
  <2>1. pc \in CallPc /\ call # Pending
    BY <1>8 DEF AfterPage, AfterReadTarget, Resumes, CallPc, Method
  <2>2. \/ \E m \in Method : Ask(m) \/ Issue(Plain(m))
        \/ Fail \/ FallBack
    BY <1>8 DEF AfterPage, AfterReadTarget, Method
  <2> QED BY <1>2, <1>3, <1>4, <2>1, <2>2 DEF Fail
<1>9. CASE AfterTurns
  <2>1. pc \in CallPc /\ call # Pending
    BY <1>9 DEF AfterTurns, Resumes, CallPc, Method
  <2>2. Issue(Steer(call.turn)) \/ Fail \/ FallBack
    BY <1>9 DEF AfterTurns
  <2> QED BY <1>1, <1>3, <1>4, <2>1, <2>2 DEF Fail, Steer, Method
<1>10. CASE AfterSteer
  <2>1. pc \in CallPc /\ call # Pending
    BY <1>10 DEF AfterSteer, Resumes, CallPc, Method
  <2> QED BY <1>3, <1>4, <1>10, <2>1 DEF AfterSteer
<1>11. CASE AfterQueue
  BY <1>3, <1>5, <1>11 DEF AfterQueue, Fail
<1> QED BY <1>6, <1>7, <1>8, <1>9, <1>10, <1>11 DEF Continues

LEMMA StepUses ==
  Inv /\ Inv' /\ [Next]_vars => [Client!ConnectionNext]_(Client!connectionVars)
<1> SUFFICES ASSUME Inv, Inv', [Next]_vars
             PROVE  Client!ConnectionNext \/ UNCHANGED <<Conn, Awaited>>
  BY DEF Client!connectionVars
<1>s. Cases
  BY Standing
<1>p. Cases'
  BY Standing, PTL
<1>0. link \in Link /\ LinkIsUsed /\ Pending # Transport
  BY Kinds DEF Inv, Ledger, TypeOK, ClientTypeOK
<1>u. ASSUME UNCHANGED <<pc, call, link>> PROVE UNCHANGED <<Conn, Awaited>>
  BY <1>u DEF Conn, Awaited
<1>1. CASE Continues
  <2>1. CASE pc = "start" /\ pc' = "ready" /\ call' = Pending /\ link' = "connecting"
    <3>1. Conn = "none" /\ Conn' = "connecting" /\ Awaited' = "pending"
      BY <1>s, <1>p, <1>0, <2>1 DEF Cases, LinkIsUsed, CallPc
    <3> QED BY <3>1 DEF Client!ConnectionNext, Client!Connect
  <2>2. CASE /\ pc \in CallPc /\ call # Pending /\ pc' \in CallPc /\ UNCHANGED link
             /\ (link = "open" /\ call' = Pending) \/ call' = Transport
    <3>1. Awaited \in {"answered", "failed"} /\ UNCHANGED Conn
      BY <1>s, <2>2 DEF Cases, Conn
    <3>2. (Conn = "up" /\ Awaited' = "pending") \/ Awaited' = "failed"
      BY <1>s, <1>p, <2>2 DEF Cases
    <3> QED BY <3>1, <3>2 DEF Client!ConnectionNext, Client!Ask, Client!Settled
  <2>3. CASE /\ pc \notin CallPc \/ call # Pending
             /\ pc' \notin CallPc /\ CloseLink
    <3>1. Awaited # "pending" /\ Awaited' = "nothing"
      BY <1>s, <1>p, <2>3 DEF Cases
    <3>2. Conn' = IF Conn \in {"connecting", "up"} THEN "down" ELSE Conn
      BY <1>s, <1>p, <1>0, <2>3 DEF Cases, CloseLink, Link
    <3> QED BY <3>1, <3>2 DEF Client!ConnectionNext, Client!Done
  <2> QED BY <1>1, <2>1, <2>2, <2>3, ContinuesKinds
<1>2. CASE HandshakeDone
  <2>1. /\ Conn = "connecting" /\ Conn' = "up"
        /\ Awaited = "pending" /\ Awaited' = "answered"
    BY <1>s, <1>p, <1>0, <1>2, Kinds DEF Cases, HandshakeDone, LinkIsUsed, CallPc
  <2> QED BY <2>1 DEF Client!ConnectionNext, Client!ComeUp
<1>3. CASE OnMessage
  <2>1. pc \in CallPc /\ call = Pending /\ link = "open" /\ UNCHANGED <<pc, link>>
    BY <1>0, <1>3 DEF OnMessage, NodeIdle, ContinuationReady, LinkIsUsed
  <2>2. call' \notin {Pending, Transport}
    BY <1>3, Kinds, AnswerFields DEF OnMessage, Inv, TypeOK, ServerTypeOK
  <2>3. Conn = "up" /\ Conn' = "up" /\ Awaited = "pending" /\ Awaited' = "answered"
    BY <1>s, <1>p, <2>1, <2>2 DEF Cases
  <2> QED BY <2>3 DEF Client!ConnectionNext, Client!Answer
<1>4. CASE TimesOut \/ ConnectionFails \/ ProxyFails
  <2>1. /\ link \in {"connecting", "open"} /\ link' \in {"closing", "gone"} /\ UNCHANGED pc
        /\ call' = IF call = Pending THEN Transport ELSE call
    BY <1>0, <1>4 DEF TimesOut, ConnectionFails, ProxyFails, CloseLink, LinkIsUsed
  <2>2. Conn \in {"connecting", "up"} /\ Conn' = "down"
    BY <1>s, <1>p, <2>1 DEF Cases
  <2>3. Awaited' = IF Awaited = "pending" THEN "failed" ELSE Awaited
    BY <1>s, <1>p, <1>0, <2>1 DEF Cases
  <2> QED BY <2>2, <2>3 DEF Client!ConnectionNext, Client!GoDown
<1>5. CASE ProxyReleased
  <2>1. Conn = "down" /\ Conn' = "down" /\ UNCHANGED <<pc, call>>
    BY <1>s, <1>p, <1>5 DEF Cases, ProxyReleased
  <2>2. UNCHANGED Awaited
    BY <2>1 DEF Awaited
  <2> QED BY <2>1, <2>2
<1>6. CASE PingThrows \/ Killed \/ Exits
  BY <1>6, <1>u DEF PingThrows, Killed, Exits
<1>7. CASE QueueEvent \/ Outside \/ UNCHANGED vars
  BY <1>7, <1>u DEF QueueEvent, Outside, vars, clientVars
<1> QED BY <1>1, <1>2, <1>3, <1>4, <1>5, <1>6, <1>7 DEF Next

\* `send` asks of its connection nothing that a Connection does not give.
THEOREM UsesAConnection == Spec => UsesConnection
<1>1. Init => Client!ConnectionInit
  <2> SUFFICES ASSUME Init PROVE Conn = "none" /\ Awaited = "nothing"
    BY DEF Client!ConnectionInit
  <2>1. link = "none" /\ pc \notin CallPc /\ Inv
    BY InitInv DEF Init, CallPc, Method
  <2> QED BY <2>1, Standing DEF Cases
<1> QED BY InitInv, NextInv, StepUses, <1>1, PTL
        DEF Spec, UsesConnection, Client!ConnectionSpec

=============================================================================
