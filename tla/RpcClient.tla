----------------------------- MODULE RpcClient ------------------------------
(***************************************************************************)
(* AppServerClient (lib/app-server.mjs) and withClient around it: the      *)
(* handshake, any number of requests outstanding at once, the stream of    *)
(* frames on the proxy's stdout, every timer, and the end of it all.       *)
(*                                                                         *)
(* A chunk of stdout carries whole frames; its handler runs to the end, a  *)
(* frame per step, while nothing else of the helper runs.  Afterwards the  *)
(* continuations of settled promises come before any other event.          *)
(***************************************************************************)
EXTENDS Naturals, Sequences, ChildProcess

CONSTANTS MaxCalls,   \* bound: requests one command makes, initialize included
          MaxStream,  \* bound: frames that stdout carries unread
          MaxJunk     \* bound: frames the server sends that answer nothing

ASSUME BoundsAssumption ==
  /\ MaxCalls \in Nat \ {0} /\ MaxStream \in Nat \ {0} /\ MaxJunk \in Nat

VARIABLES helper,     \* the helper process
          main,       \* what the operation inside withClient awaits
          batch,      \* the calls it awaits together (Promise.all)
          outcome,    \* call -> how its promise stands
          pending,    \* keys of the map of outstanding requests
          timers,     \* calls whose timer is armed
          nextId,
          ready,      \* readyPromise
          handshakeTimer, handshakeComplete, closed,
          proxy,      \* the proxy, a record of ChildProcess
          buffer,     \* frames read from stdout and not handled yet
          handling,   \* the "data" handler of stdout is running
            stdinErrored,   \* a pong could not be written: stdin is not writable
          stream,     \* frames on their way through stdout
          greeted,    \* the server has answered the upgrade request
          received,   \* calls that were written to the server
          said,       \* call -> what the server has answered to it
          junk        \* frames sent so far that answer nothing

callVars   == <<batch, outcome, pending, timers, nextId>>
linkVars   == <<ready, handshakeTimer, handshakeComplete, closed>>
readVars   == <<buffer, handling, stdinErrored>>
serverVars == <<greeted, received, said, junk>>
vars == <<helper, main, callVars, linkVars, proxy, readVars, stream, serverVars>>

Call    == 1 .. MaxCalls
Verdict == {"result", "error"}
Outcome == {"unissued", "open", "failed"} \cup Verdict

\* Frames: the two ends of a handshake, an answer, and what answers nothing.
Plain(k)     == [kind |-> k, id |-> 0, verdict |-> "result"]
Answer(i, v) == [kind |-> "answer", id |-> i, verdict |-> v]
Upgrade      == Plain("upgrade")
Refusal      == Plain("refusal")
JunkKind     == {"ping", "notice", "bad"}
Frame == {Upgrade, Refusal} \cup {Plain(k) : k \in JunkKind}
           \cup {Answer(i, v) : i \in Call, v \in Verdict}

\* The state right after the constructor; a failed spawn is reported later.
Init ==
  /\ helper = "alive" /\ main = "ready" /\ batch = {}
  /\ outcome = [i \in Call |-> "unissued"] /\ pending = {} /\ timers = {} /\ nextId = 1
  /\ ready = "waiting" /\ handshakeTimer = TRUE
  /\ handshakeComplete = FALSE /\ closed = FALSE
  /\ proxy \in {NotStarted, Spawned(Pipe)}
  /\ buffer = <<>> /\ handling = FALSE /\ stdinErrored = FALSE /\ stream = <<>>
  /\ greeted = FALSE /\ received = {} /\ junk = 0
  /\ said = [i \in Call |-> "nothing"]

-----------------------------------------------------------------------------
\* connectionFailure() and close() come to the same: the first one settles
\* everything, clears every timer and stops child, the proxy after the event.

\* Faulty: the proxy is left running.
CloseLeavesProxy(child) ==
  /\ closed' = TRUE
  /\ ready' = IF ready = "waiting" THEN "failed" ELSE ready
  /\ handshakeTimer' = FALSE
  /\ outcome' = [i \in Call |-> IF i \in pending THEN "failed" ELSE outcome[i]]
  /\ timers' = timers \ pending
  /\ pending' = {}
  /\ proxy' = child
  /\ UNCHANGED <<handshakeComplete, batch, nextId>>

\* Faulty: the outstanding calls are forgotten, not failed.
CloseForgetsCalls(child) ==
  /\ closed' = TRUE
  /\ ready' = IF ready = "waiting" THEN "failed" ELSE ready
  /\ handshakeTimer' = FALSE
  /\ timers' = timers \ pending
  /\ pending' = {}
  /\ proxy' = IF closed THEN child ELSE TerminateChild(child)
  /\ UNCHANGED <<outcome, handshakeComplete, batch, nextId>>

CloseWith(child) ==
  /\ closed' = TRUE
  /\ ready' = IF ready = "waiting" THEN "failed" ELSE ready
  /\ handshakeTimer' = FALSE
  /\ outcome' = [i \in Call |-> IF i \in pending THEN "failed" ELSE outcome[i]]
  /\ timers' = timers \ pending
  /\ pending' = {}
  /\ proxy' = IF closed THEN child ELSE TerminateChild(child)
  /\ UNCHANGED <<handshakeComplete, batch, nextId>>

Close == CloseWith(proxy)

-----------------------------------------------------------------------------
\* The operation: initialize(), then rounds of requests made together.

\* Faulty: a call that was refused counts as done.
ResolvedWhenSettled == \A i \in batch : outcome[i] \in Verdict

Resolved == \A i \in batch : outcome[i] = "result"
Rejected == \E i \in batch : outcome[i] \in {"error", "failed"}

ContinuationReady ==
  \/ main = "ready" /\ ready # "waiting"
  \/ main \in {"initialize", "calls"} /\ (Resolved \/ Rejected)

\* The "error" of a failed pong is emitted before continuations run.
ErrorIsDue == helper = "alive" /\ ~handling /\ stdinErrored /\ ~closed

Continues == helper = "alive" /\ ~handling /\ ~ErrorIsDue /\ ContinuationReady
NodeIdle  == helper = "alive" /\ ~handling /\ ~ErrorIsDue /\ ~ContinuationReady

\* request(), n times: write() throws once closed, and may throw before.
Request(n) ==
  LET ids == nextId .. nextId + n - 1
  IN  /\ ids \subseteq Call
      /\ \E written \in SUBSET ids :
           /\ closed => written = {}
           /\ pending' = pending \cup written
           /\ timers' = timers \cup written
           /\ received' = received \cup written
           /\ outcome' = [i \in Call |-> IF i \in written THEN "open"
                                         ELSE IF i \in ids THEN "failed"
                                         ELSE outcome[i]]
      /\ nextId' = nextId + n
      /\ batch' = ids
      /\ UNCHANGED <<helper, linkVars, proxy, readVars, stream, greeted, said, junk>>

\* withClient's `finally`.
Leave(how) ==
  /\ main' = how
  /\ Close
  /\ UNCHANGED <<helper, readVars, stream, serverVars>>

AfterReady ==
  /\ Continues /\ main = "ready"
  /\ IF ready = "ok" THEN Request(1) /\ main' = "initialize" ELSE Leave("threw")

\* The answer may be malformed, and write() of "initialized" may throw.
AfterInitialize ==
  /\ Continues /\ main = "initialize"
  /\ \/ /\ Resolved /\ ~closed
        /\ \E n \in 1 .. MaxCalls : Request(n)
        /\ main' = "calls"
     \/ Leave("threw")

\* Another round, or the end; any answer may be malformed.
AfterCalls ==
  /\ Continues /\ main = "calls"
  /\ \/ /\ Resolved
        /\ \/ (\E n \in 1 .. MaxCalls : Request(n)) /\ main' = main
           \/ Leave("returned")
     \/ Leave("threw")

-----------------------------------------------------------------------------
\* Reading: onStdout and the handlers of one frame.

OnData ==
  /\ NodeIdle /\ "stdout" \in proxy.open
  /\ \E n \in 1 .. Len(stream) :
       /\ buffer' = buffer \o SubSeq(stream, 1, n)
       /\ stream' = SubSeq(stream, n + 1, Len(stream))
  /\ handling' = TRUE
  /\ UNCHANGED <<helper, main, callVars, linkVars, proxy, stdinErrored, serverVars>>

HandlesFrame(kind) ==
  helper = "alive" /\ handling /\ buffer # <<>> /\ Head(buffer).kind = kind

\* The frame is done with; after close() the rest stays in the buffer.
TakeFrame ==
  /\ buffer' = Tail(buffer)
  /\ handling' = (Tail(buffer) # <<>> /\ ~closed')

OnUpgrade ==
  /\ HandlesFrame("upgrade")
  /\ ready' = IF ready = "waiting" THEN "ok" ELSE ready
  /\ handshakeTimer' = FALSE /\ handshakeComplete' = TRUE
  /\ buffer' = Tail(buffer) /\ handling' = (Tail(buffer) # <<>>)
  /\ UNCHANGED <<helper, main, callVars, closed, proxy, stdinErrored, stream, serverVars>>

\* A refused upgrade, or one with too much behind it in the same chunk.
OnRefusal ==
  /\ HandlesFrame("refusal") \/ (HandlesFrame("upgrade") /\ Len(buffer) > 1)
  /\ Close
  /\ handling' = FALSE
  /\ UNCHANGED <<helper, main, buffer, stdinErrored, stream, serverVars>>

\* Faulty: answers are taken to come in the order of the calls.
OnAnswerInOrder ==
  /\ handshakeComplete /\ HandlesFrame("answer")
  /\ IF pending # {}
     THEN LET i == CHOOSE j \in pending : \A k \in pending : j <= k
          IN  /\ outcome' = [outcome EXCEPT ![i] = Head(buffer).verdict]
              /\ pending' = pending \ {i}
              /\ timers' = timers \ {i}
              /\ UNCHANGED <<batch, nextId, linkVars, proxy>>
     ELSE Close
  /\ TakeFrame
  /\ UNCHANGED <<helper, main, stdinErrored, stream, serverVars>>

\* Faulty: the timer of an answered call is left armed.
OnAnswerKeepsTimer ==
  /\ handshakeComplete /\ HandlesFrame("answer")
  /\ LET i == Head(buffer).id
     IN  IF i \in pending
         THEN /\ outcome' = [outcome EXCEPT ![i] = Head(buffer).verdict]
              /\ pending' = pending \ {i}
              /\ UNCHANGED <<timers, batch, nextId, linkVars, proxy>>
         ELSE Close
  /\ TakeFrame
  /\ UNCHANGED <<helper, main, stdinErrored, stream, serverVars>>

\* An answer to an outstanding call settles it; any other ends the connection.
OnAnswer ==
  /\ handshakeComplete /\ HandlesFrame("answer")
  /\ LET i == Head(buffer).id
     IN  IF i \in pending
         THEN /\ outcome' = [outcome EXCEPT ![i] = Head(buffer).verdict]
              /\ pending' = pending \ {i}
              /\ timers' = timers \ {i}
              /\ UNCHANGED <<batch, nextId, linkVars, proxy>>
         ELSE Close
  /\ TakeFrame
  /\ UNCHANGED <<helper, main, stdinErrored, stream, serverVars>>

OnNotice ==
  /\ handshakeComplete /\ HandlesFrame("notice")
  /\ UNCHANGED <<helper, main, callVars, linkVars, proxy, stdinErrored, stream, serverVars>>
  /\ TakeFrame

\* A frame that is refused, or the server's own close.
OnBadFrame ==
  /\ handshakeComplete /\ HandlesFrame("bad")
  /\ Close
  /\ TakeFrame
  /\ UNCHANGED <<helper, main, stdinErrored, stream, serverVars>>

\* The pong is written, or fails to be.  After that, or close(), sendFrame throws
\* for the next ping of the chunk, and nothing catches it.
OnPing ==
  /\ handshakeComplete /\ HandlesFrame("ping")
  /\ IF closed \/ stdinErrored
     THEN helper' = "crashed" /\ UNCHANGED stdinErrored
     ELSE stdinErrored' \in BOOLEAN /\ UNCHANGED helper
  /\ UNCHANGED <<main, callVars, linkVars, proxy, stream, serverVars>>
  /\ TakeFrame

OnFrame == OnUpgrade \/ OnRefusal \/ OnAnswer \/ OnNotice \/ OnBadFrame \/ OnPing

-----------------------------------------------------------------------------
\* The other events.

HandshakeTimesOut ==
  /\ NodeIdle /\ handshakeTimer
  /\ Close
  /\ UNCHANGED <<helper, main, readVars, stream, serverVars>>

\* The timed out call is rejected first, the others by close().
RequestTimesOut ==
  /\ NodeIdle /\ timers # {}
  /\ Close
  /\ UNCHANGED <<helper, main, readVars, stream, serverVars>>

StdinFails ==
  /\ NodeIdle \/ ErrorIsDue
  /\ ~closed
  /\ Close
  /\ UNCHANGED <<helper, main, readVars, stream, serverVars>>

SpawnFails ==
  /\ NodeIdle /\ CanError(proxy)
  /\ CloseWith(Errored(proxy))
  /\ UNCHANGED <<helper, main, readVars, stream, serverVars>>

\* "exit" may overtake answers that are still in the stream.
ProxyExits ==
  /\ NodeIdle /\ CanNotice(proxy)
  /\ IF closed
     THEN proxy' = Noticed(proxy) /\ UNCHANGED <<callVars, linkVars>>
     ELSE CloseWith(Noticed(proxy))
  /\ UNCHANGED <<helper, main, readVars, stream, serverVars>>

ProxyCloses ==
  /\ NodeIdle /\ CanClose(proxy)
  /\ proxy' = ClosedBy(proxy)
  /\ UNCHANGED <<helper, main, callVars, linkVars, readVars, stream, serverVars>>

GraceExpires ==
  /\ NodeIdle /\ CanExpire(proxy)
  /\ proxy' = GraceExpired(proxy)
  /\ UNCHANGED <<helper, main, callVars, linkVars, readVars, stream, serverVars>>

\* The event loop is empty.
Exits ==
  /\ NodeIdle /\ ~handshakeTimer /\ timers = {} /\ ~Holds(proxy)
  /\ helper' = "exited"
  /\ UNCHANGED <<main, callVars, linkVars, proxy, readVars, stream, serverVars>>

-----------------------------------------------------------------------------
\* The proxy and the server behind it.

Sends(frame) ==
  /\ helper = "alive" /\ proxy.os = "alive"
  /\ Len(stream) < MaxStream
  /\ stream' = Append(stream, frame)
  /\ UNCHANGED <<helper, main, callVars, linkVars, proxy, readVars, received>>

ServerGreets ==
  /\ ~greeted /\ greeted' = TRUE
  /\ \E frame \in {Upgrade, Refusal} : Sends(frame)
  /\ UNCHANGED <<said, junk>>

\* In any order; calls the helper has given up are answered as well.
ServerAnswers ==
  /\ greeted
  /\ \E i \in received, v \in Verdict :
       /\ said[i] = "nothing"
       /\ said' = [said EXCEPT ![i] = v]
       /\ Sends(Answer(i, v))
  /\ UNCHANGED <<greeted, junk>>

\* Pings, notices, its own requests, garbage, an answer sent twice.
ServerDigresses ==
  /\ greeted /\ junk < MaxJunk /\ junk' = junk + 1
  /\ \/ \E k \in JunkKind : Sends(Plain(k))
     \/ \E i \in Call : said[i] # "nothing" /\ Sends(Answer(i, said[i]))
  /\ UNCHANGED <<greeted, said>>

ProxyDies ==
  /\ helper = "alive" /\ CanEnd(proxy)
  /\ proxy' = Ended(proxy, "codeN")
  /\ UNCHANGED <<helper, main, callVars, linkVars, readVars, stream, serverVars>>

ProxyDrains ==
  /\ helper = "alive"
  /\ \E p \in Pipe : /\ CanDrain(proxy, p) /\ (p = "stdout" => stream = <<>>)
                     /\ proxy' = Drained(proxy, p)
  /\ UNCHANGED <<helper, main, callVars, linkVars, readVars, stream, serverVars>>

Next ==
  \/ AfterReady
  \/ AfterInitialize
  \/ AfterCalls
  \/ OnData
  \/ OnUpgrade
  \/ OnRefusal
  \/ OnAnswer
  \/ OnNotice
  \/ OnBadFrame
  \/ OnPing
  \/ HandshakeTimesOut
  \/ RequestTimesOut
  \/ StdinFails
  \/ SpawnFails
  \/ ProxyExits
  \/ ProxyCloses
  \/ GraceExpires
  \/ Exits
  \/ ServerGreets
  \/ ServerAnswers
  \/ ServerDigresses
  \/ ProxyDies
  \/ ProxyDrains

(***************************************************************************)
(* What Node schedules happens: a handler goes on to its end, continuations*)
(* that are ready run, armed timers fire, a failed spawn is reported, an   *)
(* idle process exits.  Nothing is assumed of the proxy or the server.     *)
(***************************************************************************)
Fairness ==
  /\ WF_vars(OnFrame)
  /\ WF_vars(AfterReady \/ AfterInitialize \/ AfterCalls)
  /\ WF_vars(HandshakeTimesOut)
  /\ WF_vars(RequestTimesOut)
  /\ WF_vars(GraceExpires)
  /\ WF_vars(SpawnFails)
  /\ WF_vars(ErrorIsDue /\ StdinFails)
  /\ WF_vars(Exits)

Spec == Init /\ [][Next]_vars /\ Fairness

-----------------------------------------------------------------------------
TypeOK ==
  /\ helper \in {"alive", "crashed", "exited"}
  /\ main \in {"ready", "initialize", "calls", "returned", "threw"}
  /\ batch \subseteq Call /\ pending \subseteq Call /\ timers \subseteq Call
  /\ outcome \in [Call -> Outcome] /\ nextId \in 1 .. MaxCalls + 1
  /\ ready \in {"waiting", "ok", "failed"}
  /\ {handshakeTimer, handshakeComplete, closed, handling, stdinErrored, greeted} \subseteq BOOLEAN
  /\ proxy \in Child
  /\ buffer \in Seq(Frame) /\ stream \in Seq(Frame)
  /\ received \subseteq Call /\ said \in [Call -> Verdict \cup {"nothing"}]
  /\ junk \in 0 .. MaxJunk

Abstract == INSTANCE Calls WITH up <- ~closed

(***************************************************************************)
(* A call is settled once, by the server's answer to that very call or     *)
(* together with all others when the connection ends, whatever comes in    *)
(* one chunk, late, twice or out of order.                                 *)
(***************************************************************************)
ImplementsCalls == Abstract!CallsSpec

\* The connection and what the operation awaits, in the terms of Connection.
Conn == IF closed THEN "down" ELSE IF handshakeComplete THEN "up" ELSE "connecting"

\* Promise.all is settled by the first rejection, or by the last result.
AwaitedRound ==
  IF \E i \in batch : outcome[i] = "error" THEN "answered"
  ELSE IF Rejected THEN "failed"
  ELSE IF Resolved THEN "answered"
  ELSE "pending"

Awaited ==
  IF main = "ready"
  THEN [waiting |-> "pending", ok |-> "answered", failed |-> "failed"][ready]
  ELSE IF main \in {"initialize", "calls"} THEN AwaitedRound ELSE "nothing"

Link == INSTANCE Connection WITH conn <- Conn, awaited <- Awaited

(***************************************************************************)
(* A command that awaits its rounds one after the other has a Connection:  *)
(* it comes up and goes down once, and a round that the server has settled *)
(* stays so although the connection may be down when the command resumes.  *)
(***************************************************************************)
ProvidesConnection == Link!ConnectionSpec

(***************************************************************************)
(* Every promise a command can await is bounded by a timer, and no timer   *)
(* outlives its promise: a stray one would cut a working connection.       *)
(***************************************************************************)
EveryWaitIsBounded ==
  /\ timers = {i \in Call : outcome[i] = "open"}
  /\ handshakeTimer <=> ready = "waiting"

(***************************************************************************)
(* A command that returns has had a result from the server for each of its *)
(* requests, those it awaited in parallel included.                        *)
(***************************************************************************)
ReturnsOnlyAnswers ==
  main = "returned" => \A i \in 1 .. nextId - 1 : outcome[i] = "result" /\ said[i] = "result"

(***************************************************************************)
(* A helper that ends by itself was not suspended, and leaves no proxy     *)
(* running that it has not killed.                                         *)
(***************************************************************************)
ExitsClean ==
  helper = "exited" =>
    /\ main \in {"returned", "threw"}
    /\ proxy.os = "alive" => "SIGKILL" \in proxy.signals

\* The command ends, whatever the server and the proxy do or leave undone.
Terminates == <>(helper # "alive")

=============================================================================
