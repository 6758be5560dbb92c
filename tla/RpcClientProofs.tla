--------------------------- MODULE RpcClientProofs ---------------------------
(***************************************************************************)
(* Theorems about AppServerClient: it implements Calls, bounds every wait, *)
(* and the command around it returns and exits as it should, for every     *)
(* number of calls and frames.                                             *)
(***************************************************************************)
EXTENDS RpcClient, SequenceTheorems, TLAPS

\* The book-keeping of calls: one timer and one map entry per open call, and
\* every verdict is the server's.
CallTruth ==
  /\ pending = timers
  /\ timers = {i \in Call : outcome[i] = "open"}
  /\ handshakeTimer <=> ready = "waiting"
  /\ closed => pending = {} /\ ready # "waiting"
  /\ \A i \in Call : outcome[i] # "unissued" <=> i < nextId
  /\ received \subseteq 1 .. nextId - 1
  /\ \A i \in Call : said[i] # "nothing" => i \in received
  /\ \A i \in Call : outcome[i] \in Verdict => said[i] = outcome[i]

\* An answer on its way is what the server said to that call.
Genuine == {f \in Frame : f.kind = "answer" => said[f.id] = f.verdict}

FrameTruth == buffer \in Seq(Genuine) /\ stream \in Seq(Genuine)

\* Rounds: what was awaited before the current batch has a result.
Issued == 1 .. nextId - 1

RoundTruth ==
  /\ main = "ready" => nextId = 1 /\ batch = {}
  /\ main \in {"initialize", "calls"} =>
       /\ batch # {} /\ batch \subseteq Issued
       /\ \A i \in Issued : i \in batch \/ outcome[i] = "result"
  /\ main = "returned" => \A i \in Issued : outcome[i] = "result"

\* The proxy is let go of only when it has ended or was killed.
ProxyTruth ==
  /\ proxy.os = "alive" => ~proxy.exitSeen
  /\ proxy.os = "alive" /\ ~proxy.ref => "SIGKILL" \in proxy.signals
  /\ helper = "exited" => main \in {"returned", "threw"} /\ ~Holds(proxy)

Inv == TypeOK /\ CallTruth /\ FrameTruth /\ RoundTruth /\ ProxyTruth

-----------------------------------------------------------------------------
(***************************************************************************)
(* The steps by what they do to the calls.                                 *)
(***************************************************************************)
Closing(c) == CloseWith(c) /\ UNCHANGED <<received, said>>

Settling(i) ==
  /\ i \in pending /\ buffer # <<>>
  /\ Head(buffer).kind = "answer" /\ i = Head(buffer).id
  /\ outcome' = [outcome EXCEPT ![i] = Head(buffer).verdict]
  /\ pending' = pending \ {i} /\ timers' = timers \ {i}
  /\ UNCHANGED <<batch, nextId, linkVars, received, said>>

Answering(i, v) ==
  /\ i \in received /\ v \in Verdict /\ said[i] = "nothing"
  /\ said' = [said EXCEPT ![i] = v]
  /\ UNCHANGED <<callVars, linkVars, received>>

CallsAlone == UNCHANGED <<callVars, linkVars, received, said>>

\* Whatever happens to the proxy, it remains a child.
LEMMA ProxyOperators ==
  ASSUME NEW c \in Child
  PROVE  /\ NotStarted \in Child
         /\ \A P \in SUBSET Pipe : Spawned(P) \in Child
         /\ \A e \in Ends : Ended(c, e) \in Child
         /\ \A p \in Pipe : Drained(c, p) \in Child
         /\ Noticed(c) \in Child
         /\ Errored(c) \in Child
         /\ TerminateChild(c) \in Child
         /\ GraceExpired(c) \in Child
         /\ ClosedBy(c) \in Child
  BY DEF Child, Ends, Pipe, NotStarted, Spawned, Ended, Drained, Noticed,
         Errored, TerminateChild, GraceExpired, ClosedBy, Released

LEMMA ReadingKinds ==
  ASSUME OnFrame
  PROVE  \/ \E c : Closing(c)
         \/ \E i : Settling(i)
         \/ OnUpgrade
         \/ CallsAlone
<1>1. CASE OnAnswer
  <2> DEFINE i == Head(buffer).id
  <2>1. CASE i \in pending
    BY <1>1, <2>1 DEF OnAnswer, Settling, HandlesFrame, serverVars
  <2>2. CASE i \notin pending
    BY <1>1, <2>2 DEF OnAnswer, Close, Closing, serverVars
  <2> QED BY <2>1, <2>2
<1>2. CASE OnRefusal \/ OnBadFrame
  BY <1>2 DEF OnRefusal, OnBadFrame, Close, Closing, serverVars
<1>3. CASE OnNotice \/ OnPing
  BY <1>3 DEF OnNotice, OnPing, CallsAlone, serverVars
<1> QED BY <1>1, <1>2, <1>3 DEF OnFrame

LEMMA MainKinds ==
  ASSUME AfterReady \/ AfterInitialize \/ AfterCalls
  PROVE  \/ \E c : Closing(c)
         \/ \E n \in 1 .. MaxCalls : Request(n)
<1>1. ASSUME NEW how, Leave(how) PROVE \E c : Closing(c)
  BY <1>1 DEF Leave, Close, Closing, serverVars
<1>2. 1 \in 1 .. MaxCalls
  BY BoundsAssumption
<1> QED BY <1>1, <1>2 DEF AfterReady, AfterInitialize, AfterCalls

LEMMA EventKinds ==
  ASSUME \/ HandshakeTimesOut \/ RequestTimesOut \/ StdinFails \/ SpawnFails
         \/ ProxyExits \/ ProxyCloses \/ GraceExpires \/ Exits \/ OnData
         \/ ServerGreets \/ ServerAnswers \/ ServerDigresses \/ ProxyDies \/ ProxyDrains
  PROVE  \/ \E c : Closing(c)
         \/ \E i, v : Answering(i, v)
         \/ CallsAlone
<1>1. CASE HandshakeTimesOut \/ RequestTimesOut \/ StdinFails \/ SpawnFails
  BY <1>1 DEF HandshakeTimesOut, RequestTimesOut, StdinFails, SpawnFails, Close,
              Closing, serverVars
<1>2. CASE ProxyExits
  BY <1>2 DEF ProxyExits, Closing, CallsAlone, serverVars
<1>3. CASE ProxyCloses \/ GraceExpires \/ Exits \/ OnData \/ ProxyDies \/ ProxyDrains
  BY <1>3 DEF ProxyCloses, GraceExpires, Exits, OnData, ProxyDies, ProxyDrains,
              CallsAlone, serverVars
<1>4. CASE ServerGreets \/ ServerDigresses
  BY <1>4 DEF ServerGreets, ServerDigresses, Sends, CallsAlone
<1>5. CASE ServerAnswers
  BY <1>5 DEF ServerAnswers, Sends, Answering
<1> QED BY <1>1, <1>2, <1>3, <1>4, <1>5

LEMMA CallKinds ==
  ASSUME [Next]_vars
  PROVE  \/ \E c : Closing(c)
         \/ \E n \in 1 .. MaxCalls : Request(n)
         \/ \E i : Settling(i)
         \/ OnUpgrade
         \/ \E i, v : Answering(i, v)
         \/ CallsAlone
<1>1. CASE OnFrame
  BY <1>1, ReadingKinds
<1>2. CASE AfterReady \/ AfterInitialize \/ AfterCalls
  BY <1>2, MainKinds
<1>3. CASE vars' = vars
  BY <1>3 DEF vars, CallsAlone, serverVars
<1> QED BY <1>1, <1>2, <1>3, EventKinds DEF Next, OnFrame

-----------------------------------------------------------------------------
(***************************************************************************)
(* The steps by what they do to the frames, to the proxy and to the rest.  *)
(***************************************************************************)
LEMMA FrameKinds ==
  ASSUME [Next]_vars
  PROVE  \/ UNCHANGED <<buffer, stream>>
         \/ buffer # <<>> /\ buffer' = Tail(buffer) /\ UNCHANGED stream
         \/ OnData
         \/ \E f \in {Upgrade, Refusal} \cup {Plain(k) : k \in JunkKind} :
              Sends(f) /\ UNCHANGED said
         \/ \E i \in Call : /\ said[i] # "nothing" /\ UNCHANGED said
                            /\ Sends(Answer(i, said[i]))
         \/ \E i \in received, v \in Verdict : /\ said[i] = "nothing"
                                              /\ said' = [said EXCEPT ![i] = v]
                                              /\ Sends(Answer(i, v))
<1>1. CASE OnFrame
  BY <1>1 DEF OnFrame, OnUpgrade, OnRefusal, OnAnswer, OnNotice, OnBadFrame, OnPing,
              TakeFrame, HandlesFrame
<1>2. CASE AfterReady \/ AfterInitialize \/ AfterCalls
  BY <1>2 DEF AfterReady, AfterInitialize, AfterCalls, Request, Leave, readVars
<1>3. CASE \/ HandshakeTimesOut \/ RequestTimesOut \/ StdinFails \/ SpawnFails
           \/ ProxyExits \/ ProxyCloses \/ GraceExpires \/ Exits \/ ProxyDies \/ ProxyDrains
  BY <1>3 DEF HandshakeTimesOut, RequestTimesOut, StdinFails, SpawnFails, ProxyExits,
              ProxyCloses, GraceExpires, Exits, ProxyDies, ProxyDrains, readVars
<1>4. CASE ServerGreets
  BY <1>4 DEF ServerGreets
<1>5. CASE ServerAnswers
  BY <1>5 DEF ServerAnswers
<1>6. CASE ServerDigresses
  BY <1>6 DEF ServerDigresses
<1>7. CASE vars' = vars
  BY <1>7 DEF vars, readVars
<1> QED BY <1>1, <1>2, <1>3, <1>4, <1>5, <1>6, <1>7 DEF Next, OnFrame

LEMMA ProxyKinds ==
  ASSUME [Next]_vars
  PROVE  \/ UNCHANGED proxy
         \/ /\ helper = "alive" /\ UNCHANGED helper
            /\ \/ \E c \in {proxy, Errored(proxy), Noticed(proxy)} :
                    proxy' \in {c, TerminateChild(c)} /\ (c # proxy => proxy.os # "alive")
               \/ CanClose(proxy) /\ proxy' = ClosedBy(proxy)
               \/ CanExpire(proxy) /\ proxy' = GraceExpired(proxy)
               \/ CanEnd(proxy) /\ proxy' = Ended(proxy, "codeN")
               \/ \E p \in Pipe : CanDrain(proxy, p) /\ proxy' = Drained(proxy, p)
<1>1. ASSUME NEW c, CloseWith(c) PROVE proxy' \in {c, TerminateChild(c)}
  BY <1>1 DEF CloseWith
<1>2. CASE OnFrame
  BY <1>2, <1>1 DEF OnFrame, OnUpgrade, OnRefusal, OnAnswer, OnNotice, OnBadFrame, OnPing,
              HandlesFrame, Close
<1>3. CASE AfterReady \/ AfterInitialize \/ AfterCalls
  BY <1>3, <1>1 DEF AfterReady, AfterInitialize, AfterCalls, Request, Leave, Close, Continues
<1>4. CASE HandshakeTimesOut \/ RequestTimesOut \/ StdinFails
  BY <1>4, <1>1 DEF HandshakeTimesOut, RequestTimesOut, StdinFails, NodeIdle, ErrorIsDue, Close
<1>5. CASE SpawnFails
  BY <1>5, <1>1 DEF SpawnFails, NodeIdle, CanError
<1>6. CASE ProxyExits
  BY <1>6, <1>1 DEF ProxyExits, NodeIdle, CanNotice
<1>7. CASE ProxyCloses \/ GraceExpires \/ ProxyDies \/ ProxyDrains
  BY <1>7 DEF ProxyCloses, GraceExpires, ProxyDies, ProxyDrains, NodeIdle
<1>8. CASE OnData \/ Exits \/ ServerGreets \/ ServerAnswers \/ ServerDigresses \/ vars' = vars
  BY <1>8 DEF OnData, Exits, ServerGreets, ServerAnswers, ServerDigresses, Sends, vars
<1> QED BY <1>2, <1>3, <1>4, <1>5, <1>6, <1>7, <1>8 DEF Next, OnFrame

\* Who changes the helper's own state, and how.
LEMMA MainMoves ==
  ASSUME [Next]_vars
  PROVE  \/ UNCHANGED <<helper, main>>
         \/ UNCHANGED main /\ helper' = "crashed"
         \/ UNCHANGED main /\ Exits
         \/ (AfterReady \/ AfterInitialize \/ AfterCalls) /\ UNCHANGED helper
<1>1. CASE OnFrame
  BY <1>1 DEF OnFrame, OnUpgrade, OnRefusal, OnAnswer, OnNotice, OnBadFrame, OnPing
<1>2. CASE AfterReady \/ AfterInitialize \/ AfterCalls
  BY <1>2 DEF AfterReady, AfterInitialize, AfterCalls, Request, Leave
<1>3. CASE \/ HandshakeTimesOut \/ RequestTimesOut \/ StdinFails \/ SpawnFails
           \/ ProxyExits \/ ProxyCloses \/ GraceExpires \/ ProxyDies \/ ProxyDrains
  BY <1>3 DEF HandshakeTimesOut, RequestTimesOut, StdinFails, SpawnFails, ProxyExits,
              ProxyCloses, GraceExpires, ProxyDies, ProxyDrains
<1>4. CASE \/ OnData \/ Exits \/ ServerGreets \/ ServerAnswers \/ ServerDigresses
           \/ vars' = vars
  BY <1>4 DEF OnData, Exits, ServerGreets, ServerAnswers, ServerDigresses, Sends, vars
<1> QED BY <1>1, <1>2, <1>3, <1>4 DEF Next, OnFrame

-----------------------------------------------------------------------------
(***************************************************************************)
(* The invariant, part by part.                                            *)
(***************************************************************************)
LEMMA InitInv == Init => Inv
<1> SUFFICES ASSUME Init PROVE Inv
  OBVIOUS
<1>1. proxy \in Child
  <2>1. NotStarted \in Child
    BY DEF NotStarted, Child
  <2>2. Spawned(Pipe) \in Child
    BY <2>1, ProxyOperators
  <2> QED BY <2>1, <2>2 DEF Init
<1>2. TypeOK
  <2>1. nextId \in 1 .. MaxCalls + 1 /\ junk \in 0 .. MaxJunk
    BY BoundsAssumption DEF Init
  <2>2. outcome \in [Call -> Outcome] /\ said \in [Call -> Verdict \cup {"nothing"}]
    BY DEF Init, Outcome
  <2>3. buffer \in Seq(Frame) /\ stream \in Seq(Frame)
    BY DEF Init
  <2> QED BY <1>1, <2>1, <2>2, <2>3 DEF Init, TypeOK
<1>3. CallTruth
  BY BoundsAssumption DEF Init, CallTruth, Call, Verdict
<1>4. FrameTruth
  BY DEF Init, FrameTruth
<1>5. RoundTruth
  BY DEF Init, RoundTruth
<1>6. ProxyTruth
  <2>1. proxy.exitSeen = FALSE /\ proxy.ref = TRUE
    <3>1. NotStarted.exitSeen = FALSE /\ NotStarted.ref = TRUE
      BY DEF NotStarted
    <3>2. Spawned(Pipe).exitSeen = FALSE /\ Spawned(Pipe).ref = TRUE
      BY DEF NotStarted, Spawned
    <3> QED BY <3>1, <3>2 DEF Init
  <2> QED BY <2>1 DEF Init, ProxyTruth
<1> QED BY <1>2, <1>3, <1>4, <1>5, <1>6 DEF Inv

\* The calls and the connection keep their types.
CallTypes ==
  /\ batch \subseteq Call /\ pending \subseteq Call /\ timers \subseteq Call
  /\ outcome \in [Call -> Outcome] /\ nextId \in 1 .. MaxCalls + 1
  /\ ready \in {"waiting", "ok", "failed"}
  /\ {handshakeTimer, handshakeComplete, closed} \subseteq BOOLEAN
  /\ received \subseteq Call /\ said \in [Call -> Verdict \cup {"nothing"}]

\* What request() does, with the ids it takes.
LEMMA RequestFacts ==
  ASSUME CallTypes, NEW n \in 1 .. MaxCalls, Request(n)
  PROVE  \E written \in SUBSET (nextId .. nextId + n - 1) :
           /\ batch' = nextId .. nextId + n - 1
           /\ batch' \subseteq Call /\ batch' # {}
           /\ nextId' = nextId + n /\ nextId' \in 1 .. MaxCalls + 1
           /\ closed => written = {}
           /\ pending' = pending \cup written
           /\ timers' = timers \cup written
           /\ received' = received \cup written
           /\ outcome' = [i \in Call |-> IF i \in written THEN "open"
                                         ELSE IF i \in batch' THEN "failed"
                                         ELSE outcome[i]]
           /\ UNCHANGED <<linkVars, said>>
<1>1. nextId \in Nat /\ n \in Nat /\ n >= 1 /\ MaxCalls \in Nat
  BY BoundsAssumption DEF CallTypes
<1>2. nextId \in batch' /\ nextId + n - 1 \in batch' /\ batch' \subseteq Call
  BY <1>1 DEF Request
<1>3. nextId' = nextId + n /\ nextId' \in 1 .. MaxCalls + 1
  BY <1>1, <1>2 DEF Request, Call
<1> QED BY <1>2, <1>3 DEF Request

LEMMA CallTypesStep ==
  ASSUME CallTypes, buffer \in Seq(Frame), [Next]_vars PROVE CallTypes'
<1>1. ASSUME NEW c, Closing(c) PROVE CallTypes'
  BY <1>1 DEF Closing, CloseWith, CallTypes, Outcome
<1>2. ASSUME NEW n \in 1 .. MaxCalls, Request(n) PROVE CallTypes'
  BY <1>2, RequestFacts DEF CallTypes, Outcome, linkVars
<1>3. ASSUME NEW i, Settling(i) PROVE CallTypes'
  <2>1. Head(buffer).verdict \in Verdict
    BY <1>3, HeadTailProperties DEF Settling, Frame, Upgrade, Refusal, Plain, Answer, Verdict
  <2> QED BY <1>3, <2>1 DEF Settling, CallTypes, linkVars, Outcome
<1>4. CASE OnUpgrade
  BY <1>4 DEF OnUpgrade, CallTypes, callVars, serverVars
<1>5. ASSUME NEW i, NEW v, Answering(i, v) PROVE CallTypes'
  BY <1>5 DEF Answering, CallTypes, callVars, linkVars
<1>6. CASE CallsAlone
  BY <1>6 DEF CallsAlone, CallTypes, callVars, linkVars
<1> QED BY <1>1, <1>2, <1>3, <1>4, <1>5, <1>6, CallKinds

LEMMA SequenceSteps ==
  ASSUME NEW S, buffer \in Seq(S), stream \in Seq(S)
  PROVE  /\ OnData => buffer' \in Seq(S) /\ stream' \in Seq(S)
         /\ buffer # <<>> => Tail(buffer) \in Seq(S)
         /\ \A f \in S : Sends(f) => buffer' \in Seq(S) /\ stream' \in Seq(S)
<1>1. ASSUME OnData PROVE buffer' \in Seq(S) /\ stream' \in Seq(S)
  <2>1. PICK n \in 1 .. Len(stream) :
          /\ buffer' = buffer \o SubSeq(stream, 1, n)
          /\ stream' = SubSeq(stream, n + 1, Len(stream))
    BY <1>1 DEF OnData
  <2>2. Len(stream) \in Nat /\ \A k \in 1 .. Len(stream) : stream[k] \in S
    BY LenProperties, ElementOfSeq
  <2>3. SubSeq(stream, 1, n) \in Seq(S)
    BY <2>2, SubSeqProperties
  <2>4. SubSeq(stream, n + 1, Len(stream)) \in Seq(S)
    BY <2>2, SubSeqProperties
  <2> QED BY <2>1, <2>3, <2>4, ConcatProperties
<1>2. ASSUME buffer # <<>> PROVE Tail(buffer) \in Seq(S)
  BY <1>2, HeadTailProperties
<1>3. ASSUME NEW f \in S, Sends(f) PROVE buffer' \in Seq(S) /\ stream' \in Seq(S)
  BY <1>3, AppendProperties DEF Sends, readVars
<1> QED BY <1>1, <1>2, <1>3

LEMMA FrameStep ==
  ASSUME FrameTruth, said \in [Call -> Verdict \cup {"nothing"}], received \subseteq Call,
         [Next]_vars
  PROVE  FrameTruth'
<1>1. ASSUME UNCHANGED said, buffer' \in Seq(Genuine), stream' \in Seq(Genuine)
      PROVE  FrameTruth'
  BY <1>1 DEF FrameTruth, Genuine
<1>2. UNCHANGED said \/ \E i \in received, v \in Verdict :
                           said[i] = "nothing" /\ said' = [said EXCEPT ![i] = v]
  <2>1. ASSUME NEW n, Request(n) PROVE UNCHANGED said
    BY <2>1 DEF Request
  <2> QED BY <2>1, CallKinds DEF Closing, Settling, OnUpgrade, Answering, CallsAlone, serverVars
<1>3. Genuine \subseteq Genuine'
  <2> SUFFICES ASSUME NEW f \in Genuine, f.kind = "answer" PROVE said'[f.id] = f.verdict
    BY DEF Genuine
  <2>1. f.id \in Call /\ f.verdict \in Verdict
    BY DEF Genuine, Frame, Upgrade, Refusal, Plain, Answer, JunkKind
  <2>2. said[f.id] = f.verdict /\ said[f.id] # "nothing"
    BY <2>1 DEF Genuine, Verdict
  <2> QED BY <1>2, <2>1, <2>2
<1>4. ASSUME NEW f \in Genuine', Sends(f) PROVE FrameTruth'
  BY <1>3, <1>4, SeqMonotonic, SequenceSteps DEF FrameTruth
<1>5. CASE UNCHANGED <<buffer, stream>>
  BY <1>3, <1>5, SeqMonotonic DEF FrameTruth
<1>6. CASE buffer # <<>> /\ buffer' = Tail(buffer) /\ UNCHANGED stream
  BY <1>3, <1>6, SeqMonotonic, SequenceSteps DEF FrameTruth
<1>7. CASE OnData
  BY <1>1, <1>7, SequenceSteps DEF OnData, FrameTruth, serverVars
<1>8. ASSUME NEW f \in {Upgrade, Refusal} \cup {Plain(k) : k \in JunkKind}, Sends(f)
      PROVE  FrameTruth'
  <2>1. f \in Genuine'
    BY <1>8 DEF Genuine, Frame, Upgrade, Refusal, Plain, JunkKind
  <2> QED BY <1>4, <1>8, <2>1
<1>9. ASSUME NEW i \in Call, said[i] # "nothing", UNCHANGED said, Sends(Answer(i, said[i]))
      PROVE  FrameTruth'
  <2>1. Answer(i, said[i]) \in Genuine'
    BY <1>9 DEF Genuine, Frame, Answer
  <2> QED BY <1>4, <1>9, <2>1
<1>10. ASSUME NEW i \in received, NEW v \in Verdict,
              said' = [said EXCEPT ![i] = v], Sends(Answer(i, v))
       PROVE  FrameTruth'
  <2>1. Answer(i, v) \in Genuine'
    BY <1>10 DEF Genuine, Frame, Answer
  <2> QED BY <1>4, <1>10, <2>1
<1> QED BY <1>5, <1>6, <1>7, <1>8, <1>9, <1>10, FrameKinds

LEMMA CallStep ==
  ASSUME CallTypes, CallTruth, FrameTruth, [Next]_vars PROVE CallTruth'
<1> USE DEF CallTruth
<1>0. nextId \in Nat /\ MaxCalls \in Nat
  BY BoundsAssumption DEF CallTypes
<1>1. ASSUME NEW c, Closing(c) PROVE CallTruth'
  <2>1. /\ pending' = {} /\ timers' = {} /\ handshakeTimer' = FALSE
        /\ ready' # "waiting" /\ nextId' = nextId
        /\ received' = received /\ said' = said
    BY <1>1 DEF Closing, CloseWith
  <2>2. \A i \in Call : outcome'[i] = IF outcome[i] = "open" THEN "failed" ELSE outcome[i]
    BY <1>1 DEF Closing, CloseWith
  <2> QED BY <2>1, <2>2 DEF Verdict
<1>2. ASSUME NEW n \in 1 .. MaxCalls, Request(n) PROVE CallTruth'
  <2>1. PICK written \in SUBSET (nextId .. nextId + n - 1) :
           /\ batch' = nextId .. nextId + n - 1
           /\ batch' \subseteq Call /\ batch' # {}
           /\ nextId' = nextId + n /\ nextId' \in 1 .. MaxCalls + 1
           /\ closed => written = {}
           /\ pending' = pending \cup written
           /\ timers' = timers \cup written
           /\ received' = received \cup written
           /\ outcome' = [i \in Call |-> IF i \in written THEN "open"
                                         ELSE IF i \in batch' THEN "failed"
                                         ELSE outcome[i]]
           /\ UNCHANGED <<linkVars, said>>
    BY <1>2, RequestFacts
  <2>2. \A i \in Call : outcome'[i] = IF i \in written THEN "open"
                                      ELSE IF i \in batch' THEN "failed"
                                      ELSE outcome[i]
    BY <2>1
  <2>3. pending' = timers' /\ timers' = {i \in Call : outcome'[i] = "open"}
    <3>1. written \subseteq Call /\ \A i \in batch' : outcome[i] = "unissued"
      BY <1>0, <2>1 DEF Call
    <3> QED BY <2>1, <2>2, <3>1
  <2>4. \A i \in Call : outcome'[i] # "unissued" <=> i < nextId'
    BY <1>0, <2>1, <2>2 DEF Call
  <2>5. received' \subseteq 1 .. nextId' - 1
    <3> SUFFICES ASSUME NEW i \in received' PROVE i \in 1 .. nextId' - 1
      OBVIOUS
    <3>1. nextId >= 1 /\ n \in Nat /\ n >= 1 /\ nextId' = nextId + n
      BY <2>1 DEF CallTypes
    <3>2. i \in 1 .. nextId - 1 \/ i \in nextId .. nextId + n - 1
      BY <2>1
    <3> QED BY <1>0, <3>1, <3>2
  <2>6. \A i \in Call : outcome'[i] \in Verdict => said'[i] = outcome'[i]
    BY <2>1, <2>2 DEF Verdict
  <2>7. (handshakeTimer' <=> ready' = "waiting") /\ (closed' => pending' = {} /\ ready' # "waiting")
    BY <2>1 DEF linkVars
  <2> QED BY <2>1, <2>3, <2>4, <2>5, <2>6, <2>7
<1>3. ASSUME NEW i, Settling(i) PROVE CallTruth'
  <2>1. Head(buffer) \in Genuine
    BY <1>3, HeadTailProperties DEF Settling, FrameTruth
  <2>2. i \in Call /\ said[i] = Head(buffer).verdict /\ Head(buffer).verdict \in Verdict
    BY <1>3, <2>1 DEF Settling, Genuine, Frame, Upgrade, Refusal, Plain, Answer, JunkKind
  <2>3. \A j \in Call : outcome'[j] = IF j = i THEN said[i] ELSE outcome[j]
    BY <1>3, <2>2 DEF Settling, CallTypes
  <2>4. said[i] \in {"result", "error"}
    BY <2>2 DEF Verdict
  <2> QED BY <1>3, <2>2, <2>3, <2>4 DEF Settling, linkVars
<1>4. CASE OnUpgrade
  BY <1>4 DEF OnUpgrade, callVars, serverVars
<1>5. ASSUME NEW i, NEW v, Answering(i, v) PROVE CallTruth'
  <2>1. \A j \in Call : said'[j] = IF j = i THEN v ELSE said[j]
    BY <1>5 DEF Answering, CallTypes
  <2> QED BY <1>5, <2>1 DEF Answering, callVars, linkVars, Verdict
<1>6. CASE CallsAlone
  BY <1>6 DEF CallsAlone, callVars, linkVars
<1> QED BY <1>1, <1>2, <1>3, <1>4, <1>5, <1>6, CallKinds

LEMMA ProxyTypeStep ==
  ASSUME proxy \in Child, [Next]_vars PROVE proxy' \in Child
<1>1. ASSUME NEW c \in Child PROVE TerminateChild(c) \in Child
  BY ProxyOperators
<1>2. /\ Errored(proxy) \in Child /\ Noticed(proxy) \in Child
      /\ ClosedBy(proxy) \in Child /\ GraceExpired(proxy) \in Child
      /\ Ended(proxy, "codeN") \in Child /\ \A p \in Pipe : Drained(proxy, p) \in Child
  BY ProxyOperators DEF Ends
<1> QED BY <1>1, <1>2, ProxyKinds

LEMMA TypeStep == ASSUME Inv, [Next]_vars PROVE TypeOK'
<1>1. CallTypes /\ buffer \in Seq(Frame)
  BY DEF Inv, TypeOK, CallTypes
<1>2. CallTypes'
  BY <1>1, CallTypesStep
<1>3. proxy' \in Child
  BY ProxyTypeStep DEF Inv, TypeOK
<1>4. buffer' \in Seq(Frame) /\ stream' \in Seq(Frame)
  <2>1. FrameTruth'
    BY <1>1, FrameStep DEF Inv, CallTypes
  <2>2. Genuine' \subseteq Frame
    BY DEF Genuine
  <2> QED BY <2>1, <2>2, SeqMonotonic DEF FrameTruth
<1>5. /\ helper' \in {"alive", "crashed", "exited"}
      /\ main' \in {"ready", "initialize", "calls", "returned", "threw"}
  BY MainMoves DEF Inv, TypeOK, AfterReady, AfterInitialize, AfterCalls, Leave, Exits
<1>6. {handling', stdinErrored', greeted'} \subseteq BOOLEAN /\ junk' \in 0 .. MaxJunk
  <2> USE DEF Inv, TypeOK
  <2>1. CASE OnFrame
    BY <2>1 DEF OnFrame, OnUpgrade, OnRefusal, OnAnswer, OnNotice, OnBadFrame, OnPing,
                TakeFrame, serverVars
  <2>2. CASE AfterReady \/ AfterInitialize \/ AfterCalls
    BY <2>2 DEF AfterReady, AfterInitialize, AfterCalls, Request, Leave, readVars, serverVars
  <2>3. CASE \/ HandshakeTimesOut \/ RequestTimesOut \/ StdinFails \/ SpawnFails
             \/ ProxyExits \/ ProxyCloses \/ GraceExpires \/ Exits \/ ProxyDies \/ ProxyDrains
    BY <2>3 DEF HandshakeTimesOut, RequestTimesOut, StdinFails, SpawnFails, ProxyExits,
                ProxyCloses, GraceExpires, Exits, ProxyDies, ProxyDrains, readVars, serverVars
  <2>4. CASE OnData \/ ServerGreets \/ ServerAnswers
    BY <2>4 DEF OnData, ServerGreets, ServerAnswers, Sends, readVars, serverVars
  <2>5. CASE ServerDigresses
    BY <2>5, BoundsAssumption DEF ServerDigresses, Sends, readVars
  <2>6. CASE vars' = vars
    BY <2>6 DEF vars, readVars, serverVars
  <2> QED BY <2>1, <2>2, <2>3, <2>4, <2>5, <2>6 DEF Next, OnFrame
<1> QED BY <1>2, <1>3, <1>4, <1>5, <1>6 DEF TypeOK, CallTypes

\* A result stays a result, and a batch is settled while its round is awaited.
LEMMA ResultsStay ==
  ASSUME CallTypes, CallTruth, FrameTruth, [Next]_vars, NEW i \in Call, outcome[i] = "result"
  PROVE  outcome'[i] = "result"
<1>1. ASSUME NEW c, Closing(c) PROVE outcome'[i] = "result"
  BY <1>1 DEF Closing, CloseWith, CallTruth
<1>2. ASSUME NEW n \in 1 .. MaxCalls, Request(n) PROVE outcome'[i] = "result"
  <2>1. i < nextId /\ nextId \in Nat /\ i \in Nat
    BY BoundsAssumption DEF CallTruth, CallTypes, Call
  <2>2. i \notin nextId .. nextId + n - 1
    BY <2>1
  <2> QED BY <1>2, <2>2, RequestFacts
<1>3. ASSUME NEW j, Settling(j) PROVE outcome'[i] = "result"
  BY <1>3 DEF Settling, CallTruth, CallTypes
<1> QED BY <1>1, <1>2, <1>3, CallKinds DEF OnUpgrade, callVars, Answering, CallsAlone

LEMMA RoundStep == ASSUME Inv, [Next]_vars PROVE RoundTruth'
<1>0. CallTypes /\ CallTruth /\ FrameTruth /\ RoundTruth /\ TypeOK
  BY DEF Inv, TypeOK, CallTypes
<1>1. nextId \in Nat /\ nextId >= 1 /\ MaxCalls \in Nat /\ Issued \subseteq Call
  BY <1>0, BoundsAssumption DEF CallTypes, Issued, Call
<1>2. ASSUME UNCHANGED <<main, batch, nextId>> PROVE RoundTruth'
  BY <1>0, <1>1, <1>2, ResultsStay DEF RoundTruth, Issued
<1>3. ASSUME NEW n \in 1 .. MaxCalls, Request(n), main' \in {"initialize", "calls"},
             \A i \in Issued : outcome[i] = "result"
      PROVE  RoundTruth'
  <2>1. /\ batch' = nextId .. nextId + n - 1 /\ batch' # {}
        /\ nextId' = nextId + n
    BY <1>0, <1>3, RequestFacts
  <2>2. Issued' = Issued \cup batch' /\ batch' \subseteq Issued'
    BY <1>1, <2>1 DEF Issued
  <2>3. \A i \in Issued : outcome'[i] = "result"
    BY <1>0, <1>1, <1>3, ResultsStay
  <2> QED BY <1>3, <2>1, <2>2, <2>3 DEF RoundTruth
<1>4. ASSUME NEW how \in {"returned", "threw"}, Leave(how),
             how = "returned" => \A i \in Issued : outcome[i] = "result"
      PROVE  RoundTruth'
  <2>1. main' = how /\ nextId' = nextId
    BY <1>4 DEF Leave, Close, CloseWith
  <2>2. how = "returned" => \A i \in Issued : outcome'[i] = "result"
    BY <1>0, <1>1, <1>4, ResultsStay
  <2> QED BY <2>1, <2>2 DEF RoundTruth, Issued
<1>5. ASSUME Resolved, main \in {"initialize", "calls"}
      PROVE  \A i \in Issued : outcome[i] = "result"
  BY <1>0, <1>5 DEF RoundTruth, Resolved
<1>6. CASE AfterReady
  <2>1. CASE Request(1) /\ main' = "initialize"
    <3>1. \A i \in Issued : outcome[i] = "result"
      BY <1>0, <1>6 DEF AfterReady, RoundTruth, Issued
    <3>2. 1 \in 1 .. MaxCalls
      BY BoundsAssumption
    <3> QED BY <1>3, <2>1, <3>1, <3>2
  <2> QED BY <1>4, <1>6, <2>1 DEF AfterReady
<1>7. CASE AfterInitialize
  BY <1>3, <1>4, <1>5, <1>7 DEF AfterInitialize
<1>8. CASE AfterCalls
  BY <1>3, <1>4, <1>5, <1>8 DEF AfterCalls
<1>9. CASE ~(AfterReady \/ AfterInitialize \/ AfterCalls)
  <2>1. UNCHANGED main
    BY <1>9, MainMoves
  <2>2. UNCHANGED <<batch, nextId>>
    BY <1>9, ReadingKinds, EventKinds
       DEF Next, OnFrame, Closing, CloseWith, Settling, OnUpgrade, Answering, CallsAlone,
           callVars, vars
  <2> QED BY <1>2, <2>1, <2>2
<1> QED BY <1>6, <1>7, <1>8, <1>9

\* A child that is alive has not ended, and is let go of only after SIGKILL.
KeptOrKilled(c) ==
  /\ c.os = "alive" => ~c.exitSeen
  /\ c.os = "alive" /\ ~c.ref => "SIGKILL" \in c.signals

LEMMA KeptOrKilledStays ==
  ASSUME NEW c \in Child, KeptOrKilled(c)
  PROVE  /\ KeptOrKilled(TerminateChild(c))
         /\ KeptOrKilled(GraceExpired(c))
         /\ CanClose(c) => KeptOrKilled(ClosedBy(c))
         /\ KeptOrKilled(Ended(c, "codeN"))
         /\ \A p \in Pipe : KeptOrKilled(Drained(c, p))
         /\ c.os # "alive" => KeptOrKilled(Errored(c)) /\ KeptOrKilled(Noticed(c))
<1> USE DEF Child, KeptOrKilled
<1>1. KeptOrKilled(TerminateChild(c))
  BY DEF TerminateChild, Released
<1>2. KeptOrKilled(GraceExpired(c))
  BY DEF GraceExpired, Released
<1>3. CanClose(c) => KeptOrKilled(ClosedBy(c))
  BY DEF CanClose, ClosedBy, Released
<1>4. KeptOrKilled(Ended(c, "codeN"))
  BY DEF Ended
<1>5. \A p \in Pipe : KeptOrKilled(Drained(c, p))
  BY DEF Drained
<1>6. c.os # "alive" => KeptOrKilled(Errored(c)) /\ KeptOrKilled(Noticed(c))
  BY DEF Errored, Noticed
<1> QED BY <1>1, <1>2, <1>3, <1>4, <1>5, <1>6

LEMMA ProxyStep == ASSUME Inv, [Next]_vars PROVE ProxyTruth'
<1>1. KeptOrKilled(proxy)'
  <2>1. proxy \in Child /\ KeptOrKilled(proxy)
    BY DEF Inv, TypeOK, ProxyTruth, KeptOrKilled
  <2>2. CASE UNCHANGED proxy
    BY <2>1, <2>2 DEF KeptOrKilled
  <2>3. ASSUME NEW c \in {proxy, Errored(proxy), Noticed(proxy)},
               proxy' \in {c, TerminateChild(c)}, c # proxy => proxy.os # "alive"
        PROVE  KeptOrKilled(proxy')
    <3>1. c \in Child /\ KeptOrKilled(c)
      BY <2>1, <2>3, ProxyOperators, KeptOrKilledStays
    <3> QED BY <2>3, <3>1, KeptOrKilledStays
  <2>4. CanClose(proxy) /\ proxy' = ClosedBy(proxy) => KeptOrKilled(proxy')
    BY <2>1, KeptOrKilledStays
  <2>5. /\ proxy' = GraceExpired(proxy) => KeptOrKilled(proxy')
        /\ proxy' = Ended(proxy, "codeN") => KeptOrKilled(proxy')
        /\ \A p \in Pipe : proxy' = Drained(proxy, p) => KeptOrKilled(proxy')
    BY <2>1, KeptOrKilledStays
  <2> QED BY <2>2, <2>3, <2>4, <2>5, ProxyKinds
<1>2. CASE Exits
  <2>1. main \notin {"ready", "initialize", "calls"}
    <3>1. ~handshakeTimer /\ timers = {} /\ ~ContinuationReady
      BY <1>2 DEF Exits, NodeIdle
    <3>2. ready # "waiting" /\ \A i \in Call : outcome[i] # "open"
      BY <3>1 DEF Inv, CallTruth
    <3>3. main # "ready"
      BY <3>1, <3>2 DEF ContinuationReady
    <3>4. ASSUME main \in {"initialize", "calls"} PROVE FALSE
      <4>1. PICK i \in batch : outcome[i] \notin {"result", "error", "failed"}
        BY <3>1, <3>4 DEF ContinuationReady, Resolved, Rejected
      <4>2. i \in Call /\ i < nextId
        BY <3>4, BoundsAssumption DEF Inv, RoundTruth, TypeOK, Issued, Call
      <4>3. outcome[i] \notin {"unissued", "open"}
        BY <3>2, <4>2 DEF Inv, CallTruth
      <4> QED BY <4>1, <4>2, <4>3 DEF Inv, TypeOK, Outcome, Verdict
    <3> QED BY <3>3, <3>4
  <2>2. UNCHANGED <<main, proxy>> /\ ~Holds(proxy)
    BY <1>2 DEF Exits
  <2>3. main' \in {"returned", "threw"} /\ ~Holds(proxy')
    BY <2>1, <2>2 DEF Inv, TypeOK
  <2> QED BY <1>1, <2>3 DEF ProxyTruth, KeptOrKilled, Holds
<1>3. CASE UNCHANGED <<helper, main>>
  <2>1. CASE helper = "exited"
    <3>1. UNCHANGED proxy
      BY <2>1, ProxyKinds
    <3> QED BY <1>1, <1>3, <2>1, <3>1 DEF ProxyTruth, KeptOrKilled, Inv, Holds
  <2>2. CASE helper # "exited"
    BY <1>1, <1>3, <2>2 DEF ProxyTruth, KeptOrKilled
  <2> QED BY <2>1, <2>2
<1>4. CASE helper' \in {"alive", "crashed"}
  BY <1>1, <1>4 DEF ProxyTruth, KeptOrKilled
<1> QED BY <1>2, <1>3, <1>4, MainMoves DEF AfterReady, AfterInitialize, AfterCalls, Continues

LEMMA NextInv == Inv /\ [Next]_vars => Inv'
<1> SUFFICES ASSUME Inv, [Next]_vars PROVE Inv'
  OBVIOUS
<1>1. CallTypes
  BY DEF Inv, TypeOK, CallTypes
<1>2. CallTruth' /\ FrameTruth'
  BY <1>1, CallStep, FrameStep DEF Inv, CallTypes
<1> QED BY <1>2, TypeStep, RoundStep, ProxyStep DEF Inv

-----------------------------------------------------------------------------
\* Every reachable state has well-typed variables.
THEOREM TypeCorrect == Spec => []TypeOK
<1>1. Inv => TypeOK
  BY DEF Inv
<1> QED BY InitInv, NextInv, <1>1, PTL DEF Spec

\* Each promise a command awaits has its timer, and each timer its promise.
THEOREM WaitsAreBounded == Spec => []EveryWaitIsBounded
<1>1. Inv => EveryWaitIsBounded
  BY DEF Inv, CallTruth, EveryWaitIsBounded
<1> QED BY InitInv, NextInv, <1>1, PTL DEF Spec

\* A command returns only what the server answered.
THEOREM ReturnsAnswers == Spec => []ReturnsOnlyAnswers
<1>1. Inv => ReturnsOnlyAnswers
  <2> SUFFICES ASSUME Inv, main = "returned", NEW i \in 1 .. nextId - 1
               PROVE  outcome[i] = "result" /\ said[i] = "result"
    BY DEF ReturnsOnlyAnswers
  <2>1. outcome[i] = "result"
    BY DEF Inv, RoundTruth, Issued
  <2>2. i \in Call
    BY BoundsAssumption DEF Inv, TypeOK, Call
  <2> QED BY <2>1, <2>2 DEF Inv, CallTruth, Verdict
<1> QED BY InitInv, NextInv, <1>1, PTL DEF Spec

\* The helper exits with main() at its end and the proxy gone or killed.
THEOREM ExitIsClean == Spec => []ExitsClean
<1>1. Inv => ExitsClean
  BY DEF Inv, ProxyTruth, ExitsClean, Holds
<1> QED BY InitInv, NextInv, <1>1, PTL DEF Spec

-----------------------------------------------------------------------------
(***************************************************************************)
(* Refinement: the connection is up until it is closed.                    *)
(***************************************************************************)
LEMMA SameCalls == Abstract!Call = Call /\ Abstract!Verdict = Verdict
  BY DEF Abstract!Call, Call, Abstract!Verdict, Verdict

LEMMA StepImplements ==
  Inv /\ [Next]_vars => [Abstract!CallsNext]_(Abstract!callsVars)
<1> SUFFICES ASSUME Inv, [Next]_vars
             PROVE  Abstract!CallsNext \/ UNCHANGED <<outcome, said, closed>>
  BY DEF Abstract!callsVars
<1>0. CallTypes /\ CallTruth /\ FrameTruth
  BY DEF Inv, TypeOK, CallTypes
<1>1. ASSUME NEW c, Closing(c)
      PROVE  Abstract!CallsNext \/ UNCHANGED <<outcome, said, closed>>
  <2>1. CASE closed
    <3>1. outcome' = [i \in Call |-> outcome[i]]
      BY <1>0, <1>1, <2>1 DEF Closing, CloseWith, CallTruth
    <3> QED BY <1>0, <1>1, <2>1, <3>1 DEF Closing, CloseWith, CallTypes
  <2>2. CASE ~closed
    <3>1. outcome' = [i \in Call |-> IF outcome[i] = "open" THEN "failed" ELSE outcome[i]]
      BY <1>0, <1>1 DEF Closing, CloseWith, CallTruth
    <3>2. Abstract!Break
      BY <1>1, <2>2, <3>1, SameCalls DEF Abstract!Break, Closing, CloseWith
    <3> QED BY <3>2 DEF Abstract!CallsNext
  <2> QED BY <2>1, <2>2
<1>2. ASSUME NEW n \in 1 .. MaxCalls, Request(n) PROVE Abstract!CallsNext
  <2>1. PICK written \in SUBSET (nextId .. nextId + n - 1) :
           /\ batch' = nextId .. nextId + n - 1
           /\ batch' \subseteq Call
           /\ closed => written = {}
           /\ outcome' = [i \in Call |-> IF i \in written THEN "open"
                                         ELSE IF i \in batch' THEN "failed"
                                         ELSE outcome[i]]
           /\ UNCHANGED <<linkVars, said>>
    BY <1>0, <1>2, RequestFacts
  <2>2. \A i \in batch' : outcome[i] = "unissued"
    BY <1>0, <2>1, BoundsAssumption DEF CallTruth, CallTypes, Call
  <2>3. Abstract!MakeCalls(batch', written)
    BY <2>1, <2>2, SameCalls DEF Abstract!MakeCalls, linkVars
  <2>4. batch' \in SUBSET Abstract!Call /\ written \in SUBSET batch'
    BY <2>1, SameCalls
  <2> QED BY <2>3, <2>4 DEF Abstract!CallsNext
<1>3. ASSUME NEW i, Settling(i) PROVE Abstract!CallsNext
  <2>1. Head(buffer) \in Genuine
    BY <1>0, <1>3, HeadTailProperties DEF Settling, FrameTruth
  <2>2. i \in Call /\ said[i] = Head(buffer).verdict /\ said[i] \in Verdict
    BY <1>3, <2>1 DEF Settling, Genuine, Frame, Upgrade, Refusal, Plain, Answer, JunkKind
  <2>3. ~closed /\ outcome[i] = "open"
    BY <1>0, <1>3 DEF Settling, CallTruth
  <2>4. Abstract!Settle(i)
    BY <1>3, <2>2, <2>3, SameCalls DEF Abstract!Settle, Settling, linkVars
  <2> QED BY <2>2, <2>4, SameCalls DEF Abstract!CallsNext
<1>4. CASE OnUpgrade
  BY <1>4 DEF OnUpgrade, callVars, serverVars
<1>5. ASSUME NEW i, NEW v, Answering(i, v) PROVE Abstract!CallsNext
  <2>1. i \in Call /\ v \in Verdict /\ outcome[i] # "unissued"
    BY <1>0, <1>5 DEF Answering, CallTruth, CallTypes, Call
  <2>2. Abstract!ServerSays(i, v)
    BY <1>5, <2>1 DEF Answering, Abstract!ServerSays, callVars, linkVars
  <2> QED BY <2>1, <2>2, SameCalls DEF Abstract!CallsNext
<1>6. CASE CallsAlone
  BY <1>6 DEF CallsAlone, callVars, linkVars
<1> QED BY <1>1, <1>2, <1>3, <1>4, <1>5, <1>6, CallKinds

\* AppServerClient implements Calls.
THEOREM Implements == Spec => ImplementsCalls
<1>1. Init => Abstract!CallsInit
  BY SameCalls DEF Init, Abstract!CallsInit
<1> QED BY InitInv, NextInv, StepImplements, <1>1, PTL
        DEF Spec, ImplementsCalls, Abstract!CallsSpec

-----------------------------------------------------------------------------
(***************************************************************************)
(* The client is a Connection.  Whether it is up has to agree with what    *)
(* the operation was told, and a call that could not even be written is    *)
(* looked at before another frame is.                                      *)
(***************************************************************************)
LinkTruth ==
  /\ main # "ready" => ready # "waiting"
  /\ ~closed => (handshakeComplete <=> ready # "waiting")
  /\ main \in {"returned", "threw"} => closed
  /\ handling /\ ~closed => \A i \in batch : outcome[i] # "failed"

LinkInv == Inv /\ LinkTruth

\* A continuation that is ready has been told something.
LEMMA ContinuationFacts ==
  ASSUME Inv, AfterReady \/ AfterInitialize \/ AfterCalls
  PROVE  /\ ~handling /\ ~handling'
         /\ \/ main = "ready" /\ ready # "waiting"
            \/ main \in {"initialize", "calls"} /\ (Resolved \/ Rejected)
         /\ \/ main' \in {"returned", "threw"} /\ Closing(proxy)
            \/ /\ main' \in {"initialize", "calls"}
               /\ \/ main = "ready" /\ ready = "ok"
                  \/ main \in {"initialize", "calls"} /\ Resolved
               /\ \E n \in 1 .. MaxCalls : Request(n)
<1>0. handling \in BOOLEAN /\ 1 \in 1 .. MaxCalls
  BY BoundsAssumption DEF Inv, TypeOK
<1>1. ASSUME NEW how \in {"returned", "threw"}, Leave(how)
      PROVE  main' \in {"returned", "threw"} /\ Closing(proxy) /\ (handling' => handling)
  BY <1>1 DEF Leave, Close, Closing, readVars, serverVars
<1>2. ASSUME NEW n, Request(n) PROVE handling' => handling
  BY <1>2 DEF Request, readVars
<1>3. ~handling /\ ContinuationReady
  BY DEF AfterReady, AfterInitialize, AfterCalls, Continues
<1>4. CASE AfterReady
  BY <1>0, <1>1, <1>2, <1>3, <1>4 DEF AfterReady, ContinuationReady
<1>5. CASE AfterInitialize
  BY <1>0, <1>1, <1>2, <1>3, <1>5 DEF AfterInitialize, ContinuationReady
<1>6. CASE AfterCalls
  BY <1>0, <1>1, <1>2, <1>3, <1>6 DEF AfterCalls, ContinuationReady
<1> QED BY <1>4, <1>5, <1>6

\* Handling starts when nothing else is to be done, or goes on.
LEMMA HandlingKinds ==
  ASSUME [Next]_vars
  PROVE  handling' => handling \/ OnData
<1>1. CASE OnFrame
  BY <1>1 DEF OnFrame, OnUpgrade, OnRefusal, OnAnswer, OnNotice, OnBadFrame, OnPing,
              HandlesFrame
<1>2. CASE AfterReady \/ AfterInitialize \/ AfterCalls
  BY <1>2 DEF AfterReady, AfterInitialize, AfterCalls, Request, Leave, readVars
<1>3. CASE \/ HandshakeTimesOut \/ RequestTimesOut \/ StdinFails \/ SpawnFails
           \/ ProxyExits \/ ProxyCloses \/ GraceExpires \/ Exits \/ ProxyDies \/ ProxyDrains
           \/ ServerGreets \/ ServerAnswers \/ ServerDigresses
  BY <1>3 DEF HandshakeTimesOut, RequestTimesOut, StdinFails, SpawnFails, ProxyExits,
              ProxyCloses, GraceExpires, Exits, ProxyDies, ProxyDrains, ServerGreets,
              ServerAnswers, ServerDigresses, Sends, readVars
<1>4. CASE vars' = vars
  <2>1. handling' = handling
    BY <1>4 DEF vars, readVars
  <2> QED BY <2>1
<1> QED BY <1>1, <1>2, <1>3, <1>4 DEF Next, OnFrame

\* Unless a continuation runs, what the command awaits is only settled.
LEMMA WhileAwaiting ==
  ASSUME [Next]_vars, ~(AfterReady \/ AfterInitialize \/ AfterCalls)
  PROVE  /\ UNCHANGED <<main, batch, nextId>>
         /\ \/ \E c : Closing(c)
            \/ (\E i : Settling(i)) /\ OnFrame
            \/ OnUpgrade
            \/ UNCHANGED <<outcome, linkVars>>
<1>1. UNCHANGED main
  BY MainMoves
<1>2. \/ \E c : Closing(c)
      \/ (\E i : Settling(i)) /\ OnFrame
      \/ OnUpgrade
      \/ \E i, v : Answering(i, v)
      \/ CallsAlone
  BY ReadingKinds, EventKinds DEF Next, OnFrame, CallsAlone, vars, serverVars
<1> QED BY <1>1, <1>2 DEF Closing, CloseWith, Settling, OnUpgrade, Answering, CallsAlone, callVars

LEMMA LinkStep == ASSUME LinkInv, [Next]_vars PROVE LinkTruth'
<1> USE DEF LinkInv
<1>0. CallTypes /\ CallTruth /\ RoundTruth /\ handling \in BOOLEAN
  BY DEF Inv, TypeOK, CallTypes
<1>1. ASSUME NEW c, Closing(c) PROVE LinkTruth'
  BY <1>0, <1>1 DEF Closing, CloseWith, LinkTruth, CallTypes
<1>2. CASE AfterReady \/ AfterInitialize \/ AfterCalls
  <2>1. CASE main' \in {"returned", "threw"} /\ Closing(proxy)
    BY <1>1, <2>1
  <2>2. CASE /\ main' \in {"initialize", "calls"}
             /\ \/ main = "ready" /\ ready = "ok"
                \/ main \in {"initialize", "calls"} /\ Resolved
             /\ \E n \in 1 .. MaxCalls : Request(n)
    <3>1. UNCHANGED <<ready, closed, handshakeComplete>> /\ ~handling'
      BY <1>2, <2>2, ContinuationFacts DEF Request, linkVars
    <3> QED BY <2>2, <3>1 DEF LinkTruth
  <2> QED BY <1>2, <2>1, <2>2, ContinuationFacts
<1>3. CASE ~(AfterReady \/ AfterInitialize \/ AfterCalls)
  <2>1. UNCHANGED <<main, batch>>
    BY <1>3, WhileAwaiting
  <2>2. ASSUME ~closed, handling', ~handling, \E i \in batch : outcome[i] = "failed"
        PROVE  FALSE
    <3>1. OnData
      BY <1>0, <2>2, HandlingKinds
    <3>2. Rejected /\ main # "ready"
      BY <1>0, <2>2 DEF Rejected, RoundTruth
    <3>3. main \in {"initialize", "calls"}
      BY <2>2, <3>2 DEF LinkTruth, Inv, TypeOK
    <3> QED BY <3>1, <3>2, <3>3 DEF OnData, NodeIdle, ContinuationReady
  <2>3. CASE \E i : Settling(i)
    <3>1. PICK i : Settling(i)
      BY <2>3
    <3>2. Head(buffer).verdict \in Verdict
      BY <3>1, HeadTailProperties
         DEF Settling, Inv, TypeOK, Frame, Upgrade, Refusal, Plain, Answer, Verdict
    <3>3. \A j \in batch : outcome[j] # "failed" => outcome'[j] # "failed"
      BY <1>0, <3>1, <3>2 DEF Settling, Verdict, CallTypes
    <3>4. UNCHANGED <<ready, closed, handshakeComplete>>
      BY <3>1 DEF Settling, linkVars
    <3> QED BY <2>1, <2>2, <3>3, <3>4 DEF LinkTruth
  <2>4. CASE OnUpgrade
    <3>1. handling /\ handshakeComplete' = TRUE /\ ready' # "waiting" /\ UNCHANGED <<closed, outcome>>
      BY <2>4 DEF OnUpgrade, HandlesFrame, callVars
    <3> QED BY <2>1, <3>1 DEF LinkTruth
  <2>5. CASE UNCHANGED <<outcome, linkVars>>
    <3>1. UNCHANGED <<outcome, ready, closed, handshakeComplete>>
      BY <2>5 DEF linkVars
    <3> QED BY <2>1, <2>2, <3>1 DEF LinkTruth
  <2> QED BY <1>1, <1>3, <2>3, <2>4, <2>5, WhileAwaiting
<1> QED BY <1>2, <1>3

LEMMA LinkInvariant == LinkInv /\ [Next]_vars => LinkInv'
  BY LinkStep, NextInv DEF LinkInv

\* What the operation awaits, by its cases.
Cases ==
  /\ main = "ready" /\ ready = "waiting" => Awaited = "pending"
  /\ main = "ready" /\ ready = "ok" => Awaited = "answered"
  /\ main = "ready" /\ ready = "failed" => Awaited = "failed"
  /\ main \in {"initialize", "calls"} => Awaited = AwaitedRound
  /\ main \in {"returned", "threw"} => Awaited = "nothing"

LEMMA Standing == Cases
  BY DEF Cases, Awaited

\* Closing settles what is awaited, and spares what is settled.
LEMMA ClosingSettles ==
  ASSUME LinkInv, NEW c, Closing(c), UNCHANGED main
  PROVE  Awaited' = IF Awaited = "pending" THEN "failed" ELSE Awaited
<1>0. CallTypes /\ CallTruth /\ RoundTruth
  BY DEF LinkInv, Inv, TypeOK, CallTypes
<1>s. Cases
  BY Standing
<1>p. Cases'
  BY Standing, PTL
<1>1. CASE main = "ready"
  <2>1. ready' = IF ready = "waiting" THEN "failed" ELSE ready
    BY DEF Closing, CloseWith
  <2>2. ready \in {"waiting", "ok", "failed"}
    BY <1>0 DEF CallTypes
  <2> QED BY <1>1, <1>s, <1>p, <2>1, <2>2 DEF Cases
<1>2. CASE main \in {"initialize", "calls"}
  <2>1. /\ batch' = batch /\ batch # {} /\ batch \subseteq Call
        /\ \A i \in batch : outcome[i] \in {"open", "failed", "result", "error"}
    <3>1. batch \subseteq Issued /\ batch # {} /\ batch' = batch /\ batch \subseteq Call
      BY <1>0, <1>2 DEF RoundTruth, Closing, CloseWith, CallTypes
    <3>2. \A i \in Issued : i < nextId
      BY <1>0 DEF Issued, CallTypes
    <3> QED BY <1>0, <3>1, <3>2 DEF CallTypes, CallTruth, Outcome, Verdict
  <2>2. \A i \in batch : outcome'[i] = IF outcome[i] = "open" THEN "failed" ELSE outcome[i]
    BY <1>0, <2>1 DEF Closing, CloseWith, CallTruth
  <2>3. CASE \E i \in batch : outcome[i] = "error"
    BY <2>1, <2>2, <2>3, <1>2, <1>s, <1>p DEF Cases, AwaitedRound
  <2>4. CASE ~(\E i \in batch : outcome[i] = "error") /\ Rejected
    <3>1. AwaitedRound = "failed"
      BY <2>4 DEF AwaitedRound
    <3>2. ~(\E i \in batch' : outcome'[i] = "error") /\ Rejected'
      BY <2>1, <2>2, <2>4 DEF Rejected
    <3>3. AwaitedRound' = "failed"
      BY <3>2 DEF AwaitedRound
    <3> QED BY <1>2, <1>s, <1>p, <3>1, <3>3 DEF Cases
  <2>5. CASE ~Rejected /\ Resolved
    <3>1. ~Rejected' /\ Resolved'
      BY <2>1, <2>2, <2>5 DEF Rejected, Resolved
    <3>2. AwaitedRound = "answered" /\ AwaitedRound' = "answered"
      BY <2>5, <3>1 DEF AwaitedRound, Rejected
    <3> QED BY <1>2, <1>s, <1>p, <3>2 DEF Cases
  <2>6. CASE ~Rejected /\ ~Resolved
    <3>1. PICK i \in batch : outcome[i] = "open"
      BY <2>1, <2>6 DEF Rejected, Resolved
    <3>2. ~(\E j \in batch' : outcome'[j] = "error") /\ Rejected'
      BY <2>1, <2>2, <2>6, <3>1 DEF Rejected
    <3>3. AwaitedRound = "pending" /\ AwaitedRound' = "failed"
      BY <2>6, <3>2 DEF AwaitedRound, Rejected
    <3> QED BY <1>2, <1>s, <1>p, <3>3 DEF Cases
  <2> QED BY <2>3, <2>4, <2>5, <2>6
<1>3. CASE main \in {"returned", "threw"}
  BY <1>3, <1>s, <1>p DEF Cases
<1> QED BY <1>1, <1>2, <1>3 DEF LinkInv, Inv, TypeOK

\* Once it is closed nothing is awaited any more.
LEMMA ClosedIsSettled == ASSUME Inv, closed PROVE Awaited # "pending"
<1>1. CallTypes /\ CallTruth /\ RoundTruth /\ ready # "waiting"
  BY DEF Inv, TypeOK, CallTypes, CallTruth
<1>2. CASE main \in {"initialize", "calls"}
  <2>1. \A i \in batch : i \in Call /\ i < nextId
    BY <1>1, <1>2 DEF RoundTruth, Issued, CallTypes
  <2>2. \A i \in batch : outcome[i] \in {"failed", "result", "error"}
    BY <1>1, <2>1 DEF CallTruth, CallTypes, Outcome, Verdict
  <2>3. Resolved \/ Rejected
    BY <2>2 DEF Resolved, Rejected
  <2> QED BY <1>2, <2>3, Standing DEF Cases, AwaitedRound
<1>3. CASE main \notin {"initialize", "calls"}
  BY <1>1, <1>3, Standing DEF Cases, Inv, TypeOK
<1> QED BY <1>2, <1>3

\* A round that was written is awaited while the connection is up.
LEMMA RequestAsks ==
  ASSUME LinkInv, NEW n \in 1 .. MaxCalls, Request(n)
  PROVE  \/ AwaitedRound' = "failed"
         \/ AwaitedRound' = "pending" /\ ~closed
<1>0. CallTypes
  BY DEF LinkInv, Inv, TypeOK, CallTypes
<1>1. PICK written \in SUBSET (nextId .. nextId + n - 1) :
        /\ batch' = nextId .. nextId + n - 1
        /\ batch' \subseteq Call /\ batch' # {}
        /\ closed => written = {}
        /\ outcome' = [i \in Call |-> IF i \in written THEN "open"
                                      ELSE IF i \in batch' THEN "failed"
                                      ELSE outcome[i]]
  BY <1>0, RequestFacts
<1>2. \A i \in batch' : outcome'[i] = IF i \in written THEN "open" ELSE "failed"
  BY <1>1
<1>3. ~(\E i \in batch' : outcome'[i] = "error") /\ ~Resolved'
  BY <1>1, <1>2 DEF Resolved
<1>4. CASE written = batch'
  <2>1. ~Rejected' /\ ~closed
    BY <1>1, <1>2, <1>4 DEF Rejected
  <2> QED BY <1>3, <2>1 DEF AwaitedRound
<1>5. CASE written # batch'
  <2>1. Rejected'
    BY <1>1, <1>2, <1>5 DEF Rejected
  <2> QED BY <1>3, <2>1 DEF AwaitedRound
<1> QED BY <1>4, <1>5

\* An answer settles a round that is awaited, or leaves it as it stands.
LEMMA SettlingAnswers ==
  ASSUME LinkInv, NEW i, Settling(i), OnFrame, UNCHANGED main
  PROVE  /\ ~closed /\ UNCHANGED <<closed, handshakeComplete>>
         /\ handshakeComplete
         /\ \/ UNCHANGED Awaited
            \/ Awaited = "pending" /\ Awaited' = "answered"
<1>0. CallTypes /\ CallTruth /\ RoundTruth /\ LinkTruth
  BY DEF LinkInv, Inv, TypeOK, CallTypes
<1>1. /\ handling /\ handshakeComplete /\ ~closed
      /\ UNCHANGED <<batch, closed, handshakeComplete, ready>>
  BY <1>0 DEF Settling, OnFrame, OnUpgrade, OnRefusal, OnAnswer, OnNotice, OnBadFrame,
              OnPing, HandlesFrame, linkVars, CallTruth
<1>2. Head(buffer).verdict \in Verdict
  BY HeadTailProperties
     DEF LinkInv, Settling, Inv, TypeOK, Frame, Upgrade, Refusal, Plain, Answer, Verdict
<1>3. /\ outcome[i] = "open" /\ outcome'[i] \in Verdict
      /\ \A j \in Call : j # i => outcome'[j] = outcome[j]
  BY <1>0, <1>2 DEF Settling, CallTypes, CallTruth
<1>s. Cases
  BY Standing
<1>p. Cases'
  BY Standing, PTL
<1>4. CASE main = "ready"
  <2>1. UNCHANGED Awaited
    BY <1>1, <1>4 DEF Awaited
  <2> QED BY <1>1, <2>1
<1>5. CASE main \in {"initialize", "calls"}
  <2>1. \A j \in batch : outcome[j] # "failed" /\ j \in Call
    BY <1>0, <1>1 DEF LinkTruth, CallTypes
  <2>2. CASE \E j \in batch : outcome[j] = "error"
    <3>1. \E j \in batch' : outcome'[j] = "error"
      BY <1>1, <1>3, <2>1, <2>2
    <3>2. AwaitedRound = "answered" /\ AwaitedRound' = "answered"
      BY <2>2, <3>1 DEF AwaitedRound
    <3> QED BY <1>1, <1>5, <1>s, <1>p, <3>2 DEF Cases
  <2>3. CASE ~(\E j \in batch : outcome[j] = "error")
    <3>1. ~Rejected
      BY <2>1, <2>3 DEF Rejected
    <3>2. AwaitedRound \in {"answered", "pending"}
      BY <2>3, <3>1 DEF AwaitedRound
    <3>3. AwaitedRound = "answered" => i \notin batch
      BY <1>3, <2>3, <3>1 DEF AwaitedRound, Resolved
    <3>4. i \notin batch => \A j \in batch : outcome'[j] = outcome[j]
      BY <1>3, <2>1
    <3>5. i \notin batch => UNCHANGED AwaitedRound
      BY <1>1, <3>4 DEF AwaitedRound, Rejected, Resolved
    <3>6. (\E j \in batch' : outcome'[j] = "error") \/ ~Rejected'
      BY <1>1, <1>3, <2>1 DEF Rejected, Verdict
    <3>7. AwaitedRound' \in {"answered", "pending"}
      BY <3>6 DEF AwaitedRound
    <3> QED BY <1>1, <1>5, <1>s, <1>p, <3>2, <3>3, <3>5, <3>7 DEF Cases
  <2> QED BY <2>2, <2>3
<1>6. CASE main \in {"returned", "threw"}
  BY <1>1, <1>6, <1>s, <1>p DEF Cases
<1> QED BY <1>4, <1>5, <1>6 DEF LinkInv, Inv, TypeOK

LEMMA StepProvides ==
  LinkInv /\ [Next]_vars => [Link!ConnectionNext]_(Link!connectionVars)
<1> SUFFICES ASSUME LinkInv, [Next]_vars
             PROVE  Link!ConnectionNext \/ UNCHANGED <<Conn, Awaited>>
  BY DEF Link!connectionVars
<1>0. CallTypes /\ LinkTruth /\ Inv
  BY DEF LinkInv, Inv, TypeOK, CallTypes
<1>s. Cases
  BY Standing
<1>p. Cases'
  BY Standing, PTL
<1>1. CASE AfterReady \/ AfterInitialize \/ AfterCalls
  <2>1. /\ \/ main = "ready" /\ ready # "waiting"
           \/ main \in {"initialize", "calls"} /\ (Resolved \/ Rejected)
        /\ \/ main' \in {"returned", "threw"} /\ Closing(proxy)
           \/ /\ main' \in {"initialize", "calls"}
              /\ \/ main = "ready" /\ ready = "ok"
                 \/ main \in {"initialize", "calls"} /\ Resolved
              /\ \E n \in 1 .. MaxCalls : Request(n)
    BY <1>0, <1>1, ContinuationFacts
  <2>2. Awaited \in {"answered", "failed"}
    <3>1. Resolved \/ Rejected => AwaitedRound \in {"answered", "failed"}
      BY DEF AwaitedRound
    <3> QED BY <1>0, <1>s, <2>1, <3>1 DEF Cases, CallTypes
  <2>3. CASE main' \in {"returned", "threw"} /\ Closing(proxy)
    <3>1. Conn \in {"connecting", "up", "down"} /\ Conn' = "down"
      BY <2>3 DEF Conn, Closing, CloseWith
    <3>2. Awaited' = "nothing"
      BY <1>p, <2>3 DEF Cases
    <3> QED BY <2>2, <3>1, <3>2 DEF Link!ConnectionNext, Link!Done
  <2>4. CASE /\ main' \in {"initialize", "calls"}
             /\ \E n \in 1 .. MaxCalls : Request(n)
    <3>1. UNCHANGED <<closed, handshakeComplete>>
      BY <2>4 DEF Request, linkVars
    <3>2. UNCHANGED Conn
      BY <3>1 DEF Conn
    <3>3. ~closed => Conn = "up"
      BY <1>0, <2>1 DEF LinkTruth, Conn
    <3>4. Awaited' = "failed" \/ (Awaited' = "pending" /\ ~closed)
      <4>1. PICK n \in 1 .. MaxCalls : Request(n)
        BY <2>4
      <4>2. AwaitedRound' = "failed" \/ (AwaitedRound' = "pending" /\ ~closed)
        BY <4>1, RequestAsks
      <4>3. Awaited' = AwaitedRound'
        BY <1>p, <2>4 DEF Cases
      <4> QED BY <4>2, <4>3
    <3> QED BY <2>2, <3>2, <3>3, <3>4 DEF Link!ConnectionNext, Link!Ask, Link!Settled
  <2> QED BY <2>1, <2>3, <2>4
<1>2. CASE ~(AfterReady \/ AfterInitialize \/ AfterCalls)
  <2>0. UNCHANGED <<main, batch, nextId>>
    BY <1>2, WhileAwaiting
  <2>1. ASSUME NEW c, Closing(c)
        PROVE  Link!ConnectionNext \/ UNCHANGED <<Conn, Awaited>>
    <3>1. Awaited' = IF Awaited = "pending" THEN "failed" ELSE Awaited
      BY <2>0, <2>1, ClosingSettles
    <3>2. Conn' = "down"
      BY <2>1 DEF Conn, Closing, CloseWith
    <3>3. CASE ~closed
      <4>1. Conn \in {"connecting", "up"}
        BY <3>3 DEF Conn
      <4> QED BY <3>1, <3>2, <4>1 DEF Link!ConnectionNext, Link!GoDown
    <3>4. CASE closed
      <4>1. Conn = "down" /\ Awaited # "pending"
        BY <3>4, ClosedIsSettled, <1>0 DEF Conn
      <4> QED BY <3>1, <3>2, <4>1
    <3> QED BY <3>3, <3>4
  <2>2. CASE (\E i : Settling(i)) /\ OnFrame
    <3>1. PICK i : Settling(i)
      BY <2>2
    <3>2. /\ ~closed /\ UNCHANGED <<closed, handshakeComplete>> /\ handshakeComplete
          /\ UNCHANGED Awaited \/ (Awaited = "pending" /\ Awaited' = "answered")
      BY <2>0, <2>2, <3>1, SettlingAnswers
    <3>3. Conn = "up" /\ Conn' = "up"
      BY <3>2 DEF Conn
    <3> QED BY <3>2, <3>3 DEF Link!ConnectionNext, Link!Answer
  <2>3. CASE OnUpgrade
    <3>1. /\ ready' = IF ready = "waiting" THEN "ok" ELSE ready
          /\ handshakeComplete' = TRUE /\ UNCHANGED <<closed, outcome, batch, main>>
      BY <2>3 DEF OnUpgrade, callVars
    <3>2. CASE ready = "waiting" /\ ~closed
      <4>1. main = "ready" /\ ~handshakeComplete
        BY <1>0, <3>2 DEF LinkTruth
      <4>2. Conn = "connecting" /\ Conn' = "up"
        BY <3>1, <3>2, <4>1 DEF Conn
      <4>3. Awaited = "pending" /\ Awaited' = "answered"
        BY <1>s, <1>p, <3>1, <3>2, <4>1 DEF Cases
      <4> QED BY <4>2, <4>3 DEF Link!ConnectionNext, Link!ComeUp
    <3>3. CASE ready # "waiting" \/ closed
      <4>1. UNCHANGED ready
        BY <1>0, <3>1, <3>3 DEF Inv, CallTruth
      <4>2. closed \/ handshakeComplete
        BY <1>0, <3>3 DEF LinkTruth
      <4>3. UNCHANGED Conn
        BY <3>1, <4>2 DEF Conn
      <4>4. UNCHANGED Awaited
        BY <3>1, <4>1 DEF Awaited, AwaitedRound, Rejected, Resolved
      <4> QED BY <4>3, <4>4
    <3> QED BY <3>2, <3>3
  <2>4. CASE UNCHANGED <<outcome, linkVars>>
    <3>1. UNCHANGED <<outcome, batch, main, ready, closed, handshakeComplete>>
      BY <2>0, <2>4 DEF linkVars
    <3>2. UNCHANGED Conn
      BY <3>1 DEF Conn
    <3>3. UNCHANGED Awaited
      BY <3>1 DEF Awaited, AwaitedRound, Rejected, Resolved
    <3> QED BY <3>2, <3>3
  <2> QED BY <1>2, <2>1, <2>2, <2>3, <2>4, WhileAwaiting
<1> QED BY <1>1, <1>2

\* The client gives its command a Connection: what SendCommand relies on.
THEOREM IsAConnection == Spec => ProvidesConnection
<1>1. Init => LinkInv /\ Link!ConnectionInit
  <2> SUFFICES ASSUME Init PROVE LinkInv /\ Conn = "connecting" /\ Awaited = "pending"
    BY DEF Link!ConnectionInit
  <2>1. LinkInv
    BY InitInv DEF LinkInv, LinkTruth, Init
  <2> QED BY <2>1, Standing DEF Init, Cases, Conn
<1> QED BY LinkInvariant, StepProvides, <1>1, PTL
        DEF Spec, ProvidesConnection, Link!ConnectionSpec

=============================================================================
