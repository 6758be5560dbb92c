---------------------------- MODULE FrameDecoder ----------------------------
(***************************************************************************)
(* The bytes of the app-server proxy's stdout (onHandshakeData,            *)
(* onFrameData, onFrame in app-server.mjs): the answer to the upgrade and  *)
(* the frames behind it arrive in chunks that are cut anywhere and are     *)
(* gathered in a buffer.  The stream is only known as far as it has to be: *)
(* the answer, and the first frame that has not been taken.                *)
(***************************************************************************)
EXTENDS Messages

CONSTANTS MaxChunk,    \* bound: bytes in a chunk
          MaxBuffer,   \* bound: no chunk comes that would pass it
          MaxParts     \* bound: fragments of a message before the last

ASSUME DecoderAssumption == {MaxChunk, MaxBuffer, MaxParts} \subseteq Nat \ {0}

VARIABLES have,           \* bytes in handshakeBuffer, then in frameBuffer
          fragmentBytes,
          handling        \* onFrameData is in its loop

vars == <<messagesVars, have, fragmentBytes, handling>>

handshakeComplete == next.op # "answer"

\* The stream goes on with any frame.
Reach ==
  next' \in {f \in Frame : f.op = "cont" /\ ~f.fin => Len(parts') < MaxParts}

Init == MessagesInit /\ have = 0 /\ fragmentBytes = 0 /\ handling = FALSE

\* The first reason to close is the one that is told.
CloseFor(why) == state' = IF state = "open" THEN why ELSE state
ProtocolFailure == CloseFor("protocol_error")

InUse == state = "open" /\ out # Crash

\* A closed client goes on gathering, but says nothing.
Say(what) == out' = IF state = "open" THEN what ELSE out

-----------------------------------------------------------------------------
RefuseAnswer(bytes) == ProtocolFailure /\ have' = bytes /\ UNCHANGED <<next, handling>>
AwaitAnswer(bytes)  == have' = bytes /\ UNCHANGED <<next, handling, state>>

\* Faulty: frames behind the answer wait for the next chunk.
OnUpgradeOnly(bytes) ==
  IF bytes > MaxHandshake THEN RefuseAnswer(bytes)
  ELSE IF bytes < next.len THEN AwaitAnswer(bytes)
  ELSE IF ~next.ok THEN RefuseAnswer(bytes)
  ELSE have' = bytes - next.len /\ Reach /\ UNCHANGED <<handling, state>>

OnHandshakeData(bytes) ==
  IF bytes > MaxHandshake THEN RefuseAnswer(bytes)
  ELSE IF bytes < next.len THEN AwaitAnswer(bytes)
  ELSE IF ~next.ok THEN RefuseAnswer(bytes)
  ELSE have' = bytes - next.len /\ handling' = (have' > 0) /\ Reach /\ UNCHANGED state

\* The "error" of a failed pong is emitted before another chunk comes.
OnStdout ==
  /\ ~handling /\ out # Crash /\ ~(stdinErrored /\ state = "open")
  /\ UNCHANGED <<parts, out, stdinErrored, fragmentBytes>>
  /\ \E n \in 1 .. MaxChunk :
       /\ have + n <= MaxBuffer
       /\ IF handshakeComplete
          THEN have' = have + n /\ handling' = TRUE /\ UNCHANGED <<next, state>>
          ELSE OnHandshakeData(have + n)

-----------------------------------------------------------------------------
\* The frame at the head of the buffer is whole.

Drop == parts' = <<>> /\ fragmentBytes' = 0
Quiet == Say(Nothing) /\ UNCHANGED <<parts, fragmentBytes>>

\* Beyond the limit there is no telling by how much, and no way back.
Over == MaxLine + 1
Gathered == IF fragmentBytes + next.len > MaxLine THEN Over ELSE fragmentBytes + next.len

OnTextPayload(bytes) ==
  IF next.ok THEN Say([is |-> "message", bytes |-> bytes]) /\ UNCHANGED state
  ELSE ProtocolFailure /\ Say(Nothing)

\* sendFrame throws when the client is closed or stdin not writable any more.
SendPong ==
  IF state = "open" /\ ~stdinErrored
  THEN out' = [is |-> "pong", bytes |-> next.len] /\ stdinErrored' \in BOOLEAN
  ELSE out' = Crash /\ UNCHANGED stdinErrored

OnControl ==
  /\ UNCHANGED <<parts, fragmentBytes>>
  /\ IF ~next.fin \/ next.len > Short \/ next.op = "reserved"
     THEN ProtocolFailure /\ Say(Nothing) /\ UNCHANGED stdinErrored
     ELSE /\ IF next.op = "ping" THEN SendPong ELSE Say(Nothing) /\ UNCHANGED stdinErrored
          /\ IF next.op = "close" THEN CloseFor("server_closed") ELSE UNCHANGED state

OnText ==
  IF parts # <<>> THEN ProtocolFailure /\ Quiet
  ELSE IF next.fin THEN OnTextPayload(next.len) /\ UNCHANGED <<parts, fragmentBytes>>
  ELSE parts' = <<next.len>> /\ fragmentBytes' = next.len /\ Say(Nothing) /\ UNCHANGED state

\* Faulty: only the last part of the message is handed on.
OnContinuationLastPart ==
  IF parts = <<>> THEN ProtocolFailure /\ Quiet
  ELSE IF Gathered = Over THEN ProtocolFailure /\ Say(Nothing) /\ fragmentBytes' = Over /\ UNCHANGED parts
  ELSE IF next.fin THEN Drop /\ OnTextPayload(next.len)
  ELSE /\ parts' = Append(parts, next.len) /\ fragmentBytes' = Gathered
       /\ Say(Nothing) /\ UNCHANGED state

OnContinuation ==
  IF parts = <<>> THEN ProtocolFailure /\ Quiet
  ELSE IF Gathered = Over THEN ProtocolFailure /\ Say(Nothing) /\ fragmentBytes' = Over /\ UNCHANGED parts
  ELSE IF next.fin THEN Drop /\ OnTextPayload(Gathered)
  ELSE /\ parts' = Append(parts, next.len) /\ fragmentBytes' = Gathered
       /\ Say(Nothing) /\ UNCHANGED state

\* Frames that are no control frames.
OnDataFrame ==
  /\ UNCHANGED stdinErrored
  /\ CASE next.op = "text" -> OnText
       [] next.op = "cont" -> OnContinuation
       [] OTHER            -> ProtocolFailure /\ Quiet

OnFrame == IF next.op \in Control THEN OnControl ELSE OnDataFrame

HeaderLength == 2 + next.ext

Await == handling' = FALSE /\ UNCHANGED <<have, messagesVars, fragmentBytes>>
Refuse == handling' = FALSE /\ ProtocolFailure /\ UNCHANGED <<have, next, parts, out, stdinErrored, fragmentBytes>>

\* After a frame that closed the client the loop ends.
TakeFrame(bytes) ==
  /\ have' = have - bytes
  /\ OnFrame
  /\ handling' = InUse'
  /\ Reach

\* Faulty: only a frame that has arrived is measured.
ScanFrameMeasuresLate ==
  IF have < 2 THEN Await
  ELSE IF next.op = "bad" THEN Refuse
  ELSE IF have < HeaderLength + next.len THEN Await
  ELSE IF next.len > MaxLine THEN Refuse
  ELSE TakeFrame(HeaderLength + next.len)

\* Faulty: the header is not counted.
ScanFrameWithoutHeader ==
  IF have < 2 THEN Await
  ELSE IF next.op = "bad" THEN Refuse
  ELSE IF have < HeaderLength THEN Await
  ELSE IF next.len > MaxLine THEN Refuse
  ELSE IF have < next.len THEN Await
  ELSE TakeFrame(HeaderLength + next.len)

\* One turn of the loop in onFrameData.
ScanFrame ==
  IF have < 2 THEN Await
  ELSE IF next.op = "bad" THEN Refuse
  ELSE IF have < HeaderLength THEN Await
  ELSE IF next.len > MaxLine THEN Refuse
  ELSE IF have < HeaderLength + next.len THEN Await
  ELSE TakeFrame(HeaderLength + next.len)

OnFrameData == handling /\ ScanFrame

\* A timer, a failed pong, the end of the proxy or of the command closes the client.
Closes ==
  /\ ~handling /\ InUse
  /\ CloseFor("given_up")
  /\ UNCHANGED <<next, parts, out, stdinErrored, have, fragmentBytes, handling>>

Next == OnStdout \/ OnFrameData \/ Closes

Spec == Init /\ [][Next]_vars

-----------------------------------------------------------------------------
TypeOK ==
  /\ next \in Answer \cup Frame /\ state \in End \cup {"open"}
  /\ parts \in Seq(0 .. MaxLine) /\ out \in Output
  /\ have \in 0 .. MaxBuffer
  /\ fragmentBytes = Total(parts) \/ (fragmentBytes = Over /\ state # "open")
  /\ {handling, stdinErrored} \subseteq BOOLEAN
  /\ handling => handshakeComplete /\ out # Crash

(***************************************************************************)
(* However the stream is cut, the frames have the effect they have one by  *)
(* one: each message is whole, each ping is answered, and the connection   *)
(* ends at the first frame that breaks a rule, and not before.             *)
(***************************************************************************)
ImplementsMessages == MessagesSpec

(***************************************************************************)
(* Between two chunks no whole frame, and no whole answer to the upgrade,  *)
(* is left waiting in the buffer of an open connection: the server may be  *)
(* waiting in turn and send nothing more.                                  *)
(***************************************************************************)
NothingStuck ==
  InUse /\ ~handling =>
    have < IF handshakeComplete THEN HeaderLength + next.len ELSE next.len

(***************************************************************************)
(* Between two chunks an open connection holds no more than an incomplete  *)
(* frame of the longest kind and an incomplete message.                    *)
(***************************************************************************)
Bounded ==
  InUse /\ ~handling =>
    /\ have < IF handshakeComplete THEN 10 + MaxLine ELSE MaxHandshake + 1
    /\ fragmentBytes <= MaxLine

=============================================================================
