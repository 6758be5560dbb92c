------------------------------ MODULE Messages ------------------------------
(***************************************************************************)
(* What the app-server connection makes of the frames the server sends:    *)
(* one frame after the other, whatever the chunks they come in.  A message *)
(* is the text of one frame or of a text frame and its continuations; the  *)
(* first frame that breaks a rule or a limit ends the connection.          *)
(***************************************************************************)
EXTENDS Totals

CONSTANTS Short,     \* the longest payload with a short length, and of a control frame: 125
          Wide,      \* the longest payload with a 16 bit length: 65535
          MaxLine,   \* MAX_LINE_BYTES
          MaxHandshake   \* MAX_HANDSHAKE_BYTES

ASSUME LimitAssumption ==
  {Short, Wide, MaxLine, MaxHandshake} \subseteq Nat \ {0} /\ Short < Wide /\ Wide < MaxLine

VARIABLES next,     \* what comes next in the stream: the answer to the upgrade, or a frame
          parts,    \* lengths of the fragments of an unfinished message
          out,      \* what the last frame led to
          state,
          stdinErrored   \* a pong could not be written

messagesVars == <<next, parts, out, state, stdinErrored>>

Control == {"close", "ping", "pong", "reserved"}
Data    == {"text", "cont", "binary"}
End     == {"given_up", "server_closed", "protocol_error"}

\* ext: bytes of the extended length; ok: the message this frame ends is JSON
\* in UTF-8 that onMessage has no objection to; a "bad" frame is masked or has reserved bits.
Frame ==
  {f \in [op : Control \cup Data \cup {"bad"}, fin : BOOLEAN, ok : BOOLEAN,
          ext : {0, 2, 8}, len : 0 .. MaxLine + 1] :
     /\ f.ext = 0 => f.len <= Short
     /\ f.ext = 2 => f.len <= Wide
     /\ f.ok \/ (f.fin /\ f.op \in {"text", "cont"})}

\* The answer may be too long, or not accept the upgrade (~ok).
Answer == [op : {"answer"}, fin : {TRUE}, ok : BOOLEAN, ext : {0}, len : 1 .. MaxHandshake + 1]

Output == [is : {"nothing", "message", "pong", "crash"}, bytes : Nat]
Nothing == [is |-> "nothing", bytes |-> 0]
Crash   == [is |-> "crash", bytes |-> 0]

Legal(f) ==
  \/ f.op \in {"close", "ping", "pong"} /\ f.fin /\ f.len <= Short
  \/ f.op = "text" /\ parts = <<>> /\ f.len <= MaxLine /\ f.ok
  \/ f.op = "cont" /\ parts # <<>> /\ Total(parts) + f.len <= MaxLine /\ f.ok

-----------------------------------------------------------------------------
MessagesInit ==
  /\ next \in Answer /\ parts = <<>> /\ out = Nothing /\ state = "open"
  /\ stdinErrored = FALSE

Upgrade ==
  /\ next.op = "answer" /\ next.ok
  /\ next' \in Frame
  /\ UNCHANGED <<parts, out, state, stdinErrored>>

Fragment ==
  /\ next.op \in Data /\ ~next.fin
  /\ parts' = Append(parts, next.len) /\ out' = Nothing
  /\ UNCHANGED <<state, stdinErrored>>

Message ==
  /\ next.op \in Data /\ next.fin
  /\ parts' = <<>> /\ out' = [is |-> "message", bytes |-> Total(parts) + next.len]
  /\ UNCHANGED <<state, stdinErrored>>

\* A ping behind a pong that could not be written crashes the process.
Ping ==
  /\ next.op = "ping"
  /\ IF stdinErrored
     THEN out' = Crash /\ UNCHANGED stdinErrored
     ELSE out' = [is |-> "pong", bytes |-> next.len] /\ stdinErrored' \in BOOLEAN
  /\ UNCHANGED <<parts, state>>

Pong  == next.op = "pong" /\ out' = Nothing /\ UNCHANGED <<parts, state, stdinErrored>>
Close == /\ next.op = "close" /\ out' = Nothing /\ state' = "server_closed"
         /\ UNCHANGED <<parts, stdinErrored>>

Receive ==
  /\ state = "open" /\ Legal(next) /\ next' \in Frame
  /\ Fragment \/ Message \/ Ping \/ Pong \/ Close

\* The answer to the upgrade is refused, or a frame breaks a rule.
Break ==
  /\ state = "open" /\ ~Legal(next) /\ state' = "protocol_error"
  /\ out' \in {out, Nothing} /\ UNCHANGED stdinErrored

GiveUp ==
  /\ state = "open" /\ state' = "given_up"
  /\ UNCHANGED <<next, parts, out, stdinErrored>>

\* An ended connection says no more, but a late ping can crash the process.
Ignore ==
  /\ state # "open" /\ UNCHANGED <<state, stdinErrored>>
  /\ out' = out \/ (next.op = "ping" /\ out' = Crash)

MessagesNext == out # Crash /\ (Upgrade \/ Receive \/ Break \/ GiveUp \/ Ignore)

MessagesSpec == MessagesInit /\ [][MessagesNext]_messagesVars

=============================================================================
