----------------------------- MODULE AppServer ------------------------------
(***************************************************************************)
(* The app-server and its proxy, as the code under src/ relies on them: the*)
(* target thread and its turns, which change on their own at any time, the *)
(* one request that `send` may have on the wire, and the answer on its way *)
(* back.  Any read may be answered wrongly or not at all, and any answer   *)
(* to turn/steer may be lost or mangled.  The one thing the helper trusts  *)
(* is a JSON-RPC error that says the request itself was refused: such a    *)
(* turn/steer was not accepted, and neither was one never answered by its  *)
(* own turn.                                                               *)
(***************************************************************************)
EXTENDS Outcomes

VARIABLES thread,   \* runtime status of the target thread
          turn,     \* its latest turn, running while the thread is active
          wire,     \* the request the server has not served yet
          answer    \* the answer the helper has not read yet

serverVars == <<thread, turn, wire, answer>>

ThreadStatus == {"notLoaded", "idle", "active", "systemError"}
TurnKind     == {"regular", "review", "compact"}

InvalidRequest == -32600
MethodNotFound == -32601
InvalidParams  == -32602
InternalError  == -32603

Refusals == {InvalidRequest, MethodNotFound, InvalidParams}
RpcCode  == Refusals \cup {InternalError}
Text     == {"fixed", "other"}

\* Requests; only turn/steer says which turn it is for.
Method  == {"initialize", "readSender", "resolve", "list", "readTarget", "turns", "steer"}
Request == [method : Method, turn : TurnId \cup {NoTurn}]
Nothing == [method |-> "none", turn |-> NoTurn]
Plain(m) == [method |-> m, turn |-> NoTurn]
Steer(t) == [method |-> "steer", turn |-> t]

(***************************************************************************)
(* Answers: "ok" to a request whose content does not matter here, a page   *)
(* of thread/list with its number of exact-name matches, a thread's        *)
(* status, the id of the running turn or NoTurn, the turn a steer went to; *)
(* an error with its code and its text, which is one of the fixed          *)
(* "steering unavailable" texts or another; or a malformed result.         *)
(***************************************************************************)
Ok            == [kind |-> "ok"]
Page(n, more) == [kind |-> "page", hits |-> n, more |-> more]
Status(s)     == [kind |-> "thread", status |-> s]
Running(t)    == [kind |-> "turns", turn |-> t]
Steered(t)    == [kind |-> "steered", turn |-> t]
Error(c, text) == [kind |-> "error", code |-> c, text |-> text]
Malformed     == [kind |-> "malformed"]
NoAnswer      == [kind |-> "none"]

Hits == 0 .. 2      \* bound: exact-name matches on one page

Answer ==
  {Ok, Malformed} \cup {Page(n, more) : n \in Hits, more \in BOOLEAN}
    \cup {Status(s) : s \in ThreadStatus}
    \cup {Running(t) : t \in TurnId \cup {NoTurn}}
    \cup {Steered(t) : t \in TurnId \cup {NoTurn}}
    \cup {Error(c, text) : c \in RpcCode, text \in Text}

ServerTypeOK ==
  /\ thread \in ThreadStatus
  /\ turn \in [id : 0 .. MaxTurn, kind : TurnKind]
  /\ wire \in Request \cup {Nothing}
  /\ answer \in Answer \cup {NoAnswer}

ServerInit ==
  /\ thread \in ThreadStatus \ {"active"}
  /\ turn = [id |-> NoTurn, kind |-> "regular"]
  /\ wire = Nothing
  /\ answer = NoAnswer

-----------------------------------------------------------------------------
\* The target thread lives its own life.

TurnStarts ==
  /\ thread # "active" /\ turn.id < MaxTurn
  /\ thread' = "active"
  /\ \E k \in TurnKind : turn' = [id |-> turn.id + 1, kind |-> k]
  /\ UNCHANGED <<wire, answer, placed>>

TurnStopsOrThreadMoves ==
  /\ thread' \in ThreadStatus \ {"active", thread}
  /\ UNCHANGED <<turn, wire, answer, placed>>

-----------------------------------------------------------------------------
\* Serving the request on the wire.

RunningTurn == IF thread = "active" THEN turn.id ELSE NoTurn

RightAnswers(m) ==
  CASE m \in {"initialize", "readSender", "resolve"} -> {Ok}
    [] m = "list"       -> {Page(n, more) : n \in Hits, more \in BOOLEAN}
    [] m = "readTarget" -> {Status(thread)}
    [] m = "turns"      -> {Running(RunningTurn)}

\* A read changes nothing; a wrong answer is refused alike for every reason.
ServeRead ==
  /\ wire.method \notin {"none", "steer"}
  /\ answer' \in RightAnswers(wire.method) \cup {Malformed}
  /\ wire' = Nothing
  /\ UNCHANGED <<thread, turn, placed>>

SteerFits == thread = "active" /\ turn.id = wire.turn /\ turn.kind = "regular"

\* An answer after which the helper cannot know, and the server may or may
\* not have taken the message: no answer, an internal error, another turn.
UnclearAnswers ==
  {NoAnswer, Malformed} \cup {Error(InternalError, text) : text \in Text}
    \cup {Steered(t) : t \in (TurnId \cup {NoTurn}) \ {wire.turn}}

AcceptSteer ==
  /\ wire.method = "steer" /\ SteerFits
  /\ placed' = Append(placed, InTurn(wire.turn))
  /\ answer' \in {Steered(wire.turn)} \cup UnclearAnswers
  /\ wire' = Nothing
  /\ UNCHANGED <<thread, turn>>

\* The fixed texts say that there is no turn, or no regular one, to steer.
DeclineSteer ==
  /\ wire.method = "steer"
  /\ answer' \in UnclearAnswers
       \cup {Error(c, "other") : c \in Refusals}
       \cup (IF thread # "active" \/ turn.kind # "regular"
             THEN {Error(InvalidParams, "fixed")} ELSE {})
  /\ wire' = Nothing
  /\ UNCHANGED <<thread, turn, placed>>

Server ==
  \/ TurnStarts
  \/ TurnStopsOrThreadMoves
  \/ ServeRead
  \/ AcceptSteer
  \/ DeclineSteer

=============================================================================
