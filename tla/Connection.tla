----------------------------- MODULE Connection -----------------------------
(***************************************************************************)
(* The app-server connection as a command that awaits one thing at a time  *)
(* knows it: what SendCommand relies on and what RpcClient provides.  The  *)
(* connection comes up once and goes down once; what is awaited is settled *)
(* by the server only while it is up, and fails when it goes down.         *)
(***************************************************************************)
VARIABLES conn,     \* the connection
          awaited   \* what the command awaits of it: the upgrade, or a request

connectionVars == <<conn, awaited>>

Settled == {"answered", "failed"}

ConnectionInit ==
  \/ conn = "none" /\ awaited = "nothing"
  \/ conn = "connecting" /\ awaited = "pending"

Connect ==
  /\ conn = "none" /\ conn' = "connecting"
  /\ awaited' = "pending"

ComeUp ==
  /\ conn = "connecting" /\ conn' = "up"
  /\ awaited = "pending" /\ awaited' = "answered"

\* A request can be written only while the connection is up.
Ask ==
  /\ awaited \in Settled
  /\ \/ conn = "up" /\ awaited' = "pending"
     \/ awaited' = "failed"
  /\ UNCHANGED conn

Answer ==
  /\ conn = "up" /\ UNCHANGED conn
  /\ awaited = "pending" /\ awaited' = "answered"

GoDown ==
  /\ conn \in {"connecting", "up"} /\ conn' = "down"
  /\ awaited' = IF awaited = "pending" THEN "failed" ELSE awaited

\* The command lets go of the connection, which is closed if it is not down.
Done ==
  /\ awaited # "pending" /\ awaited' = "nothing"
  /\ conn' = IF conn \in {"connecting", "up"} THEN "down" ELSE conn

ConnectionNext == Connect \/ ComeUp \/ Ask \/ Answer \/ GoDown \/ Done

ConnectionSpec == ConnectionInit /\ [][ConnectionNext]_connectionVars

=============================================================================
