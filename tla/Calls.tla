------------------------------- MODULE Calls --------------------------------
(***************************************************************************)
(* What AppServerClient promises to its callers: a call is settled once,   *)
(* with what the server said to that very call, or because the connection  *)
(* ended; and the connection ends for all open calls in one moment, after  *)
(* which no call is answered.                                              *)
(***************************************************************************)
EXTENDS Naturals

CONSTANT MaxCalls   \* bound: requests one command makes

VARIABLES outcome,  \* call -> how its promise stands
          said,     \* call -> what the server has answered to it
          up        \* the connection can still be used

callsVars == <<outcome, said, up>>

Call    == 1 .. MaxCalls
Verdict == {"result", "error"}
Outcome == {"unissued", "open", "failed"} \cup Verdict

CallsInit ==
  /\ outcome = [i \in Call |-> "unissued"]
  /\ said = [i \in Call |-> "nothing"]
  /\ up = TRUE

\* Calls are made together: those in written are open, the others fail at once.
MakeCalls(ids, written) ==
  /\ \A i \in ids : outcome[i] = "unissued"
  /\ written # {} => up
  /\ outcome' = [i \in Call |-> IF i \in written THEN "open"
                                ELSE IF i \in ids THEN "failed"
                                ELSE outcome[i]]
  /\ UNCHANGED <<said, up>>

ServerSays(i, v) ==
  /\ outcome[i] # "unissued" /\ said[i] = "nothing"
  /\ said' = [said EXCEPT ![i] = v]
  /\ UNCHANGED <<outcome, up>>

Settle(i) ==
  /\ up /\ outcome[i] = "open" /\ said[i] \in Verdict
  /\ outcome' = [outcome EXCEPT ![i] = said[i]]
  /\ UNCHANGED <<said, up>>

Break ==
  /\ up /\ up' = FALSE
  /\ outcome' = [i \in Call |-> IF outcome[i] = "open" THEN "failed" ELSE outcome[i]]
  /\ UNCHANGED said

CallsNext ==
  \/ \E ids \in SUBSET Call : \E written \in SUBSET ids : MakeCalls(ids, written)
  \/ \E i \in Call, v \in Verdict : ServerSays(i, v)
  \/ \E i \in Call : Settle(i)
  \/ Break

CallsSpec == CallsInit /\ [][CallsNext]_callsVars

=============================================================================
