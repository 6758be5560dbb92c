------------------------------ MODULE Outcomes ------------------------------
(***************************************************************************)
(* The vocabulary every module shares: the places one message can land in, *)
(* the reports the command can print, and what a report claims about the   *)
(* places.  It also declares `placed`, the one piece of state that the     *)
(* app-server and `codex queue` both write.                                *)
(***************************************************************************)
EXTENDS Integers, Sequences

CONSTANT MaxTurn    \* bound: turns the target thread starts during one run

ASSUME MaxTurnAssumption == MaxTurn \in Nat

VARIABLE placed     \* sequence of the places the message has landed in

TurnId == 1 .. MaxTurn
NoTurn == 0

InTurn(t) == [via |-> "steer", turn |-> t]
InQueue   == [via |-> "queue", turn |-> NoTurn]
Place     == {InTurn(t) : t \in TurnId} \cup {InQueue}

PlacedTypeOK == placed \in Seq(Place)

(***************************************************************************)
(* The statuses of README.md's result table, and the errors that main()    *)
(* prints on stderr before anything was handed over.                       *)
(***************************************************************************)
Unreported          == [status |-> "none", via |-> "none", turn |-> NoTurn]
Accepted(t)         == [status |-> "accepted", via |-> "steer", turn |-> t]
Queued              == [status |-> "queued", via |-> "queue", turn |-> NoTurn]
Rejected(via)       == [status |-> "rejected", via |-> via, turn |-> NoTurn]
OutcomeUnknown(via) == [status |-> "outcome_unknown", via |-> via, turn |-> NoTurn]
Failed              == [status |-> "error", via |-> "none", turn |-> NoTurn]

Route  == {"steer", "queue"}
Report == {Unreported, Queued, Failed} \cup {Accepted(t) : t \in TurnId}
            \cup {Rejected(via) : via \in Route}
            \cup {OutcomeUnknown(via) : via \in Route}

\* What report r claims about the places p.
Warranted(r, p) ==
  CASE r.status = "accepted" -> p = <<InTurn(r.turn)>>
    [] r.status = "queued"   -> p = <<InQueue>>
    [] r.status \in {"rejected", "error"} -> p = <<>>
    [] r.status = "outcome_unknown" -> p = <<>> \/ (Len(p) = 1 /\ p[1].via = r.via)
    [] OTHER -> Len(p) <= 1

=============================================================================
