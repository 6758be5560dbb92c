------------------------------ MODULE Delivery ------------------------------
(***************************************************************************)
(* What one `sessionctl.mjs send` promises about its message, seen from    *)
(* outside.  The message lands at most once; a status that claims an       *)
(* outcome is right about it, now and forever; and only a message without  *)
(* a status, or with "outcome_unknown", may still land later, then on the  *)
(* route the report names.                                                 *)
(***************************************************************************)
EXTENDS Outcomes

VARIABLE report     \* what the command has printed

deliveryVars == <<placed, report>>

DeliveryInit == placed = <<>> /\ report = Unreported

Land(where) ==
  /\ placed = <<>>
  /\ Warranted(report, <<where>>)
  /\ placed' = <<where>>
  /\ UNCHANGED report

Tell(r) ==
  /\ report = Unreported
  /\ Warranted(r, placed)
  /\ report' = r
  /\ UNCHANGED placed

DeliveryNext ==
  \/ \E where \in Place : Land(where)
  \/ \E r \in Report \ {Unreported} : Tell(r)

DeliverySpec == DeliveryInit /\ [][DeliveryNext]_deliveryVars

\* What the command printed is true of where the message is, at all times.
Honest == Warranted(report, placed)

=============================================================================
