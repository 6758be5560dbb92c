---------------------------- MODULE QueueLemmas -----------------------------
(***************************************************************************)
(* Facts about the operators of ChildProcess and the steps of QueueRunner, *)
(* for every module that runs it: each step keeps the types and            *)
(* QueueTruth.                                                             *)
(***************************************************************************)
EXTENDS QueueRunner, TLAPS

\* The operators of ChildProcess turn children into children.
LEMMA ChildOperators ==
  ASSUME NEW c \in Child
  PROVE  /\ NotStarted \in Child
         /\ \A P \in SUBSET Pipe : Spawned(P) \in Child
         /\ \A e \in Ends : Ended(c, e) \in Child
         /\ \A p \in Pipe : Drained(c, p) \in Child
         /\ Noticed(c) \in Child
         /\ Errored(c) \in Child
         /\ TerminateChild(c) \in Child
         /\ GraceExpired(c) \in Child
         /\ ClosedBy(c) \in Child
  BY DEF Child, Ends, Pipe, NotStarted, Spawned, Ended, Drained, Noticed,
         Errored, TerminateChild, GraceExpired, ClosedBy, Released

\* What they leave alone.
LEMMA ChildFields ==
  ASSUME NEW c \in Child
  PROVE  /\ \A d \in {Noticed(c), Errored(c), TerminateChild(c), GraceExpired(c), ClosedBy(c)} :
              d.os = c.os
         /\ \A d \in {Noticed(c), TerminateChild(c), GraceExpired(c), ClosedBy(c)} :
              d.end = c.end
         /\ \A d \in {Noticed(c), Errored(c), ClosedBy(c)} : d.signals = c.signals
         /\ \A d \in {TerminateChild(c), GraceExpired(c), ClosedBy(c)} :
              d.exitSeen = c.exitSeen
         /\ \A d \in {Noticed(c), Errored(c)} : d.grace = c.grace
         /\ \A d \in {GraceExpired(c), TerminateChild(c)} : c.signals \subseteq d.signals
         /\ \A d \in {GraceExpired(c), ClosedBy(c)} : d.grace => c.grace
         /\ c.os = "absent" => /\ TerminateChild(c).signals = c.signals
                               /\ TerminateChild(c).grace = c.grace
         /\ Errored(c).end = "codeN"
         /\ Noticed(c).exitSeen = TRUE /\ Errored(c).exitSeen = TRUE
<1>1. /\ Noticed(c).os = c.os /\ Noticed(c).end = c.end
      /\ Noticed(c).signals = c.signals /\ Noticed(c).grace = c.grace
      /\ Noticed(c).exitSeen = TRUE
  BY DEF Child, Noticed
<1>2. /\ Errored(c).os = c.os /\ Errored(c).end = "codeN"
      /\ Errored(c).signals = c.signals /\ Errored(c).grace = c.grace
      /\ Errored(c).exitSeen = TRUE
  BY DEF Child, Errored
<1>3. /\ TerminateChild(c).os = c.os /\ TerminateChild(c).end = c.end
      /\ TerminateChild(c).exitSeen = c.exitSeen
      /\ c.signals \subseteq TerminateChild(c).signals
      /\ c.os = "absent" => /\ TerminateChild(c).signals = c.signals
                            /\ TerminateChild(c).grace = c.grace
  BY DEF Child, TerminateChild, Released
<1>4. /\ GraceExpired(c).os = c.os /\ GraceExpired(c).end = c.end
      /\ GraceExpired(c).exitSeen = c.exitSeen
      /\ c.signals \subseteq GraceExpired(c).signals
      /\ GraceExpired(c).grace = FALSE
  BY DEF Child, GraceExpired, Released
<1>5. /\ ClosedBy(c).os = c.os /\ ClosedBy(c).end = c.end
      /\ ClosedBy(c).exitSeen = c.exitSeen /\ ClosedBy(c).signals = c.signals
      /\ ClosedBy(c).grace => c.grace
  BY DEF Child, ClosedBy, Released
<1> QED BY <1>1, <1>2, <1>3, <1>4, <1>5

-----------------------------------------------------------------------------

QueueOK == PlacedTypeOK /\ QueueTypeOK /\ QueueTruth

\* A child that has just been spawned.
LEMMA FreshChild ==
  ASSUME NEW c, NEW P, c = NotStarted \/ c = Spawned(P)
  PROVE  /\ c.os \in {"absent", "alive"} /\ c.end = "none" /\ c.signals = {}
         /\ c.grace = FALSE /\ c.exitSeen = FALSE
<1>1. CASE c = NotStarted
  BY <1>1 DEF NotStarted
<1>2. CASE c = Spawned(P)
  BY <1>2 DEF NotStarted, Spawned
<1> QED BY <1>1, <1>2

\* Calling runQueue for a message that is nowhere.
LEMMA RunQueueKeeps ==
  ASSUME QueueOK, placed = <<>>, RunQueue, UNCHANGED placed
  PROVE  QueueOK'
<1>1. QueueTypeOK'
  BY ChildOperators DEF QueueOK, QueueTypeOK, RunQueue, Settled, Pipe
<1>2. queueChild = NotStarted /\ queueTimer = FALSE
  BY DEF QueueOK, QueueTruth, QueueTypeOK, RunQueue
<1>3. CASE /\ queueChild' \in {NotStarted, Spawned({"stderr"})}
           /\ queueTimer' = TRUE
           /\ queueResult' = "pending"
  <2>1. /\ queueChild'.os \in {"absent", "alive"} /\ queueChild'.end = "none"
        /\ queueChild'.signals = {}
        /\ queueChild'.grace = FALSE /\ queueChild'.exitSeen = FALSE
    BY <1>3, FreshChild
  <2> QED BY <1>3, <2>1, <1>1 DEF QueueOK, QueueTruth, Interrupted, CanError, PlacedTypeOK
<1>4. CASE queueResult' = "threw" /\ UNCHANGED <<queueChild, queueTimer>>
  <2> QED BY <1>1, <1>2, <1>4 DEF QueueOK, QueueTruth, NotStarted, Interrupted,
                                  CanError, PlacedTypeOK
<1> QED BY <1>3, <1>4 DEF RunQueue

\* The events that the helper handles.
LEMMA QueueEventKeeps ==
  ASSUME QueueOK, UNCHANGED placed,
         OnError \/ OnClose \/ OnTimeout \/ GraceExpires \/ QueueExitIsSeen
  PROVE  /\ QueueOK'
         /\ queueResult \notin {"uncalled", "threw"}
         /\ queueResult' # "uncalled"
         /\ queueResult \in Settled => UNCHANGED queueResult
<1> USE DEF QueueOK
<1>1. CASE OnError
  <2>1. QueueTypeOK'
    BY <1>1, ChildOperators DEF QueueTypeOK, OnError, Finish, Settled
  <2>2. /\ queueChild'.os = "absent" /\ queueChild'.end = "codeN"
        /\ queueChild'.signals = {} /\ ~queueChild'.grace
        /\ queueChild'.exitSeen = TRUE
    <3>1. /\ queueChild.os = "absent" /\ queueChild' = Errored(queueChild)
          /\ queueChild.signals = {} /\ ~queueChild.grace
      BY <1>1 DEF OnError, CanError, QueueTruth
    <3> QED BY <3>1, ChildFields DEF QueueTypeOK
  <2>3. queueResult' = "outcome_unknown" /\ queueTimer' = FALSE
    <3>1. queueResult = "pending"
      BY <1>1 DEF QueueTruth, OnError, CanError
    <3> QED BY <1>1, <3>1 DEF OnError, Finish
  <2>4. QueueTruth'
    BY <1>1, <2>2, <2>3 DEF QueueTruth, Interrupted, OnError
  <2> QED BY <1>1, <2>1, <2>3, <2>4 DEF PlacedTypeOK, OnError, QueueTruth, CanError, Settled
<1>2. CASE OnClose
  <2>1. queueChild.end \in Ends /\ (queueResult = "pending" => queueChild.os = "dead")
    <3>1. queueChild.os # "alive" /\ queueChild.exitSeen
      BY <1>2 DEF QueueTruth, OnClose, CanClose
    <3>2. queueChild.os \in {"absent", "dead"} /\ queueChild.end \in Ends \cup {"none"}
      BY <3>1 DEF QueueTypeOK, Child
    <3>3. CASE queueChild.os = "dead"
      BY <3>2, <3>3 DEF QueueTruth, Ends
    <3>4. CASE queueChild.os = "absent"
      <4>1. ~CanError(queueChild) /\ queueResult # "pending"
        BY <3>1, <3>4 DEF QueueTruth, CanError
      <4> QED BY <3>1, <3>4, <4>1 DEF QueueTruth, Ends
    <3> QED BY <3>2, <3>3, <3>4
  <2>2. QueueTypeOK'
    BY <1>2, <2>1, ChildOperators DEF QueueTypeOK, OnClose, Finish, Settled, Ends
  <2>3. /\ queueChild'.os = queueChild.os /\ queueChild'.end = queueChild.end
        /\ queueChild'.signals = queueChild.signals
        /\ queueChild'.exitSeen = queueChild.exitSeen
        /\ queueChild'.grace => queueChild.grace
    BY <1>2, ChildFields DEF QueueTypeOK, OnClose
  <2>4. queueResult \notin {"uncalled", "threw"}
    BY <1>2 DEF QueueTruth, OnClose, CanClose, NotStarted
  <2>5. ASSUME queueResult = "pending" PROVE QueueTruth'
    <3>1. /\ queueTimer' = FALSE
          /\ queueChild.end = "signal" => queueResult' = "outcome_unknown"
          /\ queueChild.end = "code0" => queueResult' = "queued"
          /\ queueChild.end = "codeN" => queueResult' = "rejected"
      BY <1>2, <2>5 DEF OnClose, Finish
    <3>2. queueChild.signals = {} /\ ~queueChild.grace
      BY <2>5 DEF QueueTruth
    <3> QED BY <2>1, <2>3, <2>5, <3>1, <3>2 DEF QueueTruth, Interrupted, Ends
  <2>6. ASSUME queueResult # "pending" PROVE QueueTruth'
    <3>1. queueResult' = queueResult /\ queueTimer' = queueTimer
      BY <1>2, <2>6 DEF OnClose, Finish
    <3> QED BY <2>3, <2>4, <3>1 DEF QueueTruth, Interrupted
  <2>7. queueResult' \in Settled \/ UNCHANGED queueResult
    BY <1>2, <2>1 DEF OnClose, Finish, Settled, Ends
  <2>8. queueResult \in Settled => UNCHANGED queueResult
    BY <1>2 DEF OnClose, Finish, Settled
  <2> QED BY <2>2, <2>4, <2>5, <2>6, <2>7, <2>8 DEF PlacedTypeOK, Settled
<1>3. CASE OnTimeout
  <2>1. QueueTypeOK'
    BY <1>3, ChildOperators DEF QueueTypeOK, OnTimeout, Settled
  <2>2. /\ queueChild'.os = queueChild.os /\ queueChild'.end = queueChild.end
        /\ queueChild'.exitSeen = queueChild.exitSeen
        /\ queueChild.os = "absent" => /\ queueChild'.signals = queueChild.signals
                                       /\ queueChild'.grace = queueChild.grace
        /\ Interrupted(queueChild) => Interrupted(queueChild')
    BY <1>3, ChildFields DEF QueueTypeOK, OnTimeout, Interrupted
  <2>3. queueResult' = "outcome_unknown" /\ queueTimer' = FALSE
    BY <1>3 DEF QueueTruth, OnTimeout
  <2>4. QueueTruth'
    <3>1. queueTimer /\ ~CanError(queueChild)
      BY <1>3 DEF OnTimeout
    <3> QED BY <2>2, <2>3, <3>1 DEF QueueTruth, CanError
  <2>5. queueResult = "pending"
    BY <1>3 DEF OnTimeout, QueueTruth
  <2> QED BY <2>1, <2>3, <2>4, <2>5 DEF PlacedTypeOK, Settled
<1>4. CASE GraceExpires
  <2>1. QueueTypeOK'
    BY <1>4, ChildOperators DEF QueueTypeOK, GraceExpires
  <2>2. /\ queueChild'.os = queueChild.os /\ queueChild'.end = queueChild.end
        /\ queueChild'.exitSeen = queueChild.exitSeen
        /\ Interrupted(queueChild) => Interrupted(queueChild')
    BY <1>4, ChildFields DEF QueueTypeOK, GraceExpires, Interrupted
  <2>3. queueResult' = "outcome_unknown" /\ queueResult = "outcome_unknown"
    BY <1>4 DEF QueueTruth, GraceExpires, CanExpire
  <2>4. queueChild.os # "absent"
    BY <1>4 DEF QueueTruth, GraceExpires, CanExpire
  <2>5. QueueTruth'
    BY <1>4, <2>2, <2>3, <2>4 DEF QueueTruth, GraceExpires
  <2> QED BY <2>1, <2>3, <2>5 DEF PlacedTypeOK
<1>5. CASE QueueExitIsSeen
  <2>1. QueueTypeOK'
    BY <1>5, ChildOperators DEF QueueTypeOK, QueueExitIsSeen
  <2>2. /\ queueChild'.os = queueChild.os /\ queueChild'.end = queueChild.end
        /\ queueChild'.signals = queueChild.signals
        /\ queueChild'.grace = queueChild.grace
        /\ queueChild.os = "dead"
    BY <1>5, ChildFields DEF QueueTypeOK, QueueExitIsSeen, CanNotice
  <2>3. QueueTruth'
    BY <1>5, <2>2 DEF QueueTruth, QueueExitIsSeen, Interrupted, NotStarted
  <2>4. queueResult \notin {"uncalled", "threw"} /\ UNCHANGED queueResult
    BY <1>5, <2>2 DEF QueueTruth, QueueExitIsSeen, NotStarted
  <2> QED BY <2>1, <2>3, <2>4 DEF PlacedTypeOK
<1> QED BY <1>1, <1>2, <1>3, <1>4, <1>5

\* `codex queue` accepts into an empty place, and only after it was called.
LEMMA QueueAccepts ==
  ASSUME QueueOK, CodexQueueAccepts
  PROVE  /\ queueResult \notin {"uncalled", "threw", "rejected", "queued"}
         /\ placed = <<>>
         /\ placed' = <<InQueue>>
         /\ QueueOK'
<1> USE DEF QueueOK
<1>1. queueResult \notin {"uncalled", "threw"}
  BY DEF CodexQueueAccepts, QueueTruth, NotStarted, Interrupted
<1>2. placed = <<>>
  <2>1. placed \in {<<>>, <<InQueue>>}
    BY <1>1 DEF QueueTruth
  <2>2. placed # <<InQueue>>
    BY DEF CodexQueueAccepts, InTheQueue
  <2> QED BY <2>1, <2>2
<1>3. placed' = <<InQueue>>
  BY <1>2 DEF CodexQueueAccepts
<1>4. queueResult \notin {"rejected", "queued"}
  BY <1>2 DEF CodexQueueAccepts, QueueTruth, InQueue
<1>5. PlacedTypeOK' /\ QueueTypeOK'
  BY <1>3 DEF PlacedTypeOK, Place, CodexQueueAccepts, QueueTypeOK, queueVars
<1>6. QueueTruth'
  BY <1>1, <1>2, <1>3, <1>4
     DEF QueueTruth, QueueTypeOK, CodexQueueAccepts, queueVars, Interrupted,
         Child, CanError
<1> QED BY <1>1, <1>2, <1>3, <1>4, <1>5, <1>6

\* `codex queue` ends, or closes its stderr.
LEMMA QueueEndsKeeps ==
  ASSUME QueueOK, CodexQueueEnds \/ CodexQueueDrains
  PROVE  QueueOK' /\ UNCHANGED <<placed, queueResult, queueTimer>>
<1> USE DEF QueueOK
<1>1. CASE CodexQueueEnds
  <2>1. PICK e \in Ends : /\ e = "code0" => InTheQueue \/ Interrupted(queueChild)
                          /\ e = "codeN" => ~InTheQueue \/ Interrupted(queueChild)
                          /\ queueChild' = Ended(queueChild, e)
    BY <1>1 DEF CodexQueueEnds
  <2>2. queueResult # "uncalled" /\ placed \in {<<>>, <<InQueue>>}
    BY <1>1 DEF CodexQueueEnds, CanEnd, QueueTruth, NotStarted
  <2>3. InTheQueue <=> placed = <<InQueue>>
    BY <2>2 DEF InTheQueue, InQueue
  <2>4. QueueTypeOK'
    BY <1>1, ChildOperators DEF CodexQueueEnds, QueueTypeOK
  <2>5. QueueTruth'
    BY <1>1, <2>1, <2>2, <2>3
       DEF CodexQueueEnds, QueueTruth, QueueTypeOK, CanEnd, Ended, Interrupted,
           Child, CanError, Ends, NotStarted
  <2> QED BY <1>1, <2>4, <2>5 DEF CodexQueueEnds, PlacedTypeOK
<1>2. CASE CodexQueueDrains
  <2>1. QueueTypeOK'
    BY <1>2, ChildOperators DEF CodexQueueDrains, QueueTypeOK
  <2>2. QueueTruth'
    BY <1>2 DEF CodexQueueDrains, QueueTruth, QueueTypeOK, CanDrain, Drained,
                Interrupted, Child, CanError, NotStarted, Pipe
  <2> QED BY <1>2, <2>1, <2>2 DEF CodexQueueDrains, PlacedTypeOK
<1> QED BY <1>1, <1>2

=============================================================================
