----------------------------- MODULE ChildProofs -----------------------------
(***************************************************************************)
(* Theorems about the children the helper spawns: terminateChild with any  *)
(* number of them (ChildTermination), and runQueue with the one it has     *)
(* (QueueDelivery).                                                        *)
(***************************************************************************)
EXTENDS ChildTermination, QueueDelivery, QueueLemmas

(***************************************************************************)
(* terminateChild.  Everything follows from Sound, which holds of every    *)
(* child by itself: an armed grace timer means that SIGTERM but not        *)
(* SIGKILL was sent, the handles are released when it is gone, and a child *)
(* whose end was seen is dead.                                             *)
(***************************************************************************)

\* c is in order; given says that terminateChild was called for it.
Sound(c, given) ==
  /\ c \in Child
  /\ c.grace = c.onClose
  /\ c.exitSeen => c.os # "alive"
  /\ ~given => c.ref /\ ~c.grace /\ c.signals = {}
  /\ c.grace => c.os # "absent" /\ "SIGTERM" \in c.signals
  /\ given /\ ~c.grace => c.open = {} /\ (c.ref => c.exitSeen)
  /\ ~c.ref /\ c.os = "alive" => "SIGKILL" \in c.signals
  /\ "SIGKILL" \in c.signals => "SIGTERM" \in c.signals /\ ~c.grace

AllSound ==
  /\ child \in [Owner -> Child] /\ called \subseteq Owner
  /\ \A o \in Owner : Sound(child[o], o \in called)

\* A child that was just spawned, or could not be, is in order.
LEMMA StartsSound == \A c \in Started : c \in Child /\ Sound(c, FALSE)
<1>1. NotStarted \in Child /\ Sound(NotStarted, FALSE)
  BY DEF Sound, NotStarted, Child
<1>2. ASSUME NEW P \in SUBSET Pipe
      PROVE  Spawned(P) \in Child /\ Sound(Spawned(P), FALSE)
  BY DEF Sound, NotStarted, Spawned, Child
<1>3. {"stderr"} \in SUBSET Pipe /\ Pipe \in SUBSET Pipe
  BY DEF Pipe
<1> QED BY <1>1, <1>2, <1>3 DEF Started

\* Calling terminateChild keeps a child in order.
LEMMA TerminateKeepsSound ==
  ASSUME NEW c, Sound(c, FALSE)
  PROVE  Sound(TerminateChild(c), TRUE)
  BY DEF Sound, TerminateChild, Released, Child, Pipe, Ends

\* So do the events that have nothing to do with it.
LEMMA EventsKeepSound ==
  ASSUME NEW c, NEW t \in BOOLEAN, Sound(c, t)
  PROVE  /\ \A e \in Ends : CanEnd(c) => Sound(Ended(c, e), t)
         /\ \A p \in Pipe : Sound(Drained(c, p), t)
         /\ CanNotice(c) => Sound(Noticed(c), t)
         /\ CanError(c) => Sound(Errored(c), t)
<1>1. \A e \in Ends : CanEnd(c) => Sound(Ended(c, e), t)
  BY DEF Sound, CanEnd, Ended, Child, Pipe, Ends
<1>2. \A p \in Pipe : Sound(Drained(c, p), t)
  BY DEF Sound, Drained, Child, Pipe, Ends
<1>3. CanNotice(c) => Sound(Noticed(c), t)
  BY DEF Sound, CanNotice, Noticed, Child, Pipe, Ends
<1>4. CanError(c) => Sound(Errored(c), t)
  BY DEF Sound, CanError, Errored, Child, Pipe, Ends
<1> QED BY <1>1, <1>2, <1>3, <1>4

\* And the two ends of the grace period.
LEMMA EndsKeepSound ==
  ASSUME NEW c, NEW t \in BOOLEAN, Sound(c, t)
  PROVE  /\ CanExpire(c) => Sound(GraceExpired(c), t)
         /\ CanClose(c) => Sound(ClosedBy(c), t)
<1>1. CanExpire(c) => Sound(GraceExpired(c), t)
  BY DEF Sound, CanExpire, GraceExpired, Released, Child, Pipe, Ends
<1>2. CanClose(c) => Sound(ClosedBy(c), t)
  BY DEF Sound, CanClose, ClosedBy, Released, Child, Pipe, Ends
<1> QED BY <1>1, <1>2

\* Children start in order.
LEMMA ChildInitSound == ChildInit => AllSound
<1> SUFFICES ASSUME ChildInit PROVE AllSound
  OBVIOUS
<1>1. child \in [Owner -> Child] /\ called \subseteq Owner
  BY StartsSound DEF ChildInit
<1>2. ASSUME NEW o \in Owner PROVE Sound(child[o], o \in called)
  <2>1. child[o] \in Started /\ (o \in called) = FALSE
    BY DEF ChildInit
  <2> QED BY <2>1, StartsSound
<1> QED BY <1>1, <1>2 DEF AllSound

\* A step gives one owner's child another record, in order again.
LEMMA StepOfOne ==
  ASSUME AllSound, NEW o \in Owner, NEW c, Becomes(o, c),
         called' \in {called, called \cup {o}}, Sound(c, o \in called')
  PROVE  AllSound'
<1>1. c \in Child
  BY DEF Sound
<1>2. child' \in [Owner -> Child] /\ called' \subseteq Owner
  BY <1>1 DEF AllSound, Becomes
<1>3. ASSUME NEW q \in Owner PROVE Sound(child'[q], q \in called')
  <2>1. CASE q = o
    BY <2>1 DEF AllSound, Becomes
  <2>2. CASE q # o
    <3>1. child'[q] = child[q] /\ (q \in called' <=> q \in called)
      BY <2>2 DEF AllSound, Becomes
    <3>2. (q \in called') = (q \in called)
      BY <3>1
    <3> QED BY <3>1, <3>2 DEF AllSound
  <2> QED BY <2>1, <2>2
<1> QED BY <1>2, <1>3 DEF AllSound

\* Every step keeps them so.
LEMMA ChildStepSound == AllSound /\ [ChildNext]_childVars => AllSound'
<1> SUFFICES ASSUME AllSound, [ChildNext]_childVars PROVE AllSound'
  OBVIOUS
<1>1. CASE UNCHANGED childVars
  BY <1>1 DEF AllSound, childVars
<1>2. ASSUME NEW o \in Owner,
             \/ Terminate(o) \/ Dies(o) \/ ReachesEOF(o) \/ ExitIsSeen(o)
             \/ SpawnFails(o) \/ GraceEnds(o) \/ Closes(o)
      PROVE  AllSound'
  <2> DEFINE c == child[o]
  <2>0. Sound(c, o \in called) /\ (o \in called) \in BOOLEAN
    BY DEF AllSound
  <2>1. CASE Terminate(o)
    <3>1. (o \in called) = FALSE /\ (o \in called') = TRUE
      BY <2>1 DEF Terminate
    <3>2. Sound(TerminateChild(c), o \in called')
      BY <2>0, <3>1, TerminateKeepsSound
    <3> QED BY <2>1, <3>2, StepOfOne DEF Terminate
  <2>2. CASE Dies(o)
    <3>1. PICK e \in Ends : CanEnd(c) /\ Becomes(o, Ended(c, e)) /\ UNCHANGED called
      BY <2>2 DEF Dies
    <3>2. Sound(Ended(c, e), o \in called')
      BY <2>0, <3>1, EventsKeepSound
    <3> QED BY <3>1, <3>2, StepOfOne
  <2>3. CASE ReachesEOF(o)
    <3>1. PICK p \in Pipe : Becomes(o, Drained(c, p)) /\ UNCHANGED called
      BY <2>3 DEF ReachesEOF
    <3>2. Sound(Drained(c, p), o \in called')
      BY <2>0, <3>1, EventsKeepSound
    <3> QED BY <3>1, <3>2, StepOfOne
  <2>4. CASE ExitIsSeen(o)
    BY <2>0, <2>4, EventsKeepSound, StepOfOne DEF ExitIsSeen
  <2>5. CASE SpawnFails(o)
    BY <2>0, <2>5, EventsKeepSound, StepOfOne DEF SpawnFails
  <2>6. CASE GraceEnds(o)
    BY <2>0, <2>6, EndsKeepSound, StepOfOne DEF GraceEnds
  <2>7. CASE Closes(o)
    BY <2>0, <2>7, EndsKeepSound, StepOfOne DEF Closes
  <2> QED BY <1>2, <2>1, <2>2, <2>3, <2>4, <2>5, <2>6, <2>7
<1> QED BY <1>1, <1>2 DEF ChildNext

\* The inductive invariant: every child is in order at all times.
THEOREM ChildrenSound == ChildSpec => []AllSound
<1> QED BY ChildInitSound, ChildStepSound, PTL DEF ChildSpec

\* The variables of ChildTermination are well typed.
THEOREM ChildTypeCorrect == ChildSpec => []ChildTypeOK
<1>1. AllSound => ChildTypeOK
  BY DEF AllSound, ChildTypeOK
<1> QED BY <1>1, ChildrenSound, PTL

\* terminateChild leaves nothing that keeps the helper alive.
THEOREM CleansUp == ChildSpec => []CleanedUp
<1>1. AllSound => CleanedUp
  <2> SUFFICES ASSUME AllSound, NEW o \in called, ~child[o].grace
               PROVE  ~Holds(child[o])
    BY DEF CleanedUp
  <2>1. Sound(child[o], TRUE)
    <3>1. o \in Owner /\ (o \in called) = TRUE
      BY DEF AllSound
    <3> QED BY <3>1 DEF AllSound
  <2> QED BY <2>1 DEF Sound, Holds
<1> QED BY <1>1, ChildrenSound, PTL

\* A running child is let go of only after SIGTERM, the grace period and SIGKILL.
THEOREM NoneSurvives == ChildSpec => []NoSurvivor
<1>1. AllSound => NoSurvivor
  BY DEF AllSound, NoSurvivor, Sound
<1> QED BY <1>1, ChildrenSound, PTL

\* No signal is sent to a child whose end Node has reported.
THEOREM EndedAreSpared == ChildSpec => SparesTheEnded
<1> DEFINE A == \A o \in Owner : child[o].exitSeen => child'[o].signals = child[o].signals
<1>1. AllSound /\ [ChildNext]_childVars => [A]_childVars
  <2> SUFFICES ASSUME AllSound, ChildNext, NEW q \in Owner, child[q].exitSeen
               PROVE  child'[q].signals = child[q].signals
    OBVIOUS
  <2>1. PICK o \in Owner :
          \/ Terminate(o) \/ Dies(o) \/ ReachesEOF(o) \/ ExitIsSeen(o)
          \/ SpawnFails(o) \/ GraceEnds(o) \/ Closes(o)
    BY DEF ChildNext
  <2>2. child[o] \in Child /\ child \in [Owner -> Child]
    BY DEF AllSound
  <2>3. CASE q # o
    BY <2>1, <2>2, <2>3 DEF Terminate, Dies, ReachesEOF, ExitIsSeen, SpawnFails,
                            GraceEnds, Closes, Becomes
  <2>4. CASE q = o
    <3> DEFINE c == child[o]
    <3>1. PICK d : Becomes(o, d) /\ d \in {TerminateChild(c), Noticed(c), Errored(c), GraceExpired(c), ClosedBy(c)}
                                        \cup {Ended(c, e) : e \in Ends} \cup {Drained(c, p) : p \in Pipe}
      BY <2>1 DEF Terminate, Dies, ReachesEOF, ExitIsSeen, SpawnFails, GraceEnds, Closes
    <3>2. child'[o] = d
      BY <2>2, <3>1 DEF Becomes
    <3>3. d.signals = c.signals
      <4>1. /\ Noticed(c).signals = c.signals /\ Errored(c).signals = c.signals
            /\ ClosedBy(c).signals = c.signals
        BY <2>2 DEF Noticed, Errored, ClosedBy, Released, Child
      <4>2. \A e \in Ends : Ended(c, e).signals = c.signals
        BY <2>2 DEF Ended, Child
      <4>3. \A p \in Pipe : Drained(c, p).signals = c.signals
        BY <2>2 DEF Drained, Child
      <4>4. TerminateChild(c).signals = c.signals /\ GraceExpired(c).signals = c.signals
        BY <2>2, <2>4 DEF TerminateChild, GraceExpired, Released, Child
      <4> QED BY <3>1, <4>1, <4>2, <4>3, <4>4
    <3> QED BY <2>4, <3>2, <3>3
  <2> QED BY <2>3, <2>4
<1> QED BY <1>1, ChildrenSound, PTL DEF ChildSpec, SparesTheEnded

-----------------------------------------------------------------------------
\* runQueue

\* "close" is the last event of a child, and terminateChild waits for it.
CloseIsLast ==
  /\ queueChild.closeSeen => /\ queueChild.exitSeen /\ queueChild.open = {}
                             /\ ~queueChild.grace
                             /\ queueResult # "pending"
  /\ queueChild.grace => queueChild.onClose

\* Before it is called nothing is in the queue; then QueueOK does the rest.
Inv ==
  /\ QueueOK
  /\ CloseIsLast
  /\ running \in BOOLEAN
  /\ queueResult = "uncalled" => placed = <<>>

LEMMA InitInv == Init => Inv
<1> SUFFICES ASSUME Init PROVE Inv
  OBVIOUS
<1>1. NotStarted \in Child
  BY DEF NotStarted, Child
<1>2. PlacedTypeOK
  BY DEF Init, PlacedTypeOK
<1>3. QueueTypeOK
  BY <1>1 DEF Init, QueueInit, QueueTypeOK
<1>4. QueueTruth
  BY DEF Init, QueueInit, QueueTruth, NotStarted, Interrupted
<1>5. CloseIsLast
  BY DEF Init, QueueInit, CloseIsLast, NotStarted
<1> QED BY <1>2, <1>3, <1>4, <1>5 DEF Init, Inv, QueueOK

\* What one step does: the helper leaves `placed` alone, `codex queue` the rest.
LEMMA NextKinds ==
  ASSUME [Next]_vars
  PROVE  \/ RunQueue /\ UNCHANGED <<placed, running>>
         \/ /\ OnError \/ OnClose \/ OnTimeout \/ GraceExpires \/ QueueExitIsSeen
            /\ UNCHANGED <<placed, running>>
         \/ CodexQueueAccepts /\ UNCHANGED running
         \/ (CodexQueueEnds \/ CodexQueueDrains) /\ UNCHANGED running
         \/ UNCHANGED <<placed, queueVars>> /\ running' \in {running, FALSE}
  BY DEF Next, Helper, Codex, Killed, vars, queueVars

\* What the operators of ChildProcess do to the last event of a child.
LEMMA ChildEnding ==
  ASSUME NEW c \in Child
  PROVE  /\ NotStarted.closeSeen = FALSE /\ NotStarted.grace = FALSE
         /\ \A P : Spawned(P).closeSeen = FALSE /\ Spawned(P).grace = FALSE
         /\ \A d \in {Noticed(c), Errored(c)} :
              /\ d.exitSeen = TRUE
              /\ d.closeSeen = c.closeSeen /\ d.open = c.open
              /\ d.grace = c.grace /\ d.onClose = c.onClose
         /\ LET d == TerminateChild(c) IN
              /\ d.closeSeen = c.closeSeen
              /\ d.grace => d.onClose \/ (c.grace /\ d.onClose = c.onClose)
         /\ LET d == GraceExpired(c) IN
              /\ d.closeSeen = c.closeSeen /\ d.grace = FALSE
         /\ LET d == ClosedBy(c) IN
              /\ d.exitSeen = c.exitSeen /\ (c.open = {} => d.open = {})
              /\ d.grace => c.grace /\ ~c.onClose
<1> USE DEF Child
<1>1. NotStarted.closeSeen = FALSE /\ NotStarted.grace = FALSE
  BY DEF NotStarted
<1>2. \A P : Spawned(P).closeSeen = FALSE /\ Spawned(P).grace = FALSE
  BY DEF Spawned, NotStarted
<1>3. \A d \in {Noticed(c), Errored(c)} :
        /\ d.exitSeen = TRUE
        /\ d.closeSeen = c.closeSeen /\ d.open = c.open
        /\ d.grace = c.grace /\ d.onClose = c.onClose
  BY DEF Noticed, Errored
<1>4. LET d == TerminateChild(c) IN
        /\ d.closeSeen = c.closeSeen
        /\ d.grace => d.onClose \/ (c.grace /\ d.onClose = c.onClose)
  BY DEF TerminateChild, Released
<1>5. LET d == GraceExpired(c) IN d.closeSeen = c.closeSeen /\ d.grace = FALSE
  BY DEF GraceExpired, Released
<1>6. LET d == ClosedBy(c) IN
        /\ d.exitSeen = c.exitSeen /\ (c.open = {} => d.open = {})
        /\ d.grace => c.grace /\ ~c.onClose
  BY DEF ClosedBy, Released
<1> QED BY <1>1, <1>2, <1>3, <1>4, <1>5, <1>6

LEMMA CloseStaysLast == Inv /\ [Next]_vars => CloseIsLast'
<1> SUFFICES ASSUME Inv, [Next]_vars PROVE CloseIsLast'
  OBVIOUS
<1>0. /\ queueChild \in Child /\ CloseIsLast /\ QueueTruth
      /\ queueChild.closeSeen \in BOOLEAN /\ queueChild.grace \in BOOLEAN
      /\ queueChild.onClose \in BOOLEAN /\ queueChild.exitSeen \in BOOLEAN
  BY DEF Inv, QueueOK, QueueTypeOK, Child
<1>1. CASE RunQueue
  <2>1. queueChild' \in {NotStarted, Spawned({"stderr"})} \/ queueChild' = queueChild
    BY <1>1 DEF RunQueue
  <2>2. queueChild = NotStarted
    BY <1>0, <1>1 DEF RunQueue, QueueTruth
  <2>3. queueChild'.closeSeen = FALSE /\ queueChild'.grace = FALSE
    <3>1. \A P : Spawned(P).closeSeen = FALSE /\ Spawned(P).grace = FALSE
      BY <1>0, ChildEnding
    <3>2. NotStarted.closeSeen = FALSE /\ NotStarted.grace = FALSE
      BY <1>0, ChildEnding
    <3> QED BY <2>1, <2>2, <3>1, <3>2
  <2> QED BY <2>3 DEF CloseIsLast
<1>2. CASE OnError
  <2>1. ~queueChild.exitSeen /\ queueChild' = Errored(queueChild)
    BY <1>2 DEF OnError, CanError
  <2>2. /\ queueChild'.closeSeen = queueChild.closeSeen
        /\ queueChild'.grace = queueChild.grace
        /\ queueChild'.onClose = queueChild.onClose
    BY <1>0, <2>1, ChildEnding
  <2> QED BY <1>0, <2>1, <2>2 DEF CloseIsLast
<1>3. CASE OnClose /\ UNCHANGED placed
  <2>1. queueResult' # "pending"
    <3>1. QueueTruth'
      BY <1>3, QueueEventKeeps DEF Inv, QueueOK
    <3> QED BY <1>3, <3>1 DEF OnClose, Finish, QueueTruth
  <2>2. /\ queueChild.exitSeen /\ queueChild.open = {}
        /\ queueChild' = ClosedBy(queueChild)
    BY <1>3 DEF OnClose, CanClose
  <2>3. /\ queueChild'.exitSeen /\ queueChild'.open = {}
        /\ queueChild'.grace => queueChild.grace /\ ~queueChild.onClose
    BY <1>0, <2>2, ChildEnding
  <2> QED BY <1>0, <2>1, <2>3 DEF CloseIsLast
<1>4. CASE OnTimeout
  <2>1. queueResult = "pending"
    BY <1>0, <1>4 DEF OnTimeout, QueueTruth
  <2> QED BY <1>0, <1>4, <2>1, ChildEnding DEF OnTimeout, CloseIsLast
<1>5. CASE GraceExpires
  BY <1>0, <1>5, ChildEnding DEF GraceExpires, CanExpire, CloseIsLast
<1>6. CASE QueueExitIsSeen
  <2>1. ~queueChild.exitSeen /\ queueChild' = Noticed(queueChild)
    BY <1>6 DEF QueueExitIsSeen, CanNotice
  <2>2. /\ queueChild'.closeSeen = queueChild.closeSeen
        /\ queueChild'.grace = queueChild.grace
        /\ queueChild'.onClose = queueChild.onClose
    BY <1>0, <2>1, ChildEnding
  <2> QED BY <1>0, <2>1, <2>2 DEF CloseIsLast
<1>7. CASE CodexQueueEnds \/ CodexQueueDrains
  <2>1. /\ queueResult' = queueResult
        /\ \/ \E e : queueChild' = Ended(queueChild, e)
           \/ \E p : queueChild' = Drained(queueChild, p)
    BY <1>7 DEF CodexQueueEnds, CodexQueueDrains
  <2>2. /\ queueChild'.exitSeen = queueChild.exitSeen
        /\ queueChild'.closeSeen = queueChild.closeSeen
        /\ queueChild.open = {} => queueChild'.open = {}
        /\ queueChild'.grace = queueChild.grace
        /\ queueChild'.onClose = queueChild.onClose
    <3>1. CASE \E e : queueChild' = Ended(queueChild, e)
      BY <1>0, <3>1 DEF Ended, Child
    <3>2. CASE \E p : queueChild' = Drained(queueChild, p)
      BY <1>0, <3>2 DEF Drained, Child
    <3> QED BY <2>1, <3>1, <3>2
  <2> QED BY <1>0, <2>1, <2>2 DEF CloseIsLast
<1>8. CASE UNCHANGED queueVars
  BY <1>0, <1>8 DEF CloseIsLast, queueVars
<1> QED BY <1>1, <1>2, <1>3, <1>4, <1>5, <1>6, <1>7, <1>8, NextKinds DEF CodexQueueAccepts

LEMMA NextInv == Inv /\ [Next]_vars => Inv'
<1> SUFFICES ASSUME Inv, [Next]_vars PROVE Inv'
  OBVIOUS
<1>0. CloseIsLast'
  BY CloseStaysLast
<1> USE <1>0 DEF Inv
<1>1. CASE RunQueue /\ UNCHANGED <<placed, running>>
  BY <1>1, RunQueueKeeps DEF RunQueue
<1>2. CASE /\ OnError \/ OnClose \/ OnTimeout \/ GraceExpires \/ QueueExitIsSeen
           /\ UNCHANGED <<placed, running>>
  BY <1>2, QueueEventKeeps
<1>3. CASE CodexQueueAccepts /\ UNCHANGED running
  BY <1>3, QueueAccepts DEF CodexQueueAccepts, queueVars
<1>4. CASE (CodexQueueEnds \/ CodexQueueDrains) /\ UNCHANGED running
  BY <1>4, QueueEndsKeeps
<1>5. CASE UNCHANGED <<placed, queueVars>> /\ running' \in {running, FALSE}
  BY <1>5 DEF queueVars, QueueOK, PlacedTypeOK, QueueTypeOK, QueueTruth
<1> QED BY <1>1, <1>2, <1>3, <1>4, <1>5, NextKinds

\* Every reachable state has well-typed variables.
THEOREM TypeCorrect == Spec => []TypeOK
<1>1. Inv => TypeOK
  BY DEF Inv, QueueOK, TypeOK
<1> QED BY InitInv, NextInv, <1>1, PTL DEF Spec

\* Nothing of a child whose "close" was handled keeps the helper alive.
THEOREM LeavesNothing == Spec => []NothingLingers
<1>1. Inv => NothingLingers
  BY DEF Inv, QueueOK, QueueTruth, CloseIsLast, NothingLingers, Holds
<1> QED BY InitInv, NextInv, <1>1, PTL DEF Spec

\* Only the timeout settles the promise of a child that is still running.
LEMMA NothingBecomesAbandoned ==
  Inv /\ AbandonsNothing /\ [Next]_vars => AbandonsNothing'
<1> SUFFICES ASSUME Inv, AbandonsNothing, [Next]_vars,
                    queueResult' \in Settled, queueChild'.os = "alive"
             PROVE  "SIGTERM" \in queueChild'.signals
  BY DEF AbandonsNothing
<1>0. queueChild \in Child /\ QueueTruth /\ QueueOK
  BY DEF Inv, QueueOK, QueueTypeOK
<1>1. CASE RunQueue
  <2>1. queueResult' = "threw" /\ queueChild' = NotStarted
    BY <1>0, <1>1 DEF RunQueue, Settled, QueueTruth
  <2> QED BY <2>1 DEF NotStarted
<1>2. CASE OnError \/ OnClose
  <2>1. CASE OnError
    BY <1>0, <2>1, ChildFields DEF OnError, CanError
  <2>2. CASE OnClose
    <3>1. queueChild.exitSeen /\ queueChild'.os = queueChild.os
      BY <1>0, <2>2, ChildFields DEF OnClose, CanClose
    <3> QED BY <1>0, <3>1 DEF QueueTruth
  <2> QED BY <1>2, <2>1, <2>2
<1>3. CASE OnTimeout
  <2>1. queueChild' = TerminateChild(queueChild) /\ queueChild.os = "alive"
    BY <1>0, <1>3, ChildFields DEF OnTimeout
  <2>2. ~queueChild.exitSeen
    BY <1>0, <2>1 DEF QueueTruth
  <2> QED BY <1>0, <2>1, <2>2 DEF TerminateChild, Child
<1>4. CASE GraceExpires
  <2>1. /\ queueChild'.os = queueChild.os
        /\ queueChild.signals \subseteq queueChild'.signals
        /\ queueResult' = queueResult
    BY <1>0, <1>4, ChildFields DEF GraceExpires
  <2> QED BY <2>1 DEF AbandonsNothing
<1>5. CASE QueueExitIsSeen
  BY <1>0, <1>5, ChildFields DEF QueueExitIsSeen, CanNotice
<1>6. CASE CodexQueueEnds
  BY <1>0, <1>6 DEF CodexQueueEnds, Ended, Child
<1>7. CASE CodexQueueDrains
  <2>1. PICK p : queueChild' = Drained(queueChild, p)
    BY <1>7 DEF CodexQueueDrains
  <2>2. queueChild'.os = queueChild.os /\ queueChild'.signals = queueChild.signals
    BY <1>0, <2>1 DEF Drained, Child
  <2> QED BY <1>7, <2>2 DEF AbandonsNothing, CodexQueueDrains
<1>8. CASE UNCHANGED queueVars
  BY <1>8 DEF AbandonsNothing, queueVars
<1> QED BY <1>1, <1>2, <1>3, <1>4, <1>5, <1>6, <1>7, <1>8, NextKinds DEF CodexQueueAccepts

\* A promise settled while the child runs has had SIGTERM sent to the child.
THEOREM NothingAbandoned == Spec => []AbandonsNothing
<1>1. Init => AbandonsNothing
  BY DEF Init, QueueInit, AbandonsNothing, Settled
<1> QED BY InitInv, NextInv, NothingBecomesAbandoned, <1>1, PTL DEF Spec

-----------------------------------------------------------------------------
\* A settled promise is never settled again, and says what is so.
LEMMA SameVocabulary ==
  /\ Abstract!Unreported = Unreported
  /\ Abstract!Report = Report
  /\ Abstract!Place = Place
  /\ \A r, p : Abstract!Warranted(r, p) <=> Warranted(r, p)
<1>1. /\ Abstract!Unreported = Unreported
      /\ Abstract!Place = Place
      /\ Abstract!TurnId = TurnId
      /\ \A t : Abstract!Accepted(t) = Accepted(t)
      /\ \A via : Abstract!Rejected(via) = Rejected(via)
      /\ \A via : Abstract!OutcomeUnknown(via) = OutcomeUnknown(via)
      /\ Abstract!Queued = Queued /\ Abstract!Failed = Failed
      /\ Abstract!Route = Route
  BY DEF Abstract!Unreported, Unreported, Abstract!NoTurn, NoTurn, Abstract!Place,
         Place, Abstract!TurnId, TurnId, Abstract!InTurn, InTurn, Abstract!InQueue,
         InQueue, Abstract!Accepted, Accepted, Abstract!Rejected, Rejected,
         Abstract!OutcomeUnknown, OutcomeUnknown, Abstract!Queued, Queued,
         Abstract!Failed, Failed, Abstract!Route, Route
<1>2. Abstract!Report = Report
  BY <1>1 DEF Abstract!Report, Report
<1>3. ASSUME NEW r, NEW p
      PROVE  Abstract!Warranted(r, p) <=> Warranted(r, p)
  BY DEF Abstract!Warranted, Warranted, Abstract!InTurn, InTurn, Abstract!InQueue,
         InQueue, Abstract!NoTurn, NoTurn
<1> QED BY <1>1, <1>2, <1>3

LEMMA ReportIsWarranted == Inv => QueueReport \in Report /\ Warranted(QueueReport, placed)
<1> SUFFICES ASSUME Inv PROVE QueueReport \in Report /\ Warranted(QueueReport, placed)
  OBVIOUS
<1> USE DEF Inv, QueueOK
<1>1. placed \in {<<>>, <<InQueue>>}
  BY DEF QueueTruth
<1>2. Len(placed) <= 1 /\ (placed = <<>> \/ (Len(placed) = 1 /\ placed[1].via = "queue"))
  <2>1. CASE placed = <<>>
    BY <2>1
  <2>2. CASE placed = <<InQueue>>
    BY <2>2 DEF InQueue
  <2> QED BY <1>1, <2>1, <2>2
<1>3. QueueReport \in Report
  BY DEF QueueReport, Report, Route
<1>4. Warranted(QueueReport, placed)
  BY <1>2 DEF QueueTruth, QueueReport, Warranted, Queued, Rejected, OutcomeUnknown,
              Failed, Unreported
<1> QED BY <1>3, <1>4

LEMMA StepImplements ==
  Inv /\ Inv' /\ [Next]_vars => [Abstract!DeliveryNext]_(Abstract!deliveryVars)
<1>0. (Inv => QueueReport \in Report /\ Warranted(QueueReport, placed))'
  BY ReportIsWarranted, PTL
<1> SUFFICES ASSUME Inv, Inv', [Next]_vars
             PROVE  Abstract!DeliveryNext \/ UNCHANGED <<placed, QueueReport>>
  BY DEF Abstract!deliveryVars
<1>1. ASSUME UNCHANGED placed, queueResult \notin Settled
      PROVE  Abstract!DeliveryNext \/ UNCHANGED <<placed, QueueReport>>
  <2>1. QueueReport = Unreported
    BY <1>1 DEF QueueReport, Settled
  <2>2. QueueReport' \in Report /\ Warranted(QueueReport', placed)
    BY <1>0, <1>1 DEF Warranted
  <2>3. CASE QueueReport' = Unreported
    BY <1>1, <2>1, <2>3
  <2>4. CASE QueueReport' # Unreported
    <3>1. Abstract!Tell(QueueReport')
      BY <1>1, <2>1, <2>2, SameVocabulary DEF Abstract!Tell
    <3> QED BY <2>2, <2>4, <3>1, SameVocabulary DEF Abstract!DeliveryNext
  <2> QED BY <2>3, <2>4
<1>2. ASSUME UNCHANGED <<placed, queueResult>>
      PROVE  UNCHANGED <<placed, QueueReport>>
  BY <1>2 DEF QueueReport
<1>3. CASE RunQueue /\ UNCHANGED <<placed, running>>
  BY <1>3, <1>1 DEF RunQueue, Settled
<1>4. CASE /\ OnError \/ OnClose \/ OnTimeout \/ GraceExpires \/ QueueExitIsSeen
           /\ UNCHANGED <<placed, running>>
  <2>1. queueResult \notin Settled \/ UNCHANGED queueResult
    BY <1>4 DEF OnError, OnClose, OnTimeout, GraceExpires, QueueExitIsSeen, Finish,
                Settled
  <2> QED BY <1>1, <1>2, <1>4, <2>1
<1>5. CASE CodexQueueAccepts /\ UNCHANGED running
  <2>1. /\ placed = <<>> /\ placed' = <<InQueue>>
        /\ queueResult \in {"pending", "outcome_unknown"}
    BY <1>5, QueueAccepts DEF Inv, QueueOK, QueueTypeOK, Settled
  <2>2. UNCHANGED QueueReport
    BY <1>5 DEF CodexQueueAccepts, queueVars, QueueReport
  <2>3. Warranted(QueueReport, <<InQueue>>)
    BY <1>0, <2>1, <2>2 DEF Warranted
  <2>4. Abstract!Land(InQueue)
    BY <2>1, <2>2, <2>3, SameVocabulary DEF Abstract!Land
  <2> QED BY <2>4, SameVocabulary DEF Abstract!DeliveryNext, Place
<1>6. CASE (CodexQueueEnds \/ CodexQueueDrains) /\ UNCHANGED running
  BY <1>6, <1>2, QueueEndsKeeps DEF Inv
<1>7. CASE UNCHANGED <<placed, queueVars>> /\ running' \in {running, FALSE}
  BY <1>7, <1>2 DEF queueVars
<1> QED BY <1>3, <1>4, <1>5, <1>6, <1>7, NextKinds

\* runQueue implements Delivery, with the settled promise as the report.
THEOREM Implements == Spec => ImplementsDelivery
<1>1. Init => Abstract!DeliveryInit
  BY SameVocabulary DEF Init, QueueInit, Abstract!DeliveryInit, QueueReport
<1> QED BY InitInv, NextInv, StepImplements, <1>1, PTL
        DEF Spec, ImplementsDelivery, Abstract!DeliverySpec

=============================================================================
