---------------------------- MODULE ChildProcess ----------------------------
(***************************************************************************)
(* A child process the helper owns, as Node's ChildProcess object and      *)
(* lib/process.mjs see it.  A child is a record; the operators below give  *)
(* the record after one event or one call, and CanX(c) says when the event *)
(* X can happen.  The modules that own a child turn them into steps.       *)
(***************************************************************************)
EXTENDS Naturals, FiniteSets

Pipe == {"stdout", "stderr"}           \* pipes the helper reads
Ends == {"code0", "codeN", "signal"}   \* exit code 0, another code, a signal

Child == [os       : {"absent", "alive", "dead"},  \* absent: pid is undefined
          end      : Ends \cup {"none"},
          open     : SUBSET Pipe,   \* pipes neither at their end nor destroyed
          ref      : BOOLEAN,       \* unref() has not been called
          exitSeen : BOOLEAN,       \* exitCode or signalCode is set
          closeSeen: BOOLEAN,       \* Node has emitted "close"
          grace    : BOOLEAN,       \* terminateChild's timer is armed
          onClose  : BOOLEAN,       \* its "close" listener is attached
          signals  : SUBSET {"SIGTERM", "SIGKILL"}]  \* signals sent to it

NotStarted ==
  [os |-> "absent", end |-> "none", open |-> {}, ref |-> TRUE,
   exitSeen |-> FALSE, closeSeen |-> FALSE, grace |-> FALSE,
   onClose |-> FALSE, signals |-> {}]

Spawned(pipes) == [NotStarted EXCEPT !.os = "alive", !.open = pipes]

-----------------------------------------------------------------------------
\* The operating system and Node.

CanEnd(c)   == c.os = "alive"
Ended(c, e) == [c EXCEPT !.os = "dead", !.end = e]

\* End of file.  A descendant may keep a pipe open after the child has ended.
CanDrain(c, p) == p \in c.open
Drained(c, p)  == [c EXCEPT !.open = @ \ {p}]

CanNotice(c) == c.os = "dead" /\ ~c.exitSeen
Noticed(c)   == [c EXCEPT !.exitSeen = TRUE]

\* A failed spawn: Node sets a negative exitCode, emits "error", later "close".
CanError(c) == c.os = "absent" /\ ~c.exitSeen
Errored(c)  == [c EXCEPT !.exitSeen = TRUE, !.end = "codeN"]

\* What keeps Node's event loop alive on behalf of the child.
Holds(c) == c.grace \/ c.open # {} \/ (c.ref /\ ~c.exitSeen)

-----------------------------------------------------------------------------
\* lib/process.mjs

Released(c) == [c EXCEPT !.open = {}, !.ref = FALSE]

\* Faulty: signals without looking whether the child has ended.
TerminateBlindly(c) ==
  IF c.os = "absent"
  THEN Released(c)
  ELSE [c EXCEPT !.grace = TRUE, !.onClose = TRUE, !.signals = @ \cup {"SIGTERM"}]

\* Faulty: another signal than the one documented.
TerminateBySigint(c) ==
  IF c.os = "absent" \/ c.exitSeen
  THEN Released(c)
  ELSE [c EXCEPT !.grace = TRUE, !.onClose = TRUE, !.signals = @ \cup {"SIGINT"}]

TerminateChild(c) ==
  IF c.os = "absent" \/ c.exitSeen
  THEN Released(c)
  ELSE [c EXCEPT !.grace = TRUE, !.onClose = TRUE, !.signals = @ \cup {"SIGTERM"}]

CanExpire(c) == c.grace

\* Faulty: kills, but leaves the pipes to whoever holds them.
GraceKeepsPipes(c) ==
  [c EXCEPT !.grace = FALSE, !.onClose = FALSE,
            !.signals = IF c.exitSeen THEN @ ELSE @ \cup {"SIGKILL"}]

\* Faulty: lets go without killing.
GraceOnlyReleases(c) == Released([c EXCEPT !.grace = FALSE, !.onClose = FALSE])

GraceExpired(c) ==
  Released([c EXCEPT !.grace = FALSE, !.onClose = FALSE,
                     !.signals = IF c.exitSeen THEN @ ELSE @ \cup {"SIGKILL"}])

\* "close" follows the end of the child and of its pipes.
CanClose(c) == c.exitSeen /\ ~c.closeSeen /\ c.open = {}
ClosedBy(c) ==
  IF c.onClose
  THEN Released([c EXCEPT !.closeSeen = TRUE, !.grace = FALSE, !.onClose = FALSE])
  ELSE [c EXCEPT !.closeSeen = TRUE]

=============================================================================
