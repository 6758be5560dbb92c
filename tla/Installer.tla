----------------------------- MODULE Installer -----------------------------
(***************************************************************************)
(* sync-session-coordination-skill.sh: runs of --apply and --check over    *)
(* one installed copy, with what can stop them at any command, and a       *)
(* helper that is started from that copy meanwhile.  A file is replaced by *)
(* renaming a temporary file over it; the files are replaced one by one in *)
(* the order of skill-files.txt.  As in the documented procedure, the      *)
(* checkout the runs copy from only moves on, and not under a run.         *)
(***************************************************************************)
EXTENDS Naturals, Sequences

CONSTANTS Run,
          MaxVersion   \* bound: versions checked out

ASSUME VersionAssumption == MaxVersion \in Nat \ {0}

\* skill-files.txt, and the imports of the modules in it.
Manifest == <<"SKILL.md", "openai.yaml", "validation", "process", "app-server", "queue", "sessionctl">>
File     == {Manifest[k] : k \in 1 .. Len(Manifest)}
Entry    == "sessionctl"
Imports(f) ==
  CASE f = "sessionctl" -> {"app-server", "queue", "validation"}
    [] f = "app-server" -> {"process", "validation"}
    [] f = "queue"      -> {"process"}
    [] OTHER            -> {}

VARIABLES source,      \* version that is checked out
          installed,   \* file -> its installed version, 0 if there is none
          step, at,    \* run -> what it does next, for which line of the manifest
          litter,      \* a temporary file of a dead run is there
          signalled,   \* history: a run was ended by a signal
          loaded       \* the helper: file -> version it has read

vars == <<source, installed, step, at, litter, signalled, loaded>>

Over  == {"idle", "ok", "failed"}
Steps == Over \cup {"inspect", "compare", "mktemp", "made", "install", "move"}

\* mktemp has made a file, and the rename has not taken it away.
HasTemporary(r) == step[r] \in {"made", "install", "move"}

Init ==
  /\ source \in 1 .. MaxVersion
  /\ installed = [f \in File |-> 0]
  /\ step = [r \in Run |-> "idle"] /\ at = [r \in Run |-> 0]
  /\ litter = FALSE /\ signalled = FALSE
  /\ loaded = [f \in {} |-> 0]

-----------------------------------------------------------------------------
\* The script.

Goes(r, s) == step' = [step EXCEPT ![r] = s]

Starts(r) ==
  /\ step[r] \in Over
  /\ Goes(r, "inspect") /\ at' = [at EXCEPT ![r] = 1]
  /\ UNCHANGED <<source, installed, litter, signalled, loaded>>

\* Any file that is not in the manifest is refused, also one of another run.
Inspects(r) ==
  /\ step[r] = "inspect"
  /\ IF litter \/ \E q \in Run : HasTemporary(q) THEN Goes(r, "failed")
     ELSE \E s \in {"compare", "mktemp"} : Goes(r, s)
  /\ UNCHANGED <<source, installed, at, litter, signalled, loaded>>

\* Faulty: the files are replaced from the last to the first.
FileAtReversed(r) == Manifest[Len(Manifest) + 1 - at[r]]
FileAt(r) == Manifest[at[r]]

\* Faulty: one line too many.
NextLineTooFar(r, s) ==
  /\ at' = [at EXCEPT ![r] = @ + 1]
  /\ Goes(r, IF at[r] = Len(Manifest) THEN "ok" ELSE s)

NextLine(r, s) ==
  IF at[r] = Len(Manifest) THEN Goes(r, "ok") /\ UNCHANGED at
  ELSE at' = [at EXCEPT ![r] = @ + 1] /\ Goes(r, s)

\* Faulty: it is enough that the file is there.
SameExists(f) == installed[f] # 0
Same(f) == installed[f] = source

Compares(r) ==
  /\ step[r] = "compare"
  /\ IF Same(FileAt(r)) THEN NextLine(r, "compare") ELSE Goes(r, "failed") /\ UNCHANGED at
  /\ UNCHANGED <<source, installed, litter, signalled, loaded>>

\* The file is there before temporary_file has its name.
Prepares(r) ==
  /\ \/ step[r] = "mktemp" /\ Goes(r, "made")
     \/ step[r] = "made" /\ Goes(r, "install")
     \/ step[r] = "install" /\ Goes(r, "move")
  /\ UNCHANGED <<source, installed, at, litter, signalled, loaded>>

Moves(r) ==
  /\ step[r] = "move"
  /\ installed' = [installed EXCEPT ![FileAt(r)] = source]
  /\ NextLine(r, "mktemp")
  /\ UNCHANGED <<source, litter, signalled, loaded>>

\* Faulty: only a script that gets to its end cleans up.
LeftByExitUncleaned(r) == HasTemporary(r)
\* The trap on EXIT removes the file it knows the name of.
LeftByExit(r) == step[r] = "made"

Stops(r, leaves) ==
  /\ Goes(r, "failed") /\ litter' = (litter \/ leaves)
  /\ UNCHANGED <<source, installed, at, loaded>>

CommandFails(r) ==
  /\ step[r] \notin Over \cup {"made"}
  /\ Stops(r, LeftByExit(r))
  /\ UNCHANGED signalled

\* The trap also runs at SIGTERM and SIGINT, not at SIGKILL.
Signalled(r) ==
  /\ step[r] \notin Over /\ signalled' = TRUE
  /\ Stops(r, LeftByExit(r)) \/ Stops(r, HasTemporary(r))

-----------------------------------------------------------------------------
\* The operator and the helper.

ChecksOut ==
  /\ \A r \in Run : step[r] \in Over
  /\ source' \in source .. MaxVersion
  /\ step' = [r \in Run |-> "idle"]
  /\ UNCHANGED <<installed, at, litter, signalled, loaded>>

Load(f) == [g \in DOMAIN loaded \cup {f} |-> IF g = f THEN installed[f] ELSE loaded[g]]

\* Node reads a module, then those it imports; without an entry there is no helper.
Loads(f) ==
  /\ \/ f = Entry /\ DOMAIN loaded = {} /\ installed[Entry] # 0
     \/ \E g \in DOMAIN loaded : f \in Imports(g) \ DOMAIN loaded
  /\ loaded' = Load(f)
  /\ UNCHANGED <<source, installed, step, at, litter, signalled>>

HelperEnds ==
  /\ DOMAIN loaded # {} /\ loaded' = [f \in {} |-> 0]
  /\ UNCHANGED <<source, installed, step, at, litter, signalled>>

Next ==
  \/ \E r \in Run : \/ Starts(r) \/ Inspects(r) \/ Compares(r) \/ Prepares(r)
                    \/ Moves(r) \/ CommandFails(r) \/ Signalled(r)
  \/ ChecksOut
  \/ \E f \in File : Loads(f)
  \/ HelperEnds

Spec == Init /\ [][Next]_vars

-----------------------------------------------------------------------------
TypeOK ==
  /\ source \in 1 .. MaxVersion
  /\ installed \in [File -> 0 .. MaxVersion]
  /\ step \in [Run -> Steps] /\ at \in [Run -> 0 .. Len(Manifest)]
  /\ litter \in BOOLEAN /\ signalled \in BOOLEAN
  /\ DOMAIN loaded \subseteq File /\ \A f \in DOMAIN loaded : loaded[f] \in 0 .. MaxVersion

(***************************************************************************)
(* A helper that starts while files are replaced, or after a run that died *)
(* half-way, has no module that is missing or older than its entry.  (Two  *)
(* modules may still differ: one that was read early can be older than one *)
(* that imports it and was read after its replacement.)                    *)
(***************************************************************************)
LoadsNothingOlder == \A f \in DOMAIN loaded : loaded[f] >= loaded[Entry]

(***************************************************************************)
(* When a run of --apply or --check says ok, every installed file is that  *)
(* of the checkout, whatever other runs have done meanwhile.               *)
(***************************************************************************)
OkMeansInstalled ==
  \A r \in Run : step[r] = "ok" => \A f \in File : installed[f] = source

(***************************************************************************)
(* A temporary file that no run owns, which makes every later run refuse   *)
(* the directory, is only left behind by a signal: a command that fails    *)
(* leaves none.                                                            *)
(***************************************************************************)
LitterOnlyAfterSignal == litter => signalled

=============================================================================
