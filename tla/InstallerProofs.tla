-------------------------- MODULE InstallerProofs ---------------------------
(***************************************************************************)
(* Theorems about the skill installer, for any number of runs and versions *)
(* of the checkout.                                                        *)
(***************************************************************************)
EXTENDS Installer, TLAPS

Line == 1 .. Len(Manifest)

\* A run has done the lines before the one it is at.
Done(r) == \A k \in Line : k < at[r] => installed[Manifest[k]] = source

\* Replacing in the order of the manifest keeps a later file from being newer.
NewestFirst == \A i, j \in Line : i < j => installed[Manifest[i]] >= installed[Manifest[j]]

\* Files are never put back, so they stay as new as the entry was when read.
AsNewAsEntry ==
  DOMAIN loaded # {} =>
    /\ Entry \in DOMAIN loaded
    /\ \A f \in File : installed[f] >= loaded[Entry]

Inv ==
  /\ TypeOK
  /\ \A f \in File : installed[f] <= source
  /\ \A r \in Run : step[r] \notin Over => at[r] \in Line /\ Done(r)
  /\ NewestFirst
  /\ AsNewAsEntry
  /\ LoadsNothingOlder
  /\ OkMeansInstalled
  /\ LitterOnlyAfterSignal

\* The manifest names seven files, none twice, the entry last.
LEMMA ManifestFacts ==
  /\ Len(Manifest) = 7
  /\ \A k \in Line : Manifest[k] \in File
  /\ \A f \in File : \E k \in Line : f = Manifest[k]
  /\ \A i, j \in Line : Manifest[i] = Manifest[j] => i = j
  /\ 7 \in Line /\ Manifest[7] = Entry
<1>1. Len(Manifest) = 7
  BY DEF Manifest
<1>2. /\ Manifest[1] = "SKILL.md" /\ Manifest[2] = "openai.yaml"
      /\ Manifest[3] = "validation" /\ Manifest[4] = "process"
      /\ Manifest[5] = "app-server" /\ Manifest[6] = "queue"
      /\ Manifest[7] = "sessionctl"
  BY DEF Manifest
<1>3. \A k \in Line : k \in {1, 2, 3, 4, 5, 6, 7}
  BY <1>1 DEF Line
<1>4. \A i, j \in Line : Manifest[i] = Manifest[j] => i = j
  BY <1>2, <1>3
<1> QED BY <1>1, <1>2, <1>4 DEF File, Line, Entry

\* What the modules import is in the manifest, and is not the entry.
LEMMA ImportsFacts ==
  \A f \in File : Imports(f) \subseteq File \ {Entry}
<1>1. {"validation", "process", "app-server", "queue"} \subseteq File
  <2>1. /\ Manifest[3] = "validation" /\ Manifest[4] = "process"
        /\ Manifest[5] = "app-server" /\ Manifest[6] = "queue"
    BY DEF Manifest
  <2> QED BY <2>1, ManifestFacts DEF File
<1> QED BY <1>1 DEF Imports, Entry

LEMMA InitInv == Init => Inv
<1> SUFFICES ASSUME Init PROVE Inv
  OBVIOUS
<1>0. MaxVersion \in Nat /\ Len(Manifest) = 7
  BY VersionAssumption, ManifestFacts
<1>1. TypeOK
  <2>1. source \in 1 .. MaxVersion /\ installed \in [File -> 0 .. MaxVersion]
    BY <1>0 DEF Init
  <2>2. step \in [Run -> Steps] /\ at \in [Run -> 0 .. Len(Manifest)]
    BY <1>0 DEF Init, Steps, Over
  <2>3. DOMAIN loaded \subseteq File /\ \A f \in DOMAIN loaded : loaded[f] \in 0 .. MaxVersion
    BY DEF Init
  <2> QED BY <2>1, <2>2, <2>3 DEF Init, TypeOK
<1> QED BY <1>1, VersionAssumption, ManifestFacts
        DEF Init, Inv, Over, NewestFirst, AsNewAsEntry, LoadsNothingOlder,
            OkMeansInstalled, LitterOnlyAfterSignal

-----------------------------------------------------------------------------
\* A run goes on to the next line, or is done with the last one.
LEMMA NextLineFacts ==
  ASSUME TypeOK, NEW r \in Run, at[r] \in Line, NEW s \in Steps, NextLine(r, s)
  PROVE  /\ step' \in [Run -> Steps] /\ at' \in [Run -> 0 .. Len(Manifest)]
         /\ \A q \in Run : q # r => step'[q] = step[q] /\ at'[q] = at[q]
         /\ \/ /\ at[r] = Len(Manifest) /\ step'[r] = "ok"
            \/ /\ at'[r] = at[r] + 1 /\ at'[r] \in Line /\ step'[r] = s
<1> USE ManifestFacts DEF TypeOK, Line
<1>1. CASE at[r] = Len(Manifest)
  BY <1>1 DEF NextLine, Goes, Steps, Over
<1>2. CASE at[r] # Len(Manifest)
  <2>1. at[r] + 1 \in 1 .. Len(Manifest)
    BY <1>2
  <2> QED BY <1>2, <2>1 DEF NextLine, Goes
<1> QED BY <1>1, <1>2

\* A run that goes on on its line, or stops.
LEMMA GoesFacts ==
  ASSUME TypeOK, NEW r \in Run, NEW s \in Steps, Goes(r, s)
  PROVE  /\ step' \in [Run -> Steps]
         /\ step'[r] = s
         /\ \A q \in Run : q # r => step'[q] = step[q]
  BY DEF TypeOK, Goes

\* Nothing but the position of one run changes; a run that is then said to be
\* at a line, or ok, has done what that says.
LEMMA PositionKeepsInv ==
  ASSUME Inv, NEW r \in Run,
         UNCHANGED <<source, installed, loaded>>,
         litter' \in BOOLEAN, signalled' \in BOOLEAN, litter' => signalled',
         step' \in [Run -> Steps], at' \in [Run -> 0 .. Len(Manifest)],
         \A q \in Run : q # r => step'[q] = step[q] /\ at'[q] = at[q],
         step'[r] \notin Over => at'[r] \in Line /\ Done(r)',
         step'[r] = "ok" => \A f \in File : installed[f] = source
  PROVE  Inv'
<1> USE DEF Inv
<1>1. TypeOK'
  BY DEF TypeOK
<1>2. \A q \in Run : step'[q] \notin Over => at'[q] \in Line /\ Done(q)'
  <2> TAKE q \in Run
  <2>1. CASE q = r
    BY <2>1
  <2>2. CASE q # r
    BY <2>2 DEF Done
  <2> QED BY <2>1, <2>2
<1>3. OkMeansInstalled'
  BY DEF OkMeansInstalled
<1>4. NewestFirst' /\ AsNewAsEntry' /\ LoadsNothingOlder' /\ LitterOnlyAfterSignal'
  BY DEF NewestFirst, AsNewAsEntry, LoadsNothingOlder, LitterOnlyAfterSignal
<1> QED BY <1>1, <1>2, <1>3, <1>4

LEMMA ScriptKeepsInv ==
  ASSUME Inv, NEW r \in Run,
         \/ Starts(r) \/ Inspects(r) \/ Compares(r) \/ Prepares(r)
         \/ CommandFails(r) \/ Signalled(r)
  PROVE  Inv'
<1> USE DEF Inv
<1>0. TypeOK /\ (step[r] \notin Over => at[r] \in Line /\ Done(r))
  OBVIOUS
<1>1. CASE Starts(r)
  <2>1. /\ step' \in [Run -> Steps] /\ at' \in [Run -> 0 .. Len(Manifest)]
        /\ step'[r] = "inspect" /\ at'[r] = 1 /\ 1 \in Line
        /\ \A q \in Run : q # r => step'[q] = step[q] /\ at'[q] = at[q]
    BY <1>0, <1>1, GoesFacts, ManifestFacts DEF Starts, TypeOK, Steps, Line
  <2>2. Done(r)'
    BY <2>1 DEF Done, Line
  <2> QED BY <1>0, <1>1, <2>1, <2>2, PositionKeepsInv
          DEF Starts, TypeOK, LitterOnlyAfterSignal
<1>2. ASSUME NEW s \in Steps \ {"ok"}, Goes(r, s), UNCHANGED <<source, installed, at, loaded>>,
             s \notin Over => step[r] \notin Over,
             litter' \in BOOLEAN, signalled' \in BOOLEAN, litter' => signalled'
      PROVE  Inv'
  <2>1. /\ step' \in [Run -> Steps] /\ at' = at /\ step'[r] = s
        /\ \A q \in Run : q # r => step'[q] = step[q]
    BY <1>0, <1>2, GoesFacts
  <2>2. step'[r] \notin Over => at'[r] \in Line /\ Done(r)'
    BY <1>0, <1>2, <2>1 DEF Done
  <2> QED BY <1>0, <1>2, <2>1, <2>2, PositionKeepsInv DEF TypeOK
<1>3. CASE Inspects(r)
  BY <1>2, <1>3 DEF Inspects, TypeOK, LitterOnlyAfterSignal, Steps, Over
<1>4. CASE Compares(r)
  <2>1. at[r] \in Line /\ Done(r) /\ Manifest[at[r]] = FileAt(r)
    BY <1>0, <1>4 DEF Compares, Over, FileAt
  <2>2. CASE installed[FileAt(r)] = source /\ NextLine(r, "compare")
    <3>1. /\ step' \in [Run -> Steps] /\ at' \in [Run -> 0 .. Len(Manifest)]
          /\ \A q \in Run : q # r => step'[q] = step[q] /\ at'[q] = at[q]
          /\ \/ /\ at[r] = Len(Manifest) /\ step'[r] = "ok"
             \/ /\ at'[r] = at[r] + 1 /\ at'[r] \in Line /\ step'[r] = "compare"
      BY <1>0, <2>1, <2>2, NextLineFacts DEF Steps
    <3>2. \A k \in Line : k <= at[r] => installed[Manifest[k]] = source
      BY <2>1, <2>2 DEF Done, Line
    <3>3. step'[r] \notin Over => at'[r] \in Line /\ Done(r)'
      BY <1>4, <2>1, <3>1, <3>2, ManifestFacts DEF Done, Line, Compares, Over
    <3>4. step'[r] = "ok" => \A f \in File : installed[f] = source
      BY <3>1, <3>2, ManifestFacts DEF Line
    <3> QED BY <1>4, <3>1, <3>3, <3>4, PositionKeepsInv
            DEF Compares, TypeOK, LitterOnlyAfterSignal
  <2>3. CASE Goes(r, "failed") /\ UNCHANGED at
    BY <1>2, <1>4, <2>3 DEF Compares, TypeOK, LitterOnlyAfterSignal, Steps, Over
  <2> QED BY <1>4, <2>2, <2>3 DEF Compares, Same
<1>5. CASE Prepares(r)
  BY <1>2, <1>5 DEF Prepares, TypeOK, LitterOnlyAfterSignal, Steps, Over
<1>6. CASE CommandFails(r)
  <2>1. litter' = litter
    BY <1>6 DEF CommandFails, Stops, LeftByExit, TypeOK
  <2> QED BY <1>2, <1>6, <2>1 DEF CommandFails, Stops, TypeOK, LitterOnlyAfterSignal, Steps, Over
<1>7. CASE Signalled(r)
  <2>1. litter' \in BOOLEAN /\ signalled' = TRUE
    BY <1>7 DEF Signalled, Stops, TypeOK
  <2> QED BY <1>2, <1>7, <2>1 DEF Signalled, Stops, Steps, Over
<1> QED BY <1>1, <1>3, <1>4, <1>5, <1>6, <1>7

-----------------------------------------------------------------------------
\* The rename: one more line is done, and no file becomes older.
LEMMA MoveKeepsInv == \A r \in Run : Inv /\ Moves(r) => Inv'
<1> SUFFICES ASSUME NEW r \in Run, Inv, Moves(r) PROVE Inv'
  OBVIOUS
<1> USE DEF Inv
<1>1. at[r] \in Line /\ Done(r) /\ FileAt(r) = Manifest[at[r]] /\ FileAt(r) \in File
  BY ManifestFacts DEF Moves, Over, FileAt
<1>2. /\ source \in 1 .. MaxVersion /\ MaxVersion \in Nat
      /\ installed \in [File -> 0 .. MaxVersion]
  BY VersionAssumption DEF TypeOK
<1>3. /\ source' = source /\ installed' \in [File -> 0 .. MaxVersion]
      /\ installed'[FileAt(r)] = source
      /\ \A f \in File : f # FileAt(r) => installed'[f] = installed[f]
      /\ UNCHANGED <<litter, signalled, loaded>>
  BY <1>1, <1>2 DEF Moves
<1>4. \A f \in File : installed[f] <= installed'[f] /\ installed'[f] <= source
  BY <1>2, <1>3
<1>5. /\ step' \in [Run -> Steps] /\ at' \in [Run -> 0 .. Len(Manifest)]
      /\ \A q \in Run : q # r => step'[q] = step[q] /\ at'[q] = at[q]
      /\ \/ /\ at[r] = Len(Manifest) /\ step'[r] = "ok"
         \/ /\ at'[r] = at[r] + 1 /\ at'[r] \in Line /\ step'[r] = "mktemp"
  BY <1>1, NextLineFacts DEF Moves, Steps
<1>6. \A k \in Line : k <= at[r] => installed'[Manifest[k]] = source
  <2> SUFFICES ASSUME NEW k \in Line, k <= at[r] PROVE installed'[Manifest[k]] = source
    OBVIOUS
  <2>1. CASE k = at[r]
    BY <1>1, <1>3, <2>1
  <2>2. CASE k < at[r]
    BY <1>1, <1>3, <2>2, ManifestFacts DEF Done
  <2> QED BY <1>1, <2>1, <2>2 DEF Line
<1>7. TypeOK'
  BY <1>3, <1>5 DEF TypeOK
<1>8. \A q \in Run : step'[q] \notin Over => at'[q] \in Line /\ Done(q)'
  <2> SUFFICES ASSUME NEW q \in Run, step'[q] \notin Over PROVE at'[q] \in Line /\ Done(q)'
    OBVIOUS
  <2>1. CASE q = r
    BY <1>1, <1>3, <1>5, <1>6, <2>1, ManifestFacts DEF Done, Line, Over
  <2>2. CASE q # r
    BY <1>3, <1>5, <2>2, ManifestFacts DEF Done
  <2> QED BY <2>1, <2>2
<1>9. NewestFirst'
  <2> SUFFICES ASSUME NEW i \in Line, NEW j \in Line, i < j
               PROVE  installed'[Manifest[i]] >= installed'[Manifest[j]]
    BY DEF NewestFirst
  <2>1. Manifest[i] \in File /\ Manifest[j] \in File
    BY ManifestFacts
  <2>2. CASE i <= at[r]
    BY <1>2, <1>3, <1>4, <1>6, <2>1, <2>2
  <2>3. CASE i > at[r]
    <3>1. Manifest[i] # FileAt(r) /\ Manifest[j] # FileAt(r)
      BY <1>1, <2>3, ManifestFacts DEF Line
    <3> QED BY <1>3, <2>1, <3>1 DEF NewestFirst
  <2> QED BY <1>1, <2>2, <2>3 DEF Line
<1>10. AsNewAsEntry' /\ LoadsNothingOlder'
  <2>1. DOMAIN loaded # {} => loaded[Entry] \in 0 .. MaxVersion
    BY DEF AsNewAsEntry, TypeOK
  <2> QED BY <1>2, <1>3, <1>4, <2>1 DEF AsNewAsEntry, LoadsNothingOlder
<1>11. OkMeansInstalled'
  <2>1. ASSUME step'[r] = "ok" PROVE \A f \in File : installed'[f] = source
    BY <1>5, <1>6, <2>1, ManifestFacts DEF Line
  <2>2. ASSUME NEW q \in Run, q # r, step'[q] = "ok"
        PROVE  \A f \in File : installed'[f] = source
    BY <1>3, <1>5, <2>2 DEF OkMeansInstalled
  <2> QED BY <1>3, <2>1, <2>2 DEF OkMeansInstalled
<1>12. LitterOnlyAfterSignal'
  BY <1>3 DEF LitterOnlyAfterSignal
<1> QED BY <1>3, <1>4, <1>7, <1>8, <1>9, <1>10, <1>11, <1>12

\* A checkout: no run is under way, and none is ok any more.
LEMMA CheckoutKeepsInv == Inv /\ ChecksOut => Inv'
<1> SUFFICES ASSUME Inv, ChecksOut PROVE Inv'
  OBVIOUS
<1> USE DEF Inv
<1>1. /\ source' \in 1 .. MaxVersion /\ source <= source'
      /\ step' = [r \in Run |-> "idle"]
      /\ UNCHANGED <<installed, at, litter, signalled, loaded>>
  BY VersionAssumption DEF ChecksOut, TypeOK
<1>2. TypeOK'
  BY <1>1 DEF TypeOK, Steps, Over
<1>3. \A f \in File : installed'[f] <= source'
  BY <1>1, VersionAssumption DEF TypeOK
<1> QED BY <1>1, <1>2, <1>3
        DEF Over, NewestFirst, AsNewAsEntry, LoadsNothingOlder, OkMeansInstalled,
            LitterOnlyAfterSignal

\* The entry is read first and is the oldest file there is.
LEMMA LoadKeepsInv == \A f \in File : Inv /\ Loads(f) => Inv'
<1> SUFFICES ASSUME NEW f \in File, Inv, Loads(f) PROVE Inv'
  OBVIOUS
<1> USE DEF Inv
<1>1. /\ UNCHANGED <<source, installed, step, at, litter, signalled>>
      /\ DOMAIN loaded' = DOMAIN loaded \cup {f}
      /\ loaded'[f] = installed[f]
      /\ \A g \in DOMAIN loaded : g # f => loaded'[g] = loaded[g]
  BY DEF Loads, Load
<1>2. TypeOK'
  BY <1>1 DEF TypeOK
<1>3. AsNewAsEntry' /\ LoadsNothingOlder'
  <2>1. CASE f = Entry /\ DOMAIN loaded = {}
    <3>1. \A g \in File : installed[g] >= installed[Entry]
      <4> SUFFICES ASSUME NEW g \in File PROVE installed[g] >= installed[Entry]
        OBVIOUS
      <4>1. PICK k \in Line : g = Manifest[k]
        BY ManifestFacts
      <4>2. CASE k < 7
        BY <4>1, <4>2, ManifestFacts DEF NewestFirst
      <4>3. CASE k = 7
        BY <4>1, <4>3, ManifestFacts, VersionAssumption DEF TypeOK
      <4> QED BY <4>2, <4>3, ManifestFacts DEF Line
    <3> QED BY <1>1, <2>1, <3>1 DEF AsNewAsEntry, LoadsNothingOlder
  <2>2. CASE \E g \in DOMAIN loaded : f \in Imports(g) \ DOMAIN loaded
    <3>1. f # Entry /\ DOMAIN loaded # {} /\ f \notin DOMAIN loaded
      BY <2>2, ImportsFacts DEF TypeOK
    <3> QED BY <1>1, <3>1 DEF AsNewAsEntry, LoadsNothingOlder
  <2> QED BY <2>1, <2>2 DEF Loads
<1>4. (\A r \in Run : step[r] \notin Over => at[r] \in Line /\ Done(r))'
  BY <1>1 DEF Done
<1>5. NewestFirst' /\ OkMeansInstalled' /\ LitterOnlyAfterSignal'
  BY <1>1 DEF NewestFirst, OkMeansInstalled, LitterOnlyAfterSignal
<1> QED BY <1>1, <1>2, <1>3, <1>4, <1>5

LEMMA NextInv == Inv /\ [Next]_vars => Inv'
<1> SUFFICES ASSUME Inv, [Next]_vars PROVE Inv'
  OBVIOUS
<1>1. ASSUME NEW r \in Run,
             \/ Starts(r) \/ Inspects(r) \/ Compares(r) \/ Prepares(r)
             \/ CommandFails(r) \/ Signalled(r)
      PROVE  Inv'
  BY <1>1, ScriptKeepsInv
<1>2. CASE \E r \in Run : Moves(r)
  BY <1>2, MoveKeepsInv
<1>3. CASE ChecksOut
  BY <1>3, CheckoutKeepsInv
<1>4. CASE \E f \in File : Loads(f)
  BY <1>4, LoadKeepsInv
<1>5. CASE HelperEnds
  BY <1>5 DEF HelperEnds, Inv, TypeOK, Done, NewestFirst, AsNewAsEntry,
              LoadsNothingOlder, OkMeansInstalled, LitterOnlyAfterSignal
<1>6. CASE UNCHANGED vars
  BY <1>6 DEF vars, Inv, TypeOK, Done, NewestFirst, AsNewAsEntry,
              LoadsNothingOlder, OkMeansInstalled, LitterOnlyAfterSignal
<1> QED BY <1>1, <1>2, <1>3, <1>4, <1>5, <1>6 DEF Next

-----------------------------------------------------------------------------
\* Every reachable state has well-typed variables.
THEOREM TypeCorrect == Spec => []TypeOK
<1>1. Inv => TypeOK
  BY DEF Inv
<1> QED BY InitInv, NextInv, <1>1, PTL DEF Spec

\* No module a helper has read is older than the entry that asked for it.
THEOREM NothingOlderLoaded == Spec => []LoadsNothingOlder
<1>1. Inv => LoadsNothingOlder
  BY DEF Inv
<1> QED BY InitInv, NextInv, <1>1, PTL DEF Spec

\* A run that says ok leaves the files of the checkout behind.
THEOREM OkIsTrue == Spec => []OkMeansInstalled
<1>1. Inv => OkMeansInstalled
  BY DEF Inv
<1> QED BY InitInv, NextInv, <1>1, PTL DEF Spec

\* A temporary file without an owner is left by a signal alone.
THEOREM FailuresCleanUp == Spec => []LitterOnlyAfterSignal
<1>1. Inv => LitterOnlyAfterSignal
  BY DEF Inv
<1> QED BY InitInv, NextInv, <1>1, PTL DEF Spec

=============================================================================
