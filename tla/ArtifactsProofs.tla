--------------------------- MODULE ArtifactsProofs ---------------------------
(***************************************************************************)
(* Theorems about RunArtifacts, for every number of markers, ids, places,  *)
(* failing writes and kills.                                               *)
(***************************************************************************)
EXTENDS RunArtifacts, TLAPS

\* A text is complete.
LEMMA TextIsWhole == \A f \in Files : Text(f) # Half
<1>1. \A p : [pads |-> p] # Half
  BY DEF Half
<1>2. \A n, p : [num |-> n, pads |-> p] # Half
  BY DEF Half
<1> QED
  BY <1>1, <1>2 DEF Files, Text, PadsText, StatusText, SummaryText

LEMMA PadsTextIsSome == TypeOK => PadsText # None
<1> SUFFICES ASSUME TypeOK PROVE PadsText # None
  OBVIOUS
<1>1. PadsText \in [pads : [Ids -> Pads \cup {None}]]
  BY DEF PadsText, TypeOK
<1> QED
  BY <1>1, NoneAssumption

\* The text of a file is about the two tables only.
LEMMA SameText ==
  ASSUME sightings' = sightings, pads' = pads
  PROVE  /\ \A f \in Files : Text(f)' = Text(f)
         /\ PadsText' = PadsText /\ SummaryText' = SummaryText
<1>1. StatusText' = StatusText
  BY DEF StatusText, Best, Of
<1> QED
  BY <1>1 DEF Text, PadsText, SummaryText

LEMMA Initially == Init => Inv
<1> SUFFICES ASSUME Init PROVE Inv
  OBVIOUS
<1>1. disk["status"] = StatusText /\ disk["pads"] = None /\ disk["summary"] = None
  BY DEF Init, Files
<1>2. TypeOK
  <2>1. sightings \in Seq(Marks) /\ pads \in [Ids -> Pads \cup {None}]
    BY DEF Init
  <2>2. DOMAIN disk = Files /\ DOMAIN tmp = Files /\ file \in Files
    BY DEF Init, Files
  <2>3. now \in 0 .. MaxMarks /\ fails \in 0 .. MaxFails
    BY BoundAssumption DEF Init
  <2> QED
    BY <2>1, <2>2, <2>3 DEF Init, TypeOK
<1>3. WholeFiles
  <2>1. None # Half
    BY NoneAssumption
  <2> QED
    BY <1>1, <2>1, TextIsWhole DEF WholeFiles, Files, Text
<1>4. FileInv
  BY <1>1 DEF Init, FileInv, Shown
<1>5. FileIsCurrent
  BY <1>1 DEF Init, FileIsCurrent
<1> QED
  BY <1>2, <1>3, <1>4, <1>5 DEF Inv

-----------------------------------------------------------------------------
(* Type correctness *)

LEMMA RecordTyped ==
  ASSUME NEW prev \in Pads \cup {None}, NEW m \in Marks
  PROVE  Record(prev, m) \in Pads
<1> DEFINE kept == prev # None /\ ~KeepNew(prev, m)
<1>1. m.world \in Worlds \cup {None} /\ m.at \in Nat
  BY BoundAssumption DEF Marks
<1>2. prev # None =>
        /\ prev.world \in Worlds \cup {None} /\ prev.image \in Nat
        /\ prev.first \in Nat /\ prev.count \in Nat
  BY DEF Pads
<1>3. (Verdict[m.id] = TRUE) \in BOOLEAN
  OBVIOUS
<1>4. /\ (IF kept THEN prev.world ELSE m.world) \in Worlds \cup {None}
      /\ (IF kept THEN prev.image ELSE m.at) \in Nat
      /\ (IF prev = None THEN m.at ELSE prev.first) \in Nat
      /\ (IF prev = None THEN 1 ELSE prev.count + 1) \in Nat
  BY <1>1, <1>2
<1> HIDE DEF kept
<1>5. Record(prev, m) =
        [world |-> IF kept THEN prev.world ELSE m.world,
         image |-> IF kept THEN prev.image ELSE m.at,
         first |-> IF prev = None THEN m.at ELSE prev.first,
         last  |-> m.at,
         count |-> IF prev = None THEN 1 ELSE prev.count + 1,
         valid |-> Verdict[m.id] = TRUE]
  BY DEF Record, kept
<1> QED
  BY <1>1, <1>3, <1>4, <1>5 DEF Pads

LEMMA TypeStep == TypeOK /\ [Next]_vars => TypeOK'
<1> SUFFICES ASSUME TypeOK, [Next]_vars PROVE TypeOK'
  OBVIOUS
<1> USE DEF TypeOK
<1>1. ASSUME DetectMarker PROVE TypeOK'
  <2>1. now' \in 1 .. MaxMarks
    BY <1>1, BoundAssumption DEF DetectMarker
  <2>2. PICK id \in Ids, world \in Worlds \cup {None} :
          \/ UNCHANGED <<pc, marker>>
          \/ pc' = "save" /\ marker' = [id |-> id, world |-> world, at |-> now']
    BY <1>1 DEF DetectMarker
  <2>3. [id |-> id, world |-> world, at |-> now'] \in Marks
    BY <2>1 DEF Marks
  <2>4. marker' \in Marks \cup {None} /\ (pc' \in {"save", "add"} => marker' \in Marks)
        /\ pc' \in {"idle", "save"}
    BY <1>1, <2>2, <2>3 DEF DetectMarker
  <2> QED
    BY <1>1, <2>1, <2>4 DEF DetectMarker
<1>2. ASSUME SaveImage PROVE TypeOK'
  <2>1. marker \in Marks
    BY <1>2 DEF SaveImage
  <2>2. images' \subseteq 1 .. MaxMarks
    <3>1. marker.at \in 1 .. MaxMarks
      BY <2>1 DEF Marks
    <3> QED
      BY <1>2, <3>1 DEF SaveImage
  <2>3. fails' \in 0 .. MaxFails
    BY <1>2, BoundAssumption DEF SaveImage
  <2> QED
    BY <1>2, <2>1, <2>2, <2>3 DEF SaveImage, memory
<1>3. ASSUME AddSighting PROVE TypeOK'
  <2>1. marker \in Marks /\ marker.id \in Ids
    BY <1>3 DEF AddSighting, Marks
  <2>2. sightings' \in Seq(Marks)
    BY <1>3, <2>1 DEF AddSighting
  <2>3. pads' \in [Ids -> Pads \cup {None}]
    <3>1. Record(pads[marker.id], marker) \in Pads
      BY <2>1, RecordTyped
    <3> QED
      BY <1>3, <2>1, <3>1 DEF AddSighting
  <2>4. pc' = "open" /\ file' \in Files
    BY <1>3 DEF AddSighting, Write, Files
  <2> QED
    BY <1>3, <2>2, <2>3, <2>4 DEF AddSighting
<1>4. ASSUME WriteStatus \/ Finalise PROVE TypeOK'
  BY <1>4 DEF WriteStatus, Finalise, Write, memory, Files
<1>5. ASSUME OpenTmp \/ FillTmp PROVE TypeOK'
  BY <1>5 DEF OpenTmp, FillTmp, memory
<1>6. ASSUME Written PROVE pc' \in {"idle", "open", "exit"} /\ file' \in Files
  BY <1>6 DEF Written, Write, Files
<1>7. ASSUME Replace PROVE TypeOK'
  BY <1>6, <1>7 DEF Replace, memory
<1>8. ASSUME WriteFails PROVE TypeOK'
  <2>1. fails' \in 0 .. MaxFails /\ DOMAIN tmp' = Files
    BY <1>8, BoundAssumption DEF WriteFails
  <2> QED
    BY <1>6, <1>8, <2>1 DEF WriteFails, memory
<1>9. ASSUME Kill PROVE TypeOK'
  BY <1>9 DEF Kill, memory
<1>10. ASSUME UNCHANGED vars PROVE TypeOK'
  BY <1>10 DEF vars, memory
<1> QED
  BY <1>1, <1>2, <1>3, <1>4, <1>5, <1>7, <1>8, <1>9, <1>10
     DEF Next, Program, Ended

-----------------------------------------------------------------------------
(* The files *)

\* A step that changes neither the tables nor what _atomic_write_text is at
\* keeps the files as they are.
LEMMA FilesKept ==
  ASSUME Inv, UNCHANGED <<sightings, pads, file, final, disk, tmp>>,
         fails' >= fails, fails \in Nat, fails' \in Nat,
         pc' = pc \/ (pc' \in {"idle", "save", "add"} /\ pc \in {"idle", "save", "add"})
  PROVE  WholeFiles' /\ FileInv' /\ FileIsCurrent'
<1>1. /\ \A f \in Files : Text(f)' = Text(f)
      /\ PadsText' = PadsText /\ SummaryText' = SummaryText
  BY SameText
<1>2. WholeFiles'
  BY DEF Inv, WholeFiles
<1>3. FileInv'
  <2>1. pc' = "replace" => tmp'[file'] = Text(file)'
    BY <1>1 DEF Inv, FileInv, TypeOK
  <2>2. \A id \in Ids : Shown(id)' => pads'[id] # None /\ pads'[id].world # None
    BY DEF Inv, FileInv, Shown
  <2> QED
    BY <1>1, <2>1, <2>2 DEF Inv, FileInv
<1>4. FileIsCurrent'
  BY <1>1 DEF Inv, FileIsCurrent, Writing
<1> QED
  BY <1>2, <1>3, <1>4

\* add_sighting: the record of a pad that has a position keeps one.
LEMMA RecordKeepsPosition ==
  ASSUME NEW prev \in Pads, NEW m \in Marks, prev.world # None
  PROVE  Record(prev, m).world # None
  BY NoneAssumption DEF Record, KeepNew

LEMMA AddSightingStep ==
  ASSUME Inv, AddSighting PROVE WholeFiles' /\ FileInv' /\ FileIsCurrent'
<1>1. /\ pc = "add" /\ pc' = "open" /\ file' = "pads" /\ ~final /\ ~final'
      /\ UNCHANGED <<disk, fails>> /\ marker \in Marks /\ marker.id \in Ids
  BY DEF AddSighting, Write, Inv, FileInv, TypeOK, Marks
<1>2. WholeFiles'
  BY <1>1 DEF Inv, WholeFiles
<1>3. FileInv'
  <2>1. ASSUME NEW id \in Ids, Shown(id)'
        PROVE  pads'[id] # None /\ pads'[id].world # None
    <3>1. pads[id] \in Pads /\ pads[id] # None /\ pads[id].world # None
      BY <1>1, <2>1 DEF Inv, FileInv, Shown, TypeOK
    <3>2. CASE id # marker.id
      BY <1>1, <3>1, <3>2 DEF AddSighting, Inv, TypeOK
    <3>3. CASE id = marker.id
      <4>1. pads'[id] = Record(pads[id], marker)
        BY <1>1, <3>3 DEF AddSighting, Inv, TypeOK
      <4>2. pads'[id] \in Pads
        BY <1>1, <3>1, <4>1, RecordTyped
      <4> QED
        BY <1>1, <3>1, <4>1, <4>2, RecordKeepsPosition, NoneAssumption
    <3> QED
      BY <3>2, <3>3
  <2>2. disk["summary"] = None
    BY <1>1 DEF Inv, FileInv
  <2> QED
    BY <1>1, <2>1, <2>2 DEF FileInv
<1>4. FileIsCurrent'
  BY <1>1 DEF FileIsCurrent, Writing
<1> QED
  BY <1>2, <1>3, <1>4

\* _atomic_write_text is called, and the tables are not touched.
LEMMA WriteStep ==
  ASSUME Inv, WriteStatus \/ Finalise
  PROVE  WholeFiles' /\ FileInv' /\ FileIsCurrent'
<1>1. /\ pc = "idle" /\ pc' = "open" /\ ~final /\ UNCHANGED <<disk, fails, sightings, pads>>
      /\ file' \in {"status", "pads"} /\ (final' => file' = "pads")
  BY DEF WriteStatus, Finalise, Write, memory
<1>2. PadsText' = PadsText /\ SummaryText' = SummaryText
  BY <1>1, SameText
<1>3. WholeFiles'
  BY <1>1 DEF Inv, WholeFiles
<1>4. FileInv'
  <2>1. \A id \in Ids : Shown(id)' => pads'[id] # None /\ pads'[id].world # None
    BY <1>1 DEF Inv, FileInv, Shown
  <2>2. disk["summary"] = None
    BY <1>1 DEF Inv, FileInv
  <2> QED
    BY <1>1, <2>1, <2>2 DEF FileInv
<1>5. FileIsCurrent'
  BY <1>1, <1>2 DEF Inv, FileIsCurrent, Writing
<1> QED
  BY <1>3, <1>4, <1>5

\* The sibling is opened and filled.
LEMMA TmpStep ==
  ASSUME Inv, OpenTmp \/ FillTmp
  PROVE  WholeFiles' /\ FileInv' /\ FileIsCurrent'
<1>1. /\ UNCHANGED <<disk, fails, sightings, pads, file, final>>
      /\ pc \in {"open", "fill"} /\ pc' \in {"fill", "replace"}
      /\ pc' = "replace" => tmp' = [tmp EXCEPT ![file] = Text(file)]
  BY DEF OpenTmp, FillTmp, memory
<1>2. /\ \A f \in Files : Text(f)' = Text(f)
      /\ PadsText' = PadsText /\ SummaryText' = SummaryText
  BY <1>1, SameText
<1>3. WholeFiles'
  BY <1>1 DEF Inv, WholeFiles
<1>4. FileInv'
  <2>1. pc' = "replace" => tmp'[file'] = Text(file)'
    BY <1>1, <1>2 DEF Inv, TypeOK
  <2>2. \A id \in Ids : Shown(id)' => pads'[id] # None /\ pads'[id].world # None
    BY <1>1 DEF Inv, FileInv, Shown
  <2> QED
    BY <1>1, <1>2, <2>1, <2>2 DEF Inv, FileInv
<1>5. FileIsCurrent'
  BY <1>1, <1>2 DEF Inv, FileIsCurrent, Writing
<1> QED
  BY <1>3, <1>4, <1>5

\* Where the program is after a file: it is done, or at the summary, or back
\* in the mission.
LEMMA AfterFile ==
  ASSUME Inv, Written, UNCHANGED final, pc \in {"open", "fill", "replace"}
  PROVE  /\ pc' \in {"idle", "open", "exit"} /\ file \in Files
         /\ ~final => pc' = "idle" /\ file' = file /\ file # "summary"
         /\ final /\ file = "pads" => pc' = "open" /\ file' = "summary"
         /\ final /\ file # "pads" =>
              pc' = "exit" /\ file' = "summary" /\ file = "summary"
         /\ disk["summary"] = None
<1>1. file \in Files /\ (final => file # "status") /\ (~final => file # "summary")
  BY DEF Inv, TypeOK, FileInv
<1>2. disk["summary"] = None
  BY DEF Inv, FileInv
<1> QED
  BY <1>1, <1>2 DEF Written, Write, Files

LEMMA ReplaceStep ==
  ASSUME Inv, Replace PROVE WholeFiles' /\ FileInv' /\ FileIsCurrent'
<1>1. /\ pc = "replace" /\ Written /\ UNCHANGED <<fails, sightings, pads, final>>
      /\ file \in Files /\ DOMAIN disk = Files
  BY DEF Replace, memory, Inv, TypeOK
<1>2. /\ PadsText' = PadsText /\ SummaryText' = SummaryText
  BY <1>1, SameText
<1>3. /\ disk'[file] = Text(file)
      /\ \A f \in Files : f # file => disk'[f] = disk[f]
  BY <1>1 DEF Replace, Inv, FileInv
<1>4. /\ file = "pads" => disk'["pads"] = PadsText
      /\ file # "pads" => disk'["pads"] = disk["pads"]
      /\ file = "summary" => disk'["summary"] = SummaryText
      /\ file # "summary" => disk'["summary"] = disk["summary"]
  BY <1>3 DEF Text, Files
<1>5. /\ pc' \in {"idle", "open", "exit"}
      /\ ~final => pc' = "idle" /\ file' = file /\ file # "summary"
      /\ final /\ file = "pads" => pc' = "open" /\ file' = "summary"
      /\ final /\ file # "pads" =>
           pc' = "exit" /\ file' = "summary" /\ file = "summary"
      /\ disk["summary"] = None
  BY <1>1, AfterFile
<1>6. WholeFiles'
  BY <1>1, <1>3, TextIsWhole DEF Inv, WholeFiles
<1>7. FileInv'
  <2>1. ASSUME NEW id \in Ids, Shown(id)'
        PROVE  pads'[id] # None /\ pads'[id].world # None
    <3>1. CASE file = "pads"
      BY <1>1, <1>2, <1>4, <2>1, <3>1 DEF Shown, PadsText
    <3>2. CASE file # "pads"
      BY <1>1, <1>4, <2>1, <3>2 DEF Inv, FileInv, Shown
    <3> QED
      BY <3>1, <3>2
  <2>2. disk'["summary"] # None => pc' = "exit" /\ disk'["summary"] = SummaryText'
    BY <1>1, <1>2, <1>4, <1>5
  <2>3. fails' = 0 /\ final' /\ file' = "summary" => disk'["pads"] = PadsText'
    BY <1>1, <1>2, <1>4, <1>5 DEF Inv, FileInv
  <2>4. /\ final' => pc' \in {"open", "fill", "replace", "exit"} /\ file' # "status"
        /\ ~final' => pc' # "exit" /\ file' # "summary"
        /\ pc' # "replace" /\ (pc' = "exit" => file' = "summary")
    BY <1>1, <1>5
  <2> QED
    BY <2>1, <2>2, <2>3, <2>4 DEF FileInv
<1>8. FileIsCurrent'
  BY <1>1, <1>2, <1>4 DEF Inv, FileIsCurrent, Writing
<1> QED
  BY <1>6, <1>7, <1>8

LEMMA WriteFailsStep ==
  ASSUME Inv, WriteFails PROVE WholeFiles' /\ FileInv' /\ FileIsCurrent'
<1>1. /\ pc \in {"open", "fill", "replace"} /\ Written
      /\ UNCHANGED <<disk, sightings, pads, final>>
  BY DEF WriteFails, memory
<1>2. fails' # 0
  BY DEF WriteFails, Inv, TypeOK
<1>3. /\ pc' \in {"idle", "open", "exit"}
      /\ ~final => pc' = "idle" /\ file' = file /\ file # "summary"
      /\ final => pc' \in {"open", "exit"} /\ file' = "summary"
      /\ disk["summary"] = None
  BY <1>1, AfterFile
<1>4. WholeFiles'
  BY <1>1 DEF Inv, WholeFiles
<1>5. FileInv'
  <2>1. \A id \in Ids : Shown(id)' => pads'[id] # None /\ pads'[id].world # None
    BY <1>1 DEF Inv, FileInv, Shown
  <2> QED
    BY <1>1, <1>2, <1>3, <2>1 DEF FileInv
<1>6. FileIsCurrent'
  BY <1>2 DEF FileIsCurrent
<1> QED
  BY <1>4, <1>5, <1>6

LEMMA InvStep == Inv /\ [Next]_vars => Inv'
<1> SUFFICES ASSUME Inv, [Next]_vars PROVE Inv'
  OBVIOUS
<1>1. TypeOK'
  BY TypeStep DEF Inv
<1>2. fails \in Nat /\ fails' \in Nat
  BY <1>1, BoundAssumption DEF Inv, TypeOK
<1>3. CASE DetectMarker \/ SaveImage \/ Kill \/ UNCHANGED vars
  <2>1. /\ UNCHANGED <<sightings, pads, file, final, disk, tmp>> /\ fails' >= fails
        /\ pc' = pc \/ (pc' \in {"idle", "save", "add"} /\ pc \in {"idle", "save", "add"})
    <3>1. CASE DetectMarker
      BY <1>2, <3>1 DEF DetectMarker
    <3>2. CASE SaveImage
      BY <1>2, <3>2 DEF SaveImage, memory
    <3>3. CASE Kill \/ UNCHANGED vars
      BY <1>2, <3>3 DEF Kill, memory, vars
    <3> QED
      BY <1>3, <3>1, <3>2, <3>3
  <2> QED
    BY <1>1, <1>2, <2>1, FilesKept DEF Inv
<1>4. CASE AddSighting \/ WriteStatus \/ Finalise
  BY <1>1, <1>4, AddSightingStep, WriteStep DEF Inv
<1>5. CASE OpenTmp \/ FillTmp \/ Replace \/ WriteFails
  BY <1>1, <1>5, TmpStep, ReplaceStep, WriteFailsStep DEF Inv
<1> QED
  BY <1>3, <1>4, <1>5 DEF Next, Program, Ended

\* The inductive invariant of RunArtifacts holds of every run that writes, fails
\* and is killed (_atomic_write_text, add_sighting, write_status, finalise).
THEOREM Invariant == Spec => []Inv
  BY Initially, InvStep, PTL DEF Spec

\* The variables keep their types.
THEOREM ArtifactTypes == Spec => []TypeOK
<1>1. Inv => TypeOK
  BY DEF Inv
<1> QED
  BY <1>1, Invariant, PTL

\* Whatever fails, and whenever the process is killed, no file under its own
\* name is ever half written (_atomic_write_text).
THEOREM FilesAreWhole == Spec => []WholeFiles
<1>1. Inv => WholeFiles
  BY DEF Inv
<1> QED
  BY <1>1, Invariant, PTL

\* Until a write fails landing_pads.json is the table, but for the sighting
\* that is being written (add_sighting and _write_pads_locked).
THEOREM PadsFileIsCurrent == Spec => []FileIsCurrent
<1>1. Inv => FileIsCurrent
  BY DEF Inv
<1> QED
  BY <1>1, Invariant, PTL

\* Until a write fails run_summary.json and landing_pads.json agree (finalise).
THEOREM FinalFilesAgree == Spec => []FilesAgree
<1>1. Inv => FilesAgree
  <2> SUFFICES ASSUME Inv, fails = 0, disk["summary"] # None
               PROVE  /\ disk["pads"] # None
                      /\ disk["summary"].pads = disk["pads"].pads
                      /\ disk["summary"].num = Len(sightings)
    BY DEF FilesAgree
  <2>1. disk["summary"] = SummaryText /\ pc = "exit"
    BY DEF Inv, FileInv
  <2>2. final
    BY <2>1 DEF Inv, FileInv
  <2>3. disk["pads"] = PadsText
    BY <2>1, <2>2 DEF Inv, FileInv
  <2> QED
    BY <2>1, <2>3, PadsTextIsSome DEF Inv, SummaryText, PadsText
<1> QED
  BY <1>1, Invariant, PTL

\* A position that landing_pads.json has shown for a pad is never taken back.
THEOREM PositionsAreKept == Spec => PositionsStay
<1>1. Inv /\ [Next]_vars => [\A id \in Ids : Shown(id) => Shown(id)']_vars
  <2> SUFFICES ASSUME Inv, Next, NEW id \in Ids, Shown(id) PROVE Shown(id)'
    BY DEF vars
  <2>1. pads[id] # None /\ pads[id].world # None
    BY DEF Inv, FileInv
  <2>2. CASE Replace /\ file = "pads"
    <3>1. disk'["pads"] = PadsText /\ pads' = pads
      BY <2>2 DEF Replace, memory, Inv, FileInv, TypeOK, Text, Files
    <3> QED
      BY <2>1, <3>1, PadsTextIsSome DEF Inv, Shown, PadsText
  <2>3. CASE Replace /\ file # "pads"
    BY <2>3 DEF Replace, Shown, Inv, TypeOK, Files
  <2>4. CASE ~Replace
    <3>1. UNCHANGED disk
      BY <2>4 DEF Next, Program, Ended, Kill, DetectMarker, SaveImage, AddSighting,
                  WriteStatus, Finalise, OpenTmp, FillTmp, WriteFails, memory, vars
    <3> QED
      BY <3>1 DEF Shown
  <2> QED
    BY <2>2, <2>3, <2>4
<1> QED
  BY <1>1, Invariant, PTL DEF Spec, PositionsStay

-----------------------------------------------------------------------------
(* The dedupe *)

\* The marker on its way to the tables is no twin of a sighting in them.
TwinInv == NoTwins /\ (pc \in {"save", "add"} => ~SeenBefore(marker))

LEMMA TwinsInitially == Init => TwinInv
  BY DEF Init, TwinInv, NoTwins

LEMMA TwinStep == TypeOK /\ TwinInv /\ [Next]_vars => TwinInv'
<1> SUFFICES ASSUME TypeOK, TwinInv, [Next]_vars PROVE TwinInv'
  OBVIOUS
<1>1. CASE AddSighting
  <2>1. /\ pc' = "open" /\ marker \in Marks /\ ~SeenBefore(marker)
        /\ sightings \in Seq(Marks) /\ sightings' = Append(sightings, marker)
    BY <1>1 DEF AddSighting, Write, TypeOK, TwinInv
  <2>2. ASSUME NEW i \in 1 .. Len(sightings), sightings[i].id = marker.id,
               sightings[i].world # None, marker.world # None
        PROVE  /\ <<marker.world, sightings[i].world>> \notin Close
               /\ <<sightings[i].world, marker.world>> \notin Close
    <3>1. <<marker.world, sightings[i].world>> \notin Close
      BY <2>1, <2>2 DEF SeenBefore, Of
    <3>2. sightings[i].world \in Worlds /\ marker.world \in Worlds
      <4>1. sightings[i] \in Marks
        BY <2>1
      <4> QED
        BY <2>1, <2>2, <4>1 DEF Marks
    <3> QED
      BY <3>1, <3>2, CloseAssumption
  <2>3. ASSUME NEW i \in 1 .. Len(sightings'), NEW j \in 1 .. Len(sightings'),
               i # j, sightings'[i].id = sightings'[j].id,
               sightings'[i].world # None, sightings'[j].world # None
        PROVE  <<sightings'[i].world, sightings'[j].world>> \notin Close
    <3>1. /\ Len(sightings') = Len(sightings) + 1 /\ Len(sightings) \in Nat
          /\ sightings'[Len(sightings) + 1] = marker
          /\ \A k \in 1 .. Len(sightings) : sightings'[k] = sightings[k]
      BY <2>1
    <3>2. CASE i <= Len(sightings) /\ j <= Len(sightings)
      BY <2>3, <3>1, <3>2 DEF TwinInv, NoTwins
    <3>3. CASE i <= Len(sightings) /\ j = Len(sightings) + 1
      <4>1. i \in 1 .. Len(sightings) /\ sightings'[i] = sightings[i]
        BY <3>1, <3>3
      <4>2. sightings'[j] = marker
        BY <3>1, <3>3
      <4> QED
        BY <2>2, <2>3, <4>1, <4>2
    <3>4. CASE i = Len(sightings) + 1 /\ j <= Len(sightings)
      <4>1. j \in 1 .. Len(sightings) /\ sightings'[j] = sightings[j]
        BY <3>1, <3>4
      <4>2. sightings'[i] = marker
        BY <3>1, <3>4
      <4> QED
        BY <2>2, <2>3, <4>1, <4>2
    <3> QED
      BY <2>3, <3>1, <3>2, <3>3, <3>4
  <2>4. NoTwins'
    BY <2>3 DEF NoTwins
  <2> QED
    BY <2>1, <2>4 DEF TwinInv
<1>2. CASE DetectMarker
  BY <1>2 DEF DetectMarker, TwinInv, NoTwins, SeenBefore, Of
<1>3. CASE SaveImage
  BY <1>3 DEF SaveImage, memory, TwinInv, NoTwins, SeenBefore, Of
<1>4. CASE ~AddSighting /\ ~DetectMarker /\ ~SaveImage
  <2>1. UNCHANGED <<marker, sightings>>
    BY <1>4 DEF Next, Program, Ended, Kill, WriteStatus, Finalise, OpenTmp, FillTmp,
                Replace, WriteFails, memory, vars
  <2>2. pc' \in {"save", "add"} => pc' = pc
    BY <1>4 DEF Next, Program, Ended, Kill, WriteStatus, Finalise, OpenTmp, FillTmp,
                Replace, WriteFails, Written, Write, vars
  <2> QED
    BY <2>1, <2>2 DEF TwinInv, NoTwins, SeenBefore, Of
<1> QED
  BY <1>1, <1>2, <1>3, <1>4

\* Two recorded sightings of one id are never within DEDUPE_RADIUS_M of each
\* other, in whatever order the markers come (_register_sighting).
THEOREM NoTwinsRecorded == Spec => []NoTwins
<1>1. TwinInv => NoTwins
  BY DEF TwinInv
<1> QED
  BY <1>1, ArtifactTypes, TwinsInitially, TwinStep, PTL DEF Spec
=============================================================================
