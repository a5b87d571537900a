---------------------------- MODULE RunArtifacts ----------------------------
(***************************************************************************)
(* What a run of the mapping drone leaves behind: _register_sighting of    *)
(* moveit_mission.py and the RunWriter it hands its sightings to.  A       *)
(* sighting goes through the dedupe, the image, the two tables and an      *)
(* atomic rewrite of landing_pads.json; STATUS.txt is rewritten between    *)
(* scans and run_summary.json at the end.  The process may be killed       *)
(* between any two steps, and any write may fail.                          *)
(*                                                                         *)
(* The mission's list of sightings and the writer's hold the same          *)
(* sightings in the same order and are one variable here.  A sighting has  *)
(* confidence 1.0 when it has a world position and 0.5 when it has none,   *)
(* so the position stands for the confidence as well.                      *)
(***************************************************************************)
EXTENDS Integers, Sequences, FiniteSets

CONSTANTS
  None,
  Ids,       \* aruco_ids
  Worlds,    \* world positions
  Close,     \* the pairs of positions less than DEDUPE_RADIUS_M apart
  Verdict,   \* decide_landing_validity of each id: TRUE, FALSE or None
  MaxMarks,  \* bound on the markers detected in a run
  MaxFails   \* bound on the writes that fail

\* The records of the table, by aruco_id.
Pads ==
  [world : Worlds \cup {None}, image : Nat, first : Nat, last : Nat,
   count : Nat, valid : BOOLEAN]

\* What a file holds that is not complete.
Half == [partial |-> TRUE]

ASSUME BoundAssumption == MaxMarks \in Nat /\ MaxFails \in Nat

\* None is none of the things that it stands for the absence of.
ASSUME NoneAssumption ==
  /\ None # Half
  /\ None \notin Worlds
  /\ None \notin Pads
  /\ None \notin [pads : [Ids -> Pads \cup {None}]]

ASSUME CloseAssumption ==
  /\ Close \subseteq Worlds \X Worlds
  /\ \A p \in Worlds : <<p, p>> \in Close
  /\ \A p, q \in Worlds : <<p, q>> \in Close => <<q, p>> \in Close

ASSUME VerdictAssumption == Verdict \in [Ids -> BOOLEAN \cup {None}]

VARIABLES
  alive,      \* has the process not been killed?
  pc,         \* "idle" between two markers, "save", "add", then the steps of
              \* _atomic_write_text, "exit" when finalise has returned
  marker,     \* the marker that _register_sighting is about
  now,        \* markers detected so far: the time stamps of sightings
  sightings,  \* MoveItMission.sightings and RunWriter._sightings
  pads,       \* RunWriter._pads; None where there is no record
  file,       \* the file that _atomic_write_text is writing
  final,      \* has finalise been called?
  disk,       \* the run directory's files; None where there is none
  tmp,        \* their .tmp siblings
  images,     \* time stamps of the markers whose image was written
  fails       \* writes that failed

memory == <<marker, now, sightings, pads>>
vars   == <<alive, pc, memory, file, final, disk, tmp, images, fails>>

Files == {"status", "pads", "summary"}

\* A sighting's confidence, as an order.
Confidence(world) == IF world = None THEN 1 ELSE 2

Of(id) == {i \in 1 .. Len(sightings) : sightings[i].id = id}

-----------------------------------------------------------------------------
(* What the files say *)

\* landing_pads.json is the table as it is.
PadsText == [pads |-> pads]

\* _unique_pads: of the sightings of an id the first with the best confidence.
Best(id) ==
  CHOOSE i \in Of(id) :
    \A j \in Of(id) :
      LET ci == Confidence(sightings[i].world)
          cj == Confidence(sightings[j].world)
      IN  cj < ci \/ (cj = ci /\ i <= j)

\* STATUS.txt: how many sightings, and where each id is.
StatusText ==
  [num  |-> Len(sightings),
   pads |-> [id \in Ids |-> IF Of(id) = {}
                            THEN None
                            ELSE [world |-> sightings[Best(id)].world]]]

SummaryText == [num |-> Len(sightings), pads |-> pads]

Text(f) ==
  CASE f = "pads"    -> PadsText
    [] f = "status"  -> StatusText
    [] f = "summary" -> SummaryText

-----------------------------------------------------------------------------
\* RunWriter() has made the directory and seeded STATUS.txt.
Init ==
  /\ alive = TRUE /\ pc = "idle"
  /\ marker = None /\ now = 0 /\ sightings = <<>>
  /\ pads = [id \in Ids |-> None]
  /\ file = "status" /\ final = FALSE
  /\ disk = [f \in Files |-> IF f = "status" THEN StatusText ELSE None]
  /\ tmp = [f \in Files |-> None]
  /\ images = {} /\ fails = 0

\* A marker with the position of an earlier sighting of its id is dropped;
\* one without a position never is.
SeenLast(m) ==
  /\ m.world # None /\ sightings # <<>>
  /\ LET s == sightings[Len(sightings)]
     IN  s.id = m.id /\ <<m.world, s.world>> \in Close

SeenBefore(m) ==
  /\ m.world # None
  /\ \E i \in Of(m.id) :
       sightings[i].world # None /\ <<m.world, sightings[i].world>> \in Close

DetectMarker ==
  /\ pc = "idle" /\ ~final /\ now < MaxMarks
  /\ now' = now + 1
  /\ \E id \in Ids, world \in Worlds \cup {None} :
       LET m == [id |-> id, world |-> world, at |-> now']
       IN  IF SeenBefore(m)
           THEN UNCHANGED <<pc, marker>>
           ELSE pc' = "save" /\ marker' = m
  /\ UNCHANGED <<alive, sightings, pads, file, final, disk, tmp, images, fails>>

\* save_marker_image returns the path, written or not.
SaveImage ==
  /\ pc = "save"
  /\ pc' = "add"
  /\ \/ images' = images \cup {marker.at} /\ UNCHANGED fails
     \/ /\ fails < MaxFails
        /\ fails' = fails + 1 /\ UNCHANGED images
  /\ UNCHANGED <<alive, memory, file, final, disk, tmp>>

\* add_sighting: the new sighting becomes the record of its pad if that has
\* none, or if it has a position and no less confidence than the record.
KeepNewest(prev, m) == TRUE
KeepFirst(prev, m)  == prev = None

KeepNew(prev, m) ==
  \/ prev = None
  \/ m.world # None /\ Confidence(m.world) >= Confidence(prev.world)

\* As an earlier version of add_sighting did (FIX_SUMMARY.md).
RecordAnew(prev, m) ==
  [world |-> m.world, image |-> m.at, first |-> m.at, last |-> m.at,
   count |-> 1, valid |-> Verdict[m.id] = TRUE]

\* The verdict as it is, without bool().
RecordRaw(prev, m) ==
  [world |-> m.world, image |-> m.at, first |-> m.at, last |-> m.at,
   count |-> 1, valid |-> Verdict[m.id]]

Record(prev, m) ==
  LET kept == prev # None /\ ~KeepNew(prev, m)
  IN  [world |-> IF kept THEN prev.world ELSE m.world,
       image |-> IF kept THEN prev.image ELSE m.at,
       first |-> IF prev = None THEN m.at ELSE prev.first,
       last  |-> m.at,
       count |-> IF prev = None THEN 1 ELSE prev.count + 1,
       valid |-> Verdict[m.id] = TRUE]

\* _atomic_write_text is called for file f.
Write(f) == pc' = "open" /\ file' = f

\* The file is left to finalise.
AddLazily ==
  /\ pc = "add"
  /\ sightings' = Append(sightings, marker)
  /\ pads' = [pads EXCEPT ![marker.id] = Record(@, marker)]
  /\ pc' = "idle"
  /\ UNCHANGED <<alive, marker, now, file, final, disk, tmp, images, fails>>

AddSighting ==
  /\ pc = "add"
  /\ sightings' = Append(sightings, marker)
  /\ pads' = [pads EXCEPT ![marker.id] = Record(@, marker)]
  /\ Write("pads")
  /\ UNCHANGED <<alive, marker, now, final, disk, tmp, images, fails>>

\* The mission rewrites STATUS.txt between its scans.
WriteStatus ==
  /\ pc = "idle" /\ ~final
  /\ Write("status")
  /\ UNCHANGED <<alive, memory, final, disk, tmp, images, fails>>

\* The pads are left as add_sighting wrote them.
FinaliseSummary ==
  /\ pc = "idle" /\ ~final
  /\ final' = TRUE
  /\ Write("summary")
  /\ UNCHANGED <<alive, memory, disk, tmp, images, fails>>

\* main() is done with the mission, however that ended: the pads once more.
Finalise ==
  /\ pc = "idle" /\ ~final
  /\ final' = TRUE
  /\ Write("pads")
  /\ UNCHANGED <<alive, memory, disk, tmp, images, fails>>

-----------------------------------------------------------------------------
(* _atomic_write_text, and what comes after it *)

\* finalise is done after the pads.
WrittenOnce == pc' = (IF final THEN "exit" ELSE "idle") /\ UNCHANGED file

\* finalise goes on from the pads to the summary, and is done after it.
Written ==
  IF ~final
  THEN pc' = "idle" /\ UNCHANGED file
  ELSE IF file = "pads"
       THEN Write("summary")
       ELSE pc' = "exit" /\ UNCHANGED file

\* Written in place, as it would be without the sibling.
OpenInPlace ==
  /\ pc = "open"
  /\ disk' = [disk EXCEPT ![file] = Half]
  /\ tmp' = [tmp EXCEPT ![file] = Half]
  /\ pc' = "fill"
  /\ UNCHANGED <<alive, memory, file, final, images, fails>>

OpenTmp ==
  /\ pc = "open"
  /\ tmp' = [tmp EXCEPT ![file] = Half]
  /\ pc' = "fill"
  /\ UNCHANGED <<alive, memory, file, final, disk, images, fails>>

FillTmp ==
  /\ pc = "fill"
  /\ tmp' = [tmp EXCEPT ![file] = Text(file)]
  /\ pc' = "replace"
  /\ UNCHANGED <<alive, memory, file, final, disk, images, fails>>

Replace ==
  /\ pc = "replace"
  /\ disk' = [disk EXCEPT ![file] = tmp[file]]
  /\ tmp' = [tmp EXCEPT ![file] = None]
  /\ Written
  /\ UNCHANGED <<alive, memory, final, images, fails>>

\* Any of the three raises: logged, the sibling is unlinked if that works.
WriteFails ==
  /\ pc \in {"open", "fill", "replace"}
  /\ fails < MaxFails
  /\ fails' = fails + 1
  /\ \/ tmp' = [tmp EXCEPT ![file] = None]
     \/ UNCHANGED tmp
  /\ Written
  /\ UNCHANGED <<alive, memory, final, disk, images>>

Kill ==
  /\ alive /\ pc # "exit"
  /\ alive' = FALSE
  /\ UNCHANGED <<pc, memory, file, final, disk, tmp, images, fails>>

Ended == (~alive \/ pc = "exit") /\ UNCHANGED vars

Program ==
  /\ alive
  /\ \/ DetectMarker \/ SaveImage \/ AddSighting \/ WriteStatus \/ Finalise
     \/ OpenTmp \/ FillTmp \/ Replace \/ WriteFails

Next == Program \/ Kill \/ Ended

Spec == Init /\ [][Next]_vars

\* The mission comes to its end however often it scans (MoveItMission has that
\* as Terminates), and what has begun to be written goes on.
FairSpec ==
  /\ Spec
  /\ SF_vars(alive /\ Finalise)
  /\ WF_vars(alive /\ (SaveImage \/ AddSighting \/ OpenTmp \/ FillTmp \/ Replace))

-----------------------------------------------------------------------------
(* Properties *)

Marks == [id : Ids, world : Worlds \cup {None}, at : 1 .. MaxMarks]

TypeOK ==
  /\ alive \in BOOLEAN /\ final \in BOOLEAN
  /\ pc \in {"idle", "save", "add", "open", "fill", "replace", "exit"}
  /\ marker \in Marks \cup {None}
  /\ pc \in {"save", "add"} => marker \in Marks
  /\ now \in 0 .. MaxMarks
  /\ sightings \in Seq(Marks)
  /\ pads \in [Ids -> Pads \cup {None}]
  /\ file \in Files
  /\ DOMAIN disk = Files /\ DOMAIN tmp = Files
  /\ images \subseteq 1 .. MaxMarks
  /\ fails \in 0 .. MaxFails

\* "judges never see a half file": whatever is killed or fails, and whenever.
WholeFiles == \A f \in Files : disk[f] # Half

\* Two recorded sightings of one id are never at the same place.
NoTwins ==
  \A i, j \in 1 .. Len(sightings) :
    /\ i # j /\ sightings[i].id = sightings[j].id
    /\ sightings[i].world # None /\ sightings[j].world # None
    => <<sightings[i].world, sightings[j].world>> \notin Close

\* HANDOFF_C1_TO_C2.md, "Per-pad schema": each pad's record is what the whole
\* list of its sightings says, although it is updated one sighting at a time:
\* the first and the last time stamp, how many there were, the position of the
\* latest sighting that had one, and an image of that sighting.
RecordOf(id) ==
  LET known == {i \in Of(id) : sightings[i].world # None}
      shown == IF known = {}
               THEN CHOOSE i \in Of(id) : \A j \in Of(id) : i <= j
               ELSE CHOOSE i \in known : \A j \in known : j <= i
      first == CHOOSE i \in Of(id) : \A j \in Of(id) : i <= j
      last  == CHOOSE i \in Of(id) : \A j \in Of(id) : j <= i
  IN  [world |-> sightings[shown].world, image |-> sightings[shown].at,
       first |-> sightings[first].at,    last  |-> sightings[last].at,
       count |-> Cardinality(Of(id)),    valid |-> Verdict[id] = TRUE]

PadsAreSightings ==
  \A id \in Ids : pads[id] = IF Of(id) = {} THEN None ELSE RecordOf(id)

\* "always current even if the run is killed": until a write fails, the file
\* lacks at most the sighting whose write was under way.
Writing(f) == pc \in {"open", "fill", "replace"} /\ file = f

FileIsCurrent ==
  fails = 0 /\ ~Writing("pads") /\ (disk["pads"] # None \/ sightings # <<>>)
    => disk["pads"] = PadsText

\* Until a write fails, STATUS.txt shows no pad, and no position of a pad,
\* that landing_pads.json does not have.
StatusWithinPads ==
  fails = 0 =>
    \A id \in Ids :
      LET s == disk["status"].pads[id]
          p == disk["pads"].pads[id]
      IN  s # None => /\ disk["pads"] # None /\ p # None
                      /\ s.world # None => p.world # None

Shown(id) ==
  /\ disk["pads"] # None /\ disk["pads"].pads[id] # None
  /\ disk["pads"].pads[id].world # None

\* A position that landing_pads.json has shown for a pad never becomes null.
PositionsStay ==
  [][\A id \in Ids : Shown(id) => Shown(id)']_vars

\* The two files that finalise writes agree, unless one of the writes failed.
FilesAgree ==
  fails = 0 /\ disk["summary"] # None
    => /\ disk["pads"] # None
       /\ disk["summary"].pads = disk["pads"].pads
       /\ disk["summary"].num = Len(sightings)

\* A mission that is not killed, and whose writes succeed, leaves a summary.
SummaryLeft == <>(~alive \/ fails > 0 \/ disk["summary"] # None)

\* How _atomic_write_text, add_sighting and finalise follow one another: what
\* is about to be moved into place is the file's text of now, the program is
\* done when the summary is in place, and that is only written after the pads.
FileInv ==
  /\ pc = "replace" => tmp[file] = Text(file)
  /\ final => pc \in {"open", "fill", "replace", "exit"} /\ file # "status"
  /\ ~final => pc # "exit" /\ file # "summary"
  /\ pc = "exit" => file = "summary"
  /\ disk["summary"] # None => pc = "exit" /\ disk["summary"] = SummaryText
  /\ fails = 0 /\ final /\ file = "summary" => disk["pads"] = PadsText
  /\ \A id \in Ids : Shown(id) => pads[id] # None /\ pads[id].world # None

\* The inductive invariant: files are whole and current, and _atomic_write_text,
\* add_sighting and finalise leave no room between the tables and their texts.
Inv == TypeOK /\ WholeFiles /\ FileInv /\ FileIsCurrent

-----------------------------------------------------------------------------
(* What the documents say of the files and the code does not do *)

\* A null validity_classification is an id that the rule did not classify.
NullMeansUnclassified ==
  \A id \in Ids : pads[id] # None => (Verdict[id] # None \/ pads[id].valid # FALSE)

\* No .tmp file outlives the process.
NoOrphanTmp == ~alive => \A f \in Files : tmp[f] = None

\* image_path is the path of an image.
ImageExists ==
  disk["pads"] # None =>
    \A id \in Ids :
      LET p == disk["pads"].pads[id] IN p # None => p.image \in images
=============================================================================
