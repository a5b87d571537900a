---------------------------- MODULE WaypointScan ----------------------------
(***************************************************************************)
(* mapping_drone/controller.py and px4_mission.py: the scan at a waypoint, *)
(* from the frame to the sighting, the record and the mark on the map,     *)
(* while the telemetry loop goes on writing the pose; and the no-fly bench *)
(* mode, which scans until its time is over.  Places are on a line: a tag  *)
(* seen from x and reckoned from the pose p appears p - x off its place.   *)
(***************************************************************************)
EXTENDS Integers, Sequences

CONSTANTS Tags,        \* ids of the pads
          TagPlace,    \* where each lies
          Places,      \* where the vehicle can be
          DEDUPE,      \* DEDUPE_RADIUS_M
          MaxFrames,   \* FRAMES_PER_WAYPOINT times the bound on scans
          Verdicts        \* verdicts the active rule can give

Nowhere == 1000

\* Nowhere stands for a missing world position, "none" for an id not asked about
ASSUME ScanAssumption ==
    /\ "none" \notin Verdicts
    /\ Places \subseteq Int /\ TagPlace \in [Tags -> Int]
    /\ \A t \in Tags, p, q \in Places : TagPlace[t] + (p - q) # Nowhere

VARIABLES scan,        \* program counter, whose scan it is, frames left, the pose of the grid
          frame,       \* where it was taken, and the tags in it with or without depth
          place,       \* where the vehicle is
          pose,        \* state.drone_n, drone_e: the latest telemetry
          seen,        \* self.sightings
          verdict,     \* _validity_cache
          disk,        \* RunWriter: the sightings written, each with its verdict
          onMap         \* the landing pads marked on the grid

scanVars == <<scan, frame, place, pose, seen, verdict, disk, onMap>>

NoFrame == [at |-> Nowhere, tags |-> {}]
Goto(l) == scan' = [scan EXCEPT !.pc = l]

ScanInit ==
    /\ \E m \in {"legacy", "px4", "nofly"} :
         scan = [pc |-> "grab", mode |-> m, left |-> MaxFrames, at |-> Nowhere, stop |-> FALSE]
    /\ frame = NoFrame
    /\ place \in Places /\ pose = place
    /\ seen = <<>>
    /\ verdict = [t \in Tags |-> "none"]
    /\ disk = {}
    /\ onMap = {}

----------------------------------------------------------------------------
(* The frame: grabbed, integrated, searched for tags.  The legacy          *)
(* controller awaits each of the three; px4_mission's pose comes from a    *)
(* thread of its own.                                                      *)

\* each tag in sight is in the frame with its depth, or with none
Frames == { f \in SUBSET (Tags \X BOOLEAN) :
              \A t \in Tags : ~({<<t, TRUE>>, <<t, FALSE>>} \subseteq f) }
GrabFrame ==
    /\ scan.pc = "grab" /\ scan.left > 0
    /\ scan.mode = "px4" => ~scan.stop
    /\ \/ /\ \E f \in Frames : frame' = [at |-> place, tags |-> f]
          /\ scan' = [scan EXCEPT !.pc = "integrate", !.left = @ - 1]
       \/ UNCHANGED frame /\ scan' = [scan EXCEPT !.left = @ - 1]    \* no frame
    /\ UNCHANGED <<place, pose, seen, verdict, disk, onMap>>
IntegrateFrame ==
    /\ scan.pc = "integrate"
    /\ scan' = [scan EXCEPT !.pc = "detect", !.at = pose]
    /\ UNCHANGED <<frame, place, pose, seen, verdict, disk, onMap>>

----------------------------------------------------------------------------
(* _register_sighting, one tag after the other with no await in between.   *)

World(t) == TagPlace[t] + (pose - frame.at)
Sighting(t, depth) ==
    [id |-> t, world |-> IF depth THEN World(t) ELSE Nowhere, confidence |-> IF depth THEN 2 ELSE 1]
WorldDistance(a, b) == IF a > b THEN a - b ELSE b - a
Repeats(s, old) ==
    /\ s.world # Nowhere
    /\ \E i \in DOMAIN old : /\ old[i].id = s.id /\ old[i].world # Nowhere
                             /\ WorldDistance(old[i].world, s.world) < DEDUPE
\* the rule is asked once for each id
ValidityAskedAgain(t, r) == r
ValidityFor(t, r) == IF verdict[t] = "none" THEN r ELSE verdict[t]
MarkedFirst(s, old) == s.world # Nowhere
Marked(s, old) == s.world # Nowhere /\ ~Repeats(s, old)

RegisterSighting ==
    /\ scan.pc = "detect" /\ frame.tags # {}
    /\ \E d \in frame.tags, r \in Verdicts, written \in BOOLEAN :
         LET s == Sighting(d[1], d[2])
             v == ValidityFor(s.id, r)
             new == ~Repeats(s, seen)
         IN  /\ frame' = [frame EXCEPT !.tags = @ \ {d}]
             /\ seen' = IF new THEN Append(seen, s) ELSE seen
             /\ verdict' = IF new THEN [verdict EXCEPT ![s.id] = v] ELSE verdict
             /\ disk' = IF new /\ written THEN disk \cup {[sighting |-> s, valid |-> v]} ELSE disk
             /\ onMap' = IF Marked(s, seen) THEN onMap \cup {<<s.id, s.world>>} ELSE onMap
    /\ UNCHANGED <<scan, place, pose>>
FrameDone ==
    /\ scan.pc = "detect" /\ frame.tags = {}
    /\ scan' = [scan EXCEPT !.pc = "grab", !.at = Nowhere]
    /\ frame' = NoFrame
    /\ UNCHANGED <<place, pose, seen, verdict, disk, onMap>>

----------------------------------------------------------------------------
(* STATUS.txt: each id once, from its most confident sighting.             *)

Better(i, j) == \/ seen[i].confidence > seen[j].confidence
                \/ seen[i].confidence = seen[j].confidence /\ i <= j
Of(t) == { i \in DOMAIN seen : seen[i].id = t }
UniquePad(t) == seen[CHOOSE i \in Of(t) : \A j \in Of(t) : Better(i, j)]
UniquePads == { [id |-> t, world |-> UniquePad(t).world, valid |-> verdict[t]] :
                  t \in { u \in Tags : Of(u) # {} } }
WriteStatus == [num_sightings |-> Len(seen), unique_pads |-> UniquePads]

----------------------------------------------------------------------------
(* The no-fly mode goes on until its time is over, it is stopped or it     *)
(* aborts; a mission scans once at each waypoint.                          *)

NoflyEnds ==
    /\ scan.pc = "grab" /\ scan.mode = "nofly" /\ (scan.left = 0 \/ scan.stop)
    /\ scan' = [scan EXCEPT !.pc = "done", !.stop = TRUE]
    /\ UNCHANGED <<frame, place, pose, seen, verdict, disk, onMap>>
ScanEnds ==
    /\ scan.pc = "grab" /\ scan.mode # "nofly"
    /\ scan.left = 0 \/ (scan.mode = "px4" /\ scan.stop)
    /\ Goto("done")
    /\ UNCHANGED <<frame, place, pose, seen, verdict, disk, onMap>>
ScanStopAsked ==
    /\ ~scan.stop
    /\ scan' = [scan EXCEPT !.stop = TRUE]
    /\ UNCHANGED <<frame, place, pose, seen, verdict, disk, onMap>>

\* the vehicle drifts while it hovers (on the bench it does not move)
Drifts ==
    /\ scan.mode # "nofly" /\ scan.pc # "done"
    /\ place' \in { p \in Places : WorldDistance(p, place) = 1 }
    /\ UNCHANGED <<scan, frame, pose, seen, verdict, disk, onMap>>
TelemetryLoop ==
    /\ scan.pc # "done" /\ pose # place
    /\ pose' = place
    /\ UNCHANGED <<scan, frame, place, seen, verdict, disk, onMap>>

ScanNext == \/ GrabFrame \/ IntegrateFrame \/ RegisterSighting \/ FrameDone \/ NoflyEnds \/ ScanEnds
            \/ ScanStopAsked \/ Drifts \/ TelemetryLoop
ScanSpec == ScanInit /\ [][ScanNext]_scanVars

----------------------------------------------------------------------------
(* "Decide validity exactly once per id and reuse for both STATUS and      *)
(* JSON" (controller.py:983): whatever the rule says later, the two files  *)
(* say the same of every pad.                                              *)
OneVerdict ==
    \A d \in disk, p \in UniquePads : d.sighting.id = p.id => d.valid = p.valid

(* A pad that was ever measured is shown where it was measured, also when  *)
(* it was first seen without its depth; and every pad marked on the map    *)
(* is a sighting, so that map and list agree on what is there.             *)
MeasuredPadsHavePlace ==
    /\ \A p \in UniquePads : (\E i \in DOMAIN seen : seen[i].id = p.id /\ seen[i].world # Nowhere)
                               => <<p.id, p.world>> \in onMap
    /\ \A m \in onMap : \E i \in DOMAIN seen : seen[i].id = m[1] /\ seen[i].world = m[2]

(* List, record and map of the pads agree on verdict and place.            *)
ScanInv == OneVerdict /\ MeasuredPadsHavePlace

(* One frame, one pose: the grid takes the pose before the search for      *)
(* tags, the sightings take it after.  Violated; no run.                   *)
OnePosePerFrame == scan.pc = "detect" /\ frame.tags # {} => pose = scan.at
=============================================================================
