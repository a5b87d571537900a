--------------------------- MODULE SearchRecords ---------------------------
(***************************************************************************)
(* What searchctl/controller.py writes down while it flies.  The camera's  *)
(* callback starts a thread for a frame; the thread appends a record for   *)
(* every box it sees.  A task of the loop puts depth frames on a map, and  *)
(* another rewrites run_summary.json and STATUS.txt from the records, in   *)
(* threads of the executor.  At the end the tasks are cancelled (what is   *)
(* in the executor goes on), the craft lands, and run() writes the map and *)
(* the summary itself.  Nothing but the busy flag and the lock of the      *)
(* depth frame keeps the threads apart.                                    *)
(***************************************************************************)
EXTENDS Integers, FiniteSets, Sequences

CONSTANTS
  Threads,       \* inference threads
  NoSum, Torn,   \* no file yet; a file that was truncated and not filled
  MaxFrames,     \* bound: frames of each camera
  MaxBoxes,      \* bound: boxes in a frame that are not toxic
  MaxTicks,      \* bound: passes of the status writer
  MaxPoints      \* MAP_MAX_POINTS, in frames

ASSUME RecordsAssumption == {MaxFrames, MaxBoxes, MaxTicks, MaxPoints} \subseteq Nat

VARIABLES
  \* the camera and the inference threads
  frames, busy, thread, detectionCount, detections,
  \* the craft: in the air, and what the telemetry said last
  up, inAir,
  \* the depth camera and the map
  latest, consumed, points, saved,
  \* is there a map, the thread that draws it, and the picture, map.png
  hasMap, painter, png,
  \* the status writer, the job it has in the executor, and the files
  writer, sum, ticks, job, json, status,
  \* run(): "flying", "landing", "map", "unique", "count", "list", "open",
  \* "fill" or "over"
  main, mainSum

camera == <<frames, busy, thread, detectionCount, detections>>
craftVars == <<up, inAir>>
picture == <<painter, png>>
map == <<latest, consumed, points, saved, hasMap, picture>>
writerVars == <<writer, sum, ticks, job>>
outputs == <<json, status>>
runVars == <<main, mainSum>>
recordVars == <<camera, craftVars, map, writerVars, outputs, runVars>>

Empty == [unique |-> 0, count |-> 0, listed |-> 0]
Idle == [pc |-> "none", boxes |-> 0]
NoJob == [file |-> "none", pc |-> "none", sum |-> Empty]
NoPaint == [pc |-> "none", shows |-> <<>>]

\* Without what it needs, or without the topic, there is no map.
SetupMapping ==
  /\ hasMap \in BOOLEAN /\ latest = 0 /\ consumed = 0
  /\ points = <<>> /\ saved = <<>> /\ painter = NoPaint /\ png = <<>>

RecordsInit ==
  /\ frames = 0 /\ busy = FALSE /\ thread = [t \in Threads |-> Idle]
  /\ detectionCount = 0 /\ detections = <<>> /\ up = TRUE /\ inAir = TRUE
  /\ SetupMapping
  /\ writer = "unique" /\ sum = Empty /\ ticks = 0 /\ job = NoJob
  /\ json = NoSum /\ status = NoSum /\ main = "flying" /\ mainSum = Empty

-----------------------------------------------------------------------------
(* Detection.                                                              *)
Subscribed == main \in {"flying", "landing"}

\* The callback hands every frame to a thread.
StartsUnasked(t) ==
  /\ busy' = TRUE /\ thread[t].pc = "none"
  /\ thread' = [thread EXCEPT ![t] = [pc |-> "infer", boxes |-> 0]]

Starts(t) ==
  /\ ~busy /\ busy' = TRUE /\ thread[t].pc = "none"
  /\ thread' = [thread EXCEPT ![t] = [pc |-> "infer", boxes |-> 0]]

\* A frame that comes while one is worked on is dropped, as is a torn one.
ImageCallback ==
  /\ Subscribed /\ frames < MaxFrames /\ frames' = frames + 1
  /\ (\E t \in Threads : Starts(t)) \/ UNCHANGED <<busy, thread>>
  /\ UNCHANGED <<detectionCount, detections, craftVars, map, writerVars, outputs,
                 runVars>>

\* An exception ends the thread and leaves the flag set.
EndsBusy(t) ==
  /\ thread' = [thread EXCEPT ![t] = Idle]
  /\ busy' \in {FALSE, busy}

Ends(t) == thread' = [thread EXCEPT ![t] = Idle] /\ busy' = FALSE

\* Nothing, an exception, or boxes, which count only in the air.
Infer(t) ==
  /\ thread[t].pc = "infer"
  /\ \/ Ends(t)
     \/ /\ inAir /\ UNCHANGED busy
        /\ \E b \in 1..MaxBoxes :
             thread' = [thread EXCEPT ![t] = [pc |-> "add", boxes |-> b]]
  /\ UNCHANGED <<frames, detectionCount, detections, craftVars, map,
                 writerVars, outputs, runVars>>

\* The box is counted, then its record is appended.
CountBox(t) ==
  /\ thread[t].pc = "add" /\ detectionCount' = detectionCount + 1
  /\ thread' = [thread EXCEPT ![t].pc = "append"] /\ UNCHANGED detections

Add(t) ==
  /\ CountBox(t)
  /\ UNCHANGED <<frames, busy, craftVars, map, writerVars, outputs, runVars>>

RecordBox(t) ==
  /\ thread[t].pc = "append"
  /\ detections' = Append(detections, [seq |-> detectionCount, air |-> up])
  /\ IF thread[t].boxes = 1 THEN Ends(t)
     ELSE /\ thread' = [thread EXCEPT ![t] = [pc |-> "add", boxes |-> @.boxes - 1]]
          /\ UNCHANGED busy
  /\ UNCHANGED <<frames, detectionCount, craftVars, map, writerVars, outputs,
                 runVars>>

-----------------------------------------------------------------------------
(* The map.                                                                *)
DepthCallback ==
  /\ Subscribed /\ hasMap /\ latest < MaxFrames /\ latest' = latest + 1
  /\ UNCHANGED <<camera, craftVars, consumed, points, saved, hasMap, picture,
                 writerVars, outputs, runVars>>

LastOf(s) ==
  IF Len(s) <= MaxPoints THEN s ELSE SubSeq(s, Len(s) - MaxPoints + 1, Len(s))

\* The time of the frame is not kept.
ConsumeAgain(f) == points' = LastOf(Append(points, f)) /\ UNCHANGED consumed

\* A frame in which nothing can be seen, or that raises, adds no points.
Consume(f) ==
  /\ consumed' = f
  /\ points' = LastOf(Append(points, f)) \/ UNCHANGED points

\* Now and then the new map is drawn, in a thread that the task waits for.
MappingTask ==
  /\ main = "flying" /\ painter = NoPaint
  /\ latest # consumed /\ latest # 0 /\ Consume(latest)
  /\ \/ UNCHANGED painter
     \/ points' # points /\ painter' = [pc |-> "draws", shows |-> points']
  /\ UNCHANGED <<camera, craftVars, latest, saved, hasMap, png, writerVars,
                 outputs, runVars>>

\* A picture that cannot be drawn is left as it was.
RenderPng ==
  /\ painter.pc = "draws" /\ png' \in {painter.shows, png} /\ painter' = NoPaint
  /\ UNCHANGED <<camera, craftVars, latest, consumed, points, saved, hasMap,
                 writerVars, outputs, runVars>>

-----------------------------------------------------------------------------
(* The summary: the unique barrels, the count and the list are read one    *)
(* after the other, and the inference thread may be anywhere between.      *)
ReadPart(s, part) ==
  CASE part = "unique" -> [s EXCEPT !.unique = Len(detections)]
    [] part = "count"  -> [s EXCEPT !.count = detectionCount]
    [] part = "list"   -> [s EXCEPT !.listed = Len(detections)]

After(part) ==
  CASE part = "unique" -> "count" [] part = "count" -> "list" [] OTHER -> "json"

WriterReads ==
  /\ main = "flying" /\ writer \in {"unique", "count", "list"}
  /\ sum' = ReadPart(sum, writer) /\ writer' = After(writer)
  /\ UNCHANGED <<camera, craftVars, map, ticks, job, outputs, runVars>>

\* The text goes to a thread; the task waits for it.
WriterHands ==
  /\ main = "flying" /\ writer \in {"json", "status"} /\ job = NoJob
  /\ job' = [file |-> writer, pc |-> "open", sum |-> sum]
  /\ writer' = IF writer = "json" THEN "jsonWait" ELSE "statusWait"
  /\ UNCHANGED <<camera, craftVars, map, sum, ticks, outputs, runVars>>

\* The second file is skipped when the first cannot be written.
WriterGoesOn ==
  /\ main = "flying" /\ job = NoJob
  /\ \/ writer = "jsonWait" /\ writer' \in {"status", "sleep"} /\ UNCHANGED ticks
     \/ writer = "statusWait" /\ writer' = "sleep" /\ UNCHANGED ticks
     \/ /\ writer = "sleep" /\ ticks < MaxTicks
        /\ ticks' = ticks + 1 /\ writer' = "unique"
  /\ UNCHANGED <<camera, craftVars, map, sum, job, outputs, runVars>>

ToFile(f, v) ==
  IF f = "json" THEN json' = v /\ UNCHANGED status
  ELSE status' = v /\ UNCHANGED json

JobOpens ==
  /\ job.pc = "open" /\ ToFile(job.file, Torn)
  /\ job' = [job EXCEPT !.pc = "fill"]
  /\ UNCHANGED <<camera, craftVars, map, writer, sum, ticks, runVars>>

JobFills ==
  /\ job.pc = "fill" /\ ToFile(job.file, job.sum) /\ job' = NoJob
  /\ UNCHANGED <<camera, craftVars, map, writer, sum, ticks, runVars>>

-----------------------------------------------------------------------------
(* The end of run().                                                       *)
Telemetry ==
  /\ main = "flying" /\ inAir # up /\ inAir' = up
  /\ UNCHANGED <<camera, up, map, writerVars, outputs, runVars>>

\* The tasks are cancelled; the telemetry is one of them.
Cancelled ==
  /\ main = "flying" /\ main' = "landing" /\ writer' = "cancelled"
  /\ UNCHANGED <<camera, craftVars, map, sum, ticks, job, outputs, mainSum>>

Landed ==
  /\ main = "landing" /\ main' = "map" /\ up' = FALSE
  /\ UNCHANGED <<camera, inAir, map, writerVars, outputs, mainSum>>

\* Either file may fail to be written.
TeardownMapping ==
  /\ main = "map" /\ main' = "unique"
  /\ saved' \in (IF hasMap THEN {points, saved} ELSE {saved})
  /\ png' \in (IF hasMap THEN {points, png} ELSE {png})
  /\ UNCHANGED <<camera, craftVars, latest, consumed, points, hasMap, painter,
                 writerVars, outputs, mainSum>>

WriteRunSummary ==
  /\ \/ /\ main \in {"unique", "count", "list"} /\ UNCHANGED outputs
        /\ mainSum' = ReadPart(mainSum, main)
        /\ main' = IF main = "list" THEN "open" ELSE After(main)
     \/ /\ main = "open" /\ ToFile("json", Torn)
        /\ main' = "fill" /\ UNCHANGED mainSum
     \/ /\ main = "fill" /\ ToFile("json", mainSum)
        /\ main' = "over" /\ UNCHANGED mainSum
  /\ UNCHANGED <<camera, craftVars, map, writerVars>>

InferenceNext == \E t \in Threads : Infer(t) \/ Add(t) \/ RecordBox(t)

WriterNext ==
  WriterReads \/ WriterHands \/ WriterGoesOn \/ JobOpens \/ JobFills

RunNext == Cancelled \/ Landed \/ TeardownMapping \/ WriteRunSummary

RecordsNext ==
  \/ ImageCallback \/ InferenceNext \/ DepthCallback \/ MappingTask \/ RenderPng
  \/ WriterNext \/ Telemetry \/ RunNext

RecordsSpec == RecordsInit /\ [][RecordsNext]_recordVars

-----------------------------------------------------------------------------
(* Although nothing locks the records against the two that read them, a    *)
(* summary never claims unique barrels that it has not counted, and counts *)
(* at most one more than it lists.                                         *)
SummariesAddUp ==
  \A s \in {json, status} \ {NoSum, Torn} :
    s.unique <= s.count /\ s.count <= s.listed + 1 /\ s.unique <= s.listed

(* A thread is started for a frame at a time, so the sequence numbers of   *)
(* the records are those of their places, whatever frames are dropped or   *)
(* raise, during the landing as well.                                      *)
RecordsNumbered == \A i \in DOMAIN detections : detections[i].seq = i

(* No depth frame is put on the map twice, the map keeps the newest, and   *)
(* what is saved at the end, if anything is, is all that was kept.         *)
MapIsInOrder ==
  /\ \A i, j \in DOMAIN points : i < j => points[i] < points[j]
  /\ Len(points) <= MaxPoints
  /\ main \in {"unique", "count", "list", "open", "fill", "over"} =>
       saved \in {points, <<>>}

(* The flag that drops frames is set only while a thread works on one, so  *)
(* a frame that raises does not blind the rest of the flight.              *)
BusyMeansWorking == busy => \E t \in Threads : thread[t] # Idle

(* Records, map and summaries fit together without a lock.                 *)
RecordsInv == SummariesAddUp /\ RecordsNumbered /\ MapIsInOrder /\ BusyMeansWorking

(* "run_summary.json" of a run that is over is the one written at the end: *)
(* cancelling the status writer does not stop its thread.                  *)
SummaryIsTheLast == main = "over" => json = mainSum

(* "final map saved" (teardown_mapping): the thread that the mapping task   *)
(* started goes on when the task is cancelled, and may draw an older map   *)
(* over the last one; or the last one cannot be drawn.  Violated; no run.  *)
PictureIsTheLast == main = "over" /\ painter = NoPaint => png = points

(* "detection ... pose" (the line logged for a frame): a record was made   *)
(* in the air.                                                             *)
RecordsAreAirborne == \A i \in DOMAIN detections : detections[i].air
=============================================================================
