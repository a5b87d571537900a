----------------------------- MODULE BenchModes -----------------------------
(***************************************************************************)
(* mapping_drone/moveit_mission.py: main() around its three modes, and the *)
(* two that do not fly, --check (is the link there, are there positions?)  *)
(* and --nofly (scan on the bench).  What --fly does is MoveItMission.     *)
(* Lengths are centimetres, time is in ticks.                              *)
(***************************************************************************)
EXTENDS Integers, Sequences, FiniteSets, FiniteSetsExt

CONSTANTS
  RouteFiles,     \* what --waypoints names: [given, readable, rows]
  MaxFlight,      \* --max-flight-time-s
  SettleTime,     \* how long --nofly waits for a first fix; 10 s
  ScanTime        \* longest a scan takes

\* a row that is read has two coordinates
ASSUME BenchAssumption ==
  /\ {MaxFlight, SettleTime, ScanTime} \subseteq Nat \ {0}
  /\ \A f \in RouteFiles :
       f.rows \in Seq([length : Nat, numeric : BOOLEAN, n : Int, e : Int])

VARIABLES
  bench,          \* the program: step, mode, exit code, aborted and _stop,
                  \* and is mission there (with its signal handlers)?
  elapsed, until, \* since the mode began; --nofly's deadline
  orders,          \* the waypoint file and whether a warning was given
  up,             \* what was started and not told to stop
  air,            \* did the link come up, was there a packet?
  summary         \* run_summary.json: is it there, and its "aborted"

benchVars == <<bench, elapsed, until, orders, up, air, summary>>

BenchModeNames == {"fly", "nofly", "check"}
ArenaW == 550
ArenaL == 1100
ArenaMargin == 70
DEFAULT_WAYPOINTS == [k \in 1 .. 4 |-> [length |-> 2, numeric |-> TRUE, n |-> 100 + 100 * k, e |-> 200]]

BenchInit ==
  /\ bench = [pc |-> "parse", mode |-> "fly", code |-> 0, aborted |-> FALSE, stop |-> FALSE,
              mission |-> FALSE]
  /\ elapsed = 0 /\ until = 0
  /\ orders \in [file : RouteFiles, warned : {FALSE}]
  /\ up = {} /\ air = [link |-> FALSE, packet |-> FALSE]
  /\ summary = [left |-> FALSE, aborted |-> FALSE]

At(step) == bench.pc = step
GoOn(step) == bench' = [bench EXCEPT !.pc = step]
others == <<elapsed, until, orders, up, air, summary>>

\* Ends in the finally block, with a code.
Leave(exitCode) == bench' = [bench EXCEPT !.pc = "finalise", !.code = exitCode]
\* The same, aborted: an exception is code 1, and so is run_fly's own.
Aborts(exitCode) ==
  bench' = [bench EXCEPT !.pc = "finalise", !.code = exitCode, !.aborted = TRUE]
Crashes == Aborts(1)

-----------------------------------------------------------------------------
(* _load_waypoints, _sanity_check_waypoints *)

BadRow(row) == row.length < 2 \/ ~row.numeric
Loads(f) ==
  f.given => f.readable /\ f.rows # <<>> /\ \A i \in DOMAIN f.rows : ~BadRow(f.rows[i])
Waypoints(f) == IF f.given THEN f.rows ELSE DEFAULT_WAYPOINTS

Spread(wps, axis) ==
  LET at == {wps[i][axis] : i \in DOMAIN wps} IN Max(at) - Min(at)
TooWide(wps) ==
  Spread(wps, "n") > ArenaL + 50 \/ Spread(wps, "e") > ArenaW + 50
TooSmall(wps) ==
  \/ 10 * Spread(wps, "n") < 6 * (ArenaL - 2 * ArenaMargin)
  \/ 10 * Spread(wps, "e") < 6 * (ArenaW - 2 * ArenaMargin)
Warns(f) == f.given /\ (TooWide(Waypoints(f)) \/ TooSmall(Waypoints(f)))

-----------------------------------------------------------------------------
(* main() *)

\* _parse_args: one mode at most, --fly when there is none.
ParseArgs ==
  /\ At("parse")
  /\ \E given \in SUBSET BenchModeNames :
       bench' = IF Cardinality(given) > 1 THEN [bench EXCEPT !.pc = "exit", !.code = 2]
                ELSE [bench EXCEPT !.pc = "prepare",
                        !.mode = IF given = {} THEN "fly" ELSE CHOOSE m \in given : TRUE]
  /\ UNCHANGED others

\* The run's directory and log; without MAVSDK there is only --nofly.  Nothing
\* before the try is finalised.
PrepareRun ==
  /\ At("prepare")
  /\ \/ GoOn("uwb")
     \/ bench' = [bench EXCEPT !.pc = "exit", !.code = 1]
     \/ /\ bench.mode # "nofly"
        /\ bench' = [bench EXCEPT !.pc = "exit", !.code = 2]
  /\ UNCHANGED others

StartUwb ==
  /\ At("uwb")
  /\ \/ up' = up \cup {"uwb"} /\ GoOn("camera")
     \/ up' \in {up, up \cup {"uwb"}} /\ Crashes
  /\ UNCHANGED <<elapsed, until, orders, air, summary>>

\* --check goes on without a camera.
StartRealsense ==
  /\ At("camera")
  /\ \/ up' = up \cup {"camera"} /\ GoOn("mission")
     \/ /\ up' \in {up, up \cup {"camera"}}
        /\ IF bench.mode = "check" THEN GoOn("mission") ELSE Crashes
  /\ UNCHANGED <<elapsed, until, orders, air, summary>>

\* The mission is made, the handlers are set, and the mode begins.
BeginMode ==
  /\ At("mission")
  /\ \/ /\ bench' = [bench EXCEPT !.mission = TRUE,
                       !.pc = CASE bench.mode = "check" -> "connect"
                                [] bench.mode = "nofly" -> "settle"
                                [] OTHER -> "fly"]
        /\ until' = MaxFlight
     \/ Crashes /\ UNCHANGED until
  /\ UNCHANGED <<elapsed, orders, up, air, summary>>

\* run_fly on the waypoints, which MoveItMission models: 0, an abort (1) or a
\* refusal to fly (2).  Whatever is not 0 makes the run an aborted one.
RunFly ==
  /\ At("fly")
  /\ IF Loads(orders.file)
     THEN /\ orders' = [orders EXCEPT !.warned = Warns(orders.file)]
          /\ Leave(0) \/ Crashes \/ Aborts(2)
     ELSE Crashes /\ UNCHANGED orders
  /\ UNCHANGED <<elapsed, until, up, air, summary>>

-----------------------------------------------------------------------------
(* run_check: a link, or not, then ten positions.  Exceptions are caught.   *)

CheckConnect ==
  /\ At("connect") /\ (GoOn("link") \/ GoOn("poses"))
  /\ UNCHANGED others

LinkUp ==
  /\ At("link") /\ air' = [air EXCEPT !.link = TRUE] /\ GoOn("poses")
  /\ UNCHANGED <<elapsed, until, orders, up, summary>>

\* The stream yields without a link, raises, or ends.
NoLink ==
  /\ At("link") /\ GoOn("poses")
  /\ UNCHANGED others

CheckEnds ==
  /\ At("poses") /\ Leave(IF air.link \/ air.packet THEN 0 ELSE 2)
  /\ UNCHANGED others

-----------------------------------------------------------------------------
(* run_nofly *)

\* The deadline counts from here, or from before the wait for a fix.
DeadlineAfresh == elapsed + MaxFlight
ScanDeadline == until

Settled ==
  /\ At("settle") /\ (bench.stop \/ air.packet \/ elapsed >= SettleTime)
  /\ GoOn("scan") /\ until' = ScanDeadline
  /\ UNCHANGED <<elapsed, orders, up, air, summary>>

WaitForFix ==
  /\ At("settle") /\ ~bench.stop /\ ~air.packet /\ elapsed < SettleTime
  /\ elapsed' = elapsed + 1
  /\ UNCHANGED <<bench, until, orders, up, air, summary>>

\* A scan of some frames, status.json, a sleep; the camera or the detector may
\* raise.
ScanOnBench ==
  /\ At("scan") /\ ~bench.stop /\ elapsed < until
  /\ \/ \E t \in 1 .. ScanTime : elapsed' = elapsed + t /\ UNCHANGED bench
     \/ Crashes /\ UNCHANGED elapsed
  /\ UNCHANGED <<until, orders, up, air, summary>>

NoflyOver ==
  /\ At("scan") /\ (bench.stop \/ elapsed >= until) /\ Leave(0)
  /\ UNCHANGED others

-----------------------------------------------------------------------------
(* The finally block: each of its three calls may raise, and the next is    *)
(* made.                                                                    *)

FinaliseRun ==
  /\ At("finalise") /\ GoOn("stop_camera")
  /\ \/ summary' = [left |-> TRUE, aborted |-> bench.aborted]
     \/ UNCHANGED summary
  /\ UNCHANGED <<elapsed, until, orders, up, air>>

StopRealsense ==
  /\ At("stop_camera") /\ GoOn("stop_uwb") /\ up' = up \ {"camera"}
  /\ UNCHANGED <<elapsed, until, orders, air, summary>>

StopUwb ==
  /\ At("stop_uwb") /\ GoOn("exit") /\ up' = up \ {"uwb"}
  /\ UNCHANGED <<elapsed, until, orders, air, summary>>

\* SIGINT, SIGTERM: a flag once the handlers are set.  Before, Ctrl-C is a
\* KeyboardInterrupt, which is no Exception, and a SIGTERM the end.
StopSignal ==
  /\ ~bench.stop
  /\ \/ bench.mission /\ ~At("exit") /\ bench' = [bench EXCEPT !.stop = TRUE]
     \/ bench.pc \in {"uwb", "camera", "mission"} /\ Leave(130)
     \/ ~bench.mission /\ ~At("exit") /\ bench' = [bench EXCEPT !.pc = "killed"]
  /\ bench.pc # "killed"
  /\ UNCHANGED others

FirstPacket ==
  /\ "uwb" \in up /\ ~air.packet /\ air' = [air EXCEPT !.packet = TRUE]
  /\ UNCHANGED <<bench, elapsed, until, orders, up, summary>>

BenchNext ==
  \/ ParseArgs \/ PrepareRun \/ StartUwb \/ StartRealsense \/ BeginMode \/ RunFly
  \/ CheckConnect \/ LinkUp \/ NoLink \/ CheckEnds
  \/ Settled \/ WaitForFix \/ ScanOnBench \/ NoflyOver
  \/ FinaliseRun \/ StopRealsense \/ StopUwb \/ StopSignal \/ FirstPacket

BenchSpec == BenchInit /\ [][BenchNext]_benchVars

-----------------------------------------------------------------------------
(* What is left of a run tells how it ended: aborted is what crashed or gave  *)
(* up (1), also when the camera never came up and there was no mission to ask *)
(* (l.702), and a mission that refused to fly (2, l.697); not a --check that  *)
(* found nothing, nor a Ctrl-C before the mission is there.                   *)
SummaryTellsTheExit ==
  At("exit") /\ summary.left =>
    (summary.aborted <=> bench.code = 1 \/ (bench.code = 2 /\ bench.mode = "fly"))

(* Nothing that was started is left running, whichever part failed to start   *)
(* and whichever mode was cut short.                                          *)
BenchReleases == At("exit") => up = {}

(* --nofly ends in time, with a fix or without: its wait for the first fix is *)
(* part of the time it is given, or all of it.                                *)
NoflyIsPunctual ==
  bench.mode = "nofly" => elapsed < Max({MaxFlight, SettleTime + 1}) + ScanTime

(* A route that no arena along the axes has room for is flown only with a     *)
(* warning (l.565-582).                                                       *)
FitsSomewhere(wps) ==
  \E n \in {wps[i].n : i \in DOMAIN wps}, e \in {wps[i].e : i \in DOMAIN wps} :
    \A i \in DOMAIN wps : wps[i].n \in n .. n + ArenaL + 50 /\ wps[i].e \in e .. e + ArenaW + 50
UnfitIsWarned ==
  bench.mode = "fly" /\ bench.code = 0 /\ bench.pc \in {"finalise", "stop_camera", "stop_uwb", "exit"}
    => orders.warned \/ FitsSomewhere(Waypoints(orders.file))

(* However a run ends, it tells so, in time, and lets go of what it held.     *)
BenchInv == SummaryTellsTheExit /\ BenchReleases /\ NoflyIsPunctual /\ UnfitIsWarned

-----------------------------------------------------------------------------
(* "aborted" of a run that did not end well: a --check that found neither a   *)
(* link nor a position (code 2), and a run stopped by Ctrl-C before its       *)
(* mission is made, say that they were not aborted (l.690, 704).              *)
FailureIsTold == At("exit") /\ summary.left /\ bench.code # 0 => summary.aborted

(* A stop ends a --check: the wait for the link looks at _stop only when the  *)
(* stream yields (l.365-371), and the positions not at all.                   *)
CheckStops == bench.stop /\ bench.mode = "check" ~> bench.pc = "exit"

(* A route over the arena as it lies, turned by a quarter, is flown without a *)
(* warning.                                                                   *)
TurnedIsQuiet ==
  orders.warned => ~ FitsSomewhere([i \in DOMAIN Waypoints(orders.file) |->
    [n |-> Waypoints(orders.file)[i].e, e |-> Waypoints(orders.file)[i].n]])
=============================================================================
