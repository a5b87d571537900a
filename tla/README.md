# A formal model of the RoboVerse drone workspace

The repository holds what a team flew at a drone competition: a mapping drone
that surveys an arena and records landing pads, a swarm of small Hula drones
that lands on the pads and then hunts robots, the qualifier's search
controller, a robot of an earlier project, and the tools around them.  This
directory models the programs, and what they write down, in TLA+: TLC checks
small instances of all of them, and TLAPS proves most of the safety properties
for every instance: of the four flight programs, the swarm, the records, the
qualifier and the Discord programs.

## 1. Inventory

| Part | State it keeps | Operations | Talks to |
| --- | --- | --- | --- |
| `mapping_drone/moveit_mission.py` (**entry point**) | stage, `_stop`, pose and battery fed by telemetry, `_pos_history`, `_vel_fail`, waypoint, clocks | load waypoints, check, scan on the bench, connect, arm, climb, fly a leg, scan, land, disarm, finalise | PX4 over MAVSDK; `UwbNode`; RealSense; `RunWriter` |
| `mapping_drone/px4_mission.py`, `px4_ros.py` (fallback) | setpoint, last pose and status, the executor's thread | the same flight with a 20 Hz setpoint timer | PX4 over best-effort ROS 2 topics |
| `mapping_drone/controller.py` (legacy) | `FlightState`, tasks, watchdogs, stop event | the same flight with velocity setpoints; scan and register pads | PX4 over MAVSDK |
| `mapping_drone/uwb.py` | last packet, a ready flag, its time | start, packet callback, `get_position`, age, stop | the ROS 2 topic; read by the missions |
| `mapping_drone/run_writer.py` | list of sightings, table of pads, files | `write_status`, `add_sighting`, `save_marker_image`, `finalise`, `_atomic_write_text` | the disk; judges read it at any time |
| `mapping_drone/validity.py` | a cached lookup table | `decide_landing_validity` | the missions; a file the operator edits |
| `mapping_drone/mapping.py` | grid of depth returns | detect markers, project pixels, integrate depths, render | the missions |
| `mapping_drone/realsense.py` | pipeline, profile, projector option | start with fall-backs, grab, keep the projector off, stop | librealsense |
| `semifinal/tools/survey_box.py` | captured corners | capture, fit, warn, write the route | the operator, a position source |
| `swarm_controller.py` | `drone_list`, `states`, timers, `phase_b_approved`, `robots_found` | one turn per drone and pass: position, speed, state machine, camera | Hula drones over Wi-Fi, the UWB thread, the operator |
| `UWBParserThread.py` | `tag_data`, a lock | parse a frame, `get_tag_position` | serial port; the swarm's loop |
| `dola.py` | a table of drones that announced themselves | listener thread, look-up with a deadline, stop | UDP |
| `searchctl/controller.py` | `SharedState`, detections, map points, the summary | setup, planner's loop, watchdog, detections, status writer, landing | PX4, cameras, YOLO |
| `searchctl/wall_following.py`, `slot_summary.py` | counters of the follower; none | one tick; rank the runs of a slot | the controller; finished runs |
| `discord_watcher/` | `config.json`, the day's files, `server_state.json`, seen toasts | poll, scrape, log in, listen, answer requests, run and cancel | Discord in a browser |
| `testing/score.py`, `maze_gen/generate_maze.py` | none; the grid under construction | match a log to the truth; build a maze | files |
| `codes/Codes/` | per script: pose, target, keys, a tree, a map | depth navigation, keyboard flight, RRT*, top-down map | PX4, a depth camera |
| `pastproject/.../global_controller.py` | state of the robot, grid, heat, visited frontiers | explore, turn from the ramp, throw balls | ROS 2 |

What is hard about them:

* **The four flight programs.** Everything that can be awaited can raise with or
  without its effect, be slow, or be silent for ever; deadlines are compared
  where the code happens to run; the stop flag is read at some places and not at
  others; a cancellation arrives at any await.  A program must never cut the
  motors of a flying vehicle, never leave an armed one alone, never fly blind
  for long, end, and not lie about how it ended.
* **Records.** The process can be killed between any two system calls, any write
  can fail, and in the qualifier four threads share them without a lock.
* **The swarm.** One loop, two threads, a signal handler and a list that shrinks
  under the loop's feet.
* **The Discord programs.** Processes that overlap and are killed, a persisted
  "current action" that outlives its process, requests that race its end.
* **The rest.** Rules written twice that must agree (geometry, blocked and
  clear, score and rules), counters with thresholds in each other's way, and
  constructions that must hold for every size.

`PROJECT.json` lists every component with its status, and every hazard with its
line and the properties that cover it.

## 2. The modules

| Module | Models | Composed by |
| --- | --- | --- |
| `FlightContract` | the abstract specification of any flight program: what may be done to a vehicle in which order | `MoveItMission`, `Px4Mission` refine it |
| `MoveItMission` | `moveit_mission.py --fly` with its pumps, positions, the operator and the vehicle | `MCMoveIt` |
| `BenchModes` | `main()` of the same file, `--check`, `--nofly`, the loading of waypoints | `MCMapping` |
| `Px4Mission` | `px4_mission.py` and `px4_ros.py` | `MCPx4` |
| `MappingController` | `controller.py`, from `main()` to the exit code | its own configurations |
| `WaypointScan` | the scan at a waypoint and the registration of pads, in the three missions' forms | `MCMapping` |
| `RunArtifacts` | `_register_sighting` and `RunWriter`, with kills and failing writes | `MCArtifacts` |
| `UwbSubscriber`, `MockUwb` | `uwb.py`: the node, and the mock it must look like | `MCMapping` |
| `OccupancyGrid`, `RealsenseCamera`, `PadValidity` | `mapping.py`, `realsense.py`, `validity.py` | `MCMapping` |
| `SurveyBox` | `tools/survey_box.py` | `MCMapping` |
| `SwarmController` | `swarm_controller.py`'s loop with `UWBParserThread.py`, the operator, SIGINT and the drones | `MCSwarm` |
| `SwarmLap` | the ring of waypoints, steering, avoidance and spins of one drone | `MCMapping` |
| `DolaDiscovery`, `UwbFrames` | `dola.py`; the framing in `UWBParserThread.py` | `MCMapping` |
| `SearchController`, `SearchRecords` | `searchctl/controller.py`: the flight; what it writes down | the first by itself; `MCArtifacts` |
| `WallFollower`, `SlotSummary` | the rest of `searchctl` | `MCGround` |
| `Watcher`, `ControlPanel`, `NotifListener` | `watcher.py` with `complete_login.py`, `server.py`, `notif_listener.py` | `MCDiscord` |
| `Scorer`, `MazeGenerator` | `testing/score.py`, `generate_maze.py` | `MCGround` |
| `DepthNavigation`, `KeyboardControl`, `PathPlanner`, `TopDownMapper` | scripts of `codes/Codes` | `MCGround` |
| `GlobalController` | the explorer of the earlier project | `MCGround` |
| `MoveItProofs`, `Px4Proofs`, `ControllerProofs`, `SwarmProofs`, `ArtifactsProofs` | theorems about one module each | |
| `MappingProofs`, `DiscordProofs`, `GroundProofs` | theorems about the parts of `MCMapping`, of `MCDiscord`, and of the qualifier and `MCGround` | |

Each module names in a comment what an action stands for; the `map` of
`PROJECT.json` gives every definition its lines.  A definition that stands next
to a mapped one with the same parameters and a name like `VerdictLost`,
`AllDoneUnchecked` or `OpenInPlace` is a *mutant*: the same code with a plausible
bug.  Nothing refers to it in the model; substituting it must break the property
that `PROJECT.json` names, which shows that the property depends on that code.

`MCMapping`, `MCGround`, `MCDiscord` and `MCArtifacts` check several programs that do not run
together in one run each: the variable `part` says which one moves, the others
stay in one initial state, and each part's fairness is asked of that part only.
They are no compositions, but a way to look at many small programs.  The
programs that do run together are modelled in one module (the loop, threads and
vehicle of a mission; the swarm with its UWB thread; watcher processes).

### 2.1 FlightContract and MoveItMission

`FlightContract` has three variables: the `vehicle` (disarmed, armed, flying),
`release` (were the orders to leave offboard and to land given, and did one of
them arrive) and whether the program is over.  It says: motors are not stopped
in the air unless both orders were lost, nothing takes off once one arrived,
nothing is armed after them, and a program that is over has left the vehicle
disarmed or has tried to release it.  `MoveItMission` and `Px4Mission` refine it
(`ImplementsContract`), with `over <- (pc = "exit")`.

`MoveItMission` follows `run_fly` await by await: `pc` is the place in the
coroutine and every suspension is a step, so the telemetry pumps, the UWB
callback, the operator's Ctrl-C, a failsafe or remote-control takeover, and the
vehicle itself act between any two.  A MAVSDK call may take up to `RpcTime`, and
may raise with its effect had or not.  A stream may yield, be silent, or end.

*Time* passes in ticks, only where the coroutine waits.  A tick is about five
seconds of the program: in that unit the constants of the code become
`FcPoseStale`, `PoseLossLand`, `StuckWindow` and so on.  Ages saturate at
`AgeCap`, beyond which no comparison tells them apart.  A sleep in the
waypoint loop (0.1 s) is a poll without a tick.

*Data.*  A position is a cell: two positions in one cell are less than the
watchdog's `STUCK_MIN_MOVE_M` apart.  Altitudes are whole numbers, because the
clamp compares them.  Velocity and yaw are left out; they decide nothing.

`BenchModes` is what surrounds it: the arguments and the waypoint file with its
sanity check, the two modes that never arm, and the `finally` in which main()
finalises, whatever was raised.  `run_fly` may refuse with 2 as well as crash
with 1; main() makes "aborted" of either.

### 2.2 Px4Mission, MappingController, WaypointScan

`Px4Mission` has the sequential mission in one thread and the executor in
another: it streams the setpoint and stores poses and statuses, and may die.
Commands are messages that arrive in order or are lost.  `MappingController` has
`run()` and the mission's task, which never step together: `pc` is the place of
whichever moves, `who` says which of them lands the vehicle.  `WaypointScan` is
the same handful of steps (frame, pose, markers, verdict, record, map) in the
order of each program, chosen by `scan.mode`.

### 2.3 SwarmController and SwarmLap

One action per piece of a drone's turn that another thread or the handler can
tell apart: the read of the own position, the speed monitor (the only place
with a bare `except`), the state machine, the look at the frame.  The main
thread is at `pc`; `list` and `cur` are `drone_list` and the index of the
`for` loop over it, which goes on counting while `Complete` removes the drone
of the turn.  `approver` and `approved` are the `phase_b_approval` thread;
`parser` and `tags` the UWB thread, with the moment between the new empty
`tag_data` and its filling a step of its own.  SIGINT runs `emergency_land` at
any step; the `SystemExit` it raises ends the program, or is swallowed.  A unit
of time is the shortest pass of the loop.  Coordinates are what the loop asks of
them: is a tag known, has the drone arrived, who is close to whom.

`SwarmLap` takes those coordinates apart for one drone: lengths are decimetres,
the ring is built by the four loops of the code, yaw is in twelfths of a turn.

### 2.4 RunArtifacts

`_atomic_write_text` is three steps (create the sibling, fill it, rename it),
with a kill or a failure possible at each; the other operations are one step
each, because only the disk is shared.  Files hold what their text is computed
from: landing_pads.json the table, STATUS.txt the mission's count and its
`_unique_pads`, run_summary.json both.  `Half` is a file that is being written.
Positions are members of a small set with a closeness relation that is
symmetric and reflexive but not transitive, as distance is.

### 2.5 The qualifier

`SearchController` has `run()`'s setup, loop and end, the watchdog, the monitor
and the pumper as far as they decide, a signal that only sets a flag, and time in
ticks of ten seconds.  `SearchRecords` has the four writers of the records: the
inference threads with their busy flag, the mapping task and the thread it draws
in, the status writer whose thread outlives its task, and `run()` at the end.  `WallFollower` takes, tick by
tick, any wall ahead and any beside, through the code's own filter, and keeps
its seven counters.

### 2.6 The Discord programs

A message is its place in the sequence of posts.  `Watcher` has processes that
load `config.json`, poll channels, write the day's file and save; a save truncates
before it fills, and a process may be killed at each step or lose its browser
profile to another.  `ControlPanel` has request threads, runner threads, the lock,
the file that is emptied and filled, and restarts.

### 2.7 Algorithms

`Scorer`, `MazeGenerator`, `OccupancyGrid`, `PathPlanner`, `TopDownMapper`,
`SlotSummary`, `SurveyBox` and `SwarmLap` take one step per iteration of the
code's loop and are checked at its end against a definition that does not loop:
the rules of the score, reachability, the point a pixel shows, a tree's costs,
the best eligible run, the box that was walked, a ring.  Every random choice is
nondeterministic; angles are multiples of 90 degrees or tenths of a degree,
coordinates whole multiples of a cell, so that all arithmetic is in integers.

`SurveyBox` leaves out the SVD and keeps what the warning's threshold of 0.30 m
lets through: with every residual below it each distance is right to 0.60 m and
the way round is kept (`Fits`); a fit with no residual is not warned of
(`Exact`); between the two the model warns or does not.  So the property is not
"the box is the field's" but how far from its corner a corner may have been
taken without a warning, which is far across the arena and little along it.

`DepthNavigation` keeps the low-pass of what is sent: the velocity is a mean of
what is asked for now (0.4) and what was sent before (0.6), over every frame
that is planned by, turns included.  Velocities are tenths of the greatest,
rounded down.  The first frame that asks for a sidestep therefore does not yet
go to that side (section 4); `SidestepComes` says when it does.  Of the position
planner's smoothed setpoint only the first is exact.

`GlobalController` keeps visited frontiers as points of the world, in half
cells, and turns them back into cells with the origin of the latest map, cutting
towards zero as int() does.  A shift by whole cells renames cells and is left
out.  Under one and the same origin the way there and back is exact in the code
too (the resolution is a 32-bit float, its multiples are exact in 64 bits).

`PathPlanner` counts a cost of `Infinite` or more as infinite, a bound of the
model: 250 steps, more than its run or the field is long.  Where the goal is
nearer to an obstacle than the margin, the last edge of a path is not free,
`_smooth_path` appends one waypoint for ever and `plan()` does not return: the
model says `"spins"`, and `RouteIsFlyable` says nothing of a route that is not
returned.

## 3. What the runs check

| Run | Bounds | Shows |
| --- | --- | --- |
| `moveit_route` | two legs, the second without its own altitude; calls that fail with or without effect | the flight contract, what exit code 0 means, how long it flies blind, what a stop still lets happen, the invariant of a leg |
| `moveit_live` | one leg, `--pose auto`, fairness | the program ends |
| `moveit_stop_before_arm` | one leg | *violation*, section 4 |
| `px4_ends` | two waypoints, one above the net; losses anywhere | the contract over lossy topics, what is left comes down, losses are reported |
| `controller_ends` | two waypoints, two failing setpoints, two addresses, signals | exit, exit code, summary, nothing left open; a stop ends it |
| `controller_stuck` | the same | *violation*, section 4 |
| `search_ends` | every deadline in one to four ticks, one find | nobody is left in the air, success is a flight, both deadlines hold |
| `swarm_loop` | two drones, two robots, a spin, passes of one unit | the barrier, the prompt, an approved hunt ends |
| `artifacts_run` | two ids, three places in a row, three markers, one failing write; two inference threads, three frames of each camera, two boxes, a map of two frames | tables, files and their agreement; the qualifier's records, map and summaries |
| `discord_parts` | two processes, a channel, two days, a kill; two requests and runners, a restart; three toasts | nothing is passed over or filed twice; notes and history stay; a cancellation ends; toasts are saved once |
| `mapping_parts` | see the configuration | geometry, camera, discovery and serial frames, verdicts, scans, survey, bench modes, lap, and the subscriber against its mock |
| `ground_parts` | see the configuration | wall following, scores, maze, navigation, keyboard, planning, mapping, exploration |

Why the bounds are enough.  The missions' legs repeat the same code; two legs
show what one leaves behind for the next.  Each timer is given a value at which
it can both expire and be met.  Two drones make every pair of roles in the
swarm's loop.  Three markers give an id sightings with and without a position in
every order, and one of another id between; three places in a row tell a dedupe
that looks at all sightings from one that looks at the latest.  Of the qualifier's
records, three frames and a map of two make the map drop its oldest, two boxes let
a summary be read in the middle of a frame, and with a map there are two colour
frames and one pass of the status writer (`LessBesideTheMap`).  Two watcher
processes and one kill give every overlap of a load and a save; two scrolls
more than the stop rule needs let a page be late.  In `WallFollower` the counters'
limits are a few ticks, in the code's order of size, so that each can run out
before, with and after each other.  Of the depth navigator the yaw starts at one value and gusts are only blown at the
third heading, where the yaw jumps (`GustsAtTheJump`); the explorer has a corridor
of four cells with a wall at its end, whose map moves by half a cell once, after a
frontier was given out (`MapMovesOnce`): that is enough for a frontier to be given
out that a visited point no longer falls into.  In the algorithms the instance is the smallest
in which every branch of the loop is taken (TLC's coverage shows no action that
never fires).  The theorems of section 5 do not depend on any of this.

Deadlock is checked where the configuration does not say otherwise.  A program
that is over stutters by an action of its own (`Ended`, `Exited`), so that a stuck
one would be seen.  `mapping_parts`, `ground_parts` and `discord_parts` turn it
off, because most of their programs come to an end.

## 4. Where the code does other than its documents say

Two runs check a sentence of the repository and end with a counterexample;
`PROJECT.json` ("findings") quotes the sentence.

* `moveit_stop_before_arm`: a stop during the wait for the local position does
  not keep the mission from arming and climbing.
* `controller_stuck`: `state.state` stays `SCAN_WP_n` after a scan, so the
  position-stuck watchdog is off for every leg but the first.

The modules also state sentences that fail and that no run is spent on; the
property in brackets, put into the configuration of the module, gives the trace.

Missions:

* With `--pose uwb` the last packet is fresh for ever (`StaleFixIsCaught`,
  `PoseSource = "uwb"`).
* The cap on the landing wait needs the stream to yield (`LandingWaitCapped`).
* The ten seconds without a fix count from before the connection, and are
  compared before the first look at the pose (`NeverFixAbortMeansNoFix`).
* `--check` that ends with code 2, or a Ctrl-C before the mission is made, leaves
  a summary that says "not aborted" (`FailureIsTold`); with a silent
  `connection_state` stream it does not end on a stop (`CheckStops`, lines
  365-371); the sanity check warns of a route in an arena that is merely turned
  (`TurnedIsQuiet`).
* px4_mission clamps waypoints and not the takeoff (`BelowTheNet`, line 275
  against line 68), and takes "not armed" for observed before any status was
  heard (`DisarmObserved`, lines 341-342).
* The legacy controller disarms by an `in_air` that may be frozen
  (`NoDisarmInAir`), and a Ctrl-C at the wrong await leaves no summary
  (`InterruptFinalised`).
* A Ctrl-C while px4_mission's node or camera comes up leaves a summary that says
  "not aborted" and the exit code 130 (`SummaryTellsTheCode`).
* A waypoint's grid and its sightings are placed by two poses
  (`OnePosePerFrame`).
* A subscriber that is started again does not receive: `_stop_flag` is never
  cleared (`RestartReceives`).  `_owns_rclpy_init` is reset only where the context is
  still up (lines 159-164): after ours was shut down by someone else, a stop takes
  down the context that another user has opened since (`LeavesTheirs`).
* What two dictionaries find a pixel apart is reported twice when a border of
  the 20-pixel buckets is between them (`NoDoubleCount`); a pad at the edge of the grid is not drawn
  (`EveryPadDrawn`).
* A lookup file that was malformed once stays so for the run (`FixIsSeen`).
* survey_box's warning about edge lengths (lines 200-206) can never fire, since
  a rigid fit keeps lengths; only the residual's can, above 0.30 m: a corner
  taken half a metre off is fitted by another box without a word.

Records: an id unknown to the rule is written as `false`, and
HANDOFF_C1_TO_C2.md:70 says `null` (`NullMeansUnclassified`); a kill leaves the
`.tmp` sibling, and smoke_kill_mid_run.py:10 wants none (`NoOrphanTmp`); the record
names an image that imwrite failed to write (`ImageExists`); `sighting_count`
leaves out the markers that the dedupe drops, and HANDOFF_C1_TO_C2.md:74 says
"Total observations" (`ObservationsCounted`).

Swarm:

* The speed monitor's bare `except` swallows the handler's `SystemExit`; a drone
  may be sent up after the emergency landing (`CtrlCLands`).
* The flag is read before the list of threads, so a second prompt may appear
  and stay during the flight (`AskedOnlyOnGround`).
* One drone without a zone or a position keeps all the others waiting, although
  semifinal/README.md:590 asks for a timeout (`NobodyWaitsForever` under
  `AttendedSpec` with `Zones = 1`).
* A reader can see the empty `tag_data` between two frames that both hold its
  tag (`TagIsKnown`, `Reliable <- MCFirst`); the UWB thread outlives `main()`
  (`ProcessEnds`); a marker that one frame shows twice counts twice
  (`CountIsSnapshots`, `Copies = 2`).
* "spin 360 at each waypoint" (line 4), and `SPIN_EVERY_N` is 3: the middle ring
  of six points is turned at in two of them (`EveryPointIsScanned`).  The comment
  of compute_avoidance says that CCW strafes left, and the code strafes right
  (`StrafesAsDocumented`); navigate_to's second axis points left and
  compute_avoidance's right (`SameAxis`).
* "Invalid checksum. Discarding frame.": the end of a frame is a fixed byte and no
  sum, so a buffer that begins and ends inside of frames can pass
  (`OnlyWholeFrames`); while the tags stand still and a block holds the header's
  value, the parser can begin at that byte for ever (`Resyncs`).
* After `stop()` a packet that is being handled still changes dola's table
  (`StoppedIsQuiet`); the documents say port 8688, the code 8668.

Qualifier: the watchdog trips at its first look after a slow setup
(`WatchdogMeansIdle`); disarming follows a landing wait that timed out in the air
(`DisarmOnGround`); a signal in the setup is not read before arming
(`NoArmAfterStop`); STATUS.txt never says LANDED of a run that landed by itself
(`CleanRunNotAborted`, line 796); the status writer's thread may replace the last
summary by an older one (`SummaryIsTheLast`), and the thread that draws the map an
older picture over the last one (`PictureIsTheLast`); a frame taken before the
takeoff or after the landing is recorded like one of the flight
(`RecordsAreAirborne`).  In the follower a
wall nearer than 1.5 m is taken for the drone's own body and reads as free
space (`CornerDashStops`), and a way that ends a turn may start the next
(`WayStaysFree`).

Discord: a restart of the panel's server leaves a current action that nothing
runs, and every start is refused (`RefusedMeansRunning`, server.py:166); a
cancellation between the start and Popen finds nothing (`CancelFinds`); two
processes with one counter overwrite each other's file (`FilesKeep`).  A second
scrape of a day whose page does not render replaces the dump by an empty one, and
a login whose sidebar is empty saves no channels.

Tools and earlier code: a detection beside a barrel already found is logged as
matching none (`UnmatchedIsFar`); shelves may hold no red barrel
(`ShelvesHoldReds`); the explorer may wait for its map from inside the only
callback group (`ExplorationBegins`), ends when fewer than three samples of heat
are clustered (`NodeSurvives`), forgets the ramp with the next map
(`RampStaysWalled`, line 514) and compares a goal's status with 3 where 4 is
success (`SuccessNoticed`); a released key keeps the speed that was added up
(`ReleaseHovers`, keyboardcontrol.py:17); "land and disarm" is never done
(`HoldLands`, get_position_with_task.py:118); an "emergency avoidance (override
only)" is sent through the low-pass, so the first of its frames goes on ahead or to
the other side (`SidestepGoesAtOnce`, VelocityPlanner.py:136); the RRT* never returns for a goal
nearer to an obstacle than its margin (`PlanningEnds`); the map is laid by a frame
and a pose of two moments (`AllPointsInPlace`), and "three times north" is three
times one place (`GoesNorthThrice`, GlobalMapper_new.py:201).

Statements that hold and that no run is spent on, because a run's statement says
more or they are about a detail: `CountNotTooHigh`, `OneRamp`, `TourIsWhole`,
`EscapesSpaced`, `LooksAllRound`, `TurnsEnd`, `DescentIsLeftAlone`,
`YawIsReleased`, `NoContextLeaked`, `SummaryLeft`, `StopEnds` of `Px4Mission` and
`SearchController`.

## 5. What is proved

All theorems hold for every value of the constants that the named assumptions
allow.  Most of those say that counts are natural numbers, that pairs are pairs,
and that `None` and its like are none of the values they stand for the absence of
(`NoneAssumption`, `NoValueAssumption`, `ThreadsAssumption`, `ExplorerAssumption`).  The others:

| Assumption | Says | Why |
| --- | --- | --- |
| `CloseAssumption` (`RunArtifacts`) | closeness is reflexive and symmetric | it is a distance below a radius |
| `GapAssumption` (`MappingController`) | `Gap <= 5` | `run()` sees a stop four turns of the event loop after the signal; with 6, TLC finds a landing that claims to be a finished survey |
| `PanelAssumption`, `WatcherAssumption` | at least one note, one run, one visible message, one day | the server keeps more; a page shows some |
| `LapAssumption` (`SwarmLap`) | a margin leaves something of the arena's width | the margins are 0.5 to 1.8 m of a width of 5.5 m |
| `BenchAssumption` (`BenchModes`) | a file's rows have a length, a place, and are numeric or not | what the loader tells apart |
| `ScanAssumption` (`WaypointScan`) | places are numbers, and a projected one is not `Nowhere` | `Nowhere` is the code's `None` |
| `DashAssumption` (`WallFollower`) | the second dash of a corner is shorter than the first | 15 ticks of 140 in `wall_following.py` |
| `DepthAssumption` (`DepthNavigation`) | gusts of 6 degrees at most, four between two looks at the heading; depths are counts | a bound of the model: a vehicle that is turned without end while it plans goes anywhere |
| `SurveyAssumption` (`SurveyBox`) | the drone is carried to places inside the net | the fit has no scale and the net is a diagonal wide: outside of it other boxes keep the distances to 0.60 m |
| `ScorerAssumption` (`Scorer`) | two barrels are more than two match radii apart | `generate_maze.py` gives each a cell of its own, 4 m wide; the radius is 1.5 m |
| `MazeAssumption` (`MazeGenerator`) | a grid with a cell, and a keepout inside it | `--keepout` is the middle of the maze |
| `PlanAssumption` (`PathPlanner`) | places are pairs of whole numbers, the start is one | points are counted in quarters of a step |
| `MapperAssumption`, `SlotAssumption`, `RecordsAssumption` | things have whole coordinates; counts are counts | |

**MoveItProofs.**  `MissionKeepsContract` (the refinement) rests on `CraftInv`,
which ties each place of `run_fly` to what the vehicle was told: before the
takeoff setpoint there is no altitude; the orders to land are given exactly by
the landing; at the disarm a vehicle that still flies means that both orders
were lost.  The contract alone is not inductive, because nothing in it says
where in the program an armed vehicle may be.  `RefusalOnGround` follows from
the same invariant, `NeverAboveTheNet` and `LegInvariant` from one about the
waypoint loop, which needs `TypeCorrect`.

`VerdictHolds` needs `VerdictInv`: a watchdog sets its reason and the stop flag
in one step, from then on every way leads to an aborted landing, and a landing
that is not aborted follows a survey that got to its end or ran out of time
(`Surveyed`).  `StopIsObeyed` is the action property from the same parts.
`BlindnessIsBounded` needs an account of the age of the fix (`BlindInv`): the
poll behind it bounds it while the loop polls, and what the coroutine has waited
since bounds it while it holds, settles and scans.  So the bound of the run is
not one of its few ticks, but `Patience`: the greater of the limit of the poll
and the longest stay at a waypoint.

**Px4Proofs.**  `FallbackReports` is `Px4Inv` for every route and altitude.
`LossIsRemembered` follows a lost pose through the program: the survey keeps it
in `stop`, the landing in its argument, `main` in the exit code; `Ended` says
what that code stands for after the landing.  That code 0 was a flight needs
`HasSetpoint` (from the takeoff on there is a setpoint, so a landing nobody
asked for comes after one), and `ModeOfPlace` keeps the bench modes out of the
places that send commands.

`FallbackKeepsContract` is the second refinement of `FlightContract`.  Here a
command is a message, and the vehicle may obey it when the mission is elsewhere.
What can be on its way therefore tells where the mission is: commands arrive in
the order of a flight (`InOrder`), each place leaves only some of them pending
(`SentAt`), none that arms is pending once the vehicle was armed (`ArmedOnce`),
the order to land is given once and is the last word on the mode (`LandedOnce`).

**ControllerProofs.**  `ExitsAsItSays`: however `run()` of the legacy controller
ends, the vehicle was told to land (`LandsAtEnd`, `Safe`), and the code and the
summary say how it ended.  The hard part is `Flown`: the mission may be
cancelled anywhere, so a flight that ends as planned has flown its waypoints, or
has left them for a stop so recently that `run()` cannot but see it before the
mission's steps are done.  `Left` counts those steps; `GapAssumption` is what
the event loop guarantees.

**SwarmProofs.**  `PhaseInvariant` is inductive: its `DroneInv` says that a
drone that waits for Phase B is on the ground, that the operator is only asked
when no drone is left in a Phase A state, and that a drone that flies although
it is out of `drone_list` does so because Phase B has begun.  `Barrier` alone
does not say why the second drone of a pass may still rely on what the first
one saw.  `BarrierHolds` and `PromptHolds` follow, and `TurnStaysInList` from
`LoopInv`, the part about `list` and `cur`: a removal is always followed by the
end of the turn.  `NoMutualHover` is a lemma about the priority
rule: the close drone with the lowest identifier yields to nobody.

**ArtifactsProofs.**  `Inv` is the conjunction that `artifacts_run` checks, and
`Invariant` proves it.  Its part `FileInv` says what is in the temporary file
when it is renamed and in which order finalise goes on; with it `WholeFiles`,
`FileIsCurrent`, `FilesAgree` and `PositionsStay` are inductive.
`NoTwinsRecorded` needs that the marker on its way to the tables is not close
to any sighting in them, which stays true because nothing is added meanwhile.

**MappingProofs**, all the parts of `MCMapping`:

* `FramesHold` is `FramesInv` for every frame length: the run has frames of six
  bytes, the receiver sends 896.  `KnowsPlace` counts: a buffer that began with a
  header and lost at most two bytes tells by its length where in a frame the
  device is; so a full one ends in the header or the mark of the next frame
  (`EndsInHead`), and one that lost nothing ends where a frame does.
* `NeverBothVerdicts` is about two lookups of one id with any edits of the file
  between them.  What was answered from a table is in the cache
  (`AnsweredFromCache`) and is never replaced there; the key that is used while
  the path does not resolve only ever keeps the empty table (`PathIsEmpty`); the
  other rules look at the id alone (`AnsweredByRule`).
* `CameraDelivers`: while profiles are tried, the flag for infrared is that of
  the profile whose turn it is (`TriesItsMode`), and the frames that the
  projector lit since it was last set are counted (`LitSinceSet`).
* `TableHolds`, and `HeardRight` in the composed specification of the run: a
  table's entry is the last address the plane sent, or the packet in the
  listener's hands is (`EntryIsLast`); a listener that stop() left behind has one
  read to finish (`LeftBehind`).
* `RealIsAMock` is the refinement of `MockUwb` by the node, step by step, and
  `AltitudeHolds` the invariant beside it.
* `PadsAgree`: sightings, text, files and map are four tables that are never
  written in one step.  They agree because what is marked was seen and the other
  way round, what was written is the verdict that is remembered, and the frame
  in hand has a place from which its pads are projected (`FrameIsTaken`).  The
  best sighting of a pad is one with the greatest confidence and the least index
  among those: such a one exists, which comes from the order of the numbers.
* `PadsAndDepthsAgree`: the projection of a pixel and the one of a return are
  written twice; the lemmas turn both into one formula for each heading.
* `LapHasNoGaps`: the ring is four ranges glued together.  Its lemmas count how
  many spacings fit into the sides of any box (`IsBox`), give the waypoint at an
  index by a formula (`IsRing`), and prove that such a sequence closes
  (`Closes`), forwards and backwards.  A spin is an arc that is at least as wide
  as it is counted (`ArcSeen`).
* `BenchTells`: --nofly ends by its time since a scan begins before the deadline
  only; what is up is stopped in order (`HeldUntilStopped`); a crash (code 1) and a flight that
  refuses (code 2) abort and nothing else does, so the summary tells the code
  (`AbortIsCode`, `LeftIsCode`).  `--check` that ends with 2 is not marked: section 4.
* `SurveyIsTrue`: unless there was a warning, all corners were taken within 0.5 m
  along the arena and 1.5 m across it of where they are, or all of them so near
  the opposite ones.  Inside the net only two places near opposite corners are
  almost a diagonal apart (`FarIsOpposite`).  Three corners that are not on a line
  hold two such ones (`TwoAreOpposite`), which fixes the box or its half turn; the
  third is at the side of one of them (`NextToTheSide`) and the way round decides
  which (`WayRound`), and so does any other (`FitIsClose`).  It holds for *every*
  set of places inside the net; the run has one mistake at a time.  The route is
  about quotients and rests (`LawnmowerMoves`), for any number of lanes and points
  on a lane.

**DiscordProofs.**  `SavedOnce`: a toast that was saved has been seen as long
as the listener runs (`SavedIsSeen`), and a new listener starts by seeing all
that is shown.  `PanelKeepsItsWord`: a task is a request that starts a watcher,
a runner that works, or a watcher of an earlier server.  There is one at most
(`OneTask`), because who finds no action in the file, or in what is being saved,
finds no task (`ActionNamed`), and because the file can be what the next server
loads unless a save is cut (`FileReads`).  `WatcherPassesNothing`: each process
holds between the message it read and the one it will save only what was filed
or is in its batch (`Holds`, `Covered`).  Filed *once* is true of processes that
do not overlap: then the next one loads a configuration that is `Ahead` of the
files.

**GroundProofs.**

* `SearchLands`: on every way of `run()` to the wait for the ground comes the
  call that lands, and a run that raised nothing has come through the loop with
  its watchdog on (`Ordered`).
* `RecordsFitTogether` is about records that four threads share without a lock.
  `busy` is owned by the thread that works, and there is one (`Working`), so the
  count is the length of the list, or one more (`Counted`).  A summary is read in
  three steps, meanwhile the list only grows, and it is read last: that is why
  the totals fit (`Summed`), in the status file's thread and the main one's.
* `NeitherPressesNorSpins` is about walls the follower sees: nearer than 1.5 m they
  read as free, and it bounds nothing there (section 4).  How long the follower has gone on with a wall ahead
  is bounded by its place in a corner (`Dashes`).  `compute()` is a chain of
  blocks that hand a record on, so the proof goes block by block: each either
  decides or leaves the follower where it was.
* `NavigatorKeepsClear`: the frame that a step goes by was not blocked (`Carries`),
  so the side of a sidestep is clear.  What the smoothed velocity may still hold of
  the past is bounded by how many sidesteps it has taken in a row (`Remembers`): the
  second turns it, the third makes it mostly sideways.  A turn changes the error by
  as much as the yaw, so the controller's difference is a gust at most, over the
  jump at 180 degrees too (`Aims`), and a program can be left only where its last
  order was none to go (`Rests`).
* `MazeHolds`: the flood of `is_connected` is a recursive function; that one such
  function exists and that its last step is closed under neighbours is an
  induction over its steps (`FloodIs`).  What it accepts is in one piece
  (`ConnectedIsJoined`), and that does not depend on the cell it began with:
  this is what a program needs that floods from the middle.  That the *empty*
  grid is in one piece (`GridIsJoined`) is not free either.  The invariant keeps
  the air and the floor in one piece (`InOnePiece`) while walls and shelves are
  tried and taken back.
* `JudgedFairly`, in the composed specification of the run.  The scorer takes
  one detection after the other off a log that was sorted; the rules know no
  order.  After k lines a barrel that they show has the first time they show it
  (`MatchedSoFar`), which needs that the log is in order and complete
  (`SortedIs`; that a log of any length *can* be sorted is `SortingExists`) and
  that a line is near one barrel at most (`NearOneOnly`): without
  `ScorerAssumption` the score depends on which barrel is taken first.  The
  other half is `BothColoursFirst`: only a run with both colours has points, and
  the one shown has the most.
* `RouteAndMap`, in the composed specification.  Rewiring hangs nodes below the
  new one, and the tree stays one because a ring would be through it: of the
  nodes on a ring, those that cost no more than the new one would be a ring
  before (`NoRing`, in `NewNode`).  So the invariant of the costs, which are not
  true after a rewiring but never too low (`Covered`), is what makes the tree a
  tree.  Without rings the way up from a node reaches the start, by the
  pigeonhole principle (`WayUpEnds`), and what is traced ends there
  (`BranchIs`); each shortcut is a free edge because the look ahead stops before
  the first that is not (`FurthestIs`).  The other half is `LandsWhereItIs`, of
  points laid with a current frame and a current pose (of others see section 4):
  turning a point into the camera and back is the identity for each heading.
* `DescendsAlone` and `OneRampOneTour` are about properties that no run checks.
  The keyboard's loop sends only while it is `active`, and it is not while the
  vehicle comes down (`Descending`), though a takeoff may be asked for meanwhile.
  The explorer remembers a ramp only with `hit_ramped` set, and a second
  interrupt finds it in the sleep of the first, or dead (`Bumped`); during a tour
  the goals to go and the balls thrown are the centres (`Thrown`).

Only model-checked:

* every liveness property: the prover does no fairness.  They are `Terminates`,
  `HuntEnds`, `StopEnds`, `ComesDown`, `DeadlinesHold`, `CancelEnds`,
  `WallIsFollowed`, `ExplorationEnds` and `LandIsHeeded`; every other property of
  a run that passes is a theorem;
* the mutants of every property, by which the runs show that it depends on the
  code.

Where a proof needs a least or a greatest element (the best sighting, the newest
note), it comes from the well-foundedness of `<` on the natural numbers, which
the library states as a fact without an operator parameter (`Lowest`).
Inductions come from the same fact: the induction theorems of the library are
about operators, which the provers cannot instantiate, so what is to be proved of
every number is stated as a set of numbers (`Induct`).

## 6. Fairness

* `MoveItMission`: weak fairness of the coroutine's steps and of time, for the
  event loop runs what is ready, a call answers or raises, and a stream that is
  waited for goes on yielding.  Nothing is assumed of the operator, the pumps,
  the fixes or the vehicle.
* `Px4Mission`: the mission's thread runs; PX4 obeys what arrives and fails safe
  when setpoints stop; a status that can be heard is.
* `MappingController`: what is ready runs and a call returns or raises; the
  health stream may be silent for ever.
* `SearchController`: the loop's tasks run, time passes, and the two calls that
  have no timeout of their own (connect() and the loading of the model) return.
* `SwarmController`: weak fairness of the main thread, and none of the UWB
  thread, the operator or SIGINT: `HuntEnds` starts where the hunt is approved
  and the robots are found.  `AttendedSpec` adds an operator who, asked again
  and again, presses Enter (strong fairness); no run needs it.
* `ControlPanel`: the lock is fair to a thread that asks for it again and again,
  and a file that was emptied is filled.
* `MCGround`: the wall follower is ticked; the explorer's timer fires (strong,
  because its own sleeps hold it back) and its sleeps end, but for the drive up
  the ramp; the navigator's and the keyboard program's loops run, and the
  vehicle does what it was told.

## 7. Assumptions about what is outside the code

* PX4 lands when told to, unless the order was lost, and disarms when told to;
  `in_air` is never false in the air where it is heard.  A failsafe or the remote
  control may take the vehicle out of offboard at any time.
* A rename replaces a file at once.  The process may be killed; the disk does
  not lose what was written (there is no `fsync` in the code, so a power cut is
  outside of the model).
* A drone of the swarm that was told to land comes down in its own time.
* A browser page shows messages in their order, late or not at all.
* Cameras, detectors and networks return anything their types allow.

## 8. Not modelled, and the plan

* Drawing (the grid's image, the
  maze's preview); SDF text; OpenCV's, librealsense's and YOLO's insides; the
  wording of reports.  None of it decides what a program does next.
* The field tools (`mavsdk_probe`, `uwb_sniffer`, `diag_arm`,
  `patch_drone_control`): they print what they see and keep no state.
* The training notebooks, which make up a good part of the repository's lines,
  and the organisers' linear example scripts.
* Functions of the earlier explorer that nothing calls (`seal_line`,
  `adaptive_seal_line`, `get_8th_grid_behind`, `normal_bfs`).

Every safety property that a run checks is a theorem.  What is left to state is
about the parts that section 1 names and no module models, and the liveness
properties for other bounds than those of the runs.
