---------------------------- MODULE TopDownMapper ----------------------------
(***************************************************************************)
(* GlobalMapper_new.py of codes/Codes: a flight of five setpoints and a    *)
(* depth frame at five of its points, each frame laid on the map by the    *)
(* position and the yaw that telemetry stored last.  Metres on the ground, *)
(* decimetres for heights, degrees; the script maps with yaw_smoothing     *)
(* 1.0, which leaves the yaw as it is.                                     *)
(***************************************************************************)
EXTENDS Integers, Sequences

CONSTANTS Things,      \* obstacle points: <<north, east, height>>
          Altitude     \* where the takeoff ends

ASSUME MapperAssumption == Things \subseteq Int \X Int \X Int /\ Altitude \in Int

VARIABLES script,      \* what run() does next: an index of Steps, Landing or beyond
          telem,       \* SharedState: latest_position and latest_yaw, or NotYet
          shot,        \* DepthReceiver's frame and where it was taken, or NotYet
          cloud,       \* global_points, each with: were pose and frame of now
          uav          \* where the vehicle is and what it was told

mapperVars == <<script, telem, shot, cloud, uav>>

NotYet     == <<>>
CAM_HEIGHT == 10
OBS_H_MIN  == 1
OBS_H_MAX  == 15
Z_MIN      == 0        \* 0.3 m
Z_MAX      == 5
Setpoint(n, e, y) == [do |-> "fly", n |-> n, e |-> e, alt |-> 0, yaw |-> y]
Collect == [do |-> "map"]
Steps == <<Collect, Setpoint(3, 0, 0), Collect, Setpoint(3, 0, 0), Collect, Setpoint(3, 0, 0),
           Setpoint(0, 0, 90), Collect, Setpoint(0, 3, 0), Collect>>
Landing == Len(Steps) + 1

MapperInit ==
    /\ script = 1
    /\ telem = [at |-> NotYet, yaw |-> NotYet]
    /\ shot = NotYet
    /\ cloud = {}
    /\ \E y \in {0, 90, 180, 270} :
         uav = [n |-> 0, e |-> 0, alt |-> Altitude, yaw |-> y, told |-> [do |-> "takeoff"]]

----------------------------------------------------------------------------
Cosine(y) == CASE y = 0 -> 1 [] y = 180 -> -1 [] OTHER -> 0
Sine(y)   == CASE y = 90 -> 1 [] y = 270 -> -1 [] OTHER -> 0

\* what the camera sees: to the right, below the camera, ahead
InCamera(t, v) ==
    LET n == t[1] - v.n  e == t[2] - v.e
    IN  <<e * Cosine(v.yaw) - n * Sine(v.yaw), v.alt - t[3], n * Cosine(v.yaw) + e * Sine(v.yaw)>>
DepthImage == { InCamera(t, uav) : t \in Things }

\* within range, and between ground and ceiling for a camera at CAM_HEIGHT
DepthToXyMap(img) ==
    { <<p[1], p[3]>> : p \in { q \in img : /\ q[3] > Z_MIN /\ q[3] < Z_MAX
                                           /\ q[2] \in CAM_HEIGHT - OBS_H_MAX .. CAM_HEIGHT - OBS_H_MIN } }
LocalMirrored(xy, at, yaw) ==
    <<at[1] + xy[2] * Cosine(yaw) + xy[1] * Sine(yaw), at[2] + xy[2] * Sine(yaw) - xy[1] * Cosine(yaw)>>
LocalToNedGlobal(xy, at, yaw) ==
    <<at[1] + xy[2] * Cosine(yaw) - xy[1] * Sine(yaw), at[2] + xy[2] * Sine(yaw) + xy[1] * Cosine(yaw)>>

\* what did not arrive yet counts as zero
LatestPosition == IF telem.at = NotYet THEN <<0, 0>> ELSE telem.at
LatestYaw      == IF telem.yaw = NotYet THEN 0 ELSE telem.yaw[1]
Current == /\ shot[2] = uav /\ LatestPosition = <<uav.n, uav.e>> /\ LatestYaw = uav.yaw

UpdateFrame(img) ==
    { [at |-> LocalToNedGlobal(xy, LatestPosition, LatestYaw), fresh |-> Current] : xy \in DepthToXyMap(img) }
CollectAndMapFrame ==
    /\ script \in 1 .. Len(Steps) /\ Steps[script].do = "map"
    /\ cloud' = IF shot = NotYet THEN cloud ELSE cloud \cup UpdateFrame(shot[1])
    /\ script' = script + 1
    /\ UNCHANGED <<telem, shot, uav>>
SendPositionSetpoint ==
    /\ script \in 1 .. Len(Steps) /\ Steps[script].do = "fly"
    /\ \/ uav' = [uav EXCEPT !.told = Steps[script]] /\ script' = script + 1
       \/ UNCHANGED uav /\ script' = Landing                      \* it raises
    /\ UNCHANGED <<telem, shot, cloud>>
\* the finally; offboard.stop or land may raise, which is only printed
LandAtEnd ==
    /\ script = Landing
    /\ script' = Landing + 1
    /\ \/ uav' = [uav EXCEPT !.told = [do |-> "land"]]
       \/ UNCHANGED uav
    /\ UNCHANGED <<telem, shot, cloud>>

----------------------------------------------------------------------------
\* two streams, each stores its own; frames come by themselves
StreamPosition ==
    /\ script <= Landing /\ telem' = [telem EXCEPT !.at = <<uav.n, uav.e>>]
    /\ UNCHANGED <<script, shot, cloud, uav>>
StreamYaw ==
    /\ script <= Landing /\ telem' = [telem EXCEPT !.yaw = <<uav.yaw>>]
    /\ UNCHANGED <<script, shot, cloud, uav>>
FrameArrives ==
    /\ script <= Landing /\ shot' = <<DepthImage, uav>>
    /\ UNCHANGED <<script, telem, cloud, uav>>
\* it flies to its setpoint, in time or not
Flies ==
    /\ uav.told.do = "fly"
    /\ uav' = [uav EXCEPT !.n = uav.told.n, !.e = uav.told.e, !.alt = uav.told.alt, !.yaw = uav.told.yaw]
    /\ UNCHANGED <<script, telem, shot, cloud>>

MapperNext == \/ CollectAndMapFrame \/ SendPositionSetpoint \/ LandAtEnd
              \/ StreamPosition \/ StreamYaw \/ FrameArrives \/ Flies
MapperSpec == MapperInit /\ [][MapperNext]_mapperVars
----------------------------------------------------------------------------
(* A frame that is laid on the map by the pose it was taken from puts its  *)
(* points where the things are, in every heading, and no thing is there    *)
(* that does not reach into the height the filter lets through at some     *)
(* altitude of the flight (_local_to_ned_global, depth_to_xy_map).         *)
PointsInPlace ==
    \A p \in cloud : p.fresh =>
        \E t \in Things, a \in {0, Altitude} :
            p.at = <<t[1], t[2]>> /\ t[3] - a + CAM_HEIGHT \in OBS_H_MIN .. OBS_H_MAX

(* The same of every point: violated, by a frame that is older than the    *)
(* pose, a yaw of another moment than the position, and the zeros that     *)
(* stand for a pose before there is one.  No run.                          *)
AllPointsInPlace == \A p \in cloud : \E t \in Things : p.at = <<t[1], t[2]>>

(* "Step 1: map, then move north 3 m three times" (GlobalMapper_new.py:201):*)
(* three times the same place, and with down = 0 on the ground.  Violated; *)
(* no run.                                                                 *)
GoesNorthThrice == script = 7 /\ uav.told.do = "fly" => uav.told.n = 9 /\ uav.told.alt = Altitude
=============================================================================
