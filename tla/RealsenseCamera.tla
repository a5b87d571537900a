--------------------------- MODULE RealsenseCamera ---------------------------
(***************************************************************************)
(* mapping_drone/realsense.py: the camera is started with the first of     *)
(* several profiles that works, in colour and then, for a camera without a *)
(* colour sensor, with its left infrared image, whose projector has to be  *)
(* kept off.                                                               *)
(***************************************************************************)
EXTENDS Integers, FiniteSets, Sequences

CONSTANTS
  Profiles,       \* number of PROFILE_CANDIDATES
  Every,          \* the emitter is set again every so many frames; 30
  MaxGrabs        \* bound: frames grabbed

ASSUME CameraAssumption == Profiles \in Nat \ {0} /\ Every \in Nat \ {0, 1}

VARIABLES
  useIr,          \* _use_ir
  align,          \* is there an _align?
  started,
  pipeline,       \* what the device streams: "off", "colour" or "ir"
  verified,       \* a colour frame has come since it streams
  sensor,         \* _depth_sensor: "none", "settable" or "fixed"
  emitter,        \* is the projector on?
  lit,            \* frames given away since it came on
  grabs,          \* _grab_count
  call,           \* "none", "trying", "verify" or "raised"
  mode, k         \* what start() tries; k is 0 before

cameraVars == <<useIr, align, started, pipeline, verified, sensor, emitter, lit,
                grabs, call, mode, k>>

CameraInit ==
  /\ useIr \in BOOLEAN /\ align = ~useIr /\ started = FALSE /\ pipeline = "off"
  /\ verified = FALSE /\ sensor = "none" /\ emitter = TRUE /\ lit = 0 /\ grabs = 0
  /\ call = "none" /\ mode = "ir" /\ k = 0

\* The mode asked for; infrared is tried after colour, not the other way.
\* A program starts its node once.
StartCamera ==
  /\ call = "none" /\ k = 0 /\ call' = "trying" /\ k' = 1
  /\ mode' = IF useIr THEN "ir" ELSE "colour"
  /\ align' = ~useIr
  /\ UNCHANGED <<useIr, started, pipeline, verified, sensor, emitter, lit, grabs>>

\* The next profile, the next mode, or RuntimeError.
Continue ==
  IF k < Profiles THEN k' = k + 1 /\ call' = "trying" /\ UNCHANGED <<mode, useIr, align>>
  ELSE IF mode = "colour"
  THEN k' = 1 /\ call' = "trying" /\ mode' = "ir" /\ useIr' = TRUE /\ align' = FALSE
  ELSE call' = "raised" /\ UNCHANGED <<k, mode, useIr, align>>

\* pipeline.start() raises when the profile does not fit, and always when
\* the pipeline is running.
ProfileFails ==
  /\ call = "trying" /\ Continue
  /\ UNCHANGED <<started, pipeline, verified, sensor, emitter, lit, grabs>>

\* The intrinsics cannot be had: start() raises with the pipeline running.
NoIntrinsics ==
  /\ call = "trying" /\ pipeline = "off" /\ pipeline' = mode /\ call' = "raised"
  /\ UNCHANGED <<useIr, align, started, verified, sensor, emitter, lit, grabs,
                 mode, k>>

IrStarts ==
  /\ call = "trying" /\ mode = "ir" /\ pipeline = "off"
  /\ pipeline' = "ir" /\ started' = TRUE /\ call' = "none"
  /\ \/ sensor' = "settable" /\ emitter' \in {FALSE, emitter}
     \/ sensor' \in {"none", "fixed"} /\ UNCHANGED emitter
  /\ UNCHANGED <<useIr, align, verified, lit, grabs, mode, k>>

\* What starts is taken to be there.
ColourTrusted ==
  /\ call = "trying" /\ mode = "colour" /\ pipeline = "off"
  /\ pipeline' = "colour" /\ verified' = FALSE /\ started' = TRUE /\ call' = "none"
  /\ UNCHANGED <<useIr, align, sensor, emitter, lit, grabs, mode, k>>

ColourStarts ==
  /\ call = "trying" /\ mode = "colour" /\ pipeline = "off"
  /\ pipeline' = "colour" /\ verified' = FALSE /\ call' = "verify"
  /\ UNCHANGED <<useIr, align, started, sensor, emitter, lit, grabs, mode, k>>

\* A colour frame came within four waits.
Delivers ==
  /\ call = "verify" /\ verified' = TRUE /\ started' = TRUE /\ call' = "none"
  /\ UNCHANGED <<useIr, align, pipeline, sensor, emitter, lit, grabs, mode, k>>

\* None came; an exception of pipeline.stop() is swallowed.
Silent ==
  /\ call = "verify" /\ pipeline' \in {"off", "colour"} /\ Continue
  /\ UNCHANGED <<started, verified, sensor, emitter, lit, grabs>>

\* Every 30th frame sets the emitter, of the frames counted.
ReassertLate ==
  /\ grabs' = grabs + 1
  /\ IF sensor = "settable" /\ grabs' % (2 * Every) = 1 THEN emitter' = FALSE
     ELSE UNCHANGED emitter

Reassert ==
  /\ grabs' = grabs + 1
  /\ IF sensor = "settable" /\ grabs' % Every = 1 THEN emitter' = FALSE ELSE UNCHANGED emitter

\* A frame is given away in the mode the node believes it is in.
Grab ==
  /\ started /\ call = "none" /\ grabs < MaxGrabs
  /\ IF useIr
     THEN pipeline = "ir" /\ Reassert /\ lit' = IF emitter THEN lit + 1 ELSE 0
     ELSE pipeline = "colour" /\ align /\ UNCHANGED <<grabs, emitter, lit>>
  /\ UNCHANGED <<useIr, align, started, pipeline, verified, sensor, call, mode, k>>

\* pipeline.stop() may raise; the node is not started any more.
Stop ==
  /\ started /\ call = "none" /\ started' = FALSE /\ pipeline' \in {"off", pipeline}
  /\ UNCHANGED <<useIr, align, verified, sensor, emitter, lit, grabs, call, mode, k>>

\* Firmware turns the projector on again.
Firmware ==
  /\ started /\ useIr /\ ~emitter /\ emitter' = TRUE /\ lit' = 0
  /\ UNCHANGED <<useIr, align, started, pipeline, verified, sensor, call, mode, k,
                 grabs>>

CameraNext ==
  \/ StartCamera \/ ProfileFails \/ NoIntrinsics \/ IrStarts \/ ColourStarts
  \/ Delivers \/ Silent \/ Grab \/ Stop \/ Firmware

CameraSpec == CameraInit /\ [][CameraNext]_cameraVars

-----------------------------------------------------------------------------
(* Whatever failed on the way, a node that says it has started streams what *)
(* it will ask for, and in colour it has shown that frames come.  (A D450   *)
(* starts a colour profile and never delivers.)                             *)
StartedDelivers ==
  started => /\ pipeline = IF useIr THEN "ir" ELSE "colour"
             /\ align = ~useIr
             /\ ~useIr => verified

(* With a sensor that can be set, the projector does not spoil more frames  *)
(* in a row than there are between two settings, whenever it comes on.      *)
ProjectorKeptOff == sensor = "settable" => lit <= Every

(* A started camera delivers what it promises, without its dots.           *)
CameraInv == StartedDelivers /\ ProjectorKeptOff
=============================================================================
