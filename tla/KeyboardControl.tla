--------------------------- MODULE KeyboardControl ---------------------------
(***************************************************************************)
(* codes/Codes/keyboardcontrol.py: a thread reads keys into a shared       *)
(* State; the control loop reads it twenty times a second and flies.  Of   *)
(* the velocities one axis is kept (U and J), which the thread adds up,    *)
(* and the yaw rate (A and D), which lasts as long as its key.             *)
(***************************************************************************)
EXTENDS Integers

CONSTANT MaxForward    \* bound: the speed adds up to at most this, either way

VARIABLES shared,       \* State: speed and requests
          key,         \* _active_key while it is fresh, or "none"
          loop,        \* control_loop: program counter and offboard_active
          drone        \* the vehicle: where it is and what it was last told

keyboardVars == <<shared, key, loop, drone>>

Still == [forward |-> 0, yaw |-> 0]

KeyboardInit ==
    /\ shared = [forward |-> 0, takeoff |-> FALSE, land |-> FALSE, running |-> TRUE]
    /\ key = "none"
    /\ loop = [pc |-> "loop", active |-> FALSE]
    /\ drone = [at |-> "ground", armed |-> FALSE, told |-> Still]

----------------------------------------------------------------------------
(* keyboard_thread: it reads until Q.                                      *)

VelMap(k) == [forward |-> CASE k = "u" -> 1 [] k = "j" -> -1 [] OTHER -> 0,
              yaw     |-> CASE k = "a" -> -1 [] k = "d" -> 1 [] OTHER -> 0]
PressVelocity(k) ==
    /\ shared.forward + VelMap(k).forward \in -MaxForward .. MaxForward
    /\ key' = k
    /\ shared' = [shared EXCEPT !.forward = @ + VelMap(k).forward]
PressSpace   == key' = "none" /\ UNCHANGED shared
PressTakeoff == shared' = [shared EXCEPT !.takeoff = TRUE] /\ UNCHANGED key
PressLand    == shared' = [shared EXCEPT !.land = TRUE] /\ UNCHANGED key
PressQuit    == shared' = [shared EXCEPT !.running = FALSE] /\ UNCHANGED key
KeyboardThread ==
    /\ shared.running /\ loop.pc # "gone"
    /\ \/ \E k \in {"u", "j", "a", "d"} : PressVelocity(k)
       \/ PressSpace \/ PressTakeoff \/ PressLand \/ PressQuit
    /\ UNCHANGED <<loop, drone>>
\* _get_active_key: a key not repeated for KEY_HOLD_TIMEOUT counts as released
KeyTimesOut ==
    /\ key # "none"
    /\ key' = "none"
    /\ UNCHANGED <<shared, loop, drone>>

----------------------------------------------------------------------------
(* control_loop.                                                           *)

LoopAt(l) == loop' = [loop EXCEPT !.pc = l]

TakesOffForgets ==
    /\ loop.pc = "loop" /\ shared.running /\ shared.takeoff
    /\ shared' = [shared EXCEPT !.takeoff = FALSE, !.land = FALSE]
    /\ LoopAt("climb")
    /\ drone' = [drone EXCEPT !.armed = TRUE, !.at = IF @ = "air" THEN @ ELSE "climb"]
    /\ UNCHANGED key
TakesOff ==
    /\ loop.pc = "loop" /\ shared.running /\ shared.takeoff
    /\ shared' = [shared EXCEPT !.takeoff = FALSE]
    /\ \/ LoopAt("climb") /\ drone' = [drone EXCEPT !.armed = TRUE,
                                                  !.at = IF @ = "air" THEN @ ELSE "climb"]
       \/ LoopAt("shutdown") /\ UNCHANGED drone                    \* arm or takeoff raises
    /\ UNCHANGED key
\* telemetry reports the altitude; then a zero setpoint and offboard
StartOffboard ==
    /\ loop.pc = "climb" /\ drone.at = "air"
    /\ drone' = [drone EXCEPT !.told = Still]
    /\ \/ loop' = [pc |-> "landed?", active |-> TRUE]
       \/ LoopAt("shutdown")
    /\ UNCHANGED <<shared, key>>
NoTakeoff ==
    /\ loop.pc = "loop" /\ shared.running /\ ~shared.takeoff
    /\ LoopAt("landed?")
    /\ UNCHANGED <<shared, key, drone>>
LandsStillActive ==
    /\ loop.pc = "landed?" /\ shared.land
    /\ shared' = [shared EXCEPT !.land = FALSE]
    /\ key' = "none"
    /\ LoopAt("landing")
    /\ drone' = [drone EXCEPT !.at = IF @ = "ground" THEN @ ELSE "descent", !.told = Still]
Lands ==
    /\ loop.pc = "landed?" /\ shared.land
    /\ shared' = [shared EXCEPT !.land = FALSE]
    /\ key' = "none"
    /\ \/ /\ loop' = [pc |-> "landing", active |-> FALSE]
          /\ drone' = [drone EXCEPT !.at = IF @ = "ground" THEN @ ELSE "descent", !.told = Still]
       \/ loop' = [pc |-> "shutdown", active |-> FALSE] /\ UNCHANGED drone   \* land raises
\* eight seconds, whatever the vehicle does
LandingWaited ==
    /\ loop.pc = "landing"
    /\ LoopAt("send")
    /\ UNCHANGED <<shared, key, drone>>
NoLanding ==
    /\ loop.pc = "landed?" /\ ~shared.land
    /\ LoopAt("send")
    /\ UNCHANGED <<shared, key, drone>>
Idles ==
    /\ loop.pc = "send" /\ ~loop.active
    /\ LoopAt("loop")
    /\ UNCHANGED <<shared, key, drone>>
YawKept == IF key = "none" THEN drone.told.yaw ELSE VelMap(key).yaw
Yaw == VelMap(key).yaw
Sends ==
    /\ loop.pc = "send" /\ loop.active
    /\ \/ /\ LoopAt("loop")
          /\ drone' = [drone EXCEPT !.told = [forward |-> shared.forward, yaw |-> Yaw]]
       \/ LoopAt("shutdown") /\ UNCHANGED drone                    \* set_velocity_body raises
    /\ UNCHANGED <<shared, key>>
Shutdown ==
    /\ \/ loop.pc = "shutdown"
       \/ loop.pc = "loop" /\ ~shared.running
    /\ loop' = [pc |-> "gone", active |-> FALSE]
    /\ \E off \in {FALSE, drone.armed /\ drone.at # "ground"} :  \* PX4 may refuse to disarm in the air
         drone' = [drone EXCEPT !.armed = off, !.told = Still]
    /\ UNCHANGED <<shared, key>>

KeyboardLoop == \/ TakesOff \/ StartOffboard \/ NoTakeoff \/ Lands \/ LandingWaited
                \/ NoLanding \/ Idles \/ Sends \/ Shutdown
Vehicle ==
    /\ \/ drone.at = "climb" /\ drone' = [drone EXCEPT !.at = "air"]
       \/ drone.at = "descent" /\ drone' = [drone EXCEPT !.at = "ground", !.armed = FALSE]
    /\ UNCHANGED <<shared, key, loop>>

KeyboardNext == KeyboardThread \/ KeyTimesOut \/ KeyboardLoop \/ Vehicle
KeyboardSpec ==
    /\ KeyboardInit /\ [][KeyboardNext]_keyboardVars
    /\ WF_keyboardVars(KeyboardLoop) /\ WF_keyboardVars(Vehicle)

----------------------------------------------------------------------------
(* L is heeded even when it is pressed while the vehicle climbs: it lands, *)
(* unless the program is quit (keyboardcontrol.py:213).                    *)
LandIsHeeded == shared.land ~> drone.at \in {"descent", "ground"} \/ loop.pc = "gone"

(* Once the order to land is given no setpoint pulls the vehicle out of    *)
(* the descent before the next takeoff (keyboardcontrol.py:215, 226).      *)
DescentIsLeftAlone ==
    [][drone.at = "descent" /\ drone'.at = "descent" => drone'.told = Still]_keyboardVars

(* A released yaw key stops the turn, if not the travel.                   *)
YawIsReleased == <>[](key = "none") => <>[](drone.told.yaw = 0)

(* "SPACE  Full stop hover" (keyboardcontrol.py:17) and "Released -        *)
(* hovering" (239): the speed added up so far is kept, and keeps being     *)
(* sent.  Violated; no run.                                                *)
ReleaseHovers == <>[](key = "none") => <>[](drone.told = Still)
=============================================================================
