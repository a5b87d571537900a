---------------------------- MODULE UwbSubscriber ----------------------------
(***************************************************************************)
(* mapping_drone/uwb.py: UwbNode, which spins a ROS 2 subscription in a    *)
(* thread of its own, and UwbPoseSource of px4_mission.py, which reads it. *)
(* Time is the age of the last packet, in half seconds.                    *)
(***************************************************************************)
EXTENDS Naturals

CONSTANTS Fixes, MaxPackets,
          MaxStarts    \* bound: calls of start

VARIABLES node,        \* UwbNode: _started, _stop_flag, _owns_rclpy_init, starts so far
          context,     \* whose rclpy context is up: "ours", "theirs" or "none"
          spinner,     \* the spin threads: "none", "spinning" or "ended"
          position, ready, stamp,
          altitude,    \* _have_z, and whether the last packet did carry one
          age,         \* of the last packet
          answer       \* the last answer of get_altitude and what was true then

uwbVars == <<node, context, spinner, position, ready, stamp, altitude, age, answer>>
lifecycle == <<node, context, spinner>>
fix == <<position, ready, stamp, altitude>>

FRESH == 2             \* one second

Mock == INSTANCE MockUwb

UwbInit ==
    /\ node = [started |-> FALSE, stop |-> FALSE, owns |-> FALSE, starts |-> 0]
    /\ context \in {"none", "theirs"}
    /\ spinner = "none"
    /\ Mock!MockInit
    /\ altitude = [have |-> FALSE, sent |-> FALSE]
    /\ age = FRESH + 1
    /\ answer = [given |-> FALSE, sent |-> TRUE, age |-> 0]

----------------------------------------------------------------------------
(* start.                                                                  *)

Starting == ~node.started /\ node.starts < MaxStarts
Counted(n) == [n EXCEPT !.starts = @ + 1]
\* rclpy.init, unless somebody did it already
Owns == context = "none" \/ node.owns
Opened == IF context = "none" THEN "ours" ELSE context
NoRos ==
    /\ Starting
    /\ node' = Counted(node)
    /\ UNCHANGED <<context, spinner, fix, age, answer>>
\* no node or no subscription: a context that is up goes again, if it is ours
StartFails ==
    /\ Starting
    /\ \/ /\ node' = Counted([node EXCEPT !.owns = FALSE])
          /\ context' = IF Owns THEN "none" ELSE context
       \/ /\ node' = Counted([node EXCEPT !.owns = Owns])
          /\ context' = "none"
    /\ UNCHANGED <<spinner, fix, age, answer>>
Start ==
    /\ Starting
    /\ node' = Counted([node EXCEPT !.started = TRUE, !.owns = Owns])
    /\ context' = Opened
    /\ spinner' = "spinning"
    /\ UNCHANGED <<fix, age, answer>>

----------------------------------------------------------------------------
(* The spin thread.                                                        *)

Spinning == spinner = "spinning" /\ ~node.stop /\ context # "none"
HaveZ(z) == z
\* only a packet with an altitude is dated
OnPoseUndated ==
    /\ Spinning /\ stamp < MaxPackets
    /\ \E p \in Fixes, z \in BOOLEAN :
         /\ position' = p
         /\ altitude' = [have |-> HaveZ(z), sent |-> z]
         /\ stamp' = IF z THEN stamp + 1 ELSE stamp
    /\ ready' = TRUE
    /\ age' = 0
    /\ UNCHANGED <<lifecycle, answer>>
OnPose ==
    /\ Spinning /\ stamp < MaxPackets
    /\ \E p \in Fixes, z \in BOOLEAN :
         /\ position' = p
         /\ altitude' = [have |-> HaveZ(z), sent |-> z]
    /\ ready' = TRUE
    /\ stamp' = stamp + 1
    /\ age' = 0
    /\ UNCHANGED <<lifecycle, answer>>
\* stop was asked for, the context is down, or spin_once raised
SpinEnds ==
    /\ spinner = "spinning"
    /\ spinner' = "ended"
    /\ UNCHANGED <<node, context, fix, age, answer>>

----------------------------------------------------------------------------
(* stop: it waits two seconds for the thread, whose spins take a tenth.    *)

StopAsked ==
    /\ node.started /\ ~node.stop
    /\ node' = [node EXCEPT !.stop = TRUE]
    /\ UNCHANGED <<context, spinner, fix, age, answer>>
\* The second stop after a restart finds its flag still set.  _owns_rclpy_init
\* outlives a context that is down already.
ShutsDown == node.owns /\ context # "none"
Stopped ==
    /\ node.started /\ node.stop /\ spinner = "ended"
    /\ node' = [node EXCEPT !.started = FALSE, !.owns = node.owns /\ ~ShutsDown]
    /\ context' = IF ShutsDown THEN "none" ELSE context
    /\ UNCHANGED <<spinner, fix, age, answer>>

----------------------------------------------------------------------------
(* Readers, time and other users of ROS 2 in the process.                  *)

GetAltitude ==
    /\ answer' = [given |-> altitude.have /\ stamp > 0 /\ age <= FRESH,
                  sent |-> altitude.sent, age |-> age]
    /\ UNCHANGED <<lifecycle, fix, age>>
\* UwbPoseSource.get_pose: the altitude that was assumed, when there is none
GetPose == [ready |-> ready, down |-> IF answer.given THEN "measured" ELSE "assumed"]
HalfSecond ==
    /\ age <= FRESH
    /\ age' = age + 1
    /\ UNCHANGED <<lifecycle, fix, answer>>
\* Ctrl-C or another user takes the context down
ContextLost ==
    /\ context # "none"
    /\ context' = "none"
    /\ UNCHANGED <<node, spinner, fix, age, answer>>
\* or opens one of its own
ContextOpened ==
    /\ context = "none"
    /\ context' = "theirs"
    /\ UNCHANGED <<node, spinner, fix, age, answer>>

UwbNext == \/ NoRos \/ StartFails \/ Start \/ OnPose \/ SpinEnds \/ StopAsked \/ Stopped
           \/ GetAltitude \/ HalfSecond \/ ContextLost \/ ContextOpened
UwbSpec == UwbInit /\ [][UwbNext]_uwbVars

----------------------------------------------------------------------------
(* The mock the tests fly on promises no more than the real subscriber     *)
(* keeps: a fix is never taken back, its time never goes back, a position  *)
(* changes with its time only (uwb.py:43, 195).                            *)
ImplementsMock == Mock!MockSpec

(* An altitude is the one the latest packet carried, and that packet is at *)
(* most a second old: one early packet does not poison it (uwb.py:141).    *)
AltitudeIsRecent == answer.given => answer.sent /\ answer.age <= FRESH

(* "Don't leak the rclpy context we just initialised" (uwb.py:95): with    *)
(* the node stopped no context of ours is left open.                       *)
NoContextLeaked == ~node.started => context # "ours"

(* The context a stop takes down is its own ("Don't leak the rclpy context *)
(* we just initialised" is about that one, uwb.py:95).  _owns_rclpy_init   *)
(* stays set when our context was down before the stop: once another user  *)
(* has opened one, this stop or a later one shuts that one down.           *)
(* Violated; no run.                                                       *)
LeavesTheirs == [][Stopped => context # "theirs" \/ context' = context]_uwbVars

(* A subscriber that was started again receives.  _stop_flag is never      *)
(* cleared: it does not.  Violated; no run.                                *)
RestartReceives == node.started /\ node.starts > 1 /\ spinner = "spinning" => ~node.stop
=============================================================================
