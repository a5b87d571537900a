------------------------------ MODULE SurveyBox ------------------------------
(***************************************************************************)
(* semifinal/tools/survey_box.py: the drone is carried to the corners of   *)
(* the arena, the tool captures the position the flight controller reports *)
(* at each, fits the arena onto them and writes a lawnmower route.  Points *)
(* are half metres in the true frame, so the true fit is the identity.     *)
(* The fit itself (an SVD) is left out: what is kept is what a residual of *)
(* nothing, or of 0.30 m at most, says of the distances.                   *)
(***************************************************************************)
EXTENDS Integers, Sequences, FiniteSets

CONSTANTS OffCorners,  \* other places the drone is carried past
          Lanes, Ranks \* bounds of the route: lanes, scan points on a lane

VARIABLES survey,      \* program counter, and the corner that is asked for
          there,       \* where the drone is
          reported,    \* the position telemetry reported last
          captured,    \* captured: a corner and the position taken for it
          route         \* the route: is it written, and was a warning given?

surveyVars == <<survey, there, reported, captured, route>>

ARENA_W == 11
ARENA_L == 22
CORNERS == << <<0, 0>>, <<0, ARENA_L>>, <<ARENA_W, ARENA_L>>, <<ARENA_W, 0>> >>
Corners == { CORNERS[i] : i \in DOMAIN CORNERS }
Unknown == <<-1, -1>>
\* whoever carries the drone stays inside the net; its walls belong to the box
InNet == (0 .. ARENA_W) \X (0 .. ARENA_L)

ASSUME SurveyAssumption ==
    /\ OffCorners \subseteq InNet
    /\ Lanes \in Nat /\ Ranks \in Nat

SurveyInit ==
    /\ survey = [pc |-> "await", next |-> 1]
    /\ there \in OffCorners
    /\ reported = Unknown
    /\ captured = {}
    /\ route = [written |-> FALSE, warned |-> FALSE]

----------------------------------------------------------------------------
(* The drone is carried about; telemetry follows, or has frozen.           *)

Carry ==
    /\ survey.pc \in {"await", "corner"}
    /\ there' \in (Corners \cup OffCorners) \ {there}
    /\ UNCHANGED <<survey, reported, captured, route>>
Telemetry ==
    /\ survey.pc \in {"await", "corner"} /\ reported # there
    /\ reported' = there
    /\ UNCHANGED <<survey, there, captured, route>>

AwaitPosition ==
    /\ survey.pc = "await" /\ reported # Unknown
    /\ survey' = [survey EXCEPT !.pc = "corner"]
    /\ UNCHANGED <<there, reported, captured, route>>
NoPosition ==
    /\ survey.pc = "await" /\ reported = Unknown
    /\ survey' = [survey EXCEPT !.pc = "exit"]
    /\ UNCHANGED <<there, reported, captured, route>>

Onward == survey' = IF survey.next = Len(CORNERS) THEN [survey EXCEPT !.pc = "fit"]
                                                  ELSE [survey EXCEPT !.next = @ + 1]
\* Enter captures what was reported last, however old: that is a warning only
Capture ==
    /\ survey.pc = "corner"
    /\ captured' = captured \cup {<<CORNERS[survey.next], reported>>}
    /\ Onward
    /\ UNCHANGED <<there, reported, route>>
Skip ==
    /\ survey.pc = "corner"
    /\ Onward
    /\ UNCHANGED <<there, reported, captured, route>>

----------------------------------------------------------------------------
(* The fit: a turn and a shift, never a reflection.                        *)

Squared(p, q) == (p[1] - q[1]) * (p[1] - q[1]) + (p[2] - q[2]) * (p[2] - q[2])
\* twice the signed area of a triangle: its sign is the way round
Area(p, q, r) == (q[1] - p[1]) * (r[2] - p[2]) - (r[1] - p[1]) * (q[2] - p[2])
Collinear(P) == \A p, q, r \in P : Area(p, q, r) = 0
\* singular values near zero: the positions, or the corners, are on one line
Degenerate(c) == Collinear({ x[1] : x \in c }) \/ Collinear({ x[2] : x \in c })
\* no residual: distances and the way round are those of the arena
Exact(c) ==
    \A x, y, z \in c : /\ Squared(x[1], y[1]) = Squared(x[2], y[2])
                       /\ Area(x[1], y[1], z[1]) = Area(x[2], y[2], z[2])
\* two distances, given squared, that differ by twice 0.30 m at most: a residual
\* of 0.30 m at either end
Within(far, near) ==
    LET k == 25 * (far + near) - 36 IN k <= 0 \/ k * k <= 2500 * far * near
\* what every residual of 0.30 m at most leaves of the arena
Fits(c) ==
    /\ \A x, y \in c : Within(Squared(x[1], y[1]), Squared(x[2], y[2]))
    /\ \A x, y, z \in c : Area(x[1], y[1], z[1]) > 0 => Area(x[2], y[2], z[2]) > 0
\* is there a warning?  None for no residual, one beyond 0.30 m; between the two
\* the model leaves it open.  The edges recovered by a rigid fit have their
\* lengths, and their check never warns.
WarningsByEdges(c) == {FALSE}
Warnings(c) == { w \in BOOLEAN : (w => ~Exact(c)) /\ (~w => Fits(c)) }
TooFew(c) == Cardinality(c) < 3

Refuse ==
    /\ survey.pc = "fit" /\ (TooFew(captured) \/ Degenerate(captured))
    /\ survey' = [survey EXCEPT !.pc = "exit"]
    /\ UNCHANGED <<there, reported, captured, route>>
WriteWaypoints ==
    /\ survey.pc = "fit" /\ ~TooFew(captured) /\ ~Degenerate(captured)
    /\ \E w \in Warnings(captured) : route' = [written |-> TRUE, warned |-> w]
    /\ survey' = [survey EXCEPT !.pc = "exit"]
    /\ UNCHANGED <<there, reported, captured>>

SurveyNext == \/ Carry \/ Telemetry \/ AwaitPosition \/ NoPosition
              \/ Capture \/ Skip \/ Refuse \/ WriteWaypoints
SurveySpec == SurveyInit /\ [][SurveyNext]_surveyVars

----------------------------------------------------------------------------
(* The route: every second lane is flown the other way.                    *)

LaneOneWay(i, n) == [k \in 1 .. n |-> <<i, k>>]
Lane(i, n) == [k \in 1 .. n |-> <<i, IF i % 2 = 1 THEN k ELSE n + 1 - k>>]
LawnmowerArena(lanes, n) ==
    [k \in 1 .. lanes * n |-> Lane(((k - 1) \div n) + 1, n)[((k - 1) % n) + 1]]

----------------------------------------------------------------------------
(* A route is written over the box that was walked, or with a warning:     *)
(* corners taken in a wrong order, skipped, or captured from a frozen      *)
(* position are not fitted quietly (survey_box.py:188-206).  The warning   *)
(* begins at a residual of 0.30 m, which lets a corner be off by half a    *)
(* metre along the arena and 1.5 m across it: with three corners, one that *)
(* is off across the arena is off along the diagonal by little.  The box   *)
(* half a turn round is the same box.                                      *)
CloseTo(p, corner) == p[1] - corner[1] \in -3 .. 3 /\ p[2] - corner[2] \in -1 .. 1
Turned(p) == <<ARENA_W - p[1], ARENA_L - p[2]>>
BoxIsCloseOrWarned ==
    route.written => \/ route.warned
                     \/ \A x \in captured : CloseTo(x[2], x[1])
                     \/ \A x \in captured : CloseTo(x[2], Turned(x[1]))

(* The route never jumps: from point to point it moves on along its lane,  *)
(* or straight across to the next lane.                                    *)
RouteIsSerpentine ==
    \A l \in 1 .. Lanes, n \in 2 .. Ranks :
        LET r == LawnmowerArena(l, n)
        IN  \A k \in 1 .. Len(r) - 1 : Squared(r[k], r[k + 1]) = 1

(* The route is written over the box that was walked, or with a warning,   *)
(* and is a lawnmower's.                                                   *)
SurveyInv == BoxIsCloseOrWarned /\ (route.written => RouteIsSerpentine)
=============================================================================
