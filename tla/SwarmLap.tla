------------------------------ MODULE SwarmLap ------------------------------
(***************************************************************************)
(* semifinal/swarm_controller.py: the ring of waypoints a drone flies in   *)
(* Phase B, how it is steered from one to the next and around what its     *)
(* infrared sensors see, and the turn it makes at some of them.  Lengths   *)
(* are decimetres, the spacing's 0.01 m of tolerance is below one; yaw is  *)
(* in twelfths of a turn, clockwise.                                       *)
(***************************************************************************)
EXTENDS Integers, Sequences, FiniteSets, SequencesExt

CONSTANTS
  Margins,        \* DRONE_MARGINS, and others the arena has room for
  Turns,          \* how far a drone turns between two looks at its yaw
  MaxWaypoints    \* bound: waypoints flown to

VARIABLES
  lap,            \* the ring, the waypoint it is at, and what it does
  spun,           \* the turn: its angle so far, the last yaw, the directions seen
  steer           \* the sensors when it was steered last, and the command

lapVars == <<lap, spun, steer>>

ARENA_X_MIN == 55
ARENA_X_MAX == 110
ARENA_Y_MIN == 0
ARENA_Y_MAX == 110
WAYPOINT_SPACING == 20
SPIN_EVERY_N == 3
Around == 12

\* A drone turns clockwise, and its margin leaves it a ring to fly.
ASSUME LapAssumption ==
  /\ Turns \subseteq Nat
  /\ \A m \in Margins : m \in Nat /\ 2 * m < ARENA_X_MAX - ARENA_X_MIN

-----------------------------------------------------------------------------
(* generate_perimeter_waypoints *)

Upward(from, to) ==
  [k \in 1 .. (IF to < from THEN 0 ELSE (to - from) \div WAYPOINT_SPACING + 1) |->
     from + (k - 1) * WAYPOINT_SPACING]
Downward(from, to) ==
  [k \in 1 .. (IF from < to THEN 0 ELSE (from - to) \div WAYPOINT_SPACING + 1) |->
     from - (k - 1) * WAYPOINT_SPACING]
AtY(xs, y) == [k \in DOMAIN xs |-> <<xs[k], y>>]
AtX(x, ys) == [k \in DOMAIN ys |-> <<x, ys[k]>>]

\* A left edge that runs down to the corner the ring begins at.
LeftToTheCorner(box) == AtX(box.x0, Downward(box.y1 - WAYPOINT_SPACING, box.y0))
LeftEdge(box) ==
  AtX(box.x0, Downward(box.y1 - WAYPOINT_SPACING, box.y0 + WAYPOINT_SPACING))

Box(margin) == [x0 |-> ARENA_X_MIN + margin, x1 |-> ARENA_X_MAX - margin,
                y0 |-> ARENA_Y_MIN + margin, y1 |-> ARENA_Y_MAX - margin]

\* Counter-clockwise as it is built, so for orbit_dir -1.
Perimeter(margin, orbitDir) ==
  LET b == Box(margin)
      ring == AtY(Upward(b.x0, b.x1), b.y0)
              \o AtX(b.x1, Upward(b.y0 + WAYPOINT_SPACING, b.y1))
              \o AtY(Downward(b.x1 - WAYPOINT_SPACING, b.x0), b.y1)
              \o LeftEdge(b)
  IN IF orbitDir = 1 THEN Reverse(ring) ELSE ring

-----------------------------------------------------------------------------
(* compute_avoidance: <<forward, right>> in units of MAX_FORWARD_SPEED.     *)

ComputeAvoidance(front, left, right, orbitDir) ==
  CASE front /\ left /\ right -> <<-1, 0>>
    [] front /\ left /\ ~right -> <<0, 1>>
    [] front /\ ~left /\ right -> <<0, -1>>
    [] front /\ ~left /\ ~right -> <<0, -orbitDir>>
    [] ~front /\ left /\ right -> <<1, 0>>
    [] ~front /\ left /\ ~right -> <<0, 1>>
    [] ~front /\ ~left /\ right -> <<0, -1>>
    [] OTHER -> <<0, 0>>

\* navigate_to: the way to the target in the drone's axes, for a yaw of quarter
\* turns.
Cosine(q) == CASE q = 0 -> 1 [] q = 2 -> -1 [] OTHER -> 0
Sine(q) == CASE q = 1 -> 1 [] q = 3 -> -1 [] OTHER -> 0
NavigateTo(dx, dy, quarter) ==
  LET heading == (4 - quarter) % 4
  IN << dx * Cosine(heading) + dy * Sine(heading), dy * Cosine(heading) - dx * Sine(heading) >>

-----------------------------------------------------------------------------
LapInit ==
  /\ lap \in [margin : Margins, dir : {-1, 1}, idx : {0}, doing : {"ground"}]
  /\ spun = [total |-> 0, yaw |-> 0, seen |-> {}]
  /\ steer = [front |-> FALSE, left |-> FALSE, right |-> FALSE, cmd |-> <<0, 0>>]

\* Phase B: it has climbed, and its waypoints are there from the start.
BeginLap ==
  /\ lap.doing = "ground" /\ lap' = [lap EXCEPT !.doing = "fly"]
  /\ UNCHANGED <<spun, steer>>

\* Something unexpected is in the way.
Avoid ==
  /\ lap.doing = "fly"
  /\ \E front, left, right \in BOOLEAN :
       /\ front \/ left \/ right
       /\ steer' = [front |-> front, left |-> left, right |-> right,
                    cmd |-> ComputeAvoidance(front, left, right, lap.dir)]
  /\ UNCHANGED <<lap, spun>>

\* It is at the waypoint: every third time it turns there.
ArriveAtWaypoint ==
  /\ lap.doing = "fly" /\ lap.idx < MaxWaypoints
  /\ IF lap.idx % SPIN_EVERY_N = 0
     THEN /\ lap' = [lap EXCEPT !.doing = "spin"]
          /\ spun' = [total |-> 0, yaw |-> spun.yaw, seen |-> {spun.yaw}]
     ELSE lap' = [lap EXCEPT !.idx = @ + 1] /\ UNCHANGED spun
  /\ UNCHANGED steer

\* abs(wrap_to_pi()) of the difference of two yaws.
Delta(a, b) ==
  LET d == (a - b) % Around IN IF 2 * d > Around THEN Around - d ELSE d

\* The angle that is enough: half a turn, or the whole of it.
HalfTurn == Around \div 2
FullTurn == Around

SpinOn ==
  /\ lap.doing = "spin"
  /\ \E turn \in Turns :
       /\ spun' = [total |-> spun.total + Delta(spun.yaw + turn, spun.yaw),
                   yaw |-> (spun.yaw + turn) % Around,
                   seen |-> spun.seen \cup {(spun.yaw + t) % Around : t \in 0 .. turn}]
       /\ lap' = IF spun'.total >= FullTurn THEN [lap EXCEPT !.doing = "fly", !.idx = @ + 1]
                 ELSE lap
  /\ UNCHANGED steer

LapNext == BeginLap \/ Avoid \/ ArriveAtWaypoint \/ SpinOn
LapSpec == LapInit /\ [][LapNext]_lapVars

-----------------------------------------------------------------------------
Ring == Perimeter(lap.margin, lap.dir)
Apart(p, q) ==
  LET dx == IF p[1] < q[1] THEN q[1] - p[1] ELSE p[1] - q[1]
      dy == IF p[2] < q[2] THEN q[2] - p[2] ELSE p[2] - q[2]
  IN IF dx < dy THEN dy ELSE dx
Rim(b) == { p \in (b.x0 .. b.x1) \X (b.y0 .. b.y1) :
              p[1] \in {b.x0, b.x1} \/ p[2] \in {b.y0, b.y1} }

(* generate_perimeter_waypoints "along the perimeter rectangle" (l.161): the *)
(* four edges join to one ring, whatever the spacing leaves over at a        *)
(* corner.  No waypoint comes twice, all are on the rectangle, every point   *)
(* of it is within a spacing of one, and the way from each to the next, the  *)
(* last to the first too, is shorter than two.                               *)
RingIsClosed ==
  lap.doing = "fly" /\ lap.idx = 0 =>
  LET r == Ring
  IN /\ r # <<>> /\ IsInjective(r)
     /\ \A i \in DOMAIN r : r[i] \in Rim(Box(lap.margin))
     /\ \A p \in Rim(Box(lap.margin)) : \E i \in DOMAIN r : Apart(p, r[i]) <= WAYPOINT_SPACING
     /\ \A i \in DOMAIN r : Apart(r[i], r[(i % Len(r)) + 1]) < 2 * WAYPOINT_SPACING

(* A drone is not sent to a side its sensors say is blocked; boxed in, it     *)
(* backs out (compute_avoidance).                                             *)
SteersClear ==
  LET forward == steer.cmd[1]  right == steer.cmd[2]
  IN /\ steer.front => forward <= 0
     /\ ~(steer.left /\ right < 0) /\ ~(steer.right /\ right > 0)
     /\ steer.front \/ steer.left \/ steer.right => steer.cmd # <<0, 0>>

(* After the turn at a waypoint the camera has looked in every direction: a   *)
(* drone that turns one way is not counted further than it came, however few  *)
(* of its yaws are read.                                                      *)
SpinLooksRound ==
  lap.doing = "fly" /\ spun.seen # {} => spun.seen = 0 .. Around - 1

(* The command navigate_to sends a drone that is turned about brings it       *)
(* towards the target, with its second axis to the left.                      *)
Forward(quarter) == <<Cosine(quarter), -Sine(quarter)>>
HeadsForTarget ==
  spun.yaw % 3 = 0 =>
    \A dx, dy \in -1 .. 1 :
      LET f == Forward(spun.yaw \div 3)
          c == NavigateTo(dx, dy, spun.yaw \div 3)
      IN << c[1] * f[1] - c[2] * f[2], c[1] * f[2] + c[2] * f[1] >> = <<dx, dy>>

(* A lap has no gaps, in its route, in its turns and around obstacles.        *)
LapInv == RingIsClosed /\ SteersClear /\ HeadsForTarget /\ SpinLooksRound

-----------------------------------------------------------------------------
(* "spin 360 at each waypoint" (l.4): of the ring of 1.8 m, with six points,  *)
(* only two are ever turned at.                                               *)
EveryPointIsScanned ==
  \A i \in DOMAIN Ring : \E k \in 0 .. 3 * Len(Ring) :
    k % Len(Ring) = i - 1 /\ k % SPIN_EVERY_N = 0

(* "-1=CCW (strafe left when front blocked)" (l.218): it strafes right.       *)
StrafesAsDocumented ==
  steer.front /\ ~steer.left /\ ~steer.right /\ lap.dir = -1 => steer.cmd = <<0, -1>>

(* Both functions command the same axis: what navigate_to takes for a target  *)
(* to the right (of a drone that looks along x, the target at -y) is to the   *)
(* right of compute_avoidance too.                                            *)
SameAxis ==
  NavigateTo(0, -1, 0) = ComputeAvoidance(FALSE, TRUE, FALSE, lap.dir)
=============================================================================
