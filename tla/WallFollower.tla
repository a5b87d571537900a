---------------------------- MODULE WallFollower ----------------------------
(***************************************************************************)
(* searchctl/wall_following.py: the depth camera's view of the walls and   *)
(* the state machine that follows the one on the right, tick by tick.      *)
(*                                                                         *)
(* Distances are in centimetres.  In every tick the world puts a wall at   *)
(* some distance ahead and to the right; the follower sees what            *)
(* get_wall_distances makes of it.                                         *)
(***************************************************************************)
EXTENDS Integers, Sequences, FiniteSetsExt

CONSTANTS
  Ahead, Beside,              \* the distances the world offers
  STUCK_WINDOW_TICKS, ESCAPE_TICKS, ESCAPE_COOLDOWN_TICKS,
  AVOID_FRONT_MAX_TICKS, AVOID_COOLDOWN, FIND_WALL_STALL_TICKS,
  CORNER_PHASE1_TICKS, CORNER_PHASE2_TICKS, CORNER_PHASE3_TICKS

ASSUME WallAssumption ==
  /\ Ahead \subseteq Nat /\ Beside \subseteq Nat
  /\ {STUCK_WINDOW_TICKS, ESCAPE_TICKS, ESCAPE_COOLDOWN_TICKS,
      AVOID_FRONT_MAX_TICKS, AVOID_COOLDOWN, FIND_WALL_STALL_TICKS,
      CORNER_PHASE1_TICKS, CORNER_PHASE2_TICKS, CORNER_PHASE3_TICKS}
       \subseteq Nat \ {0}

\* the second dash of an outer corner is the shorter one (15 ticks of 140)
ASSUME DashAssumption == CORNER_PHASE3_TICKS < CORNER_PHASE1_TICKS

DESIRED_DIST   == 120
WALL_LOST_DIST == DESIRED_DIST + 30
CORNER_TICKS   == CORNER_PHASE1_TICKS + CORNER_PHASE2_TICKS + CORNER_PHASE3_TICKS

VARIABLES
  state,            \* WallFollower.state
  pre_avoid_state, corner_ticks, avoid_cooldown, stuck_history,
  escape_ticks, escape_cooldown, avoid_front_ticks, find_wall_ticks,
  ahead, beside,    \* where the walls were in the last tick
  command,          \* what compute() returned in the last tick
  since_escape,     \* ticks since the last escape ended, up to a limit
  pressing,         \* ticks in a row that it went on with a wall seen ahead
  spinning          \* ticks in a row that it turned away from a wall

counters == <<corner_ticks, avoid_cooldown, escape_ticks, escape_cooldown,
              avoid_front_ticks, find_wall_ticks>>
wallVars == <<state, pre_avoid_state, counters, stuck_history, ahead, beside,
          command, since_escape, pressing, spinning>>

States == {"find_wall", "follow_wall", "avoid_front", "outer_corner", "escape"}
Commands == {"still", "escape_turn", "turn_away", "corner_turn",
             "search", "forward", "follow"}
Onward == {"search", "forward", "follow"}

\* get_wall_distances: points up to 1.5 m ahead are taken for the drone's own
\* body, and a view without points is 10 m of free space.
Nothing == 1000
BodyFilter == 150
Seen(distance) == IF distance > BodyFilter THEN distance ELSE Nothing

SinceLimit == ESCAPE_COOLDOWN_TICKS + 1

WallInit ==
  /\ state = "find_wall" /\ pre_avoid_state = "find_wall"
  /\ corner_ticks = 0 /\ avoid_cooldown = 0 /\ escape_ticks = 0
  /\ escape_cooldown = 0 /\ avoid_front_ticks = 0 /\ find_wall_ticks = 0
  /\ stuck_history = <<>>
  /\ ahead = Nothing /\ beside = Nothing /\ command = "still"
  /\ since_escape = SinceLimit /\ pressing = 0 /\ spinning = 0

-----------------------------------------------------------------------------
(* compute(), on a record of the follower's fields.  Each operator is one   *)
(* block of the method; "told" is the command once a block has returned it. *)

Fields == [state |-> state, pre |-> pre_avoid_state, corner |-> corner_ticks,
           avoid_cooldown |-> avoid_cooldown, history |-> stuck_history,
           escape |-> escape_ticks, cooldown |-> escape_cooldown,
           avoid |-> avoid_front_ticks, find |-> find_wall_ticks, told |-> "still"]

Less1(n) == IF n > 0 THEN n - 1 ELSE 0

EnterEscape(f) ==
  [f EXCEPT !.state = "escape", !.escape = 0, !.told = "escape_turn"]

\* An escape turn without a cooldown after it.
EscapeAgain(f) ==
  IF f.state # "escape" THEN f
  ELSE IF f.escape + 1 < ESCAPE_TICKS
    THEN [f EXCEPT !.escape = @ + 1, !.told = "escape_turn"]
    ELSE [f EXCEPT !.state = "find_wall", !.pre = "find_wall", !.escape = 0,
            !.history = <<>>, !.avoid = 0, !.find = 0]

\* The escape turn ends after ESCAPE_TICKS and the tick goes on.
EscapeBlock(f) ==
  IF f.state # "escape" THEN f
  ELSE IF f.escape + 1 < ESCAPE_TICKS
    THEN [f EXCEPT !.escape = @ + 1, !.told = "escape_turn"]
    ELSE [f EXCEPT !.state = "find_wall", !.pre = "find_wall", !.escape = 0,
            !.cooldown = ESCAPE_COOLDOWN_TICKS, !.history = <<>>,
            !.avoid = 0, !.find = 0]

Spread(numbers) == Max(numbers) - Min(numbers)

\* _is_stuck: a full window in which neither distance changed by 15 cm, with
\* something within 4 m ahead.
IsWedged(history) ==
  /\ Len(history) >= STUCK_WINDOW_TICKS
  /\ history[Len(history)].front < 400
  /\ Spread({history[i].front : i \in DOMAIN history}) < 15
  /\ Spread({history[i].right : i \in DOMAIN history}) < 15

\* The window is not cut to its length.
StuckBlockGrows(f, front, right) ==
  LET cooled == [f EXCEPT !.cooldown = Less1(@)]
      longer == Append(f.history, [front |-> front, right |-> right])
  IN IF cooled.state = "follow_wall" /\ cooled.cooldown = 0
     THEN IF IsWedged(longer)
            THEN EnterEscape([cooled EXCEPT !.history = <<>>])
            ELSE [cooled EXCEPT !.history = longer]
     ELSE [cooled EXCEPT !.history = <<>>]

\* It is looked for in follow_wall, once the cooldown is over.
StuckBlock(f, front, right) ==
  LET cooled == [f EXCEPT !.cooldown = Less1(@)]
      longer == Append(f.history, [front |-> front, right |-> right])
      window == IF Len(longer) > STUCK_WINDOW_TICKS THEN Tail(longer) ELSE longer
  IN IF cooled.state = "follow_wall" /\ cooled.cooldown = 0
     THEN IF IsWedged(window)
            THEN EnterEscape([cooled EXCEPT !.history = <<>>])
            ELSE [cooled EXCEPT !.history = window]
     ELSE [cooled EXCEPT !.history = <<>>]

\* Too long without a wall: an escape turn.
FindBlock(f) ==
  IF f.state # "find_wall" THEN [f EXCEPT !.find = 0]
  ELSE IF f.find + 1 >= FIND_WALL_STALL_TICKS /\ f.cooldown = 0
    THEN EnterEscape([f EXCEPT !.find = 0])
    ELSE [f EXCEPT !.find = @ + 1]

CornerAbort(f, front) ==
  IF f.state = "outer_corner" /\ f.corner < CORNER_PHASE1_TICKS /\ front < 150
  THEN [f EXCEPT !.pre = "find_wall", !.state = "avoid_front", !.avoid = 0,
          !.corner = 0]
  ELSE f

\* It turns until the way is free.
AvoidForever(f, front) ==
  IF front >= 180
    THEN [f EXCEPT !.state = f.pre, !.avoid_cooldown = AVOID_COOLDOWN, !.avoid = 0]
  ELSE [f EXCEPT !.avoid = (@ + 1) % AVOID_FRONT_MAX_TICKS]

\* avoid_front holds until the way is free, or a circle was turned.
Avoid(f, front) ==
  IF front >= 180
    THEN [f EXCEPT !.state = f.pre, !.avoid_cooldown = AVOID_COOLDOWN, !.avoid = 0]
  ELSE IF f.avoid + 1 >= AVOID_FRONT_MAX_TICKS
    THEN [f EXCEPT !.state = "find_wall", !.pre = "find_wall",
            !.avoid_cooldown = AVOID_COOLDOWN, !.avoid = 0]
  ELSE [f EXCEPT !.avoid = @ + 1]

\* A corner that is not left.
CornerStays(f) == [f EXCEPT !.corner = (@ + 1) % CORNER_TICKS]

Corner(f) ==
  [f EXCEPT !.corner = @ + 1,
            !.state = IF f.corner + 1 >= CORNER_TICKS THEN "follow_wall" ELSE @]

\* Tracking without the rule for a wall ahead.
TrackBlind(f, front, right) ==
  [f EXCEPT !.state = IF right > WALL_LOST_DIST /\ f.avoid_cooldown = 0
                      THEN "find_wall" ELSE "follow_wall"]

\* Tracking that gives up a wall at the distance it should keep.
TrackTight(f, front, right) ==
  CASE front < 200 ->
         [f EXCEPT !.pre = f.state, !.state = "avoid_front", !.avoid = 0]
    [] front >= 200 ->
         [f EXCEPT !.state = IF right >= DESIRED_DIST /\ f.avoid_cooldown = 0
                             THEN "find_wall" ELSE "follow_wall"]

\* find_wall and follow_wall: a wall ahead first, a lost wall on the right second.
Track(f, front, right) ==
  CASE front < 200 ->
         [f EXCEPT !.pre = f.state, !.state = "avoid_front", !.avoid = 0]
    [] front >= 200 /\ f.state = "follow_wall" /\ right > WALL_LOST_DIST + 70 ->
         [f EXCEPT !.state = "outer_corner", !.corner = 0]
    [] OTHER ->
         [f EXCEPT !.state = IF right > WALL_LOST_DIST /\ f.avoid_cooldown = 0
                             THEN "find_wall" ELSE "follow_wall"]

Core(f, front, right) ==
  LET moved == CASE f.state = "avoid_front"  -> Avoid(f, front)
                 [] f.state = "outer_corner" -> Corner(f)
                 [] OTHER                    -> Track(f, front, right)
  IN [moved EXCEPT !.avoid_cooldown = Less1(@)]

Command(f) ==
  CASE f.state = "avoid_front" -> "turn_away"
    [] f.state = "find_wall"   -> "search"
    [] f.state = "follow_wall" -> "follow"
    [] f.state = "outer_corner" ->
         IF f.corner < CORNER_PHASE1_TICKS THEN "forward"
         ELSE IF f.corner < CORNER_PHASE1_TICKS + CORNER_PHASE2_TICKS
           THEN "corner_turn" ELSE "forward"

Told(f) == f.told # "still"

Compute(front, right) ==
  LET escaped == EscapeBlock(Fields)
      stuck   == IF Told(escaped) THEN escaped ELSE StuckBlock(escaped, front, right)
      found   == IF Told(stuck) THEN stuck ELSE FindBlock(stuck)
      moved   == Core(CornerAbort(found, front), front, right)
  IN IF Told(found) THEN found ELSE [moved EXCEPT !.told = Command(moved)]

-----------------------------------------------------------------------------
CountUp(n, limit) == IF n < limit THEN n + 1 ELSE n

FollowTick(a, b) ==
  \E f \in {Compute(Seen(a), b)} :
     /\ ahead' = a /\ beside' = b
     /\ state' = f.state /\ pre_avoid_state' = f.pre
     /\ corner_ticks' = f.corner /\ avoid_cooldown' = f.avoid_cooldown
     /\ stuck_history' = f.history /\ escape_ticks' = f.escape
     /\ escape_cooldown' = f.cooldown /\ avoid_front_ticks' = f.avoid
     /\ find_wall_ticks' = f.find /\ command' = f.told
     /\ since_escape' = IF f.state = "escape" THEN 0
                        ELSE CountUp(since_escape, SinceLimit)
     /\ pressing' = IF f.told \in Onward /\ Seen(a) < 180
                    THEN CountUp(pressing, CORNER_TICKS) ELSE 0
     /\ spinning' = IF f.told = "turn_away"
                    THEN CountUp(spinning, AVOID_FRONT_MAX_TICKS + 1) ELSE 0

WallNext == \E a \in Ahead, b \in Beside : FollowTick(a, b)

\* The planner's loop calls compute() for every depth frame.
WallSpec == WallInit /\ [][WallNext]_wallVars /\ WF_wallVars(WallNext)

-----------------------------------------------------------------------------
WallTypeOK ==
  /\ state \in States /\ pre_avoid_state \in {"find_wall", "follow_wall"}
  /\ corner_ticks \in 0..CORNER_TICKS /\ avoid_cooldown \in 0..AVOID_COOLDOWN
  /\ stuck_history \in Seq([front : Nat, right : Nat])
  /\ Len(stuck_history) <= STUCK_WINDOW_TICKS
  /\ escape_ticks \in 0..ESCAPE_TICKS - 1
  /\ escape_cooldown \in 0..ESCAPE_COOLDOWN_TICKS
  /\ avoid_front_ticks \in 0..AVOID_FRONT_MAX_TICKS - 1
  /\ find_wall_ticks \in Nat /\ command \in Commands

\* With a wall seen nearer than 1.8 m the follower goes on for no longer than
\* the forward dash of an outer corner.
PressingBounded == pressing <= CORNER_PHASE1_TICKS

\* It turns away from a wall for a circle at most, then tries a way.
SpinCapped == spinning <= AVOID_FRONT_MAX_TICKS

\* The follower neither presses on towards a wall it sees nor turns for ever.
WallInv == WallTypeOK /\ PressingBounded /\ SpinCapped

\* Two escape turns are a cooldown apart, whichever rule asked for the second.
EscapesSpaced ==
  [][state # "escape" /\ state' = "escape"
       => since_escape >= ESCAPE_COOLDOWN_TICKS - 1]_wallVars

\* A wall that stays in reach on the right, with the way ahead free, is
\* followed in the end, from every state.
WallIsFollowed ==
  <>[](ahead >= 400 /\ beside <= WALL_LOST_DIST) => <>[](state = "follow_wall")

\* A corner is a manoeuvre with an end.
CornersEnd == state = "outer_corner" ~> state # "outer_corner"

\* A wall that appears in the forward dash of a corner stops it.
CornerDashStops ==
  state = "outer_corner" /\ corner_ticks < CORNER_PHASE1_TICKS
    => ahead >= 150 \/ command # "forward"

\* A way that ended the turning is free enough not to start it again.
WayStaysFree ==
  [][state = "avoid_front" /\ state' # "avoid_front" /\ Seen(ahead') >= 180
       => Seen(ahead') >= 200]_wallVars
=============================================================================
