--------------------------- MODULE MazeGenerator ---------------------------
(***************************************************************************)
(* maze_gen/generate_maze.py: walls are put on a grid one shape at a time  *)
(* and taken back when they cut the air in two, then shelves, which must   *)
(* not cut the floor in two, then the barrels.  Every random choice is a   *)
(* nondeterministic one.                                                   *)
(***************************************************************************)
EXTENDS Integers, FiniteSets, Sequences

CONSTANTS
  N,              \* cells of a side; GRID_N
  Keepout,        \* the cells in the middle, where the drone starts
  Shapes,         \* WALL_SHAPES, sets of offsets
  NumWalls, NumShelves, NumYellow, NumRed, NumToxic,
  MaxAttempts     \* 500

ASSUME MazeAssumption ==
  /\ N \in Nat \ {0} /\ Keepout \subseteq (0..N-1) \X (0..N-1) /\ Keepout # {}

VARIABLES
  grid,           \* for every cell "open", "wall" or "shelf"
  placed, attempts,
  candidates,     \* cells a shelf may still be tried on
  shelves,
  barrels,        \* records of kind, cell and whether on the ground
  models,         \* the boxes and cylinders of the world file
  stage           \* "walls", "shelves", "barrels", "emit" or "done"

mazeVars ==
  <<grid, placed, attempts, candidates, shelves, barrels, models, stage>>

Squares == (0..N-1) \X (0..N-1)

Quarter(s) == {<<c[2], -c[1]>> : c \in s}

Turned[r \in 0..3, s \in SUBSET ((-3..3) \X (-3..3))] ==
  IF r = 0 THEN s ELSE Turned[r - 1, Quarter(s)]

Least(xs) == CHOOSE x \in xs : \A y \in xs : x <= y

Rotate(s, r) ==
  LET t == Turned[r, s]
      x == Least({c[1] : c \in t})
      y == Least({c[2] : c \in t})
  IN {<<c[1] - x, c[2] - y>> : c \in t}

At(shape, o) == {<<o[1] + c[1], o[2] + c[2]>> : c \in shape}

CanPlace(cells) ==
  cells \subseteq {c \in Squares \ Keepout : grid[c] = "open"}

Put(g, cells, v) == [c \in Squares |-> IF c \in cells THEN v ELSE g[c]]

NextTo(c) ==
  {d \in Squares : \/ d[1] = c[1] /\ d[2] - c[2] \in {-1, 1}
                   \/ d[2] = c[2] /\ d[1] - c[1] \in {-1, 1}}

\* The cells that can be reached from the set s within a set of free ones.
Flood(free, s) ==
  LET F[k \in 0..Cardinality(free)] ==
        IF k = 0 THEN s
        ELSE F[k - 1] \cup {d \in free : NextTo(d) \cap F[k - 1] # {}}
  IN F[Cardinality(free)]

FreeSquares(g, blocked) == {c \in Squares : g[c] \notin blocked}

Air == {"wall"}
Ground == {"wall", "shelf"}

IsConnected(g, blocked) ==
  LET free == FreeSquares(g, blocked)
  IN free # {} /\ Flood(free, {CHOOSE c \in free : TRUE}) = free

-----------------------------------------------------------------------------
MazeInit ==
  /\ grid = [c \in Squares |-> "open"] /\ placed = 0 /\ attempts = 0
  /\ candidates = {} /\ shelves = 0 /\ barrels = {} /\ models = {}
  /\ stage = "walls"

Accept(g) == grid' = g /\ placed' = placed + 1

\* A wall that separates is left standing and only not counted.
PlaceKept(cells) ==
  IF ~CanPlace(cells) THEN UNCHANGED <<grid, placed>>
  ELSE LET g == Put(grid, cells, "wall") IN
       IF IsConnected(g, Air) THEN Accept(g)
       ELSE grid' = g /\ UNCHANGED placed

Place(cells) ==
  IF CanPlace(cells) /\ IsConnected(Put(grid, cells, "wall"), Air)
  THEN Accept(Put(grid, cells, "wall")) ELSE UNCHANGED <<grid, placed>>

TryWall ==
  /\ stage = "walls" /\ placed < NumWalls /\ attempts < MaxAttempts
  /\ attempts' = attempts + 1
  /\ \E s \in Shapes, r \in 0..3, o \in Squares : Place(At(Rotate(s, r), o))
  /\ UNCHANGED <<candidates, shelves, barrels, models, stage>>

Spare(g) == {c \in Squares \ Keepout : g[c] = "open"}

WallsDone ==
  /\ stage = "walls" /\ (placed >= NumWalls \/ attempts >= MaxAttempts)
  /\ stage' = "shelves" /\ candidates' = Spare(grid)
  /\ UNCHANGED <<grid, placed, attempts, shelves, barrels, models>>

\* Shelves are tried as if they could be flown over, as walls are.
ShelfStaysAir(c) == IsConnected(Put(grid, {c}, "shelf"), Air)
ShelfStays(c) == IsConnected(Put(grid, {c}, "shelf"), Ground)

TryShelf(c) ==
  /\ stage = "shelves" /\ c \in candidates /\ shelves < NumShelves
  /\ candidates' = candidates \ {c}
  /\ IF ShelfStays(c)
     THEN grid' = Put(grid, {c}, "shelf") /\ shelves' = shelves + 1
     ELSE UNCHANGED <<grid, shelves>>
  /\ UNCHANGED <<placed, attempts, barrels, models, stage>>

\* With too few shelves there is a warning, and there are fewer red barrels.
ShelvesDone ==
  /\ stage = "shelves" /\ (candidates = {} \/ shelves >= NumShelves)
  /\ stage' = "barrels"
  /\ UNCHANGED <<grid, placed, attempts, candidates, shelves, barrels, models>>

Shelved == {c \in Squares : grid[c] = "shelf"}

\* The first k cells of a shuffled list, or all of it.
Draws(k, s) ==
  {t \in SUBSET s : Cardinality(t) = IF Cardinality(s) < k
                                     THEN Cardinality(s) ELSE k}

Barrel(kind, cells, ground) ==
  {[kind |-> kind, cell |-> c, ground |-> ground] : c \in cells}

\* The distractors are drawn from all cells again.
LeftAll(taken) == Spare(grid) \cup Shelved
Left(taken) == (Spare(grid) \cup Shelved) \ taken

PickBarrels ==
  /\ stage = "barrels" /\ stage' = "emit"
  /\ \E y \in Draws(NumYellow, Spare(grid)), r \in Draws(NumRed, Shelved) :
       \E t \in Draws(NumToxic, Left(y \cup r)) :
         barrels' = Barrel("yellow", y, TRUE) \cup Barrel("red", r, FALSE)
                      \cup Barrel("toxic", t \ Shelved, TRUE)
                      \cup Barrel("toxic", t \cap Shelved, FALSE)
  /\ UNCHANGED <<grid, placed, attempts, candidates, shelves, models>>

-----------------------------------------------------------------------------
(* What the world file holds: heights in tenths of a metre.                *)
Box(kind, c, top) == [kind |-> kind, cell |-> c, bottom |-> 0, top |-> top]

Cylinder(b) ==
  LET z == IF b.ground THEN 0 ELSE 20
  IN [kind |-> b.kind, cell |-> b.cell, bottom |-> z, top |-> z + 8]

Emit ==
  /\ stage = "emit" /\ stage' = "done"
  /\ models' = {Box("wall", c, 60) : c \in {d \in Squares : grid[d] = "wall"}}
                 \cup {Box("shelf", c, 20) : c \in Shelved}
                 \cup {Cylinder(b) : b \in barrels}
  /\ UNCHANGED <<grid, placed, attempts, candidates, shelves, barrels>>

MazeNext ==
  \/ TryWall \/ WallsDone \/ (\E c \in candidates : TryShelf(c)) \/ ShelvesDone
  \/ PickBarrels \/ Emit

MazeSpec == MazeInit /\ [][MazeNext]_mazeVars

-----------------------------------------------------------------------------
(* Whatever walls and shelves were tried and taken back: from the middle,  *)
(* where the drone starts, every cell without a wall is reached through    *)
(* the air and every open cell along the floor, so no barrel is shut in.   *)
NobodyShutIn ==
  stage = "barrels" =>
    \A blocked \in {Air, Ground} :
      Flood(FreeSquares(grid, blocked), Keepout) = FreeSquares(grid, blocked)

(* No two things of the world file are in each other: barrels have cells   *)
(* of their own, 4 m apart, which is what the scorer's 1.5 m rests on; one *)
(* over a shelf stands on it and none is inside a wall; reds are up and    *)
(* yellows are down.                                                       *)
NothingOverlaps ==
  stage = "done" =>
    /\ \A m, n \in models :
         m.cell = n.cell /\ m # n => m.bottom >= n.top \/ n.bottom >= m.top
    /\ \A b, c \in barrels : b.cell = c.cell => b = c
    /\ \A m \in models : /\ m.kind = "red" => m.bottom = 20
                         /\ m.kind = "yellow" => m.bottom = 0

(* The world that is written can be flown, and each thing has its place.   *)
MazeWorld == NobodyShutIn /\ NothingOverlaps

(* "[] shelf (red barrel on top)" (legend of the preview).                 *)
ShelvesHoldReds ==
  stage = "done" =>
    \A c \in Shelved : \E b \in barrels : b.cell = c /\ b.kind = "red"
=============================================================================
