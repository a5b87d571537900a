--------------------------- MODULE OccupancyGrid ---------------------------
(***************************************************************************)
(* mapping_drone/mapping.py: the markers of a frame, the way from a pixel  *)
(* and its depth to a point of the world, the grid of depth returns and    *)
(* the picture of both.                                                    *)
(* A length is in quarters of a cell, the focal length is one pixel, and   *)
(* the angles are multiples of 90 degrees, so that all is in integers.     *)
(***************************************************************************)
EXTENDS Integers, FiniteSets, Sequences, FiniteSetsExt

CONSTANTS
  Pixels,          \* pixels <<u, v>> of the depth image
  Depths,          \* what a pixel may measure; 0 is no return
  MIN_DEPTH, MAX_DEPTH,
  Poses,           \* [n, e, down, yaw] of the drone
  Pitches,         \* of the gimbal
  CELLS,           \* cells of a side of the grid, centred on the origin
  Marks,           \* detections: sequences of <<id, cx, cy>> per dictionary
  MaxIntegrated    \* bound: frames

\* a depth of 0 is none, and a marker is an id and a place
ASSUME GridAssumption ==
  /\ IsFiniteSet(Pixels) /\ Pixels \subseteq Int \X Int
  /\ Depths \subseteq Nat /\ MIN_DEPTH \in Nat \ {0} /\ MAX_DEPTH \in Nat /\ CELLS \in Nat
  /\ Poses \subseteq [n : Int, e : Int, down : Int, yaw : Nat] /\ Pitches \subseteq Int
  /\ Marks \subseteq Seq(Seq(Int \X Int \X Int))

VARIABLES
  hits,            \* returns per cell <<row, col>>
  heights,         \* sum of their heights
  pads,            \* the landing pads marked: place and validity
  shot,            \* the last frame: depths, pose and pitch
  integrated,      \* frames so far
  raw, found       \* the markers of a frame, as found and as reported

gridVars == <<hits, heights, pads, shot, integrated, raw, found>>

INTEGRATE_STEP == 4
Cx == 0
Cy == 0
HalfSide == 2 * CELLS          \* half of the side, in quarters of a cell
Span == -HalfSide..HalfSide - 1
GridCells == (0..CELLS - 1) \X (0..CELLS - 1)

Cos(a) == CASE a % 360 = 0 -> 1 [] a % 360 = 180 -> -1 [] OTHER -> 0
Sin(a) == CASE a % 360 = 90 -> 1 [] a % 360 = 270 -> -1 [] OTHER -> 0

-----------------------------------------------------------------------------
(* From a pixel to the world.                                              *)
Deproject(p, z) ==
  IF z <= 0 THEN <<0, 0, 0>> ELSE <<(p[1] - Cx) * z, (p[2] - Cy) * z, z>>

CameraToWorld(c, n, e, alt, yaw, pitch) ==
  LET forward == Cos(pitch) * c[3] + Sin(pitch) * c[2]
      right == c[1]
      up == Sin(pitch) * c[3] - Cos(pitch) * c[2]
  IN <<n + Cos(yaw) * forward - Sin(yaw) * right,
       e + Sin(yaw) * forward + Cos(yaw) * right,
       alt + up>>

\* The same for a whole image, with the altitude and not the depth below
\* the origin forgotten.
ProjectSunk(p, z, pose, pitch) ==
  LET x == (p[1] - Cx) * z
      y == (p[2] - Cy) * z
      xb == Cos(pitch) * z + Sin(pitch) * y
      zb == Sin(pitch) * z - Cos(pitch) * y
  IN <<pose.n + Cos(pose.yaw) * xb - Sin(pose.yaw) * x,
       pose.e + Sin(pose.yaw) * xb + Cos(pose.yaw) * x,
       pose.down + zb>>

Project(p, z, pose, pitch) ==
  LET x == (p[1] - Cx) * z
      y == (p[2] - Cy) * z
      xb == Cos(pitch) * z + Sin(pitch) * y
      zb == Sin(pitch) * z - Cos(pitch) * y
  IN <<pose.n + Cos(pose.yaw) * xb - Sin(pose.yaw) * x,
       pose.e + Sin(pose.yaw) * xb + Cos(pose.yaw) * x,
       -pose.down + zb>>

-----------------------------------------------------------------------------
GridInit ==
  /\ hits = [c \in GridCells |-> 0] /\ heights = [c \in GridCells |-> 0]
  /\ pads = <<>> /\ shot = <<>> /\ integrated = 0 /\ raw = <<>> /\ found = {}

Inside(w) == w[1] \in Span /\ w[2] \in Span

CellOf(w) == <<(w[1] + HalfSide) \div 4, (w[2] + HalfSide) \div 4>>

Sampled(p) == p[1] % INTEGRATE_STEP = 0 /\ p[2] % INTEGRATE_STEP = 0

\* The pixels of a frame that are counted.
Returns(depth, pose, pitch) ==
  {p \in Pixels : /\ Sampled(p) /\ depth[p] \in MIN_DEPTH..MAX_DEPTH
                  /\ Inside(Project(p, depth[p], pose, pitch))}

SumOver(S, f) == FoldSet(LAMBDA p, acc : f[p] + acc, 0, S)

Integrate(depth, pose, pitch) ==
  LET w == [p \in Pixels |-> Project(p, depth[p], pose, pitch)]
      up == [p \in Pixels |-> w[p][3]]
      In(c) == {p \in Returns(depth, pose, pitch) : CellOf(w[p]) = c}
  IN /\ hits' = [c \in GridCells |-> hits[c] + Cardinality(In(c))]
     /\ heights' = [c \in GridCells |-> heights[c] + SumOver(In(c), up)]

\* The markers and the depths of a frame do not depend on each other: a
\* behaviour looks at the one or at the other.
Frame ==
  /\ raw = <<>> /\ integrated < MaxIntegrated
  /\ integrated' = integrated + 1
  /\ \E depth \in [Pixels -> Depths], pose \in Poses, pitch \in Pitches :
       /\ Integrate(depth, pose, pitch)
       /\ shot' = <<depth, pose, pitch>>
  /\ UNCHANGED <<pads, raw, found>>

\* A marker in the last frame: its pad is where its pixel is in the world.
\* One pad is enough, for no pad depends on another.
MarkLandingPad(p, valid) ==
  /\ shot # <<>> /\ Len(pads) < 1 /\ shot[1][p] > 0
  /\ LET pose == shot[2]
         w == CameraToWorld(Deproject(p, shot[1][p]), pose.n, pose.e,
                            -pose.down, pose.yaw, shot[3])
     IN pads' = Append(pads, [at |-> w, pixel |-> p, valid |-> valid,
                                  shot |-> shot])
  /\ UNCHANGED <<hits, heights, shot, integrated, raw, found>>

-----------------------------------------------------------------------------
(* The markers of a frame: every dictionary scans it, and what is in a     *)
(* square of 20 pixels with the same id was reported already.              *)
\* Rows are not told apart.
KeyFlat(m) == <<m[1], m[2] \div 20>>
Key(m) == <<m[1], m[2] \div 20, m[3] \div 20>>

\* Is a marker the first with its key, in the order they are found?
Reported(lists, i, j) ==
  \A k \in DOMAIN lists : \A l \in DOMAIN lists[k] :
    k < i \/ (k = i /\ l < j) => Key(lists[k][l]) # Key(lists[i][j])

DetectInFrame ==
  /\ raw = <<>> /\ integrated = 0
  /\ \E lists \in Marks :
       /\ raw' = lists
       /\ found' = UNION { {lists[i][j] : j \in {k \in DOMAIN lists[i] : Reported(lists, i, k)}} :
                             i \in DOMAIN lists }
  /\ UNCHANGED <<hits, heights, pads, shot, integrated>>

GridNext ==
  \/ Frame \/ DetectInFrame
  \/ \E p \in Pixels, v \in {"valid", "invalid", "unknown"} : MarkLandingPad(p, v)

GridSpec == GridInit /\ [][GridNext]_gridVars

-----------------------------------------------------------------------------
(* The picture: north is up, a pad is rounded to a pixel, half to even.    *)
Round(q) ==
  LET k == q \div 4 IN
    CASE q % 4 < 2 -> k [] q % 4 > 2 -> k + 1
      [] OTHER -> IF k % 2 = 0 THEN k ELSE k + 1

Flipped(row) == CELLS - 1 - row

PadPixel(w) == <<Flipped(Round(w[1] + HalfSide)), Round(w[2] + HalfSide)>>

Drawn(w) == PadPixel(w) \in GridCells

CellPixel(c) == <<Flipped(c[1]), c[2]>>

NextTo(a, b) == a[1] - b[1] \in -1..1 /\ a[2] - b[2] \in -1..1

\* The pads whose own pixel was counted in the grid.
CountedPads ==
  {k \in DOMAIN pads : LET s == pads[k].shot
                       IN pads[k].pixel \in Returns(s[1], s[2], s[3])}

(* The pad of a marker and the depth of its pixel go two ways through two  *)
(* copies of the geometry, and come out at the same cell with the same     *)
(* height, whatever the pose and the pitch; in the picture the pad is not  *)
(* more than a pixel from the brightness of its cell.                      *)
PadOnItsDepth ==
  \A k \in CountedPads :
    LET w == pads[k].at
        p == pads[k].pixel
        s == pads[k].shot
    IN
      /\ hits[CellOf(w)] > 0
      /\ w[3] = Project(p, s[1][p], s[2], s[3])[3]
      /\ Drawn(w) => NextTo(PadPixel(w), CellPixel(CellOf(w)))

(* Two markers with the same id that are 20 pixels or more apart in either *)
(* direction are both reported, whatever dictionary found them.            *)
FarMarkersKept ==
  \A i \in DOMAIN raw : \A j \in DOMAIN raw[i] :
    \E m \in found : /\ m[1] = raw[i][j][1]
                     /\ m[2] - raw[i][j][2] \in -19..19
                     /\ m[3] - raw[i][j][3] \in -19..19

(* Pads and depths agree, and no far marker is lost on the way.            *)
GridInv == PadOnItsDepth /\ FarMarkersKept

(* "so there is no double count" (comment in ArucoDetector): what two      *)
(* dictionaries find within two pixels is reported once.                   *)
NoDoubleCount ==
  \A m, o \in found :
    m[1] = o[1] /\ m[2] - o[2] \in -2..2 /\ m[3] - o[3] \in -2..2 => m = o

(* "Landing pads overlaid as filled circles" (render): a pad whose cell is *)
(* in the grid is in the picture.                                          *)
EveryPadDrawn ==
  \A k \in DOMAIN pads : Inside(pads[k].at) => Drawn(pads[k].at)
=============================================================================
