------------------------------- MODULE Scorer -------------------------------
(***************************************************************************)
(* testing/score.py: matches the lines of a run's log with the barrels of  *)
(* the maze, one after the other in the order of their times, and adds up  *)
(* the points.  Beside it the count the search controller keeps of the     *)
(* barrels it has seen, which clusters the same detections without knowing *)
(* the maze.                                                               *)
(* A place is a pair <<north, east>> in half metres, a time is in seconds. *)
(***************************************************************************)
EXTENDS Integers, FiniteSets, Sequences, SequencesExt

CONSTANTS
  BarrelPlaces,    \* where a barrel may stand
  Spots,           \* where a detection may be
  Times,           \* when
  Bad,             \* a line that is no detection
  MaxLines         \* bound: lines of a log

VARIABLES
  truth,           \* the barrels of the maze file, at most one in a place
  log,             \* the lines of the log, as they were written
  dets,            \* the detections, sorted, from the one looked at on
  matched,         \* for every barrel the time it was found, or Unfound
  tally,           \* what was not matched, and the toxic ones
  report,          \* the score, at the end
  phase            \* "logging", "matching" or "scored"

scorerVars == <<truth, log, dets, matched, tally, report, phase>>

MATCH_RADIUS == 3          \* 1.5 m
CLUSTER_RADIUS == 6        \* 3 m
BONUS_CUTOFF == 300
Unfound == -1
Colours == {"yellow", "red"}
Points == [yellow |-> 50, red |-> 100]

Barrels == [cls : Colours, at : BarrelPlaces]
Detections == [cls : Colours \cup {"toxic", "unknown"}, at : Spots, t : Times]

Within(p, q, r) ==
  (p[1] - q[1]) * (p[1] - q[1]) + (p[2] - q[2]) * (p[2] - q[2]) <= r * r

Nearer(d, b, c) ==
  LET Square(x) == (d.at[1] - x.at[1]) * (d.at[1] - x.at[1])
                     + (d.at[2] - x.at[2]) * (d.at[2] - x.at[2])
  IN Square(b) <= Square(c)

\* times count from the start; two barrels are never both near one place, as
\* the maze generator puts them into cells 4 m wide
ASSUME ScorerAssumption ==
  /\ Times \subseteq Nat /\ Bad \notin Detections
  /\ BarrelPlaces \cup Spots \subseteq Int \X Int
  /\ \A p, q \in BarrelPlaces : Within(p, q, 2 * MATCH_RADIUS) => p = q

-----------------------------------------------------------------------------
Truths == {s \in SUBSET Barrels : \A b, c \in s : b.at = c.at => b = c}

ScorerInit ==
  /\ truth \in Truths
  /\ log = <<>> /\ dets = <<>> /\ phase = "logging"
  /\ matched = [b \in truth |-> Unfound]
  /\ tally = [unmatched |-> 0, toxic |-> 0, unknown |-> 0]
  /\ report = [total |-> 0, eligible |-> FALSE]

Write(line) ==
  /\ phase = "logging" /\ Len(log) < MaxLines
  /\ log' = Append(log, line)
  /\ UNCHANGED <<truth, dets, matched, tally, report, phase>>

\* A line that cannot be read is left out; equal times keep their order.
Whole(lines) == {i \in DOMAIN lines : lines[i] # Bad}
Before(lines, i, j) == lines[i].t < lines[j].t \/ (lines[i].t = lines[j].t /\ i < j)
IsSorting(order, lines) ==
  /\ \A k, m \in DOMAIN order : k < m => Before(lines, order[k], order[m])
  /\ \A i \in Whole(lines) : \E k \in DOMAIN order : order[k] = i

Sorted(lines) ==
  LET order == CHOOSE o \in [1..Cardinality(Whole(lines)) -> Whole(lines)] : IsSorting(o, lines)
  IN [k \in 1..Cardinality(Whole(lines)) |-> lines[order[k]]]

LoadRunLog ==
  /\ phase = "logging" /\ phase' = "matching"
  /\ dets' = Sorted(log)
  /\ UNCHANGED <<truth, log, matched, tally, report>>

\* A barrel that was found may be found again.
CandidatesAll(d) == {b \in truth : b.cls = d.cls}
Candidates(d) == {b \in truth : b.cls = d.cls /\ matched[b] = Unfound}

ClosestTo(d) ==
  {b \in Candidates(d) : \A c \in Candidates(d) : Nearer(d, b, c)}

IsNear(d, b) == Within(d.at, b.at, MATCH_RADIUS)

Match(d, b) ==
  /\ matched' = [matched EXCEPT ![b] = d.t] /\ UNCHANGED tally

Miss(d) ==
  LET k == CASE d.cls = "toxic" -> "toxic"
             [] d.cls = "unknown" -> "unknown"
             [] OTHER -> "unmatched"
  IN /\ tally' = [tally EXCEPT ![k] = @ + 1] /\ UNCHANGED matched

\* Of the barrels not found yet the closest, if it is near enough.
Take ==
  /\ phase = "matching" /\ dets # <<>> /\ dets' = Tail(dets)
  /\ LET d == Head(dets) IN
       \/ \E b \in ClosestTo(d) : IF IsNear(d, b) THEN Match(d, b) ELSE Miss(d)
       \/ ClosestTo(d) = {} /\ Miss(d)
  /\ UNCHANGED <<truth, log, report, phase>>

Bonus(t) ==
  IF t = Unfound \/ t >= BONUS_CUTOFF THEN 0
  ELSE 20 * ((BONUS_CUTOFF - t) \div 30)

Latest(ts) == CHOOSE t \in ts : \A u \in ts : u <= t

Of(c) == {b \in truth : b.cls = c}
Found(c) == {b \in Of(c) : matched[b] # Unfound}

\* A barrel found before the others of its colour must not set the time.
FinishEarly(c) ==
  IF Found(c) # Of(c) \/ Of(c) = {} THEN Unfound
  ELSE CHOOSE t \in {matched[b] : b \in Of(c)} :
         \A b \in Of(c) : t <= matched[b]

Finish(c) ==
  IF Found(c) # Of(c) \/ Of(c) = {} THEN Unfound
  ELSE Latest({matched[b] : b \in Of(c)})

Score ==
  /\ phase = "matching" /\ dets = <<>> /\ phase' = "scored"
  /\ report' =
       [total |-> Points["yellow"] * Cardinality(Found("yellow"))
                    + Points["red"] * Cardinality(Found("red"))
                    + Bonus(Finish("yellow")) + Bonus(Finish("red")),
        eligible |-> \A c \in Colours : Found(c) # {}]
  /\ UNCHANGED <<truth, log, dets, matched, tally>>

ScorerNext ==
  \/ \E line \in Detections \cup {Bad} : Write(line)
  \/ LoadRunLog \/ Take \/ Score

ScorerSpec == ScorerInit /\ [][ScorerNext]_scorerVars

-----------------------------------------------------------------------------
(* The controller's own count: a detection opens a cluster unless it is    *)
(* within 3 m of the first detection of one.                               *)
\* Only the cluster opened last is looked at.
ClusteredLast(centres, p) ==
  IF centres # <<>> /\ Within(p, centres[Len(centres)], CLUSTER_RADIUS)
  THEN centres ELSE Append(centres, p)

Clustered(centres, p) ==
  IF \E k \in DOMAIN centres : Within(p, centres[k], CLUSTER_RADIUS)
  THEN centres ELSE Append(centres, p)

UniqueDetections(c) ==
  LET mine == SelectSeq(log, LAMBDA d : d # Bad /\ d.cls = c)
  IN Len(FoldLeft(LAMBDA centres, d : Clustered(centres, d.at), <<>>, mine))

-----------------------------------------------------------------------------
\* The times at which the log shows barrel b.
Shows(d, b) == d.cls = b.cls /\ IsNear(d, b)
Shown(b) == {log[i].t : i \in {j \in Whole(log) : Shows(log[j], b)}}

FirstShown(b) == CHOOSE t \in Shown(b) : \A u \in Shown(b) : t <= u

DueBonus(c) ==
  IF Of(c) = {} \/ \E b \in Of(c) : Shown(b) = {} THEN 0
  ELSE Bonus(Latest({FirstShown(b) : b \in Of(c)}))

(* The loop over the detections, with the barrels taken out of the pool as *)
(* they are found, gives what the rules say of the log as a whole: points  *)
(* for the barrels some line shows, whatever the order and the duplicates, *)
(* and a bonus for the time the last of a colour was first shown.  The     *)
(* barrels are more than two radii apart, as the maze generator sets them. *)
ScoreIsTheRules ==
  phase = "scored" =>
    LET shown(c) == {b \in Of(c) : Shown(b) # {}}
    IN /\ report.total = 50 * Cardinality(shown("yellow"))
                           + 100 * Cardinality(shown("red"))
                           + DueBonus("yellow") + DueBonus("red")
       /\ report.eligible <=> shown("yellow") # {} /\ shown("red") # {}

(* The controller's count is never more than the barrels that were seen,   *)
(* in whatever order the detections of several barrels come, as long as    *)
(* each is within 1.5 m of a barrel of its colour: what it tells the judge *)
(* is not too much.                                                        *)
CountNotTooHigh ==
  \A c \in Colours :
    (\A i \in Whole(log) : log[i].cls = c => \E b \in Of(c) : IsNear(log[i], b))
      => UniqueDetections(c) <= Cardinality({b \in Of(c) : Shown(b) # {}})

(* "Duplicate detection of y1 -- should be deduped" (the stub log of       *)
(* score.py): the score says of a detection that it matches no barrel only *)
(* when no barrel of its colour is near.                                   *)
UnmatchedIsFar ==
  phase = "scored" /\ tally.unmatched > 0 =>
    \E i \in Whole(log) :
      log[i].cls \in Colours /\ \A b \in Of(log[i].cls) : ~IsNear(log[i], b)
=============================================================================
