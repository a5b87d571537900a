----------------------------- MODULE PathPlanner -----------------------------
(***************************************************************************)
(* RRTStarPlanner.plan (codes/Codes): a tree grown from the start by one   *)
(* step towards a sample at a time, each new node hung below its cheapest  *)
(* neighbour and its neighbours below it where that is cheaper; then the   *)
(* branch that reaches the goal, with its shortcuts.                       *)
(*                                                                         *)
(* Places are a grid with one step between neighbours; points are counted  *)
(* in quarters of a step, distances in fortieths.  A direction is rounded  *)
(* to one of eight, the samples are the places and the goal, and a step    *)
(* that would leave the places is an iteration without a node, and a cost  *)
(* of Infinite or more counts as infinite (bounds).                        *)
(***************************************************************************)
EXTENDS Integers, Sequences, FiniteSetsExt, SequencesExt

CONSTANTS Places, Obstacles, Origin, Goal,
          MaxIter      \* max_iter

ASSUME PlanAssumption ==
    /\ Places \cup {Goal} \subseteq Int \X Int
    /\ Origin \in Places

VARIABLES tree,        \* tree_nodes, costs and parents in one sequence
          plan         \* program counter, iterations, the path and its shortcuts

planVars == <<tree, plan>>

Infinite      == 10000      \* np.inf
STEP          == 4          \* step_size
GOAL_RADIUS   == 2
REWIRE_RADIUS == 12
MARGIN        == 576        \* (0.6 steps)^2, in hundredths of a squared quarter

Square(p, q) == (p[1] - q[1]) * (p[1] - q[1]) + (p[2] - q[2]) * (p[2] - q[2])
\* the length of an edge; what is added to an infinite cost is lost
Root(n)     == CHOOSE r \in 0 .. 10 * n : r * r <= 100 * n /\ (r + 1) * (r + 1) > 100 * n
WayPoints      == Places \cup {Goal}
Distances   == [e \in WayPoints \X WayPoints |-> Root(Square(e[1], e[2]))]
Length(p, q) == Distances[<<p, q>>]
Plus(c, d)  == IF c + d >= Infinite THEN Infinite ELSE c + d

\* points no further apart than four tenths of the margin, and at least three,
\* keep the margin, 2.4 quarters, to every obstacle
IsEdgeFree(p, q) ==
    LET n == Max({3, (10 * Length(p, q)) \div 96}) - 1
    IN  \A o \in Obstacles, k \in 0 .. n :
            LET pt == <<n * p[1] + k * (q[1] - p[1]), n * p[2] + k * (q[2] - p[2])>>
            IN  100 * Square(pt, <<n * o[1], n * o[2]>>) >= n * n * MARGIN
FreeEdges == { e \in WayPoints \X WayPoints : IsEdgeFree(e[1], e[2]) }
FreeWay(p, q) == <<p, q>> \in FreeEdges
Clear(p)   == FreeWay(p, p)

PlanInit ==
    /\ tree = <<[at |-> Origin, cost |-> 0, parent |-> 0]>>
    /\ plan = [pc |-> "grow", iter |-> 0, path |-> <<>>, curr |-> 1, smoothed |-> <<>>]

----------------------------------------------------------------------------
(* One iteration.                                                          *)

\* argmin takes the first of equals
Nearest(s) == Min({ i \in DOMAIN tree : \A j \in DOMAIN tree :
                      Square(tree[i].at, s) <= Square(tree[j].at, s) })
Sign(x) == IF x > 0 THEN 1 ELSE IF x < 0 THEN -1 ELSE 0
\* a whole step, also towards a sample that is nearer
Steer(p, s) == <<p[1] + STEP * Sign(s[1] - p[1]), p[2] + STEP * Sign(s[2] - p[2])>>
Neighbours(new) ==
    { i \in DOMAIN tree : Square(tree[i].at, new) < REWIRE_RADIUS * REWIRE_RADIUS }
CostVia(i, new) == Plus(tree[i].cost, Length(tree[i].at, new))
\* the cheapest neighbour with a free edge; without one, the nearest node
NearParents(new) == { i \in Neighbours(new) :
                       FreeWay(tree[i].at, new) /\ CostVia(i, new) < Infinite }
BestParent(near, new) ==
    IF NearParents(new) = {} THEN near
    ELSE Min({ i \in NearParents(new) : \A j \in NearParents(new) : CostVia(i, new) <= CostVia(j, new) })
MinCost(new) == Min({Infinite} \cup { CostVia(i, new) : i \in NearParents(new) })

\* a neighbour that is cheaper by way of the new node is hung below it
CheaperOrNot(i, via) == FreeWay(via.at, tree[i].at) /\ i # 1
Cheaper(i, via) ==
    /\ Plus(via.cost, Length(via.at, tree[i].at)) < tree[i].cost
    /\ FreeWay(via.at, tree[i].at)
Rewired(best, new) ==
    [i \in DOMAIN tree |->
        IF i \in Neighbours(new.at) \ {best} /\ Cheaper(i, new)
          THEN [tree[i] EXCEPT !.cost = Plus(new.cost, Length(new.at, tree[i].at)),
                               !.parent = Len(tree) + 1]
          ELSE tree[i]]

AddNode(near, new) ==
    LET best  == BestParent(near, new)
        node  == [at |-> new, cost |-> MinCost(new), parent |-> best]
        grown == Append(Rewired(best, node), node)
    IN  IF Square(new, Goal) < GOAL_RADIUS * GOAL_RADIUS
          THEN /\ tree' = Append(grown, [at |-> Goal, cost |-> Plus(node.cost, Length(new, Goal)),
                                         parent |-> Len(grown)])
               /\ plan' = [plan EXCEPT !.pc = "trace", !.iter = @ + 1]
          ELSE tree' = grown /\ plan' = [plan EXCEPT !.iter = @ + 1]

Grow ==
    /\ plan.pc = "grow" /\ plan.iter < MaxIter
    /\ \E s \in WayPoints : \E near \in {Nearest(s)} :
         LET new == Steer(tree[near].at, s)
         IN  IF s = tree[near].at \/ new \notin Places \/ ~Clear(new)
               THEN plan' = [plan EXCEPT !.iter = @ + 1] /\ UNCHANGED tree
               ELSE AddNode(near, new)
GiveUpPlan ==
    /\ plan.pc = "grow" /\ plan.iter = MaxIter
    /\ plan' = [plan EXCEPT !.pc = "failed"]
    /\ UNCHANGED tree

----------------------------------------------------------------------------
(* The path.                                                               *)

Up(i) == IF i = 0 THEN 0 ELSE tree[i].parent
\* the way from i to the root, with 0 from there on
WayUp(i) ==
    LET up[k \in 0 .. Len(tree)] == IF k = 0 THEN i ELSE Up(up[k - 1])
    IN  up
Depth(i)  == Min({ k \in 0 .. Len(tree) : WayUp(i)[k] = 0 })
Branch(i) == [k \in 1 .. Depth(i) |-> WayUp(i)[k - 1]]
TracePath ==
    /\ plan.pc = "trace"
    /\ \E b \in {Reverse(Branch(Len(tree)))} :
         plan' = [plan EXCEPT !.pc = IF Len(b) <= 2 THEN "done" ELSE "smooth", !.path = b,
                              !.smoothed = IF Len(b) <= 2 THEN b ELSE <<b[1]>>]
    /\ UNCHANGED tree

WayPointAt(i) == tree[plan.path[i]].at
\* the last waypoint in a row that a free edge leads to
FurthestPast(i) ==
    Min({Len(plan.path)} \cup { j \in i + 1 .. Len(plan.path) : ~FreeWay(WayPointAt(i), WayPointAt(j)) })
Furthest(i) ==
    Min({Len(plan.path) + 1} \cup { j \in i + 1 .. Len(plan.path) : ~FreeWay(WayPointAt(i), WayPointAt(j)) }) - 1
\* when there is none the loop appends the same waypoint for ever
Smooth ==
    /\ plan.pc = "smooth"
    /\ LET n == Furthest(plan.curr)
       IN  plan' = [plan EXCEPT !.curr = n, !.smoothed = Append(@, plan.path[n]),
                                !.pc = CASE n = plan.curr -> "spins"
                                         [] n = Len(plan.path) -> "done"
                                         [] OTHER -> "smooth"]
    /\ UNCHANGED tree

PlanNext == Grow \/ GiveUpPlan \/ TracePath \/ Smooth
PlanSpec == PlanInit /\ [][PlanNext]_planVars /\ WF_planVars(PlanNext)
----------------------------------------------------------------------------
(* Rewiring hangs a node below a newer one, and never below one of its own *)
(* descendants: from every node the parents lead to the start.  It leaves  *)
(* the costs of the descendants as they were, and still no cost is less    *)
(* than the way it stands for (RRTStarPlanner.py:79-85).                   *)
Rooted ==
    \A i \in DOMAIN tree : WayUp(i)[Len(tree)] = 0
CostsCover ==
    \A i \in DOMAIN tree \ {1} :
        tree[i].cost >= Plus(tree[Up(i)].cost, Length(tree[Up(i)].at, tree[i].at))

(* A node with a cost is reached over free edges only; the goal's own last *)
(* edge is not looked at.                                                  *)
CheapIsFree ==
    \A i \in DOMAIN tree \ {1} :
        tree[i].cost < Infinite /\ tree[i].at # Goal => FreeWay(tree[Up(i)].at, tree[i].at)

(* The path that is returned leads from the start to the goal, and each of *)
(* its shortcuts is free, however the tree was rewired on the way; where   *)
(* nothing is left to shorten, two waypoints are returned as they are.     *)
RouteIsFlyable ==
    /\ plan.pc = "done" => /\ tree[plan.smoothed[1]].at = Origin
                           /\ tree[plan.smoothed[Len(plan.smoothed)]].at = Goal
    /\ Len(plan.path) > 2 /\ plan.pc # "spins" => \A i \in 1 .. Len(plan.smoothed) - 1 :
         FreeWay(tree[plan.smoothed[i]].at, tree[plan.smoothed[i + 1]].at)

(* The tree is a tree with true costs, and the route is flyable.           *)
PlanInv == Rooted /\ CostsCover /\ CheapIsFree /\ RouteIsFlyable

(* plan() returns.  Violated, by a goal nearer to an obstacle than the     *)
(* margin: the last edge is not free and Smooth does not get past it.      *)
(* No run.                                                                 *)
PlanningEnds == <>(plan.pc \in {"done", "failed"})
=============================================================================
