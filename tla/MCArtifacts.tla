----------------------------- MODULE MCArtifacts -----------------------------
(***************************************************************************)
(* What the missions write down, for TLC: the tables and files of the      *)
(* mapping drone, and the records of the qualifier.  They do not run       *)
(* together; part says which one moves, the other stays where it began.    *)
(***************************************************************************)
EXTENDS RunArtifacts, SearchRecords, FiniteSetsExt, TLC

VARIABLE part

\* Three places in a row: 1 is close to 2 and 2 to 3, but 1 not to 3.
MCClose ==
  {<<1, 1>>, <<2, 2>>, <<3, 3>>, <<1, 2>>, <<2, 1>>, <<2, 3>>, <<3, 2>>}

\* One id that the rule accepts and one that it does not know.
MCVerdict == [id \in Ids |-> IF id = 11 THEN TRUE ELSE None]

\* the inference threads are alike
MCSymmetry == Permutations(Threads)

WrittenInit ==
    /\ part \in {"artifacts", "records"}
    /\ Init /\ RecordsInit
    /\ part # "records" => hasMap

\* bound: with a map, two colour frames and one pass of the status writer
LessBesideTheMap == hasMap => frames' <= 2 /\ ticks' = 0

\* a run() that has returned has nothing left to do
RecordsOver == main = "over" /\ UNCHANGED recordVars

WrittenNext ==
    /\ \/ part = "artifacts" /\ Next /\ UNCHANGED recordVars
       \/ part = "records" /\ (RecordsNext \/ RecordsOver) /\ LessBesideTheMap
          /\ UNCHANGED vars
    /\ part' = part

WrittenSpec == WrittenInit /\ [][WrittenNext]_<<part, vars, recordVars>>

\* HANDOFF_C1_TO_C2.md, sighting_count: "Total observations of this ID across
\* the run".  Between two markers the counts of the ids would add up to the
\* markers that were detected.
ObservationsCounted ==
  pc = "idle" =>
    MapThenSumSet(LAMBDA id : IF pads[id] = None THEN 0 ELSE pads[id].count,
                  Ids) = now
=============================================================================
