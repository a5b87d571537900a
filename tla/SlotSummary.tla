---------------------------- MODULE SlotSummary ----------------------------
(***************************************************************************)
(* searchctl/slot_summary.py: reads the run_summary.json of every run of a *)
(* slot and names the run to show the judge.                               *)
(***************************************************************************)
EXTENDS Integers, FiniteSets, Sequences

CONSTANTS
  Counts,       \* the numbers of barrels of a colour a run may have counted
  Flights,      \* the flight times, in seconds; NoFlight where there is none
  NoFlight,
  Unread,       \* a file that is no JSON, one cut off in the middle say
  MaxRuns       \* bound: runs of a slot

ASSUME SlotAssumption == Counts \subseteq Nat /\ Flights \subseteq Nat

VARIABLES files, rows, best

slotVars == <<files, rows, best>>

Summaries == [yellow : Counts, red : Counts, flight : Flights \cup {NoFlight}]

SlotInit == files = <<>> /\ rows = <<>> /\ best = 0

\* A run of the slot left its summary.
Ran(s) ==
  /\ Len(files) < MaxRuns /\ rows = <<>>
  /\ files' = Append(files, s) /\ UNCHANGED <<rows, best>>

Eligible(s) == s.yellow >= 1 /\ s.red >= 1

Base(s) == 50 * s.yellow + 100 * s.red

\* The same bonus for both colours, if the flight took less than 5 minutes.
EstimatedBonus(s) ==
  IF s.flight # NoFlight /\ s.flight < 300
  THEN 2 * 20 * ((300 - s.flight) \div 30) ELSE 0

TotalUngated(s) == Base(s) + EstimatedBonus(s)
TotalOf(s) == IF Eligible(s) THEN Base(s) + EstimatedBonus(s) ELSE 0

Skipped == -1

ReadAll ==
  /\ files # <<>> /\ rows = <<>>
  /\ rows' = [i \in DOMAIN files |->
                IF files[i] = Unread THEN Skipped ELSE TotalOf(files[i])]
  /\ UNCHANGED <<files, best>>

Scored == {i \in DOMAIN rows : rows[i] # Skipped}

\* The first of those with the most points; 0 when no file could be read.
Recommend ==
  /\ rows # <<>> /\ best = 0
  /\ \E i \in Scored :
       /\ \A j \in Scored : rows[j] <= rows[i] /\ (rows[j] = rows[i] => i <= j)
       /\ best' = i
  /\ UNCHANGED <<files, rows>>

SlotNext ==
  \/ \E s \in Summaries \cup {Unread} : Ran(s)
  \/ ReadAll \/ Recommend

SlotSpec == SlotInit /\ [][SlotNext]_slotVars

(* The judge is never shown a run without a yellow or without a red barrel *)
(* when there is one that has both, however many points the former made.   *)
EligibleFirst ==
  best # 0 /\ (\E i \in DOMAIN files : files[i] # Unread /\ Eligible(files[i]))
    => Eligible(files[best])
=============================================================================
