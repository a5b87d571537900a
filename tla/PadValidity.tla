---------------------------- MODULE PadValidity ----------------------------
(***************************************************************************)
(* mapping_drone/validity.py: which landing pads are valid, by a rule of   *)
(* the environment or by a table in a file, which is read when it is first *)
(* asked for and cached by its path.  The operator may edit the file while *)
(* the program runs.                                                       *)
(***************************************************************************)
EXTENDS Integers, FiniteSets

CONSTANTS
  Ids,              \* marker ids
  Tables,           \* [valid, invalid]: the tables the file may hold
  Gone, Malformed,  \* no file; a file that is no table
  NotCached,
  MaxEdits          \* bound: edits of the file

ASSUME ValidityAssumption ==
  /\ Tables \subseteq [valid : SUBSET Ids, invalid : SUBSET Ids]
  /\ {Gone, Malformed, NotCached} \cap [valid : SUBSET Ids, invalid : SUBSET Ids] = {}

VARIABLES
  rule,             \* MAPPING_DRONE_VALIDITY, as it is understood
  absolute,         \* is the path given an absolute one?
  file,
  cache,            \* _LOOKUP_CACHE, by key
  alive,          \* does the program run?
  given,            \* the answers it gave for an id
  smoke,            \* what the check at the import said
  edits

validityVars == <<rule, absolute, file, cache, alive, given, smoke, edits>>

EmptyTable == [valid |-> {}, invalid |-> {}]
Rules == {"lookup", "even", "odd", "all_valid", "all_invalid", "id_below_50"}

NoCache == [k \in {"path", "resolved"} |-> NotCached]
NoAnswers == [i \in Ids |-> {}]

\* An unknown rule is the default one.
ValidityInit ==
  /\ rule \in Rules /\ absolute \in BOOLEAN /\ file \in Tables \cup {Gone, Malformed}
  /\ cache = NoCache /\ alive = FALSE /\ given = NoAnswers
  /\ smoke = "none" /\ edits = 0

\* A relative path is resolved only when the file exists.
CacheKey == IF absolute \/ file # Gone THEN "resolved" ELSE "path"

Content == IF file \in {Gone, Malformed} THEN EmptyTable ELSE file

\* The file is read whenever it is asked for.
BundleAfresh == Content
Bundle == IF cache[CacheKey] # NotCached THEN cache[CacheKey] ELSE Content

Lookup(i) ==
  CASE i \in Bundle.valid -> "valid"
    [] i \notin Bundle.valid /\ i \in Bundle.invalid -> "invalid"
    [] OTHER -> "unknown"

Verdict(b) == IF b THEN "valid" ELSE "invalid"

DecideLandingValidity(i) ==
  CASE rule = "lookup" -> Lookup(i)
    [] rule = "even" -> Verdict(i % 2 = 0)
    [] rule = "odd" -> Verdict(i % 2 = 1)
    [] rule = "all_valid" -> Verdict(TRUE)
    [] rule = "all_invalid" -> Verdict(FALSE)
    [] rule = "id_below_50" -> Verdict(i < 50)

Remembered == [cache EXCEPT ![CacheKey] = Bundle]

\* Every valid id must come out valid and every invalid one invalid.
SmokeCheck ==
  IF Content.valid \cap Content.invalid = {} THEN "ok" ELSE "failed"

Import ==
  /\ ~alive /\ alive' = TRUE /\ given' = NoAnswers
  /\ IF file = Gone THEN cache' = NoCache /\ smoke' = "ok"
     ELSE cache' = [NoCache EXCEPT !["resolved"] = Content] /\ smoke' = SmokeCheck
  /\ UNCHANGED <<rule, absolute, file, edits>>

Decide(i) ==
  /\ alive
  /\ given' = [given EXCEPT ![i] = @ \cup {DecideLandingValidity(i)}]
  /\ cache' = IF rule = "lookup" THEN Remembered ELSE cache
  /\ UNCHANGED <<rule, absolute, file, alive, smoke, edits>>

Edit(f) ==
  /\ edits < MaxEdits /\ f # file /\ file' = f /\ edits' = edits + 1
  /\ UNCHANGED <<rule, absolute, cache, alive, given, smoke>>

Exit ==
  /\ alive /\ alive' = FALSE
  /\ UNCHANGED <<rule, absolute, file, cache, given, smoke, edits>>

ValidityNext ==
  \/ Import \/ Exit
  \/ \E i \in Ids : Decide(i)
  \/ \E f \in Tables \cup {Gone, Malformed} : Edit(f)

ValiditySpec == ValidityInit /\ [][ValidityNext]_validityVars

-----------------------------------------------------------------------------
(* However the file is edited, removed and put back while the program      *)
(* runs, one run never calls the same pad valid and invalid.               *)
NoTwoVerdicts == \A i \in Ids : ~({"valid", "invalid"} \subseteq given[i])

(* "Fix the JSON" (the error for a malformed file): after the operator has *)
(* fixed it, the pads are classified.                                      *)
FixIsSeen ==
  alive /\ rule = "lookup" /\ file \in Tables =>
    \A i \in file.valid : DecideLandingValidity(i) = "valid"
=============================================================================
