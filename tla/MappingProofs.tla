---------------------------- MODULE MappingProofs ----------------------------
(***************************************************************************)
(* The parts of mapping_drone around the missions, and what the swarm      *)
(* hears and how it goes round its lap: for every table of verdicts, every *)
(* frame, route and map, and every order of the calls.                     *)
(***************************************************************************)
EXTENDS MCMapping, FiniteSetTheorems, SequenceTheorems, WellFoundedInduction, TLAPS

----------------------------------------------------------------------------
(* UwbFrames.                                                              *)

(* A buffer that began with a header and lost at most two bytes knows how  *)
(* far the device is.                                                      *)
PlaceAfter(total) == IF total < FrameLength THEN total ELSE total - FrameLength

KnowsPlace ==
  buf.n > 0 /\ buf.from = 0 /\ buf.missing <= 2 =>
    wire.gone = PlaceAfter(buf.n + buf.missing)

(* ... and when it is full it ends in the head of the next frame.          *)
EndsInHead ==
  buf.n = FrameLength /\ buf.from = 0 /\ buf.missing \in {1, 2} =>
    buf.last \in {"U", "mark"}

FrInv == FramesInv /\ KnowsPlace /\ EndsInHead

(* A byte is one of the values; the first two are the header and the mark. *)
LEMMA ByteIs ==
  ASSUME FramesTypeOK
  PROVE  /\ Byte \in Values
         /\ wire.gone = 0 => Byte = "U"
         /\ wire.gone = 1 => Byte = "mark"
<1>1. wire.gone \in 0 .. FrameLength - 1 /\ wire.blocks \in Blocks
  BY DEF FramesTypeOK
<1>2. CASE wire.gone \in {0, 1, FrameLength - 1}
  BY <1>1, <1>2, FrameAssumption DEF Byte, Values
<1>3. CASE wire.gone \notin {0, 1, FrameLength - 1}
  <2>1. wire.gone - 1 \in 1 .. FrameLength - 3
    BY <1>1, <1>3, FrameAssumption
  <2>2. wire.blocks \in [1 .. FrameLength - 3 -> Values]
    BY <1>1, FrameAssumption
  <2>3. wire.blocks[wire.gone - 1] \in Values
    BY <2>1, <2>2
  <2> QED BY <1>3, <2>3 DEF Byte
<1> QED BY <1>2, <1>3

(* The device goes on by a byte, and keeps its type.                       *)
LEMMA SendsIs ==
  ASSUME FramesTypeOK, Sends
  PROVE  /\ wire' \in [blocks : Blocks, gone : 0 .. FrameLength - 1]
         /\ wire'.gone = IF wire.gone + 1 < FrameLength THEN wire.gone + 1 ELSE 0
<1>1. wire \in [blocks : Blocks, gone : 0 .. FrameLength - 1]
  BY DEF FramesTypeOK
<1>2. CASE wire.gone + 1 < FrameLength
  <2>1. wire' = [wire EXCEPT !.gone = @ + 1]
    BY <1>2 DEF Sends
  <2> QED BY <1>1, <1>2, <2>1, FrameAssumption
<1>3. CASE ~(wire.gone + 1 < FrameLength)
  <2>1. wire' \in [blocks : Blocks, gone : {0}]
    BY <1>3 DEF Sends
  <2> QED BY <1>1, <1>3, <2>1, FrameAssumption
<1> QED BY <1>2, <1>3

LEMMA FramesInitInv == FramesInit => FrInv
<1> SUFFICES ASSUME FramesInit PROVE FrInv
  OBVIOUS
<1>1. /\ buf = NoBuffer /\ taken = NoBuffer /\ ~insync /\ insync \in BOOLEAN
      /\ torn \in Nat /\ listening = "on"
      /\ wire \in [blocks : Blocks, gone : 0 .. FrameLength - 1]
  BY DEF FramesInit
<1>2. /\ NoBuffer \in [from : Nat, n : 0 .. FrameLength, mark : Values \cup {"none"},
                       last : Values \cup {"none"}, missing : Nat]
      /\ NoBuffer.n = 0 /\ NoBuffer.missing = 0
  BY FrameAssumption DEF NoBuffer
<1>3. FramesTypeOK
  BY <1>1, <1>2 DEF FramesTypeOK
<1>4. StaysInStep /\ TornIsDropped /\ KnowsPlace
  BY <1>1, <1>2 DEF StaysInStep, TornIsDropped, KnowsPlace
<1>5. EndsInHead
  BY <1>1, <1>2 DEF EndsInHead
<1> QED BY <1>3, <1>4, <1>5 DEF FrInv, FramesInv

(* Every step keeps the place.                                             *)
LEMMA FramesNextInv == FrInv /\ [FramesNext]_framesVars => FrInv'
<1> SUFFICES ASSUME FrInv, [FramesNext]_framesVars
             PROVE  FrInv'
  OBVIOUS
<1> USE FrameAssumption
<1>t. FramesTypeOK
  BY DEF FrInv, FramesInv
<1>w. /\ wire \in [blocks : Blocks, gone : 0 .. FrameLength - 1] /\ torn \in Nat
      /\ buf \in [from : Nat, n : 0 .. FrameLength, mark : Values \cup {"none"},
                  last : Values \cup {"none"}, missing : Nat]
      /\ taken \in [from : Nat, n : 0 .. FrameLength, mark : Values \cup {"none"},
                    last : Values \cup {"none"}, missing : Nat]
  BY <1>t DEF FramesTypeOK
<1>b. /\ Byte \in Values
      /\ wire.gone = 0 => Byte = "U"
      /\ wire.gone = 1 => Byte = "mark"
  BY <1>t, ByteIs
<1>s. Sends => /\ wire' \in [blocks : Blocks, gone : 0 .. FrameLength - 1]
               /\ wire'.gone = IF wire.gone + 1 < FrameLength THEN wire.gone + 1 ELSE 0
  BY <1>t, SendsIs
<1> HIDE DEF FramesTypeOK
<1>1. CASE LoseByte
  <2>1. buf' = IF buf.n = 0 THEN buf ELSE [buf EXCEPT !.missing = @ + 1]
    BY <1>1 DEF LoseByte
  <2>s. Sends /\ ~insync' /\ insync' \in BOOLEAN /\ UNCHANGED <<listening, taken>>
    BY <1>1, Zenon DEF LoseByte
  <2>n. buf.n < FrameLength /\ torn' \in Nat
    <3>1. torn' = torn + 1 /\ buf.n < FrameLength
      BY <1>1 DEF LoseByte
    <3> QED BY <3>1, <1>w
  <2>2. Sends /\ buf.n < FrameLength /\ ~insync' /\ insync' \in BOOLEAN
        /\ torn' \in Nat /\ UNCHANGED <<listening, taken>>
    BY <2>s, <2>n, Zenon
  <2>3. buf.n' = buf.n /\ buf.from' = buf.from
    BY <2>1, <1>w
  <2>4. buf.n > 0 => buf.missing' = buf.missing + 1
    BY <2>1, <1>w
  <2>w. /\ wire' \in [blocks : Blocks, gone : 0 .. FrameLength - 1]
        /\ wire'.gone = IF wire.gone + 1 < FrameLength THEN wire.gone + 1 ELSE 0
    BY <2>s, <1>s, Zenon
  <2>5. FramesTypeOK'
    <3>1. buf' \in [from : Nat, n : 0 .. FrameLength, mark : Values \cup {"none"},
                    last : Values \cup {"none"}, missing : Nat]
      BY <2>1, <1>w, SMTT(30)
    <3>2. listening' \in {"on", "last", "off"} /\ taken' = taken
      BY <2>s, <1>t, Zenon DEF FramesTypeOK
    <3> QED BY <2>s, <2>n, <2>w, <1>w, <3>1, <3>2, Zenon DEF FramesTypeOK
  <2>6. KnowsPlace'
    <3> SUFFICES ASSUME buf.n > 0, buf.from = 0, buf.missing + 1 <= 2
                 PROVE  wire'.gone = PlaceAfter(buf.n + (buf.missing + 1))
      BY <2>3, <2>4, <1>w DEF KnowsPlace
    <3>1. wire.gone = PlaceAfter(buf.n + buf.missing)
      BY <1>w DEF FrInv, KnowsPlace
    <3> QED BY <3>1, <2>n, <2>w, <1>w DEF PlaceAfter
  <2>7. StaysInStep' /\ TornIsDropped' /\ EndsInHead'
    BY <2>2, <2>3, <1>w
    DEF FrInv, FramesInv, StaysInStep, TornIsDropped, EndsInHead
  <2> QED BY <2>5, <2>6, <2>7 DEF FrInv, FramesInv
<1>2. CASE Hunt
  <2>1. Sends /\ buf.n = 0 /\ listening' \in {"on", "last", "off"}
        /\ UNCHANGED <<torn, taken, insync>>
    BY <1>2, <1>t DEF Hunt, GoesOn, FramesTypeOK
  <2>2. CASE /\ Byte = "U" /\ UNCHANGED listening
             /\ buf' = [NoBuffer EXCEPT !.from = wire.gone, !.n = 1, !.last = "U"]
    <3>1. buf' = [from |-> wire.gone, n |-> 1, mark |-> "none", last |-> "U", missing |-> 0]
      BY <2>2 DEF NoBuffer
    <3>2. FramesTypeOK'
      BY <2>1, <3>1, <1>s, <1>w, <1>t DEF FramesTypeOK, Values
    <3>3. KnowsPlace'
      BY <2>1, <3>1, <1>s, <1>w DEF KnowsPlace, PlaceAfter
    <3>4. StaysInStep' /\ TornIsDropped' /\ EndsInHead'
      BY <2>1, <3>1, <1>w DEF FrInv, FramesInv, StaysInStep, TornIsDropped,
        EndsInHead
    <3> QED BY <3>2, <3>3, <3>4 DEF FrInv, FramesInv
  <2>3. CASE Byte # "U" /\ UNCHANGED buf
    <3>1. ~insync
      BY <2>1, <2>3, <1>b DEF FrInv, FramesInv, StaysInStep
    <3>2. FramesTypeOK'
      BY <2>1, <2>3, <1>s, <1>t DEF FramesTypeOK
    <3>3. StaysInStep' /\ TornIsDropped' /\ EndsInHead' /\ KnowsPlace'
      BY <2>1, <2>3, <3>1, <1>w
      DEF FrInv, FramesInv, StaysInStep, TornIsDropped, EndsInHead, KnowsPlace
    <3> QED BY <3>2, <3>3 DEF FrInv, FramesInv
  <2> QED BY <1>2, <2>2, <2>3 DEF Hunt
<1>3. CASE ReadByte
  <2>1. Sends /\ buf.n > 0 /\ buf.n < FrameLength
        /\ UNCHANGED <<torn, listening, taken, insync>>
    BY <1>3 DEF ReadByte, Reading
  <2>2. buf' = [buf EXCEPT !.n = @ + 1, !.last = Byte,
                           !.mark = IF buf.n = 1 THEN Byte ELSE @]
    BY <1>3 DEF ReadByte
  <2>3. /\ buf.n' = buf.n + 1 /\ buf.last' = Byte
        /\ buf.from' = buf.from /\ buf.missing' = buf.missing
    BY <2>2, <1>w
  <2>4. buf' \in [from : Nat, n : 0 .. FrameLength, mark : Values \cup {"none"},
                  last : Values \cup {"none"}, missing : Nat]
    <3>1. buf.n + 1 \in 0 .. FrameLength
      BY <2>1, <1>w
    <3>2. (IF buf.n = 1 THEN Byte ELSE buf.mark) \in Values \cup {"none"}
      BY <1>b, <1>w
    <3>3. buf' = [from |-> buf.from, n |-> buf.n + 1,
                  mark |-> IF buf.n = 1 THEN Byte ELSE buf.mark,
                  last |-> Byte, missing |-> buf.missing]
      BY <2>2, <1>w
    <3> QED BY <3>1, <3>2, <3>3, <1>b, <1>w
  <2>5. FramesTypeOK'
    BY <2>1, <2>4, <1>s, <1>w, <1>t DEF FramesTypeOK
  <2>6. KnowsPlace'
    BY <2>1, <2>3, <1>s, <1>w DEF FrInv, KnowsPlace, PlaceAfter
  <2>7. EndsInHead'
    <3> SUFFICES ASSUME buf.n + 1 = FrameLength, buf.from = 0, buf.missing \in {1, 2}
                 PROVE  Byte \in {"U", "mark"}
      BY <2>3 DEF EndsInHead
    <3>1. wire.gone = PlaceAfter(buf.n + buf.missing)
      BY <2>1, <1>w DEF FrInv, KnowsPlace
    <3>2. wire.gone \in {0, 1}
      BY <3>1, <1>w DEF PlaceAfter
    <3> QED BY <3>2, <1>b
  <2>8. StaysInStep' /\ TornIsDropped'
    BY <2>1, <2>3, <1>w DEF FrInv, FramesInv, StaysInStep, TornIsDropped
  <2> QED BY <2>5, <2>6, <2>7, <2>8 DEF FrInv, FramesInv
<1>4. CASE Incomplete
  <2>1. /\ buf' = NoBuffer /\ ~insync' /\ insync' \in BOOLEAN
        /\ listening' \in {"on", "last", "off"} /\ UNCHANGED <<wire, torn, taken>>
    BY <1>4, <1>t DEF Incomplete, GoesOn, FramesTypeOK
  <2>2. FramesTypeOK'
    BY <2>1, <1>t, <1>w DEF FramesTypeOK, NoBuffer
  <2>3. StaysInStep' /\ TornIsDropped' /\ EndsInHead' /\ KnowsPlace'
    BY <2>1, <1>w
    DEF FrInv, FramesInv, StaysInStep, TornIsDropped, EndsInHead, KnowsPlace,
    NoBuffer
  <2> QED BY <2>2, <2>3 DEF FrInv, FramesInv
<1>5. CASE FrameRead
  <2>1. /\ buf.n = FrameLength /\ buf' = NoBuffer
        /\ taken' = IF Parses THEN buf ELSE taken
        /\ insync' = (Parses /\ buf.from = 0 /\ buf.missing = 0)
        /\ listening' \in {"on", "last", "off"} /\ UNCHANGED <<wire, torn>>
    BY <1>5, <1>t DEF FrameRead, GoesOn, FramesTypeOK
  <2>2. buf.n' = 0
    BY <2>1 DEF NoBuffer
  <2>3. FramesTypeOK'
    BY <2>1, <1>t, <1>w DEF FramesTypeOK, NoBuffer
  <2>4. StaysInStep'
    <3>1. buf.from = 0 /\ buf.missing = 0 => wire.gone = PlaceAfter(FrameLength)
      BY <2>1, <1>w DEF FrInv, KnowsPlace
    <3>2. PlaceAfter(FrameLength) = 0
      BY <1>w DEF PlaceAfter
    <3>3. insync' => buf.from = 0 /\ buf.missing = 0
      BY <2>1, Zenon
    <3>4. insync' => wire.gone = 0
      BY <3>1, <3>2, <3>3, Zenon
    <3> QED BY <2>1, <2>2, <3>4 DEF StaysInStep
  <2>5. TornIsDropped'
    <3>1. Parses /\ buf.from = 0 => buf.missing \notin {1, 2}
      BY <2>1 DEF Parses, FrInv, EndsInHead
    <3> QED BY <2>1, <3>1 DEF FrInv, FramesInv, TornIsDropped
  <2>6. KnowsPlace' /\ EndsInHead'
    BY <2>2 DEF KnowsPlace, EndsInHead
  <2> QED BY <2>3, <2>4, <2>5, <2>6 DEF FrInv, FramesInv
<1>6. CASE StopReading \/ UNCHANGED framesVars
  <2>1. /\ UNCHANGED <<wire, torn, buf, taken, insync>>
        /\ listening' \in {"on", "last", "off"}
    BY <1>6, <1>t DEF StopReading, framesVars, FramesTypeOK
  <2>2. FramesTypeOK'
    BY <2>1, <1>t DEF FramesTypeOK
  <2> QED BY <2>1, <2>2
    DEF FrInv, FramesInv, StaysInStep, TornIsDropped, EndsInHead, KnowsPlace
<1> QED BY <1>1, <1>2, <1>3, <1>4, <1>5, <1>6 DEF FramesNext

(* Whatever the frames' length: a thread that read a frame stays in step,  *)
(* and a frame that lost a byte or two is dropped (UWBParserThread.run).   *)
THEOREM FramesHold == FramesSpec => []FramesInv
<1>1. FrInv => FramesInv
  BY DEF FrInv
<1> QED BY <1>1, FramesInitInv, FramesNextInv, PTL DEF FramesSpec

----------------------------------------------------------------------------
(* PadValidity.                                                            *)

AllTables == [valid : SUBSET Ids, invalid : SUBSET Ids]

ValidityTypeOK ==
  /\ rule \in Rules /\ absolute \in BOOLEAN
  /\ file \in AllTables \cup {Gone, Malformed}
  /\ cache \in [{"path", "resolved"} -> AllTables \cup {NotCached}]
  /\ given \in [Ids -> SUBSET {"valid", "invalid", "unknown"}]

(* The path that was not resolved is a key only while there is no file.    *)
PathIsEmpty == cache["path"] \in {NotCached, EmptyTable}

(* What was answered from the table is in the cache, and it stays there.   *)
AnsweredFromCache ==
  rule = "lookup" =>
    \A i \in Ids :
      /\ "valid" \in given[i] =>
           cache["resolved"] # NotCached /\ i \in cache["resolved"].valid
      /\ "invalid" \in given[i] =>
           cache["resolved"] # NotCached /\ i \notin cache["resolved"].valid

(* The other rules look at the id alone.                                   *)
ByRule(i) ==
  CASE rule = "even" -> Verdict(i % 2 = 0)
    [] rule = "odd" -> Verdict(i % 2 = 1)
    [] rule = "all_valid" -> Verdict(TRUE)
    [] rule = "all_invalid" -> Verdict(FALSE)
    [] rule = "id_below_50" -> Verdict(i < 50)

AnsweredByRule ==
  rule # "lookup" => \A i \in Ids : given[i] \subseteq {ByRule(i)}

RuleInv == ValidityTypeOK /\ PathIsEmpty /\ AnsweredFromCache /\ AnsweredByRule

(* What a lookup reads is a table, and the empty one for a path that was   *)
(* not resolved.                                                           *)
LEMMA BundleIs ==
  ASSUME RuleInv
  PROVE  /\ CacheKey \in {"path", "resolved"}
         /\ Content \in AllTables /\ Bundle \in AllTables
         /\ CacheKey = "path" => Bundle = EmptyTable
         /\ cache[CacheKey] # NotCached => Bundle = cache[CacheKey]
<1> USE ValidityAssumption
<1>1. CacheKey \in {"path", "resolved"}
  BY DEF CacheKey
<1>2. EmptyTable \in AllTables
  BY DEF EmptyTable, AllTables
<1>3. Content \in AllTables /\ (file = Gone => Content = EmptyTable)
  BY <1>2 DEF RuleInv, ValidityTypeOK, Content
<1>4. CacheKey = "path" => file = Gone
  BY DEF CacheKey
<1>5. cache[CacheKey] \in AllTables \cup {NotCached}
  BY <1>1 DEF RuleInv, ValidityTypeOK
<1>6. Bundle \in AllTables
  BY <1>3, <1>5 DEF Bundle
<1>7. CacheKey = "path" => Bundle = EmptyTable
  BY <1>3, <1>4 DEF Bundle, RuleInv, PathIsEmpty
<1>8. cache[CacheKey] # NotCached => Bundle = cache[CacheKey]
  BY DEF Bundle
<1> QED BY <1>1, <1>3, <1>6, <1>7, <1>8

(* An answer comes from the cache as it is afterwards, or from the rule.   *)
LEMMA AnswerIs ==
  ASSUME RuleInv, NEW i \in Ids
  PROVE  /\ DecideLandingValidity(i) \in {"valid", "invalid", "unknown"}
         /\ rule # "lookup" => DecideLandingValidity(i) = ByRule(i)
         /\ rule = "lookup" /\ DecideLandingValidity(i) = "valid" =>
              CacheKey = "resolved" /\ i \in Bundle.valid
         /\ rule = "lookup" /\ DecideLandingValidity(i) = "invalid" =>
              CacheKey = "resolved" /\ i \notin Bundle.valid
<1>1. rule \in Rules
  BY DEF RuleInv, ValidityTypeOK
<1>2. /\ CacheKey \in {"path", "resolved"}
      /\ CacheKey = "path" => Bundle = EmptyTable
  BY BundleIs
<1>3. CASE rule = "lookup"
  <2>1. DecideLandingValidity(i) = Lookup(i)
    BY <1>3 DEF DecideLandingValidity
  <2>2. CASE i \in Bundle.valid
    <3>1. Lookup(i) = "valid" /\ Bundle # EmptyTable
      BY <2>2 DEF Lookup, EmptyTable
    <3> QED BY <1>2, <1>3, <2>1, <2>2, <3>1
  <2>3. CASE i \notin Bundle.valid /\ i \in Bundle.invalid
    <3>1. Lookup(i) = "invalid" /\ Bundle # EmptyTable
      BY <2>3 DEF Lookup, EmptyTable
    <3> QED BY <1>2, <1>3, <2>1, <2>3, <3>1
  <2>4. CASE i \notin Bundle.valid /\ i \notin Bundle.invalid
    <3>1. Lookup(i) = "unknown"
      BY <2>4 DEF Lookup
    <3> QED BY <1>3, <2>1, <3>1
  <2> QED BY <2>2, <2>3, <2>4
<1>4. CASE rule # "lookup"
  <2>1. DecideLandingValidity(i) = ByRule(i)
    BY <1>1, <1>4 DEF DecideLandingValidity, ByRule, Rules
  <2>2. ByRule(i) \in {"valid", "invalid"}
    BY <1>1, <1>4 DEF ByRule, Rules, Verdict
  <2> QED BY <1>4, <2>1, <2>2
<1> QED BY <1>3, <1>4

(* Nothing was answered at the start.                                      *)
LEMMA ValidityInitInv == ValidityInit => RuleInv
BY ValidityAssumption
   DEF ValidityInit, RuleInv, ValidityTypeOK, PathIsEmpty, AnsweredFromCache,
       AnsweredByRule, NoCache, NoAnswers, AllTables

(* An edit of the file, a lookup and a verdict keep the invariant.         *)
LEMMA ValidityNextInv == RuleInv /\ [ValidityNext]_validityVars => RuleInv'
<1> SUFFICES ASSUME RuleInv, [ValidityNext]_validityVars PROVE RuleInv'
  OBVIOUS
<1> USE ValidityAssumption
<1>1. CASE Import
  <2>1. /\ given' = NoAnswers /\ UNCHANGED <<rule, absolute, file>>
        /\ \/ cache' = NoCache
           \/ cache' = [NoCache EXCEPT !["resolved"] = Content]
    BY <1>1 DEF Import
  <2>2. Content \in AllTables
    BY BundleIs
  <2>3. ValidityTypeOK' /\ PathIsEmpty'
    BY <2>1, <2>2 DEF RuleInv, ValidityTypeOK, PathIsEmpty, NoCache, NoAnswers
  <2>4. AnsweredFromCache' /\ AnsweredByRule'
    BY <2>1 DEF AnsweredFromCache, AnsweredByRule, NoAnswers
  <2> QED BY <2>3, <2>4 DEF RuleInv
<1>2. ASSUME NEW i \in Ids, Decide(i) PROVE RuleInv'
  <2>1. /\ given' = [given EXCEPT ![i] = @ \cup {DecideLandingValidity(i)}]
        /\ cache' = IF rule = "lookup" THEN Remembered ELSE cache
        /\ UNCHANGED <<rule, absolute, file>>
    BY <1>2 DEF Decide
  <2>2. /\ DecideLandingValidity(i) \in {"valid", "invalid", "unknown"}
        /\ rule # "lookup" => DecideLandingValidity(i) = ByRule(i)
        /\ rule = "lookup" /\ DecideLandingValidity(i) = "valid" =>
             CacheKey = "resolved" /\ i \in Bundle.valid
        /\ rule = "lookup" /\ DecideLandingValidity(i) = "invalid" =>
             CacheKey = "resolved" /\ i \notin Bundle.valid
    BY AnswerIs
  <2>3. /\ CacheKey \in {"path", "resolved"}
        /\ Content \in AllTables /\ Bundle \in AllTables
        /\ CacheKey = "path" => Bundle = EmptyTable
        /\ cache[CacheKey] # NotCached => Bundle = cache[CacheKey]
    BY BundleIs
  <2>4. Remembered = [cache EXCEPT ![CacheKey] = Bundle]
    BY DEF Remembered
  <2>5. ValidityTypeOK'
    BY <2>1, <2>2, <2>3, <2>4 DEF RuleInv, ValidityTypeOK
  <2>6. PathIsEmpty'
    BY <2>1, <2>3, <2>4 DEF RuleInv, ValidityTypeOK, PathIsEmpty
  <2>7. AnsweredByRule'
    <3> SUFFICES ASSUME rule # "lookup", NEW j \in Ids
                 PROVE  given'[j] \subseteq {ByRule(j)}
      BY <2>1 DEF AnsweredByRule, ByRule
    <3>1. given[j] \subseteq {ByRule(j)}
      BY DEF RuleInv, AnsweredByRule
    <3> QED BY <2>1, <2>2, <3>1 DEF RuleInv, ValidityTypeOK
  <2>8. AnsweredFromCache'
    <3> SUFFICES ASSUME rule = "lookup"
                 PROVE  AnsweredFromCache'
      BY <2>1 DEF AnsweredFromCache
    <3>1. /\ cache["resolved"] # NotCached => cache'["resolved"] = cache["resolved"]
          /\ CacheKey = "resolved" => cache'["resolved"] = Bundle
          /\ Bundle # NotCached
      BY <2>1, <2>3, <2>4 DEF RuleInv, ValidityTypeOK, AllTables
    <3>2. ASSUME NEW j \in Ids
          PROVE  /\ "valid" \in given'[j] =>
                      cache'["resolved"] # NotCached /\ j \in cache'["resolved"].valid
                 /\ "invalid" \in given'[j] =>
                      cache'["resolved"] # NotCached /\ j \notin cache'["resolved"].valid
      <4>1. /\ "valid" \in given[j] =>
                 cache["resolved"] # NotCached /\ j \in cache["resolved"].valid
            /\ "invalid" \in given[j] =>
                 cache["resolved"] # NotCached /\ j \notin cache["resolved"].valid
        BY DEF RuleInv, AnsweredFromCache
      <4>2. CASE j # i
        <5>1. given'[j] = given[j]
          BY <2>1, <4>2 DEF RuleInv, ValidityTypeOK
        <5> QED BY <3>1, <4>1, <5>1
      <4>3. CASE j = i
        <5>1. given'[j] = given[j] \cup {DecideLandingValidity(i)}
          BY <2>1, <4>3 DEF RuleInv, ValidityTypeOK
        <5>2. "valid" \in given'[j] =>
                cache'["resolved"] # NotCached /\ j \in cache'["resolved"].valid
          BY <2>2, <3>1, <4>1, <4>3, <5>1
        <5>3. "invalid" \in given'[j] =>
                cache'["resolved"] # NotCached /\ j \notin cache'["resolved"].valid
          BY <2>2, <3>1, <4>1, <4>3, <5>1
        <5> QED BY <5>2, <5>3
      <4> QED BY <4>2, <4>3
    <3> QED BY <3>2 DEF AnsweredFromCache
  <2> QED BY <2>5, <2>6, <2>7, <2>8 DEF RuleInv
<1>3. ASSUME NEW f \in Tables \cup {Gone, Malformed}, Edit(f) PROVE RuleInv'
  <2>1. file' = f /\ UNCHANGED <<rule, absolute, cache, given>>
    BY <1>3 DEF Edit
  <2>2. ValidityTypeOK'
    BY <2>1 DEF RuleInv, ValidityTypeOK, AllTables
  <2> QED BY <2>1, <2>2
    DEF RuleInv, PathIsEmpty, AnsweredFromCache, AnsweredByRule, ByRule
<1>4. CASE Exit \/ UNCHANGED validityVars
  <2>1. UNCHANGED <<rule, absolute, file, cache, given>>
    BY <1>4 DEF Exit, validityVars
  <2> QED BY <2>1
    DEF RuleInv, ValidityTypeOK, PathIsEmpty, AnsweredFromCache,
    AnsweredByRule, ByRule
<1> QED BY <1>1, <1>2, <1>3, <1>4 DEF ValidityNext

(* However the file is edited and whatever the rule, one run never calls   *)
(* the same pad valid and invalid (decide_landing_validity).               *)
THEOREM NeverBothVerdicts == ValiditySpec => []NoTwoVerdicts
<1>1. RuleInv => NoTwoVerdicts
  <2> SUFFICES ASSUME RuleInv, NEW i \in Ids, {"valid", "invalid"} \subseteq given[i]
               PROVE  FALSE
    BY DEF NoTwoVerdicts
  <2>1. CASE rule = "lookup"
    BY <2>1 DEF RuleInv, AnsweredFromCache
  <2>2. CASE rule # "lookup"
    BY <2>2 DEF RuleInv, AnsweredByRule
  <2> QED BY <2>1, <2>2
<1> QED BY <1>1, ValidityInitInv, ValidityNextInv, PTL DEF ValiditySpec

-----------------------------------------------------------------------------
(* Two facts about numbers.                                                *)

(* A set of indices has a least one.                                       *)
LEMMA LeastIndex ==
  ASSUME NEW S, S \subseteq Nat, S # {}
  PROVE  \E i \in S : \A j \in S : i <= j
<1> DEFINE Less == {p \in Nat \X Nat : p[1] < p[2]}
<1>1. IsWellFoundedOn(Less, Nat)
  BY NatLessThanWellFounded DEF OpToRel
<1>2. PICK i \in S : \A j \in S : ~(<<j, i>> \in Less)
  <2> HIDE DEF Less
  <2> QED BY <1>1, WFMin
<1>3. \A j \in S : ~(j < i)
  BY <1>2
<1> QED BY <1>3

LEMMA ModSucc ==
  ASSUME NEW g \in Nat, NEW n \in Nat, n > 1
  PROVE  /\ g % n \in 0 .. n - 1
         /\ g % n < n - 1 => (g + 1) % n = (g % n) + 1
         /\ g % n = n - 1 => (g + 1) % n = 0
<1> DEFINE q == g \div n
           s == (g + 1) \div n
           r == g % n
           t == (g + 1) % n
<1>1. /\ q \in Int /\ s \in Int /\ r \in 0 .. n - 1 /\ t \in 0 .. n - 1
      /\ g = n * q + r /\ g + 1 = n * s + t
  OBVIOUS
<1> HIDE DEF q, s, r, t
<1>2. n * q + r + 1 = n * s + t
  BY <1>1
<1>3. n * (s - q) = r + 1 - t
  BY <1>1, <1>2
<1>m. ASSUME NEW a \in Int
      PROVE  /\ a >= 2 => n * a >= 2 * n
             /\ a <= -1 => n * a <= -n
             /\ n * 0 = 0 /\ n * 1 = n
  BY <1>m
<1>4. s - q \in {0, 1}
  BY <1>1, <1>3, <1>m
<1>5. CASE s - q = 0
  <2>1. t = r + 1
   BY <1>1, <1>3, <1>5, <1>m
  <2> QED BY <1>1, <2>1 DEF r, t
<1>6. CASE s - q = 1
  <2>1. t = r + 1 - n
    BY <1>1, <1>3, <1>6, <1>m
  <2> QED BY <1>1, <2>1 DEF r, t
<1> QED BY <1>4, <1>5, <1>6

-----------------------------------------------------------------------------
(* RealsenseCamera.                                                        *)

CameraTypes ==
  /\ pipeline \in {"off", "colour", "ir"}
  /\ sensor \in {"none", "settable", "fixed"}
  /\ call \in {"none", "trying", "verify", "raised"}
  /\ mode \in {"ir", "colour"}
  /\ k \in Nat /\ lit \in Nat /\ grabs \in Nat
CameraFlags ==
  useIr \in BOOLEAN /\ align \in BOOLEAN /\ started \in BOOLEAN
  /\ verified \in BOOLEAN /\ emitter \in BOOLEAN
CameraTypeOK == CameraTypes /\ CameraFlags

(* What start() tries is what the node believes it is in, and a started    *)
(* node is past it.                                                        *)
TriesItsMode ==
  /\ align = TRUE <=> useIr = FALSE
  /\ k # 0 => (mode = "ir" <=> useIr = TRUE)
  /\ k = 0 => call = "none" /\ started = FALSE
  /\ started = TRUE => call = "none"
  /\ call = "verify" => mode = "colour" /\ pipeline = "colour"

(* Nothing is grabbed before the camera has started.                       *)
GrabsWhenStarted ==
  k = 0 \/ call \in {"trying", "verify"} => lit = 0 /\ grabs = 0

(* With the projector on, the frames it spoils are those since it was set. *)
LitSinceSet ==
  sensor = "settable" /\ emitter = TRUE =>
    lit <= grabs /\ (grabs > 0 => lit <= (grabs - 1) % Every)

CamInv ==
  /\ CameraTypeOK /\ TriesItsMode /\ GrabsWhenStarted /\ LitSinceSet
  /\ StartedDelivers /\ ProjectorKeptOff

LEMMA CameraTypesKept == CamInv /\ CameraNext => CameraTypes'
<1> SUFFICES ASSUME CamInv, CameraNext PROVE CameraTypes'
  OBVIOUS
<1> USE CameraAssumption DEF CamInv, CameraTypeOK, CameraTypes
<1>1. CASE StartCamera
  BY <1>1 DEF StartCamera
<1>2. CASE ProfileFails
  BY <1>2 DEF ProfileFails, Continue
<1>3. CASE NoIntrinsics
  BY <1>3 DEF NoIntrinsics
<1>4. CASE IrStarts
  BY <1>4 DEF IrStarts
<1>5. CASE ColourStarts
  BY <1>5 DEF ColourStarts
<1>6. CASE Delivers
  BY <1>6 DEF Delivers
<1>7. CASE Silent
  BY <1>7 DEF Silent, Continue
<1>8. CASE Grab
  BY <1>8 DEF Grab, Reassert
<1>9. CASE Stop
  BY <1>9 DEF Stop
<1>10. CASE Firmware
  BY <1>10 DEF Firmware
<1> QED BY <1>1, <1>2, <1>3, <1>4, <1>5, <1>6, <1>7, <1>8, <1>9, <1>10
  DEF CameraNext

LEMMA CameraFlagsKept == CamInv /\ CameraNext => CameraFlags'
<1> SUFFICES ASSUME CamInv, CameraNext PROVE CameraFlags'
  OBVIOUS
<1> USE DEF CamInv, CameraTypeOK, CameraFlags
<1>1. CASE StartCamera
  BY <1>1 DEF StartCamera
<1>2. CASE ProfileFails
  BY <1>2 DEF ProfileFails, Continue
<1>3. CASE NoIntrinsics
  BY <1>3 DEF NoIntrinsics
<1>4. CASE IrStarts
  BY <1>4 DEF IrStarts
<1>5. CASE ColourStarts
  BY <1>5 DEF ColourStarts
<1>6. CASE Delivers
  BY <1>6 DEF Delivers
<1>7. CASE Silent
  BY <1>7 DEF Silent, Continue
<1>8. CASE Grab
  BY <1>8 DEF Grab, Reassert
<1>9. CASE Stop
  BY <1>9 DEF Stop
<1>10. CASE Firmware
  BY <1>10 DEF Firmware
<1> QED BY <1>1, <1>2, <1>3, <1>4, <1>5, <1>6, <1>7, <1>8, <1>9, <1>10
  DEF CameraNext

LEMMA TriesItsModeKept ==
  CamInv /\ CameraNext => TriesItsMode' /\ GrabsWhenStarted' /\ StartedDelivers'
<1> SUFFICES ASSUME CamInv, CameraNext
             PROVE  TriesItsMode' /\ GrabsWhenStarted' /\ StartedDelivers'
  OBVIOUS
<1> USE CameraAssumption
    DEF CamInv, CameraTypeOK, CameraTypes, CameraFlags, TriesItsMode,
    GrabsWhenStarted,
        StartedDelivers
<1>1. CASE StartCamera
  BY <1>1 DEF StartCamera
<1>2. CASE ProfileFails
  BY <1>2 DEF ProfileFails, Continue
<1>3. CASE NoIntrinsics
  BY <1>3 DEF NoIntrinsics
<1>4. CASE IrStarts
  BY <1>4 DEF IrStarts
<1>5. CASE ColourStarts
  BY <1>5 DEF ColourStarts
<1>6. CASE Delivers
  BY <1>6 DEF Delivers
<1>7. CASE Silent
  BY <1>7 DEF Silent, Continue
<1>8. CASE Grab
  BY <1>8 DEF Grab, Reassert
<1>9. CASE Stop
  BY <1>9 DEF Stop
<1>10. CASE Firmware
  BY <1>10 DEF Firmware
<1> QED BY <1>1, <1>2, <1>3, <1>4, <1>5, <1>6, <1>7, <1>8, <1>9, <1>10
  DEF CameraNext

LEMMA LitKept == CamInv /\ CameraNext => LitSinceSet' /\ ProjectorKeptOff'
<1> SUFFICES ASSUME CamInv, CameraNext PROVE LitSinceSet' /\ ProjectorKeptOff'
  OBVIOUS
<1> USE DEF CamInv, CameraTypeOK, CameraTypes, CameraFlags, LitSinceSet,
  ProjectorKeptOff
<1>n. Every \in Nat /\ Every > 1
  BY CameraAssumption
<1>1. CASE StartCamera
  BY <1>1 DEF StartCamera
<1>2. CASE ProfileFails
  BY <1>2 DEF ProfileFails
<1>3. CASE NoIntrinsics
  BY <1>3 DEF NoIntrinsics
<1>4. CASE IrStarts
  BY <1>4, <1>n DEF IrStarts, GrabsWhenStarted
<1>5. CASE ColourStarts
  BY <1>5 DEF ColourStarts
<1>6. CASE Delivers
  BY <1>6 DEF Delivers
<1>7. CASE Silent
  BY <1>7 DEF Silent
<1>8. CASE Grab
  <2>1. CASE useIr /\ sensor = "settable"
    <3>s. sensor = "settable"
      BY <2>1
    <3>a. /\ grabs' = grabs + 1 /\ sensor' = sensor
          /\ IF grabs' % Every = 1 THEN emitter' = FALSE ELSE emitter' = emitter
          /\ lit' = IF emitter THEN lit + 1 ELSE 0
      BY <1>8, <2>1 DEF Grab, Reassert
    <3>b. /\ emitter = TRUE => lit' = lit + 1
          /\ emitter = FALSE => lit' = 0
          /\ emitter' = TRUE => emitter = TRUE /\ grabs' % Every # 1
          /\ emitter \in BOOLEAN
      BY <3>a, Zenon
    <3>1. /\ grabs' = grabs + 1 /\ sensor' = sensor
          /\ emitter = TRUE => lit' = lit + 1
          /\ emitter = FALSE => lit' = 0
          /\ emitter' = TRUE => emitter = TRUE /\ (grabs + 1) % Every # 1
      BY <3>a, <3>b
    <3>2. CASE emitter = FALSE
      BY <3>1, <3>2, <1>n
    <3>3. CASE emitter = TRUE /\ grabs = 0
      <4>1. lit' = 1 /\ grabs' = 1
        BY <3>s, <3>1, <3>3
      <4>2. 1 % Every = 1
        BY <1>n
      <4> QED BY <3>1, <4>1, <4>2, <1>n
    <3>4. CASE emitter = TRUE /\ grabs > 0
      <4>1. grabs - 1 \in Nat /\ grabs \in Nat /\ (grabs - 1) + 1 = grabs
        BY <3>4
      <4>2. /\ (grabs - 1) % Every \in 0 .. Every - 1
            /\ (grabs - 1) % Every < Every - 1 => grabs % Every = ((grabs - 1) % Every) + 1
            /\ (grabs - 1) % Every = Every - 1 => grabs % Every = 0
        BY ModSucc, <4>1, <1>n
      <4>3. /\ grabs % Every \in 0 .. Every - 1
            /\ grabs % Every < Every - 1 => (grabs + 1) % Every = (grabs % Every) + 1
            /\ grabs % Every = Every - 1 => (grabs + 1) % Every = 0
        BY ModSucc, <4>1, <1>n
      <4>4. lit' = lit + 1 /\ lit <= grabs /\ lit <= (grabs - 1) % Every
        BY <3>s, <3>1, <3>4
      <4>5. lit' <= Every
        BY <4>2, <4>4, <1>n
      <4>6. emitter' = TRUE => (grabs + 1) % Every # 1
        BY <3>1
      <4>7. emitter' = TRUE => lit' <= grabs % Every
        BY <4>2, <4>3, <4>4, <4>6, <1>n
      <4>8. grabs' - 1 = grabs /\ lit' <= grabs'
        BY <3>1, <4>4
      <4> QED BY <4>5, <4>7, <4>8, <3>1
    <3>5. grabs = 0 \/ grabs > 0
      OBVIOUS
    <3> QED BY <3>b, <3>2, <3>3, <3>4, <3>5, Zenon
  <2>2. CASE useIr /\ sensor # "settable"
    BY <1>8, <2>2 DEF Grab
  <2>3. CASE ~useIr
    BY <1>8, <2>3 DEF Grab
  <2> QED BY <2>1, <2>2, <2>3
<1>9. CASE Stop
  BY <1>9 DEF Stop
<1>10. CASE Firmware
  BY <1>10, <1>n, ModSucc DEF Firmware
<1> QED BY <1>1, <1>2, <1>3, <1>4, <1>5, <1>6, <1>7, <1>8, <1>9, <1>10
  DEF CameraNext

LEMMA CameraInitInv == CameraInit => CamInv
<1> SUFFICES ASSUME CameraInit PROVE CamInv
  OBVIOUS
<1>1. /\ useIr \in BOOLEAN /\ align = ~useIr /\ started = FALSE /\ verified = FALSE
      /\ emitter = TRUE
  BY Zenon DEF CameraInit
<1>2. CameraFlags /\ (align = TRUE <=> useIr = FALSE)
  BY <1>1, Zenon DEF CameraFlags
<1>3. CameraTypes /\ GrabsWhenStarted /\ LitSinceSet /\ ProjectorKeptOff
  BY DEF CameraInit, CameraTypes, GrabsWhenStarted, LitSinceSet,
    ProjectorKeptOff
<1>4. TriesItsMode /\ StartedDelivers
  BY <1>2 DEF CameraInit, TriesItsMode, StartedDelivers
<1> QED BY <1>2, <1>3, <1>4 DEF CamInv, CameraTypeOK

LEMMA CameraStutter == CamInv /\ UNCHANGED cameraVars => CamInv'
BY DEF cameraVars, CamInv, CameraTypeOK, CameraTypes, CameraFlags, TriesItsMode,
       GrabsWhenStarted, LitSinceSet, StartedDelivers, ProjectorKeptOff

(* Whatever failed on the way, a camera that has started streams what it    *)
(* will be asked for, and whenever the firmware turns the projector on, it   *)
(* spoils no more frames in a row than lie between two settings.             *)
THEOREM CameraDelivers == CameraSpec => []CameraInv
<1>1. CamInv /\ [CameraNext]_cameraVars => CamInv'
  BY CameraTypesKept, CameraFlagsKept, TriesItsModeKept, LitKept, CameraStutter
     DEF CamInv, CameraTypeOK
<1>2. CamInv => CameraInv
  BY DEF CamInv, CameraInv
<1> QED BY <1>1, <1>2, CameraInitInv, PTL DEF CameraSpec

-----------------------------------------------------------------------------
(* DolaDiscovery.                                                          *)

Entries == [Planes -> Ips \cup {NoIp}]

DolaTypes ==
  /\ ear \in {"none", "test", "recv", "store"}
  /\ planes \in Entries /\ last \in Entries
  /\ clock \in 0 .. Listen /\ after \in Nat

(* The packet the thread has is the last of its plane.                     *)
HeardIsLast ==
  ear = "store" => heard.plane \in Planes /\ heard.ip = last[heard.plane]

(* What is in the table is the last address, or is about to be.            *)
EntryIsLast ==
  \A p \in Planes : \/ planes[p] \in {NoIp, last[p]}
                    \/ ear = "store" /\ heard.plane = p

(* A thread that was left behind ends at its next test of _running.        *)
LeftBehind ==
  /\ stopped = FALSE => after = 0
  /\ stopped = TRUE => running = FALSE
  /\ after > 0 => after = 1 /\ ear \in {"test", "none"}
  /\ stopped = FALSE /\ running = FALSE => ear = "none"
  /\ stopped \in BOOLEAN /\ running \in BOOLEAN

TableInv == DolaTypes /\ HeardIsLast /\ EntryIsLast /\ LeftBehind

LEMMA DolaInitInv == DolaInit => TableInv
<1> SUFFICES ASSUME DolaInit PROVE TableInv
  OBVIOUS
<1>1. DolaTypes /\ HeardIsLast /\ EntryIsLast
  BY DolaAssumption DEF DolaInit, DolaTypes, HeardIsLast, EntryIsLast, Entries
<1>2. LeftBehind
  <2>1. stopped = FALSE /\ after = 0 /\ running = FALSE /\ ear = "none"
    BY Zenon DEF DolaInit
  <2>2. /\ stopped \in BOOLEAN /\ (stopped = FALSE => after = 0)
        /\ (stopped = TRUE => running = FALSE) /\ ear = "none" /\ running \in BOOLEAN
    BY <2>1, Zenon
  <2>3. ~(after > 0)
    BY <2>1
  <2> QED BY <2>2, <2>3, Zenon DEF LeftBehind
<1> QED BY <1>1, <1>2 DEF TableInv

LEMMA DolaStep == TableInv /\ DolaNext => TableInv'
<1> SUFFICES ASSUME TableInv, DolaNext PROVE TableInv'
  OBVIOUS
<1> USE DolaAssumption DEF TableInv, DolaTypes, caller
<1>1. CASE StartListening
  <2>1. /\ stopped = FALSE /\ running' = TRUE /\ after = 0 /\ ear = "none"
        /\ ear' = "test" /\ stopped' = stopped /\ after' = after
        /\ planes' = planes /\ last' = last /\ clock' = clock
    BY <1>1, Zenon DEF StartListening, LeftBehind
  <2>2. DolaTypes' /\ HeardIsLast' /\ EntryIsLast'
    BY <2>1, <1>1 DEF StartListening, HeardIsLast, EntryIsLast
  <2>3. /\ stopped' \in BOOLEAN /\ (stopped' = FALSE => after' = 0) /\ ear' = "test"
        /\ (stopped' = FALSE /\ running' = FALSE => ear' = "none")
        /\ (stopped' = TRUE => running' = FALSE) /\ running' \in BOOLEAN
    BY <2>1, Zenon
  <2>4. ~(after' > 0)
    BY <2>1
  <2>5. LeftBehind'
    BY <2>3, <2>4, Zenon DEF LeftBehind
  <2> QED BY <2>2, <2>5
<1>2. CASE StopListening
  BY <1>2 DEF StopListening, HeardIsLast, EntryIsLast, LeftBehind
<1>3. CASE ListenerTests
  BY <1>3 DEF ListenerTests, Test, HeardIsLast, EntryIsLast, LeftBehind
<1>4. CASE SocketClosed
  BY <1>4 DEF SocketClosed, HeardIsLast, EntryIsLast, LeftBehind
<1>5. CASE ListenerStores
  BY <1>5 DEF ListenerStores, Store, Entries, HeardIsLast, EntryIsLast,
    LeftBehind
<1>6. CASE Poll
  BY <1>6 DEF Poll, Sleep, HeardIsLast, EntryIsLast, LeftBehind
<1>7. CASE Answer
  BY <1>7 DEF Answer, HeardIsLast, EntryIsLast, LeftBehind
<1>8. CASE ClearTable
  BY <1>8 DEF ClearTable, Entries, HeardIsLast, EntryIsLast, LeftBehind
<1>9. ASSUME NEW p \in Planes, NEW ip \in Ips, Receive(p, ip) PROVE TableInv'
  BY <1>9 DEF Receive, Entries, HeardIsLast, EntryIsLast, LeftBehind
<1>10. ASSUME NEW kind, NEW ps, Ask(kind, ps) PROVE TableInv'
  BY <1>10 DEF Ask, HeardIsLast, EntryIsLast, LeftBehind
<1> QED
  BY <1>1, <1>2, <1>3, <1>4, <1>5, <1>6, <1>7, <1>8, <1>9, <1>10 DEF DolaNext

(* For every swarm and every packet, the table holds no address a plane has *)
(* given up, and nobody waits for it longer than asked (DolaDiscovery).     *)
THEOREM TableHolds == DolaSpec => []DolaInv
<1>1. TableInv /\ UNCHANGED dolaVars => TableInv'
  BY DEF dolaVars, TableInv, DolaTypes, HeardIsLast, EntryIsLast, LeftBehind
<1>2. TableInv => DolaInv
  BY DolaAssumption DEF TableInv, DolaTypes, EntryIsLast, LeftBehind, DolaInv,
    TableIsNewest, Known,
     DolaKeepsTime
<1> QED BY <1>1, <1>2, DolaInitInv, DolaStep, PTL DEF DolaSpec

-----------------------------------------------------------------------------
(* UwbSubscriber.                                                          *)

(* What is the node's is given back when it is stopped, the altitude and   *)
(* its packet go together, and a fix has a time.                           *)
UwbTypes ==
  node = [started |-> node.started, stop |-> node.stop, owns |-> node.owns,
          starts |-> node.starts]

AltitudeIsSent == altitude.have = TRUE => altitude.sent = TRUE

(* Our context is up only under a started node that knows it is its own.   *)
OursIsHeld == context = "ours" => node.started = TRUE /\ node.owns = TRUE

UwbInv == UwbTypes /\ OursIsHeld /\ AltitudeIsSent /\ AltitudeIsRecent

LEMMA UwbInitInv == UwbInit => UwbInv
BY DEF UwbInit, UwbInv, UwbTypes, OursIsHeld, AltitudeIsSent,
  AltitudeIsRecent

LEMMA UwbNodeKept == UwbInv /\ UwbNext => UwbTypes' /\ OursIsHeld'
<1> SUFFICES ASSUME UwbInv, UwbNext PROVE UwbTypes' /\ OursIsHeld'
  OBVIOUS
<1> USE DEF UwbInv, UwbTypes, OursIsHeld, lifecycle, Starting, Counted
<1>1. CASE NoRos
  BY <1>1 DEF NoRos
<1>2. CASE StartFails
  <2>1. Owns \in BOOLEAN /\ node.started = FALSE /\ context # "ours"
    BY <1>2 DEF StartFails, Owns
  <2>2. CASE /\ node' = Counted([node EXCEPT !.owns = FALSE])
             /\ context' = IF Owns THEN "none" ELSE context
    BY <2>1, <2>2
  <2>3. CASE node' = Counted([node EXCEPT !.owns = Owns]) /\ context' = "none"
    BY <2>1, <2>3
  <2> QED BY <1>2, <2>2, <2>3 DEF StartFails
<1>3. CASE Start
  <2>1. node' = [[node EXCEPT !.started = TRUE, !.owns = Owns] EXCEPT !.starts = node.starts + 1]
    BY <1>3 DEF Start
  <2>2. Owns \in BOOLEAN
    BY Zenon DEF Owns
  <2>3. node'.started = TRUE /\ node'.owns = Owns /\ UwbTypes'
    BY <2>1, <2>2
  <2>4. context' = "ours" => Owns = TRUE
    <3>1. context = "none" => Owns = TRUE
      BY <2>2 DEF Owns
    <3> QED BY <1>3, <3>1 DEF Start, Opened
  <2> QED BY <2>3, <2>4
<1>4. CASE OnPose
  BY <1>4 DEF OnPose
<1>5. CASE SpinEnds
  BY <1>5 DEF SpinEnds
<1>6. CASE StopAsked
  BY <1>6 DEF StopAsked
<1>7. CASE Stopped
  <2>1. context = "ours" => ShutsDown
    BY <1>7 DEF ShutsDown
  <2> QED BY <1>7, <2>1 DEF Stopped
<1>8. CASE GetAltitude
  BY <1>8 DEF GetAltitude
<1>9. CASE HalfSecond
  BY <1>9 DEF HalfSecond
<1>10. CASE ContextLost
  BY <1>10 DEF ContextLost
<1>11. CASE ContextOpened
  BY <1>11 DEF ContextOpened
<1> QED
  BY <1>1, <1>2, <1>3, <1>4, <1>5, <1>6, <1>7, <1>8, <1>9, <1>10,
    <1>11 DEF UwbNext

LEMMA UwbAltitudeKept == UwbInv /\ UwbNext => AltitudeIsSent' /\ AltitudeIsRecent'
<1> SUFFICES ASSUME UwbInv, UwbNext PROVE AltitudeIsSent' /\ AltitudeIsRecent'
  OBVIOUS
<1> USE DEF UwbInv, AltitudeIsSent, AltitudeIsRecent, fix
<1>1. CASE NoRos
  BY <1>1 DEF NoRos
<1>2. CASE StartFails
  BY <1>2 DEF StartFails
<1>3. CASE Start
  BY <1>3 DEF Start
<1>4. CASE OnPose
  BY <1>4 DEF OnPose, HaveZ
<1>5. CASE SpinEnds
  BY <1>5 DEF SpinEnds
<1>6. CASE StopAsked
  BY <1>6 DEF StopAsked
<1>7. CASE Stopped
  BY <1>7 DEF Stopped
<1>8. CASE GetAltitude
  BY <1>8 DEF GetAltitude
<1>9. CASE HalfSecond
  BY <1>9 DEF HalfSecond
<1>10. CASE ContextLost
  BY <1>10 DEF ContextLost
<1>11. CASE ContextOpened
  BY <1>11 DEF ContextOpened
<1> QED
  BY <1>1, <1>2, <1>3, <1>4, <1>5, <1>6, <1>7, <1>8, <1>9, <1>10,
    <1>11 DEF UwbNext

(* A packet is a position that is set; everything else leaves the fix.     *)
LEMMA UwbStepIsMock == UwbNext => Mock!SetPosition \/ UNCHANGED Mock!mockVars
<1> SUFFICES ASSUME UwbNext PROVE Mock!SetPosition \/ UNCHANGED Mock!mockVars
  OBVIOUS
<1>1. CASE OnPose
  BY <1>1 DEF OnPose, Mock!SetPosition
<1>2. CASE ~OnPose
  BY <1>2 DEF UwbNext, NoRos, StartFails, Start, SpinEnds, StopAsked, Stopped,
    GetAltitude,
     HalfSecond, ContextLost, ContextOpened, lifecycle, fix, Mock!mockVars
<1> QED BY <1>1, <1>2

(* An altitude is one the latest packet carried, at most a second ago, and   *)
(* a stopped node leaves no context of its own open (UWBSubscriber).         *)
THEOREM AltitudeHolds == UwbSpec => [](AltitudeIsRecent /\ NoContextLeaked)
<1>1. UwbInv /\ UNCHANGED uwbVars => UwbInv'
  BY DEF uwbVars, UwbInv, UwbTypes, OursIsHeld, AltitudeIsSent,
    AltitudeIsRecent
<1>2. UwbInv => AltitudeIsRecent /\ NoContextLeaked
  BY DEF UwbInv, OursIsHeld, NoContextLeaked
<1> QED BY <1>1, <1>2, UwbInitInv, UwbNodeKept, UwbAltitudeKept, PTL
  DEF UwbSpec, UwbInv

(* However it is started, stopped and lost, the subscriber does nothing to  *)
(* its fix that the mock of the tests does not do: step by step, a packet is *)
(* a position that is set, and everything else leaves the fix.               *)
THEOREM RealIsAMock == UwbSpec => ImplementsMock
<1>1. UwbInit => Mock!MockInit
  BY DEF UwbInit
<1>2. UNCHANGED uwbVars => UNCHANGED Mock!mockVars
  BY DEF uwbVars, Mock!mockVars
<1> QED BY <1>1, <1>2, UwbStepIsMock, PTL DEF UwbSpec, ImplementsMock,
  Mock!MockSpec

-----------------------------------------------------------------------------
(* WaypointScan.                                                           *)

Sightings ==
  [id : Tags, world : Int, confidence : {1, 2}]

ScanTypes ==
  /\ scan = [pc |-> scan.pc, mode |-> scan.mode, left |-> scan.left, at |-> scan.at,
             stop |-> scan.stop]
  /\ scan.pc \in {"grab", "integrate", "detect", "done"}
  /\ place \in Places /\ pose \in Places
  /\ seen \in Seq(Sightings)
  /\ verdict \in [Tags -> Verdicts \cup {"none"}]

(* The frame in hand was taken at a place, and shows tags.                 *)
FrameIsTaken ==
  /\ frame.tags \subseteq Tags \X BOOLEAN
  /\ frame.tags # {} => frame.at \in Places
  /\ scan.pc \in {"grab", "done"} => frame.tags = {}

(* A sighting with a place is the better one, and its place is marked.     *)
SeenIsMarked ==
  \A i \in DOMAIN seen :
    /\ seen[i].confidence = 2 <=> seen[i].world # Nowhere
    /\ seen[i].world # Nowhere => <<seen[i].id, seen[i].world>> \in onMap

(* What is marked was seen.                                                *)
MarkedIsSeen ==
  \A m \in onMap : \E i \in DOMAIN seen : seen[i].id = m[1] /\ seen[i].world = m[2]

(* What was written is the verdict that is remembered.                     *)
WrittenAsRemembered ==
  \A d \in disk : /\ d.sighting.id \in Tags /\ d.valid # "none"
                  /\ d.valid = verdict[d.sighting.id]

PadsInv ==
  ScanTypes /\ FrameIsTaken /\ SeenIsMarked /\ MarkedIsSeen /\ WrittenAsRemembered

LEMMA ScanInitInv == ScanInit => PadsInv
BY DEF ScanInit, NoFrame, PadsInv, ScanTypes, FrameIsTaken, SeenIsMarked,
  MarkedIsSeen,
       WrittenAsRemembered

LEMMA RegisterKeeps == PadsInv /\ RegisterSighting => PadsInv'
<1> SUFFICES ASSUME PadsInv, RegisterSighting PROVE PadsInv'
  OBVIOUS
<1> USE DEF PadsInv, ScanTypes
<1>1. PICK d \in frame.tags, r \in Verdicts, written \in BOOLEAN :
        LET s == Sighting(d[1], d[2])
            v == ValidityFor(s.id, r)
            new == ~Repeats(s, seen)
        IN  /\ frame' = [frame EXCEPT !.tags = @ \ {d}]
            /\ seen' = IF new THEN Append(seen, s) ELSE seen
            /\ verdict' = IF new THEN [verdict EXCEPT ![s.id] = v] ELSE verdict
            /\ disk' = IF new /\ written THEN disk \cup {[sighting |-> s, valid |-> v]} ELSE disk
            /\ onMap' = IF Marked(s, seen) THEN onMap \cup {<<s.id, s.world>>} ELSE onMap
  BY DEF RegisterSighting
<1> DEFINE s == Sighting(d[1], d[2])
           v == ValidityFor(s.id, r)
<1>2. /\ scan.pc = "detect" /\ scan' = scan /\ place' = place /\ pose' = pose
  BY DEF RegisterSighting
<1>3. d[1] \in Tags /\ d[2] \in BOOLEAN /\ frame.at \in Places
  BY DEF FrameIsTaken
<1>4. /\ World(d[1]) \in Int /\ World(d[1]) # Nowhere
  <2>1. TagPlace[d[1]] \in Int /\ pose \in Int /\ frame.at \in Int
    BY <1>3, ScanAssumption
  <2>2. TagPlace[d[1]] + (pose - frame.at) # Nowhere
    BY <1>3, ScanAssumption
  <2> QED BY <2>1, <2>2 DEF World
<1>5. /\ s \in Sightings /\ s.id = d[1]
      /\ s.confidence = 2 <=> s.world # Nowhere
  <2>1. CASE d[2] = TRUE
    BY <1>3, <1>4, <2>1 DEF Sighting, Sightings
  <2>2. CASE d[2] = FALSE
    BY <1>3, <1>4, <2>2 DEF Sighting, Sightings, Nowhere
  <2> QED BY <1>3, <2>1, <2>2, Zenon
<1>6. /\ v \in Verdicts \cup {"none"} /\ v # "none"
      /\ verdict[s.id] # "none" => v = verdict[s.id]
  BY <1>3, <1>5, ScanAssumption DEF ValidityFor
<1> HIDE DEF s, v
<1>7. CASE Repeats(s, seen)
  <2>1. UNCHANGED <<seen, verdict, disk, onMap>> /\ frame' = [frame EXCEPT !.tags = @ \ {d}]
    BY <1>1, <1>7, Zenon DEF Marked, s, v
  <2>2. FrameIsTaken'
    BY <1>2, <2>1 DEF FrameIsTaken
  <2> QED BY <1>2, <2>1, <2>2 DEF SeenIsMarked, MarkedIsSeen,
    WrittenAsRemembered
<1>8. CASE ~Repeats(s, seen)
  <2>1. /\ frame' = [frame EXCEPT !.tags = @ \ {d}]
        /\ seen' = Append(seen, s)
        /\ verdict' = [verdict EXCEPT ![s.id] = v]
        /\ disk' \in {disk, disk \cup {[sighting |-> s, valid |-> v]}}
        /\ onMap' = IF s.world # Nowhere THEN onMap \cup {<<s.id, s.world>>} ELSE onMap
    BY <1>1, <1>8, Zenon DEF Marked, s, v
  <2>2. /\ seen' \in Seq(Sightings)
        /\ DOMAIN seen = 1 .. Len(seen) /\ DOMAIN seen' = 1 .. Len(seen) + 1
        /\ \A i \in DOMAIN seen : seen'[i] = seen[i]
        /\ seen'[Len(seen) + 1] = s
        /\ Len(seen) \in Nat
    BY <1>5, <2>1
  <2>3. ScanTypes' /\ FrameIsTaken'
    BY <1>2, <1>3, <1>5, <1>6, <2>1, <2>2 DEF FrameIsTaken
  <2>4. SeenIsMarked'
    <3> SUFFICES ASSUME NEW i \in DOMAIN seen'
                 PROVE  /\ seen'[i].confidence = 2 <=> seen'[i].world # Nowhere
                        /\ seen'[i].world # Nowhere => <<seen'[i].id, seen'[i].world>> \in onMap'
      BY DEF SeenIsMarked
    <3>1. CASE i \in DOMAIN seen
      BY <2>1, <2>2, <3>1 DEF SeenIsMarked
    <3>2. CASE i = Len(seen) + 1
      BY <1>5, <2>1, <2>2, <3>2
    <3> QED BY <2>2, <3>1, <3>2
  <2>5. MarkedIsSeen'
    <3> SUFFICES ASSUME NEW m \in onMap'
                 PROVE  \E i \in DOMAIN seen' : seen'[i].id = m[1] /\ seen'[i].world = m[2]
      BY DEF MarkedIsSeen
    <3>1. CASE m \in onMap
      <4>1. PICK i \in DOMAIN seen : seen[i].id = m[1] /\ seen[i].world = m[2]
        BY <3>1 DEF MarkedIsSeen
      <4> QED BY <2>2, <4>1
    <3>2. CASE m = <<s.id, s.world>>
      BY <2>2, <3>2
    <3> QED BY <2>1, <3>1, <3>2
  <2>6. WrittenAsRemembered'
    <3> SUFFICES ASSUME NEW e \in disk'
                 PROVE  /\ e.sighting.id \in Tags /\ e.valid # "none"
                        /\ e.valid = verdict'[e.sighting.id]
      BY DEF WrittenAsRemembered
    <3>1. CASE e \in disk
      <4>1. /\ e.sighting.id \in Tags /\ e.valid # "none"
            /\ e.valid = verdict[e.sighting.id]
        BY <3>1 DEF WrittenAsRemembered
      <4> QED BY <1>3, <1>5, <1>6, <2>1, <4>1
    <3>2. CASE e = [sighting |-> s, valid |-> v]
      BY <1>3, <1>5, <1>6, <2>1, <3>2
    <3> QED BY <2>1, <3>1, <3>2
  <2> QED BY <2>3, <2>4, <2>5, <2>6
<1> QED BY <1>7, <1>8

LEMMA ScanStep == PadsInv /\ ScanNext => PadsInv'
<1> SUFFICES ASSUME PadsInv, ScanNext PROVE PadsInv'
  OBVIOUS
<1> USE DEF PadsInv, ScanTypes, Goto, NoFrame
<1>k. ASSUME UNCHANGED <<seen, verdict, disk, onMap>>
      PROVE  /\ SeenIsMarked' /\ MarkedIsSeen' /\ WrittenAsRemembered'
             /\ seen' \in Seq(Sightings) /\ verdict' \in [Tags -> Verdicts \cup {"none"}]
  BY <1>k DEF SeenIsMarked, MarkedIsSeen, WrittenAsRemembered
<1>1. CASE GrabFrame
  <2>1. /\ UNCHANGED <<place, pose, seen, verdict, disk, onMap>> /\ scan.pc = "grab"
        /\ \/ /\ \E f \in Frames : frame' = [at |-> place, tags |-> f]
              /\ scan' = [[scan EXCEPT !.pc = "integrate"] EXCEPT !.left = scan.left - 1]
           \/ frame' = frame /\ scan' = [scan EXCEPT !.left = scan.left - 1]
    BY <1>1 DEF GrabFrame
  <2>2. CASE frame' = frame /\ scan' = [scan EXCEPT !.left = scan.left - 1]
    BY <1>k, <2>1, <2>2 DEF FrameIsTaken
  <2>3. CASE /\ \E f \in Frames : frame' = [at |-> place, tags |-> f]
             /\ scan' = [[scan EXCEPT !.pc = "integrate"] EXCEPT !.left = scan.left - 1]
    <3>1. PICK f \in Frames : frame' = [at |-> place, tags |-> f]
      BY <2>3
    <3>2. frame'.tags \subseteq Tags \X BOOLEAN /\ frame'.at \in Places
      BY <3>1 DEF Frames
    <3>3. scan'.pc = "integrate"
      BY <2>3
    <3>4. scan' = [pc |-> scan'.pc, mode |-> scan'.mode, left |-> scan'.left, at |-> scan'.at,
                   stop |-> scan'.stop]
      BY <2>3
    <3> QED BY <1>k, <2>1, <3>2, <3>3, <3>4 DEF FrameIsTaken
  <2> QED BY <2>1, <2>2, <2>3
<1>2. CASE IntegrateFrame
  BY <1>2, <1>k DEF IntegrateFrame, FrameIsTaken
<1>3. CASE RegisterSighting
  BY <1>3, RegisterKeeps
<1>4. CASE FrameDone
  BY <1>4, <1>k DEF FrameDone, FrameIsTaken
<1>5. CASE NoflyEnds
  BY <1>5, <1>k DEF NoflyEnds, FrameIsTaken
<1>6. CASE ScanEnds
  BY <1>6, <1>k DEF ScanEnds, FrameIsTaken
<1>7. CASE ScanStopAsked
  BY <1>7, <1>k DEF ScanStopAsked, FrameIsTaken
<1>8. CASE Drifts
  BY <1>8, <1>k DEF Drifts, FrameIsTaken
<1>9. CASE TelemetryLoop
  BY <1>9, <1>k DEF TelemetryLoop, FrameIsTaken
<1> QED BY <1>1, <1>2, <1>3, <1>4, <1>5, <1>6, <1>7, <1>8, <1>9 DEF ScanNext

(* The most confident sighting of a pad is one of its sightings, and no    *)
(* other is more confident.                                                *)
LEMMA BestSighting ==
  ASSUME PadsInv, NEW t \in Tags, Of(t) # {}
  PROVE  \E i \in Of(t) : /\ UniquePad(t) = seen[i]
                           /\ \A j \in Of(t) : seen[i].confidence >= seen[j].confidence
<1>1. /\ Of(t) \subseteq DOMAIN seen /\ DOMAIN seen \subseteq Nat
      /\ \A i \in Of(t) : seen[i].confidence \in {1, 2}
  <2>1. /\ DOMAIN seen = 1 .. Len(seen) /\ Len(seen) \in Nat
        /\ \A i \in DOMAIN seen : seen[i] \in Sightings
    BY DEF PadsInv, ScanTypes
  <2> QED BY <2>1 DEF Of, Sightings
<1> DEFINE Sure == {i \in Of(t) : seen[i].confidence = 2}
           Best(i) == \A j \in Of(t) : Better(i, j)
<1>2. \E i \in Of(t) : Best(i)
  <2>1. CASE Sure # {}
    <3>1. PICK i \in Sure : \A j \in Sure : i <= j
      BY <1>1, <2>1, LeastIndex
    <3>2. ASSUME NEW j \in Of(t) PROVE Better(i, j)
      BY <1>1, <3>1 DEF Better
    <3> QED BY <3>1, <3>2
  <2>2. CASE Sure = {}
    <3>1. PICK i \in Of(t) : \A j \in Of(t) : i <= j
      BY <1>1, LeastIndex
    <3>2. ASSUME NEW j \in Of(t) PROVE Better(i, j)
      BY <1>1, <2>2, <3>1 DEF Better
    <3> QED BY <3>2
  <2> QED BY <2>1, <2>2
<1>3. PICK i \in Of(t) : i = (CHOOSE c \in Of(t) : Best(c)) /\ Best(i)
  BY <1>2
<1>4. UniquePad(t) = seen[i]
  BY <1>3 DEF UniquePad
<1>5. ASSUME NEW j \in Of(t) PROVE seen[i].confidence >= seen[j].confidence
  BY <1>1, <1>3 DEF Better
<1> QED BY <1>4, <1>5

(* Whatever the rule says later and wherever the vehicle drifts, list,     *)
(* record and map of the pads agree (_register_sighting, _unique_pads).    *)
THEOREM PadsAgree == ScanSpec => []ScanInv
<1>1. PadsInv /\ UNCHANGED scanVars => PadsInv'
  BY DEF scanVars, PadsInv, ScanTypes, FrameIsTaken, SeenIsMarked, MarkedIsSeen,
         WrittenAsRemembered
<1>2. PadsInv => ScanInv
  <2> SUFFICES ASSUME PadsInv PROVE ScanInv
    OBVIOUS
  <2>1. OneVerdict
    BY DEF OneVerdict, PadsInv, WrittenAsRemembered, UniquePads
  <2>2. ASSUME NEW p \in UniquePads,
               NEW j \in DOMAIN seen, seen[j].id = p.id, seen[j].world # Nowhere
        PROVE  <<p.id, p.world>> \in onMap
    <3>1. PICK t \in Tags : Of(t) # {} /\ p.id = t /\ p.world = UniquePad(t).world
      BY DEF UniquePads
    <3>2. PICK i \in Of(t) : /\ UniquePad(t) = seen[i]
                             /\ \A o \in Of(t) : seen[i].confidence >= seen[o].confidence
      BY <3>1, BestSighting
    <3>3. j \in Of(t) /\ i \in DOMAIN seen /\ seen[i].id = t
      BY <2>2, <3>1 DEF Of
    <3>4. seen[j].confidence = 2 /\ seen[i].confidence \in {1, 2}
      <4>1. seen[i] \in Sightings
        BY <3>3 DEF PadsInv, ScanTypes
      <4>2. seen[j].confidence = 2
        BY <2>2 DEF PadsInv, SeenIsMarked
      <4> QED BY <4>1, <4>2 DEF Sightings
    <3>5. seen[i].confidence = 2
      BY <3>2, <3>3, <3>4
    <3>6. <<seen[i].id, seen[i].world>> \in onMap
      BY <3>3, <3>5 DEF PadsInv, SeenIsMarked
    <3> QED BY <3>1, <3>2, <3>3, <3>6
  <2> QED BY <2>1, <2>2 DEF ScanInv, MeasuredPadsHavePlace, PadsInv,
    MarkedIsSeen
<1> QED BY <1>1, <1>2, ScanInitInv, ScanStep, PTL DEF ScanSpec

-----------------------------------------------------------------------------
(* OccupancyGrid.                                                          *)

(* A frame: what its pixels measured, and from where.                      *)
Shots == [Pixels -> Depths] \X Poses \X Pitches
Counts(s) == Returns(s[1], s[2], s[3])
Point(s, p) == Project(p, s[1][p], s[2], s[3])
OnTheMap(s) == \A p \in Counts(s) : hits[CellOf(Point(s, p))] > 0

PadRecords ==
  [at : Int \X Int \X Int, pixel : Pixels, valid : {"valid", "invalid", "unknown"}, shot : Shots]

GridTypes ==
  /\ hits \in [GridCells -> Nat]
  /\ shot = <<>> \/ (shot \in Shots /\ OnTheMap(shot))
  /\ pads \in Seq(PadRecords)

PadsMarked ==
  \A e \in DOMAIN pads :
    LET pad == pads[e]
    IN pad.at = Point(pad.shot, pad.pixel) /\ OnTheMap(pad.shot)

GInv == GridTypes /\ PadsMarked /\ FarMarkersKept

(* Both ways from a pixel to the world come out at the same point.         *)
LEMMA TwoWaysOnePoint ==
  ASSUME NEW p \in Pixels, NEW z \in Nat, z > 0, NEW drone \in Poses, NEW pitch \in Pitches
  PROVE  CameraToWorld(Deproject(p, z), drone.n, drone.e, -drone.down, drone.yaw, pitch)
           = Project(p, z, drone, pitch)
<1>1. p \in Int \X Int /\ drone \in [n : Int, e : Int, down : Int, yaw : Nat]
  BY GridAssumption
<1> DEFINE c == <<(p[1] - Cx) * z, (p[2] - Cy) * z, z>>
<1>2. Deproject(p, z) = c /\ c[1] = (p[1] - Cx) * z /\ c[2] = (p[2] - Cy) * z /\ c[3] = z
  BY DEF Deproject
<1> HIDE DEF c
<1> QED BY <1>2 DEF CameraToWorld, Project

LEMMA PointIs ==
  ASSUME NEW p \in Pixels, NEW z \in Nat, NEW drone \in Poses, NEW pitch \in Pitches
  PROVE  /\ Project(p, z, drone, pitch) \in Int \X Int \X Int
         /\ Inside(Project(p, z, drone, pitch)) => CellOf(Project(p, z, drone, pitch)) \in GridCells
<1>1. p[1] \in Int /\ p[2] \in Int /\ drone.n \in Int /\ drone.e \in Int /\ drone.down \in Int
  BY GridAssumption
<1>2. /\ Cos(pitch) \in Int /\ Sin(pitch) \in Int
      /\ Cos(drone.yaw) \in Int /\ Sin(drone.yaw) \in Int
  BY DEF Cos, Sin
<1> DEFINE x == (p[1] - Cx) * z
           y == (p[2] - Cy) * z
           xb == Cos(pitch) * z + Sin(pitch) * y
           zb == Sin(pitch) * z - Cos(pitch) * y
<1>3. x \in Int /\ y \in Int
  BY <1>1 DEF Cx, Cy
<1> HIDE DEF x, y
<1>m. \A a, b \in Int : a * b \in Int /\ a + b \in Int /\ a - b \in Int
  OBVIOUS
<1>4. xb \in Int /\ zb \in Int
  BY <1>2, <1>3, <1>m
<1> HIDE DEF xb, zb
<1>5. Project(p, z, drone, pitch)
        = <<drone.n + Cos(drone.yaw) * xb - Sin(drone.yaw) * x,
            drone.e + Sin(drone.yaw) * xb + Cos(drone.yaw) * x,
            -drone.down + zb>>
  BY DEF Project, x, y, xb, zb
<1>6. /\ drone.n + Cos(drone.yaw) * xb - Sin(drone.yaw) * x \in Int
      /\ drone.e + Sin(drone.yaw) * xb + Cos(drone.yaw) * x \in Int
      /\ -drone.down + zb \in Int
  BY <1>1, <1>2, <1>3, <1>4, <1>m
<1>7. ASSUME NEW w \in Int \X Int \X Int, Inside(w) PROVE CellOf(w) \in GridCells
  <2>1. w[1] \in Int /\ w[2] \in Int /\ CELLS \in Nat
    BY GridAssumption
  <2>2. /\ w[1] + 2 * CELLS \in 0 .. 4 * CELLS - 1
        /\ w[2] + 2 * CELLS \in 0 .. 4 * CELLS - 1
    BY <1>7, <2>1 DEF Inside, Span, HalfSide
  <2>3. \A a \in 0 .. 4 * CELLS - 1 : a \div 4 \in 0 .. CELLS - 1
    BY <2>1
  <2> QED BY <2>2, <2>3 DEF CellOf, HalfSide, GridCells
<1> QED BY <1>5, <1>6, <1>7

(* A frame adds at least one return to the cell of each pixel it counts.   *)
LEMMA IntegrateCounts ==
  ASSUME hits \in [GridCells -> Nat],
         NEW depth \in [Pixels -> Depths], NEW drone \in Poses, NEW pitch \in Pitches,
         Integrate(depth, drone, pitch)
  PROVE  /\ hits' \in [GridCells -> Nat]
         /\ \A c \in GridCells : hits'[c] >= hits[c]
         /\ OnTheMap(<<depth, drone, pitch>>)'
<1> DEFINE w == [p \in Pixels |-> Project(p, depth[p], drone, pitch)]
           In(c) == {p \in Returns(depth, drone, pitch) : CellOf(w[p]) = c}
<1>1. hits' = [c \in GridCells |-> hits[c] + Cardinality(In(c))]
  BY DEF Integrate
<1>2. \A c \in GridCells : IsFiniteSet(In(c)) /\ Cardinality(In(c)) \in Nat
  <2>1. \A c \in GridCells : In(c) \subseteq Pixels
    BY DEF Returns
  <2> QED BY <2>1, FS_Subset, FS_CardinalityType, GridAssumption
<1>3. hits' \in [GridCells -> Nat] /\ \A c \in GridCells : hits'[c] = hits[c] + Cardinality(In(c))
  <2> HIDE DEF In
  <2>1. \A c \in GridCells : hits[c] \in Nat /\ hits[c] + Cardinality(In(c)) \in Nat
    BY <1>2
  <2> QED BY <1>1, <2>1
<1>4. ASSUME NEW p \in Returns(depth, drone, pitch)
      PROVE  hits'[CellOf(Project(p, depth[p], drone, pitch))] > 0
  <2> DEFINE c == CellOf(Project(p, depth[p], drone, pitch))
  <2>1. p \in Pixels /\ depth[p] \in Nat /\ Inside(Project(p, depth[p], drone, pitch))
    BY GridAssumption DEF Returns
  <2>2. c \in GridCells
    BY <2>1, PointIs
  <2>3. p \in In(c)
    BY <2>1
  <2>4. Cardinality(In(c)) # 0
    <3> HIDE DEF In, c
    <3> QED BY <1>2, <2>2, <2>3, FS_EmptySet
  <2> HIDE DEF In, c
  <2>5. hits[c] \in Nat /\ Cardinality(In(c)) \in Nat
    BY <1>2, <2>2
  <2>6. hits'[c] > 0
    BY <1>3, <2>2, <2>4, <2>5
  <2> QED BY <2>6 DEF c
<1>5. OnTheMap(<<depth, drone, pitch>>)'
  BY <1>4 DEF OnTheMap, Counts, Point
<1> HIDE DEF In
<1>6. \A c \in GridCells : hits'[c] >= hits[c]
  BY <1>2, <1>3
<1> QED BY <1>3, <1>5, <1>6

(* What was counted stays counted.                                         *)
LEMMA CountedStays ==
  ASSUME NEW s \in Shots, OnTheMap(s), hits \in [GridCells -> Nat], hits' \in [GridCells -> Nat],
         \A c \in GridCells : hits'[c] >= hits[c]
  PROVE  \A p \in Counts(s) : hits'[CellOf(Point(s, p))] > 0
<1> SUFFICES ASSUME NEW p \in Counts(s) PROVE hits'[CellOf(Point(s, p))] > 0
  OBVIOUS
<1>1. s[1] \in [Pixels -> Depths] /\ s[2] \in Poses /\ s[3] \in Pitches
  BY DEF Shots
<1>2. p \in Pixels /\ s[1][p] \in Nat /\ Inside(Point(s, p))
  BY <1>1, GridAssumption DEF Counts, Returns, Point
<1>3. CellOf(Point(s, p)) \in GridCells
  BY <1>1, <1>2, PointIs DEF Point
<1>4. hits[CellOf(Point(s, p))] > 0
  BY DEF OnTheMap
<1> DEFINE c == CellOf(Point(s, p))
<1> HIDE DEF c
<1>5. hits[c] \in Nat /\ hits'[c] \in Nat /\ hits'[c] >= hits[c] /\ hits[c] > 0
  BY <1>3, <1>4 DEF c
<1>6. hits'[c] > 0
  BY <1>5
<1> QED BY <1>6 DEF c

(* Of the markers with a key the first is reported.                        *)
LEMMA FirstIsReported ==
  ASSUME NEW lists \in Marks, NEW i \in DOMAIN lists, NEW j \in DOMAIN lists[i]
  PROVE  \E e \in DOMAIN lists : \E l \in DOMAIN lists[e] :
           Reported(lists, e, l) /\ Key(lists[e][l]) = Key(lists[i][j])
<1> DEFINE S == {e \in DOMAIN lists :
                   \E l \in DOMAIN lists[e] : Key(lists[e][l]) = Key(lists[i][j])}
<1>1. /\ DOMAIN lists \subseteq Nat
      /\ \A e \in DOMAIN lists : DOMAIN lists[e] \subseteq Nat
  <2>1. lists \in Seq(Seq(Int \X Int \X Int))
    BY GridAssumption
  <2>2. DOMAIN lists = 1 .. Len(lists) /\ Len(lists) \in Nat
    BY <2>1
  <2>3. ASSUME NEW e \in DOMAIN lists PROVE DOMAIN lists[e] \subseteq Nat
    <3>1. lists[e] \in Seq(Int \X Int \X Int)
      BY <2>1
    <3>2. DOMAIN lists[e] = 1 .. Len(lists[e]) /\ Len(lists[e]) \in Nat
      BY <3>1
    <3> QED BY <3>2
  <2> QED BY <2>2, <2>3
<1>2. S \subseteq Nat /\ i \in S
  BY <1>1
<1>3. PICK e \in S : \A o \in S : e <= o
  <2> HIDE DEF S
  <2> QED BY <1>2, LeastIndex
<1> DEFINE T == {l \in DOMAIN lists[e] : Key(lists[e][l]) = Key(lists[i][j])}
<1>4. e \in DOMAIN lists /\ T \subseteq Nat /\ T # {}
  BY <1>1
<1>5. PICK l \in T : \A o \in T : l <= o
  <2> HIDE DEF T
  <2> QED BY <1>4, LeastIndex
<1>6. ASSUME NEW e2 \in DOMAIN lists, NEW l2 \in DOMAIN lists[e2],
             e2 < e \/ (e2 = e /\ l2 < l), Key(lists[e2][l2]) = Key(lists[i][j])
      PROVE  FALSE
  <2>1. e2 \in S /\ e <= e2
    BY <1>3, <1>6
  <2>2. e2 = e /\ l2 < l
    BY <1>1, <1>4, <1>6, <2>1
  <2>3. l2 \in T /\ l <= l2
    BY <1>5, <1>6, <2>2
  <2> QED BY <1>1, <1>4, <2>2, <2>3
<1>7. Reported(lists, e, l)
  BY <1>4, <1>5, <1>6 DEF Reported
<1> QED BY <1>4, <1>5, <1>7

LEMMA SameKeyIsNear ==
  ASSUME NEW m \in Int \X Int \X Int, NEW o \in Int \X Int \X Int, Key(m) = Key(o)
  PROVE  m[1] = o[1] /\ m[2] - o[2] \in -19..19 /\ m[3] - o[3] \in -19..19
<1>1. /\ m[2] \in Int /\ m[3] \in Int /\ o[2] \in Int /\ o[3] \in Int
      /\ m[1] = o[1] /\ m[2] \div 20 = o[2] \div 20 /\ m[3] \div 20 = o[3] \div 20
  BY DEF Key
<1>2. \A a, b \in Int : a \div 20 = b \div 20 => a - b \in -19..19
  OBVIOUS
<1> QED BY <1>1, <1>2

LEMMA GridInitInv == GridInit => GInv
BY DEF GridInit, GInv, GridTypes, PadsMarked, FarMarkersKept

LEMMA GridStep == GInv /\ GridNext => GInv'
<1> SUFFICES ASSUME GInv, GridNext PROVE GInv'
  OBVIOUS
<1>1. CASE Frame
  <2>1. PICK depth \in [Pixels -> Depths], drone \in Poses, pitch \in Pitches :
          Integrate(depth, drone, pitch) /\ shot' = <<depth, drone, pitch>>
    BY <1>1 DEF Frame
  <2>2. /\ hits' \in [GridCells -> Nat]
        /\ \A c \in GridCells : hits'[c] >= hits[c]
        /\ OnTheMap(<<depth, drone, pitch>>)'
    BY <2>1, IntegrateCounts DEF GInv, GridTypes
  <2>3. UNCHANGED <<pads, raw, found>>
    BY <1>1 DEF Frame
  <2>4. <<depth, drone, pitch>> \in Shots
    BY DEF Shots
  <2>5. OnTheMap(shot)'
    BY <2>1, <2>2 DEF OnTheMap
  <2>6. GridTypes'
    BY <2>1, <2>2, <2>3, <2>4, <2>5 DEF GInv, GridTypes
  <2>7. PadsMarked'
    <3> SUFFICES ASSUME NEW e \in DOMAIN pads
                 PROVE  /\ pads[e].at = Point(pads[e].shot, pads[e].pixel)
                        /\ \A p \in Counts(pads[e].shot) :
                             hits'[CellOf(Point(pads[e].shot, p))] > 0
      BY <2>3 DEF PadsMarked, OnTheMap
    <3>1. pads[e].shot \in Shots
      <4>1. pads[e] \in PadRecords
        BY DEF GInv, GridTypes
      <4> QED BY <4>1 DEF PadRecords
    <3>2. /\ pads[e].at = Point(pads[e].shot, pads[e].pixel)
          /\ OnTheMap(pads[e].shot)
      BY DEF GInv, PadsMarked
    <3> QED BY <2>2, <3>1, <3>2, CountedStays DEF GInv, GridTypes
  <2> QED BY <2>3, <2>6, <2>7 DEF GInv, FarMarkersKept
<1>2. CASE DetectInFrame
  <2>1. PICK lists \in Marks :
          /\ raw' = lists
          /\ found' =
               UNION { {lists[i][j] : j \in {e \in DOMAIN lists[i] : Reported(lists, i, e)}} :
                         i \in DOMAIN lists }
    BY <1>2 DEF DetectInFrame
  <2>2. UNCHANGED <<hits, heights, pads, shot, integrated>>
    BY <1>2 DEF DetectInFrame
  <2>3. FarMarkersKept'
    <3> SUFFICES ASSUME NEW i \in DOMAIN lists, NEW j \in DOMAIN lists[i]
                 PROVE  \E m \in found' : /\ m[1] = lists[i][j][1]
                                          /\ m[2] - lists[i][j][2] \in -19..19
                                          /\ m[3] - lists[i][j][3] \in -19..19
      BY <2>1 DEF FarMarkersKept
    <3>1. PICK e \in DOMAIN lists : \E l \in DOMAIN lists[e] :
            Reported(lists, e, l) /\ Key(lists[e][l]) = Key(lists[i][j])
      BY FirstIsReported
    <3>2. PICK l \in DOMAIN lists[e] :
            Reported(lists, e, l) /\ Key(lists[e][l]) = Key(lists[i][j])
      BY <3>1
    <3>3. lists[e][l] \in found'
      BY <2>1, <3>2
    <3>4. lists[e][l] \in Int \X Int \X Int /\ lists[i][j] \in Int \X Int \X Int
      <4>1. lists \in Seq(Seq(Int \X Int \X Int))
        BY GridAssumption
      <4> QED BY <4>1
    <3> QED BY <3>2, <3>3, <3>4, SameKeyIsNear
  <2> QED BY <2>2, <2>3 DEF GInv, GridTypes, PadsMarked, OnTheMap
<1>3. ASSUME NEW p \in Pixels, NEW v \in {"valid", "invalid", "unknown"},
             MarkLandingPad(p, v)
      PROVE  GInv'
  <2> DEFINE pad == [at |-> CameraToWorld(Deproject(p, shot[1][p]), shot[2].n, shot[2].e,
                                          -shot[2].down, shot[2].yaw, shot[3]),
                     pixel |-> p, valid |-> v, shot |-> shot]
  <2>1. /\ shot # <<>> /\ shot[1][p] > 0 /\ pads' = Append(pads, pad)
        /\ UNCHANGED <<hits, heights, shot, integrated, raw, found>>
    BY <1>3 DEF MarkLandingPad
  <2>2. shot \in Shots /\ OnTheMap(shot)
    BY <2>1 DEF GInv, GridTypes
  <2>3. shot[1] \in [Pixels -> Depths] /\ shot[2] \in Poses /\ shot[3] \in Pitches
    BY <2>2 DEF Shots
  <2>4. shot[1][p] \in Nat
    BY <2>3, GridAssumption
  <2>5. pad.at = Point(shot, p) /\ pad.pixel = p /\ pad.shot = shot
    BY <2>1, <2>3, <2>4, TwoWaysOnePoint DEF Point
  <2>6. pad \in PadRecords
    <3>1. Point(shot, p) \in Int \X Int \X Int
      BY <2>3, <2>4, PointIs DEF Point
    <3> QED BY <2>2, <2>5, <3>1 DEF PadRecords
  <2> HIDE DEF pad
  <2>7. GridTypes'
    BY <2>1, <2>6 DEF GInv, GridTypes, OnTheMap
  <2>8. PadsMarked'
    <3>1. /\ DOMAIN pads' = 1 .. Len(pads) + 1 /\ DOMAIN pads = 1 .. Len(pads)
          /\ pads'[Len(pads) + 1] = pad /\ Len(pads) \in Nat
          /\ \A e \in 1 .. Len(pads) : pads'[e] = pads[e]
      BY <2>1, <2>6 DEF GInv, GridTypes
    <3> SUFFICES ASSUME NEW e \in DOMAIN pads'
                 PROVE  /\ pads'[e].at = Point(pads'[e].shot, pads'[e].pixel)
                        /\ OnTheMap(pads'[e].shot)
      BY <2>1 DEF PadsMarked, OnTheMap
    <3>2. CASE e \in 1 .. Len(pads)
      BY <3>1, <3>2 DEF GInv, PadsMarked
    <3>3. CASE e = Len(pads) + 1
      BY <2>2, <2>5, <3>1, <3>3
    <3> QED BY <3>1, <3>2, <3>3
  <2> QED BY <2>1, <2>7, <2>8 DEF GInv, FarMarkersKept
<1> QED BY <1>1, <1>2, <1>3 DEF GridNext

LEMMA RoundIsNear ==
  ASSUME NEW q \in Int
  PROVE  Round(q) - q \div 4 \in {0, 1} /\ Round(q) \in Int
BY DEF Round

LEMMA FlipKeepsNear ==
  ASSUME NEW a \in Int, NEW b \in Int, NEW c \in Int, NEW d \in Int,
         a - c \in {0, 1}, b - d \in {0, 1}
  PROVE  NextTo(<<Flipped(a), b>>, <<Flipped(<<c, d>>[1]), <<c, d>>[2]>>)
<1>1. CELLS \in Int
  BY GridAssumption
<1>2. (CELLS - 1 - a) - (CELLS - 1 - c) \in -1..1 /\ b - d \in -1..1
  BY <1>1
<1> QED BY <1>2 DEF NextTo, Flipped

(* However the drone was posed, a pad lies on the depth of its pixel, and   *)
(* no far marker is lost (mapping.py, both copies of the geometry).        *)
THEOREM PadsAndDepthsAgree == GridSpec => []GridInv
<1>1. GInv /\ UNCHANGED gridVars => GInv'
  BY DEF gridVars, GInv, GridTypes, PadsMarked, FarMarkersKept, OnTheMap
<1>2. GInv => GridInv
  <2> SUFFICES ASSUME GInv, NEW e \in CountedPads
               PROVE  LET w == pads[e].at
                          p == pads[e].pixel
                          s == pads[e].shot
                      IN /\ hits[CellOf(w)] > 0
                         /\ w[3] = Project(p, s[1][p], s[2], s[3])[3]
                         /\ Drawn(w) => NextTo(PadPixel(w), CellPixel(CellOf(w)))
    BY DEF GInv, GridInv, PadOnItsDepth
  <2> DEFINE w == pads[e].at
             s == pads[e].shot
  <2>1. e \in DOMAIN pads /\ pads[e].pixel \in Counts(s)
    BY DEF CountedPads, Counts
  <2>2. w = Point(s, pads[e].pixel) /\ OnTheMap(s) /\ w \in Int \X Int \X Int
    <3>1. pads[e] \in PadRecords
      BY <2>1 DEF GInv, GridTypes
    <3>2. w \in Int \X Int \X Int
      BY <3>1 DEF PadRecords
    <3> QED BY <2>1, <3>2 DEF GInv, PadsMarked
  <2>3. hits[CellOf(w)] > 0
    BY <2>1, <2>2 DEF OnTheMap
  <2>4. NextTo(PadPixel(w), CellPixel(CellOf(w)))
    <3> HIDE DEF w
    <3>1. w[1] + HalfSide \in Int /\ w[2] + HalfSide \in Int /\ CELLS \in Int
      BY <2>2, GridAssumption DEF HalfSide
    <3>2. /\ Round(w[1] + HalfSide) - (w[1] + HalfSide) \div 4 \in {0, 1}
          /\ Round(w[2] + HalfSide) - (w[2] + HalfSide) \div 4 \in {0, 1}
          /\ Round(w[1] + HalfSide) \in Int /\ Round(w[2] + HalfSide) \in Int
          /\ (w[1] + HalfSide) \div 4 \in Int /\ (w[2] + HalfSide) \div 4 \in Int
      BY <3>1, RoundIsNear
    <3> QED BY <3>1, <3>2, FlipKeepsNear DEF PadPixel, CellPixel, CellOf
  <2> QED BY <2>2, <2>3, <2>4 DEF Point
<1> QED BY <1>1, <1>2, GridInitInv, GridStep, PTL DEF GridSpec

-----------------------------------------------------------------------------
(* SwarmLap.                                                               *)

(* How many spacings fit in the box, from left to right and from bottom to *)
(* top, and what is left over is less than one.                            *)
IsBox(b, a, c) ==
  /\ b.x0 \in Int /\ b.x1 \in Int /\ b.y0 \in Int /\ b.y1 \in Int
  /\ a \in Nat /\ c \in Nat /\ c >= 2
  /\ b.x0 < b.x1 /\ 20 * a <= b.x1 - b.x0 /\ b.x1 - b.x0 < 20 * a + 20
  /\ b.y0 < b.y1 /\ 20 * c <= b.y1 - b.y0 /\ b.y1 - b.y0 < 20 * c + 20

(* The four edges, one after the other.                                    *)
IsRing(r, b, a, c) ==
  /\ DOMAIN r = 1 .. 2 * a + 2 * c
  /\ \A i \in 1 .. a + 1 : r[i] = <<b.x0 + (i - 1) * 20, b.y0>>
  /\ \A i \in a + 2 .. a + c + 1 : r[i] = <<b.x1, b.y0 + (i - a - 1) * 20>>
  /\ \A i \in a + c + 2 .. 2 * a + c + 1 : r[i] = <<b.x1 - (i - a - c - 1) * 20, b.y1>>
  /\ \A i \in 2 * a + c + 2 .. 2 * a + 2 * c :
       r[i] = <<b.x0, b.y1 - (i - 2 * a - c - 1) * 20>>

(* What RingIsClosed asks of a ring of n waypoints.                        *)
Closes(r, b, n) ==
  /\ DOMAIN r = 1 .. n /\ IsInjective(r)
  /\ \A i \in 1 .. n : r[i] \in Rim(b)
  /\ \A p \in Rim(b) : \E i \in 1 .. n : Apart(p, r[i]) <= WAYPOINT_SPACING
  /\ \A i \in 1 .. n - 1 : Apart(r[i], r[i + 1]) < 2 * WAYPOINT_SPACING
  /\ Apart(r[n], r[1]) < 2 * WAYPOINT_SPACING

LEMMA ApartIs ==
  ASSUME NEW x \in Int, NEW y \in Int, NEW u \in Int, NEW v \in Int, NEW d \in Int,
         x - u <= d, u - x <= d, y - v <= d, v - y <= d
  PROVE  Apart(<<x, y>>, <<u, v>>) <= d
BY DEF Apart

LEMMA ApartIsSymmetric ==
  ASSUME NEW b, b.x0 \in Int, b.y0 \in Int, NEW p \in Rim(b), NEW q \in Rim(b)
  PROVE  Apart(p, q) = Apart(q, p) /\ Apart(p, q) \in Int
<1>1. p[1] \in Int /\ p[2] \in Int /\ q[1] \in Int /\ q[2] \in Int
  BY DEF Rim
<1> QED BY <1>1 DEF Apart

LEMMA ModOfLess ==
  ASSUME NEW n \in Nat, NEW i \in Nat, i < n
  PROVE  i % n = i
OBVIOUS

LEMMA ModOfSelf ==
  ASSUME NEW n \in Nat, n > 0
  PROVE  n % n = 0
OBVIOUS

LEMMA ReverseIsSeq ==
  ASSUME NEW S, NEW r \in Seq(S)
  PROVE  Reverse(r) \in Seq(S)
BY DEF Reverse

(* Where a waypoint of the ring is.                                        *)
LEMMA RingWaypoint ==
  ASSUME NEW b, NEW a, NEW c, IsBox(b, a, c), NEW r, IsRing(r, b, a, c), NEW l \in DOMAIN r
  PROVE  \E x, y \in Int :
           /\ r[l] = <<x, y>>
           /\ \/ l \in 1 .. a + 1 /\ x = b.x0 + (l - 1) * 20 /\ y = b.y0
              \/ l \in a + 2 .. a + c + 1 /\ x = b.x1 /\ y = b.y0 + (l - a - 1) * 20
              \/ /\ l \in a + c + 2 .. 2 * a + c + 1
                 /\ x = b.x1 - (l - a - c - 1) * 20 /\ y = b.y1
              \/ /\ l \in 2 * a + c + 2 .. 2 * a + 2 * c
                 /\ x = b.x0 /\ y = b.y1 - (l - 2 * a - c - 1) * 20
<1>b. /\ b.x0 \in Int /\ b.x1 \in Int /\ b.y0 \in Int /\ b.y1 \in Int
      /\ a \in Nat /\ c \in Nat /\ c >= 2
  BY DEF IsBox
<1>1. l \in 1 .. 2 * a + 2 * c
  BY DEF IsRing
<1>2. CASE l \in 1 .. a + 1
  <2>1. r[l] = <<b.x0 + (l - 1) * 20, b.y0>>
    BY <1>2 DEF IsRing
  <2>2. b.x0 + (l - 1) * 20 \in Int
    BY <1>b, <1>2
  <2> QED BY <1>b, <1>2, <2>1, <2>2
<1>3. CASE l \in a + 2 .. a + c + 1
  <2>1. r[l] = <<b.x1, b.y0 + (l - a - 1) * 20>>
    BY <1>3 DEF IsRing
  <2>2. b.y0 + (l - a - 1) * 20 \in Int
    BY <1>b, <1>3
  <2> QED BY <1>b, <1>3, <2>1, <2>2
<1>4. CASE l \in a + c + 2 .. 2 * a + c + 1
  <2>1. r[l] = <<b.x1 - (l - a - c - 1) * 20, b.y1>>
    BY <1>4 DEF IsRing
  <2>2. b.x1 - (l - a - c - 1) * 20 \in Int
    BY <1>b, <1>4
  <2> QED BY <1>b, <1>4, <2>1, <2>2
<1>5. CASE l \in 2 * a + c + 2 .. 2 * a + 2 * c
  <2>1. r[l] = <<b.x0, b.y1 - (l - 2 * a - c - 1) * 20>>
    BY <1>5 DEF IsRing
  <2>2. b.y1 - (l - 2 * a - c - 1) * 20 \in Int
    BY <1>b, <1>5
  <2> QED BY <1>b, <1>5, <2>1, <2>2
<1> QED BY <1>b, <1>1, <1>2, <1>3, <1>4, <1>5

LEMMA RingIsInjective ==
  ASSUME NEW b, NEW a, NEW c, IsBox(b, a, c), NEW r, IsRing(r, b, a, c)
  PROVE  IsInjective(r)
<1> SUFFICES ASSUME NEW i \in DOMAIN r, NEW j \in DOMAIN r, r[i] = r[j]
             PROVE  i = j
  BY DEF IsInjective
<1>b. /\ b.x0 \in Int /\ b.x1 \in Int /\ b.y0 \in Int /\ b.y1 \in Int
      /\ a \in Nat /\ c \in Nat /\ c >= 2
      /\ b.x0 < b.x1 /\ 20 * a <= b.x1 - b.x0 /\ b.x1 - b.x0 < 20 * a + 20
      /\ b.y0 < b.y1 /\ 20 * c <= b.y1 - b.y0 /\ b.y1 - b.y0 < 20 * c + 20
  BY DEF IsBox
<1>1. PICK x, y \in Int :
        /\ r[i] = <<x, y>>
        /\ \/ i \in 1 .. a + 1 /\ x = b.x0 + (i - 1) * 20 /\ y = b.y0
           \/ i \in a + 2 .. a + c + 1 /\ x = b.x1 /\ y = b.y0 + (i - a - 1) * 20
           \/ /\ i \in a + c + 2 .. 2 * a + c + 1
              /\ x = b.x1 - (i - a - c - 1) * 20 /\ y = b.y1
           \/ /\ i \in 2 * a + c + 2 .. 2 * a + 2 * c
              /\ x = b.x0 /\ y = b.y1 - (i - 2 * a - c - 1) * 20
  BY RingWaypoint
<1>2. PICK u, v \in Int :
        /\ r[j] = <<u, v>>
        /\ \/ j \in 1 .. a + 1 /\ u = b.x0 + (j - 1) * 20 /\ v = b.y0
           \/ j \in a + 2 .. a + c + 1 /\ u = b.x1 /\ v = b.y0 + (j - a - 1) * 20
           \/ /\ j \in a + c + 2 .. 2 * a + c + 1
              /\ u = b.x1 - (j - a - c - 1) * 20 /\ v = b.y1
           \/ /\ j \in 2 * a + c + 2 .. 2 * a + 2 * c
              /\ u = b.x0 /\ v = b.y1 - (j - 2 * a - c - 1) * 20
  BY RingWaypoint
<1>3. x = u /\ y = v
  <2>1. <<x, y>> = <<u, v>>
    BY <1>1, <1>2
  <2> QED BY <2>1
<1>4. i \in Int /\ j \in Int
  BY <1>b DEF IsRing
<1> QED BY <1>b, <1>1, <1>2, <1>3, <1>4

LEMMA RingIsOnTheRim ==
  ASSUME NEW b, NEW a, NEW c, IsBox(b, a, c), NEW r, IsRing(r, b, a, c)
  PROVE  \A i \in DOMAIN r : r[i] \in Rim(b)
<1> SUFFICES ASSUME NEW i \in DOMAIN r PROVE r[i] \in Rim(b)
  OBVIOUS
<1>b. /\ b.x0 \in Int /\ b.x1 \in Int /\ b.y0 \in Int /\ b.y1 \in Int
      /\ a \in Nat /\ c \in Nat /\ c >= 2
      /\ b.x0 < b.x1 /\ 20 * a <= b.x1 - b.x0 /\ b.x1 - b.x0 < 20 * a + 20
      /\ b.y0 < b.y1 /\ 20 * c <= b.y1 - b.y0 /\ b.y1 - b.y0 < 20 * c + 20
  BY DEF IsBox
<1>r. ASSUME NEW x \in b.x0 .. b.x1, NEW y \in b.y0 .. b.y1,
             x = b.x0 \/ x = b.x1 \/ y = b.y0 \/ y = b.y1
      PROVE  <<x, y>> \in Rim(b)
  BY <1>r DEF Rim
<1>1. CASE i \in 1 .. a + 1
  <2>1. r[i] = <<b.x0 + (i - 1) * 20, b.y0>>
    BY <1>1 DEF IsRing
  <2>2. b.x0 + (i - 1) * 20 \in b.x0 .. b.x1 /\ b.y0 \in b.y0 .. b.y1
    BY <1>b, <1>1
  <2> QED BY <1>r, <2>1, <2>2
<1>2. CASE i \in a + 2 .. a + c + 1
  <2>1. r[i] = <<b.x1, b.y0 + (i - a - 1) * 20>>
    BY <1>2 DEF IsRing
  <2>2. b.x1 \in b.x0 .. b.x1 /\ b.y0 + (i - a - 1) * 20 \in b.y0 .. b.y1
    BY <1>b, <1>2
  <2> QED BY <1>r, <2>1, <2>2
<1>3. CASE i \in a + c + 2 .. 2 * a + c + 1
  <2>1. r[i] = <<b.x1 - (i - a - c - 1) * 20, b.y1>>
    BY <1>3 DEF IsRing
  <2>2. b.x1 - (i - a - c - 1) * 20 \in b.x0 .. b.x1 /\ b.y1 \in b.y0 .. b.y1
    BY <1>b, <1>3
  <2> QED BY <1>r, <2>1, <2>2
<1>4. CASE i \in 2 * a + c + 2 .. 2 * a + 2 * c
  <2>1. r[i] = <<b.x0, b.y1 - (i - 2 * a - c - 1) * 20>>
    BY <1>4 DEF IsRing
  <2>2. b.x0 \in b.x0 .. b.x1 /\ b.y1 - (i - 2 * a - c - 1) * 20 \in b.y0 .. b.y1
    BY <1>b, <1>4
  <2> QED BY <1>r, <2>1, <2>2
<1> QED BY <1>b, <1>1, <1>2, <1>3, <1>4 DEF IsRing

LEMMA RingPassesEverywhere ==
  ASSUME NEW b, NEW a, NEW c, IsBox(b, a, c), NEW r, IsRing(r, b, a, c), NEW p \in Rim(b)
  PROVE  \E i \in DOMAIN r : Apart(p, r[i]) <= WAYPOINT_SPACING
<1>b. /\ b.x0 \in Int /\ b.x1 \in Int /\ b.y0 \in Int /\ b.y1 \in Int
      /\ a \in Nat /\ c \in Nat /\ c >= 2
      /\ b.x0 < b.x1 /\ 20 * a <= b.x1 - b.x0 /\ b.x1 - b.x0 < 20 * a + 20
      /\ b.y0 < b.y1 /\ 20 * c <= b.y1 - b.y0 /\ b.y1 - b.y0 < 20 * c + 20
  BY DEF IsBox
<1>p. PICK x \in b.x0 .. b.x1, y \in b.y0 .. b.y1 :
        p = <<x, y>> /\ (x \in {b.x0, b.x1} \/ y \in {b.y0, b.y1})
  BY DEF Rim
<1>i. x \in Int /\ y \in Int
  BY <1>b, <1>p
<1>d. \A l \in Nat : \E q \in Nat : 20 * q <= l /\ l < 20 * q + 20
  <2>1. \A l \in Nat : l \div 20 \in Nat /\ 20 * (l \div 20) <= l /\ l < 20 * (l \div 20) + 20
    OBVIOUS
  <2> QED BY <2>1
<1>1. CASE y = b.y0
  <2>1. PICK q \in Nat : 20 * q <= x - b.x0 /\ x - b.x0 < 20 * q + 20
    <3>1. x - b.x0 \in Nat
      BY <1>b, <1>p
    <3> QED BY <1>d, <3>1
  <2>2. q + 1 \in 1 .. a + 1 /\ (q + 1) - 1 = q /\ q + 1 \in 1 .. 2 * a + 2 * c
    BY <1>b, <1>i, <1>p, <2>1
  <2>3. q + 1 \in DOMAIN r /\ r[q + 1] = <<b.x0 + q * 20, b.y0>>
    BY <2>2 DEF IsRing
  <2>4. Apart(<<x, y>>, <<b.x0 + q * 20, b.y0>>) <= 20
    BY <1>b, <1>i, <1>1, <2>1, ApartIs
  <2> QED BY <1>p, <2>3, <2>4 DEF WAYPOINT_SPACING
<1>2. CASE x = b.x1
  <2>1. PICK q \in Nat : 20 * q <= y - b.y0 /\ y - b.y0 < 20 * q + 20
    <3>1. y - b.y0 \in Nat
      BY <1>b, <1>p
    <3> QED BY <1>d, <3>1
  <2>2. PICK s \in 1 .. c : y - (b.y0 + s * 20) <= 20 /\ (b.y0 + s * 20) - y <= 20
    <3>1. CASE q = 0
      <4>1. 1 \in 1 .. c /\ y - (b.y0 + 1 * 20) <= 20 /\ (b.y0 + 1 * 20) - y <= 20
        BY <1>b, <1>i, <1>p, <2>1, <3>1
      <4> QED BY <4>1
    <3>2. CASE q > 0
      <4>1. q \in 1 .. c /\ y - (b.y0 + q * 20) <= 20 /\ (b.y0 + q * 20) - y <= 20
        BY <1>b, <1>i, <1>p, <2>1, <3>2
      <4> QED BY <4>1
    <3> QED BY <3>1, <3>2
  <2>3. a + 1 + s \in DOMAIN r /\ r[a + 1 + s] = <<b.x1, b.y0 + s * 20>>
    <3>1. /\ a + 1 + s \in a + 2 .. a + c + 1 /\ (a + 1 + s) - a - 1 = s
          /\ a + 1 + s \in 1 .. 2 * a + 2 * c
      BY <1>b, <2>2
    <3> QED BY <3>1 DEF IsRing
  <2>4. Apart(<<x, y>>, <<b.x1, b.y0 + s * 20>>) <= 20
    BY <1>b, <1>i, <1>2, <2>2, ApartIs
  <2> QED BY <1>p, <2>3, <2>4 DEF WAYPOINT_SPACING
<1>3. CASE y = b.y1
  <2>1. PICK q \in Nat : 20 * q <= b.x1 - x /\ b.x1 - x < 20 * q + 20
    <3>1. b.x1 - x \in Nat
      BY <1>b, <1>p
    <3> QED BY <1>d, <3>1
  <2>2. CASE q = 0
    <3>1. a + 1 + c \in DOMAIN r /\ r[a + 1 + c] = <<b.x1, b.y0 + c * 20>>
      <4>1. /\ a + 1 + c \in a + 2 .. a + c + 1 /\ (a + 1 + c) - a - 1 = c
            /\ a + 1 + c \in 1 .. 2 * a + 2 * c
        BY <1>b
      <4> QED BY <4>1 DEF IsRing
    <3>2. Apart(<<x, y>>, <<b.x1, b.y0 + c * 20>>) <= 20
      BY <1>b, <1>i, <1>3, <2>1, <2>2, ApartIs
    <3> QED BY <1>p, <3>1, <3>2 DEF WAYPOINT_SPACING
  <2>3. CASE q > 0
    <3>1. a + c + 1 + q \in DOMAIN r /\ r[a + c + 1 + q] = <<b.x1 - q * 20, b.y1>>
      <4>1. /\ a + c + 1 + q \in a + c + 2 .. 2 * a + c + 1
            /\ (a + c + 1 + q) - a - c - 1 = q /\ a + c + 1 + q \in 1 .. 2 * a + 2 * c
        BY <1>b, <1>i, <1>p, <2>1, <2>3
      <4> QED BY <4>1 DEF IsRing
    <3>2. Apart(<<x, y>>, <<b.x1 - q * 20, b.y1>>) <= 20
      BY <1>b, <1>i, <1>3, <2>1, ApartIs
    <3> QED BY <1>p, <3>1, <3>2 DEF WAYPOINT_SPACING
  <2> QED BY <2>1, <2>2, <2>3
<1>4. CASE x = b.x0
  <2>1. PICK q \in Nat : 20 * q <= b.y1 - y /\ b.y1 - y < 20 * q + 20
    <3>1. b.y1 - y \in Nat
      BY <1>b, <1>p
    <3> QED BY <1>d, <3>1
  <2>2. CASE q < c
    <3>1. PICK s \in 1 .. c - 1 : y - (b.y1 - s * 20) <= 20 /\ (b.y1 - s * 20) - y <= 20
      <4>1. CASE q = 0
        <5>1. 1 \in 1 .. c - 1 /\ y - (b.y1 - 1 * 20) <= 20 /\ (b.y1 - 1 * 20) - y <= 20
          BY <1>b, <1>i, <1>p, <2>1, <4>1
        <5> QED BY <5>1
      <4>2. CASE q > 0
        <5>1. q \in 1 .. c - 1 /\ y - (b.y1 - q * 20) <= 20 /\ (b.y1 - q * 20) - y <= 20
          BY <1>b, <1>i, <1>p, <2>1, <2>2, <4>2
        <5> QED BY <5>1
      <4> QED BY <2>1, <4>1, <4>2
    <3>2. 2 * a + c + 1 + s \in DOMAIN r /\ r[2 * a + c + 1 + s] = <<b.x0, b.y1 - s * 20>>
      <4>1. /\ 2 * a + c + 1 + s \in 2 * a + c + 2 .. 2 * a + 2 * c
            /\ (2 * a + c + 1 + s) - 2 * a - c - 1 = s
            /\ 2 * a + c + 1 + s \in 1 .. 2 * a + 2 * c
        BY <1>b, <3>1
      <4> QED BY <4>1 DEF IsRing
    <3>3. Apart(<<x, y>>, <<b.x0, b.y1 - s * 20>>) <= 20
      BY <1>b, <1>i, <1>4, <3>1, ApartIs
    <3> QED BY <1>p, <3>2, <3>3 DEF WAYPOINT_SPACING
  <2>3. CASE ~(q < c)
    <3>1. 1 \in DOMAIN r /\ r[1] = <<b.x0, b.y0>>
      <4>1. 1 \in 1 .. a + 1 /\ 1 \in 1 .. 2 * a + 2 * c /\ b.x0 + (1 - 1) * 20 = b.x0
        BY <1>b
      <4> QED BY <4>1 DEF IsRing
    <3>2. Apart(<<x, y>>, <<b.x0, b.y0>>) <= 20
      BY <1>b, <1>i, <1>p, <1>4, <2>1, <2>3, ApartIs
    <3> QED BY <1>p, <3>1, <3>2 DEF WAYPOINT_SPACING
  <2> QED BY <2>2, <2>3
<1> QED BY <1>p, <1>1, <1>2, <1>3, <1>4
LEMMA RingHasNoGaps ==
  ASSUME NEW b, NEW a, NEW c, IsBox(b, a, c), NEW r, IsRing(r, b, a, c)
  PROVE  /\ \A i \in 1 .. 2 * a + 2 * c - 1 : Apart(r[i], r[i + 1]) <= 39
         /\ Apart(r[2 * a + 2 * c], r[1]) <= 39
<1>b. /\ b.x0 \in Int /\ b.x1 \in Int /\ b.y0 \in Int /\ b.y1 \in Int
      /\ a \in Nat /\ c \in Nat /\ c >= 2
      /\ b.x0 < b.x1 /\ 20 * a <= b.x1 - b.x0 /\ b.x1 - b.x0 < 20 * a + 20
      /\ b.y0 < b.y1 /\ 20 * c <= b.y1 - b.y0 /\ b.y1 - b.y0 < 20 * c + 20
  BY DEF IsBox
<1>2. ASSUME NEW i \in 1 .. 2 * a + 2 * c - 1 PROVE Apart(r[i], r[i + 1]) <= 39
  <2>1. i \in DOMAIN r /\ i + 1 \in DOMAIN r /\ i \in Int
    <3>1. i \in 1 .. 2 * a + 2 * c /\ i + 1 \in 1 .. 2 * a + 2 * c
      BY <1>b
    <3> QED BY <3>1 DEF IsRing
  <2>2. PICK x, y \in Int :
          /\ r[i] = <<x, y>>
          /\ \/ i \in 1 .. a + 1 /\ x = b.x0 + (i - 1) * 20 /\ y = b.y0
             \/ i \in a + 2 .. a + c + 1 /\ x = b.x1 /\ y = b.y0 + (i - a - 1) * 20
             \/ /\ i \in a + c + 2 .. 2 * a + c + 1
                /\ x = b.x1 - (i - a - c - 1) * 20 /\ y = b.y1
             \/ /\ i \in 2 * a + c + 2 .. 2 * a + 2 * c
                /\ x = b.x0 /\ y = b.y1 - (i - 2 * a - c - 1) * 20
    BY <2>1, RingWaypoint
  <2>3. PICK u, v \in Int :
          /\ r[i + 1] = <<u, v>>
          /\ \/ i \in 0 .. a /\ u = b.x0 + i * 20 /\ v = b.y0
             \/ i \in a + 1 .. a + c /\ u = b.x1 /\ v = b.y0 + (i - a) * 20
             \/ /\ i \in a + c + 1 .. 2 * a + c
                /\ u = b.x1 - (i - a - c) * 20 /\ v = b.y1
             \/ /\ i \in 2 * a + c + 1 .. 2 * a + 2 * c - 1
                /\ u = b.x0 /\ v = b.y1 - (i - 2 * a - c) * 20
    <3>1. PICK u, v \in Int :
          /\ r[i + 1] = <<u, v>>
          /\ \/ i + 1 \in 1 .. a + 1 /\ u = b.x0 + ((i + 1) - 1) * 20 /\ v = b.y0
             \/ i + 1 \in a + 2 .. a + c + 1 /\ u = b.x1 /\ v = b.y0 + ((i + 1) - a - 1) * 20
             \/ /\ i + 1 \in a + c + 2 .. 2 * a + c + 1
                /\ u = b.x1 - ((i + 1) - a - c - 1) * 20 /\ v = b.y1
             \/ /\ i + 1 \in 2 * a + c + 2 .. 2 * a + 2 * c
                /\ u = b.x0 /\ v = b.y1 - ((i + 1) - 2 * a - c - 1) * 20
      BY <2>1, RingWaypoint
    <3> QED BY <1>b, <2>1, <3>1
  <2>4. x - u <= 39 /\ u - x <= 39 /\ y - v <= 39 /\ v - y <= 39
    BY <1>b, <2>1, <2>2, <2>3
  <2> QED BY <2>2, <2>3, <2>4, ApartIs
<1>3. Apart(r[2 * a + 2 * c], r[1]) <= 39
  <2>1. r[1] = <<b.x0, b.y0>>
    <3>1. 1 \in 1 .. a + 1 /\ b.x0 + (1 - 1) * 20 = b.x0
      BY <1>b
    <3> QED BY <3>1 DEF IsRing
  <2>2. r[2 * a + 2 * c] = <<b.x0, b.y1 - (c - 1) * 20>>
    <3>1. /\ 2 * a + 2 * c \in 2 * a + c + 2 .. 2 * a + 2 * c
          /\ (2 * a + 2 * c) - 2 * a - c - 1 = c - 1
      BY <1>b
    <3> QED BY <3>1 DEF IsRing
  <2> QED BY <1>b, <2>1, <2>2, ApartIs
<1> QED BY <1>2, <1>3

(* The other way round it is a ring as well.                               *)
LEMMA ReverseCloses ==
  ASSUME NEW n \in Nat, n > 0, NEW b, b.x0 \in Int, b.y0 \in Int,
         NEW S, NEW r \in Seq(S), Closes(r, b, n)
  PROVE  Closes(Reverse(r), b, n)
<1>1. Len(r) = n /\ DOMAIN r = 1 .. n
  BY DEF Closes
<1>2. DOMAIN Reverse(r) = 1 .. n /\ \A i \in 1 .. n : Reverse(r)[i] = r[n - i + 1]
  BY <1>1 DEF Reverse
<1>3. \A i \in 1 .. n : n - i + 1 \in 1 .. n /\ n - (n - i + 1) + 1 = i
  OBVIOUS
<1>4. IsInjective(Reverse(r))
  <2>1. ASSUME NEW i \in 1 .. n, NEW j \in 1 .. n, Reverse(r)[i] = Reverse(r)[j] PROVE i = j
    <3>1. r[n - i + 1] = r[n - j + 1]
      BY <1>2, <2>1
    <3>2. n - i + 1 = n - j + 1
      BY <1>1, <1>3, <3>1 DEF Closes, IsInjective
    <3> QED BY <3>2
  <2> QED BY <1>2, <2>1 DEF IsInjective
<1>5. \A i \in 1 .. n : Reverse(r)[i] \in Rim(b)
  BY <1>2, <1>3 DEF Closes
<1>6. ASSUME NEW p \in Rim(b)
      PROVE  \E i \in 1 .. n : Apart(p, Reverse(r)[i]) <= WAYPOINT_SPACING
  <2>1. PICK i \in 1 .. n : Apart(p, r[i]) <= WAYPOINT_SPACING
    BY DEF Closes
  <2>2. n - i + 1 \in 1 .. n /\ Reverse(r)[n - i + 1] = r[i]
    BY <1>2, <1>3
  <2> QED BY <2>1, <2>2
<1>7. ASSUME NEW i \in 1 .. n - 1
      PROVE  Apart(Reverse(r)[i], Reverse(r)[i + 1]) < 2 * WAYPOINT_SPACING
  <2>1. /\ n - i \in 1 .. n - 1 /\ n - i \in 1 .. n /\ (n - i) + 1 \in 1 .. n
        /\ i \in 1 .. n /\ i + 1 \in 1 .. n /\ n - (i + 1) + 1 = n - i
    OBVIOUS
  <2>2. Reverse(r)[i] = r[(n - i) + 1] /\ Reverse(r)[i + 1] = r[n - i]
    BY <1>2, <2>1
  <2>3. Apart(r[n - i], r[(n - i) + 1]) < 2 * WAYPOINT_SPACING
    BY <2>1 DEF Closes
  <2>4. r[n - i] \in Rim(b) /\ r[(n - i) + 1] \in Rim(b)
    BY <2>1 DEF Closes
  <2> QED BY <2>2, <2>3, <2>4, ApartIsSymmetric
<1>8. Apart(Reverse(r)[n], Reverse(r)[1]) < 2 * WAYPOINT_SPACING
  <2>1. Reverse(r)[n] = r[1] /\ Reverse(r)[1] = r[n]
    <3>1. n \in 1 .. n /\ 1 \in 1 .. n /\ n - n + 1 = 1 /\ n - 1 + 1 = n
      OBVIOUS
    <3> QED BY <1>2, <3>1
  <2> QED BY <2>1, ApartIsSymmetric DEF Closes
<1> QED BY <1>2, <1>4, <1>5, <1>6, <1>7, <1>8 DEF Closes

(* generate_perimeter_waypoints, as it is built.                           *)
LEMMA EdgesAreTheRing ==
  ASSUME NEW m \in Nat, 2 * m < ARENA_X_MAX - ARENA_X_MIN
  PROVE  \E a, c \in Nat : /\ IsBox(Box(m), a, c)
                            /\ Perimeter(m, -1) \in Seq(Int \X Int)
                            /\ IsRing(Perimeter(m, -1), Box(m), a, c)
<1> DEFINE a == (55 - 2 * m) \div 20
           c == (110 - 2 * m) \div 20
           b == Box(m)
<1>1. /\ b.x0 = 55 + m /\ b.x1 = 110 - m /\ b.y0 = m /\ b.y1 = 110 - m
  BY DEF Box, ARENA_X_MIN, ARENA_X_MAX, ARENA_Y_MIN, ARENA_Y_MAX
<1>2. /\ m \in Int /\ 2 * m < 55 /\ a \in Nat /\ c \in Nat /\ c >= 2
      /\ 20 * a <= 55 - 2 * m /\ 55 - 2 * m < 20 * a + 20
      /\ 20 * c <= 110 - 2 * m /\ 110 - 2 * m < 20 * c + 20
  BY DEF ARENA_X_MIN, ARENA_X_MAX
<1> HIDE DEF a, c
<1>3. IsBox(b, a, c)
  BY <1>1, <1>2 DEF IsBox
<1> DEFINE A == AtY(Upward(b.x0, b.x1), b.y0)
           B == AtX(b.x1, Upward(b.y0 + WAYPOINT_SPACING, b.y1))
           C == AtY(Downward(b.x1 - WAYPOINT_SPACING, b.x0), b.y1)
           D == LeftEdge(b)
<1>d. /\ \A l \in Int : (l \div 20) \in Int /\ (l - 20) \div 20 = l \div 20 - 1
  OBVIOUS
<1>4. /\ A \in Seq(Int \X Int) /\ Len(A) = a + 1
      /\ \A i \in 1 .. a + 1 : A[i] = <<b.x0 + (i - 1) * 20, b.y0>>
  <2>1. Upward(b.x0, b.x1) = [l \in 1 .. a + 1 |-> b.x0 + (l - 1) * 20]
    BY <1>1, <1>2 DEF Upward, WAYPOINT_SPACING, a
  <2>2. A = [l \in 1 .. a + 1 |-> <<b.x0 + (l - 1) * 20, b.y0>>]
    BY <2>1 DEF AtY
  <2> HIDE DEF A
  <2> QED BY <1>1, <1>2, <2>2
<1>5. /\ B \in Seq(Int \X Int) /\ Len(B) = c
      /\ \A i \in 1 .. c : B[i] = <<b.x1, b.y0 + i * 20>>
  <2>1. Upward(b.y0 + WAYPOINT_SPACING, b.y1) = [l \in 1 .. c |-> b.y0 + 20 + (l - 1) * 20]
    <3>1. ~(b.y1 < b.y0 + 20) /\ (b.y1 - (b.y0 + 20)) \div 20 + 1 = c
      BY <1>1, <1>2 DEF c
    <3> QED BY <3>1 DEF Upward, WAYPOINT_SPACING
  <2>2. B = [l \in 1 .. c |-> <<b.x1, b.y0 + 20 + (l - 1) * 20>>]
    BY <2>1 DEF AtX
  <2> HIDE DEF B
  <2> QED BY <1>1, <1>2, <2>2
<1>6. /\ C \in Seq(Int \X Int) /\ Len(C) = a
      /\ \A i \in 1 .. a : C[i] = <<b.x1 - i * 20, b.y1>>
  <2>1. Downward(b.x1 - WAYPOINT_SPACING, b.x0) = [l \in 1 .. a |-> b.x1 - 20 - (l - 1) * 20]
    <3>1. (IF b.x1 - 20 < b.x0 THEN 0 ELSE ((b.x1 - 20) - b.x0) \div 20 + 1) = a
      BY <1>1, <1>2 DEF a
    <3> QED BY <3>1 DEF Downward, WAYPOINT_SPACING
  <2>2. C = [l \in 1 .. a |-> <<b.x1 - 20 - (l - 1) * 20, b.y1>>]
    BY <2>1 DEF AtY
  <2> HIDE DEF C
  <2> QED BY <1>1, <1>2, <2>2
<1>7. /\ D \in Seq(Int \X Int) /\ Len(D) = c - 1
      /\ \A i \in 1 .. c - 1 : D[i] = <<b.x0, b.y1 - i * 20>>
  <2>1. Downward(b.y1 - WAYPOINT_SPACING, b.y0 + WAYPOINT_SPACING)
          = [l \in 1 .. c - 1 |-> b.y1 - 20 - (l - 1) * 20]
    <3>1. ~(b.y1 - 20 < b.y0 + 20) /\ ((b.y1 - 20) - (b.y0 + 20)) \div 20 + 1 = c - 1
      BY <1>1, <1>2 DEF c
    <3> QED BY <3>1 DEF Downward, WAYPOINT_SPACING
  <2>2. D = [l \in 1 .. c - 1 |-> <<b.x0, b.y1 - 20 - (l - 1) * 20>>]
    BY <2>1 DEF LeftEdge, AtX
  <2> HIDE DEF D
  <2> QED BY <1>1, <1>2, <2>2
<1>8. Perimeter(m, -1) = ((A \o B) \o C) \o D
  BY DEF Perimeter
<1> HIDE DEF A, B, C, D
<1> DEFINE AB == A \o B
           ABC == AB \o C
           r == ABC \o D
<1>9. /\ AB \in Seq(Int \X Int) /\ Len(AB) = a + c + 1
      /\ \A i \in 1 .. a + c + 1 : AB[i] = IF i <= a + 1 THEN A[i] ELSE B[i - (a + 1)]
  <2>1. /\ AB \in Seq(Int \X Int) /\ Len(AB) = Len(A) + Len(B)
        /\ \A i \in 1 .. Len(A) + Len(B) :
             AB[i] = IF i <= Len(A) THEN A[i] ELSE B[i - Len(A)]
    BY <1>4, <1>5, ConcatProperties
  <2> HIDE DEF AB
  <2>2. Len(A) = a + 1 /\ Len(A) + Len(B) = a + c + 1
    BY <1>2, <1>4, <1>5
  <2> QED BY <2>1, <2>2
<1> HIDE DEF AB
<1>10. /\ ABC \in Seq(Int \X Int) /\ Len(ABC) = 2 * a + c + 1
       /\ \A i \in 1 .. 2 * a + c + 1 :
            ABC[i] = IF i <= a + c + 1 THEN AB[i] ELSE C[i - (a + c + 1)]
  <2>1. /\ ABC \in Seq(Int \X Int) /\ Len(ABC) = Len(AB) + Len(C)
        /\ \A i \in 1 .. Len(AB) + Len(C) :
             ABC[i] = IF i <= Len(AB) THEN AB[i] ELSE C[i - Len(AB)]
    BY <1>9, <1>6, ConcatProperties
  <2> HIDE DEF ABC
  <2>2. Len(AB) = a + c + 1 /\ Len(AB) + Len(C) = 2 * a + c + 1
    BY <1>2, <1>9, <1>6
  <2> QED BY <2>1, <2>2
<1> HIDE DEF ABC
<1>11. /\ r \in Seq(Int \X Int) /\ Len(r) = 2 * a + 2 * c
       /\ \A i \in 1 .. 2 * a + 2 * c :
            r[i] = IF i <= 2 * a + c + 1 THEN ABC[i] ELSE D[i - (2 * a + c + 1)]
  <2>1. /\ r \in Seq(Int \X Int) /\ Len(r) = Len(ABC) + Len(D)
        /\ \A i \in 1 .. Len(ABC) + Len(D) :
             r[i] = IF i <= Len(ABC) THEN ABC[i] ELSE D[i - Len(ABC)]
    BY <1>10, <1>7, ConcatProperties
  <2> HIDE DEF r
  <2>2. Len(ABC) = 2 * a + c + 1 /\ Len(ABC) + Len(D) = 2 * a + 2 * c
    BY <1>2, <1>10, <1>7
  <2> QED BY <2>1, <2>2
<1> HIDE DEF r
<1>12. IsRing(r, b, a, c)
  <2>1. DOMAIN r = 1 .. 2 * a + 2 * c
    BY <1>11
  <2>2. ASSUME NEW i \in 1 .. a + 1 PROVE r[i] = <<b.x0 + (i - 1) * 20, b.y0>>
    <3>1. /\ i \in 1 .. 2 * a + 2 * c /\ i <= 2 * a + c + 1 /\ i \in 1 .. 2 * a + c + 1
          /\ i <= a + c + 1 /\ i \in 1 .. a + c + 1 /\ i <= a + 1
      BY <1>2
    <3> QED BY <1>4, <1>9, <1>10, <1>11, <3>1
  <2>3. ASSUME NEW i \in a + 2 .. a + c + 1 PROVE r[i] = <<b.x1, b.y0 + (i - a - 1) * 20>>
    <3>1. /\ i \in 1 .. 2 * a + 2 * c /\ i <= 2 * a + c + 1 /\ i \in 1 .. 2 * a + c + 1
          /\ i <= a + c + 1 /\ i \in 1 .. a + c + 1 /\ ~(i <= a + 1)
          /\ i - (a + 1) \in 1 .. c /\ i - (a + 1) = i - a - 1
      BY <1>2
    <3> QED BY <1>5, <1>9, <1>10, <1>11, <3>1
  <2>4. ASSUME NEW i \in a + c + 2 .. 2 * a + c + 1
        PROVE  r[i] = <<b.x1 - (i - a - c - 1) * 20, b.y1>>
    <3>1. /\ i \in 1 .. 2 * a + 2 * c /\ i <= 2 * a + c + 1 /\ i \in 1 .. 2 * a + c + 1
          /\ ~(i <= a + c + 1)
          /\ i - (a + c + 1) \in 1 .. a /\ i - (a + c + 1) = i - a - c - 1
      BY <1>2
    <3> QED BY <1>6, <1>10, <1>11, <3>1
  <2>5. ASSUME NEW i \in 2 * a + c + 2 .. 2 * a + 2 * c
        PROVE  r[i] = <<b.x0, b.y1 - (i - 2 * a - c - 1) * 20>>
    <3>1. /\ i \in 1 .. 2 * a + 2 * c /\ ~(i <= 2 * a + c + 1)
          /\ i - (2 * a + c + 1) \in 1 .. c - 1 /\ i - (2 * a + c + 1) = i - 2 * a - c - 1
      BY <1>2
    <3> QED BY <1>7, <1>11, <3>1
  <2> QED BY <2>1, <2>2, <2>3, <2>4, <2>5 DEF IsRing
<1>13. Perimeter(m, -1) = r
  BY <1>8 DEF r, ABC, AB
<1> HIDE DEF b
<1> QED BY <1>2, <1>3, <1>11, <1>12, <1>13 DEF b

(* Whatever the margin, the ring closes, either way round.                 *)
LEMMA EveryRingCloses ==
  ASSUME NEW m \in Nat, 2 * m < ARENA_X_MAX - ARENA_X_MIN, NEW dir \in {-1, 1}
  PROVE  \E n \in Nat : /\ n > 0 /\ Perimeter(m, dir) \in Seq(Int \X Int)
                        /\ Closes(Perimeter(m, dir), Box(m), n)
<1> DEFINE r == Perimeter(m, -1)
           b == Box(m)
<1>1. PICK a, c \in Nat : IsBox(b, a, c) /\ r \in Seq(Int \X Int) /\ IsRing(r, b, a, c)
  BY EdgesAreTheRing
<1> HIDE DEF r, b
<1>2. 2 * a + 2 * c \in Nat /\ 2 * a + 2 * c > 0
  BY <1>1 DEF IsBox
<1>3. Closes(r, b, 2 * a + 2 * c)
  <2>1. DOMAIN r = 1 .. 2 * a + 2 * c
    BY <1>1 DEF IsRing
  <2>2. /\ IsInjective(r) /\ \A i \in DOMAIN r : r[i] \in Rim(b)
        /\ \A p \in Rim(b) : \E i \in DOMAIN r : Apart(p, r[i]) <= WAYPOINT_SPACING
        /\ \A i \in 1 .. 2 * a + 2 * c - 1 : Apart(r[i], r[i + 1]) <= 39
        /\ Apart(r[2 * a + 2 * c], r[1]) <= 39
    BY <1>1, RingIsInjective, RingIsOnTheRim, RingPassesEverywhere,
      RingHasNoGaps
  <2>3. \A p, q \in Rim(b) : Apart(p, q) <= 39 => Apart(p, q) < 2 * WAYPOINT_SPACING
    <3>1. b.x0 \in Int /\ b.y0 \in Int
      BY <1>1 DEF IsBox
    <3>2. \A p, q \in Rim(b) : Apart(p, q) \in Int
      BY <3>1, ApartIsSymmetric
    <3> QED BY <3>2 DEF WAYPOINT_SPACING
  <2>4. /\ \A i \in 1 .. 2 * a + 2 * c - 1 : i \in DOMAIN r /\ i + 1 \in DOMAIN r
        /\ 1 \in DOMAIN r /\ 2 * a + 2 * c \in DOMAIN r
    BY <1>2, <2>1
  <2>5. \A i \in 1 .. 2 * a + 2 * c - 1 : Apart(r[i], r[i + 1]) < 2 * WAYPOINT_SPACING
    BY <2>2, <2>3, <2>4
  <2>6. Apart(r[2 * a + 2 * c], r[1]) < 2 * WAYPOINT_SPACING
    BY <2>2, <2>3, <2>4
  <2>7. /\ \A i \in 1 .. 2 * a + 2 * c : r[i] \in Rim(b)
        /\ \A p \in Rim(b) : \E i \in 1 .. 2 * a + 2 * c : Apart(p, r[i]) <= WAYPOINT_SPACING
    BY <2>1, <2>2
  <2>8. IsInjective(r)
    BY <2>2
  <2> QED BY <2>1, <2>5, <2>6, <2>7, <2>8 DEF Closes
<1>4. CASE dir = -1
  BY <1>1, <1>2, <1>3, <1>4 DEF r, b
<1>5. CASE dir = 1
  <2>1. Perimeter(m, dir) = Reverse(r)
    BY <1>5 DEF Perimeter, r
  <2>2. Closes(Reverse(r), b, 2 * a + 2 * c)
    <3>1. b.x0 \in Int /\ b.y0 \in Int
      BY <1>1 DEF IsBox
    <3> QED BY <1>1, <1>2, <1>3, <3>1, ReverseCloses
  <2>3. Reverse(r) \in Seq(Int \X Int)
    BY <1>1, ReverseIsSeq
  <2> QED BY <1>2, <2>1, <2>2, <2>3 DEF b
<1> QED BY <1>4, <1>5

LEMMA RingCloses ==
  ASSUME lap.margin \in Margins, lap.dir \in {-1, 1}
  PROVE  RingIsClosed
<1> DEFINE r == Perimeter(lap.margin, lap.dir)
           b == Box(lap.margin)
<1>1. PICK n \in Nat : n > 0 /\ r \in Seq(Int \X Int) /\ Closes(r, b, n)
  BY LapAssumption, EveryRingCloses
<1> HIDE DEF r, b
<1>2. DOMAIN r = 1 .. n /\ Len(r) = n /\ r # <<>>
  BY <1>1 DEF Closes
<1>3. ASSUME NEW i \in 1 .. n PROVE Apart(r[i], r[(i % n) + 1]) < 2 * WAYPOINT_SPACING
  <2>1. CASE i = n
    <3>1. (i % n) + 1 = 1
      BY <1>1, <2>1, ModOfSelf
    <3>2. Apart(r[n], r[1]) < 2 * WAYPOINT_SPACING
      BY <1>1 DEF Closes
    <3> QED BY <2>1, <3>1, <3>2
  <2>2. CASE i < n
    <3>1. i % n = i
      BY <1>1, <2>2, ModOfLess
    <3>2. i \in 1 .. n - 1
      BY <2>2
    <3> QED BY <1>1, <3>1, <3>2 DEF Closes
  <2> QED BY <2>1, <2>2
<1> QED BY <1>1, <1>2, <1>3 DEF RingIsClosed, Ring, Closes, r, b

(* The sensors say yes or no, and the drone goes round one way or the      *)
(* other.                                                                  *)
LapTypes ==
  /\ lap = [margin |-> lap.margin, dir |-> lap.dir, idx |-> lap.idx, doing |-> lap.doing]
  /\ lap.margin \in Margins /\ lap.dir \in {-1, 1}
  /\ lap.doing \in {"ground", "fly", "spin"}
  /\ lap.idx \in Nat

(* The camera has seen an arc from where the turn began to where it looks  *)
(* now, and the arc is at least as wide as it is counted.                  *)
ArcSeen ==
  lap.doing = "spin" \/ spun.seen # {} =>
    \E from \in 0 .. Around - 1, wide \in Nat :
      /\ spun.total \in Nat /\ spun.total <= wide
      /\ spun.seen = {(from + t) % Around : t \in 0 .. wide}
      /\ spun.yaw = (from + wide) % Around

TurnDone == lap.doing = "fly" /\ spun.seen # {} => spun.total >= Around

GroundUnseen == lap.doing = "ground" => spun.seen = {}

YawIs == spun.yaw \in 0 .. Around - 1

LapInd == LapTypes /\ ArcSeen /\ TurnDone /\ GroundUnseen /\ YawIs /\ SteersClear

(* compute_avoidance *)
LEMMA AvoidanceClears ==
  ASSUME NEW front \in BOOLEAN, NEW left \in BOOLEAN, NEW right \in BOOLEAN,
         NEW dir \in {-1, 1}, front \/ left \/ right
  PROVE  LET c == ComputeAvoidance(front, left, right, dir)
         IN /\ front => c[1] <= 0
            /\ ~(left /\ c[2] < 0) /\ ~(right /\ c[2] > 0)
            /\ c # <<0, 0>>
<1>1. CASE front = TRUE /\ left = TRUE /\ right = TRUE
  BY <1>1 DEF ComputeAvoidance
<1>2. CASE front = TRUE /\ left = TRUE /\ right = FALSE
  BY <1>2 DEF ComputeAvoidance
<1>3. CASE front = TRUE /\ left = FALSE /\ right = TRUE
  BY <1>3 DEF ComputeAvoidance
<1>4. CASE front = TRUE /\ left = FALSE /\ right = FALSE
  BY <1>4 DEF ComputeAvoidance
<1>5. CASE front = FALSE /\ left = TRUE /\ right = TRUE
  BY <1>5 DEF ComputeAvoidance
<1>6. CASE front = FALSE /\ left = TRUE /\ right = FALSE
  BY <1>6 DEF ComputeAvoidance
<1>7. CASE front = FALSE /\ left = FALSE /\ right = TRUE
  BY <1>7 DEF ComputeAvoidance
<1> QED BY <1>1, <1>2, <1>3, <1>4, <1>5, <1>6, <1>7, Zenon

(* A turn is never counted further than it was.                            *)
LEMMA DeltaIsNoMore ==
  ASSUME NEW y \in 0 .. Around - 1, NEW turn \in Nat
  PROVE  Delta(y + turn, y) \in Nat /\ Delta(y + turn, y) <= turn
BY DEF Delta, Around

(* navigate_to *)
LEMMA HeadsThere ==
  ASSUME NEW yaw \in 0 .. Around - 1, yaw % 3 = 0,
         NEW dx \in -1 .. 1, NEW dy \in -1 .. 1
  PROVE  LET f == Forward(yaw \div 3)
             c == NavigateTo(dx, dy, yaw \div 3)
         IN << c[1] * f[1] - c[2] * f[2], c[1] * f[2] + c[2] * f[1] >> = <<dx, dy>>
<1>1. yaw \div 3 \in 0 .. 3
  BY DEF Around
<1> DEFINE q == yaw \div 3
<1> SUFFICES LET f == Forward(q)
                 c == NavigateTo(dx, dy, q)
             IN << c[1] * f[1] - c[2] * f[2], c[1] * f[2] + c[2] * f[1] >> = <<dx, dy>>
  OBVIOUS
<1>q. q \in 0 .. 3
  BY <1>1
<1> HIDE DEF q
<1>c. /\ Cosine(0) = 1 /\ Cosine(1) = 0 /\ Cosine(2) = -1 /\ Cosine(3) = 0
      /\ Sine(0) = 0 /\ Sine(1) = 1 /\ Sine(2) = 0 /\ Sine(3) = -1
  BY DEF Cosine, Sine
<1>2. CASE q = 0
  <2>1. Forward(q) = <<1, 0>>
    BY <1>c, <1>2 DEF Forward
  <2>2. NavigateTo(dx, dy, q) = <<dx, dy>>
    <3>1. (4 - q) % 4 = 0
      BY <1>2
    <3> QED BY <1>c, <3>1 DEF NavigateTo
  <2>3. /\ Forward(q)[1] = 1 /\ Forward(q)[2] = 0
        /\ NavigateTo(dx, dy, q)[1] = dx /\ NavigateTo(dx, dy, q)[2] = dy
    BY <2>1, <2>2
  <2>4. /\ dx * 1 - dy * 0 = dx
        /\ dx * 0 + dy * 1 = dy
    OBVIOUS
  <2> QED BY <2>3, <2>4
<1>3. CASE q = 1
  <2>1. Forward(q) = <<0, -1>>
    BY <1>c, <1>3 DEF Forward
  <2>2. NavigateTo(dx, dy, q) = <<-dy, dx>>
    <3>1. (4 - q) % 4 = 3
      BY <1>3
    <3> QED BY <1>c, <3>1 DEF NavigateTo
  <2>3. /\ Forward(q)[1] = 0 /\ Forward(q)[2] = -1
        /\ NavigateTo(dx, dy, q)[1] = -dy /\ NavigateTo(dx, dy, q)[2] = dx
    BY <2>1, <2>2
  <2>4. /\ (-dy) * 0 - dx * (-1) = dx
        /\ (-dy) * (-1) + dx * 0 = dy
    OBVIOUS
  <2> QED BY <2>3, <2>4
<1>4. CASE q = 2
  <2>1. Forward(q) = <<-1, 0>>
    BY <1>c, <1>4 DEF Forward
  <2>2. NavigateTo(dx, dy, q) = <<-dx, -dy>>
    <3>1. (4 - q) % 4 = 2
      BY <1>4
    <3> QED BY <1>c, <3>1 DEF NavigateTo
  <2>3. /\ Forward(q)[1] = -1 /\ Forward(q)[2] = 0
        /\ NavigateTo(dx, dy, q)[1] = -dx /\ NavigateTo(dx, dy, q)[2] = -dy
    BY <2>1, <2>2
  <2>4. /\ (-dx) * (-1) - (-dy) * 0 = dx
        /\ (-dx) * 0 + (-dy) * (-1) = dy
    OBVIOUS
  <2> QED BY <2>3, <2>4
<1>5. CASE q = 3
  <2>1. Forward(q) = <<0, 1>>
    BY <1>c, <1>5 DEF Forward
  <2>2. NavigateTo(dx, dy, q) = <<dy, -dx>>
    <3>1. (4 - q) % 4 = 1
      BY <1>5
    <3> QED BY <1>c, <3>1 DEF NavigateTo
  <2>3. /\ Forward(q)[1] = 0 /\ Forward(q)[2] = 1
        /\ NavigateTo(dx, dy, q)[1] = dy /\ NavigateTo(dx, dy, q)[2] = -dx
    BY <2>1, <2>2
  <2>4. /\ dy * 0 - (-dx) * 1 = dx
        /\ dy * 1 + (-dx) * 0 = dy
    OBVIOUS
  <2> QED BY <2>3, <2>4
<1> QED BY <1>q, <1>2, <1>3, <1>4, <1>5

LEMMA SpinKeeps == LapInd /\ SpinOn => LapInd'
<1> SUFFICES ASSUME LapInd, SpinOn PROVE LapInd'
  OBVIOUS
<1>1. PICK turn \in Turns :
        /\ spun' = [total |-> spun.total + Delta(spun.yaw + turn, spun.yaw),
                    yaw |-> (spun.yaw + turn) % Around,
                    seen |-> spun.seen \cup {(spun.yaw + t) % Around : t \in 0 .. turn}]
        /\ lap' = IF spun'.total >= FullTurn THEN [lap EXCEPT !.doing = "fly", !.idx = @ + 1]
                  ELSE lap
  BY DEF SpinOn
<1>2. lap.doing = "spin" /\ UNCHANGED steer
  BY DEF SpinOn
<1>3. turn \in Nat /\ spun.yaw \in 0 .. Around - 1 /\ spun.yaw \in Nat
  BY LapAssumption DEF LapInd, YawIs, Around
<1>4. PICK from \in 0 .. Around - 1, wide \in Nat :
        /\ spun.total \in Nat /\ spun.total <= wide
        /\ spun.seen = {(from + t) % Around : t \in 0 .. wide}
        /\ spun.yaw = (from + wide) % Around
  BY <1>2 DEF LapInd, ArcSeen
<1>5. /\ Delta(spun.yaw + turn, spun.yaw) \in Nat
      /\ Delta(spun.yaw + turn, spun.yaw) <= turn
  BY <1>3, DeltaIsNoMore
<1>6. /\ spun'.total = spun.total + Delta(spun.yaw + turn, spun.yaw)
      /\ spun'.yaw = (spun.yaw + turn) % Around
      /\ spun'.seen = spun.seen \cup {(spun.yaw + t) % Around : t \in 0 .. turn}
  BY <1>1
<1>7. spun'.seen = {(from + t) % Around : t \in 0 .. wide + turn}
  <2>1. ASSUME NEW t \in 0 .. turn
        PROVE  (spun.yaw + t) % Around = (from + (wide + t)) % Around
    BY <1>3, <1>4, <2>1 DEF Around
  <2>2. ASSUME NEW x \in spun'.seen
        PROVE  x \in {(from + t) % Around : t \in 0 .. wide + turn}
    <3>1. CASE x \in spun.seen
      BY <1>3, <1>4, <3>1
    <3>2. CASE x \in {(spun.yaw + t) % Around : t \in 0 .. turn}
      <4>1. PICK t \in 0 .. turn : x = (from + (wide + t)) % Around
        BY <2>1, <3>2
      <4>2. wide + t \in 0 .. wide + turn
        BY <1>3, <1>4
      <4> QED BY <4>1, <4>2
    <3> QED BY <1>6, <2>2, <3>1, <3>2
  <2>3. ASSUME NEW s \in 0 .. wide + turn
        PROVE  (from + s) % Around \in spun'.seen
    <3>1. CASE s <= wide
      BY <1>3, <1>4, <1>6, <3>1
    <3>2. CASE s > wide
      <4>1. s - wide \in 0 .. turn /\ wide + (s - wide) = s
        BY <1>3, <1>4, <3>2
      <4>2. (spun.yaw + (s - wide)) % Around = (from + s) % Around
        BY <2>1, <4>1
      <4> QED BY <1>6, <4>1, <4>2
    <3> QED BY <1>3, <1>4, <3>1, <3>2
  <2> QED BY <2>2, <2>3
<1>8. /\ spun'.total \in Nat /\ spun'.total <= wide + turn /\ wide + turn \in Nat
      /\ spun'.yaw = (from + (wide + turn)) % Around
      /\ spun'.yaw \in 0 .. Around - 1
  <2>1. /\ spun'.total \in Nat /\ spun'.total <= wide + turn /\ wide + turn \in Nat
    BY <1>3, <1>4, <1>5, <1>6
  <2>2. /\ spun'.yaw = (from + (wide + turn)) % Around
        /\ spun'.yaw \in 0 .. Around - 1
    BY <1>3, <1>4, <1>6 DEF Around
  <2> QED BY <2>1, <2>2
<1>9. ArcSeen' /\ YawIs'
  BY <1>7, <1>8 DEF ArcSeen, YawIs
<1>10. LapTypes' /\ lap'.doing # "ground"
      /\ (lap'.doing = "fly" => spun'.total >= Around)
  <2>1. CASE spun'.total >= FullTurn
    <3>1. lap' = [[lap EXCEPT !.doing = "fly"] EXCEPT !.idx = lap.idx + 1]
      BY <1>1, <2>1
    <3>2. spun'.total >= Around
      BY <2>1 DEF FullTurn
    <3>t. /\ lap = [margin |-> lap.margin, dir |-> lap.dir, idx |-> lap.idx,
                    doing |-> lap.doing]
          /\ lap.margin \in Margins /\ lap.dir \in {-1, 1} /\ lap.idx \in Nat
      BY DEF LapInd, LapTypes
    <3>4. lap' = [margin |-> lap.margin, dir |-> lap.dir, idx |-> lap.idx + 1,
                  doing |-> "fly"]
      BY <3>1, <3>t
    <3>5. lap.idx + 1 \in Nat
      BY <3>t
    <3>3. LapTypes' /\ lap'.doing # "ground"
      BY <3>4, <3>5, <3>t DEF LapTypes
    <3> QED BY <3>2, <3>3
  <2>2. CASE ~(spun'.total >= FullTurn)
    BY <1>1, <1>2, <2>2 DEF LapInd, LapTypes
  <2> QED BY <2>1, <2>2
<1>11. SteersClear'
  BY <1>2 DEF LapInd, SteersClear
<1> QED BY <1>9, <1>10, <1>11 DEF LapInd, TurnDone, GroundUnseen

LEMMA LapInitInd == LapInit => LapInd
<1> SUFFICES ASSUME LapInit PROVE LapInd
  OBVIOUS
<1>1. LapTypes /\ ArcSeen /\ TurnDone /\ GroundUnseen /\ YawIs
  BY DEF LapInit, LapTypes, ArcSeen, TurnDone, GroundUnseen, YawIs, Around
<1>2. SteersClear
  BY DEF LapInit, SteersClear
<1> QED BY <1>1, <1>2 DEF LapInd

LEMMA LapStep == LapInd /\ LapNext => LapInd'
<1> SUFFICES ASSUME LapInd, LapNext PROVE LapInd'
  OBVIOUS
<1>1. CASE BeginLap
  <2>1. /\ lap.doing = "ground" /\ lap' = [lap EXCEPT !.doing = "fly"] /\ UNCHANGED <<spun, steer>>
        /\ spun.seen = {}
    BY <1>1 DEF BeginLap, LapInd, GroundUnseen
  <2> QED BY <2>1 DEF LapInd, LapTypes, ArcSeen, TurnDone, GroundUnseen,
    YawIs, SteersClear, GroundUnseen
<1>2. CASE Avoid
  <2>1. PICK front, left, right \in BOOLEAN :
          /\ front \/ left \/ right
          /\ steer' = [front |-> front, left |-> left, right |-> right,
                       cmd |-> ComputeAvoidance(front, left, right, lap.dir)]
    BY <1>2 DEF Avoid
  <2>2. UNCHANGED <<lap, spun>>
    BY <1>2 DEF Avoid
  <2>3. SteersClear'
    <3>1. LET c == ComputeAvoidance(front, left, right, lap.dir)
          IN /\ front => c[1] <= 0
             /\ ~(left /\ c[2] < 0) /\ ~(right /\ c[2] > 0)
             /\ c # <<0, 0>>
      BY <2>1, AvoidanceClears DEF LapInd, LapTypes
    <3> HIDE DEF ComputeAvoidance
    <3> QED BY <2>1, <3>1 DEF SteersClear
  <2> QED BY <2>2, <2>3 DEF LapInd, LapTypes, ArcSeen, TurnDone, GroundUnseen,
    YawIs
<1>3. CASE ArriveAtWaypoint
  <2>1. /\ lap.doing = "fly" /\ steer' = steer
        /\ \/ lap' = [lap EXCEPT !.idx = lap.idx + 1] /\ spun' = spun
           \/ /\ lap' = [lap EXCEPT !.doing = "spin"]
              /\ spun' = [total |-> 0, yaw |-> spun.yaw, seen |-> {spun.yaw}]
    BY <1>3 DEF ArriveAtWaypoint
  <2>2. CASE spun' = spun /\ lap' = [lap EXCEPT !.idx = lap.idx + 1]
    BY <2>1, <2>2 DEF LapInd, LapTypes, ArcSeen, TurnDone, GroundUnseen,
      YawIs, SteersClear
  <2>3. CASE /\ lap' = [lap EXCEPT !.doing = "spin"]
             /\ spun' = [total |-> 0, yaw |-> spun.yaw, seen |-> {spun.yaw}]
    <3>1. /\ spun'.total = 0 /\ spun'.yaw = spun.yaw /\ spun'.seen = {spun.yaw}
          /\ spun.yaw \in 0 .. Around - 1
      BY <2>3 DEF LapInd, YawIs
    <3>2. spun.yaw = (spun.yaw + 0) % Around
      BY <3>1 DEF Around
    <3>3. {spun.yaw} = {(spun.yaw + t) % Around : t \in 0 .. 0}
      BY <3>2
    <3>4. ArcSeen'
      <4>1. 0 \in Nat /\ 0 <= 0 /\ 0 \in 0 .. 0
        OBVIOUS
      <4>2. \E from \in 0 .. Around - 1, wide \in Nat :
              /\ spun'.total \in Nat /\ spun'.total <= wide
              /\ spun'.seen = {(from + t) % Around : t \in 0 .. wide}
              /\ spun'.yaw = (from + wide) % Around
        <5>1. spun.yaw \in 0 .. Around - 1
          BY <3>1
        <5> WITNESS spun.yaw \in 0 .. Around - 1, 0 \in Nat
        <5> QED BY <3>1, <3>2, <3>3
      <4> QED BY <4>2 DEF ArcSeen
    <3>5. LapTypes' /\ TurnDone' /\ GroundUnseen' /\ YawIs' /\ SteersClear'
      BY <2>1, <2>3, <3>1 DEF LapInd, LapTypes, TurnDone, GroundUnseen, YawIs,
        SteersClear
    <3> QED BY <3>4, <3>5 DEF LapInd
  <2> QED BY <2>1, <2>2, <2>3
<1>4. CASE SpinOn
  BY <1>4, SpinKeeps
<1> QED BY <1>1, <1>2, <1>3, <1>4 DEF LapNext

LEMMA ArcIsRound ==
  ASSUME NEW from \in 0 .. Around - 1, NEW wide \in Nat, wide >= Around
  PROVE  {(from + t) % Around : t \in 0 .. wide} = 0 .. Around - 1
<1>1. ASSUME NEW x \in 0 .. Around - 1
      PROVE  \E t \in 0 .. wide : x = (from + t) % Around
  <2>1. CASE x >= from
    <3>1. x - from \in 0 .. wide /\ x = (from + (x - from)) % Around
      BY <2>1 DEF Around
    <3> QED BY <3>1
  <2>2. CASE x < from
    <3>1. x + Around - from \in 0 .. wide /\ x = (from + (x + Around - from)) % Around
      BY <2>2 DEF Around
    <3> QED BY <3>1
  <2> QED BY <2>1, <2>2
<1>2. \A t \in 0 .. wide : (from + t) % Around \in 0 .. Around - 1
  BY DEF Around
<1> QED BY <1>1, <1>2

(* However many yaws are read and whatever the sensors see, the lap has no *)
(* gaps: its ring closes for every margin the arena has room for.          *)
THEOREM LapHasNoGaps == LapSpec => []LapInv
<1>1. LapInd /\ UNCHANGED lapVars => LapInd'
  BY DEF lapVars, LapInd, LapTypes, ArcSeen, TurnDone, GroundUnseen, YawIs,
    SteersClear
<1>2. LapInd => LapInv
  <2> SUFFICES ASSUME LapInd PROVE RingIsClosed /\ HeadsForTarget /\ SpinLooksRound
    BY DEF LapInd, LapInv
  <2>1. HeadsForTarget
    BY HeadsThere DEF LapInd, YawIs, HeadsForTarget
  <2>2. SpinLooksRound
    <3> SUFFICES ASSUME lap.doing = "fly", spun.seen # {}
                 PROVE  spun.seen = 0 .. Around - 1
      BY DEF SpinLooksRound
    <3>1. PICK from \in 0 .. Around - 1, wide \in Nat :
            /\ spun.total \in Nat /\ spun.total <= wide
            /\ spun.seen = {(from + t) % Around : t \in 0 .. wide}
      BY DEF LapInd, ArcSeen
    <3>2. wide >= Around
      BY <3>1 DEF LapInd, TurnDone, Around
    <3> QED BY <3>1, <3>2, ArcIsRound
  <2>3. RingIsClosed
    BY RingCloses DEF LapInd, LapTypes
  <2> QED BY <2>1, <2>2, <2>3
<1> QED BY <1>1, <1>2, LapInitInd, LapStep, PTL DEF LapSpec

-----------------------------------------------------------------------------
(* BenchModes.                                                             *)

(* The route *)

LEMMA ExtremesExist ==
  ASSUME NEW f, NEW m \in Nat, m > 0, \A i \in 1 .. m : f[i] \in Int
  PROVE  /\ \E i \in 1 .. m : \A j \in 1 .. m : f[i] <= f[j]
         /\ \E i \in 1 .. m : \A j \in 1 .. m : f[i] >= f[j]
<1> DEFINE Less == {p \in Nat \X Nat : p[1] < p[2]}
           Low(l) == \E i \in 1 .. l : \A j \in 1 .. l : f[i] <= f[j]
           High(l) == \E i \in 1 .. l : \A j \in 1 .. l : f[i] >= f[j]
           Bad == {l \in 1 .. m : ~(Low(l) /\ High(l))}
<1>1. CASE Bad = {}
  <2>1. m \in 1 .. m
    OBVIOUS
  <2>2. Low(m) /\ High(m)
    <3> HIDE DEF Low, High
    <3> QED BY <1>1, <2>1
  <2> QED BY <2>2
<1>2. CASE Bad # {}
  <2>1. IsWellFoundedOn(Less, Nat)
    BY NatLessThanWellFounded DEF OpToRel
  <2>2. PICK l \in Bad : \A j \in Bad : ~(<<j, l>> \in Less)
    <3>1. Bad \subseteq Nat
      OBVIOUS
    <3> HIDE DEF Bad, Less
    <3> QED BY <1>2, <2>1, <3>1, WFMin
  <2>3. /\ l \in 1 .. m /\ ~(Low(l) /\ High(l))
        /\ \A j \in 1 .. m : j < l => Low(j) /\ High(j)
    <3> HIDE DEF Low, High
    <3>1. ASSUME NEW j \in 1 .. m, j < l PROVE Low(j) /\ High(j)
      <4>1. <<j, l>> \in Less
        BY <2>2, <3>1
      <4>2. j \notin Bad
        <5> HIDE DEF Bad, Less
        <5> QED BY <2>2, <4>1
      <4> QED BY <4>2
    <3> QED BY <2>2, <3>1
  <2>4. CASE l = 1
    <3>1. Low(1) /\ High(1)
      OBVIOUS
    <3> QED BY <2>3, <2>4, <3>1
  <2>5. CASE l > 1
    <3>1. l - 1 \in 1 .. m /\ l - 1 < l
      BY <2>3, <2>5
    <3>2. Low(l - 1) /\ High(l - 1)
      <4> HIDE DEF Low, High
      <4> QED BY <2>3, <3>1
    <3>5. \A j \in 1 .. l : f[j] \in Int /\ (j = l \/ j \in 1 .. l - 1)
      BY <2>3
    <3>3. Low(l)
      <4>1. PICK i \in 1 .. l - 1 : \A j \in 1 .. l - 1 : f[i] <= f[j]
        BY <3>2
      <4>2. CASE f[l] <= f[i]
        <5>1. ASSUME NEW j \in 1 .. l PROVE f[l] <= f[j]
          <6>1. f[i] \in Int /\ f[l] \in Int /\ f[j] \in Int
            BY <2>3, <3>5
          <6>2. j = l \/ f[i] <= f[j]
            BY <3>5, <4>1
          <6> QED BY <4>2, <6>1, <6>2
        <5> QED BY <2>3, <5>1
      <4>3. CASE ~(f[l] <= f[i])
        <5>1. \A j \in 1 .. l : f[i] <= f[j]
          BY <2>3, <4>1, <4>3
        <5> QED BY <2>3, <5>1
      <4> QED BY <4>2, <4>3
    <3>4. High(l)
      <4>1. PICK i \in 1 .. l - 1 : \A j \in 1 .. l - 1 : f[i] >= f[j]
        BY <3>2
      <4>2. CASE f[l] >= f[i]
        <5>1. ASSUME NEW j \in 1 .. l PROVE f[l] >= f[j]
          <6>1. f[i] \in Int /\ f[l] \in Int /\ f[j] \in Int
            BY <2>3, <3>5
          <6>2. j = l \/ f[i] >= f[j]
            BY <3>5, <4>1
          <6> QED BY <4>2, <6>1, <6>2
        <5> QED BY <2>3, <5>1
      <4>3. CASE ~(f[l] >= f[i])
        <5>1. \A j \in 1 .. l : f[i] >= f[j]
          BY <2>3, <4>1, <4>3
        <5> QED BY <2>3, <5>1
      <4> QED BY <4>2, <4>3
    <3> QED BY <2>3, <3>3, <3>4
  <2> QED BY <2>3, <2>4, <2>5
<1> QED BY <1>1, <1>2

Rows == [length : Nat, numeric : BOOLEAN, n : Int, e : Int]

LEMMA SpreadBounds ==
  ASSUME NEW wps, NEW axis \in {"n", "e"}, NEW m \in Nat, m > 0,
         DOMAIN wps = 1 .. m, \A i \in 1 .. m : wps[i][axis] \in Int
  PROVE  /\ Spread(wps, axis) \in Int
         /\ \E low \in {wps[i][axis] : i \in DOMAIN wps} :
              \A i \in DOMAIN wps : /\ wps[i][axis] \in Int
                                    /\ wps[i][axis] >= low
                                    /\ wps[i][axis] <= low + Spread(wps, axis)
<1> DEFINE f == [i \in 1 .. m |-> wps[i][axis]]
           at == {wps[i][axis] : i \in DOMAIN wps}
<1>1. /\ \E i \in 1 .. m : \A j \in 1 .. m : f[i] <= f[j]
      /\ \E i \in 1 .. m : \A j \in 1 .. m : f[i] >= f[j]
  BY ExtremesExist
<1>2. \E x \in at : \A y \in at : x <= y
  BY <1>1
<1>3. \E x \in at : \A y \in at : x >= y
  BY <1>1
<1>4. Min(at) \in at /\ \A y \in at : Min(at) <= y
  <2> HIDE DEF at
  <2> QED BY <1>2 DEF Min
<1>5. Max(at) \in at /\ \A y \in at : Max(at) >= y
  <2> HIDE DEF at
  <2> QED BY <1>3 DEF Max
<1>6. Spread(wps, axis) = Max(at) - Min(at)
  BY DEF Spread
<1>7. at \subseteq Int
  OBVIOUS
<1> HIDE DEF f
<1>8. ASSUME NEW i \in DOMAIN wps
      PROVE  /\ wps[i][axis] \in Int /\ wps[i][axis] >= Min(at)
             /\ wps[i][axis] <= Min(at) + Spread(wps, axis)
  <2>1. wps[i][axis] \in at
    OBVIOUS
  <2> HIDE DEF at
  <2>2. /\ wps[i][axis] \in Int /\ Min(at) \in Int /\ Max(at) \in Int
        /\ Min(at) <= wps[i][axis] /\ Max(at) >= wps[i][axis]
    BY <1>4, <1>5, <1>7, <2>1
  <2> QED BY <1>6, <2>2
<1>9. Spread(wps, axis) \in Int
  <2> HIDE DEF at
  <2>1. Min(at) \in Int /\ Max(at) \in Int
    BY <1>4, <1>5, <1>7
  <2> QED BY <1>6, <2>1
<1> QED BY <1>4, <1>8, <1>9

LEMMA QuietFits ==
  ASSUME NEW asked \in RouteFiles, Loads(asked), ~Warns(asked)
  PROVE  FitsSomewhere(Waypoints(asked))
<1>1. CASE asked.given
  <2> DEFINE wps == asked.rows
  <2>1. Waypoints(asked) = wps /\ wps # <<>> /\ wps \in Seq(Rows)
    BY <1>1, BenchAssumption DEF Loads, Waypoints, Rows
  <2>2. ~TooWide(wps)
    BY <1>1, <2>1 DEF Warns
  <2>3. PICK m \in Nat : m > 0 /\ DOMAIN wps = 1 .. m /\ \A i \in 1 .. m : wps[i] \in Rows
    BY <2>1
  <2>n. \A i \in 1 .. m : wps[i].n \in Int
    BY <2>3 DEF Rows
  <2>e. \A i \in 1 .. m : wps[i].e \in Int
    BY <2>3 DEF Rows
  <2> HIDE DEF wps
  <2>4. PICK n \in {wps[i]["n"] : i \in DOMAIN wps} :
          \A i \in DOMAIN wps : /\ wps[i]["n"] \in Int /\ wps[i]["n"] >= n
                                /\ wps[i]["n"] <= n + Spread(wps, "n")
    BY <2>3, <2>n, SpreadBounds
  <2>5. PICK e \in {wps[i]["e"] : i \in DOMAIN wps} :
          \A i \in DOMAIN wps : /\ wps[i]["e"] \in Int /\ wps[i]["e"] >= e
                                /\ wps[i]["e"] <= e + Spread(wps, "e")
    BY <2>3, <2>e, SpreadBounds
  <2>6. n \in Int /\ e \in Int
    BY <2>4, <2>5
  <2>7. Spread(wps, "n") \in Int /\ Spread(wps, "e") \in Int
    BY <2>3, <2>n, <2>e, SpreadBounds
  <2>8. \A i \in DOMAIN wps : /\ wps[i].n \in n .. n + ArenaL + 50
                              /\ wps[i].e \in e .. e + ArenaW + 50
    BY <2>2, <2>4, <2>5, <2>6, <2>7 DEF TooWide, ArenaL, ArenaW
  <2>9. FitsSomewhere(wps)
    BY <2>4, <2>5, <2>8 DEF FitsSomewhere
  <2> QED BY <2>1, <2>9
<1>2. CASE ~asked.given
  <2>1. Waypoints(asked) = DEFAULT_WAYPOINTS
    BY <1>2 DEF Waypoints
  <2>2. /\ DOMAIN DEFAULT_WAYPOINTS = 1 .. 4
        /\ \A i \in 1 .. 4 : /\ DEFAULT_WAYPOINTS[i].n = 100 + 100 * i
                             /\ DEFAULT_WAYPOINTS[i].e = 200
    BY DEF DEFAULT_WAYPOINTS
  <2>3. 200 \in {DEFAULT_WAYPOINTS[i].n : i \in DOMAIN DEFAULT_WAYPOINTS}
    <3>1. DEFAULT_WAYPOINTS[1].n = 200
      BY <2>2
    <3> QED BY <2>2, <3>1
  <2>4. 200 \in {DEFAULT_WAYPOINTS[i].e : i \in DOMAIN DEFAULT_WAYPOINTS}
    BY <2>2
  <2>5. \A i \in DOMAIN DEFAULT_WAYPOINTS :
          /\ DEFAULT_WAYPOINTS[i].n \in 200 .. 200 + ArenaL + 50
          /\ DEFAULT_WAYPOINTS[i].e \in 200 .. 200 + ArenaW + 50
    BY <2>2 DEF ArenaL, ArenaW
  <2> QED BY <2>1, <2>3, <2>4, <2>5 DEF FitsSomewhere
<1> QED BY <1>1, <1>2

Cleaning == {"finalise", "stop_camera", "stop_uwb", "exit"}

BenchTypes ==
  /\ bench = [pc |-> bench.pc, mode |-> bench.mode, code |-> bench.code,
              aborted |-> bench.aborted, stop |-> bench.stop, mission |-> bench.mission]
  /\ bench.pc \in {"parse", "prepare", "uwb", "camera", "mission", "fly", "connect", "link",
                   "poses", "settle", "scan", "killed"} \cup Cleaning
  /\ bench.mode \in BenchModeNames
  /\ bench.code \in {0, 1, 2, 130}
  /\ orders = [file |-> orders.file, warned |-> orders.warned] /\ orders.file \in RouteFiles
  /\ up \subseteq {"uwb", "camera"}

(* A mode's steps are that mode's.                                         *)
ModeSteps ==
  /\ bench.pc \in {"connect", "link", "poses"} => bench.mode = "check"
  /\ bench.pc \in {"settle", "scan"} => bench.mode = "nofly"
  /\ bench.pc = "fly" => bench.mode = "fly"

(* What was started is stopped one after the other.                        *)
HeldUntilStopped ==
  /\ bench.pc \in {"parse", "prepare"} => up = {}
  /\ bench.pc = "stop_uwb" => "camera" \notin up
  /\ bench.pc = "exit" => up = {}

(* Only a crash and a refused flight abort, and what is written tells what *)
(* will be returned.                                                       *)
FailedCode == bench.code = 1 \/ (bench.code = 2 /\ bench.mode = "fly")
AbortIsCode ==
  /\ bench.pc \notin Cleaning \cup {"killed"} => bench.aborted = FALSE
  /\ bench.pc = "finalise" => (bench.aborted = TRUE <=> FailedCode)

LeftIsCode ==
  /\ bench.pc \notin (Cleaning \cup {"killed"}) \ {"finalise"} => summary.left = FALSE
  /\ summary.left = TRUE => (summary.aborted = TRUE <=> FailedCode)
  /\ summary.left \in BOOLEAN

BenchClock ==
  /\ elapsed \in Nat /\ until \in {0, MaxFlight}
  /\ bench.pc \in {"settle", "scan"} => until = MaxFlight
  /\ bench.pc \in {"parse", "prepare", "uwb", "camera", "mission"} => elapsed = 0
  /\ bench.pc = "settle" => elapsed <= SettleTime
  /\ elapsed <= SettleTime \/ elapsed < MaxFlight + ScanTime

BInv ==
  /\ BenchTypes /\ ModeSteps /\ HeldUntilStopped /\ AbortIsCode /\ LeftIsCode
  /\ BenchClock /\ UnfitIsWarned

(* What a step makes of the program's record.                              *)
Shape ==
  bench = [pc |-> bench.pc, mode |-> bench.mode, code |-> bench.code,
           aborted |-> bench.aborted, stop |-> bench.stop, mission |-> bench.mission]
Same == bench'.mode = bench.mode /\ bench'.code = bench.code /\ bench'.aborted = bench.aborted
Goes(step) == Shape' /\ bench'.pc = step /\ Same
Crashed ==
  /\ Shape' /\ bench'.pc = "finalise" /\ bench'.mode = bench.mode
  /\ bench'.code = 1 /\ bench'.aborted = TRUE
Left(exitCode) ==
  /\ Shape' /\ bench'.pc = "finalise" /\ bench'.mode = bench.mode
  /\ bench'.code = exitCode /\ bench'.aborted = bench.aborted

Refused ==
  /\ Shape' /\ bench'.pc = "finalise" /\ bench'.mode = bench.mode
  /\ bench'.code = 2 /\ bench'.aborted = TRUE

LEMMA StepIs ==
  ASSUME Shape
  PROVE  /\ \A step : GoOn(step) => Goes(step)
         /\ Crashes => Crashed
         /\ Aborts(2) => Refused
         /\ \A exitCode : Leave(exitCode) => Left(exitCode)
         /\ UNCHANGED bench => Goes(bench.pc)
BY DEF Shape, Same, Goes, Crashed, Refused, Left, GoOn, Aborts, Crashes, Leave

LEMMA ParseArgsIs ==
  ASSUME ParseArgs, Shape /\ bench.mode \in BenchModeNames
  PROVE  /\ bench.pc = "parse" /\ UNCHANGED <<elapsed, until, orders, up, summary>>
        /\ Shape' /\ bench'.aborted = bench.aborted /\ bench'.mode \in BenchModeNames
        /\ \/ bench'.pc = "exit" /\ bench'.code = 2
           \/ bench'.pc = "prepare" /\ bench'.code = bench.code
<1> USE DEF ParseArgs, At, others
<1> QED BY StepIs DEF Shape, Same, Goes, Crashed, Left, BenchModeNames

LEMMA PrepareRunIs ==
  ASSUME PrepareRun, Shape
  PROVE  /\ bench.pc = "prepare" /\ UNCHANGED <<elapsed, until, orders, up, summary>>
        /\ Shape' /\ bench'.aborted = bench.aborted /\ bench'.mode = bench.mode
        /\ \/ bench'.pc = "uwb" /\ bench'.code = bench.code
           \/ bench'.pc = "exit" /\ bench'.code \in {1, 2}
<1> USE DEF PrepareRun, At, GoOn, others
<1> QED BY StepIs DEF Shape, Same, Goes, Crashed, Left, BenchModeNames

LEMMA StartUwbIs ==
  ASSUME StartUwb, Shape
  PROVE  /\ bench.pc = "uwb" /\ UNCHANGED <<elapsed, until, orders, summary>>
        /\ up' \in {up, up \cup {"uwb"}} /\ (Goes("camera") \/ Crashed)
<1> USE DEF StartUwb, At
<1> QED BY StepIs DEF Shape, Same, Goes, Crashed, Left, BenchModeNames

LEMMA StartRealsenseIs ==
  ASSUME StartRealsense, Shape
  PROVE  /\ bench.pc = "camera" /\ UNCHANGED <<elapsed, until, orders, summary>>
        /\ up' \in {up, up \cup {"camera"}} /\ (Goes("mission") \/ Crashed)
<1> USE DEF StartRealsense, At
<1> QED BY StepIs DEF Shape, Same, Goes, Crashed, Left, BenchModeNames

LEMMA BeginModeIs ==
  ASSUME BeginMode, Shape /\ bench.mode \in BenchModeNames
  PROVE  /\ bench.pc = "mission" /\ UNCHANGED <<elapsed, orders, up, summary>>
        /\ \/ /\ until' = MaxFlight
              /\ Shape' /\ Same
              /\ \/ bench.mode = "check" /\ bench'.pc = "connect"
                 \/ bench.mode = "nofly" /\ bench'.pc = "settle"
                 \/ bench.mode = "fly" /\ bench'.pc = "fly"
           \/ until' = until /\ Crashed
<1> USE DEF BeginMode, At, Crashes, Aborts
<1> QED BY StepIs DEF Shape, Same, Goes, Crashed, Left, BenchModeNames

LEMMA RunFlyIs ==
  ASSUME RunFly, Shape /\ orders = [file |-> orders.file, warned |-> orders.warned]
  PROVE  /\ bench.pc = "fly" /\ UNCHANGED <<elapsed, until, up, summary>>
        /\ orders' = [file |-> orders'.file, warned |-> orders'.warned]
        /\ orders'.file = orders.file
        /\ \/ Loads(orders.file) /\ orders'.warned = Warns(orders.file) /\ Left(0)
           \/ Crashed \/ Refused
<1> USE DEF RunFly, At
<1> QED BY StepIs DEF Shape

LEMMA ScanOnBenchIs ==
  ASSUME ScanOnBench, Shape
  PROVE  /\ bench.pc = "scan" /\ UNCHANGED <<until, orders, up, summary>> /\ elapsed < until
        /\ \/ (\E t \in 1 .. ScanTime : elapsed' = elapsed + t) /\ Goes("scan")
           \/ elapsed' = elapsed /\ Crashed
<1> USE DEF ScanOnBench, At
<1> QED BY StepIs DEF Shape, Same, Goes, Crashed, Left, BenchModeNames

LEMMA StopSignalIs ==
  ASSUME StopSignal, Shape
  PROVE  /\ UNCHANGED <<elapsed, until, orders, up, summary>>
        /\ \/ Goes(bench.pc) /\ bench.pc # "killed"
           \/ bench.pc \in {"uwb", "camera", "mission"} /\ Left(130)
           \/ bench.pc # "exit" /\ Goes("killed")
<1> USE DEF StopSignal, At, Leave, others
<1> QED BY StepIs DEF Shape, Same, Goes, Crashed, Left, BenchModeNames

LEMMA BenchTypesKept == BInv /\ BenchNext => BenchTypes'
<1> SUFFICES ASSUME BInv, BenchNext PROVE BenchTypes'
  OBVIOUS
<1> USE BenchAssumption DEF BInv, BenchTypes, Cleaning, BenchModeNames, Shape,
  Same, Goes, Crashed, Refused, FailedCode, Left
<1>1. CASE ParseArgs
  BY <1>1, ParseArgsIs
<1>2. CASE PrepareRun
  BY <1>2, PrepareRunIs
<1>3. CASE StartUwb
  BY <1>3, StartUwbIs
<1>4. CASE StartRealsense
  BY <1>4, StartRealsenseIs
<1>5. CASE BeginMode
  BY <1>5, BeginModeIs
<1>6. CASE RunFly
  BY <1>6, RunFlyIs
<1>7. CASE CheckConnect
  BY <1>7 DEF CheckConnect, At, GoOn, others
<1>8. CASE LinkUp
  BY <1>8 DEF LinkUp, At, GoOn
<1>9. CASE NoLink
  BY <1>9 DEF NoLink, At, GoOn, others
<1>10. CASE CheckEnds
  BY <1>10 DEF CheckEnds, At, Leave, others
<1>11. CASE Settled
  BY <1>11 DEF Settled, At, GoOn, ScanDeadline
<1>12. CASE WaitForFix
  BY <1>12 DEF WaitForFix, At
<1>13. CASE ScanOnBench
  BY <1>13, ScanOnBenchIs
<1>14. CASE NoflyOver
  BY <1>14 DEF NoflyOver, At, Leave, others
<1>15. CASE FinaliseRun
  BY <1>15 DEF FinaliseRun, At, GoOn
<1>16. CASE StopRealsense
  BY <1>16 DEF StopRealsense, At, GoOn
<1>17. CASE StopUwb
  BY <1>17 DEF StopUwb, At, GoOn
<1>18. CASE StopSignal
  BY <1>18, StopSignalIs
<1>19. CASE FirstPacket
  BY <1>19 DEF FirstPacket
<1> QED
  BY <1>1, <1>2, <1>3, <1>4, <1>5, <1>6, <1>7, <1>8, <1>9, <1>10, <1>11,
    <1>12, <1>13, <1>14, <1>15, <1>16, <1>17, <1>18, <1>19 DEF BenchNext

LEMMA ModeStepsKept == BInv /\ BenchNext => ModeSteps'
<1> SUFFICES ASSUME BInv, BenchNext PROVE ModeSteps'
  OBVIOUS
<1> USE BenchAssumption DEF BInv, BenchTypes, Cleaning, BenchModeNames, Shape,
  Same, Goes, Crashed, Refused, FailedCode, Left, ModeSteps
<1>1. CASE ParseArgs
  BY <1>1, ParseArgsIs
<1>2. CASE PrepareRun
  BY <1>2, PrepareRunIs
<1>3. CASE StartUwb
  BY <1>3, StartUwbIs
<1>4. CASE StartRealsense
  BY <1>4, StartRealsenseIs
<1>5. CASE BeginMode
  BY <1>5, BeginModeIs
<1>6. CASE RunFly
  BY <1>6, RunFlyIs
<1>7. CASE CheckConnect
  BY <1>7 DEF CheckConnect, At, GoOn, others
<1>8. CASE LinkUp
  BY <1>8 DEF LinkUp, At, GoOn
<1>9. CASE NoLink
  BY <1>9 DEF NoLink, At, GoOn, others
<1>10. CASE CheckEnds
  BY <1>10 DEF CheckEnds, At, Leave, others
<1>11. CASE Settled
  BY <1>11 DEF Settled, At, GoOn, ScanDeadline
<1>12. CASE WaitForFix
  BY <1>12 DEF WaitForFix, At
<1>13. CASE ScanOnBench
  BY <1>13, ScanOnBenchIs
<1>14. CASE NoflyOver
  BY <1>14 DEF NoflyOver, At, Leave, others
<1>15. CASE FinaliseRun
  BY <1>15 DEF FinaliseRun, At, GoOn
<1>16. CASE StopRealsense
  BY <1>16 DEF StopRealsense, At, GoOn
<1>17. CASE StopUwb
  BY <1>17 DEF StopUwb, At, GoOn
<1>18. CASE StopSignal
  BY <1>18, StopSignalIs
<1>19. CASE FirstPacket
  BY <1>19 DEF FirstPacket
<1> QED
  BY <1>1, <1>2, <1>3, <1>4, <1>5, <1>6, <1>7, <1>8, <1>9, <1>10, <1>11,
    <1>12, <1>13, <1>14, <1>15, <1>16, <1>17, <1>18, <1>19 DEF BenchNext

LEMMA HeldUntilStoppedKept == BInv /\ BenchNext => HeldUntilStopped'
<1> SUFFICES ASSUME BInv, BenchNext PROVE HeldUntilStopped'
  OBVIOUS
<1> USE BenchAssumption DEF BInv, BenchTypes, Cleaning, BenchModeNames, Shape,
  Same, Goes, Crashed, Refused, FailedCode, Left, HeldUntilStopped
<1>1. CASE ParseArgs
  BY <1>1, ParseArgsIs
<1>2. CASE PrepareRun
  BY <1>2, PrepareRunIs
<1>3. CASE StartUwb
  BY <1>3, StartUwbIs
<1>4. CASE StartRealsense
  BY <1>4, StartRealsenseIs
<1>5. CASE BeginMode
  BY <1>5, BeginModeIs
<1>6. CASE RunFly
  BY <1>6, RunFlyIs
<1>7. CASE CheckConnect
  BY <1>7 DEF CheckConnect, At, GoOn, others
<1>8. CASE LinkUp
  BY <1>8 DEF LinkUp, At, GoOn
<1>9. CASE NoLink
  BY <1>9 DEF NoLink, At, GoOn, others
<1>10. CASE CheckEnds
  BY <1>10 DEF CheckEnds, At, Leave, others
<1>11. CASE Settled
  BY <1>11 DEF Settled, At, GoOn, ScanDeadline
<1>12. CASE WaitForFix
  BY <1>12 DEF WaitForFix, At
<1>13. CASE ScanOnBench
  BY <1>13, ScanOnBenchIs
<1>14. CASE NoflyOver
  BY <1>14 DEF NoflyOver, At, Leave, others
<1>15. CASE FinaliseRun
  BY <1>15 DEF FinaliseRun, At, GoOn
<1>16. CASE StopRealsense
  BY <1>16 DEF StopRealsense, At, GoOn
<1>17. CASE StopUwb
  BY <1>17 DEF StopUwb, At, GoOn
<1>18. CASE StopSignal
  BY <1>18, StopSignalIs
<1>19. CASE FirstPacket
  BY <1>19 DEF FirstPacket
<1> QED
  BY <1>1, <1>2, <1>3, <1>4, <1>5, <1>6, <1>7, <1>8, <1>9, <1>10, <1>11,
    <1>12, <1>13, <1>14, <1>15, <1>16, <1>17, <1>18, <1>19 DEF BenchNext

LEMMA AbortIsCodeKept == BInv /\ BenchNext => AbortIsCode'
<1> SUFFICES ASSUME BInv, BenchNext PROVE AbortIsCode'
  OBVIOUS
<1> USE BenchAssumption DEF BInv, BenchTypes, Cleaning, BenchModeNames, Shape,
  Same, Goes, Crashed, Refused, FailedCode, Left, AbortIsCode
<1>1. CASE ParseArgs
  BY <1>1, ParseArgsIs
<1>2. CASE PrepareRun
  BY <1>2, PrepareRunIs
<1>3. CASE StartUwb
  BY <1>3, StartUwbIs
<1>4. CASE StartRealsense
  BY <1>4, StartRealsenseIs
<1>5. CASE BeginMode
  BY <1>5, BeginModeIs
<1>6. CASE RunFly
  <2>1. Left(0) \/ Crashed \/ Refused
    BY <1>6, RunFlyIs
  <2>2. bench.aborted = FALSE /\ bench.mode = "fly"
    BY <1>6, RunFlyIs DEF ModeSteps
  <2> QED BY <2>1, <2>2
<1>7. CASE CheckConnect
  BY <1>7 DEF CheckConnect, At, GoOn, others
<1>8. CASE LinkUp
  BY <1>8 DEF LinkUp, At, GoOn
<1>9. CASE NoLink
  BY <1>9 DEF NoLink, At, GoOn, others
<1>10. CASE CheckEnds
  BY <1>10 DEF CheckEnds, At, Leave, others, ModeSteps
<1>11. CASE Settled
  BY <1>11 DEF Settled, At, GoOn, ScanDeadline
<1>12. CASE WaitForFix
  BY <1>12 DEF WaitForFix, At
<1>13. CASE ScanOnBench
  BY <1>13, ScanOnBenchIs
<1>14. CASE NoflyOver
  BY <1>14 DEF NoflyOver, At, Leave, others
<1>15. CASE FinaliseRun
  BY <1>15 DEF FinaliseRun, At, GoOn
<1>16. CASE StopRealsense
  BY <1>16 DEF StopRealsense, At, GoOn
<1>17. CASE StopUwb
  BY <1>17 DEF StopUwb, At, GoOn
<1>18. CASE StopSignal
  <2>1. /\ summary' = summary
        /\ \/ Goes(bench.pc)
           \/ bench.pc \in {"uwb", "camera", "mission"} /\ Left(130)
           \/ bench.pc # "exit" /\ Goes("killed")
    BY <1>18, StopSignalIs
  <2>2. CASE Goes(bench.pc)
    BY <2>1, <2>2
  <2>3. CASE bench.pc \in {"uwb", "camera", "mission"} /\ Left(130)
    BY <2>1, <2>3
  <2>4. CASE bench.pc # "exit" /\ Goes("killed")
    BY <2>1, <2>4
  <2> QED BY <2>1, <2>2, <2>3, <2>4
<1>19. CASE FirstPacket
  BY <1>19 DEF FirstPacket
<1> QED
  BY <1>1, <1>2, <1>3, <1>4, <1>5, <1>6, <1>7, <1>8, <1>9, <1>10, <1>11,
    <1>12, <1>13, <1>14, <1>15, <1>16, <1>17, <1>18, <1>19 DEF BenchNext

LEMMA LeftIsCodeKept == BInv /\ BenchNext => LeftIsCode'
<1> SUFFICES ASSUME BInv, BenchNext PROVE LeftIsCode'
  OBVIOUS
<1> USE BenchAssumption DEF BInv, BenchTypes, Cleaning, BenchModeNames, Shape,
  Same, Goes, Crashed, Refused, FailedCode, Left, LeftIsCode, AbortIsCode
<1>1. CASE ParseArgs
  BY <1>1, ParseArgsIs
<1>2. CASE PrepareRun
  BY <1>2, PrepareRunIs
<1>3. CASE StartUwb
  BY <1>3, StartUwbIs
<1>4. CASE StartRealsense
  BY <1>4, StartRealsenseIs
<1>5. CASE BeginMode
  BY <1>5, BeginModeIs
<1>6. CASE RunFly
  BY <1>6, RunFlyIs
<1>7. CASE CheckConnect
  BY <1>7 DEF CheckConnect, At, GoOn, others
<1>8. CASE LinkUp
  BY <1>8 DEF LinkUp, At, GoOn
<1>9. CASE NoLink
  BY <1>9 DEF NoLink, At, GoOn, others
<1>10. CASE CheckEnds
  BY <1>10 DEF CheckEnds, At, Leave, others
<1>11. CASE Settled
  BY <1>11 DEF Settled, At, GoOn, ScanDeadline
<1>12. CASE WaitForFix
  BY <1>12 DEF WaitForFix, At
<1>13. CASE ScanOnBench
  BY <1>13, ScanOnBenchIs
<1>14. CASE NoflyOver
  BY <1>14 DEF NoflyOver, At, Leave, others
<1>15. CASE FinaliseRun
  <2>1. bench.pc = "finalise" /\ Goes("stop_camera") /\ UNCHANGED up
    BY <1>15, StepIs DEF FinaliseRun, At
  <2>2. CASE summary' = summary
    BY <2>1, <2>2
  <2>3. CASE summary' = [left |-> TRUE, aborted |-> bench.aborted]
    <3>1. summary'.left = TRUE /\ summary'.aborted = bench.aborted
      BY <2>3
    <3>2. summary'.left \in BOOLEAN
      BY <3>1, Zenon
    <3> QED BY <2>1, <3>1, <3>2
  <2> QED BY <1>15, <2>2, <2>3 DEF FinaliseRun
<1>16. CASE StopRealsense
  BY <1>16 DEF StopRealsense, At, GoOn
<1>17. CASE StopUwb
  BY <1>17 DEF StopUwb, At, GoOn
<1>18. CASE StopSignal
  <2>1. /\ summary' = summary
        /\ \/ Goes(bench.pc)
           \/ bench.pc \in {"uwb", "camera", "mission"} /\ Left(130)
           \/ bench.pc # "exit" /\ Goes("killed")
    BY <1>18, StopSignalIs
  <2>2. CASE Goes(bench.pc)
    BY <2>1, <2>2
  <2>3. CASE bench.pc \in {"uwb", "camera", "mission"} /\ Left(130)
    BY <2>1, <2>3
  <2>4. CASE bench.pc # "exit" /\ Goes("killed")
    BY <2>1, <2>4
  <2> QED BY <2>1, <2>2, <2>3, <2>4
<1>19. CASE FirstPacket
  BY <1>19 DEF FirstPacket
<1> QED
  BY <1>1, <1>2, <1>3, <1>4, <1>5, <1>6, <1>7, <1>8, <1>9, <1>10, <1>11,
    <1>12, <1>13, <1>14, <1>15, <1>16, <1>17, <1>18, <1>19 DEF BenchNext

LEMMA BenchClockKept == BInv /\ BenchNext => BenchClock'
<1> SUFFICES ASSUME BInv, BenchNext PROVE BenchClock'
  OBVIOUS
<1> USE BenchAssumption DEF BInv, BenchTypes, Cleaning, BenchModeNames, Shape,
  Same, Goes, Crashed, Refused, FailedCode, Left, BenchClock
<1>1. CASE ParseArgs
  BY <1>1, ParseArgsIs
<1>2. CASE PrepareRun
  BY <1>2, PrepareRunIs
<1>3. CASE StartUwb
  <2>1. bench.pc = "uwb" /\ UNCHANGED <<elapsed, until>> /\ bench'.pc \in {"camera", "finalise"}
    BY <1>3, StartUwbIs
  <2> QED BY <2>1
<1>4. CASE StartRealsense
  <2>1. bench.pc = "camera" /\ UNCHANGED <<elapsed, until>> /\ bench'.pc \in {"mission", "finalise"}
    BY <1>4, StartRealsenseIs
  <2> QED BY <2>1
<1>5. CASE BeginMode
  <2>1. /\ bench.pc = "mission" /\ elapsed' = elapsed
        /\ \/ until' = MaxFlight /\ bench'.pc \in {"connect", "settle", "fly"}
           \/ until' = until /\ bench'.pc = "finalise"
    BY <1>5, BeginModeIs
  <2> QED BY <2>1
<1>6. CASE RunFly
  <2>1. UNCHANGED <<elapsed, until>> /\ (bench'.pc = bench.pc \/ bench'.pc = "finalise")
    BY <1>6, RunFlyIs
  <2> QED BY <2>1
<1>7. CASE CheckConnect
  BY <1>7 DEF CheckConnect, At, GoOn, others
<1>8. CASE LinkUp
  BY <1>8 DEF LinkUp, At, GoOn
<1>9. CASE NoLink
  BY <1>9 DEF NoLink, At, GoOn, others
<1>10. CASE CheckEnds
  BY <1>10 DEF CheckEnds, At, Leave, others
<1>11. CASE Settled
  BY <1>11 DEF Settled, At, GoOn, ScanDeadline
<1>12. CASE WaitForFix
  BY <1>12 DEF WaitForFix, At
<1>13. CASE ScanOnBench
  <2>1. /\ bench.pc = "scan" /\ elapsed < until /\ until' = until
        /\ \/ (\E t \in 1 .. ScanTime : elapsed' = elapsed + t) /\ bench'.pc = "scan"
           \/ elapsed' = elapsed /\ bench'.pc = "finalise"
    BY <1>13, ScanOnBenchIs
  <2> QED BY <2>1
<1>14. CASE NoflyOver
  BY <1>14 DEF NoflyOver, At, Leave, others
<1>15. CASE FinaliseRun
  BY <1>15 DEF FinaliseRun, At, GoOn
<1>16. CASE StopRealsense
  BY <1>16 DEF StopRealsense, At, GoOn
<1>17. CASE StopUwb
  BY <1>17 DEF StopUwb, At, GoOn
<1>18. CASE StopSignal
  BY <1>18, StopSignalIs
<1>19. CASE FirstPacket
  BY <1>19 DEF FirstPacket
<1> QED
  BY <1>1, <1>2, <1>3, <1>4, <1>5, <1>6, <1>7, <1>8, <1>9, <1>10, <1>11,
    <1>12, <1>13, <1>14, <1>15, <1>16, <1>17, <1>18, <1>19 DEF BenchNext

LEMMA UnfitIsWarnedKept == BInv /\ BenchNext => UnfitIsWarned'
<1> SUFFICES ASSUME BInv, BenchNext PROVE UnfitIsWarned'
  OBVIOUS
<1> USE BenchAssumption DEF BInv, BenchTypes, Cleaning, BenchModeNames, Shape,
  Same, Goes, Crashed, Refused, FailedCode, Left, UnfitIsWarned, ModeSteps
<1>1. CASE ParseArgs
  BY <1>1, ParseArgsIs
<1>2. CASE PrepareRun
  BY <1>2, PrepareRunIs
<1>3. CASE StartUwb
  BY <1>3, StartUwbIs
<1>4. CASE StartRealsense
  BY <1>4, StartRealsenseIs
<1>5. CASE BeginMode
  BY <1>5, BeginModeIs
<1>6. CASE RunFly
  BY <1>6, RunFlyIs, QuietFits
<1>7. CASE CheckConnect
  BY <1>7 DEF CheckConnect, At, GoOn, others
<1>8. CASE LinkUp
  BY <1>8 DEF LinkUp, At, GoOn
<1>9. CASE NoLink
  BY <1>9 DEF NoLink, At, GoOn, others
<1>10. CASE CheckEnds
  BY <1>10 DEF CheckEnds, At, Leave, others
<1>11. CASE Settled
  BY <1>11 DEF Settled, At, GoOn, ScanDeadline
<1>12. CASE WaitForFix
  BY <1>12 DEF WaitForFix, At
<1>13. CASE ScanOnBench
  BY <1>13, ScanOnBenchIs
<1>14. CASE NoflyOver
  BY <1>14 DEF NoflyOver, At, Leave, others
<1>15. CASE FinaliseRun
  BY <1>15 DEF FinaliseRun, At, GoOn
<1>16. CASE StopRealsense
  BY <1>16 DEF StopRealsense, At, GoOn
<1>17. CASE StopUwb
  BY <1>17 DEF StopUwb, At, GoOn
<1>18. CASE StopSignal
  BY <1>18, StopSignalIs
<1>19. CASE FirstPacket
  BY <1>19 DEF FirstPacket
<1> QED
  BY <1>1, <1>2, <1>3, <1>4, <1>5, <1>6, <1>7, <1>8, <1>9, <1>10, <1>11,
    <1>12, <1>13, <1>14, <1>15, <1>16, <1>17, <1>18, <1>19 DEF BenchNext

LEMMA BenchInitInv == BenchInit => BInv
BY BenchAssumption
   DEF BenchInit, BInv, BenchTypes, ModeSteps, HeldUntilStopped, AbortIsCode,
   LeftIsCode,
       BenchClock, UnfitIsWarned, Cleaning, BenchModeNames

LEMMA BenchStutter == BInv /\ UNCHANGED benchVars => BInv'
BY DEF benchVars, BInv, BenchTypes, ModeSteps, HeldUntilStopped, AbortIsCode,
  LeftIsCode, FailedCode, BenchClock, UnfitIsWarned, At

LEMMA BenchHolds == BInv => BenchInv
<1> SUFFICES ASSUME BInv PROVE BenchInv
  OBVIOUS
<1>1. SummaryTellsTheExit
  BY DEF BInv, LeftIsCode, FailedCode, SummaryTellsTheExit
<1>2. BenchReleases
  BY DEF BInv, HeldUntilStopped, BenchReleases, At
<1>3. NoflyIsPunctual
  <2>1. /\ Max({MaxFlight, SettleTime + 1}) >= MaxFlight
        /\ Max({MaxFlight, SettleTime + 1}) >= SettleTime + 1
        /\ Max({MaxFlight, SettleTime + 1}) \in Nat
    <3>1. \E x \in {MaxFlight, SettleTime + 1} : \A y \in {MaxFlight, SettleTime + 1} : x >= y
      BY BenchAssumption
    <3>2. /\ Max({MaxFlight, SettleTime + 1}) \in {MaxFlight, SettleTime + 1}
          /\ \A y \in {MaxFlight, SettleTime + 1} : Max({MaxFlight, SettleTime + 1}) >= y
      BY <3>1 DEF Max
    <3> QED BY <3>2, BenchAssumption
  <2> QED BY <2>1, BenchAssumption DEF BInv, BenchClock, NoflyIsPunctual
<1> QED BY <1>1, <1>2, <1>3 DEF BInv, BenchInv

(* However main() is left, what it wrote tells its exit, what it started is *)
(* stopped, a route too wide for the arena is warned about, and a bench     *)
(* run without flight keeps to its time.                                    *)
THEOREM BenchTells == BenchSpec => []BenchInv
BY BenchInitInv, BenchTypesKept, ModeStepsKept, HeldUntilStoppedKept,
  AbortIsCodeKept,
   LeftIsCodeKept, BenchClockKept, UnfitIsWarnedKept, BenchStutter,
   BenchHolds, PTL
   DEF BenchSpec, BInv

-----------------------------------------------------------------------------
(* The parts together.                                                     *)

(* A part is started as it starts by itself, and the steps of the others   *)
(* leave it alone.                                                         *)
LEMMA PartsRun == MCSpec => DolaSpec /\ FramesSpec
<1>1. Init => DolaInit /\ FramesInit
  BY DEF Init
<1>2. [Next]_<<part, gridVars, cameraVars, dolaVars, validityVars, uwbVars, scanVars,
               surveyVars, benchVars, lapVars, framesVars>>
        => [DolaNext]_dolaVars /\ [FramesNext]_framesVars
  BY DEF Next, Others
<1> QED BY <1>1, <1>2, PTL DEF MCSpec, DolaSpec, FramesSpec

(* Beside all the others, what the swarm hears over the air and over its   *)
(* serial line stays right.                                                *)
THEOREM HeardRight == MCSpec => []HeardInv
<1>1. DolaInv /\ FramesInv => HeardInv
  BY DEF HeardInv
<1> QED BY <1>1, PartsRun, TableHolds, FramesHold, PTL

----------------------------------------------------------------------------
(* SurveyBox.                                                              *)

LEMMA InNetIs == \A p \in InNet : /\ p[1] \in Int /\ p[2] \in Int
                                  /\ p[1] >= 0 /\ p[1] <= 11 /\ p[2] >= 0 /\ p[2] <= 22
                                  /\ p = <<p[1], p[2]>>
BY DEF InNet, ARENA_W, ARENA_L

LEMMA CornersAre == Corners = {<<0, 0>>, <<0, 22>>, <<11, 22>>, <<11, 0>>}
<1>1. DOMAIN CORNERS = 1 .. 4
  BY DEF CORNERS
<1>2. Corners = {CORNERS[1], CORNERS[2], CORNERS[3], CORNERS[4]}
  BY <1>1 DEF Corners
<1> QED BY <1>2 DEF CORNERS, ARENA_W, ARENA_L

(* The area of a triangle, by its coordinates.                             *)
LEMMA AreaTurns ==
  ASSUME NEW a \in Int, NEW b \in Int, NEW c \in Int, NEW d \in Int, NEW e \in Int, NEW f \in Int
  PROVE  /\ (c - a) * (f - b) - (e - a) * (d - b) \in Int
         /\ (e - a) * (d - b) - (c - a) * (f - b) = -((c - a) * (f - b) - (e - a) * (d - b))
         /\ (e - c) * (b - d) - (a - c) * (f - d) = (c - a) * (f - b) - (e - a) * (d - b)
OBVIOUS

(* Squares and products within bounds.                                     *)
LEMMA SquareBound ==
  ASSUME NEW a \in Int, NEW m \in Nat, a <= m, -m <= a
  PROVE  a * a <= m * m /\ a * a >= 0 /\ a * a \in Int
<1>1. (m - a) * (m + a) >= 0
  <2>1. m - a \in Nat /\ m + a \in Nat
    OBVIOUS
  <2>2. \A x, y \in Nat : x * y >= 0
    OBVIOUS
  <2> QED BY <2>1, <2>2
<1>2. (m - a) * (m + a) = m * m - a * a
  OBVIOUS
<1>3. a * a >= 0
  <2>1. CASE a >= 0
    BY <2>1
  <2>2. CASE a < 0
    BY <2>2
  <2> QED BY <2>1, <2>2
<1> QED BY <1>1, <1>2, <1>3

LEMMA ProductBound ==
  ASSUME NEW w \in Int, NEW h \in Int, NEW x \in Int, NEW y \in Int,
         w >= 5, h >= 20, -4 <= x, x <= 4, -22 <= y, y <= 22
  PROVE  w * h - x * y > 0
<1>1. w * h >= 100
  <2>1. (w - 5) * (h - 20) >= 0
    <3>1. \A i, j \in Nat : i * j >= 0
      OBVIOUS
    <3> QED BY <3>1
  <2>2. w * h = (w - 5) * (h - 20) + 20 * w + 5 * h - 100
    OBVIOUS
  <2> QED BY <2>1, <2>2
<1>2. x * y <= 88
  <2>1. x \in -4 .. 4
    OBVIOUS
  <2>2. x = -4 \/ x = -3 \/ x = -2 \/ x = -1 \/ x = 0 \/ x = 1 \/ x = 2 \/ x = 3 \/ x = 4
    BY <2>1
  <2> QED BY <2>2
<1> QED BY <1>1, <1>2

(* A distance as long as one in the arena, but for twice 0.30 m.           *)
LEMMA WithinIs ==
  ASSUME NEW near \in 0 .. 605
  PROVE  /\ Within(605, near) => near >= 548
         /\ Within(484, near) => near >= 433
         /\ Within(121, near) => near >= 97 /\ near <= 148
<1> USE DEF Within
<1>1. Within(605, near) => near >= 548
  <2> SUFFICES ASSUME near <= 547 PROVE ~Within(605, near)
    OBVIOUS
  <2> DEFINE e == 547 - near
  <2>1. e \in Nat /\ near = 547 - e
    OBVIOUS
  <2> HIDE DEF e
  <2>2. (25 * (605 + near) - 36) * (25 * (605 + near) - 36) - 2500 * 605 * near
          = 625 * (e * e) + 74300 * e + 30196
    BY <2>1
  <2>3. e * e >= 0 /\ e * e \in Int
    BY <2>1
  <2>4. 25 * (605 + near) - 36 > 0
    OBVIOUS
  <2> QED BY <2>1, <2>2, <2>3, <2>4
<1>2. Within(484, near) => near >= 433
  <2> SUFFICES ASSUME near <= 432 PROVE ~Within(484, near)
    OBVIOUS
  <2> DEFINE e == 432 - near
  <2>1. e \in Nat /\ near = 432 - e
    OBVIOUS
  <2> HIDE DEF e
  <2>2. (25 * (484 + near) - 36) * (25 * (484 + near) - 36) - 2500 * 484 * near
          = 625 * (e * e) + 66800 * e + 42496
    BY <2>1
  <2>3. e * e >= 0 /\ e * e \in Int
    BY <2>1
  <2>4. 25 * (484 + near) - 36 > 0
    OBVIOUS
  <2> QED BY <2>1, <2>2, <2>3, <2>4
<1>3. Within(121, near) => near >= 97
  <2> SUFFICES ASSUME near <= 96 PROVE ~Within(121, near)
    OBVIOUS
  <2> DEFINE e == 96 - near
  <2>1. e \in Nat /\ near = 96 - e
    OBVIOUS
  <2> HIDE DEF e
  <2>2. (25 * (121 + near) - 36) * (25 * (121 + near) - 36) - 2500 * 121 * near
          = 625 * (e * e) + 33050 * e + 1321
    BY <2>1
  <2>3. e * e >= 0 /\ e * e \in Int
    BY <2>1
  <2>4. 25 * (121 + near) - 36 > 0
    OBVIOUS
  <2> QED BY <2>1, <2>2, <2>3, <2>4
<1>4. Within(121, near) => near <= 148
  <2> SUFFICES ASSUME near >= 149 PROVE ~Within(121, near)
    OBVIOUS
  <2> DEFINE e == near - 149
  <2>1. e \in Nat /\ near = 149 + e
    OBVIOUS
  <2> HIDE DEF e
  <2>2. (25 * (121 + near) - 36) * (25 * (121 + near) - 36) - 2500 * 121 * near
          = 625 * (e * e) + 33200 * e + 5296
    BY <2>1
  <2>3. e * e >= 0 /\ e * e \in Int
    BY <2>1
  <2>4. 25 * (121 + near) - 36 > 0
    OBVIOUS
  <2> QED BY <2>1, <2>2, <2>3, <2>4
<1> QED BY <1>1, <1>2, <1>3, <1>4

LEMMA SquaredInNet ==
  ASSUME NEW p \in InNet, NEW q \in InNet
  PROVE  Squared(p, q) \in 0 .. 605 /\ Squared(p, q) = Squared(q, p)
<1> DEFINE a == p[1] - q[1]
           b == p[2] - q[2]
<1>1. /\ p[1] \in Int /\ p[2] \in Int /\ q[1] \in Int /\ q[2] \in Int
      /\ a \in Int /\ b \in Int /\ -11 <= a /\ a <= 11 /\ -22 <= b /\ b <= 22
  BY InNetIs
<1>2. Squared(p, q) = a * a + b * b
  BY DEF Squared
<1>3. Squared(p, q) = Squared(q, p)
  BY <1>1 DEF Squared
<1> HIDE DEF a, b
<1>4. a * a >= 0 /\ a * a <= 121 /\ b * b >= 0 /\ b * b <= 484 /\ a * a \in Int /\ b * b \in Int
  BY <1>1, SquareBound
<1>5. \A x, y \in Int : x >= 0 /\ x <= 121 /\ y >= 0 /\ y <= 484 => x + y \in 0 .. 605
  OBVIOUS
<1>6. a * a + b * b \in 0 .. 605
  BY <1>4, <1>5
<1> QED BY <1>2, <1>3, <1>6

(* The corner at the same side and the other end.                          *)
Across(p) == <<p[1], 22 - p[2]>>

LEMMA CornersTurn ==
  /\ Corners \subseteq InNet
  /\ \A p \in Corners :
       /\ Turned(p) \in Corners /\ Across(p) \in Corners
       /\ Turned(Turned(p)) = p /\ Across(Turned(p)) = Turned(Across(p))
       /\ Across(Across(p)) = p
       /\ Corners = {p, Turned(p), Across(p), Turned(Across(p))}
       /\ Squared(p, Turned(p)) = 605 /\ Squared(Turned(p), p) = 605
       /\ Squared(p, Across(p)) = 484 /\ Squared(Turned(p), Across(p)) = 121
<1> USE CornersAre DEF Turned, Across, Squared, ARENA_W, ARENA_L
<1>1. Corners \subseteq InNet
  BY DEF InNet
<1>2. ASSUME NEW p \in Corners
      PROVE  /\ Turned(p) \in Corners /\ Across(p) \in Corners
             /\ Turned(Turned(p)) = p /\ Across(Turned(p)) = Turned(Across(p))
             /\ Across(Across(p)) = p
             /\ Corners = {p, Turned(p), Across(p), Turned(Across(p))}
             /\ Squared(p, Turned(p)) = 605 /\ Squared(Turned(p), p) = 605
             /\ Squared(p, Across(p)) = 484 /\ Squared(Turned(p), Across(p)) = 121
  <2>1. CASE p = <<0, 0>>
    BY <2>1
  <2>2. CASE p = <<0, 22>>
    BY <2>2
  <2>3. CASE p = <<11, 22>>
    BY <2>3
  <2>4. CASE p = <<11, 0>>
    BY <2>4
  <2> QED BY <2>1, <2>2, <2>3, <2>4
<1> QED BY <1>1, <1>2

(* What is close to a corner, by its coordinates.                          *)
LEMMA CloseIs ==
  ASSUME NEW p \in InNet, NEW u \in Corners
  PROVE  /\ CloseTo(p, u) <=> /\ u[1] = 0 => p[1] <= 3
                              /\ u[1] = 11 => p[1] >= 8
                              /\ u[2] = 0 => p[2] <= 1
                              /\ u[2] = 22 => p[2] >= 21
         /\ u[1] \in {0, 11} /\ u[2] \in {0, 22}
         /\ Turned(u)[1] = 11 - u[1] /\ Turned(u)[2] = 22 - u[2]
         /\ Across(u)[1] = u[1] /\ Across(u)[2] = 22 - u[2]
<1>1. /\ p[1] \in Int /\ p[2] \in Int
      /\ p[1] >= 0 /\ p[1] <= 11 /\ p[2] >= 0 /\ p[2] <= 22
  BY InNetIs
<1>2. u[1] \in {0, 11} /\ u[2] \in {0, 22}
  BY CornersAre
<1>3. /\ Turned(u)[1] = 11 - u[1] /\ Turned(u)[2] = 22 - u[2]
      /\ Across(u)[1] = u[1] /\ Across(u)[2] = 22 - u[2]
  BY DEF Turned, Across, ARENA_W, ARENA_L
<1>4. CloseTo(p, u) <=> /\ p[1] - u[1] >= -3 /\ p[1] - u[1] <= 3
                        /\ p[2] - u[2] >= -1 /\ p[2] - u[2] <= 1
  BY <1>1, <1>2 DEF CloseTo
<1> QED BY <1>1, <1>2, <1>3, <1>4

(* Two places almost a diagonal apart are close to opposite corners.       *)
LEMMA FarIsOpposite ==
  ASSUME NEW p \in InNet, NEW q \in InNet, Squared(p, q) >= 548
  PROVE  \E u \in Corners : CloseTo(p, u) /\ CloseTo(q, Turned(u))
<1> DEFINE a == p[1] - q[1]
           b == p[2] - q[2]
<1>1. /\ p[1] \in Int /\ p[2] \in Int /\ q[1] \in Int /\ q[2] \in Int
      /\ p[1] >= 0 /\ p[1] <= 11 /\ p[2] >= 0 /\ p[2] <= 22
      /\ q[1] >= 0 /\ q[1] <= 11 /\ q[2] >= 0 /\ q[2] <= 22
  BY InNetIs
<1>2. a \in Int /\ b \in Int /\ -11 <= a /\ a <= 11 /\ -22 <= b /\ b <= 22
  BY <1>1
<1>3. a * a + b * b >= 548
  BY DEF Squared
<1>4. (a >= 8 \/ a <= -8) /\ (b >= 21 \/ b <= -21)
  <2> HIDE DEF a, b
  <2>1. a * a <= 121 /\ b * b <= 484 /\ a * a \in Int /\ b * b \in Int
    BY <1>2, SquareBound
  <2>2. a <= 7 /\ -7 <= a => a * a <= 49
    BY <1>2, SquareBound
  <2>3. b <= 20 /\ -20 <= b => b * b <= 400
    BY <1>2, SquareBound
  <2> QED BY <1>2, <1>3, <2>1, <2>2, <2>3
<1>5. PICK u \in Corners : /\ u[1] = 0 <=> a <= -8
                           /\ u[2] = 0 <=> b <= -21
  <2> HIDE DEF a, b
  <2>1. \A x \in {0, 11}, y \in {0, 22} : <<x, y>> \in Corners /\ <<x, y>>[1] = x /\ <<x, y>>[2] = y
    BY CornersAre
  <2>2. CASE a <= -8 /\ b <= -21
    BY <2>1, <2>2
  <2>3. CASE a <= -8 /\ ~(b <= -21)
    BY <2>1, <2>3
  <2>4. CASE ~(a <= -8) /\ b <= -21
    BY <2>1, <2>4
  <2>5. CASE ~(a <= -8) /\ ~(b <= -21)
    BY <2>1, <2>5
  <2> QED BY <2>2, <2>3, <2>4, <2>5
<1>6. u[1] \in {0, 11} /\ u[2] \in {0, 22} /\ Turned(u) \in Corners
  BY CloseIs, CornersTurn
<1>7. CloseTo(p, u)
  <2>1. /\ u[1] = 0 => p[1] <= 3
        /\ u[1] = 11 => p[1] >= 8
        /\ u[2] = 0 => p[2] <= 1
        /\ u[2] = 22 => p[2] >= 21
    BY <1>1, <1>4, <1>5, <1>6
  <2> QED BY <2>1, CloseIs
<1>8. CloseTo(q, Turned(u))
  <2>1. Turned(u)[1] = 11 - u[1] /\ Turned(u)[2] = 22 - u[2]
    BY CloseIs
  <2>2. /\ Turned(u)[1] = 0 => q[1] <= 3
        /\ Turned(u)[1] = 11 => q[1] >= 8
        /\ Turned(u)[2] = 0 => q[2] <= 1
        /\ Turned(u)[2] = 22 => q[2] >= 21
    BY <1>1, <1>4, <1>5, <1>6, <2>1
  <2> QED BY <1>6, <2>2, CloseIs
<1> QED BY <1>7, <1>8

(* A place almost a length from the first and a width from the other of    *)
(* them is close to the corner at the side of the first.                   *)
LEMMA NextToTheSide ==
  ASSUME NEW p \in InNet, NEW q \in InNet, NEW r \in InNet, NEW u \in Corners,
         CloseTo(p, u), CloseTo(q, Turned(u)),
         Squared(p, r) >= 433, Squared(q, r) >= 97
  PROVE  CloseTo(r, Across(u))
<1> DEFINE a == p[1] - r[1]
           b == p[2] - r[2]
           c == q[1] - r[1]
           d == q[2] - r[2]
<1>1. /\ p[1] \in Int /\ p[2] \in Int /\ q[1] \in Int /\ q[2] \in Int
      /\ r[1] \in Int /\ r[2] \in Int
      /\ p[1] >= 0 /\ p[1] <= 11 /\ p[2] >= 0 /\ p[2] <= 22
      /\ q[1] >= 0 /\ q[1] <= 11 /\ q[2] >= 0 /\ q[2] <= 22
      /\ r[1] >= 0 /\ r[1] <= 11 /\ r[2] >= 0 /\ r[2] <= 22
  BY InNetIs
<1>2. /\ a \in Int /\ b \in Int /\ -11 <= a /\ a <= 11 /\ -22 <= b /\ b <= 22
      /\ c \in Int /\ d \in Int /\ -11 <= c /\ c <= 11 /\ -22 <= d /\ d <= 22
  BY <1>1
<1>3. a * a + b * b >= 433 /\ c * c + d * d >= 97
  BY DEF Squared
<1>4. /\ u[1] = 0 => p[1] <= 3 /\ q[1] >= 8
      /\ u[1] = 11 => p[1] >= 8 /\ q[1] <= 3
      /\ u[2] = 0 => p[2] <= 1 /\ q[2] >= 21
      /\ u[2] = 22 => p[2] >= 21 /\ q[2] <= 1
      /\ u[1] \in {0, 11} /\ u[2] \in {0, 22}
  <2>1. /\ Turned(u) \in Corners /\ Turned(u)[1] = 11 - u[1] /\ Turned(u)[2] = 22 - u[2]
        /\ u[1] \in {0, 11} /\ u[2] \in {0, 22}
    BY CloseIs, CornersTurn
  <2>2. /\ u[1] = 0 => p[1] <= 3
        /\ u[1] = 11 => p[1] >= 8
        /\ u[2] = 0 => p[2] <= 1
        /\ u[2] = 22 => p[2] >= 21
    BY CloseIs
  <2>3. /\ Turned(u)[1] = 0 => q[1] <= 3
        /\ Turned(u)[1] = 11 => q[1] >= 8
        /\ Turned(u)[2] = 0 => q[2] <= 1
        /\ Turned(u)[2] = 22 => q[2] >= 21
    BY <2>1, CloseIs
  <2> QED BY <2>1, <2>2, <2>3
<1>5. /\ a * a <= 121 /\ a * a \in Int /\ b * b \in Int /\ c * c \in Int /\ d * d \in Int
      /\ (b <= 17 /\ -17 <= b => b * b <= 289)
      /\ (b <= 20 /\ -20 <= b => b * b <= 400)
      /\ (d <= 4 /\ -4 <= d => d * d <= 16)
      /\ (c <= 8 /\ -8 <= c => c * c <= 64)
      /\ (a <= 3 /\ -3 <= a => a * a <= 9)
  <2> HIDE DEF a, b, c, d
  <2> QED BY <1>2, SquareBound
<1>6. b >= 18 \/ b <= -18
  <2> HIDE DEF a, b, c, d
  <2> QED BY <1>2, <1>3, <1>5
<1>7. d <= 4 /\ -4 <= d
  BY <1>1, <1>4, <1>6
<1>8. c >= 9 \/ c <= -9
  <2> HIDE DEF a, b, c, d
  <2> QED BY <1>2, <1>3, <1>5, <1>7
<1>9. a <= 3 /\ -3 <= a
  BY <1>1, <1>4, <1>8
<1>10. b >= 21 \/ b <= -21
  <2> HIDE DEF a, b, c, d
  <2> QED BY <1>2, <1>3, <1>5, <1>9
<1>11. /\ Across(u)[1] = u[1] /\ Across(u)[2] = 22 - u[2] /\ Across(u) \in Corners
  BY CloseIs, CornersTurn
<1>12. /\ Across(u)[1] = 0 => r[1] <= 3
       /\ Across(u)[1] = 11 => r[1] >= 8
       /\ Across(u)[2] = 0 => r[2] <= 1
       /\ Across(u)[2] = 22 => r[2] >= 21
  BY <1>1, <1>4, <1>8, <1>10, <1>11
<1> QED BY <1>11, <1>12, CloseIs

(* Which way round three corners are, and three places close to them.      *)
LEMMA WayRound ==
  ASSUME NEW p \in InNet, NEW q \in InNet, NEW r \in InNet, NEW u \in Corners,
         CloseTo(p, u), CloseTo(q, Turned(u)), CloseTo(r, Across(u))
  PROVE  /\ u[1] = 0 /\ u[2] = 0 => Area(p, q, r) > 0
         /\ u[1] = 11 /\ u[2] = 22 => Area(p, q, r) > 0
         /\ u[1] = 0 /\ u[2] = 22 => Area(p, q, r) < 0
         /\ u[1] = 11 /\ u[2] = 0 => Area(p, q, r) < 0
<1>1. /\ p[1] \in Int /\ p[2] \in Int /\ q[1] \in Int /\ q[2] \in Int
      /\ r[1] \in Int /\ r[2] \in Int
      /\ p[1] >= 0 /\ p[1] <= 11 /\ p[2] >= 0 /\ p[2] <= 22
      /\ q[1] >= 0 /\ q[1] <= 11 /\ q[2] >= 0 /\ q[2] <= 22
      /\ r[1] >= 0 /\ r[1] <= 11 /\ r[2] >= 0 /\ r[2] <= 22
  BY InNetIs
<1>2. /\ Turned(u) \in Corners /\ Turned(u)[1] = 11 - u[1] /\ Turned(u)[2] = 22 - u[2]
      /\ Across(u) \in Corners /\ Across(u)[1] = u[1] /\ Across(u)[2] = 22 - u[2]
  BY CloseIs, CornersTurn
<1>3. /\ u[1] = 0 => p[1] <= 3 /\ q[1] >= 8 /\ r[1] <= 3
      /\ u[1] = 11 => p[1] >= 8 /\ q[1] <= 3 /\ r[1] >= 8
      /\ u[2] = 0 => p[2] <= 1 /\ q[2] >= 21 /\ r[2] >= 21
      /\ u[2] = 22 => p[2] >= 21 /\ q[2] <= 1 /\ r[2] <= 1
  <2>1. /\ u[1] = 0 => p[1] <= 3
        /\ u[1] = 11 => p[1] >= 8
        /\ u[2] = 0 => p[2] <= 1
        /\ u[2] = 22 => p[2] >= 21
    BY CloseIs
  <2>2. /\ Turned(u)[1] = 0 => q[1] <= 3
        /\ Turned(u)[1] = 11 => q[1] >= 8
        /\ Turned(u)[2] = 0 => q[2] <= 1
        /\ Turned(u)[2] = 22 => q[2] >= 21
    BY <1>2, CloseIs
  <2>3. /\ Across(u)[1] = 0 => r[1] <= 3
        /\ Across(u)[1] = 11 => r[1] >= 8
        /\ Across(u)[2] = 0 => r[2] <= 1
        /\ Across(u)[2] = 22 => r[2] >= 21
    BY <1>2, CloseIs
  <2> QED BY <1>2, <2>1, <2>2, <2>3
<1> DEFINE w == q[1] - p[1]
           h == r[2] - p[2]
           x == r[1] - p[1]
           y == q[2] - p[2]
<1>4. Area(p, q, r) = w * h - x * y
  BY DEF Area
<1>5. /\ w \in Int /\ h \in Int /\ x \in Int /\ y \in Int
      /\ -3 <= x /\ x <= 3 /\ -22 <= y /\ y <= 22
  BY <1>1, <1>3, CloseIs
<1>6. /\ u[1] = 0 => w >= 5
      /\ u[1] = 11 => -w >= 5
      /\ u[2] = 0 => h >= 20
      /\ u[2] = 22 => -h >= 20
  BY <1>1, <1>3
<1> HIDE DEF w, h, x, y
<1>7. CASE u[1] = 0 /\ u[2] = 0
  <2>1. w * h - x * y > 0
    BY <1>5, <1>6, <1>7, ProductBound
  <2> QED BY <1>4, <1>7, <2>1
<1>8. CASE u[1] = 11 /\ u[2] = 22
  <2>1. -w \in Int /\ -h \in Int /\ (-w) * (-h) = w * h
    BY <1>5
  <2>2. (-w) * (-h) - x * y > 0
    BY <1>5, <1>6, <1>8, <2>1, ProductBound
  <2> QED BY <1>4, <1>8, <2>1, <2>2
<1>9. CASE u[1] = 0 /\ u[2] = 22
  <2>1. -h \in Int /\ -y \in Int /\ -22 <= -y /\ -y <= 22
    BY <1>5
  <2>2. w * (-h) - x * (-y) > 0
    BY <1>5, <1>6, <1>9, <2>1, ProductBound
  <2>3. w * (-h) - x * (-y) = -(w * h - x * y) /\ w * h - x * y \in Int
    BY <1>5
  <2> QED BY <1>4, <1>9, <2>2, <2>3
<1>10. CASE u[1] = 11 /\ u[2] = 0
  <2>1. -w \in Int /\ -y \in Int /\ -22 <= -y /\ -y <= 22
    BY <1>5
  <2>2. (-w) * h - x * (-y) > 0
    BY <1>5, <1>6, <1>10, <2>1, ProductBound
  <2>3. (-w) * h - x * (-y) = -(w * h - x * y) /\ w * h - x * y \in Int
    BY <1>5
  <2> QED BY <1>4, <1>10, <2>2, <2>3
<1> QED BY <1>7, <1>8, <1>9, <1>10

LEMMA AreaSwaps ==
  ASSUME NEW p \in InNet, NEW q \in InNet, NEW r \in InNet
  PROVE  /\ Area(p, q, r) \in Int /\ Area(q, p, r) = -Area(p, q, r)
         /\ Area(p, r, q) = -Area(p, q, r) /\ Area(q, r, p) = Area(p, q, r)
<1>1. /\ p[1] \in Int /\ p[2] \in Int /\ q[1] \in Int /\ q[2] \in Int
      /\ r[1] \in Int /\ r[2] \in Int
  BY InNetIs
<1>2. /\ Area(p, q, r) \in Int /\ Area(p, r, q) = -Area(p, q, r)
      /\ Area(q, r, p) = Area(p, q, r)
  BY <1>1, AreaTurns DEF Area
<1>3. Area(q, p, r) = -Area(q, r, p)
  BY <1>1, AreaTurns DEF Area
<1> QED BY <1>2, <1>3

(* Three corners not on a line are two opposite ones and, with one of the  *)
(* two first, the one at its side.                                         *)
LEMMA TwoAreOpposite ==
  ASSUME NEW p \in Corners, NEW q \in Corners, NEW r \in Corners, Area(p, q, r) # 0
  PROVE  \/ q = Turned(p) /\ (r = Across(p) \/ r = Across(q))
         \/ r = Turned(p) /\ (q = Across(p) \/ q = Across(r))
         \/ r = Turned(q) /\ (p = Across(q) \/ p = Across(r))
<1> USE CornersAre DEF Area, Turned, Across, ARENA_W, ARENA_L
<1>1. CASE p = <<0, 0>>
  BY <1>1
<1>2. CASE p = <<0, 22>>
  BY <1>2
<1>3. CASE p = <<11, 22>>
  BY <1>3
<1>4. CASE p = <<11, 0>>
  BY <1>4
<1> QED BY <1>1, <1>2, <1>3, <1>4

(* Close to a corner is not close to another.                              *)
LEMMA OneIsClose ==
  ASSUME NEW p \in InNet, NEW u \in Corners, NEW v \in Corners, CloseTo(p, u), CloseTo(p, v)
  PROVE  u = v
<1>1. u[1] = v[1] /\ u[2] = v[2]
  <2>1. p[1] \in Int /\ p[2] \in Int
    BY InNetIs
  <2>2. /\ u[1] = 0 => p[1] <= 3
        /\ u[1] = 11 => p[1] >= 8
        /\ u[2] = 0 => p[2] <= 1
        /\ u[2] = 22 => p[2] >= 21
        /\ u[1] \in {0, 11} /\ u[2] \in {0, 22}
    BY CloseIs
  <2>3. /\ v[1] = 0 => p[1] <= 3
        /\ v[1] = 11 => p[1] >= 8
        /\ v[2] = 0 => p[2] <= 1
        /\ v[2] = 22 => p[2] >= 21
        /\ v[1] \in {0, 11} /\ v[2] \in {0, 22}
    BY CloseIs
  <2> QED BY <2>1, <2>2, <2>3
<1> QED BY <1>1, CornersAre

(* Captured corners that fit the arena to 0.30 m and span it are close to  *)
(* the corners they were taken for, or to the opposite ones.               *)
LEMMA FitIsClose ==
  ASSUME NEW c \in SUBSET (Corners \X InNet), Fits(c), ~Degenerate(c)
  PROVE  \/ \A x \in c : CloseTo(x[2], x[1])
         \/ \A x \in c : CloseTo(x[2], Turned(x[1]))
<1>1. \A w \in c : w[1] \in Corners /\ w[1] \in InNet /\ w[2] \in InNet
  BY CornersTurn
<1>2. PICK a \in c, b \in c, d \in c :
        b[1] = Turned(a[1]) /\ a[1] = Turned(b[1]) /\ d[1] = Across(a[1])
  <2>1. PICK x \in c, y \in c, z \in c : Area(x[1], y[1], z[1]) # 0
    BY DEF Degenerate, Collinear
  <2>2. /\ x[1] \in Corners /\ y[1] \in Corners /\ z[1] \in Corners
    BY <1>1
  <2>3. \/ y[1] = Turned(x[1]) /\ (z[1] = Across(x[1]) \/ z[1] = Across(y[1]))
        \/ z[1] = Turned(x[1]) /\ (y[1] = Across(x[1]) \/ y[1] = Across(z[1]))
        \/ z[1] = Turned(y[1]) /\ (x[1] = Across(y[1]) \/ x[1] = Across(z[1]))
    BY <2>1, <2>2, TwoAreOpposite
  <2>4. /\ Turned(Turned(x[1])) = x[1] /\ Turned(Turned(y[1])) = y[1]
        /\ Turned(Turned(z[1])) = z[1]
    BY <2>2, CornersTurn
  <2> QED BY <2>3, <2>4
<1>3. ASSUME NEW w \in c, NEW v \in c
      PROVE  /\ Squared(w[1], v[1]) = 605 => Squared(w[2], v[2]) >= 548
             /\ Squared(w[1], v[1]) = 484 => Squared(w[2], v[2]) >= 433
             /\ Squared(w[1], v[1]) = 121 => Squared(w[2], v[2]) >= 97
  <2>1. Within(Squared(w[1], v[1]), Squared(w[2], v[2]))
    BY DEF Fits
  <2>2. Squared(w[2], v[2]) \in 0 .. 605
    BY <1>1, SquaredInNet
  <2> QED BY <2>1, <2>2, WithinIs
<1>4. /\ a[1] \in Corners /\ b[1] \in Corners /\ d[1] \in Corners
      /\ a[2] \in InNet /\ b[2] \in InNet /\ d[2] \in InNet
  BY <1>1
<1>5. PICK u \in Corners : CloseTo(a[2], u) /\ CloseTo(b[2], Turned(u))
  <2>1. Squared(a[2], b[2]) >= 548
    BY <1>2, <1>3, <1>4, CornersTurn
  <2> QED BY <1>4, <2>1, FarIsOpposite
<1>6. /\ Turned(u) \in Corners /\ Turned(Turned(u)) = u
      /\ Across(u) \in Corners /\ Across(Turned(u)) = Turned(Across(u))
  BY CornersTurn
<1>7. ASSUME NEW w \in c
      PROVE  /\ w[1] = a[1] => CloseTo(w[2], u)
             /\ w[1] = b[1] => CloseTo(w[2], Turned(u))
             /\ w[1] = Across(a[1]) => CloseTo(w[2], Across(u))
             /\ w[1] = Across(b[1]) => CloseTo(w[2], Across(Turned(u)))
  <2>0. w[2] \in InNet
    BY <1>1
  <2>1. CASE w[1] = a[1]
    <3>1. Squared(w[2], b[2]) >= 548
      BY <1>2, <1>3, <1>4, <2>1, CornersTurn
    <3>2. PICK v \in Corners : CloseTo(w[2], v) /\ CloseTo(b[2], Turned(v))
      BY <1>4, <2>0, <3>1, FarIsOpposite
    <3>3. Turned(v) = Turned(u)
      BY <1>4, <1>5, <1>6, <3>2, CornersTurn, OneIsClose
    <3>4. v = u
      BY <1>6, <3>3, CornersTurn
    <3>5. a[1] # b[1] /\ a[1] # Across(a[1]) /\ a[1] # Across(b[1])
      BY <1>2, <1>4, CornersAre DEF Turned, Across, ARENA_W, ARENA_L
    <3> QED BY <2>1, <3>2, <3>4, <3>5
  <2>2. CASE w[1] = b[1]
    <3>1. Squared(a[2], w[2]) >= 548
      BY <1>2, <1>3, <1>4, <2>2, CornersTurn
    <3>2. PICK v \in Corners : CloseTo(a[2], v) /\ CloseTo(w[2], Turned(v))
      BY <1>4, <2>0, <3>1, FarIsOpposite
    <3>3. v = u
      BY <1>4, <1>5, <3>2, OneIsClose
    <3>5. b[1] # a[1] /\ b[1] # Across(a[1]) /\ b[1] # Across(b[1])
      BY <1>2, <1>4, CornersAre DEF Turned, Across, ARENA_W, ARENA_L
    <3> QED BY <2>2, <3>2, <3>3, <3>5
  <2>3. CASE w[1] = Across(a[1])
    <3>1. Squared(a[2], w[2]) >= 433 /\ Squared(b[2], w[2]) >= 97
      BY <1>2, <1>3, <1>4, <2>3, CornersTurn
    <3>2. CloseTo(w[2], Across(u))
      BY <1>4, <1>5, <2>0, <3>1, NextToTheSide
    <3>5. Across(a[1]) # a[1] /\ Across(a[1]) # b[1] /\ Across(a[1]) # Across(b[1])
      BY <1>2, <1>4, CornersAre DEF Turned, Across, ARENA_W, ARENA_L
    <3> QED BY <2>3, <3>2, <3>5
  <2>4. CASE w[1] = Across(b[1])
    <3>1. Squared(b[2], w[2]) >= 433 /\ Squared(a[2], w[2]) >= 97
      BY <1>2, <1>3, <1>4, <2>4, CornersTurn
    <3>2. CloseTo(w[2], Across(Turned(u)))
      BY <1>4, <1>5, <1>6, <2>0, <3>1, NextToTheSide
    <3>5. Across(b[1]) # a[1] /\ Across(b[1]) # b[1] /\ Across(b[1]) # Across(a[1])
      BY <1>2, <1>4, CornersAre DEF Turned, Across, ARENA_W, ARENA_L
    <3> QED BY <2>4, <3>2, <3>5
  <2> QED BY <2>1, <2>2, <2>3, <2>4
<1>8. u = a[1] \/ u = Turned(a[1])
  <2>1. CloseTo(d[2], Across(u))
    BY <1>2, <1>7
  <2>2. /\ u[1] = 0 /\ u[2] = 0 => Area(a[2], b[2], d[2]) > 0
        /\ u[1] = 11 /\ u[2] = 22 => Area(a[2], b[2], d[2]) > 0
        /\ u[1] = 0 /\ u[2] = 22 => Area(a[2], b[2], d[2]) < 0
        /\ u[1] = 11 /\ u[2] = 0 => Area(a[2], b[2], d[2]) < 0
    BY <1>4, <1>5, <2>1, WayRound
  <2>3. /\ Area(a[1], b[1], d[1]) > 0 => Area(a[2], b[2], d[2]) > 0
        /\ Area(b[1], a[1], d[1]) > 0 => Area(b[2], a[2], d[2]) > 0
    BY DEF Fits
  <2>4. /\ Area(a[2], b[2], d[2]) \in Int /\ Area(b[2], a[2], d[2]) = -Area(a[2], b[2], d[2])
    BY <1>4, AreaSwaps
  <2>5. /\ a[1] \in {<<0, 0>>, <<11, 22>>} => Area(a[1], b[1], d[1]) > 0
        /\ a[1] \in {<<0, 22>>, <<11, 0>>} => Area(b[1], a[1], d[1]) > 0
    BY <1>2 DEF Area, Turned, Across, ARENA_W, ARENA_L
  <2>6. a[1] \in {<<0, 0>>, <<11, 22>>} <=> u \in {<<0, 0>>, <<11, 22>>}
    BY <1>4, <2>2, <2>3, <2>4, <2>5, CornersAre
  <2> QED BY <1>4, <2>6, CornersAre DEF Turned, ARENA_W, ARENA_L
<1>9. \A w \in c : w[1] \in {a[1], b[1], Across(a[1]), Across(b[1])}
  BY <1>1, <1>2, <1>4, CornersTurn
<1>10. CASE u = a[1]
  BY <1>2, <1>7, <1>9, <1>10
<1>11. CASE u = Turned(a[1])
  <2>1. ASSUME NEW w \in c
        PROVE  CloseTo(w[2], Turned(w[1]))
    <3>1. Across(u) = Turned(Across(a[1])) /\ Turned(u) = a[1] /\ u = b[1]
      BY <1>2, <1>4, <1>11, CornersTurn
    <3>2. Across(Turned(u)) = Turned(Across(b[1]))
      BY <1>2, <1>4, <3>1, CornersTurn
    <3> QED BY <1>2, <1>7, <1>9, <3>1, <3>2
  <2> QED BY <2>1
<1> QED BY <1>8, <1>10, <1>11

(* What is captured was reported inside the box, for a corner of it.       *)
SurveyKnown ==
  /\ survey.next \in 1 .. 4
  /\ there \in InNet
  /\ reported \in InNet \cup {Unknown}
  /\ survey.pc \in {"corner", "fit"} => reported # Unknown
  /\ captured \in SUBSET (Corners \X InNet)
  /\ survey \in [pc : {"await", "corner", "fit", "exit"}, next : 1 .. 4]
  /\ survey.pc \in {"await", "corner", "fit"} => route.written = FALSE

SurveyTypes == SurveyKnown /\ BoxIsCloseOrWarned

LEMMA SurveyInitInv == SurveyInit => SurveyTypes
<1> SUFFICES ASSUME SurveyInit PROVE SurveyTypes
  OBVIOUS
<1>1. SurveyKnown
  BY SurveyAssumption DEF SurveyInit, SurveyKnown
<1>2. BoxIsCloseOrWarned
  BY DEF SurveyInit, BoxIsCloseOrWarned
<1> QED BY <1>1, <1>2 DEF SurveyTypes

LEMMA SurveyNextInv == SurveyTypes /\ [SurveyNext]_surveyVars => SurveyTypes'
<1> SUFFICES ASSUME SurveyTypes, [SurveyNext]_surveyVars PROVE SurveyTypes'
  OBVIOUS
<1> USE DEF SurveyTypes
<1>0. Len(CORNERS) = 4 /\ (\A i \in 1 .. 4 : CORNERS[i] \in Corners) /\ Corners \subseteq InNet
  BY CornersTurn DEF CORNERS, Corners
<1>u. Unknown \notin InNet
  BY InNetIs DEF Unknown
<1>on. ASSUME Onward
       PROVE  /\ survey' \in [pc : {"await", "corner", "fit", "exit"}, next : 1 .. 4]
              /\ survey'.pc \in {survey.pc, "fit"}
  BY <1>0, <1>on DEF Onward, SurveyKnown
<1>1. CASE Carry
  <2>1. there' \in InNet
    BY <1>0, <1>1, SurveyAssumption DEF Carry
  <2> QED BY <1>1, <2>1 DEF Carry, SurveyKnown, BoxIsCloseOrWarned
<1>2. CASE Telemetry
  BY <1>u, <1>2 DEF Telemetry, SurveyKnown, BoxIsCloseOrWarned
<1>3. CASE AwaitPosition
  BY <1>3 DEF AwaitPosition, SurveyKnown, BoxIsCloseOrWarned
<1>4. CASE NoPosition
  BY <1>4 DEF NoPosition, SurveyKnown, BoxIsCloseOrWarned
<1>5. CASE Capture
  <2>1. reported \in InNet
    BY <1>5 DEF Capture, SurveyKnown
  <2>2. captured' \in SUBSET (Corners \X InNet)
    BY <1>0, <1>5, <2>1 DEF Capture, SurveyKnown
  <2>3. survey' \in [pc : {"await", "corner", "fit", "exit"}, next : 1 .. 4]
    BY <1>5, <1>on DEF Capture
  <2>4. route.written = FALSE /\ route' = route
    BY <1>5 DEF Capture, SurveyKnown
  <2> QED BY <1>5, <1>u, <2>1, <2>2, <2>3, <2>4 DEF Capture, SurveyKnown, BoxIsCloseOrWarned
<1>6. CASE Skip
  <2>1. /\ survey' \in [pc : {"await", "corner", "fit", "exit"}, next : 1 .. 4]
        /\ survey.pc = "corner"
    BY <1>6, <1>on DEF Skip
  <2> QED BY <1>6, <2>1 DEF Skip, SurveyKnown, BoxIsCloseOrWarned
<1>7. CASE Refuse
  BY <1>7 DEF Refuse, SurveyKnown, BoxIsCloseOrWarned
<1>8. CASE WriteWaypoints
  <2>1. SurveyKnown'
    BY <1>8 DEF WriteWaypoints, SurveyKnown
  <2>2. PICK w \in Warnings(captured) : route' = [written |-> TRUE, warned |-> w]
    BY <1>8 DEF WriteWaypoints
  <2>3. w = FALSE => \/ \A x \in captured : CloseTo(x[2], x[1])
                     \/ \A x \in captured : CloseTo(x[2], Turned(x[1]))
    <3>1. w = FALSE => Fits(captured)
      BY DEF Warnings
    <3>2. captured \in SUBSET (Corners \X InNet) /\ ~Degenerate(captured)
      BY <1>8 DEF WriteWaypoints, SurveyKnown
    <3> QED BY <3>1, <3>2, FitIsClose
  <2>4. BoxIsCloseOrWarned'
    <3>1. w \in BOOLEAN /\ route'.warned = w /\ captured' = captured
      BY <1>8, <2>2 DEF WriteWaypoints, Warnings
    <3> QED BY <2>3, <3>1 DEF BoxIsCloseOrWarned
  <2> QED BY <2>1, <2>4
<1>9. CASE UNCHANGED surveyVars
  BY <1>9 DEF surveyVars, SurveyKnown, BoxIsCloseOrWarned
<1> QED BY <1>1, <1>2, <1>3, <1>4, <1>5, <1>6, <1>7, <1>8, <1>9 DEF SurveyNext

(* The lanes are numbered by the quotient, the points on one by the rest.  *)
LEMMA DivSucc ==
  ASSUME NEW g \in Nat, NEW n \in Nat, n > 1
  PROVE  /\ g \div n \in Nat
         /\ g % n < n - 1 => (g + 1) \div n = g \div n
         /\ g % n = n - 1 => (g + 1) \div n = (g \div n) + 1
<1> DEFINE q == g \div n
           s == (g + 1) \div n
           r == g % n
           t == (g + 1) % n
<1>1. /\ q \in Int /\ s \in Int /\ r \in 0 .. n - 1 /\ t \in 0 .. n - 1
      /\ g = n * q + r /\ g + 1 = n * s + t
  OBVIOUS
<1> HIDE DEF q, s, r, t
<1>2. n * (s - q) = r + 1 - t
  <2>1. n * q + r + 1 = n * s + t
    BY <1>1
  <2> QED BY <1>1, <2>1
<1>m. ASSUME NEW a \in Int
      PROVE  /\ a >= 2 => n * a >= 2 * n
             /\ a <= -1 => n * a <= -n
             /\ n * 0 = 0 /\ n * 1 = n
  BY <1>m
<1>3. s - q \in {0, 1}
  BY <1>1, <1>2, <1>m
<1>4. q >= 0
  BY <1>1, <1>m
<1>5. r < n - 1 => s = q
  BY <1>1, <1>2, <1>3, <1>m
<1>6. r = n - 1 => s = q + 1
  BY <1>1, <1>2, <1>3, <1>m
<1>7. q \in Nat
  BY <1>1, <1>4
<1> QED BY <1>5, <1>6, <1>7 DEF q, s, r

(* The lawnmower moves on by a point, or over to the next lane.            *)
LEMMA LawnmowerMoves ==
  ASSUME NEW l \in Nat, NEW n \in Nat, n > 1, NEW pt \in 1 .. (l * n) - 1
  PROVE  Squared(LawnmowerArena(l, n)[pt], LawnmowerArena(l, n)[pt + 1]) = 1
<1> DEFINE N == l * n
           r == LawnmowerArena(l, n)
           g == pt - 1
           i == (g \div n) + 1
           j == (g % n) + 1
           i2 == ((g + 1) \div n) + 1
           j2 == ((g + 1) % n) + 1
           at(a, b) == <<a, IF a % 2 = 1 THEN b ELSE n + 1 - b>>
<1>0. N \in Nat /\ pt \in Int /\ pt >= 1 /\ pt + 1 <= N
  OBVIOUS
<1>1. g \in Nat
  BY <1>0
<1>2. /\ i \in Nat /\ j \in 1 .. n
      /\ j < n => i2 = i /\ j2 = j + 1
      /\ j = n => i2 = i + 1 /\ j2 = 1
  <2>1. /\ g \div n \in Nat /\ g % n \in 0 .. n - 1
        /\ g % n < n - 1 => (g + 1) \div n = g \div n /\ (g + 1) % n = (g % n) + 1
        /\ g % n = n - 1 => (g + 1) \div n = (g \div n) + 1 /\ (g + 1) % n = 0
    BY <1>1, DivSucc, ModSucc
  <2> HIDE DEF g
  <2> QED BY <2>1
<1>3. r[pt] = at(i, j) /\ r[pt + 1] = at(i2, j2)
  <2>1. pt \in 1 .. N /\ pt + 1 \in 1 .. N
    BY <1>0
  <2>2. /\ r[pt] = Lane(((pt - 1) \div n) + 1, n)[((pt - 1) % n) + 1]
        /\ r[pt + 1] = Lane((((pt + 1) - 1) \div n) + 1, n)[(((pt + 1) - 1) % n) + 1]
    BY <2>1 DEF LawnmowerArena
  <2>3. (pt + 1) - 1 = g + 1
    BY <1>0
  <2>4. r[pt] = Lane(i, n)[j] /\ r[pt + 1] = Lane(i2, n)[j2]
    BY <2>2, <2>3
  <2>5. j \in 1 .. n /\ j2 \in 1 .. n
    <3> HIDE DEF j, j2, i, i2
    <3> QED BY <1>2
  <2> HIDE DEF i, j, i2, j2, r
  <2> QED BY <2>4, <2>5 DEF Lane
<1> SUFFICES Squared(r[pt], r[pt + 1]) = 1
  OBVIOUS
<1> HIDE DEF i, j, i2, j2, r, N, g
<1>s. ASSUME NEW a \in Int, NEW b \in Int, NEW c \in Int, NEW d \in Int,
             (c = a /\ (d = b + 1 \/ d = b - 1)) \/ (c = a + 1 /\ d = b)
      PROVE  Squared(<<a, b>>, <<c, d>>) = 1
  BY <1>s DEF Squared
<1>4. CASE j < n
  <2>1. CASE i % 2 = 1
    <3>1. at(i, j) = <<i, j>> /\ at(i2, j2) = <<i, j + 1>>
      BY <1>2, <1>4, <2>1
    <3> QED BY <1>2, <1>3, <1>s, <3>1
  <2>2. CASE i % 2 # 1
    <3>1. at(i, j) = <<i, n + 1 - j>> /\ at(i2, j2) = <<i, (n + 1 - j) - 1>>
      BY <1>2, <1>4, <2>2
    <3>2. i \in Int /\ n + 1 - j \in Int /\ (n + 1 - j) - 1 \in Int
      BY <1>2
    <3> QED BY <1>3, <1>s, <3>1, <3>2
  <2> QED BY <2>1, <2>2
<1>5. CASE j = n
  <2>1. (i % 2 = 1 /\ (i + 1) % 2 = 0) \/ (i % 2 = 0 /\ (i + 1) % 2 = 1)
    BY <1>2
  <2>2. CASE i % 2 = 1
    <3>1. at(i, j) = <<i, n>> /\ at(i2, j2) = <<i + 1, n>>
      BY <1>2, <1>5, <2>1, <2>2
    <3> QED BY <1>2, <1>3, <1>s, <3>1
  <2>3. CASE i % 2 = 0
    <3>1. at(i, j) = <<i, 1>> /\ at(i2, j2) = <<i + 1, 1>>
      BY <1>2, <1>5, <2>1, <2>3
    <3> QED BY <1>2, <1>3, <1>s, <3>1
  <2> QED BY <2>1, <2>2, <2>3
<1>6. j < n \/ j = n
  BY <1>2
<1> QED BY <1>4, <1>5, <1>6

LEMMA AllSerpentine == RouteIsSerpentine
<1> SUFFICES ASSUME NEW l \in 1 .. Lanes, NEW n \in 2 .. Ranks
             PROVE  LET r == LawnmowerArena(l, n)
                    IN  \A pt \in 1 .. Len(r) - 1 : Squared(r[pt], r[pt + 1]) = 1
  BY DEF RouteIsSerpentine
<1>1. l \in Nat /\ n \in Nat /\ n > 1 /\ l * n \in Nat
  BY SurveyAssumption
<1>2. Len(LawnmowerArena(l, n)) = l * n
  BY <1>1 DEF LawnmowerArena
<1> QED BY <1>1, <1>2, LawnmowerMoves

(* For every place inside the net the drone may be carried past, and every *)
(* number of lanes and of scan points: unless the operator was warned, the *)
(* corners a route is written over were taken half a metre (across the     *)
(* arena one and a half) from where they are, and the route never jumps.   *)
THEOREM SurveyIsTrue == SurveySpec => []SurveyInv
<1>1. SurveyTypes => SurveyInv
  BY AllSerpentine DEF SurveyTypes, SurveyInv
<1> QED BY <1>1, SurveyInitInv, SurveyNextInv, PTL DEF SurveySpec
=============================================================================
