------------------------------ MODULE UwbFrames ------------------------------
(***************************************************************************)
(* UWBParserThread.py (both copies): how the swarm's thread finds frames   *)
(* in the bytes of the serial port.  A frame has a header (0x55, read as   *)
(* "U"), a mark, blocks of tags, and an end (0xEE); nothing keeps the      *)
(* header's or the end's value out of the blocks.  The device sends frame  *)
(* after frame, the thread starts anywhere in one, and bytes may be lost.  *)
(***************************************************************************)
EXTENDS Naturals

CONSTANTS
  Blocks,        \* what a frame may hold between mark and end: byte sequences
  FrameLength,   \* 896
  MaxTorn        \* bound: bytes lost

\* the bytes of a block, as far as they matter
Values == {"U", "mark", "end", "data"}

ASSUME FrameAssumption ==
  /\ FrameLength \in Nat \ (0 .. 3) /\ MaxTorn \in Nat
  /\ Blocks \subseteq [1 .. FrameLength - 3 -> Values]

VARIABLES
  wire,      \* the frame that is being sent, and how much of it is gone
  torn,      \* bytes lost so far
  listening, \* the thread: "on", "last" after stop(), for its read, or "off"
  buf,       \* buffer: where in a frame it began, how long it is, its second
             \* and its last byte, and how many bytes are missing in it
  taken,     \* the buffer that tag_data was filled from
  insync     \* was the last buffer a frame, and has no byte been lost since?

framesVars == <<wire, torn, listening, buf, taken, insync>>

NoBuffer == [from |-> 0, n |-> 0, mark |-> "none", last |-> "none", missing |-> 0]

FramesInit ==
  /\ wire \in [blocks : Blocks, gone : 0 .. FrameLength - 1] /\ torn = 0
  /\ listening = "on" /\ buf = NoBuffer /\ taken = NoBuffer /\ insync = FALSE

-----------------------------------------------------------------------------
(* The device.                                                             *)
Byte ==
  CASE wire.gone = 0 -> "U" [] wire.gone = 1 -> "mark"
    [] wire.gone = FrameLength - 1 -> "end" [] OTHER -> wire.blocks[wire.gone - 1]

\* After the last byte of a frame comes the first one of another.
Sends ==
  IF wire.gone + 1 < FrameLength THEN wire' = [wire EXCEPT !.gone = @ + 1]
  ELSE wire' \in [blocks : Blocks, gone : {0}]

\* What is lost while a frame is parsed is lost for the next read.
LoseByte ==
  /\ buf.n < FrameLength /\ torn < MaxTorn /\ torn' = torn + 1 /\ Sends
  /\ insync' = FALSE
  /\ buf' = IF buf.n = 0 THEN buf ELSE [buf EXCEPT !.missing = @ + 1]
  /\ UNCHANGED <<listening, taken>>

-----------------------------------------------------------------------------
(* The thread.  A header clears the buffer; the read that follows takes    *)
(* the length of the rest, whatever it is.                                 *)
Reading == listening # "off" /\ buf.n > 0 /\ buf.n < FrameLength

\* running is looked at when a read came to nothing or its frame was parsed.
GoesOn == listening' = IF listening = "last" THEN "off" ELSE listening

Hunt ==
  /\ listening # "off" /\ buf.n = 0 /\ Sends
  /\ \/ /\ Byte = "U" /\ UNCHANGED listening
        /\ buf' = [NoBuffer EXCEPT !.from = wire.gone, !.n = 1, !.last = "U"]
     \/ Byte # "U" /\ GoesOn /\ UNCHANGED buf
  /\ UNCHANGED <<torn, taken, insync>>

ReadByte ==
  /\ Reading /\ Sends
  /\ buf' = [buf EXCEPT !.n = @ + 1, !.last = Byte,
                        !.mark = IF buf.n = 1 THEN Byte ELSE @]
  /\ UNCHANGED <<torn, listening, taken, insync>>

\* The second is over: what was read is thrown away.
Incomplete ==
  /\ Reading /\ buf' = NoBuffer /\ insync' = FALSE /\ GoesOn
  /\ UNCHANGED <<wire, torn, taken>>

\* A frame whose end is not looked at.
ParsesUnended == buf.mark = "mark"

Parses == buf.last = "end" /\ buf.mark = "mark"

\* An invalid end or an invalid mark leaves tag_data as it is.
FrameRead ==
  /\ listening # "off" /\ buf.n = FrameLength /\ buf' = NoBuffer /\ GoesOn
  /\ taken' = IF Parses THEN buf ELSE taken
  /\ insync' = (Parses /\ buf.from = 0 /\ buf.missing = 0)
  /\ UNCHANGED <<wire, torn>>

\* stop(), which lets a read end; or a SerialException, which does not.
StopReading ==
  /\ listening # "off" /\ listening' \in {"last", "off"}
  /\ UNCHANGED <<wire, torn, buf, taken, insync>>

FramesNext ==
  LoseByte \/ Hunt \/ ReadByte \/ Incomplete \/ FrameRead \/ StopReading
FramesSpec == FramesInit /\ [][FramesNext]_framesVars

-----------------------------------------------------------------------------
FramesTypeOK ==
  /\ wire \in [blocks : Blocks, gone : 0 .. FrameLength - 1] /\ torn \in Nat
  /\ listening \in {"on", "last", "off"} /\ insync \in BOOLEAN
  /\ {buf, taken} \subseteq
       [from : Nat, n : 0 .. FrameLength, mark : Values \cup {"none"},
        last : Values \cup {"none"}, missing : Nat]

(* Once a frame was read from its header to its end, the thread stays in   *)
(* step: each buffer begins where a frame does, for as long as nothing is  *)
(* lost and the device does not pause.                                     *)
StaysInStep == insync => IF buf.n = 0 THEN wire.gone = 0 ELSE buf.from = 0

(* A frame that lost one of its bytes, or two, never becomes positions:    *)
(* the buffer ends in the header or the mark of the next.                  *)
TornIsDropped == taken.from = 0 => taken.missing \notin {1, 2}

(* The thread reads what the device sends, or knows that it does not.      *)
FramesInv == FramesTypeOK /\ StaysInStep /\ TornIsDropped

(* "Invalid checksum. Discarding frame." (l.50): positions come from whole *)
(* frames.  The end is a fixed byte and no sum: a buffer that begins and   *)
(* ends inside of frames passes if their blocks hold the header, the mark  *)
(* and the end.  Violated; no run.                                         *)
OnlyWholeFrames == taken.from = 0 /\ taken.missing = 0

(* A thread that reads on without a loss gets to a frame.  While the tags  *)
(* stand still and a block holds the header's value, it begins at that     *)
(* byte again and again, and never does.  Violated; no run.                *)
Resyncs ==
  FramesInit /\ [][Hunt \/ ReadByte \/ FrameRead]_framesVars
    /\ WF_framesVars(Hunt \/ ReadByte \/ FrameRead) => <>insync
=============================================================================
