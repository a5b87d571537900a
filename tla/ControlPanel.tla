---------------------------- MODULE ControlPanel ----------------------------
(***************************************************************************)
(* discord_watcher/server.py: the panel's server.  Request threads and     *)
(* runner threads share server_state.json under state_lock; every change   *)
(* loads the file, empties it and fills it.  A runner thread starts the    *)
(* watcher as a child and follows its output.  The server may be stopped   *)
(* at any step and started again; its child need not stop with it.         *)
(***************************************************************************)
EXTENDS Naturals, Sequences, FiniteSets, SequencesExt

CONSTANTS
  Requests, Runners,           \* threads of the server
  Nil, Half,                   \* no value, a file that was only emptied
  NotesKept,                   \* notes beyond this many are dropped (50)
  RunsKept,                    \* and entries of the history (30)
  MaxNotes, MaxStops           \* bounds

ASSUME PanelAssumption ==
  /\ {NotesKept, RunsKept, MaxNotes, MaxStops} \subseteq Nat
  /\ NotesKept > 0 /\ RunsKept > 0

Threads == Requests \cup Runners

VARIABLES
  stateFile,   \* server_state.json, or Half
  lock,        \* the thread that holds state_lock
  section,     \* a thread's critical section: what it is for, what it saves
  step,        \* where a thread is outside of its sections
  child,       \* the runner's process: "none", "live" or "ended"
  currentProc, \* the runner whose process it is
  cancelled,   \* was a cancellation requested of this run?
  up,          \* does the server run?
  orphan,      \* does the child of an earlier server run?
  stops,       \* how often the server was stopped
  noteNo, cleared, \* the last note, the last note that was cleared away
  lost         \* was the server stopped between emptying and filling?

memory == <<lock, section, step, currentProc, cancelled>>
notes  == <<noteNo, cleared>>
panelVars == <<stateFile, memory, child, up, orphan, stops, notes, lost>>

\* What the file may hold, and why a thread may have the lock.
States == [cur : {Nil, "starting", "running"}, runs : Nat, notes : Seq(Nat)]
Jobs   == {"start", "note", "failed", "record", "line", "finish"}

ASSUME ThreadsAssumption ==
  /\ Requests \cap Runners = {} /\ Half \notin States
  /\ Nil \notin Threads \cup {"starting", "running"} \cup [job : Jobs, new : States]

EmptyState == [cur |-> Nil, runs |-> 0, notes |-> <<>>]

\* load_state: a file that cannot be parsed counts as the empty state.
Loaded == IF stateFile = Half THEN EmptyState ELSE stateFile

PanelInit ==
  /\ stateFile = EmptyState /\ lock = Nil
  /\ section = [t \in Threads |-> Nil] /\ step = [t \in Threads |-> "idle"]
  /\ child = [r \in Runners |-> "none"] /\ currentProc = Nil /\ cancelled = FALSE
  /\ up = TRUE /\ orphan = FALSE /\ stops = 0
  /\ noteNo = 0 /\ cleared = 0 /\ lost = FALSE

-----------------------------------------------------------------------------
(* with state_lock: s = load_state(); ...; save_state(s) *)

\* A lock that nobody asks.
LockIgnored == TRUE

LockFree == lock = Nil

Enter(t, job, new) ==
  /\ up /\ section[t] = Nil /\ LockFree /\ lock' = t
  /\ section' = [section EXCEPT ![t] = [job |-> job, new |-> new]]

Empty(t) ==
  /\ section[t] # Nil /\ stateFile # Half /\ stateFile' = Half
  /\ UNCHANGED <<memory, child, up, orphan, stops, notes, lost>>

\* What a thread does after its section; a finished runner's process is not
\* current_proc any more.
Fill(t) ==
  /\ section[t] # Nil /\ stateFile = Half /\ stateFile' = section[t].new
  /\ lock' = Nil /\ section' = [section EXCEPT ![t] = Nil]
  /\ step' = [step EXCEPT ![t] =
                CASE section[t].job = "start"  -> "spawn"
                  [] section[t].job = "record" -> "stream"
                  [] section[t].job = "line"   -> "stream"
                  [] OTHER -> "idle"]
  /\ IF section[t].job = "finish"
       THEN currentProc' = Nil /\ cancelled' = FALSE
            /\ child' = [child EXCEPT ![t] = "none"]
       ELSE UNCHANGED <<currentProc, cancelled, child>>
  /\ UNCHANGED <<up, orphan, stops, notes, lost>>

-----------------------------------------------------------------------------
(* Requests *)

\* A start that does not look at the action there is.
RunUnasked(q) ==
  /\ step[q] = "idle"
  /\ Enter(q, "start", [Loaded EXCEPT !.cur = "starting"])
  /\ UNCHANGED <<stateFile, step, currentProc, cancelled, child, up, orphan, stops,
                 notes, lost>>

\* start_runner: refused while there is an action.
Run(q) ==
  /\ step[q] = "idle" /\ Loaded.cur = Nil
  /\ Enter(q, "start", [Loaded EXCEPT !.cur = "starting"])
  /\ UNCHANGED <<stateFile, step, currentProc, cancelled, child, up, orphan, stops,
                 notes, lost>>

\* The thread starts after the section.
Spawn(q) ==
  \E r \in Runners :
    /\ up /\ step[q] = "spawn" /\ step[r] = "idle" /\ child[r] = "none"
    /\ section[r] = Nil
    /\ step' = [step EXCEPT ![q] = "idle", ![r] = "popen"]
    /\ UNCHANGED <<stateFile, lock, section, currentProc, cancelled, child, up,
                   orphan, stops, notes, lost>>

\* cancel_runner: terminate() of a process that has ended does nothing.
Cancel ==
  /\ up /\ LockFree /\ currentProc # Nil /\ cancelled' = TRUE
  /\ child' = [child EXCEPT ![currentProc] = "ended"]
  /\ UNCHANGED <<stateFile, lock, section, step, currentProc, up, orphan, stops,
                 notes, lost>>

Note(q) ==
  /\ step[q] = "idle" /\ noteNo < MaxNotes
  /\ LET all == <<noteNo + 1>> \o Loaded.notes
     IN Enter(q, "note", [Loaded EXCEPT !.notes =
                SubSeq(all, 1, IF Len(all) > NotesKept THEN NotesKept
                               ELSE Len(all))])
  /\ noteNo' = noteNo + 1
  /\ UNCHANGED <<stateFile, step, currentProc, cancelled, child, up, orphan, stops,
                 cleared, lost>>

ClearNotes(q) ==
  /\ step[q] = "idle" /\ cleared < noteNo
  /\ Enter(q, "note", [Loaded EXCEPT !.notes = <<>>])
  /\ cleared' = noteNo
  /\ UNCHANGED <<stateFile, step, currentProc, cancelled, child, up, orphan, stops,
                 noteNo, lost>>

-----------------------------------------------------------------------------
(* _runner_thread *)

MoreRuns(n) == IF n < RunsKept THEN n + 1 ELSE n

Popen(r) ==
  /\ up /\ step[r] = "popen" /\ section[r] = Nil
  /\ step' = [step EXCEPT ![r] = "record"]
  /\ child' = [child EXCEPT ![r] = "live"]
  /\ UNCHANGED <<stateFile, lock, section, currentProc, cancelled, up, orphan, stops,
                 notes, lost>>

PopenFails(r) ==
  /\ step[r] = "popen"
  /\ Enter(r, "failed", [Loaded EXCEPT !.cur = Nil, !.runs = MoreRuns(@)])
  /\ UNCHANGED <<stateFile, step, currentProc, cancelled, child, up, orphan, stops,
                 notes, lost>>

Record(r) ==
  /\ step[r] = "record" /\ currentProc' = r
  /\ Enter(r, "record", [Loaded EXCEPT !.cur = "running"])
  /\ UNCHANGED <<stateFile, step, cancelled, child, up, orphan, stops, notes,
                 lost>>

\* A line of output; the log lines are not kept here, but the file is saved.
Line(r) ==
  /\ step[r] = "stream" /\ child[r] = "live" /\ Loaded.cur # Nil
  /\ Enter(r, "line", Loaded)
  /\ UNCHANGED <<stateFile, step, currentProc, cancelled, child, up, orphan, stops,
                 notes, lost>>

\* The watcher has been waited for, and its action stays.
FinishKeepsAction(r) ==
  /\ step[r] = "stream" /\ child[r] = "ended"
  /\ Enter(r, "finish", [Loaded EXCEPT !.runs = MoreRuns(@)])
  /\ UNCHANGED <<stateFile, step, currentProc, cancelled, child, up, orphan, stops,
                 notes, lost>>

\* The last section of the thread, after proc.wait().
Finish(r) ==
  /\ step[r] = "stream" /\ child[r] = "ended"
  /\ Enter(r, "finish", [Loaded EXCEPT !.cur = Nil, !.runs = MoreRuns(@)])
  /\ UNCHANGED <<stateFile, step, currentProc, cancelled, child, up, orphan, stops,
                 notes, lost>>

-----------------------------------------------------------------------------
\* The watcher ends by itself, at any time.
ChildEnds ==
  /\ \/ orphan /\ orphan' = FALSE /\ UNCHANGED child
     \/ \E r \in Runners : child[r] = "live" /\ UNCHANGED orphan
                           /\ child' = [child EXCEPT ![r] = "ended"]
  /\ UNCHANGED <<stateFile, memory, up, stops, notes, lost>>

\* Ctrl+C or a closed terminal, which a child may or may not outlive.
Stop ==
  /\ up /\ stops < MaxStops /\ stops' = stops + 1 /\ up' = FALSE
  /\ lock' = Nil /\ section' = [t \in Threads |-> Nil]
  /\ step' = [t \in Threads |-> "idle"] /\ currentProc' = Nil /\ cancelled' = FALSE
  /\ child' = [r \in Runners |-> "none"]
  /\ \/ orphan' = orphan
     \/ orphan' = TRUE /\ \E r \in Runners : child[r] = "live"
  /\ lost' = (lost \/ stateFile = Half \/ \E t \in Requests : section[t] # Nil)
  /\ UNCHANGED <<stateFile, notes>>

\* main(): the file is there; what it says of an action is not looked at.
Restart ==
  /\ ~up /\ up' = TRUE
  /\ UNCHANGED <<stateFile, memory, child, orphan, stops, notes, lost>>

\* What every thread that works does next, and what a client may ask.
Threading ==
  \/ \E t \in Threads : Empty(t) \/ Fill(t)
  \/ \E q \in Requests : Spawn(q)
  \/ \E r \in Runners : Popen(r) \/ PopenFails(r) \/ Record(r) \/ Finish(r)

Asked ==
  \/ Cancel \/ \E q \in Requests : Run(q) \/ Note(q) \/ ClearNotes(q)

PanelNext ==
  \/ Threading \/ Asked \/ (\E r \in Runners : Line(r))
  \/ ChildEnds \/ Stop \/ Restart

PanelSpec == PanelInit /\ [][PanelNext]_panelVars

\* The lock is fair to a thread that asks for it again and again.
PanelFair ==
  /\ \A t \in Threads : WF_panelVars(Empty(t) \/ Fill(t))
  /\ \A r \in Runners : SF_panelVars(Record(r)) /\ SF_panelVars(Finish(r))

-----------------------------------------------------------------------------
PanelTypeOK ==
  /\ lock \in Threads \cup {Nil} /\ currentProc \in Runners \cup {Nil}
  /\ \A r \in Runners : child[r] \in {"none", "live", "ended"}
  /\ {up, orphan, cancelled, lost} \subseteq BOOLEAN

Working == {r \in Runners : step[r] # "idle" \/ child[r] # "none"}

\* However requests and runners interleave, a note that was acknowledged stays
\* until it is cleared or newer ones push it out: no save undoes another.
NotesStay ==
  up /\ lock = Nil /\ ~lost =>
    \A n \in cleared + 1 .. noteNo :
      n + NotesKept > noteNo => Contains(stateFile.notes, n)

\* Two requests at once do not start two watchers, also after a restart that
\* left one running.
OneWatcher ==
  ~lost => Cardinality(Working) + (IF orphan THEN 1 ELSE 0) <= 1

\* The panel's state file keeps the notes and one watcher.
PanelInv == PanelTypeOK /\ NotesStay /\ OneWatcher

\* A cancellation that was confirmed ends the action, and the panel is free for
\* the next one.
CancelEnds ==
  cancelled ~> (~up \/ (stateFile # Half /\ stateFile.cur = Nil))

\* A request is refused only while a watcher runs.
RefusedMeansRunning ==
  up /\ lock = Nil /\ Loaded.cur # Nil =>
    orphan \/ Working # {} \/ \E q \in Requests : step[q] = "spawn"

\* A cancellation finds the watcher that the state says is there.
CancelFinds ==
  up /\ lock = Nil /\ Loaded.cur # Nil => currentProc # Nil
=============================================================================
