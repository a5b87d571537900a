--------------------------- MODULE DiscordProofs ---------------------------
(***************************************************************************)
(* The programs of discord_watcher: the listener saves a toast once, the   *)
(* panel's state file keeps the notes and one watcher, and what config.json *)
(* passes over was filed.                                                  *)
(***************************************************************************)
EXTENDS NotifListener, ControlPanel, Watcher, WellFoundedInduction,
        FiniteSetTheorems, TLAPS

(* The listener *)

ListenerTypeOK ==
  /\ shown \subseteq Toasts /\ gone \subseteq Toasts /\ shown \cap gone = {}
  /\ listener \in {"off", "asking", "saving"} /\ seen \subseteq Toasts
  /\ got \subseteq shown \cup gone /\ saved \in [Toasts -> Nat]

(* A listener that runs knows what was saved, unless it can never be shown *)
(* to it again.                                                            *)
SavedIsSeen ==
  \A t \in Toasts : saved[t] # 0 =>
    /\ t \in shown \cup gone
    /\ listener # "off" => t \in seen \/ (t \in gone /\ t \notin got)

NothingKnownWhenOff == listener = "off" => seen = {} /\ got = {}

LInv == ListenerTypeOK /\ SavedIsSeen /\ NothingKnownWhenOff /\ ToastsSavedOnce

(* Nothing was saved at the start.                                         *)
LEMMA ListenerInitInv == ListenerInit => LInv
BY DEF ListenerInit, LInv, ListenerTypeOK, SavedIsSeen, NothingKnownWhenOff,
       ToastsSavedOnce

(* Every step of the listener, and every toast, keeps the invariant.       *)
LEMMA ListenerNextInv == LInv /\ [ListenerNext]_listenerVars => LInv'
<1> SUFFICES ASSUME LInv, [ListenerNext]_listenerVars PROVE LInv'
  OBVIOUS
<1> USE ListenerAssumption
    DEF LInv, ListenerTypeOK, SavedIsSeen, NothingKnownWhenOff, ToastsSavedOnce
<1>1. ASSUME NEW t \in Toasts, Show(t) PROVE LInv'
  BY <1>1 DEF Show
<1>2. ASSUME NEW t \in Toasts, Dismiss(t) PROVE LInv'
  <2>1. t \in shown /\ shown' = shown \ {t} /\ gone' = gone \cup {t}
        /\ UNCHANGED <<listener, seen, got, saved, missed>>
    BY <1>2 DEF Dismiss
  <2>2. saved[t] # 0 /\ listener # "off" => t \in seen
    BY <2>1
  <2>3. SavedIsSeen'
    BY <2>1, <2>2
  <2> QED BY <2>1, <2>3
<1>3. CASE Bootstrap
  <2>1. /\ listener = "off" /\ listener' = "asking" /\ seen' = shown
        /\ missed' = missed \cup shown /\ UNCHANGED <<shown, gone, got, saved>>
    BY <1>3 DEF Bootstrap
  <2> QED BY <2>1
<1>4. CASE Ask
  BY <1>4 DEF Ask
<1>5. ASSUME NEW t \in Toasts, Look(t) PROVE LInv'
  <2>1. /\ listener = "saving" /\ t \in got /\ got' = got \ {t}
        /\ seen' = seen \cup {t}
        /\ saved' = IF t \in Discord \ seen THEN [saved EXCEPT ![t] = @ + 1] ELSE saved
        /\ UNCHANGED <<shown, gone, listener, missed>>
    BY <1>5 DEF Look
  <2>2. t \notin seen => saved[t] = 0
    BY <2>1
  <2>3. /\ saved' \in [Toasts -> Nat]
        /\ \A u \in Toasts \ {t} : saved'[u] = saved[u]
        /\ saved'[t] = IF t \in Discord \ seen THEN 1 ELSE saved[t]
    BY <2>1, <2>2
  <2>4. ListenerTypeOK' /\ NothingKnownWhenOff'
    BY <2>1, <2>3
  <2>5. SavedIsSeen'
    <3> SUFFICES ASSUME NEW u \in Toasts, saved'[u] # 0
                 PROVE  u \in shown \cup gone
                        /\ (u \in seen' \/ (u \in gone /\ u \notin got'))
      BY <2>1
    <3>1. CASE u = t
      BY <2>1, <3>1
    <3>2. CASE u # t
      BY <2>1, <2>3, <3>2
    <3> QED BY <3>1, <3>2
  <2>6. ToastsSavedOnce'
    <3>1. \A u \in Toasts : saved'[u] <= 1 /\ (u \notin Discord => saved'[u] = 0)
      BY <2>3
    <3>2. \A u \in seen' \cap Discord : saved'[u] = 1 \/ u \in missed'
      BY <2>1, <2>3
    <3> QED BY <3>1, <3>2
  <2> QED BY <2>4, <2>5, <2>6
<1>6. CASE AllLooked
  BY <1>6 DEF AllLooked
<1>7. CASE Fall
  BY <1>7 DEF Fall
<1>8. CASE UNCHANGED listenerVars
  BY <1>8 DEF listenerVars
<1> QED BY <1>1, <1>2, <1>3, <1>4, <1>5, <1>6, <1>7, <1>8 DEF ListenerNext

(* A toast of Discord that a listener looks at is saved, once, and no      *)
(* other one ever (notif_listener.py, the set `seen`).                     *)
THEOREM SavedOnce == ListenerSpec => []ToastsSavedOnce
<1>1. LInv => ToastsSavedOnce
  BY DEF LInv
<1> QED BY <1>1, ListenerInitInv, ListenerNextInv, PTL DEF ListenerSpec

-----------------------------------------------------------------------------
(* The panel *)

Steps == {"idle", "spawn", "popen", "record", "stream"}

Section == [job : Jobs, new : States]

PanelTypes ==
  /\ stateFile \in States \cup {Half}
  /\ lock \in Threads \cup {Nil} /\ currentProc \in Runners \cup {Nil}
  /\ section \in [Threads -> Section \cup {Nil}]
  /\ step \in [Threads -> Steps]
  /\ child \in [Runners -> {"none", "live", "ended"}]
  /\ noteNo \in Nat /\ cleared \in Nat

Switches == {up, orphan, cancelled, lost} \subseteq BOOLEAN

(* The section of a runner is the one of its step.                         *)
JobOfStep(r) ==
  \/ step[r] = "popen" /\ section[r].job = "failed"
  \/ step[r] = "record" /\ section[r].job = "record"
  \/ step[r] = "stream" /\ section[r].job \in {"line", "finish"}

(* The thread in a section has the lock; a process is there from Popen to  *)
(* the last section, and the current one is there.                         *)
SectionsFit ==
  /\ \A t \in Threads : section[t] # Nil <=> lock = t
  /\ \A q \in Requests :
       /\ step[q] \in {"idle", "spawn"}
       /\ section[q] # Nil => step[q] = "idle" /\ section[q].job \in {"start", "note"}
  /\ \A r \in Runners :
       /\ step[r] # "spawn" /\ (section[r] # Nil => JobOfStep(r))
       /\ child[r] = "none" <=> step[r] \in {"idle", "popen"}
  /\ currentProc # Nil => child[currentProc] # "none"

(* A request that has passed the test of start_runner.                     *)
AsksToStart(q) ==
  step[q] = "spawn" \/ (section[q] # Nil /\ section[q].job = "start")

NoTask ==
  /\ orphan = FALSE /\ \A r \in Runners : step[r] = "idle"
  /\ \A q \in Requests : ~AsksToStart(q)

(* A task is a request that starts a watcher, a runner that works or a     *)
(* watcher of an earlier server: there is one at most.                     *)
OneTask ==
  lost = FALSE =>
    /\ \A r \in Runners : step[r] # "idle" =>
         /\ orphan = FALSE /\ \A s \in Runners : step[s] # "idle" => r = s
         /\ \A q \in Requests : ~AsksToStart(q)
    /\ \A q \in Requests : AsksToStart(q) =>
         /\ orphan = FALSE /\ \A p \in Requests : AsksToStart(p) => p = q

(* The file can be what the next server loads: no section is open, or one  *)
(* that has not begun to save and whose loss loses nothing.                *)
FileReads == lock = Nil \/ (lock \in Runners /\ stateFile # Half)

(* Who finds no action in the file, or in what is saved, finds no task.    *)
ActionNamed ==
  lost = FALSE =>
    /\ FileReads => stateFile # Half /\ (stateFile.cur = Nil => NoTask)
    /\ lock # Nil /\ section[lock].new.cur = Nil =>
         NoTask \/ section[lock].job \in {"failed", "finish"}

(* The newest notes, newest first, back to the last clearing or to the     *)
(* number that is kept.                                                    *)
NewestOf(s, last, clear) ==
  /\ \A i \in 1..Len(s) : s[i] = last + 1 - i
  /\ Len(s) >= NotesKept \/ Len(s) >= last - clear

Newest(s) == NewestOf(s, noteNo, cleared)

NewestKept ==
  lost = FALSE =>
    /\ FileReads => Newest(stateFile.notes)
    /\ lock # Nil => Newest(section[lock].new.notes)

PInvariant == PanelTypes /\ Switches /\ SectionsFit /\ OneTask /\ ActionNamed /\ NewestKept

(* The panel's server starts with an empty state.                          *)
LEMMA PanelInitInv == PanelInit => PInvariant
<1> SUFFICES ASSUME PanelInit PROVE PInvariant
  OBVIOUS
<1> USE PanelAssumption, ThreadsAssumption DEF PanelInit, EmptyState, Threads
<1>1. PanelTypes
  BY DEF PanelTypes, States, Steps
<1>2. Switches
  BY Zenon DEF Switches
<1>3. SectionsFit
  BY DEF SectionsFit
<1>4. NoTask
  BY DEF NoTask, AsksToStart
<1>5. OneTask /\ ActionNamed
  <2>1. stateFile \in States
    BY DEF States
  <2>2. stateFile # Half
    BY <2>1
  <2> QED BY <1>4, <2>2 DEF OneTask, ActionNamed, NoTask
<1>6. NewestKept
  BY DEF NewestKept, Newest, NewestOf
<1> QED BY <1>1, <1>2, <1>3, <1>5, <1>6 DEF PInvariant

(* What a section loads is a state; with the lock free and nothing lost it is the file. *)
LEMMA LoadedState ==
  ASSUME PInvariant
  PROVE  /\ Loaded \in States
         /\ lock = Nil /\ lost = FALSE =>
              /\ Loaded = stateFile /\ Newest(Loaded.notes)
              /\ Loaded.cur = Nil => NoTask
<1>1. EmptyState \in States
  BY PanelAssumption DEF EmptyState, States
<1>2. Loaded \in States
  BY <1>1 DEF PInvariant, PanelTypes, Loaded
<1> QED BY <1>2 DEF PInvariant, NewestKept, ActionNamed, FileReads, Loaded

(* A thread that enters holds the lock, and every other thread is outside. *)
LEMMA Entered ==
  ASSUME PInvariant, NEW t \in Threads, NEW job \in Jobs, NEW new \in States,
         Enter(t, job, new)
  PROVE  /\ lock = Nil /\ lock' = t /\ t # Nil
         /\ section' = [section EXCEPT ![t] = [job |-> job, new |-> new]]
         /\ section' \in [Threads -> Section \cup {Nil}]
         /\ section'[t].job = job /\ section'[t].new = new /\ section'[t] # Nil
         /\ \A u \in Threads : section[u] = Nil /\ (u # t => section'[u] = Nil)
<1> USE ThreadsAssumption DEF PInvariant, PanelTypes
<1>1. lock = Nil /\ lock' = t /\ t # Nil /\ \A u \in Threads : section[u] = Nil
  BY DEF Enter, LockFree, SectionsFit
<1>2. [job |-> job, new |-> new] \in Section /\ [job |-> job, new |-> new] # Nil
  BY DEF Section
<1>3. section' = [section EXCEPT ![t] = [job |-> job, new |-> new]]
  BY DEF Enter
<1> QED BY <1>1, <1>2, <1>3

(* A file that was emptied is empty only while the lock is held.           *)
LEMMA EmptyKeeps ==
  ASSUME PInvariant, NEW t \in Threads, Empty(t) PROVE PInvariant'
<1>1. /\ section[t] # Nil /\ stateFile' = Half
      /\ UNCHANGED <<lock, section, step, currentProc, child, up, orphan, cancelled,
                     noteNo, cleared, lost>>
  BY DEF Empty, memory, notes
<1> USE <1>1, ThreadsAssumption DEF PInvariant
<1>2. lock = t /\ t # Nil
  BY DEF SectionsFit
<1>3. PanelTypes' /\ SectionsFit'
  BY DEF PanelTypes, SectionsFit, JobOfStep
<1>4. Switches'
  BY Zenon DEF Switches
<1>5. OneTask'
  BY DEF OneTask, AsksToStart
<1>6. ActionNamed' /\ NewestKept'
  BY <1>2 DEF ActionNamed, NewestKept, FileReads, Newest, NoTask, AsksToStart
<1> QED BY <1>3, <1>4, <1>5, <1>6

(* The file gets what its section computed; the last section of a runner   *)
(* ends its task.                                                          *)
LEMMA FillKeeps ==
  ASSUME PInvariant, NEW t \in Threads, Fill(t) PROVE PInvariant'
<1> DEFINE after == CASE section[t].job = "start"  -> "spawn"
                      [] section[t].job = "record" -> "stream"
                      [] section[t].job = "line"   -> "stream"
                      [] OTHER -> "idle"
<1>1. /\ section[t] # Nil /\ stateFile' = section[t].new
      /\ lock' = Nil /\ section' = [section EXCEPT ![t] = Nil]
      /\ step' = [step EXCEPT ![t] = after]
      /\ IF section[t].job = "finish"
           THEN currentProc' = Nil /\ cancelled' = FALSE
                /\ child' = [child EXCEPT ![t] = "none"]
           ELSE UNCHANGED <<currentProc, cancelled, child>>
      /\ UNCHANGED <<up, orphan, noteNo, cleared, lost>>
  BY DEF Fill, notes
<1> HIDE DEF after
<1>2. lock = t /\ t # Nil /\ section[t] \in Section /\ section[t].job \in Jobs
      /\ section[t].new \in States /\ section[t].new # Half
  BY <1>1, ThreadsAssumption DEF PInvariant, SectionsFit, PanelTypes, Section
<1>3. /\ after \in Steps
      /\ section[t].job = "start" => after = "spawn"
      /\ section[t].job \in {"record", "line"} => after = "stream"
      /\ section[t].job \in {"note", "failed", "finish"} => after = "idle"
  BY <1>2 DEF after, Jobs, Steps
<1> USE <1>1, <1>2, <1>3, ThreadsAssumption DEF PInvariant
<1>4. /\ \A u \in Threads : section'[u] = Nil /\ (u # t => step'[u] = step[u])
      /\ step'[t] = after
      /\ \A u \in Threads \ {t} : section[u] = Nil
  BY DEF PanelTypes, SectionsFit
<1>5. PanelTypes'
  BY DEF PanelTypes, Threads
<1>6. Switches'
  BY Zenon DEF Switches
<1>7. SectionsFit'
  BY <1>4 DEF PanelTypes, SectionsFit, JobOfStep, Threads, Jobs
<1>8. OneTask'
  BY <1>4 DEF PanelTypes, SectionsFit, OneTask, AsksToStart, JobOfStep,
    Threads, Jobs
<1>9. ActionNamed'
  BY <1>4 DEF PanelTypes, SectionsFit, ActionNamed, OneTask, NoTask,
    AsksToStart,
              JobOfStep, Threads, Jobs
<1>10. NewestKept'
  BY DEF NewestKept, Newest
<1> QED BY <1>5, <1>6, <1>7, <1>8, <1>9, <1>10

(* A runner's section keeps the notes, and only its last one gives the     *)
(* action up.                                                              *)
LEMMA RunnerEnters ==
  ASSUME PInvariant, NEW r \in Runners, NEW job \in Jobs, NEW new \in States,
         Enter(r, job, new),
         new.notes = Loaded.notes, new.cur = Nil => job \in {"failed", "finish"},
         \/ step[r] = "popen" /\ job = "failed"
         \/ step[r] = "record" /\ job = "record"
         \/ step[r] = "stream" /\ job \in {"line", "finish"},
         currentProc' = currentProc \/ (currentProc' = r /\ step[r] = "record"),
         UNCHANGED <<stateFile, step, child, up, orphan, cancelled, noteNo, cleared,
                     lost>>
  PROVE  PInvariant'
<1> r \in Threads
  BY DEF Threads
<1>1. /\ lock = Nil /\ lock' = r /\ r # Nil
      /\ section' \in [Threads -> Section \cup {Nil}]
      /\ section'[r].job = job /\ section'[r].new = new /\ section'[r] # Nil
      /\ \A u \in Threads : section[u] = Nil /\ (u # r => section'[u] = Nil)
  BY Entered
<1> USE <1>1, ThreadsAssumption DEF PInvariant
<1>2. PanelTypes'
  BY DEF PanelTypes
<1>3. Switches'
  BY Zenon DEF Switches
<1>4. SectionsFit'
  BY DEF PanelTypes, SectionsFit, JobOfStep, Threads
<1>5. OneTask'
  BY DEF OneTask, AsksToStart, Threads
<1>6. ActionNamed'
  BY DEF ActionNamed, FileReads, NoTask, AsksToStart, Threads
<1>7. NewestKept'
  BY LoadedState DEF NewestKept, FileReads, Newest
<1> QED BY <1>2, <1>3, <1>4, <1>5, <1>6, <1>7

(* What the last section of a thread saves.                                *)
LEMMA GivenUp ==
  ASSUME NEW s \in States
  PROVE  /\ [s EXCEPT !.cur = Nil, !.runs = MoreRuns(@)] \in States
         /\ [s EXCEPT !.cur = Nil, !.runs = MoreRuns(@)].notes = s.notes
<1>1. MoreRuns(s.runs) \in Nat
  BY DEF States, MoreRuns
<1>2. PICK n \in Nat : n = MoreRuns(s.runs)
  BY <1>1
<1>3. [s EXCEPT !.cur = Nil, !.runs = n] \in States
      /\ [s EXCEPT !.cur = Nil, !.runs = n].notes = s.notes
  BY DEF States
<1> QED BY <1>2, <1>3

(* A watcher that could not be started gives the action up.                *)
LEMMA PopenFailsKeeps ==
  ASSUME PInvariant, NEW r \in Runners, PopenFails(r) PROVE PInvariant'
<1> DEFINE new == [Loaded EXCEPT !.cur = Nil, !.runs = MoreRuns(@)]
<1>1. new \in States /\ new.notes = Loaded.notes
  BY LoadedState, GivenUp
<1>2. /\ step[r] = "popen" /\ Enter(r, "failed", new)
      /\ UNCHANGED <<stateFile, step, currentProc, child, up, orphan, cancelled, noteNo,
                     cleared, lost>>
  BY DEF PopenFails, notes
<1> HIDE DEF new
<1> QED BY <1>1, <1>2, RunnerEnters DEF Jobs

(* The runner's process becomes the current one.                           *)
LEMMA RecordKeeps ==
  ASSUME PInvariant, NEW r \in Runners, Record(r) PROVE PInvariant'
<1> DEFINE new == [Loaded EXCEPT !.cur = "running"]
<1>1. new \in States /\ new.notes = Loaded.notes /\ new.cur # Nil
  BY LoadedState, ThreadsAssumption DEF States
<1>2. /\ step[r] = "record" /\ Enter(r, "record", new) /\ currentProc' = r
      /\ UNCHANGED <<stateFile, step, child, up, orphan, cancelled, noteNo, cleared,
                     lost>>
  BY DEF Record, notes
<1> HIDE DEF new
<1> QED BY <1>1, <1>2, RunnerEnters DEF Jobs

(* A line of output saves what was loaded.                                 *)
LEMMA LineKeeps ==
  ASSUME PInvariant, NEW r \in Runners, Line(r) PROVE PInvariant'
<1>1. /\ step[r] = "stream" /\ Loaded.cur # Nil /\ Enter(r, "line", Loaded)
      /\ UNCHANGED <<stateFile, step, currentProc, child, up, orphan, cancelled, noteNo,
                     cleared, lost>>
  BY DEF Line, notes
<1> QED BY <1>1, LoadedState, RunnerEnters DEF Jobs

(* A watcher that was waited for gives the action up.                      *)
LEMMA FinishKeeps ==
  ASSUME PInvariant, NEW r \in Runners, Finish(r) PROVE PInvariant'
<1> DEFINE new == [Loaded EXCEPT !.cur = Nil, !.runs = MoreRuns(@)]
<1>1. new \in States /\ new.notes = Loaded.notes
  BY LoadedState, GivenUp
<1>2. /\ step[r] = "stream" /\ Enter(r, "finish", new)
      /\ UNCHANGED <<stateFile, step, currentProc, child, up, orphan, cancelled, noteNo,
                     cleared, lost>>
  BY DEF Finish, notes
<1> HIDE DEF new
<1> QED BY <1>1, <1>2, RunnerEnters DEF Jobs

(* A start enters only while there is no action, so with no task.          *)
LEMMA RunKeeps ==
  ASSUME PInvariant, NEW q \in Requests, Run(q) PROVE PInvariant'
<1> DEFINE new == [Loaded EXCEPT !.cur = "starting"]
<1>1. new \in States /\ new.notes = Loaded.notes /\ new.cur # Nil
  BY LoadedState, ThreadsAssumption DEF States
<1>2. /\ step[q] = "idle" /\ Loaded.cur = Nil /\ Enter(q, "start", new)
      /\ UNCHANGED <<stateFile, step, currentProc, child, up, orphan, cancelled, noteNo,
                     cleared, lost>>
  BY DEF Run, notes
<1> HIDE DEF new
<1> q \in Threads /\ q \notin Runners
  BY ThreadsAssumption DEF Threads
<1>3. /\ lock = Nil /\ lock' = q /\ q # Nil
      /\ section' \in [Threads -> Section \cup {Nil}]
      /\ section'[q].job = "start" /\ section'[q].new = new /\ section'[q] # Nil
      /\ \A u \in Threads : section[u] = Nil /\ (u # q => section'[u] = Nil)
  BY <1>1, <1>2, Entered DEF Jobs
<1>4. lost = FALSE => NoTask /\ Newest(new.notes)
  BY <1>1, <1>2, <1>3, LoadedState
<1> USE <1>1, <1>2, <1>3, ThreadsAssumption DEF PInvariant
<1>5. PanelTypes'
  BY DEF PanelTypes
<1>6. Switches'
  BY Zenon DEF Switches
<1>7. SectionsFit'
  BY DEF PanelTypes, SectionsFit, JobOfStep, Threads
<1>8. OneTask'
  BY <1>4 DEF OneTask, NoTask, AsksToStart, Threads
<1>9. ActionNamed'
  BY DEF ActionNamed, FileReads
<1>10. NewestKept'
  BY <1>4 DEF NewestKept, FileReads, Newest
<1> QED BY <1>5, <1>6, <1>7, <1>8, <1>9, <1>10

(* A new note is in front of the notes that are kept.                      *)
LEMMA NoteInFront ==
  ASSUME NEW s \in Seq(Nat), NEW n \in Nat, NEW k \in 1..Len(<<n>> \o s)
  PROVE  /\ SubSeq(<<n>> \o s, 1, k) \in Seq(Nat)
         /\ Len(SubSeq(<<n>> \o s, 1, k)) = k
         /\ Len(<<n>> \o s) = Len(s) + 1
         /\ \A i \in 1..k :
              SubSeq(<<n>> \o s, 1, k)[i] = IF i = 1 THEN n ELSE s[i - 1]
BY SMTT(30)

(* A note that is added, and a clearing, change the notes alone.           *)
LEMMA NotesEnter ==
  ASSUME PInvariant, NEW q \in Requests, NEW new \in States,
         Enter(q, "note", new), step[q] = "idle", new.cur = Loaded.cur,
         noteNo' \in Nat, cleared' \in Nat, lost = FALSE => NewestOf(new.notes, noteNo', cleared'),
         UNCHANGED <<stateFile, step, currentProc, child, up, orphan,
                     cancelled, lost>>
  PROVE  PInvariant'
<1> q \in Threads /\ q \notin Runners
  BY ThreadsAssumption DEF Threads
<1>3. /\ lock = Nil /\ lock' = q /\ q # Nil
      /\ section' \in [Threads -> Section \cup {Nil}]
      /\ section'[q].job = "note" /\ section'[q].new = new /\ section'[q] # Nil
      /\ \A u \in Threads : section[u] = Nil /\ (u # q => section'[u] = Nil)
  BY Entered DEF Jobs
<1> USE <1>3, ThreadsAssumption DEF PInvariant
<1>5. PanelTypes'
  BY DEF PanelTypes
<1>6. Switches'
  BY Zenon DEF Switches
<1>7. SectionsFit'
  BY DEF PanelTypes, SectionsFit, JobOfStep, Threads
<1>8. OneTask'
  BY DEF OneTask, AsksToStart, Threads
<1>9. ActionNamed'
  BY LoadedState DEF ActionNamed, FileReads, NoTask, AsksToStart, Threads
<1>10. NewestKept'
  BY DEF NewestKept, FileReads, Newest
<1> QED BY <1>5, <1>6, <1>7, <1>8, <1>9, <1>10

(* A note that is added is the first of those that are kept.               *)
LEMMA NoteKeeps ==
  ASSUME PInvariant, NEW q \in Requests, Note(q) PROVE PInvariant'
<1> DEFINE all  == <<noteNo + 1>> \o Loaded.notes
           kept == IF Len(all) > NotesKept THEN NotesKept ELSE Len(all)
           new  == [Loaded EXCEPT !.notes = SubSeq(all, 1, kept)]
<1>1. /\ step[q] = "idle" /\ noteNo' = noteNo + 1 /\ Enter(q, "note", new)
      /\ UNCHANGED <<stateFile, step, currentProc, child, up, orphan, cancelled, cleared,
                     lost>>
  BY DEF Note
<1>2. /\ Loaded \in States /\ Loaded.notes \in Seq(Nat) /\ noteNo \in Nat /\ cleared \in Nat
      /\ noteNo + 1 \in Nat /\ NotesKept \in Nat /\ NotesKept > 0
  <2>1. Loaded \in States /\ noteNo \in Nat /\ cleared \in Nat
    BY LoadedState DEF PInvariant, PanelTypes
  <2> QED BY <2>1, PanelAssumption DEF States
<1>3. /\ kept \in 1..Len(all) /\ Len(all) = Len(Loaded.notes) + 1
      /\ kept = IF Len(all) > NotesKept THEN NotesKept ELSE Len(all)
  BY <1>2
<1>4. /\ SubSeq(all, 1, kept) \in Seq(Nat) /\ Len(SubSeq(all, 1, kept)) = kept
      /\ \A i \in 1..kept :
           SubSeq(all, 1, kept)[i] = IF i = 1 THEN noteNo + 1 ELSE Loaded.notes[i - 1]
  <2> HIDE DEF kept
  <2>1. /\ Loaded.notes \in Seq(Nat) /\ noteNo + 1 \in Nat
        /\ kept \in 1..Len(<<noteNo + 1>> \o Loaded.notes)
    BY <1>2, <1>3
  <2> QED BY <2>1, NoteInFront, SMTT(30)
<1>5. new \in States /\ new.cur = Loaded.cur /\ new.notes = SubSeq(all, 1, kept)
  <2> HIDE DEF all, kept
  <2> QED BY <1>2, <1>4 DEF States
<1> HIDE DEF all, kept, new
<1>6. lock = Nil
  BY <1>1 DEF Enter, LockFree
<1>7. ASSUME lost = FALSE PROVE NewestOf(new.notes, noteNo', cleared')
  <2>1. Newest(Loaded.notes)
    BY <1>6, <1>7, LoadedState
  <2>2. ASSUME NEW i \in 1..kept PROVE SubSeq(all, 1, kept)[i] = (noteNo + 1) + 1 - i
    <3>1. CASE i = 1
      BY <1>2, <1>4, <3>1
    <3>2. CASE i # 1
      <4>1. i - 1 \in 1..Len(Loaded.notes)
        BY <1>3, <3>2
      <4>2. Loaded.notes[i - 1] = noteNo + 1 - (i - 1)
        BY <2>1, <4>1 DEF Newest, NewestOf
      <4> QED BY <1>2, <1>4, <3>2, <4>2
    <3> QED BY <3>1, <3>2
  <2>3. kept >= NotesKept \/ kept >= (noteNo + 1) - cleared
    BY <1>2, <1>3, <2>1 DEF Newest, NewestOf
  <2> QED BY <1>1, <1>4, <1>5, <2>2, <2>3 DEF NewestOf
<1> QED BY <1>1, <1>2, <1>5, <1>7, NotesEnter

(* After a clearing there is no note to keep.                              *)
LEMMA ClearNotesKeeps ==
  ASSUME PInvariant, NEW q \in Requests, ClearNotes(q) PROVE PInvariant'
<1> DEFINE new == [Loaded EXCEPT !.notes = <<>>]
<1>1. /\ step[q] = "idle" /\ cleared' = noteNo /\ Enter(q, "note", new)
      /\ UNCHANGED <<stateFile, step, currentProc, child, up, orphan, cancelled, noteNo,
                     lost>>
  BY DEF ClearNotes
<1>2. noteNo \in Nat /\ NotesKept \in Nat
  BY PanelAssumption DEF PInvariant, PanelTypes
<1>3. new \in States /\ new.cur = Loaded.cur /\ new.notes = <<>>
  <2>1. Loaded \in States /\ <<>> \in Seq(Nat)
    BY LoadedState
  <2> QED BY <2>1 DEF States
<1> HIDE DEF new
<1>4. NewestOf(new.notes, noteNo', cleared')
  BY <1>1, <1>2, <1>3 DEF NewestOf
<1> QED BY <1>1, <1>2, <1>3, <1>4, NotesEnter

(* The request hands its task to a runner.                                 *)
LEMMA SpawnKeeps ==
  ASSUME PInvariant, NEW q \in Requests, Spawn(q) PROVE PInvariant'
<1>1. PICK r \in Runners :
        /\ step[q] = "spawn" /\ step[r] = "idle" /\ child[r] = "none" /\ section[r] = Nil
        /\ step' = [step EXCEPT ![q] = "idle", ![r] = "popen"]
        /\ UNCHANGED <<stateFile, lock, section, currentProc, child, up, orphan, cancelled,
                       noteNo, cleared, lost>>
  BY DEF Spawn, notes
<1> q \in Threads /\ q \notin Runners /\ r \in Threads /\ r \notin Requests /\ q # r
  BY ThreadsAssumption DEF Threads
<1> USE <1>1, ThreadsAssumption DEF PInvariant
<1>2. /\ step'[q] = "idle" /\ step'[r] = "popen"
      /\ \A u \in Threads \ {q, r} : step'[u] = step[u]
      /\ section[q] = Nil
  BY DEF PanelTypes, SectionsFit
<1>3. PanelTypes'
  BY DEF PanelTypes, Steps
<1>4. Switches'
  BY Zenon DEF Switches
<1>5. SectionsFit'
  BY <1>2 DEF SectionsFit, JobOfStep, Threads
<1>6. OneTask'
  BY <1>2 DEF OneTask, AsksToStart, Threads
<1>7. ActionNamed'
  BY <1>2 DEF ActionNamed, FileReads, NoTask, AsksToStart, Threads
<1>8. NewestKept'
  BY DEF NewestKept, FileReads, Newest
<1> QED BY <1>3, <1>4, <1>5, <1>6, <1>7, <1>8

(* A cancellation ends the process, not the task.                          *)
LEMMA CancelKeeps ==
  ASSUME PInvariant, Cancel PROVE PInvariant'
<1>1. /\ currentProc # Nil /\ cancelled' = TRUE
      /\ child' = [child EXCEPT ![currentProc] = "ended"]
      /\ UNCHANGED <<stateFile, lock, section, step, currentProc, up, orphan, noteNo,
                     cleared, lost>>
  BY DEF Cancel, notes
<1> USE <1>1, ThreadsAssumption DEF PInvariant
<1>2. PanelTypes'
  BY DEF PanelTypes
<1>3. Switches'
  BY Zenon DEF Switches
<1>4. SectionsFit'
  BY DEF PanelTypes, SectionsFit, JobOfStep
<1>5. OneTask' /\ ActionNamed' /\ NewestKept'
  BY DEF OneTask, ActionNamed, FileReads, NoTask, AsksToStart, NewestKept,
    Newest
<1> QED BY <1>2, <1>3, <1>4, <1>5

(* The runner that got the task starts the process.                        *)
LEMMA PopenKeeps ==
  ASSUME PInvariant, NEW r \in Runners, Popen(r) PROVE PInvariant'
<1>1. /\ step[r] = "popen" /\ section[r] = Nil
      /\ step' = [step EXCEPT ![r] = "record"]
      /\ child' = [child EXCEPT ![r] = "live"]
      /\ UNCHANGED <<stateFile, lock, section, currentProc, cancelled, up, orphan, noteNo,
                     cleared, lost>>
  BY DEF Popen, notes
<1> r \in Threads /\ r \notin Requests
  BY ThreadsAssumption DEF Threads
<1> USE <1>1, ThreadsAssumption DEF PInvariant
<1>2. /\ step'[r] = "record" /\ \A u \in Threads \ {r} : step'[u] = step[u]
  BY DEF PanelTypes
<1>3. PanelTypes'
  BY DEF PanelTypes, Steps
<1>4. Switches'
  BY Zenon DEF Switches
<1>5. SectionsFit'
  BY <1>2 DEF PanelTypes, SectionsFit, JobOfStep, Threads
<1>6. OneTask'
  BY <1>2 DEF OneTask, AsksToStart, Threads
<1>7. ActionNamed'
  BY <1>2 DEF ActionNamed, FileReads, NoTask, AsksToStart, Threads
<1>8. NewestKept'
  BY DEF NewestKept, FileReads, Newest
<1> QED BY <1>3, <1>4, <1>5, <1>6, <1>7, <1>8

(* A watcher that ends leaves its task to its runner.                      *)
LEMMA ChildEndsKeeps ==
  ASSUME PInvariant, ChildEnds PROVE PInvariant'
<1>1. /\ \/ orphan' = FALSE /\ UNCHANGED child
         \/ \E r \in Runners : child[r] = "live" /\ UNCHANGED orphan
                               /\ child' = [child EXCEPT ![r] = "ended"]
      /\ UNCHANGED <<stateFile, lock, section, step, currentProc, cancelled, up, noteNo,
                     cleared, lost>>
  BY DEF ChildEnds, memory, notes
<1> USE <1>1, ThreadsAssumption DEF PInvariant
<1>2. PanelTypes'
  BY DEF PanelTypes
<1>3. Switches'
  BY Zenon DEF Switches
<1>4. SectionsFit'
  BY DEF PanelTypes, SectionsFit, JobOfStep
<1>5. OneTask' /\ ActionNamed' /\ NewestKept'
  BY DEF OneTask, ActionNamed, FileReads, NoTask, AsksToStart, NewestKept,
    Newest
<1> QED BY <1>2, <1>3, <1>4, <1>5

(* A server that is stopped leaves what the file says, and perhaps an      *)
(* orphan, of which the file says that it runs.                            *)
LEMMA StopKeeps ==
  ASSUME PInvariant, Stop PROVE PInvariant'
<1>1. /\ up' = FALSE /\ lock' = Nil /\ section' = [t \in Threads |-> Nil]
      /\ step' = [t \in Threads |-> "idle"] /\ currentProc' = Nil /\ cancelled' = FALSE
      /\ child' = [r \in Runners |-> "none"]
      /\ \/ orphan' = orphan
         \/ orphan' = TRUE /\ \E r \in Runners : child[r] = "live"
      /\ lost' = (lost \/ stateFile = Half \/ \E t \in Requests : section[t] # Nil)
      /\ UNCHANGED <<stateFile, noteNo, cleared>>
  BY DEF Stop, notes
<1>2. /\ lost \in BOOLEAN /\ orphan \in BOOLEAN
      /\ lost' = FALSE => lost = FALSE /\ stateFile # Half
                          /\ \A t \in Requests : section[t] = Nil
  BY <1>1, Zenon DEF PInvariant, Switches
<1>3. orphan' = FALSE \/ orphan = TRUE \/ \E r \in Runners : child[r] = "live"
  BY <1>1, <1>2
<1>4. Switches'
  BY <1>1, Zenon DEF PInvariant, Switches
<1> USE ThreadsAssumption DEF PInvariant
<1>5. PanelTypes'
  BY <1>1 DEF PanelTypes, Steps, Threads
<1>6. SectionsFit'
  BY <1>1 DEF SectionsFit, JobOfStep, Threads
<1>7. lost' = FALSE => FileReads
  BY <1>2 DEF SectionsFit, PanelTypes, FileReads, Threads
<1>8. lost' = FALSE => stateFile # Half /\ (stateFile.cur = Nil => orphan' = FALSE)
  BY <1>2, <1>3, <1>7 DEF ActionNamed, NoTask, SectionsFit
<1>9. OneTask' /\ ActionNamed'
  BY <1>1, <1>8 DEF OneTask, ActionNamed, NoTask, AsksToStart, Threads
<1>10. NewestKept'
  BY <1>1, <1>2, <1>7 DEF NewestKept, FileReads, Newest
<1> QED BY <1>4, <1>5, <1>6, <1>9, <1>10

(* Every step of the panel keeps the invariant.                            *)
LEMMA PanelNextInv == PInvariant /\ [PanelNext]_panelVars => PInvariant'
<1> SUFFICES ASSUME PInvariant, [PanelNext]_panelVars PROVE PInvariant'
  OBVIOUS
<1>1. ASSUME Restart \/ UNCHANGED panelVars PROVE PInvariant'
  <2>1. UNCHANGED <<stateFile, lock, section, step, currentProc, child, orphan,
                    cancelled, noteNo, cleared, lost>>
        /\ (up' = TRUE \/ up' = up)
    BY <1>1 DEF Restart, panelVars, memory, notes
  <2>2. Switches'
    BY <2>1, Zenon DEF PInvariant, Switches
  <2> QED BY <2>1, <2>2 DEF PInvariant, PanelTypes, SectionsFit, JobOfStep,
    OneTask,
             ActionNamed, FileReads, NoTask, AsksToStart, NewestKept, Newest
<1>2. CASE Threading
  BY <1>2, EmptyKeeps, FillKeeps, SpawnKeeps, PopenKeeps, PopenFailsKeeps,
     RecordKeeps, FinishKeeps DEF Threading
<1>3. CASE Asked
  BY <1>3, CancelKeeps, RunKeeps, NoteKeeps, ClearNotesKeeps DEF Asked
<1> QED BY <1>1, <1>2, <1>3, LineKeeps, ChildEndsKeeps, StopKeeps DEF PanelNext

(* The invariant of the panel implies the property that the run checks.    *)
LEMMA PanelHolds == PInvariant => PanelInv
<1> SUFFICES ASSUME PInvariant PROVE PanelInv
  OBVIOUS
<1>1. PanelTypeOK
  BY Zenon DEF PInvariant, PanelTypes, Switches, PanelTypeOK
<1>2. NotesStay
  <2> SUFFICES ASSUME lock = Nil, lost = FALSE, NEW n \in cleared + 1 .. noteNo,
                      n + NotesKept > noteNo
               PROVE  Contains(stateFile.notes, n)
    BY Zenon DEF NotesStay, PInvariant, Switches
  <2>1. /\ stateFile.notes \in Seq(Nat)
        /\ NewestOf(stateFile.notes, noteNo, cleared)
    BY DEF PInvariant, PanelTypes, ActionNamed, NewestKept, FileReads, Newest,
      States
  <2>2. noteNo \in Nat /\ cleared \in Nat /\ NotesKept \in Nat
    BY PanelAssumption DEF PInvariant, PanelTypes
  <2>3. noteNo + 1 - n \in 1..Len(stateFile.notes)
    BY <2>1, <2>2 DEF NewestOf
  <2>4. stateFile.notes[noteNo + 1 - n] = n
    BY <2>1, <2>2, <2>3, SMTT(30) DEF NewestOf
  <2> QED BY <2>3, <2>4, SMTT(30) DEF Contains
<1>3. OneWatcher
  <2> SUFFICES ASSUME lost = FALSE
               PROVE  Cardinality(Working) + (IF orphan THEN 1 ELSE 0) <= 1
    BY Zenon DEF OneWatcher, PInvariant, Switches
  <2>1. Working = {r \in Runners : step[r] # "idle"}
    BY DEF Working, PInvariant, PanelTypes, SectionsFit
  <2>2. CASE Working = {}
    BY <2>2, FS_EmptySet
  <2>3. CASE Working # {}
    <3>1. PICK r \in Runners : Working = {r} /\ orphan = FALSE
      BY <2>1, <2>3 DEF PInvariant, OneTask
    <3>2. Cardinality(Working) = 1
      BY <3>1, FS_Singleton
    <3>3. (IF orphan THEN 1 ELSE 0) = 0
      BY <3>1
    <3> QED BY <3>2, <3>3
  <2> QED BY <2>2, <2>3
<1> QED BY <1>1, <1>2, <1>3 DEF PanelInv

(* However requests, runner threads, cancellations and restarts            *)
(* interleave, no save of server_state.json undoes another one, and there  *)
(* is one watcher (server.py, state_lock).                                 *)
THEOREM PanelKeepsItsWord == PanelSpec => []PanelInv
BY PanelInitInv, PanelNextInv, PanelHolds, PTL DEF PanelSpec

-----------------------------------------------------------------------------
(* Least and greatest elements *)

Less == {ss \in Nat \X Nat : ss[1] < ss[2]}

(* The order of the naturals, as a set of pairs.                           *)
LEMMA LessIsWellFounded == IsWellFoundedOn(Less, Nat)
BY NatLessThanWellFounded DEF OpToRel, Less

(* A set of naturals has a least element.                                  *)
LEMMA Least ==
  ASSUME NEW T \in SUBSET Nat, T # {}
  PROVE  \E x \in T : \A y \in T : x <= y
<1>1. PICK x \in T : \A y \in T : ~(<<y, x>> \in Less)
  BY LessIsWellFounded, WFMin
<1>2. \A y \in T : ~(y < x)
  BY <1>1 DEF Less
<1> QED BY <1>2

(* A bounded one has a greatest element.                                   *)
LEMMA Greatest ==
  ASSUME NEW b \in Nat, NEW T \in SUBSET (0..b), T # {}
  PROVE  \E x \in T : \A y \in T : y <= x
<1> DEFINE U == {u \in Nat : \E y \in T : u = b - y}
<1>1. U # {} /\ U \in SUBSET Nat
  <2>1. PICK y \in T : TRUE
     OBVIOUS
  <2>2. b - y \in U
    BY <2>1
  <2> QED BY <2>2
<1>2. PICK u \in U : \A v \in U : u <= v
  BY <1>1, Least
<1>3. PICK x \in T : u = b - x
  BY <1>2
<1>4. ASSUME NEW y \in T PROVE y <= x
  <2>1. b - y \in U
    OBVIOUS
  <2> QED BY <2>1, <1>2, <1>3
<1> QED BY <1>4

(* What Min returns.                                                       *)
LEMMA MinIs ==
  ASSUME NEW T \in SUBSET Nat, T # {}
  PROVE  Min(T) \in T /\ \A y \in T : Min(T) <= y
BY Least DEF Min

(* What Max returns.                                                       *)
LEMMA MaxIs ==
  ASSUME NEW b \in Nat, NEW T \in SUBSET (0..b), T # {}
  PROVE  Max(T) \in T /\ \A y \in T : Max(T) >= y
BY Greatest DEF Max

-----------------------------------------------------------------------------
(* The watcher *)

Pages    == [channel : Channels \cup {None}, from : Nat, owed : SUBSET Nat, count : Nat,
             still : Int, turns : Nat, late : 0..3]
WatcherSteps == {"off", "load", "launch", "discover", "visit", "write", "save", "fill",
                 "choose", "scroll", "dump"}

(* The steps of a process that has changed nothing yet.                    *)
Early == {"off", "load", "launch", "discover", "choose", "scroll", "dump"}

(* What a configuration has seen was posted.                               *)
SeenPosts(k) == \A c \in DOMAIN k.last : k.last[c] # None => k.last[c] \in DOMAIN posts

(* What a process holds at each of its steps.                              *)
Holds(p) ==
  /\ pc[p] \in Early => batch[p] = {} /\ cfg[p].last = read[p]
  /\ pc[p] \in {"off", "load"} => cfg[p] = Fresh
  /\ pc[p] = "load" => mode[p] # "complete"
  /\ mode[p] = "complete" => DOMAIN read[p] = {}
  /\ pc[p] = "visit" => \A c \in todo[p] :
       c \in DOMAIN cfg[p].last /\ c \in DOMAIN read[p] /\ cfg[p].last[c] = read[p][c]
  /\ pc[p] \in {"save", "fill"} => batch[p] \subseteq filed
  /\ pc[p] \in {"visit", "write"} => mode[p] = "poll"

(* What lies between the message a process read and the one it will save.  *)
Covered(p, c) ==
  read[p][c] # None =>
    /\ cfg[p].last[c] # None
    /\ \A m \in OfChannel(c) :
         /\ read[p][c] < m /\ m <= cfg[p].last[c]
         /\ Cardinality({n \in OfChannel(c) : m < n /\ n <= cfg[p].last[c]}) < View
         => m \in filed \cup batch[p]

(* A configuration is ahead of the files.                                  *)
Ahead(k) ==
  /\ k.date # None => k.date <= day
  /\ k.date = day => \A n \in 1..MaxFiles : files[<<day, n>>] # {} => n <= k.seq
  /\ \A c \in DOMAIN k.last :
                 k.last[c] # None => \A m \in filed \cap OfChannel(c) : m <= k.last[c]

(* What a poll found is not filed yet, and its configuration knows it.     *)
NewBatch(p) ==
  /\ \A c \in DOMAIN cfg[p].last :
       cfg[p].last[c] # None => \A m \in batch[p] \cap OfChannel(c) : m <= cfg[p].last[c]
  /\ pc[p] \in {"visit", "write"} => batch[p] \cap filed = {}

(* Nothing is filed before there is a configuration.                       *)
NoneFiledBefore ==
  config = Absent =>
    /\ filed = {}
    /\ \A p \in Procs : mode[p] \in {"poll", "scrape"} => pc[p] \in {"off", "load"}

(* As long as one process runs at a time and none was killed: the next one *)
(* will load a configuration that is ahead of the files.                   *)
OneAtATime ==
  clean = TRUE =>
    /\ \A p, q \in Procs : pc[p] # "off" /\ pc[q] # "off" => p = q
    /\ config = Torn => \E p \in Procs : pc[p] = "fill"
    /\ config \notin {Absent, Torn} /\ (\A p \in Procs : pc[p] \notin {"save", "fill"}) => Ahead(config)
    /\ \A p \in Procs : Ahead(cfg[p]) /\ NewBatch(p)

(* A page that scrolls has counted what it has; while older messages are   *)
(* missing, every repetition of a count was a late look.                   *)
ScrollHolds(p) ==
  pc[p] \in {"scroll", "dump"} =>
    /\ scroll[p].channel \in Channels /\ scroll[p].from \in OfChannel(scroll[p].channel)
    /\ scroll[p].owed \subseteq OfChannel(scroll[p].channel)
    /\ scroll[p].still >= -1
    /\ Older(p) # {} => scroll[p].late = 3 \/ scroll[p].late >= scroll[p].still
    /\ scroll[p].still # -1 => scroll[p].count <= Cardinality(InPage(p))
    /\ pc[p] = "dump" => AtTheTop(p)

WatcherTypes ==
  /\ posts \in Seq(Channels) /\ day \in 1..MaxDays
  /\ browser \in Procs \cup {None}
  /\ config \in Configs \cup {Absent, Torn}
  /\ files \in [(1..MaxDays) \X (1..MaxFiles) -> SUBSET Nat] /\ filed \in SUBSET Nat
  /\ pc \in [Procs -> WatcherSteps] /\ mode \in [Procs -> Modes]
  /\ cfg \in [Procs -> Configs] /\ read \in [Procs -> LastSeen]
  /\ todo \in [Procs -> SUBSET Channels] /\ batch \in [Procs -> SUBSET Nat]
  /\ scroll \in [Procs -> Pages]

(* A new configuration has seen nothing.                                   *)
LEMMA NothingSeen == <<>> \in LastSeen /\ DOMAIN <<>> = {} /\ Fresh \in Configs
<1>1. <<>> \in [{} -> Nat \cup {None}]
  OBVIOUS
<1> QED BY <1>1 DEF LastSeen, Fresh, Configs

(* The page of a process that scrapes nothing.                             *)
LEMMA NoPageIsPage == NoPage \in Pages
BY DEF NoPage, Pages

(* A configuration in which the last message of a channel changes.         *)
LEMMA SeenUpdated ==
  ASSUME NEW f \in LastSeen, NEW c, NEW v \in Nat \cup {None}
  PROVE  [f EXCEPT ![c] = v] \in LastSeen
<1>1. PICK S \in SUBSET Channels : f \in [S -> Nat \cup {None}]
  BY DEF LastSeen
<1>2. [f EXCEPT ![c] = v] \in [S -> Nat \cup {None}]
  BY <1>1
<1> QED BY <1>2 DEF LastSeen

(* What a configuration says of a channel.                                 *)
LEMMA SeenIs ==
  ASSUME NEW f \in LastSeen
  PROVE  DOMAIN f \subseteq Channels /\ \A c \in DOMAIN f : f[c] \in Nat \cup {None}
BY DEF LastSeen

(* A process that ends keeps the types.                                    *)
LEMMA EndsTypes ==
  ASSUME WatcherTypes, NEW p \in Procs, Ends(p), UNCHANGED <<posts, day,
                                                             config, files,
                                                             filed>>
  PROVE  WatcherTypes'
<1> USE NothingSeen, NoPageIsPage DEF WatcherTypes, Ends, Goto, Modes,
  WatcherSteps
<1>1. pc' \in [Procs -> WatcherSteps] /\ mode' \in [Procs -> Modes] /\ cfg' \in [Procs -> Configs]
      /\ read' \in [Procs -> LastSeen] /\ browser' \in Procs \cup {None}
  OBVIOUS
<1>2. todo' \in [Procs -> SUBSET Channels] /\ batch' \in [Procs -> SUBSET Nat] /\ scroll' \in [Procs -> Pages]
  OBVIOUS
<1> QED BY <1>1, <1>2

(* What holds of every process, alone or not.                              *)
Process(p) ==
  /\ Holds(p) /\ ScrollHolds(p)
  /\ \A c \in DOMAIN read[p] \cap DOMAIN cfg[p].last : Covered(p, c)
  /\ SeenPosts(cfg[p]) /\ batch[p] \subseteq DOMAIN posts

Remembered ==
  filed \subseteq DOMAIN posts /\ (config \notin {Absent, Torn} => SeenPosts(config))

FilesInv ==
  clean = TRUE =>
    /\ Written = filed
    /\ \A f, g \in DOMAIN files : f # g => files[f] \cap files[g] = {}

WInv ==
  /\ WatcherTypes /\ clean \in BOOLEAN /\ Remembered /\ (\A p \in Procs : Process(p))
  /\ NoneFiledBefore /\ OneAtATime /\ OneBrowser /\ FilesInv

(* A process that rests.                                                   *)
Same(q) ==
  /\ pc'[q] = pc[q] /\ mode'[q] = mode[q] /\ cfg'[q] = cfg[q] /\ read'[q] = read[q]
  /\ todo'[q] = todo[q] /\ batch'[q] = batch[q] /\ scroll'[q] = scroll[q]

(* What holds of a process holds as long as it rests.                      *)
LEMMA ProcessStays ==
  ASSUME NEW q \in Procs, Process(q), Same(q), posts' = posts, filed \subseteq filed'
  PROVE  Process(q)'
<1> USE DEF Same
<1>1. Holds(q)'
  BY DEF Process, Holds
<1>2. ScrollHolds(q)'
  BY DEF Process, ScrollHolds, OfChannel, Older, InPage, AtTheTop
<1>3. ASSUME NEW c \in DOMAIN read'[q] \cap DOMAIN cfg'[q].last PROVE Covered(q, c)'
  <2>1. Covered(q, c)
    BY DEF Process
  <2> QED BY <2>1 DEF Covered, OfChannel
<1>4. SeenPosts(cfg[q])' /\ (batch[q] \subseteq DOMAIN posts)'
  BY DEF Process, SeenPosts
<1> QED BY <1>1, <1>2, <1>3, <1>4 DEF Process

(* It holds of a process that has ended.                                   *)
LEMMA ProcessEnded ==
  ASSUME WatcherTypes, NEW p \in Procs, Ends(p)
  PROVE  Process(p)' /\ \A q \in Procs \ {p} : Same(q)
<1> USE DEF WatcherTypes, Ends, Goto
<1>1. /\ pc'[p] = "off" /\ mode'[p] = "poll" /\ cfg'[p] = Fresh /\ todo'[p] = {}
      /\ batch'[p] = {} /\ read'[p] = <<>> /\ scroll'[p] = NoPage
  OBVIOUS
<1>2. \A q \in Procs \ {p} : Same(q)
  BY DEF Same
<1>3. Holds(p)'
  BY <1>1, NothingSeen DEF Holds, Early, Fresh
<1>4. Process(p)'
  BY <1>1, <1>3, NothingSeen DEF Process, ScrollHolds, SeenPosts, Fresh
<1> QED BY <1>2, <1>4

(* A process may end, unless it is saving and not killed.                  *)
LEMMA EndsKeeps ==
  ASSUME WInv, NEW p \in Procs, Ends(p), pc[p] # "off",
         UNCHANGED <<posts, day, config, files, filed>>,
         clean' = FALSE \/ (clean' = clean /\ pc[p] \notin {"save", "fill"})
  PROVE  WInv'
<1> USE NoValueAssumption DEF WInv
<1>1. WatcherTypes'
  BY EndsTypes
<1>2. Process(p)' /\ \A q \in Procs \ {p} : Same(q)
  BY ProcessEnded
<1>3. \A q \in Procs : Process(q)'
  BY <1>2, ProcessStays
<1>4. Remembered' /\ FilesInv' /\ clean' \in BOOLEAN
  BY DEF Remembered, FilesInv, Written, SeenPosts
<1>5. /\ pc'[p] = "off" /\ mode'[p] = "poll" /\ cfg'[p] = Fresh /\ batch'[p] = {}
      /\ browser' = IF browser = p THEN None ELSE browser
  BY DEF WatcherTypes, Ends, Goto
<1>6. NoneFiledBefore'
  BY <1>2, <1>5 DEF NoneFiledBefore, Same
<1>7. OneBrowser'
  BY <1>2, <1>5 DEF OneBrowser, Same
<1>8. OneAtATime'
  <2> SUFFICES ASSUME clean' = TRUE PROVE OneAtATime'
    BY DEF OneAtATime
  <2>1. clean = TRUE /\ pc[p] \notin {"save", "fill"}
    OBVIOUS
  <2>2. \A q \in Procs \ {p} : pc[q] = "off" /\ pc'[q] = "off"
    BY <1>2, <2>1 DEF OneAtATime, Same
  <2>3. config # Torn /\ (config # Absent => Ahead(config))
    BY <2>1, <2>2 DEF OneAtATime
  <2>4. config' # Torn /\ (config' # Absent => Ahead(config)')
    BY <2>3 DEF Ahead, OfChannel
  <2>5. ASSUME NEW q \in Procs PROVE Ahead(cfg[q])' /\ NewBatch(q)'
    <3>1. CASE q = p
      BY <1>5, <3>1, NothingSeen DEF Ahead, NewBatch, Fresh, WatcherTypes
    <3>2. CASE q # p
      <4>1. Ahead(cfg[q]) /\ NewBatch(q) /\ Same(q)
        BY <1>2, <2>1, <3>2 DEF OneAtATime
      <4> QED BY <4>1 DEF Ahead, NewBatch, Same, OfChannel
    <3> QED BY <3>1, <3>2
  <2> QED BY <1>5, <2>2, <2>4, <2>5 DEF OneAtATime
<1> QED BY <1>1, <1>3, <1>4, <1>6, <1>7, <1>8

(* A step of one process that leaves the files and the configuration alone. *)
LEMMA MoveKeeps ==
  ASSUME WInv, NEW p \in Procs, pc[p] \notin {"off", "save", "fill"},
         UNCHANGED <<posts, day, config, files, filed, clean>>,
         \A q \in Procs \ {p} : Same(q), mode'[p] = mode[p],
         WatcherTypes', Process(p)', OneBrowser',
         pc[p] # "load" \/ config # Absent \/ mode[p] \notin {"poll", "scrape"},
         clean = TRUE => Ahead(cfg[p])' /\ NewBatch(p)'
  PROVE  WInv'
<1> USE DEF WInv
<1>1. \A q \in Procs : Process(q)'
  BY ProcessStays
<1>2. Remembered' /\ FilesInv' /\ clean' \in BOOLEAN
  BY DEF Remembered, FilesInv, Written, SeenPosts
<1>3. NoneFiledBefore'
  BY DEF NoneFiledBefore, Same
<1>4. OneAtATime'
  <2> SUFFICES ASSUME clean = TRUE PROVE OneAtATime'
    BY DEF OneAtATime
  <2>1. \A q \in Procs \ {p} : pc[q] = "off" /\ pc'[q] = "off"
    BY DEF OneAtATime, Same
  <2>2. config # Torn /\ (config # Absent => Ahead(config))
    BY <2>1 DEF OneAtATime
  <2>3. config' # Torn /\ (config' # Absent => Ahead(config)')
    BY <2>2 DEF Ahead, OfChannel
  <2>4. ASSUME NEW q \in Procs PROVE Ahead(cfg[q])' /\ NewBatch(q)'
    <3>1. CASE q = p
      BY <3>1
    <3>2. CASE q # p
      <4>1. Ahead(cfg[q]) /\ NewBatch(q) /\ Same(q)
        BY <3>2 DEF OneAtATime
      <4> QED BY <4>1 DEF Ahead, NewBatch, Same, OfChannel
    <3> QED BY <3>1, <3>2
  <2> QED BY <2>1, <2>3, <2>4 DEF OneAtATime
<1> QED BY <1>1, <1>2, <1>3, <1>4

(* A configuration that was loaded is what the process begins with.        *)
LEMMA LoadKeeps ==
  ASSUME WInv, NEW p \in Procs, Load(p) PROVE WInv'
<1>1. pc[p] = "load" /\ UNCHANGED <<posts, day, config, files, filed, kills,
                                    clean>>
  BY DEF Load, world, disk
<1>2. CASE config = Torn \/ (config = Absent /\ mode[p] \in {"poll", "scrape"})
  <2>1. Ends(p)
    BY <1>2 DEF Load
  <2> QED BY <1>1, <2>1, EndsKeeps
<1>3. CASE ~(config = Torn \/ (config = Absent /\ mode[p] \in {"poll", "scrape"}))
  <2> DEFINE new == IF config = Absent THEN Fresh ELSE config
  <2>1. /\ cfg' = [cfg EXCEPT ![p] = new] /\ read' = [read EXCEPT ![p] = cfg'[p].last]
        /\ pc' = [pc EXCEPT ![p] = "launch"] /\ UNCHANGED <<mode, todo, batch,
                                                            scroll, browser>>
    BY <1>3 DEF Load, Goto
  <2>2. new \in Configs /\ (config = Absent => new = Fresh) /\ (config # Absent => new = config)
    BY <1>3, NothingSeen DEF WInv, WatcherTypes
  <2> HIDE DEF new
  <2>3. new.last \in LastSeen
    BY <2>2 DEF Configs
  <2> USE <1>1, <2>1, <2>2, <2>3 DEF WInv
  <2>4. WatcherTypes'
    BY DEF WatcherTypes, WatcherSteps
  <2>5. /\ pc'[p] = "launch" /\ mode'[p] = mode[p] /\ cfg'[p] = new /\ todo'[p] = todo[p]
        /\ batch'[p] = batch[p] /\ read'[p] = new.last
        /\ \A q \in Procs \ {p} : Same(q)
    BY DEF WatcherTypes, Same
  <2>6. Holds(p)'
    BY <2>5 DEF Process, Holds, Early
  <2>8. SeenPosts(new)
    BY <1>3, NothingSeen DEF Remembered, SeenPosts, Fresh
  <2>9. Process(p)'
    <3>1. ASSUME NEW c \in DOMAIN new.last PROVE Covered(p, c)'
      <4>1. new.last[c] \in Nat \cup {None}
        BY SeenIs
      <4>2. posts \in Seq(Channels)
        BY DEF WatcherTypes
      <4> QED BY <2>5, <4>1, <4>2 DEF Covered, OfChannel
    <3> QED BY <2>5, <2>6, <2>8, <3>1 DEF Process, ScrollHolds, SeenPosts
  <2>10. OneBrowser'
    BY <2>5 DEF OneBrowser, Same
  <2>11. clean = TRUE => Ahead(cfg[p])' /\ NewBatch(p)'
    <3> SUFFICES ASSUME clean = TRUE PROVE Ahead(cfg[p])' /\ NewBatch(p)'
      OBVIOUS
    <3>1. \A q \in Procs : pc[q] \notin {"save", "fill"}
      BY DEF OneAtATime
    <3>2. Ahead(new)
      BY <1>3, <3>1, NoValueAssumption, NothingSeen DEF OneAtATime, Ahead,
        Fresh, WatcherTypes
    <3>3. batch[p] = {}
      BY DEF Process, Holds, Early
    <3> QED BY <2>5, <3>2, <3>3 DEF Ahead, NewBatch, OfChannel
  <2> QED BY <1>3, <2>4, <2>5, <2>9, <2>10, <2>11, MoveKeeps
<1> QED BY <1>2, <1>3

(* A process with the browser asks for every channel it knows.             *)
LEMMA LaunchKeeps ==
  ASSUME WInv, NEW p \in Procs, Launch(p) PROVE WInv'
<1>1. pc[p] = "launch" /\ UNCHANGED <<posts, day, config, files, filed, kills,
                                      clean>>
  BY DEF Launch, world, disk
<1>2. CASE Ends(p)
  BY <1>1, <1>2, EndsKeeps
<1>3. CASE ~Ends(p)
  <2> DEFINE next == CASE mode[p] = "poll" -> "visit" [] mode[p] = "scrape" -> "choose"
                       [] OTHER -> "discover"
  <2>1. /\ browser = None /\ browser' = p
        /\ todo' = [todo EXCEPT ![p] = DOMAIN cfg[p].last]
        /\ pc' = [pc EXCEPT ![p] = next] /\ UNCHANGED <<mode, cfg, batch, read,
                                                        scroll>>
    BY <1>3 DEF Launch, Goto
  <2>2. /\ next \in {"visit", "choose", "discover"} /\ (next = "visit" => mode[p] = "poll")
    OBVIOUS
  <2> HIDE DEF next
  <2> USE <1>1, <2>1, <2>2 DEF WInv
  <2>3. cfg[p] \in Configs /\ cfg[p].last \in LastSeen /\ DOMAIN cfg[p].last \subseteq Channels
        /\ cfg[p].last = read[p] /\ batch[p] = {}
    BY SeenIs DEF WatcherTypes, Configs, Process, Holds, Early
  <2>4. WatcherTypes'
    BY <2>3 DEF WatcherTypes, WatcherSteps
  <2>5. /\ pc'[p] = next /\ mode'[p] = mode[p] /\ cfg'[p] = cfg[p]
        /\ todo'[p] = DOMAIN cfg[p].last /\ batch'[p] = batch[p] /\ read'[p] = read[p]
        /\ \A q \in Procs \ {p} : Same(q)
    BY DEF WatcherTypes, Same
  <2>6. Holds(p)'
    BY <2>3, <2>5 DEF Process, Holds, Early
  <2>7. \A c \in DOMAIN read[p] \cap DOMAIN cfg[p].last : Covered(p, c)'
    BY <2>5 DEF Process, Covered, OfChannel
  <2>8. Process(p)'
    BY <2>5, <2>6, <2>7 DEF Process, ScrollHolds, SeenPosts
  <2>9. OneBrowser'
    BY <2>5, NoValueAssumption DEF OneBrowser, Same
  <2>10. clean = TRUE => Ahead(cfg[p])' /\ NewBatch(p)'
    BY <2>3, <2>5 DEF OneAtATime, Ahead, NewBatch, OfChannel
  <2> QED BY <2>4, <2>5, <2>8, <2>9, <2>10, MoveKeeps
<1> QED BY <1>2, <1>3

(* A page that is no channel, and a scrape that is done, change no file.   *)
LEMMA StrangerKeeps ==
  ASSUME WInv, NEW p \in Procs, Stranger(p) \/ AllScraped(p) PROVE WInv'
<1>1. pc[p] \in {"discover", "visit", "choose"} /\ Ends(p)
      /\ UNCHANGED <<posts, day, config, files, filed, clean>>
  BY DEF Stranger, AllScraped, world, disk
<1> QED BY <1>1, EndsKeeps

(* A process may be killed at any step.                                    *)
LEMMA KillKeeps ==
  ASSUME WInv, NEW p \in Procs, Kill(p) PROVE WInv'
<1>1. pc[p] # "off" /\ Ends(p) /\ clean' = FALSE
      /\ UNCHANGED <<posts, day, config, files, filed>>
  BY DEF Kill, Die, world, disk
<1> QED BY <1>1, EndsKeeps

(* Nothing lies between a message and itself.                              *)
LEMMA CoveredWhenEqual ==
  ASSUME NEW p \in Procs, NEW c, posts' \in Seq(Channels), read'[p] \in LastSeen,
         c \in DOMAIN read'[p], cfg'[p].last[c] = read'[p][c]
  PROVE  Covered(p, c)'
<1>1. read'[p][c] \in Nat \cup {None}
  BY SeenIs
<1> QED BY <1>1, NoValueAssumption DEF Covered, OfChannel

(* Both discoveries: the channels that were found, with what was seen of   *)
(* them before or nothing.                                                 *)
LEMMA DiscoveryKeeps ==
  ASSUME WInv, NEW p \in Procs, NEW new \in LastSeen, pc[p] = "discover",
         pc' = [pc EXCEPT ![p] = "save"], cfg' = [cfg EXCEPT ![p].last = new],
         \A c \in DOMAIN new : new[c] = None \/ (c \in DOMAIN cfg[p].last /\ new[c] = cfg[p].last[c]),
         \A c \in DOMAIN new \cap DOMAIN read[p] : new[c] = read[p][c],
         UNCHANGED <<posts, day, config, files, filed, browser, mode, todo,
                     batch, read, scroll, clean>>
  PROVE  WInv'
<1> USE DEF WInv
<1>1. cfg[p] \in Configs /\ cfg[p].last = read[p] /\ batch[p] = {}
  BY DEF WatcherTypes, Process, Holds, Early
<1>2. [cfg[p] EXCEPT !.last = new] \in Configs
  BY <1>1 DEF Configs
<1>3. WatcherTypes'
  BY <1>2 DEF WatcherTypes, WatcherSteps
<1>4. /\ pc'[p] = "save" /\ mode'[p] = mode[p] /\ cfg'[p] = [cfg[p] EXCEPT !.last = new]
      /\ cfg'[p].last = new /\ cfg'[p].date = cfg[p].date /\ cfg'[p].seq = cfg[p].seq
      /\ todo'[p] = todo[p] /\ batch'[p] = {} /\ read'[p] = read[p] /\ read[p] \in LastSeen
      /\ posts' \in Seq(Channels) /\ \A q \in Procs \ {p} : Same(q)
  BY <1>1 DEF WatcherTypes, Same, Configs
<1>5. Holds(p)'
  BY <1>4 DEF Process, Holds, Early
<1>6. \A c \in DOMAIN read'[p] \cap DOMAIN cfg'[p].last : Covered(p, c)'
  BY <1>4, CoveredWhenEqual
<1>7. SeenPosts(cfg[p])'
  BY <1>4 DEF Process, SeenPosts
<1>8. Process(p)'
  BY <1>4, <1>5, <1>6, <1>7 DEF Process, ScrollHolds
<1>9. OneBrowser'
  BY <1>4 DEF OneBrowser, Same
<1>10. clean = TRUE => Ahead(cfg[p])' /\ NewBatch(p)'
  BY <1>4 DEF OneAtATime, Ahead, NewBatch, OfChannel
<1> QED BY <1>3, <1>4, <1>8, <1>9, <1>10, MoveKeeps

(* login keeps what was seen of the channels that it finds.                *)
LEMMA DiscoverKeeps ==
  ASSUME WInv, NEW p \in Procs, Discover(p) PROVE WInv'
<1>1. PICK found \in SUBSET Channels :
        /\ pc[p] = "discover" /\ pc' = [pc EXCEPT ![p] = "save"]
        /\ cfg' = [cfg EXCEPT ![p].last =
             [c \in found |-> IF c \in DOMAIN cfg[p].last THEN cfg[p].last[c] ELSE None]]
        /\ UNCHANGED <<posts, day, config, files, filed, browser, mode, todo,
                       batch, read, scroll, clean>>
  BY DEF Discover, Goto, world, disk
<1> DEFINE new == [c \in found |-> IF c \in DOMAIN cfg[p].last THEN cfg[p].last[c] ELSE None]
<1>2. cfg[p].last \in LastSeen /\ cfg[p].last = read[p]
  BY <1>1 DEF WInv, WatcherTypes, Configs, Process, Holds, Early
<1>3. new \in LastSeen
  <2>1. new \in [found -> Nat \cup {None}]
    BY <1>2, SeenIs
  <2> QED BY <2>1 DEF LastSeen
<1>4. /\ \A c \in DOMAIN new : new[c] = None \/ (c \in DOMAIN cfg[p].last /\ new[c] = cfg[p].last[c])
      /\ \A c \in DOMAIN new \cap DOMAIN read[p] : new[c] = read[p][c]
      /\ cfg' = [cfg EXCEPT ![p].last = new]
  BY <1>1, <1>2
<1> HIDE DEF new
<1> QED BY <1>1, <1>3, <1>4, DiscoveryKeeps

(* complete_login begins anew.                                             *)
LEMMA DiscoverAfreshKeeps ==
  ASSUME WInv, NEW p \in Procs, DiscoverAfresh(p) PROVE WInv'
<1>1. PICK found \in SUBSET Channels :
        /\ pc[p] = "discover" /\ mode[p] = "complete" /\ pc' = [pc EXCEPT ![p] = "save"]
        /\ cfg' = [cfg EXCEPT ![p].last = [c \in found |-> None]]
        /\ UNCHANGED <<posts, day, config, files, filed, browser, mode, todo,
                       batch, read, scroll, clean>>
  BY DEF DiscoverAfresh, Goto, world, disk
<1> DEFINE new == [c \in found |-> None]
<1>2. DOMAIN read[p] = {}
  BY <1>1 DEF WInv, Process, Holds
<1>3. new \in LastSeen
  <2>1. new \in [found -> Nat \cup {None}]
    OBVIOUS
  <2> QED BY <2>1 DEF LastSeen
<1>4. /\ \A c \in DOMAIN new : new[c] = None
      /\ cfg' = [cfg EXCEPT ![p].last = new]
  BY <1>1
<1> HIDE DEF new
<1> QED BY <1>1, <1>2, <1>3, <1>4, DiscoveryKeeps

(* The last rendered message is the last one there is, and what fewer than *)
(* View messages follow is rendered.                                       *)
LEMMA RenderedLast ==
  ASSUME posts \in Seq(Channels), NEW c, Rendered(c) # {}
  PROVE  /\ Max(Rendered(c)) \in OfChannel(c) /\ Max(Rendered(c)) \in Nat
         /\ \A m \in OfChannel(c) : m \in Nat /\ m <= Max(Rendered(c))
         /\ \A m \in OfChannel(c) :
              Cardinality({n \in OfChannel(c) : m < n /\ n <= Max(Rendered(c))}) < View
                => m \in Rendered(c)
<1>1. Len(posts) \in Nat /\ OfChannel(c) \subseteq 0..Len(posts) /\ OfChannel(c) \subseteq Nat
  BY DEF OfChannel
<1>2. Rendered(c) \subseteq OfChannel(c)
  BY DEF Rendered
<1> DEFINE g == Max(OfChannel(c))
<1>3. g \in OfChannel(c) /\ \A m \in OfChannel(c) : g >= m
  BY <1>1, <1>2, MaxIs
<1> HIDE DEF g
<1>4. {n \in OfChannel(c) : n > g} = {}
  BY <1>1, <1>3
<1>5. g \in Rendered(c)
  BY <1>3, <1>4, FS_EmptySet, WatcherAssumption DEF Rendered
<1>6. Max(Rendered(c)) \in Rendered(c) /\ \A m \in Rendered(c) : Max(Rendered(c)) >= m
  BY <1>1, <1>2, MaxIs
<1>7. Max(Rendered(c)) = g
  BY <1>1, <1>2, <1>3, <1>5, <1>6
<1>8. ASSUME NEW m \in OfChannel(c),
             Cardinality({n \in OfChannel(c) : m < n /\ n <= Max(Rendered(c))}) < View
      PROVE  m \in Rendered(c)
  <2>1. {n \in OfChannel(c) : m < n /\ n <= Max(Rendered(c))} = {n \in OfChannel(c) : n > m}
    BY <1>1, <1>3, <1>7
  <2> QED BY <1>8, <2>1 DEF Rendered
<1> QED BY <1>1, <1>3, <1>7, <1>8

(* What a poll passes over is in its batch, and none of it was filed.      *)
LEMMA PollKeeps ==
  ASSUME WInv, NEW p \in Procs, PollChannel(p) PROVE WInv'
<1>1. PICK c \in todo[p] :
        /\ pc[p] = "visit" /\ Rendered(c) # {}
        /\ todo' = [todo EXCEPT ![p] = @ \ {c}]
        /\ cfg' = [cfg EXCEPT ![p].last[c] = Max(Rendered(c))]
        /\ batch' = IF cfg[p].last[c] = None THEN batch
                    ELSE [batch EXCEPT ![p] = @ \cup NewIn(p, c)]
        /\ UNCHANGED <<posts, day, config, files, filed, browser, pc, mode,
                       read, scroll, clean>>
  BY DEF PollChannel, world, disk
<1> USE NoValueAssumption DEF WInv
<1>2. posts \in Seq(Channels) /\ posts' = posts
  BY <1>1 DEF WatcherTypes
<1> DEFINE top == Max(Rendered(c))
<1>3. /\ top \in OfChannel(c) /\ top \in Nat /\ top # None
      /\ \A m \in OfChannel(c) : m \in Nat /\ m <= top
      /\ \A m \in OfChannel(c) :
           Cardinality({n \in OfChannel(c) : m < n /\ n <= top}) < View => m \in Rendered(c)
  BY <1>1, <1>2, RenderedLast
<1>4. cfg' = [cfg EXCEPT ![p].last[c] = top]
  BY <1>1
<1> HIDE DEF top
<1>5. /\ cfg[p] \in Configs /\ cfg[p].last \in LastSeen /\ c \in DOMAIN cfg[p].last
      /\ c \in DOMAIN read[p] /\ cfg[p].last[c] = read[p][c] /\ read[p] \in LastSeen
      /\ todo[p] \subseteq Channels
  BY <1>1 DEF WatcherTypes, Configs, Process, Holds
<1>6. cfg[p].last[c] \in Nat \cup {None} /\ DOMAIN cfg[p].last \subseteq Channels
  BY <1>5, SeenIs
<1> DEFINE new == [cfg[p].last EXCEPT ![c] = top]
<1>7. /\ new \in LastSeen /\ DOMAIN new = DOMAIN cfg[p].last /\ new[c] = top
      /\ \A d \in DOMAIN new \ {c} : new[d] = cfg[p].last[d]
  BY <1>3, <1>5, SeenUpdated DEF LastSeen
<1>8. cfg' = [cfg EXCEPT ![p] = [cfg[p] EXCEPT !.last = new]]
  BY <1>4 DEF WatcherTypes
<1> HIDE DEF new
<1> DEFINE more == IF cfg[p].last[c] = None THEN {} ELSE NewIn(p, c)
<1>9. batch' = [batch EXCEPT ![p] = batch[p] \cup more] /\ todo' = [todo EXCEPT ![p] = todo[p] \ {c}]
  <2>1. batch \in [Procs -> SUBSET Nat] /\ todo' = [todo EXCEPT ![p] = todo[p] \ {c}]
    BY <1>1 DEF WatcherTypes
  <2>2. CASE cfg[p].last[c] = None
    <3>1. batch' = batch /\ batch[p] \cup more = batch[p]
      BY <1>1, <2>2
    <3> QED BY <2>1, <3>1
  <2>3. CASE cfg[p].last[c] # None
    BY <1>1, <2>1, <2>3
  <2> QED BY <2>1, <2>2, <2>3
<1>10. /\ more \subseteq OfChannel(c) /\ more \subseteq Nat
       /\ more # {} => cfg[p].last[c] # None /\ \A m \in more : m > cfg[p].last[c]
       /\ cfg[p].last[c] # None => \A m \in Rendered(c) : m > cfg[p].last[c] => m \in more
  BY <1>3 DEF NewIn, Rendered
<1> HIDE DEF more
<1>11. [cfg[p] EXCEPT !.last = new] \in Configs
  BY <1>5, <1>7 DEF Configs
<1>12. WatcherTypes'
  <2>1. batch[p] \cup more \in SUBSET Nat /\ todo[p] \ {c} \in SUBSET Channels
    BY <1>5, <1>10 DEF WatcherTypes
  <2>2. cfg' \in [Procs -> Configs]
    BY <1>8, <1>11 DEF WatcherTypes
  <2>3. batch' \in [Procs -> SUBSET Nat] /\ todo' \in [Procs -> SUBSET Channels]
    BY <1>9, <2>1 DEF WatcherTypes
  <2> QED BY <1>1, <2>2, <2>3 DEF WatcherTypes
<1>13. /\ pc'[p] = "visit" /\ mode'[p] = mode[p] /\ cfg'[p] = [cfg[p] EXCEPT !.last = new]
       /\ cfg'[p].last = new /\ cfg'[p].date = cfg[p].date /\ cfg'[p].seq = cfg[p].seq
       /\ todo'[p] = todo[p] \ {c} /\ batch'[p] = batch[p] \cup more /\ read'[p] = read[p]
       /\ \A q \in Procs \ {p} : Same(q)
  <2>1. cfg'[p] = [cfg[p] EXCEPT !.last = new] /\ batch'[p] = batch[p] \cup more
        /\ todo'[p] = todo[p] \ {c} /\ \A q \in Procs \ {p} : Same(q)
    BY <1>1, <1>8, <1>9 DEF WatcherTypes, Same
  <2> QED BY <1>1, <1>5, <2>1 DEF Configs
<1>14. Holds(p)'
  BY <1>1, <1>5, <1>7, <1>13 DEF Process, Holds, Early
<1>15. ASSUME NEW d \in DOMAIN read'[p] \cap DOMAIN cfg'[p].last PROVE Covered(p, d)'
  <2>1. CASE d = c
    <3> SUFFICES ASSUME read[p][c] # None, NEW m \in OfChannel(c), read[p][c] < m, m <= top,
                        Cardinality({n \in OfChannel(c) : m < n /\ n <= top}) < View
                 PROVE  m \in more
      BY <1>1, <1>2, <1>3, <1>7, <1>13, <2>1 DEF Covered, OfChannel
    <3> QED BY <1>3, <1>5, <1>10
  <2>2. CASE d # c
    <3>1. Covered(p, d) /\ cfg'[p].last[d] = cfg[p].last[d]
      BY <1>7, <1>13, <2>2 DEF Process
    <3> QED BY <1>1, <1>2, <1>13, <3>1 DEF Covered, OfChannel
  <2> QED BY <2>1, <2>2
<1>16. SeenPosts(cfg[p])' /\ (batch[p] \subseteq DOMAIN posts)'
  BY <1>2, <1>3, <1>7, <1>10, <1>13 DEF Process, SeenPosts, OfChannel
<1>17. Process(p)'
  BY <1>13, <1>14, <1>15, <1>16 DEF Process, ScrollHolds
<1>18. OneBrowser'
  BY <1>1 DEF OneBrowser
<1>19. ASSUME clean = TRUE PROVE Ahead(cfg[p])' /\ NewBatch(p)'
  <2>1. Ahead(cfg[p]) /\ NewBatch(p) /\ batch[p] \cap filed = {}
        /\ batch[p] \subseteq DOMAIN posts /\ filed \subseteq DOMAIN posts
    BY <1>1, <1>19 DEF OneAtATime, NewBatch, Process, Remembered
  <2>2. \A m \in (filed \cup batch[p] \cup more) \cap OfChannel(c) : m <= top
    BY <1>3
  <2>3. \A d \in DOMAIN new \ {c} : more \cap OfChannel(d) = {}
    BY <1>10 DEF OfChannel
  <2>4. more \cap filed = {}
    <3> SUFFICES ASSUME NEW m \in more, m \in filed PROVE FALSE
      OBVIOUS
    <3>1. cfg[p].last[c] # None /\ m > cfg[p].last[c] /\ m \in OfChannel(c) /\ m \in Nat
      BY <1>10
    <3>2. m <= cfg[p].last[c]
      BY <1>5, <2>1, <3>1 DEF Ahead
    <3> QED BY <1>6, <3>1, <3>2
  <2>5. Ahead(cfg[p])'
    BY <1>1, <1>2, <1>7, <1>13, <2>1, <2>2 DEF Ahead, OfChannel
  <2>6. NewBatch(p)'
    BY <1>1, <1>2, <1>7, <1>13, <2>1, <2>2, <2>3, <2>4 DEF NewBatch, OfChannel
  <2> QED BY <2>5, <2>6
<1> QED BY <1>1, <1>12, <1>13, <1>17, <1>18, <1>19, MoveKeeps

(* A channel that is skipped keeps its last message.                       *)
LEMMA SkipKeeps ==
  ASSUME WInv, NEW p \in Procs, SkipChannel(p) PROVE WInv'
<1>1. PICK c \in todo[p] :
        /\ pc[p] = "visit" /\ todo' = [todo EXCEPT ![p] = @ \ {c}]
        /\ UNCHANGED <<posts, day, config, files, filed, browser, pc, mode,
                       cfg, batch, read, scroll, clean>>
  BY DEF SkipChannel, world, disk
<1> USE <1>1 DEF WInv
<1>2. WatcherTypes'
  BY DEF WatcherTypes
<1>3. todo'[p] \subseteq todo[p] /\ \A q \in Procs \ {p} : Same(q)
  BY DEF WatcherTypes, Same
<1>4. Holds(p)'
  BY <1>3 DEF Process, Holds, Early
<1>5. Process(p)'
  BY <1>4 DEF Process, ScrollHolds, OfChannel, Older, InPage, AtTheTop,
    Covered, SeenPosts
<1>6. OneBrowser' /\ (clean = TRUE => Ahead(cfg[p])' /\ NewBatch(p)')
  BY DEF OneBrowser, OneAtATime, Ahead, NewBatch, OfChannel
<1> QED BY <1>2, <1>3, <1>5, <1>6, MoveKeeps

(* A poll without new messages has nothing to write.                       *)
LEMMA AllPolledKeeps ==
  ASSUME WInv, NEW p \in Procs, AllPolled(p) PROVE WInv'
<1>1. /\ pc[p] = "visit" /\ todo[p] = {} /\ browser' = None
      /\ pc' = [pc EXCEPT ![p] = IF batch[p] = {} THEN "save" ELSE "write"]
      /\ UNCHANGED <<posts, day, config, files, filed, mode, cfg, todo, batch,
                     read, scroll, clean>>
  BY DEF AllPolled, Goto, world, disk
<1> USE <1>1 DEF WInv
<1>2. WatcherTypes'
  BY DEF WatcherTypes, WatcherSteps
<1>3. /\ \A q \in Procs \ {p} : Same(q)
      /\ pc'[p] = "write" \/ (pc'[p] = "save" /\ batch[p] = {})
  BY DEF WatcherTypes, Same
<1>4. Holds(p)'
  BY <1>3 DEF Process, Holds, Early
<1>5. Process(p)'
  BY <1>3, <1>4 DEF Process, ScrollHolds, OfChannel, Covered, SeenPosts
<1>6. OneBrowser'
  BY <1>3 DEF OneBrowser, Same
<1>7. clean = TRUE => Ahead(cfg[p])' /\ NewBatch(p)'
  BY DEF OneAtATime, Ahead, NewBatch, OfChannel
<1> QED BY <1>2, <1>3, <1>5, <1>6, <1>7, MoveKeeps

(* config.json is half written only while a process fills it.              *)
LEMMA TruncateKeeps ==
  ASSUME WInv, NEW p \in Procs, Truncate(p) PROVE WInv'
<1>1. /\ pc[p] = "save" /\ config' = Torn /\ pc' = [pc EXCEPT ![p] = "fill"]
      /\ UNCHANGED <<posts, day, files, filed, browser, mode, cfg, todo, batch,
                     read, scroll, clean>>
  BY DEF Truncate, Goto, world
<1> USE <1>1, NoValueAssumption DEF WInv
<1>2. WatcherTypes'
  BY DEF WatcherTypes, WatcherSteps
<1>3. pc'[p] = "fill" /\ \A q \in Procs \ {p} : Same(q)
  BY DEF WatcherTypes, Same
<1>4. Holds(p)'
  BY <1>3 DEF Process, Holds, Early
<1>5. Process(p)'
  BY <1>3, <1>4 DEF Process, ScrollHolds, OfChannel, Covered, SeenPosts
<1>6. \A q \in Procs : Process(q)'
  BY <1>3, <1>5, ProcessStays
<1>7. Remembered' /\ NoneFiledBefore' /\ FilesInv' /\ OneBrowser'
  BY <1>3 DEF Remembered, NoneFiledBefore, FilesInv, Written, OneBrowser, Same
<1>8. \A q \in Procs : (Ahead(cfg[q]) => Ahead(cfg[q])') /\ (pc[q] # "off" <=> pc'[q] # "off")
  BY <1>3 DEF Ahead, OfChannel, Same
<1>9. \A q \in Procs : NewBatch(q) => NewBatch(q)'
  BY <1>3 DEF NewBatch, OfChannel, Same
<1>10. OneAtATime'
  BY <1>3, <1>8, <1>9 DEF OneAtATime
<1> QED BY <1>2, <1>6, <1>7, <1>10

(* The configuration that is saved is ahead of the files.                  *)
LEMMA SaveKeeps ==
  ASSUME WInv, NEW p \in Procs, Save(p) PROVE WInv'
<1>1. pc[p] = "fill" /\ config' = cfg[p] /\ Ends(p) /\ UNCHANGED <<posts, day,
                                                                   files,
                                                                   filed, clean>>
  BY DEF Save, world
<1> USE <1>1, NoValueAssumption DEF WInv
<1>2. /\ pc'[p] = "off" /\ cfg'[p] = Fresh /\ batch'[p] = {} /\ cfg[p] \in Configs
      /\ browser' = IF browser = p THEN None ELSE browser
  BY DEF WatcherTypes, Ends, Goto
<1>3. WatcherTypes'
  <2> USE NothingSeen, NoPageIsPage DEF WatcherTypes, Ends, Goto, Modes,
    WatcherSteps
  <2>1. pc' \in [Procs -> WatcherSteps] /\ mode' \in [Procs -> Modes] /\ cfg' \in [Procs -> Configs]
        /\ read' \in [Procs -> LastSeen] /\ browser' \in Procs \cup {None}
    OBVIOUS
  <2>2. todo' \in [Procs -> SUBSET Channels] /\ batch' \in [Procs -> SUBSET Nat] /\ scroll' \in [Procs -> Pages]
    OBVIOUS
  <2> QED BY <1>2, <2>1, <2>2
<1>4. Process(p)' /\ \A q \in Procs \ {p} : Same(q)
  BY ProcessEnded
<1>5. \A q \in Procs : Process(q)'
  BY <1>4, ProcessStays
<1>6. config' # Absent /\ config' # Torn
  BY <1>2
<1>7. Remembered' /\ NoneFiledBefore' /\ FilesInv'
  BY <1>6 DEF Remembered, NoneFiledBefore, FilesInv, Written, Process, SeenPosts
<1>8. OneBrowser'
  BY <1>2, <1>4 DEF OneBrowser, Same
<1>9. ASSUME clean = TRUE PROVE OneAtATime'
  <2>1. \A q \in Procs \ {p} : pc[q] = "off" /\ pc'[q] = "off"
    BY <1>4, <1>9 DEF OneAtATime, Same
  <2>2. Ahead(config)'
    BY <1>9 DEF OneAtATime, Ahead, OfChannel
  <2>3. ASSUME NEW q \in Procs PROVE Ahead(cfg[q])' /\ NewBatch(q)'
    <3>1. CASE q = p
      BY <1>2, <3>1, NothingSeen DEF Ahead, NewBatch, Fresh, WatcherTypes
    <3>2. CASE q # p
      <4>1. Ahead(cfg[q]) /\ NewBatch(q) /\ Same(q)
        BY <1>4, <1>9, <3>2 DEF OneAtATime
      <4> QED BY <4>1 DEF Ahead, NewBatch, Same, OfChannel
    <3> QED BY <3>1, <3>2
  <2> QED BY <1>2, <1>6, <2>1, <2>2, <2>3 DEF OneAtATime
<1> QED BY <1>3, <1>5, <1>7, <1>8, <1>9 DEF OneAtATime

(* A process begins with nothing.                                          *)
LEMMA StartKeeps ==
  ASSUME WInv, NEW p \in Procs, NEW command \in Modes, Start(p, command) PROVE WInv'
<1>1. /\ pc[p] = "off" /\ mode' = [mode EXCEPT ![p] = command]
      /\ pc' = [pc EXCEPT ![p] = IF command = "complete" THEN "launch" ELSE "load"]
      /\ clean' = (clean /\ command # "complete" /\ \A q \in Procs : pc[q] = "off")
      /\ UNCHANGED <<posts, day, config, files, filed, browser, cfg, todo,
                     batch, read, scroll>>
  BY DEF Start, Goto, world, disk
<1>2. /\ clean' \in BOOLEAN
      /\ clean' = TRUE => clean = TRUE /\ command # "complete" /\ \A q \in Procs : pc[q] = "off"
  BY <1>1, Zenon DEF WInv
<1> USE <1>1, NoValueAssumption DEF WInv
<1>3. WatcherTypes'
  BY DEF WatcherTypes, WatcherSteps
<1>4. /\ mode'[p] = command /\ pc'[p] = IF command = "complete" THEN "launch" ELSE "load"
      /\ \A q \in Procs \ {p} : Same(q)
  BY DEF WatcherTypes, Same
<1>5. Holds(p)'
  BY <1>4, NothingSeen DEF Process, Holds, Early, Fresh
<1>6. Process(p)'
  BY <1>4, <1>5 DEF Process, ScrollHolds, OfChannel, Covered, SeenPosts
<1>7. \A q \in Procs : Process(q)'
  BY <1>4, <1>6, ProcessStays
<1>8. Remembered' /\ FilesInv'
  BY <1>2 DEF Remembered, FilesInv, Written, SeenPosts
<1>9. NoneFiledBefore' /\ OneBrowser'
  BY <1>4 DEF NoneFiledBefore, OneBrowser, Same
<1>10. ASSUME clean' = TRUE PROVE OneAtATime'
  <2>1. \A q \in Procs : pc[q] = "off" /\ (q # p => pc'[q] = "off")
    BY <1>2, <1>4, <1>10 DEF Same
  <2>2. config # Torn /\ (config # Absent => Ahead(config))
    BY <1>2, <1>10, <2>1 DEF OneAtATime
  <2>3. config' # Torn /\ (config' # Absent => Ahead(config)')
    BY <2>2 DEF Ahead, OfChannel
  <2>4. ASSUME NEW q \in Procs PROVE Ahead(cfg[q])' /\ NewBatch(q)'
    <3>1. Ahead(cfg[q]) /\ NewBatch(q) /\ batch[q] = {}
      BY <1>2, <1>10, <2>1 DEF OneAtATime, Process, Holds, Early
    <3> QED BY <3>1 DEF Ahead, NewBatch, OfChannel
  <2> QED BY <2>1, <2>3, <2>4 DEF OneAtATime
<1> QED BY <1>2, <1>3, <1>7, <1>8, <1>9, <1>10 DEF OneAtATime

(* On a new day no configuration has a counter.                            *)
LEMMA NextDayKeeps ==
  ASSUME WInv, NextDay PROVE WInv'
<1>1. /\ day < MaxDays /\ day' = day + 1
      /\ UNCHANGED <<posts, config, files, filed, browser, pc, mode, cfg, todo,
                     batch, read, scroll, clean>>
  BY DEF NextDay, disk, proc
<1> USE <1>1 DEF WInv
<1>2. day \in Nat /\ MaxDays \in Nat
  BY WatcherAssumption DEF WatcherTypes
<1>3. WatcherTypes'
  BY <1>2 DEF WatcherTypes
<1>4. \A q \in Procs : Same(q)
  BY DEF Same
<1>5. \A q \in Procs : Process(q)'
  BY <1>4, ProcessStays
<1>6. Remembered' /\ FilesInv' /\ NoneFiledBefore' /\ OneBrowser'
  BY DEF Remembered, FilesInv, Written, SeenPosts, NoneFiledBefore, OneBrowser
<1>7. ASSUME NEW k \in Configs, Ahead(k)
      PROVE  /\ k.date # None => k.date <= day'
             /\ k.date # day'
             /\ \A c \in DOMAIN k.last :
                 k.last[c] # None => \A m \in filed \cap OfChannel(c) : m <= k.last[c]
  BY <1>2, <1>7, NoValueAssumption DEF Ahead, Configs
<1>8. /\ config \in Configs => (Ahead(config) => Ahead(config)')
      /\ \A q \in Procs : (Ahead(cfg[q]) => Ahead(cfg[q])') /\ (NewBatch(q) => NewBatch(q)')
  BY <1>7 DEF Ahead, NewBatch, OfChannel, WatcherTypes
<1>9. OneAtATime'
  BY <1>8 DEF OneAtATime, WatcherTypes
<1> QED BY <1>3, <1>5, <1>6, <1>9

(* The last file of a day.                                                 *)
LEMMA LastFileIs ==
  ASSUME NEW d
  PROVE  LastFile(d) \in Nat /\ \A n \in 1..MaxFiles : files[<<d,
                                                               n>>] # {} => n <= LastFile(d)
<1> DEFINE T == {0} \cup {n \in 1..MaxFiles : files[<<d, n>>] # {}}
<1>1. MaxFiles \in Nat /\ T \in SUBSET (0..MaxFiles) /\ T # {}
  BY WatcherAssumption
<1>2. Max(T) \in T /\ \A y \in T : Max(T) >= y
  BY <1>1, MaxIs
<1> QED BY <1>1, <1>2 DEF LastFile

(* The next file of the day is free, as long as one process runs.          *)
LEMMA NextFileIsFree ==
  ASSUME WInv, NEW p \in Procs, pc[p] = "write"
  PROVE  /\ NextSeq(p) \in Nat /\ NextSeq(p) >= 1 /\ MaxFiles \in Nat
         /\ clean = TRUE => \A n \in 1..MaxFiles : files[<<day,
                                                           n>>] # {} => n < NextSeq(p)
<1>1. cfg[p].seq \in Nat /\ LastFile(day) \in Nat /\ MaxFiles \in Nat
  BY LastFileIs, WatcherAssumption DEF WInv, WatcherTypes, Configs
<1>2. clean = TRUE => Ahead(cfg[p])
  BY DEF WInv, OneAtATime
<1>3. CASE cfg[p].date = day
  <2>1. NextSeq(p) = 1 + cfg[p].seq
    BY <1>3 DEF NextSeq
  <2> QED BY <1>1, <1>2, <1>3, <2>1 DEF Ahead
<1>4. CASE cfg[p].date # day
  <2>1. NextSeq(p) = 1 + LastFile(day)
    BY <1>4 DEF NextSeq
  <2> QED BY <1>1, <2>1, LastFileIs
<1> QED BY <1>3, <1>4

(* The batch goes into a free file and is new to the files.                *)
LEMMA WriteKeeps ==
  ASSUME WInv, NEW p \in Procs, WriteFile(p) PROVE WInv'
<1> DEFINE seq == NextSeq(p)
<1>1. /\ pc[p] = "write" /\ seq <= MaxFiles
      /\ files' = [files EXCEPT ![<<day, seq>>] = batch[p]]
      /\ filed' = filed \cup batch[p]
      /\ pc' = [pc EXCEPT ![p] = "save"]
      /\ UNCHANGED <<posts, day, config, browser, mode, todo, batch, read,
                     scroll, clean>>
  BY DEF WriteFile, Goto, world
<1>2. /\ seq \in Nat /\ seq >= 1 /\ MaxFiles \in Nat
      /\ clean = TRUE => \A n \in 1..MaxFiles : files[<<day, n>>] # {} => n < seq
  BY <1>1, NextFileIsFree
<1>a. cfg' = [cfg EXCEPT ![p].seq = seq, ![p].date = day]
  BY DEF WriteFile
<1> HIDE DEF seq
<1> DEFINE new == [cfg[p] EXCEPT !.seq = seq, !.date = day]
<1>3. cfg' = [cfg EXCEPT ![p] = new]
  BY <1>a DEF WInv, WatcherTypes
<1>4. /\ new.last = cfg[p].last /\ new.date = day /\ new.seq = seq /\ new \in Configs
  <2>1. cfg[p] \in Configs /\ day \in Nat
    BY WatcherAssumption DEF WInv, WatcherTypes
  <2> QED BY <1>2, <2>1 DEF Configs
<1> HIDE DEF new
<1> USE <1>2, <1>4, NoValueAssumption DEF WInv
<1>5. WatcherTypes'
  <2>1. batch[p] \in SUBSET Nat /\ files' \in [(1..MaxDays) \X (1..MaxFiles) -> SUBSET Nat]
    BY <1>1 DEF WatcherTypes
  <2>2. cfg' \in [Procs -> Configs]
    BY <1>3 DEF WatcherTypes
  <2>3. pc' \in [Procs -> WatcherSteps] /\ filed' \in SUBSET Nat
    BY <1>1, <2>1 DEF WatcherTypes, WatcherSteps
  <2> QED BY <1>1, <2>1, <2>2, <2>3 DEF WatcherTypes
<1>6. /\ pc'[p] = "save" /\ cfg'[p] = new /\ \A q \in Procs \ {p} : Same(q)
      /\ mode'[p] = "poll"
  BY <1>1, <1>3 DEF WatcherTypes, Same, Process, Holds
<1>7. Holds(p)'
  BY <1>1, <1>6 DEF Process, Holds, Early
<1>8. Process(p)'
  BY <1>1, <1>6, <1>7 DEF Process, ScrollHolds, OfChannel, Covered, SeenPosts
<1>9. \A q \in Procs : Process(q)'
  BY <1>1, <1>6, <1>8, ProcessStays
<1>10. Remembered' /\ NoneFiledBefore' /\ OneBrowser'
  BY <1>1, <1>6 DEF Remembered, NoneFiledBefore, OneBrowser, SeenPosts, Same,
    Process, Holds
<1> DEFINE f == <<day, seq>>
<1>11. /\ f \in DOMAIN files /\ DOMAIN files' = DOMAIN files /\ files'[f] = batch[p]
       /\ \A g \in DOMAIN files \ {f} : files'[g] = files[g]
  BY <1>1, WatcherAssumption DEF WatcherTypes
<1>12. ASSUME clean = TRUE PROVE FilesInv' /\ OneAtATime'
  <2>1. files[f] = {}
    <3>1. seq \in 1..MaxFiles
      BY <1>1
    <3>2. files[<<day, seq>>] # {} => seq < seq
      BY <1>12, <3>1
    <3> QED BY <3>2
  <2>2. Written = filed /\ (\A g, h \in DOMAIN files : g # h => files[g] \cap files[h] = {})
        /\ batch[p] \cap filed = {} /\ Ahead(cfg[p]) /\ NewBatch(p)
    BY <1>1, <1>12 DEF FilesInv, OneAtATime, NewBatch
  <2> HIDE DEF f
  <2>3. Written' = Written \cup batch[p]
    BY <1>11, <2>1 DEF Written
  <2>4. \A g \in DOMAIN files : files[g] \cap batch[p] = {}
    BY <2>2 DEF Written
  <2>5. \A g, h \in DOMAIN files' : g # h => files'[g] \cap files'[h] = {}
    BY <1>11, <2>2, <2>4
  <2>6. FilesInv'
    BY <1>1, <2>2, <2>3, <2>5 DEF FilesInv
  <2>7. Ahead(cfg[p])'
    <3>1. \A n \in 1..MaxFiles : files'[<<day, n>>] # {} => n <= seq
      <4> SUFFICES ASSUME NEW n \in 1..MaxFiles, files'[<<day, n>>] # {}, n # seq
                   PROVE  n <= seq
        BY <1>1
      <4>1. <<day, n>> \in DOMAIN files \ {f}
        BY DEF WatcherTypes, f
      <4>2. files[<<day, n>>] # {}
        BY <1>11, <4>1
      <4> QED BY <1>12, <4>2
    <3>2. day <= day
      BY DEF WatcherTypes
    <3> QED BY <1>1, <1>6, <2>2, <3>1, <3>2 DEF Ahead, NewBatch, OfChannel
  <2>8. NewBatch(p)'
    BY <1>1, <1>6, <2>2 DEF NewBatch, OfChannel
  <2>9. \A q \in Procs \ {p} : pc[q] = "off" /\ pc'[q] = "off"
    BY <1>1, <1>6, <1>12 DEF OneAtATime, Same
  <2>10. ASSUME NEW q \in Procs \ {p} PROVE Ahead(cfg[q])' /\ NewBatch(q)'
    <3>1. cfg'[q] = Fresh /\ batch'[q] = {}
      BY <1>6, <2>9 DEF Process, Holds, Same, Early
    <3>2. day' # None
      BY <1>1 DEF WatcherTypes
    <3> QED BY <3>1, <3>2, NothingSeen DEF Ahead, NewBatch, Fresh
  <2>11. config # Torn
    BY <1>1, <1>12, <2>9 DEF OneAtATime
  <2> QED BY <1>1, <1>6, <2>6, <2>7, <2>8, <2>9, <2>10, <2>11 DEF OneAtATime
<1> QED BY <1>1, <1>5, <1>9, <1>10, <1>12 DEF FilesInv, OneAtATime

(* A message that is posted is beyond everything that was seen.            *)
LEMMA PostKeeps ==
  ASSUME WInv, NEW c \in Channels, Post(c) PROVE WInv'
<1>1. /\ posts' = Append(posts, c)
      /\ UNCHANGED <<day, config, files, filed, browser, pc, mode, cfg, todo,
                     batch, read, scroll, clean>>
  BY DEF Post, disk, proc
<1> USE <1>1, NoValueAssumption DEF WInv
<1> DEFINE new == Len(posts) + 1
<1>2. /\ posts \in Seq(Channels) /\ Len(posts) \in Nat /\ DOMAIN posts = 1..Len(posts)
      /\ posts' \in Seq(Channels) /\ DOMAIN posts' = DOMAIN posts \cup {new}
      /\ new \notin DOMAIN posts /\ \A m \in DOMAIN posts : posts'[m] = posts[m] /\ m < new
      /\ DOMAIN posts \subseteq Nat
  BY DEF WatcherTypes
<1> HIDE DEF new
<1>3. \A d : /\ OfChannel(d) \subseteq OfChannel(d)' /\ OfChannel(d)' \subseteq OfChannel(d) \cup {new}
             /\ OfChannel(d) \subseteq DOMAIN posts
  BY <1>2 DEF OfChannel
<1>4. WatcherTypes'
  BY <1>2 DEF WatcherTypes
<1>5. ASSUME NEW q \in Procs PROVE Process(q)'
  <2>1. Process(q) /\ cfg[q].last \in LastSeen
    BY DEF WatcherTypes, Configs
  <2>2. Holds(q)' /\ SeenPosts(cfg[q])' /\ (batch[q] \subseteq DOMAIN posts)'
    BY <1>2, <2>1 DEF Process, Holds, SeenPosts
  <2>3. ASSUME NEW d \in DOMAIN read'[q] \cap DOMAIN cfg'[q].last PROVE Covered(q, d)'
    <3> SUFFICES ASSUME read[q][d] # None PROVE Covered(q, d)'
      BY DEF Covered
    <3>1. Covered(q, d) /\ cfg[q].last[d] # None /\ cfg[q].last[d] \in DOMAIN posts
      BY <2>1 DEF Process, Covered, SeenPosts
    <3>2. ASSUME NEW m \in OfChannel(d)', m <= cfg[q].last[d]
          PROVE  /\ m \in OfChannel(d)
                 /\ {n \in OfChannel(d)' : m < n /\ n <= cfg[q].last[d]}
                      = {n \in OfChannel(d) : m < n /\ n <= cfg[q].last[d]}
      <4>1. \A n \in OfChannel(d)' : n <= cfg[q].last[d] => n \in OfChannel(d)
        <5> SUFFICES ASSUME NEW n \in OfChannel(d)', n <= cfg[q].last[d], n \notin OfChannel(d)
                     PROVE  FALSE
          OBVIOUS
        <5>1. n = new /\ cfg[q].last[d] < new /\ cfg[q].last[d] \in Nat /\ new \in Nat
          BY <1>2, <1>3, <3>1 DEF new
        <5> QED BY <5>1
      <4> QED BY <1>3, <3>2, <4>1
    <3> QED BY <3>1, <3>2 DEF Covered
  <2>4. ScrollHolds(q)'
    <3> SUFFICES ASSUME pc[q] \in {"scroll", "dump"} PROVE ScrollHolds(q)'
      BY DEF ScrollHolds
    <3> DEFINE d == scroll[q].channel
    <3>1. /\ d \in Channels /\ scroll[q].from \in OfChannel(d) /\ scroll[q].owed \subseteq OfChannel(d)
          /\ scroll[q].still >= -1
          /\ Older(q) # {} => scroll[q].late = 3 \/ scroll[q].late >= scroll[q].still
          /\ scroll[q].still # -1 => scroll[q].count <= Cardinality(InPage(q))
          /\ pc[q] = "dump" => AtTheTop(q)
          /\ scroll[q] \in Pages
      BY <2>1 DEF Process, ScrollHolds, WatcherTypes
    <3>2. InPage(q) \subseteq InPage(q)' /\ IsFiniteSet(InPage(q)')
          /\ Cardinality(InPage(q)) \in Nat /\ Cardinality(InPage(q)') \in Nat
      <4>1. InPage(q) \subseteq InPage(q)'
        BY <1>3 DEF InPage
      <4>2. InPage(q)' \subseteq 1..Len(posts') /\ Len(posts') \in Nat
        BY <1>2, <1>4 DEF InPage, OfChannel, WatcherTypes
      <4>3. IsFiniteSet(1..Len(posts'))
        BY <4>2, FS_Interval
      <4>4. IsFiniteSet(InPage(q)') /\ IsFiniteSet(InPage(q))
        BY <4>1, <4>2, <4>3, FS_Subset
      <4> QED BY <4>1, <4>4, FS_CardinalityType
    <3>3. Cardinality(InPage(q)) <= Cardinality(InPage(q)')
      BY <3>2, FS_Subset
    <3>4. Older(q)' = Older(q)
      <4>1. new >= scroll[q].from
        BY <1>2, <1>3, <3>1
      <4> QED BY <1>3, <1>2, <4>1 DEF Older, InPage
    <3>5. scroll[q].count \in Nat
      BY <3>1 DEF Pages
    <3>6. scroll[q].still # -1 => scroll[q].count <= Cardinality(InPage(q)')
      BY <3>1, <3>2, <3>3, <3>5
    <3>7. scroll[q].from \in OfChannel(d)' /\ scroll[q].owed \subseteq OfChannel(d)'
      BY <1>3, <3>1
    <3> QED BY <3>1, <3>4, <3>6, <3>7 DEF ScrollHolds, AtTheTop
  <2> QED BY <2>2, <2>3, <2>4 DEF Process
<1>6. Remembered' /\ NoneFiledBefore' /\ FilesInv' /\ OneBrowser'
  BY <1>2 DEF Remembered, SeenPosts, NoneFiledBefore, FilesInv, Written,
    OneBrowser
<1>7. filed \subseteq DOMAIN posts /\ \A q \in Procs : batch[q] \subseteq DOMAIN posts
  BY DEF Remembered, Process
<1>8. \A d : /\ filed \cap OfChannel(d)' = filed \cap OfChannel(d)
             /\ \A q \in Procs : batch[q] \cap OfChannel(d)' = batch[q] \cap OfChannel(d)
  BY <1>2, <1>3, <1>7
<1>9. /\ Ahead(config) => Ahead(config)'
      /\ \A q \in Procs : (Ahead(cfg[q]) => Ahead(cfg[q])') /\ (NewBatch(q) => NewBatch(q)')
  BY <1>8 DEF Ahead, NewBatch
<1>10. OneAtATime'
  BY <1>9 DEF OneAtATime
<1> QED BY <1>4, <1>5, <1>6, <1>10

(* A step of the scrape: it changes the page, its own step and its todo.   *)
LEMMA ScrapeStepKeeps ==
  ASSUME WInv, NEW p \in Procs, NEW next \in {"choose", "scroll", "dump"}, NEW page \in Pages,
         NEW rest \in SUBSET Channels, pc[p] \in {"choose", "scroll", "dump"},
         pc' = [pc EXCEPT ![p] = next], scroll' = [scroll EXCEPT ![p] = page],
         todo' = [todo EXCEPT ![p] = rest], ScrollHolds(p)',
         UNCHANGED <<posts, day, config, files, filed, browser, mode, cfg,
                     batch, read, clean>>
  PROVE  WInv'
<1> USE DEF WInv
<1>1. WatcherTypes'
  BY DEF WatcherTypes, WatcherSteps
<1>2. /\ pc'[p] = next /\ scroll'[p] = page /\ todo'[p] = rest
      /\ \A q \in Procs \ {p} : Same(q)
  BY DEF WatcherTypes, Same
<1>3. Holds(p)'
  BY <1>2 DEF Process, Holds, Early
<1>4. Process(p)'
  BY <1>2, <1>3 DEF Process, OfChannel, Covered, SeenPosts
<1>5. OneBrowser'
  BY <1>2 DEF OneBrowser, Same
<1>6. clean = TRUE => Ahead(cfg[p])' /\ NewBatch(p)'
  BY <1>2 DEF OneAtATime, Ahead, NewBatch, OfChannel
<1> QED BY <1>1, <1>2, <1>4, <1>5, <1>6, MoveKeeps

(* A page owes what the channel had when it was opened.                    *)
LEMMA OpenKeeps ==
  ASSUME WInv, NEW p \in Procs, OpenPage(p) PROVE WInv'
<1>1. PICK c \in todo[p] :
        /\ pc[p] = "choose" /\ todo' = [todo EXCEPT ![p] = @ \ {c}]
        /\ \/ /\ Rendered(c) # {} /\ pc' = [pc EXCEPT ![p] = "scroll"]
              /\ scroll' = [scroll EXCEPT ![p] =
                   [NoPage EXCEPT !.channel = c, !.from = Min(Rendered(c)), !.owed = OfChannel(c),
                                  !.still = -1]]
           \/ UNCHANGED <<pc, scroll>>
        /\ UNCHANGED <<posts, day, config, files, filed, browser, mode, cfg,
                       batch, read, clean>>
  BY DEF OpenPage, Goto, world, disk
<1>2. /\ todo[p] \subseteq Channels /\ todo[p] \ {c} \in SUBSET Channels /\ c \in Channels
      /\ todo' = [todo EXCEPT ![p] = todo[p] \ {c}]
      /\ scroll[p] \in Pages
  BY <1>1 DEF WInv, WatcherTypes
<1>3. CASE UNCHANGED <<pc, scroll>>
  <2>1. pc' = [pc EXCEPT ![p] = "choose"] /\ scroll' = [scroll EXCEPT ![p] = scroll[p]]
    BY <1>1, <1>3 DEF WInv, WatcherTypes
  <2>2. ScrollHolds(p)'
    BY <1>1, <1>3 DEF ScrollHolds
  <2> QED BY <1>1, <1>2, <2>1, <2>2, ScrapeStepKeeps
<1>4. CASE ~UNCHANGED <<pc, scroll>>
  <2> DEFINE page == [channel |-> c, from |-> Min(Rendered(c)), owed |-> OfChannel(c), count |-> 0,
                      still |-> -1, turns |-> 0, late |-> 0]
  <2>1. /\ Rendered(c) # {} /\ pc' = [pc EXCEPT ![p] = "scroll"]
        /\ scroll' = [scroll EXCEPT ![p] = page]
    BY <1>1, <1>4 DEF NoPage
  <2>2. Rendered(c) \subseteq OfChannel(c) /\ OfChannel(c) \subseteq Nat
    BY DEF Rendered, OfChannel, WInv, WatcherTypes
  <2>3. Min(Rendered(c)) \in OfChannel(c)
    BY <2>1, <2>2, MinIs
  <2>4. page \in Pages
    BY <1>2, <2>2, <2>3 DEF Pages
  <2>5. /\ page.channel = c /\ page.from = Min(Rendered(c)) /\ page.owed = OfChannel(c)
        /\ page.still = -1 /\ page.late = 0
    OBVIOUS
  <2> HIDE DEF page
  <2>6. pc'[p] = "scroll" /\ scroll'[p] = page
    BY <2>1 DEF WInv, WatcherTypes
  <2>7. ScrollHolds(p)'
    BY <1>1, <1>2, <2>3, <2>5, <2>6 DEF ScrollHolds, OfChannel
  <2> QED BY <1>1, <1>2, <2>1, <2>4, <2>7, ScrapeStepKeeps
<1> QED BY <1>3, <1>4

(* A scroll ends at what it takes for the top.                             *)
LEMMA ScrollEndsKeeps ==
  ASSUME WInv, NEW p \in Procs, ScrollEnds(p) PROVE WInv'
<1>1. /\ pc[p] = "scroll" /\ AtTheTop(p) /\ pc' = [pc EXCEPT ![p] = "dump"]
      /\ UNCHANGED <<posts, day, config, files, filed, browser, mode, cfg,
                     todo, batch, read, scroll, clean>>
  BY DEF ScrollEnds, Goto, world, disk
<1>2. /\ scroll' = [scroll EXCEPT ![p] = scroll[p]] /\ scroll[p] \in Pages
      /\ todo' = [todo EXCEPT ![p] = todo[p]] /\ todo[p] \in SUBSET Channels
  BY <1>1 DEF WInv, WatcherTypes
<1>3. ScrollHolds(p)'
  BY <1>1 DEF WInv, Process, ScrollHolds, AtTheTop, Older, InPage, OfChannel
<1> QED BY <1>1, <1>2, <1>3, ScrapeStepKeeps

(* The page is dumped and forgotten.                                       *)
LEMMA WriteScrapeKeeps ==
  ASSUME WInv, NEW p \in Procs, WriteScrape(p) PROVE WInv'
<1>1. /\ pc[p] = "dump" /\ pc' = [pc EXCEPT ![p] = "choose"]
      /\ scroll' = [scroll EXCEPT ![p] = NoPage]
      /\ UNCHANGED <<posts, day, config, files, filed, browser, mode, cfg,
                     todo, batch, read, clean>>
  BY DEF WriteScrape, Goto, world, disk
<1>2. todo' = [todo EXCEPT ![p] = todo[p]] /\ todo[p] \in SUBSET Channels /\ pc'[p] = "choose"
  BY <1>1 DEF WInv, WatcherTypes
<1>3. ScrollHolds(p)'
  BY <1>2 DEF ScrollHolds
<1> QED BY <1>1, <1>2, <1>3, NoPageIsPage, ScrapeStepKeeps

(* While older messages are missing, a look that finds nothing new is a    *)
(* late one.                                                               *)
LEMMA ScrollUpKeeps ==
  ASSUME WInv, NEW p \in Procs, ScrollUp(p) PROVE WInv'
<1> DEFINE c == scroll[p].channel
           loaded(from) == {m \in OfChannel(c) : m >= from}
<1>1. PICK from \in Scrolled(p) :
        scroll' = [scroll EXCEPT
            ![p].from = from, ![p].count = Cardinality(loaded(from)), ![p].turns = @ + 1,
            ![p].still = IF @ = -1 \/ Cardinality(loaded(from)) # scroll[p].count THEN 0 ELSE @ + 1,
            ![p].late = CASE @ = 3 -> 3
                          [] @ < 3 /\ Older(p) # {} /\ from = scroll[p].from -> @ + 1
                          [] OTHER -> 0]
  BY DEF ScrollUp
<1>2. /\ pc[p] = "scroll"
      /\ UNCHANGED <<posts, day, config, files, filed, browser, pc, mode, cfg,
                     todo, batch, read, clean>>
  BY DEF ScrollUp, world, disk
<1>3. /\ scroll[p] \in Pages /\ c \in Channels /\ scroll[p].from \in OfChannel(c)
      /\ scroll[p].owed \subseteq OfChannel(c) /\ scroll[p].still >= -1
      /\ Older(p) # {} => scroll[p].late = 3 \/ scroll[p].late >= scroll[p].still
      /\ scroll[p].still # -1 => scroll[p].count <= Cardinality(InPage(p))
      /\ posts \in Seq(Channels) /\ scroll \in [Procs -> Pages]
  BY <1>2 DEF WInv, WatcherTypes, Process, ScrollHolds
<1>4. /\ scroll[p].late \in 0..3 /\ scroll[p].still \in Int /\ scroll[p].count \in Nat
      /\ scroll[p].turns \in Nat /\ scroll[p].from \in Nat /\ scroll[p].owed \in SUBSET Nat
  BY <1>3 DEF Pages
<1>5. /\ OfChannel(c) \subseteq 1..Len(posts) /\ OfChannel(c) \subseteq Nat /\ Len(posts) \in Nat
      /\ Older(p) \subseteq OfChannel(c)
  BY <1>3 DEF OfChannel, Older
<1>6. from = scroll[p].from \/ from \in Older(p)
  BY DEF Scrolled
<1>7. from \in OfChannel(c) /\ from \in Nat
  BY <1>3, <1>5, <1>6
<1> DEFINE count == Cardinality(loaded(from))
<1>8. \A f : IsFiniteSet(loaded(f)) /\ Cardinality(loaded(f)) \in Nat
  <2>1. IsFiniteSet(1..Len(posts))
    BY <1>5, FS_Interval
  <2>2. \A f : loaded(f) \subseteq 1..Len(posts)
    BY <1>5
  <2> QED BY <2>1, <2>2, FS_Subset, FS_CardinalityType
<1>9. InPage(p) = loaded(scroll[p].from)
  BY DEF InPage
<1>10. from # scroll[p].from => Cardinality(InPage(p)) < count
  <2> SUFFICES ASSUME from # scroll[p].from PROVE Cardinality(InPage(p)) < count
    OBVIOUS
  <2>1. from < scroll[p].from /\ from \notin InPage(p)
    BY <1>4, <1>5, <1>6, <1>7 DEF Older, InPage
  <2>2. InPage(p) \subseteq loaded(from) /\ from \in loaded(from) /\ InPage(p) # loaded(from)
    BY <1>4, <1>5, <1>7, <2>1 DEF InPage
  <2>3. Cardinality(InPage(p)) <= count /\ Cardinality(InPage(p)) # count
    BY <1>8, <2>2, FS_Subset
  <2> QED BY <1>8, <1>9, <2>3
<1>11. count \in Nat
  BY <1>8
<1> DEFINE still == IF scroll[p].still = -1 \/ count # scroll[p].count THEN 0 ELSE scroll[p].still + 1
           late  == IF scroll[p].late = 3 THEN 3
                    ELSE IF Older(p) # {} /\ from = scroll[p].from THEN scroll[p].late + 1 ELSE 0
           page == [channel |-> c, from |-> from, owed |-> scroll[p].owed, count |-> count,
                    still |-> still, turns |-> scroll[p].turns + 1, late |-> late]
<1>12. still \in Int /\ still >= 0 /\ late \in 0..3
  BY <1>3, <1>4
<1>13. late = (CASE scroll[p].late = 3 -> 3
                 [] scroll[p].late < 3 /\ Older(p) # {} /\ from = scroll[p].from -> scroll[p].late + 1
                 [] OTHER -> 0)
  BY <1>4
<1> HIDE DEF loaded, count
<1>14. scroll' = [scroll EXCEPT ![p] = page]
  BY <1>1, <1>3, <1>13 DEF Pages, count
<1>15. page \in Pages
  BY <1>3, <1>4, <1>7, <1>11, <1>12 DEF Pages
<1>16. /\ page.channel = c /\ page.from = from /\ page.owed = scroll[p].owed /\ page.count = count
       /\ page.still = still /\ page.late = late
  OBVIOUS
<1> HIDE DEF page
<1>17. scroll'[p] = page /\ pc'[p] = "scroll"
  BY <1>2, <1>3, <1>14
<1>18. InPage(p)' = loaded(from) /\ Older(p)' = OfChannel(c) \ loaded(from)
  BY <1>2, <1>16, <1>17 DEF InPage, Older, OfChannel, loaded
<1>19. Older(p)' # {} => late = 3 \/ late >= still
  <2> SUFFICES ASSUME Older(p)' # {} PROVE late = 3 \/ late >= still
    OBVIOUS
  <2>1. CASE from = scroll[p].from
    <3>1. Older(p) # {}
      BY <1>9, <1>18, <2>1 DEF Older
    <3> QED BY <1>3, <1>4, <2>1, <3>1
  <2>2. CASE from # scroll[p].from
    <3>1. Cardinality(InPage(p)) \in Nat
      BY <1>8, <1>9
    <3>2. scroll[p].still = -1 \/ count # scroll[p].count
      BY <1>3, <1>4, <1>10, <1>11, <2>2, <3>1
    <3>3. still = 0 /\ late \in 0..3
      BY <1>12, <3>2
    <3> QED BY <3>3
  <2> QED BY <2>1, <2>2
<1>20. ScrollHolds(p)'
  BY <1>2, <1>3, <1>7, <1>8, <1>11, <1>12, <1>16, <1>17, <1>18, <1>19
    DEF ScrollHolds, OfChannel, count
<1>21. pc' = [pc EXCEPT ![p] = "scroll"] /\ todo' = [todo EXCEPT ![p] = todo[p]]
       /\ todo[p] \in SUBSET Channels
  BY <1>2 DEF WInv, WatcherTypes
<1> QED BY <1>2, <1>14, <1>15, <1>20, <1>21, ScrapeStepKeeps

(* Nothing was posted at the start.                                        *)
LEMMA WatcherInitInv == WatcherInit => WInv
<1> SUFFICES ASSUME WatcherInit PROVE WInv
  OBVIOUS
<1> USE WatcherAssumption, NoValueAssumption, NothingSeen, NoPageIsPage
  DEF WatcherInit
<1>a. MaxDays \in Nat /\ day = 1 /\ day \in 1..MaxDays
  OBVIOUS
<1>1. WatcherTypes
  <2>1. /\ posts \in Seq(Channels) /\ browser \in Procs \cup {None}
        /\ config \in Configs \cup {Absent, Torn} /\ filed \in SUBSET Nat
        /\ files \in [(1..MaxDays) \X (1..MaxFiles) -> SUBSET Nat]
    OBVIOUS
  <2>2. /\ pc \in [Procs -> WatcherSteps] /\ mode \in [Procs -> Modes]
        /\ cfg \in [Procs -> Configs] /\ read \in [Procs -> LastSeen]
    BY DEF WatcherSteps, Modes
  <2>3. /\ todo \in [Procs -> SUBSET Channels] /\ batch \in [Procs -> SUBSET Nat]
        /\ scroll \in [Procs -> Pages]
    OBVIOUS
  <2> QED BY <2>1, <2>2, <2>3 DEF WatcherTypes
<1>2. clean \in BOOLEAN /\ Remembered /\ OneBrowser
  BY DEF Remembered, OneBrowser
<1>3. ASSUME NEW p \in Procs PROVE Process(p)
  <2>1. /\ pc[p] = "off" /\ mode[p] = "poll" /\ cfg[p] = Fresh /\ todo[p] = {} /\ batch[p] = {}
        /\ read[p] = <<>> /\ Fresh.last = <<>>
    BY DEF Fresh
  <2>2. Holds(p)
    BY <2>1 DEF Holds
  <2> QED BY <2>1, <2>2 DEF Process, ScrollHolds, SeenPosts
<1>4. NoneFiledBefore
  BY DEF NoneFiledBefore
<1>5. \A p \in Procs : Ahead(cfg[p]) /\ NewBatch(p)
  BY <1>1 DEF Ahead, NewBatch, Fresh, WatcherTypes
<1>6. OneAtATime
  BY <1>5 DEF OneAtATime
<1>7. FilesInv
  BY DEF FilesInv, Written
<1> QED BY <1>1, <1>2, <1>3, <1>4, <1>6, <1>7 DEF WInv

(* Every step of the watchers keeps the invariant.                         *)
LEMMA WatcherNextInv == WInv /\ [WatcherNext]_watcherVars => WInv'
<1> SUFFICES ASSUME WInv, [WatcherNext]_watcherVars PROVE WInv'
  OBVIOUS
<1>1. CASE UNCHANGED watcherVars
  <2>1. UNCHANGED <<posts, day, config, files, filed, browser, pc, mode, cfg, todo, batch, read,
                    scroll, clean>>
    BY <1>1 DEF watcherVars, world, disk, proc
  <2>2. \A p \in Procs : Process(p)'
    <3> SUFFICES ASSUME NEW p \in Procs PROVE Process(p)'
      OBVIOUS
    <3> QED BY <2>1, ProcessStays DEF Same, WInv
  <2>3. WatcherTypes' /\ clean' \in BOOLEAN /\ Remembered' /\ NoneFiledBefore' /\ OneBrowser' /\ FilesInv'
    BY <2>1 DEF WInv, WatcherTypes, Remembered, SeenPosts, NoneFiledBefore,
      OneBrowser, FilesInv, Written
  <2>4. OneAtATime'
    BY <2>1 DEF WInv, OneAtATime, Ahead, NewBatch, OfChannel
  <2> QED BY <2>2, <2>3, <2>4 DEF WInv
<1>2. ASSUME NEW p \in Procs, ProcStep(p) PROVE WInv'
  BY <1>2, LoadKeeps, LaunchKeeps, StrangerKeeps, DiscoverKeeps,
    DiscoverAfreshKeeps, PollKeeps,
     SkipKeeps, AllPolledKeeps, WriteKeeps, TruncateKeeps, SaveKeeps,
     OpenKeeps, ScrollUpKeeps,
     ScrollEndsKeeps, WriteScrapeKeeps DEF ProcStep, Scrape
<1> QED BY <1>1, <1>2, NextDayKeeps, PostKeeps, KillKeeps, StartKeeps
  DEF WatcherNext

(* The invariant implies the property that the run checks.                 *)
LEMMA WatcherHolds == WInv => WatcherInv
<1> SUFFICES ASSUME WInv PROVE WatcherInv
  OBVIOUS
<1> USE DEF WInv
<1>1. WatcherTypeOK
  BY DEF WatcherTypes, WatcherTypeOK
<1>2. SeenIsSaved
  <2> SUFFICES ASSUME NEW p \in Procs, pc[p] = "fill",
                      NEW c \in DOMAIN read[p] \cap DOMAIN cfg[p].last
               PROVE  Covered(p, c) /\ batch[p] \subseteq filed
    BY DEF SeenIsSaved, Covered
  <2> QED BY DEF Process, Holds
<1>3. FiledOnce
  BY Zenon DEF FilesInv, FiledOnce
<1>4. ScrapeIsWhole
  <2> SUFFICES ASSUME NEW p \in Procs, pc[p] = "dump", scroll[p].turns < MaxScrolls,
                      scroll[p].late < 3
               PROVE  scroll[p].owed \subseteq InPage(p)
    BY DEF ScrapeIsWhole
  <2>1. scroll[p] \in Pages /\ ScrollHolds(p)
    BY DEF WatcherTypes, Process
  <2>2. scroll[p].still >= 3
    BY <2>1, WatcherAssumption DEF ScrollHolds, AtTheTop, Pages
  <2>3. Older(p) = {}
    BY <2>1, <2>2 DEF ScrollHolds, Pages
  <2> QED BY <2>1, <2>3 DEF ScrollHolds, Older
<1> QED BY <1>1, <1>2, <1>3, <1>4 DEF WatcherInv

(* For any number of processes, kills, days and messages: config.json      *)
(* passes over a message only when a file had it, one process at a time    *)
(* files it once, one has the browser, and a scrape whose pages are not    *)
(* late is whole (watcher.py).                                             *)
THEOREM WatcherPassesNothing == WatcherSpec => []WatcherInv
BY WatcherInitInv, WatcherNextInv, WatcherHolds, PTL DEF WatcherSpec
=============================================================================
