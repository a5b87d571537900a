SPECIFICATION MCSpec
CONSTANTS
  Channels = {a} Procs = {panel, task} None = None Absent = Absent Torn = Torn
  a = a panel = panel task = task
  View = 1 MaxScrolls = 5 MaxPosts = 2 MaxDays = 2 MaxFiles = 2 MaxKills = 1
  Requests = {q1, q2} Runners = {r1, r2} Nil = Nil Half = Half
  q1 = q1 q2 = q2 r1 = r1 r2 = r2
  NotesKept = 1 RunsKept = 2 MaxNotes = 2 MaxStops = 1
  Toasts = {t1, t2, t3} Discord = {t1, t2} MaxListenerStarts = 2
  t1 = t1 t2 = t2 t3 = t3
INVARIANT WatcherInv
INVARIANT PanelInv
INVARIANT ToastsSavedOnce
PROPERTY CancelEnds
CHECK_DEADLOCK FALSE
