----------------------------- MODULE MCDiscord -----------------------------
(* The programs of discord_watcher, one at a time: the watchers that poll and  *)
(* log in while they overlap, the watcher that scrapes with no other beside   *)
(* it (it writes nothing that they read), the panel and the listener.          *)
EXTENDS Watcher, ControlPanel, NotifListener

VARIABLE part

Overlap == \E p, q \in Procs : p # q /\ pc[p] # "off" /\ pc[q] # "off"

Init ==
  /\ WatcherInit /\ PanelInit /\ ListenerInit
  /\ part \in {"watcher", "scraper", "panel", "listener"}

Next ==
  /\ \/ /\ part = "watcher" /\ WatcherNext /\ UNCHANGED <<panelVars, listenerVars>>
        /\ \A p \in Procs : mode'[p] # "scrape"
     \/ /\ part = "scraper" /\ WatcherNext /\ UNCHANGED <<panelVars, listenerVars>>
        /\ ~Overlap'
     \/ part = "panel" /\ PanelNext /\ UNCHANGED <<watcherVars, listenerVars>>
     \/ part = "listener" /\ ListenerNext /\ UNCHANGED <<watcherVars, panelVars>>
  /\ UNCHANGED part

MCSpec ==
  Init /\ [][Next]_<<part, watcherVars, panelVars, listenerVars>> /\ PanelFair
=============================================================================
