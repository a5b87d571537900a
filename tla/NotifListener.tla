--------------------------- MODULE NotifListener ---------------------------
(***************************************************************************)
(* discord_watcher/notif_listener.py: asks Windows again and again for the *)
(* toasts it shows and saves the new ones of Discord.                      *)
(***************************************************************************)
EXTENDS Naturals, FiniteSets

CONSTANTS
  Toasts,      \* ids of notifications
  Discord,     \* those of Discord
  MaxListenerStarts   \* bound

ASSUME ListenerAssumption == Discord \subseteq Toasts /\ MaxListenerStarts \in Nat

VARIABLES
  shown,       \* the notifications in the Action Center
  gone,        \* those that were there and are not any more
  listener,    \* "off", "asking" or "saving"
  seen, got,   \* what it knows, what it was given and has not looked at
  saved,       \* how often a file was written for a notification
  missed,      \* those that were there when a listener started
  starts

listenerVars == <<shown, gone, listener, seen, got, saved, missed, starts>>

ListenerInit ==
  /\ shown = {} /\ gone = {} /\ listener = "off" /\ seen = {} /\ got = {}
  /\ saved = [t \in Toasts |-> 0] /\ missed = {} /\ starts = 0

Show(t) ==
  /\ t \notin shown \cup gone /\ shown' = shown \cup {t}
  /\ UNCHANGED <<gone, listener, seen, got, saved, missed, starts>>

Dismiss(t) ==
  /\ t \in shown /\ shown' = shown \ {t} /\ gone' = gone \cup {t}
  /\ UNCHANGED <<listener, seen, got, saved, missed, starts>>

\* What is there already is taken as seen; without permission nothing starts.
Bootstrap ==
  /\ listener = "off" /\ starts < MaxListenerStarts /\ starts' = starts + 1
  /\ listener' = "asking" /\ seen' = shown /\ missed' = missed \cup shown
  /\ UNCHANGED <<shown, gone, got, saved>>

\* A call that raises is tried again after a while.
Ask ==
  /\ listener = "asking" /\ listener' = "saving" /\ got' = shown
  /\ UNCHANGED <<shown, gone, seen, saved, missed, starts>>

\* A listener that does not take note of what it saves.
LookForgets(t) ==
  /\ listener = "saving" /\ t \in got /\ got' = got \ {t}
  /\ saved' = IF t \in Discord \ seen THEN [saved EXCEPT ![t] = @ + 1]
              ELSE saved
  /\ UNCHANGED <<shown, gone, listener, seen, missed, starts>>

Look(t) ==
  /\ listener = "saving" /\ t \in got /\ got' = got \ {t}
  /\ seen' = seen \cup {t}
  /\ saved' = IF t \in Discord \ seen THEN [saved EXCEPT ![t] = @ + 1]
              ELSE saved
  /\ UNCHANGED <<shown, gone, listener, missed, starts>>

AllLooked ==
  /\ listener = "saving" /\ got = {} /\ listener' = "asking"
  /\ UNCHANGED <<shown, gone, seen, got, saved, missed, starts>>

\* A file that cannot be written ends the listener, as does the user.
Fall ==
  /\ listener # "off" /\ listener' = "off" /\ seen' = {} /\ got' = {}
  /\ UNCHANGED <<shown, gone, saved, missed, starts>>

ListenerNext ==
  \/ Bootstrap \/ Ask \/ AllLooked \/ Fall
  \/ \E t \in Toasts : Show(t) \/ Dismiss(t) \/ Look(t)

ListenerSpec == ListenerInit /\ [][ListenerNext]_listenerVars

ListenerFair ==
  WF_listenerVars(Ask \/ AllLooked \/ \E t \in Toasts : Look(t))

\* A notification of Discord that stays long enough is saved, unless a listener
\* found it at its start, or falls; and it is saved once.
ToastsSavedOnce ==
  /\ \A t \in Toasts : saved[t] <= 1 /\ (t \notin Discord => saved[t] = 0)
  /\ \A t \in seen \cap Discord : saved[t] = 1 \/ t \in missed
=============================================================================
