------------------------------- MODULE MockUwb -------------------------------
(***************************************************************************)
(* mapping_drone/uwb.py, MockUwbNode: the positions the tests program.  It *)
(* is what the controllers' tests rely on, so it is what the real          *)
(* subscriber has to look like (UwbSubscriber implements it).              *)
(***************************************************************************)
EXTENDS Naturals

CONSTANTS Fixes,       \* positions
          MaxPackets   \* bound: packets in a behaviour

VARIABLES position,    \* _n and _e
          ready,
          stamp        \* _last_update_ts, as the number of packets so far

mockVars == <<position, ready, stamp>>

MockInit == position = "origin" /\ ready = FALSE /\ stamp = 0
SetPosition ==
    /\ stamp < MaxPackets
    /\ position' \in Fixes
    /\ ready' = TRUE
    /\ stamp' = stamp + 1
MockSpec == MockInit /\ [][SetPosition]_mockVars
=============================================================================
