--------------------------- MODULE DolaDiscovery ---------------------------
(***************************************************************************)
(* semifinal/dola.py: a thread listens for the packets the aircraft        *)
(* broadcast and keeps a table of them, and the caller waits, with a       *)
(* deadline, for the aircraft it wants.  Time is in polls of 50 ms.        *)
(***************************************************************************)
EXTENDS Integers, FiniteSets, Sequences

CONSTANTS
  Planes, Ips, NoIp,
  Listen,          \* listen_seconds, in polls
  MaxHeard,      \* bound: packets sent
  MaxCalls         \* bound: calls

ASSUME DolaAssumption == Listen \in Nat /\ NoIp \notin Ips

VARIABLES
  open,            \* is the socket open?
  running,         \* _running
  ear,             \* the thread: "none", "test", "recv" or "store"
  heard,           \* the packet it has
  planes,          \* the table
  sent,            \* packets so far, and the address each plane sent last
  last,
  clock,           \* polls since the call began
  ask,             \* "none", "one", "many" or "all"
  wanted, reply,
  calls,
  stopped,         \* stop() was called
  after            \* entries stored since

dolaVars == <<open, running, ear, heard, planes, sent, last, clock, ask, wanted,
              reply, calls, stopped, after>>

NoPacket == [plane |-> NoIp, ip |-> NoIp]

DolaInit ==
  /\ open = TRUE /\ running = FALSE /\ ear = "none" /\ heard = NoPacket
  /\ planes = [p \in Planes |-> NoIp] /\ sent = 0
  /\ last = [p \in Planes |-> NoIp]
  /\ clock = 0 /\ ask = "none" /\ wanted = {} /\ reply = [p \in {} |-> NoIp]
  /\ calls = 0 /\ stopped = FALSE /\ after = 0

caller == <<clock, ask, wanted, reply, calls>>

\* A second start while it runs does nothing.
StartListening ==
  /\ ~running /\ ~stopped /\ running' = TRUE /\ ear' = "test"
  /\ UNCHANGED <<open, heard, planes, sent, last, caller, stopped, after>>

\* join() waits a second at most, so the thread may be there still.
StopListening ==
  /\ running /\ ask = "none" /\ running' = FALSE /\ open' = FALSE
  /\ stopped' = TRUE
  /\ UNCHANGED <<ear, heard, planes, sent, last, caller, after>>

Test == ear' = IF running THEN "recv" ELSE "none"

ListenerTests ==
  /\ ear = "test" /\ Test
  /\ UNCHANGED <<open, running, heard, planes, sent, last, caller, stopped, after>>

\* A packet of an aircraft: recvfrom() that waits since before close() may
\* return it.  One with a wrong length or id is passed over.
Receive(p, ip) ==
  /\ ear = "recv" /\ sent < MaxHeard /\ sent' = sent + 1
  /\ \/ ear' = "store" /\ heard' = [plane |-> p, ip |-> ip]
        /\ last' = [last EXCEPT ![p] = ip]
     \/ ear' = "test" /\ UNCHANGED <<heard, last>>
  /\ UNCHANGED <<open, running, planes, caller, stopped, after>>

\* The closed socket raises OSError.
SocketClosed ==
  /\ ear = "recv" /\ ~open /\ ear' = "none"
  /\ UNCHANGED <<open, running, heard, planes, sent, last, caller, stopped, after>>

\* The first address of a plane is kept.
StoreFirst ==
  planes' = [planes EXCEPT ![heard.plane] = IF @ = NoIp THEN heard.ip ELSE @]
Store == planes' = [planes EXCEPT ![heard.plane] = heard.ip]

ListenerStores ==
  /\ ear = "store" /\ Store /\ ear' = "test"
  /\ after' = IF stopped THEN after + 1 ELSE after
  /\ UNCHANGED <<open, running, heard, sent, last, caller, stopped>>

-----------------------------------------------------------------------------
Known == {p \in Planes : planes[p] # NoIp}

Ask(kind, ps) ==
  /\ ask = "none" /\ calls < MaxCalls /\ calls' = calls + 1
  /\ ask' = kind /\ wanted' = ps /\ clock' = 0 /\ reply' = [p \in {} |-> NoIp]
  /\ UNCHANGED <<open, running, ear, heard, planes, sent, last, stopped, after>>

\* Is there an answer before the deadline?
Satisfied ==
  CASE ask = "one" -> wanted \subseteq Known
    [] ask = "many" -> wanted \subseteq Known
    [] OTHER -> FALSE

\* It goes on as long as somebody is missing.
SleepOn == clock' = clock + 1 /\ ~Satisfied
Sleep == clock < Listen /\ clock' = clock + 1 /\ ~Satisfied

Poll ==
  /\ ask # "none" /\ Sleep
  /\ UNCHANGED <<open, running, ear, heard, planes, sent, last, ask, wanted,
                 reply, calls, stopped, after>>

\* get_ip_by_plane_id does not look at the table after the deadline.
Answer ==
  /\ ask # "none" /\ (Satisfied \/ clock >= Listen)
  /\ reply' = CASE ask = "one" /\ clock >= Listen -> [p \in wanted |-> NoIp]
                 [] ask = "all" -> [p \in Known |-> planes[p]]
                 [] OTHER -> [p \in wanted |-> planes[p]]
  /\ ask' = "none"
  /\ UNCHANGED <<open, running, ear, heard, planes, sent, last, clock, wanted,
                 calls, stopped, after>>

ClearTable ==
  /\ ask = "none" /\ planes' = [p \in Planes |-> NoIp]
  /\ UNCHANGED <<open, running, ear, heard, sent, last, caller, stopped, after>>

DolaNext ==
  \/ StartListening \/ StopListening \/ ListenerTests \/ SocketClosed
  \/ ListenerStores \/ Poll \/ Answer \/ ClearTable
  \/ \E p \in Planes, ip \in Ips : Receive(p, ip)
  \/ \E p \in Planes : Ask("one", {p})
  \/ Ask("many", Planes) \/ Ask("all", Planes)

DolaSpec == DolaInit /\ [][DolaNext]_dolaVars

-----------------------------------------------------------------------------
(* The table never holds an address a plane has given up, except for the   *)
(* packet the thread is about to store.                                    *)
TableIsNewest ==
  \A p \in Known : planes[p] = last[p] \/ (ear = "store" /\ heard.plane = p)

(* A call is answered by its deadline, whoever is still missing, and the   *)
(* thread that was left behind by stop() stores at most one packet more.   *)
DolaKeepsTime == clock <= Listen /\ after <= 1

(* The table is fresh and nobody waits for it for longer than asked.       *)
DolaInv == TableIsNewest /\ DolaKeepsTime

(* stop() returns and the table stays as it is.                            *)
StoppedIsQuiet == after = 0
=============================================================================
