------------------------------ MODULE Watcher ------------------------------
(***************************************************************************)
(* discord_watcher/watcher.py and complete_login.py: processes that read   *)
(* channels in a browser, write new messages into the day's files and keep *)
(* what they have seen in config.json.  The scheduler starts one every few *)
(* hours and the control panel another; each may be killed at any step.    *)
(*                                                                         *)
(* A message is its place in the sequence of all posts (an id grows with   *)
(* time); a configuration holds the last seen message of its channels and  *)
(* the day's file counter.                                                 *)
(***************************************************************************)
EXTENDS Integers, Sequences, FiniteSets, FiniteSetsExt

CONSTANTS
  Channels, Procs,
  None, Absent, Torn,
  MaxScrolls,  \* max_scrolls
  View,        \* how many messages of a channel a page renders
  MaxPosts, MaxDays, MaxFiles, MaxKills   \* bounds

ASSUME WatcherAssumption ==
  /\ {View, MaxScrolls, MaxPosts, MaxDays, MaxFiles, MaxKills} \subseteq Nat
  /\ View > 0 /\ MaxDays > 0

VARIABLES
  posts,       \* the channel of every message, oldest first
  day,         \* the date
  config,      \* config.json: a configuration, Absent or Torn
  files,       \* the messages in msg_<n>.md of each day; {} if there is none
  browser,     \* the process whose Chromium holds the profile
  pc, mode, cfg, todo, batch, \* a process: its step, command and locals
  scroll,      \* a scrape: the page it scrolls
  filed,       \* every message a file was ever written with
  read,        \* the last_seen_msg_ids a process started from
  kills,       \* how many processes were killed
  clean        \* no kill, no overlap and no new set-up so far

disk  == <<config, files, filed>>
world == <<posts, day>>
proc  == <<pc, mode, cfg, todo, batch, read, scroll>>
watcherVars == <<world, disk, browser, proc, kills, clean>>

Modes  == {"poll", "login", "complete", "scrape"}

\* What config.json may hold.
LastSeen == UNION {[S -> Nat \cup {None}] : S \in SUBSET Channels}
Configs  == [last : LastSeen, seq : Nat, date : Nat \cup {None}]

ASSUME NoValueAssumption ==
  None \notin Procs \cup Int /\ {Absent, Torn} \cap Configs = {} /\ Absent # Torn

Fresh  == [last |-> <<>>, seq |-> 0, date |-> None]
OfChannel(c) == {m \in DOMAIN posts : posts[m] = c}
Written == UNION {files[f] : f \in DOMAIN files}

\* Its channel, the oldest message that is loaded, the messages that were there
\* when it was opened; the count of the last look, how often in a row it was the
\* same, how often it was scrolled, and how often in a row older messages did not
\* come (3 for ever).
NoPage == [channel |-> None, from |-> 0, owed |-> {}, count |-> 0, still |-> 0,
           turns |-> 0, late |-> 0]

WatcherInit ==
  /\ posts = <<>> /\ day = 1 /\ config = Absent
  /\ files = [f \in (1..MaxDays) \X (1..MaxFiles) |-> {}]
  /\ browser = None /\ kills = 0 /\ clean = TRUE
  /\ pc = [p \in Procs |-> "off"] /\ mode = [p \in Procs |-> "poll"]
  /\ cfg = [p \in Procs |-> Fresh]
  /\ todo = [p \in Procs |-> {}] /\ batch = [p \in Procs |-> {}]
  /\ scroll = [p \in Procs |-> NoPage]
  /\ filed = {} /\ read = [p \in Procs |-> <<>>]

Goto(p, step) == pc' = [pc EXCEPT ![p] = step]

\* A process that ends forgets what it held.
Ends(p) ==
  /\ Goto(p, "off") /\ mode' = [mode EXCEPT ![p] = "poll"]
  /\ cfg' = [cfg EXCEPT ![p] = Fresh]
  /\ todo' = [todo EXCEPT ![p] = {}] /\ batch' = [batch EXCEPT ![p] = {}]
  /\ read' = [read EXCEPT ![p] = <<>>] /\ scroll' = [scroll EXCEPT ![p] = NoPage]
  /\ browser' = IF browser = p THEN None ELSE browser

-----------------------------------------------------------------------------
Post(c) ==
  /\ Len(posts) < MaxPosts /\ posts' = Append(posts, c)
  /\ UNCHANGED <<day, disk, browser, proc, kills, clean>>

NextDay ==
  /\ day < MaxDays /\ day' = day + 1
  /\ UNCHANGED <<posts, disk, browser, proc, kills, clean>>

\* main(): the command line chooses the mode.
Start(p, command) ==
  /\ pc[p] = "off" /\ mode' = [mode EXCEPT ![p] = command]
  /\ Goto(p, IF command = "complete" THEN "launch" ELSE "load")
  /\ clean' = (clean /\ command # "complete" /\ \A q \in Procs : pc[q] = "off")
  /\ UNCHANGED <<world, disk, browser, cfg, todo, batch, read, scroll, kills>>

\* load_config: json.loads of half a file raises, and main() ends; a poll
\* without a server ends too.
Load(p) ==
  /\ pc[p] = "load"
  /\ IF config = Torn \/ (config = Absent /\ mode[p] \in {"poll", "scrape"})
       THEN Ends(p)
       ELSE /\ cfg' = [cfg EXCEPT ![p] = IF config = Absent THEN Fresh
                                        ELSE config]
            /\ read' = [read EXCEPT ![p] = cfg'[p].last]
            /\ Goto(p, "launch") /\ UNCHANGED <<mode, todo, batch, scroll, browser>>
  /\ UNCHANGED <<world, disk, kills, clean>>

\* launch_persistent_context: one Chromium at a time has the profile.
Launch(p) ==
  /\ pc[p] = "launch"
  /\ \/ /\ browser = None /\ browser' = p
        /\ todo' = [todo EXCEPT ![p] = DOMAIN cfg[p].last]
        /\ Goto(p, CASE mode[p] = "poll" -> "visit" [] mode[p] = "scrape" -> "choose"
                     [] OTHER -> "discover")
        /\ UNCHANGED <<mode, cfg, batch, read, scroll>>
     \/ browser \in Procs /\ Ends(p)
  /\ UNCHANGED <<world, disk, kills, clean>>

\* A session that has expired, a page that is not a channel, for complete_login
\* an empty sidebar: the process ends before it saves anything.
Stranger(p) ==
  /\ \/ pc[p] = "discover" \/ (pc[p] = "visit" /\ batch[p] = {})
     \/ pc[p] = "choose" /\ todo[p] = DOMAIN cfg[p].last
  /\ Ends(p)
  /\ UNCHANGED <<world, disk, kills, clean>>

\* The text channels of the sidebar, also of an empty one.  login keeps what was
\* seen of those it finds.
Discover(p) ==
  \E found \in SUBSET Channels :
    /\ pc[p] = "discover" /\ mode[p] = "login" /\ Goto(p, "save")
    /\ LET kept == cfg[p].last
       IN cfg' = [cfg EXCEPT ![p].last =
            [c \in found |-> IF c \in DOMAIN kept THEN kept[c] ELSE None]]
    /\ UNCHANGED <<world, disk, browser, mode, todo, batch, read, scroll, kills, clean>>

\* complete_login reads no configuration and begins a new one.
DiscoverAfresh(p) ==
  \E found \in SUBSET Channels \ {{}} :
    /\ pc[p] = "discover" /\ mode[p] = "complete" /\ Goto(p, "save")
    /\ cfg' = [cfg EXCEPT ![p].last = [c \in found |-> None]]
    /\ UNCHANGED <<world, disk, browser, mode, todo, batch, read, scroll, kills, clean>>

-----------------------------------------------------------------------------
(* cmd_poll *)

\* What a page renders: the newest messages of the channel.
Rendered(c) ==
  {m \in OfChannel(c) : Cardinality({n \in OfChannel(c) : n > m}) < View}

\* A filter that takes the last message seen again.
NewOrLast(p, c) == {m \in Rendered(c) : m >= cfg[p].last[c]}

NewIn(p, c) == {m \in Rendered(c) : m > cfg[p].last[c]}

\* The first poll of a channel only takes note of where it is.
PollChannel(p) ==
  \E c \in todo[p] :
    /\ pc[p] = "visit" /\ Rendered(c) # {}
    /\ todo' = [todo EXCEPT ![p] = @ \ {c}]
    /\ cfg' = [cfg EXCEPT ![p].last[c] = Max(Rendered(c))]
    /\ batch' = IF cfg[p].last[c] = None THEN batch
                ELSE [batch EXCEPT ![p] = @ \cup NewIn(p, c)]
    /\ UNCHANGED <<world, disk, browser, pc, mode, read, scroll, kills, clean>>

\* The page has not rendered in time, or the poll of the channel raises.
SkipChannel(p) ==
  \E c \in todo[p] :
    /\ pc[p] = "visit" /\ todo' = [todo EXCEPT ![p] = @ \ {c}]
    /\ UNCHANGED <<world, disk, browser, pc, mode, cfg, batch, read, scroll, kills, clean>>

\* The configuration before the file.
AllPolledSavesFirst(p) ==
  /\ pc[p] = "visit" /\ todo[p] = {} /\ browser' = None
  /\ Goto(p, "save")
  /\ UNCHANGED <<world, disk, mode, cfg, todo, batch, read, scroll, kills, clean>>

AllPolled(p) ==
  /\ pc[p] = "visit" /\ todo[p] = {} /\ browser' = None
  /\ Goto(p, IF batch[p] = {} THEN "save" ELSE "write")
  /\ UNCHANGED <<world, disk, mode, cfg, todo, batch, read, scroll, kills, clean>>

\* next_msg_path: the counter goes on within a day, and from the files that are
\* there on a new one.
LastFile(d) == Max({0} \cup {n \in 1..MaxFiles : files[<<d, n>>] # {}})

NextSeq(p) == 1 + IF cfg[p].date = day THEN cfg[p].seq ELSE LastFile(day)

WriteFile(p) ==
  /\ pc[p] = "write" /\ NextSeq(p) <= MaxFiles
  /\ files' = [files EXCEPT ![<<day, NextSeq(p)>>] = batch[p]]
  /\ filed' = filed \cup batch[p]
  /\ cfg' = [cfg EXCEPT ![p].seq = NextSeq(p), ![p].date = day]
  /\ Goto(p, "save")
  /\ UNCHANGED <<world, config, browser, mode, todo, batch, read, scroll, kills, clean>>

\* save_config: write_text empties the file and then fills it.
Truncate(p) ==
  /\ pc[p] = "save" /\ config' = Torn /\ Goto(p, "fill")
  /\ UNCHANGED <<world, files, filed, browser, mode, cfg, todo, batch, read, scroll, kills, clean>>

Save(p) ==
  /\ pc[p] = "fill" /\ config' = cfg[p] /\ Ends(p)
  /\ UNCHANGED <<world, files, filed, kills, clean>>

-----------------------------------------------------------------------------
(* cmd_scrape *)

\* A page opens with the newest messages; one that does not render, or raises,
\* is passed over with an empty dump or none.
OpenPage(p) ==
  \E c \in todo[p] :
    /\ pc[p] = "choose" /\ todo' = [todo EXCEPT ![p] = @ \ {c}]
    /\ \/ /\ Rendered(c) # {} /\ Goto(p, "scroll")
          /\ scroll' = [scroll EXCEPT ![p] =
               [NoPage EXCEPT !.channel = c, !.from = Min(Rendered(c)), !.owed = OfChannel(c),
                              !.still = -1]]
       \/ UNCHANGED <<pc, scroll>>
    /\ UNCHANGED <<world, disk, browser, mode, cfg, batch, read, kills, clean>>

\* What is loaded; a message that is posted meanwhile is rendered too.
InPage(p) == {m \in OfChannel(scroll[p].channel) : m >= scroll[p].from}

Older(p) == OfChannel(scroll[p].channel) \ InPage(p)

\* Where the page begins after it was scrolled: where it did, when the older
\* messages come late.
Scrolled(p) ==
  {scroll[p].from} \cup {m \in Older(p) : Cardinality({n \in Older(p) : n >= m}) = View
                                             \/ (m = Min(Older(p)) /\ Cardinality(Older(p)) < View)}

\* The top is believed at the first count that has not grown.
TopAtOnce(p) == scroll[p].still >= 1 \/ scroll[p].turns = MaxScrolls
AtTheTop(p)  == scroll[p].still >= 3 \/ scroll[p].turns = MaxScrolls

\* scroll_to_top: another look at the count.  Its first look is no repetition.
ScrollUp(p) ==
  /\ pc[p] = "scroll" /\ ~AtTheTop(p)
  /\ \E from \in Scrolled(p) :
       LET count == Cardinality({m \in OfChannel(scroll[p].channel) : m >= from})
       IN scroll' = [scroll EXCEPT
            ![p].from = from, ![p].count = count, ![p].turns = @ + 1,
            ![p].still = IF @ = -1 \/ count # scroll[p].count THEN 0 ELSE @ + 1,
            ![p].late = CASE @ = 3 -> 3
                          [] @ < 3 /\ Older(p) # {} /\ from = scroll[p].from -> @ + 1
                          [] OTHER -> 0]
  /\ UNCHANGED <<world, disk, browser, pc, mode, cfg, todo, batch, read, kills, clean>>

ScrollEnds(p) ==
  /\ pc[p] = "scroll" /\ AtTheTop(p) /\ Goto(p, "dump")
  /\ UNCHANGED <<world, disk, browser, mode, cfg, todo, batch, read, scroll, kills, clean>>

\* write_channel_scrape: the dump of the channel, which nobody reads, gets what
\* is in the page.
WriteScrape(p) ==
  /\ pc[p] = "dump" /\ Goto(p, "choose") /\ scroll' = [scroll EXCEPT ![p] = NoPage]
  /\ UNCHANGED <<world, disk, browser, mode, cfg, todo, batch, read, kills, clean>>

AllScraped(p) ==
  /\ pc[p] = "choose" /\ todo[p] = {} /\ Ends(p)
  /\ UNCHANGED <<world, disk, kills, clean>>

Scrape(p) ==
  OpenPage(p) \/ ScrollUp(p) \/ ScrollEnds(p) \/ WriteScrape(p) \/ AllScraped(p)

-----------------------------------------------------------------------------
\* A signal, the scheduler's time limit, or the panel's terminate().
Die(p) ==
  /\ pc[p] # "off" /\ Ends(p)
  /\ UNCHANGED <<world, disk>>

Kill(p) ==
  /\ kills < MaxKills /\ kills' = kills + 1 /\ clean' = FALSE
  /\ Die(p)

ProcStep(p) ==
  \/ Load(p) \/ Launch(p) \/ Stranger(p) \/ Discover(p)
  \/ DiscoverAfresh(p) \/ PollChannel(p) \/ SkipChannel(p) \/ AllPolled(p) \/ WriteFile(p) \/ Truncate(p) \/ Save(p)
  \/ Scrape(p)

-----------------------------------------------------------------------------
WatcherTypeOK ==
  /\ posts \in Seq(Channels) /\ day \in 1..MaxDays
  /\ browser \in Procs \cup {None}
  /\ \A p \in Procs : mode[p] \in Modes /\ todo[p] \subseteq Channels

\* config.json passes over a message only when a file had it: of what a page
\* showed between the last_seen_msg_id a process read and the one it saves,
\* nothing is missing, whichever process was killed at whichever step.
SeenIsSaved ==
  \A p \in Procs : pc[p] = "fill" =>
    \A c \in DOMAIN read[p] \cap DOMAIN cfg[p].last :
      read[p][c] # None =>
        \A m \in OfChannel(c) :
          /\ read[p][c] < m /\ m <= cfg[p].last[c]
          /\ Cardinality({n \in OfChannel(c) : m < n /\ n <= cfg[p].last[c]}) < View
          => m \in filed

\* With one process at a time and none killed, a message is in one file, and
\* the files have all that was ever filed.
FiledOnce ==
  clean => /\ Written = filed
           /\ \A f, g \in DOMAIN files :
                f # g => files[f] \cap files[g] = {}

\* A file that was written keeps its messages.
FilesKeep ==
  [][Written \subseteq Written']_watcherVars

\* One browser, one process: no poll is in a page without the profile.
OneBrowser ==
  \A p \in Procs :
    pc[p] \in {"visit", "discover", "choose", "scroll", "dump"} => browser = p

\* "Scroll ... until no new messages load" (scroll_to_top): a page that is late
\* for less than three looks in a row is dumped whole, also when messages come
\* in while it is scrolled.
ScrapeIsWhole ==
  \A p \in Procs :
    pc[p] = "dump" /\ scroll[p].turns < MaxScrolls /\ scroll[p].late < 3
      => scroll[p].owed \subseteq InPage(p)

WatcherNext ==
  \/ NextDay \/ (\E c \in Channels : Post(c))
  \/ \E p \in Procs :
       ProcStep(p) \/ Kill(p) \/ \E command \in Modes : Start(p, command)

\* What the watcher passes over was filed, once, by the one with the browser,
\* and a scrape leaves nothing out.
WatcherInv == WatcherTypeOK /\ SeenIsSaved /\ FiledOnce /\ OneBrowser /\ ScrapeIsWhole

WatcherSpec == WatcherInit /\ [][WatcherNext]_watcherVars
=============================================================================
