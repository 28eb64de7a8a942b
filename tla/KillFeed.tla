------------------------------ MODULE KillFeed ------------------------------
(***************************************************************************)
(* The EVE-KILL feed poller (eve-kill/feed-poll.ts) with its three kinds   *)
(* of consumers: the kill watches of the chats (eve-kill/watch.ts), the    *)
(* route monitors, which are awaited, and the map's kill index, which only *)
(* observes.  One durable cursor serves them all.                          *)
(*                                                                         *)
(* The cursor, the watches, the delivery records, the monitor rows and the *)
(* kill index survive a crash; the rest is the memory of one process.  The *)
(* poller awaits pages, listeners and sends; an action is what it does     *)
(* between two of these.                                                   *)
(***************************************************************************)
EXTENDS Integers, FiniteSets

CONSTANTS Chats, Topics, Kills,
          KillOf,      \* the killmail of a feed event
          TopicsOf,    \* the topics a feed event matches
          PageLimit,   \* options.limit
          AheadPages,  \* MAX_OBSERVE_AHEAD_PAGES
          MaxWatches,  \* watches of one chat
          MaxSeq,      \* bound: events the server publishes
          MaxStarts    \* bound: process starts

Events == 1..MaxSeq

ASSUME FeedAssumption == /\ KillOf \in [Events -> Kills]
                         /\ TopicsOf \in [Events -> SUBSET Topics]
ASSUME SizesAssumption == /\ PageLimit \in Nat \ {0} /\ AheadPages \in Nat
                          /\ MaxWatches \in Nat /\ MaxSeq \in Nat /\ MaxStarts \in Nat

VARIABLES
  head,       \* the server's latest sequence id
  cursor,     \* last_sequence_id; NoCursor before the first page
  watches,    \* kill_watches rows <<chat, topic>>
  delivered,  \* eve_kill_notification_dedup rows <<chat, kill>>
  monitors,   \* chats with a route_monitors row
  indexed,    \* kills in map_kill_events
  up, starts,
  active,     \* chats whose platform has a sender in this process
  step,       \* what the poller awaits
  at,         \* the event it is processing
  last, more, \* last event of its page, and the page's hasMore
  ready,      \* onReady has run
  listeners,  \* monitors subscribed to the feed
  called,     \* listeners that have returned for this event
  todo,       \* chats this event is still to be sent to
  accepted,   \* of these, one whose platform has taken the message
  observed,   \* observedThrough
  pages,      \* pages observeAhead may still fetch
  base,       \* history: the cursor of the bootstrap
  owed,       \* history: <<chat, event>> found by the last matching
  heard       \* history: deliveries the program was told of

NoCursor == -1
database == <<cursor, watches, delivered, monitors, indexed>>
poller   == <<step, at, last, more, called, todo, accepted, pages>>
history  == <<base, owed, heard>>
vars == <<head, database, up, starts, active, ready, listeners, poller, observed, history>>

Steps == {"asleep", "bootstrapping", "fetching", "listening", "sending", "ahead"}

TypeOK ==
  /\ head \in 0..MaxSeq /\ cursor \in NoCursor..MaxSeq
  /\ watches \subseteq Chats \X Topics /\ delivered \subseteq Chats \X Kills
  /\ monitors \subseteq Chats /\ indexed \subseteq Kills
  /\ up \in BOOLEAN /\ starts \in 0..MaxStarts /\ active \subseteq Chats
  /\ step \in Steps /\ at \in 0..MaxSeq /\ last \in 0..MaxSeq
  /\ more \in BOOLEAN /\ ready \in BOOLEAN
  /\ listeners \subseteq Chats /\ called \subseteq Chats /\ todo \subseteq Chats
  /\ accepted \subseteq todo
  /\ observed \in NoCursor..MaxSeq /\ pages \in 0..AheadPages
  /\ base \in NoCursor..MaxSeq
  /\ owed \subseteq Chats \X Events /\ heard \subseteq Chats \X Kills

Init ==
  /\ head = 0 /\ cursor = NoCursor
  /\ watches = {} /\ delivered = {} /\ monitors = {} /\ indexed = {}
  /\ up = FALSE /\ starts = 0 /\ active = {}
  /\ step = "asleep" /\ at = 0 /\ last = 0 /\ more = FALSE /\ ready = FALSE
  /\ listeners = {} /\ called = {} /\ todo = {} /\ accepted = {}
  /\ observed = NoCursor /\ pages = 0
  /\ base = NoCursor /\ owed = {} /\ heard = {}

Min2(a, b) == IF a < b THEN a ELSE b

-----------------------------------------------------------------------------
(* The server, the users, the process.                                     *)

Publish ==
  /\ head < MaxSeq /\ head' = head + 1
  /\ UNCHANGED <<database, up, starts, active, ready, listeners, poller, observed, history>>

AddWatch(c, t) ==
  /\ up /\ <<c, t>> \notin watches
  /\ Cardinality({w \in watches : w[1] = c}) < MaxWatches
  /\ watches' = watches \cup {<<c, t>>}
  /\ UNCHANGED <<head, cursor, delivered, monitors, indexed, up, starts, active,
                 ready, listeners, poller, observed, history>>

RemoveWatch(c, t) ==
  /\ up /\ <<c, t>> \in watches
  /\ watches' = watches \ {<<c, t>>}
  /\ UNCHANGED <<head, cursor, delivered, monitors, indexed, up, starts, active,
                 ready, listeners, poller, observed, history>>

\* A route monitor is saved and subscribed in one block, and so is its end.
\* The next monitor of the chat is another listener.
StartMonitor(c) ==
  /\ up /\ c \in active \ listeners
  /\ monitors' = monitors \cup {c} /\ listeners' = listeners \cup {c}
  /\ UNCHANGED <<head, cursor, watches, delivered, indexed, up, starts, active,
                 ready, poller, observed, history>>

StopMonitor(c) ==
  /\ up /\ c \in monitors
  /\ monitors' = monitors \ {c} /\ listeners' = listeners \ {c}
  /\ called' = called \ {c}
  /\ UNCHANGED <<head, cursor, watches, delivered, indexed, up, starts, active, ready,
                 step, at, last, more, todo, accepted, pages, observed, history>>

\* A process has senders for some platforms: the CLI, Telegram, Discord.
Start ==
  /\ ~up /\ starts < MaxStarts
  /\ up' = TRUE /\ starts' = starts + 1
  /\ active' \in SUBSET Chats
  /\ UNCHANGED <<head, database, ready, listeners, poller, observed, history>>

Crash ==
  /\ up /\ starts < MaxStarts
  /\ up' = FALSE
  /\ active' = {} /\ ready' = FALSE /\ listeners' = {}
  /\ step' = "asleep" /\ at' = 0 /\ last' = 0 /\ more' = FALSE
  /\ called' = {} /\ todo' = {} /\ accepted' = {} /\ pages' = 0
  /\ observed' = NoCursor
  /\ UNCHANGED <<head, database, starts, history>>

-----------------------------------------------------------------------------
(* The loop.                                                               *)

SleepAccepted == /\ step' = "asleep" /\ at' = 0 /\ last' = 0 /\ more' = FALSE
                 /\ called' = {} /\ todo' = {} /\ pages' = 0      \* a bug
                 /\ UNCHANGED accepted
Sleep == /\ step' = "asleep" /\ at' = 0 /\ last' = 0 /\ more' = FALSE
         /\ called' = {} /\ todo' = {} /\ accepted' = {} /\ pages' = 0

\* onReady: restoreMonitors subscribes every saved monitor whose platform is
\* there.  When it throws, the loop sleeps and calls it again.
PollsAtOnce == TRUE                                                   \* a bug
MayPoll == ready

Restore ==
  /\ up /\ step = "asleep" /\ cursor # NoCursor /\ ~ready
  /\ ready' = TRUE
  /\ listeners' = listeners \cup (monitors \cap active)
  /\ UNCHANGED <<head, database, up, starts, active, poller, observed, history>>

Poll ==
  /\ up /\ step = "asleep"
  /\ \/ cursor = NoCursor /\ step' = "bootstrapping"
     \/ cursor # NoCursor /\ MayPoll /\ step' = "fetching"
  /\ UNCHANGED <<head, database, up, starts, active, ready, listeners, at, last, more,
                 called, todo, accepted, pages, observed, history>>

\* A page request fails, or the page is refused.
PageFails ==
  /\ up /\ step \in {"bootstrapping", "fetching", "ahead"}
  /\ Sleep
  /\ UNCHANGED <<head, database, up, starts, active, ready, listeners, observed, history>>

\* A missing cursor starts at the server's head: history is not replayed.
Bootstrap ==
  /\ up /\ step = "bootstrapping"
  /\ cursor' = head /\ base' = head /\ observed' = head
  /\ Sleep
  /\ UNCHANGED <<head, watches, delivered, monitors, indexed, up, starts, active,
                 ready, listeners, owed, heard>>

\* notifyObservers: events up to observedThrough were seen by this process.
ObservedFrom ==
  IF observed < cursor \/ observed > head THEN cursor ELSE observed

Observe(from, upto) ==
  /\ indexed' = indexed \cup {KillOf[s] : s \in (from + 1)..upto}
  /\ observed' = IF upto > from THEN upto ELSE from

\* The next page: the observers see all of it before the first event.
PageArrives ==
  LET end == Min2(head, cursor + PageLimit)
  IN /\ up /\ step = "fetching"
     /\ Observe(ObservedFrom, end)
     /\ IF end = cursor THEN Sleep
        ELSE /\ step' = "listening" /\ at' = cursor + 1
             /\ last' = end /\ more' = (end < head)
             /\ called' = {} /\ UNCHANGED <<todo, accepted, pages>>
     /\ UNCHANGED <<head, cursor, watches, delivered, monitors, up, starts, active,
                    ready, listeners, history>>

\* A failed event holds the cursor; the observers may go on without it.
HoldAsleep == Sleep                                                \* a bug
Hold ==
  IF more /\ AheadPages > 0
  THEN /\ step' = "ahead" /\ pages' = AheadPages
       /\ at' = 0 /\ last' = 0 /\ more' = FALSE
       /\ called' = {} /\ todo' = {} /\ accepted' = {}
  ELSE Sleep

PassesOnFailure ==                                                 \* a bug
  /\ cursor' = at
  /\ Sleep
HeldOnFailure == Hold /\ UNCHANGED cursor

ListenerReturns(c) ==
  /\ up /\ step = "listening" /\ c \in listeners \ called
  /\ called' = called \cup {c}
  /\ UNCHANGED <<head, database, up, starts, active, ready, listeners, step, at, last,
                 more, todo, accepted, pages, observed, history>>

ListenerFails(c) ==
  /\ up /\ step = "listening" /\ c \in listeners \ called
  /\ HeldOnFailure
  /\ UNCHANGED <<head, watches, delivered, monitors, indexed, up, starts, active,
                 ready, listeners, observed, history>>

\* Every listener has returned: the watches are matched.  Chats of a platform
\* that this process does not serve are passed over: canDeliver.
DeliverableAnywhere == Chats                                       \* a bug
Deliverable == active

Watching(e) == {c \in Chats : \E t \in TopicsOf[e] : <<c, t>> \in watches}

Match ==
  LET found == Watching(at) \cap Deliverable
  IN /\ up /\ step = "listening" /\ listeners \subseteq called
     /\ todo' = {c \in found : <<c, KillOf[at]>> \notin delivered}
     /\ owed' = {o \in owed : o[2] # at} \cup (found \X {at})
     /\ step' = "sending"
     /\ UNCHANGED <<head, database, up, starts, active, ready, listeners, at, last, more,
                    called, accepted, pages, observed, base, heard>>

\* The chat's platform takes the message.
Accept(c) ==
  /\ up /\ step = "sending" /\ c \in todo \cap active /\ accepted = {}
  /\ accepted' = {c}
  /\ UNCHANGED <<head, database, up, starts, active, ready, listeners, step, at, last,
                 more, called, todo, pages, observed, history>>

\* send() resolves, or is refused for good: recordDelivery.
NotRecorded(c) == delivered                                        \* a bug
Recorded(c) == delivered \cup {<<c, KillOf[at]>>}

Resolve(c) ==
  /\ up /\ step = "sending" /\ c \in accepted
  /\ delivered' = Recorded(c)
  /\ heard' = heard \cup {<<c, KillOf[at]>>}
  /\ todo' = todo \ {c} /\ accepted' = {}
  /\ UNCHANGED <<head, cursor, watches, monitors, indexed, up, starts, active, ready,
                 listeners, step, at, last, more, called, pages, observed, base, owed>>

Refused(c) ==
  /\ up /\ step = "sending" /\ c \in todo \cap active /\ accepted = {}
  /\ delivered' = Recorded(c)
  /\ todo' = todo \ {c}
  /\ UNCHANGED <<head, cursor, watches, monitors, indexed, up, starts, active, ready,
                 listeners, step, at, last, more, called, accepted, pages, observed, history>>

\* send() rejects: not sent, or sent and the answer lost.
SendFails(c) ==
  /\ up /\ step = "sending" /\ c \in todo /\ accepted \subseteq {c}
  /\ HeldOnFailure
  /\ UNCHANGED <<head, watches, delivered, monitors, indexed, up, starts, active,
                 ready, listeners, observed, history>>

\* Nobody is left: the cursor moves past the event.
Advance ==
  /\ up /\ step = "sending" /\ todo = {}
  /\ cursor' = at
  /\ IF at = last THEN Sleep
     ELSE /\ step' = "listening" /\ at' = at + 1 /\ called' = {}
          /\ UNCHANGED <<last, more, todo, accepted, pages>>
  /\ UNCHANGED <<head, watches, delivered, monitors, indexed, up, starts, active,
                 ready, listeners, observed, history>>

\* observeAhead: pages beyond the held cursor, for the observers only.
AheadArrives ==
  LET end == Min2(head, observed + PageLimit)
  IN /\ up /\ step = "ahead"
     /\ Observe(observed, end)
     /\ IF end < head /\ pages > 1 THEN pages' = pages - 1 /\ UNCHANGED step
        ELSE step' = "asleep" /\ pages' = 0
     /\ UNCHANGED <<head, cursor, watches, delivered, monitors, up, starts, active,
                    ready, listeners, at, last, more, called, todo, accepted, history>>

-----------------------------------------------------------------------------
Listened(c) == ListenerReturns(c) \/ ListenerFails(c)
Sent(c)     == Resolve(c) \/ Refused(c) \/ SendFails(c)
Paged       == Bootstrap \/ PageArrives \/ AheadArrives

Next ==
  \/ Publish \/ Start \/ Crash \/ Restore \/ Poll \/ PageFails
  \/ Bootstrap \/ PageArrives \/ AheadArrives \/ Match \/ Advance
  \/ \E c \in Chats, t \in Topics : AddWatch(c, t) \/ RemoveWatch(c, t)
  \/ \E c \in Chats : \/ StartMonitor(c) \/ StopMonitor(c)
                      \/ ListenerReturns(c) \/ ListenerFails(c)
                      \/ Accept(c) \/ Resolve(c) \/ Refused(c) \/ SendFails(c)

Spec == Init /\ [][Next]_vars

\* The loop of a process runs, pages come at last, and every listener and
\* every send ends somehow.  Matching is strongly fair: nobody
\* starts and stops monitors faster than the poller calls them for ever.
FairLoop ==
  /\ WF_vars(Restore) /\ WF_vars(Poll)
  /\ SF_vars(Bootstrap) /\ SF_vars(PageArrives) /\ SF_vars(AheadArrives)
  /\ SF_vars(Match) /\ WF_vars(Advance)
  /\ \A c \in Chats : WF_vars(Listened(c)) /\ WF_vars(Sent(c))

\* The process is started again.  Nothing but that: every send and every
\* listener may fail for ever.
OutageSpec == Spec /\ WF_vars(Start) /\ FairLoop

\* No listener and no platform fails for ever.
OutagesEnd == \A c \in Chats : /\ SF_vars(ListenerReturns(c)) /\ SF_vars(Resolve(c) \/ Refused(c))
                              /\ SF_vars(Accept(c) \/ Refused(c))

-----------------------------------------------------------------------------
\* The cursor moves only after the sends: a chat whose watch matched an event
\* behind the cursor has been sent its killmail, or refused it for good,
\* whatever failed, crashed or was retried in between.
CursorAfterDelivery ==
  \A o \in owed : o[2] <= cursor => <<o[1], KillOf[o[2]]>> \in delivered

\* A killmail whose delivery the program was told of is never sent to that
\* chat again, after a held cursor or a restart, or under another sequence.
NeverSentAgain ==
  [][\A c \in Chats : c \in accepted' /\ c \notin accepted
       => <<c, KillOf[at]>> \notin heard]_vars

\* The kill index has every killmail between the bootstrap and the cursor.
IndexHasNoGap ==
  base # NoCursor => \A s \in (base + 1)..cursor : KillOf[s] \in indexed

\* "Restored route listeners are registered before any resumed event is
\* processed": while an event is, every saved monitor with a platform listens.
MonitorsListen ==
  step \in {"listening", "sending"} => monitors \cap active \subseteq listeners

\* The index follows the server although the cursor is held by an outage:
\* again and again it has everything published by then.
IndexFollows ==
  []<>(base # NoCursor => \A s \in (base + 1)..head : KillOf[s] \in indexed)

\* When outages end, the cursor comes up with the server again and again.
CursorFollows == OutagesEnd => []<>(head > 0 => cursor = head)
=============================================================================
