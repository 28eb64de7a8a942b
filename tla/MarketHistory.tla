--------------------------- MODULE MarketHistory ---------------------------
(***************************************************************************)
(* Daily price history of region and type pairs (eve/market-history.ts and *)
(* eve/market-history-worker.ts).  A tick of the worker seeds, prunes and  *)
(* refreshes the pairs that are due; a view of a pair refreshes it as      *)
(* well, and the two share a refresh that is in flight.                    *)
(***************************************************************************)
EXTENDS Integers, Sequences, FiniteSets, SequencesExt

CONSTANTS
  Pairs,
  Day, Rebuild, Buffer,  \* a day, when ESI republishes in it, and for how long that may take
  Backoff,               \* ERROR_BACKOFF_MS
  TopInterval, Grace,    \* topTypesSeedIntervalMs, historyPruneGraceMs
  MaxPerTick, Concurrency,
  MaxTime, MaxChanges,   \* bounds on the clock and on changes of what is wanted
  Nothing

VARIABLES
  time, rebuilds,  \* the clock; ESI: the rebuilds published so far
  watched,         \* pairs on a watchlist
  alerted,         \* pairs under an active alert
  top,             \* the pairs the scan of market_orders would return
  row,             \* market_history_sync
  stored,          \* market_price_history: the rebuild each pair's rows are of
  seededAt,        \* lastTopTypesSeedAt
  sync,            \* syncInFlight: when the refresh of each pair took its clock
  tick,            \* the tick in flight
  changes,
  steady           \* history: pairs somebody wanted at every tick since they were seeded

vars == <<time, rebuilds, watched, alerted, top, row, stored, seededAt, sync, tick, changes, steady>>
Times == 0..MaxTime
Rebuilds == 0..(MaxTime \div Day + 1)

TypeOK ==
  /\ time \in Times /\ changes \in 0..MaxChanges /\ rebuilds \in Rebuilds
  /\ watched \subseteq Pairs /\ alerted \subseteq Pairs /\ top \subseteq Pairs /\ steady \subseteq Pairs
  /\ \A p \in Pairs : row[p] = Nothing \/
       row[p] \in [due : 0..(MaxTime + Day), ok : BOOLEAN, wanted : Times \cup {Nothing}]
  /\ stored \in [Pairs -> Rebuilds]
  /\ seededAt \in Times \cup {Nothing}
  /\ sync \in [Pairs -> Times \cup {Nothing}]
  /\ tick = Nothing \/ /\ tick.now \in Times /\ tick.running \subseteq Pairs
                       /\ ToSet(tick.queue) \subseteq Pairs

Init ==
  /\ time = 0 /\ rebuilds = 0 /\ watched = {} /\ alerted = {} /\ top = {}
  /\ row = [p \in Pairs |-> Nothing] /\ stored = [p \in Pairs |-> 0]
  /\ seededAt = Nothing /\ sync = [p \in Pairs |-> Nothing]
  /\ tick = Nothing /\ changes = 0 /\ steady = {}

-----------------------------------------------------------------------------
(* The clock, ESI, the users and the market.                               *)

\* The rebuilds whose buffer is over: ESI has published them.
SettledBy(t) == IF t < Rebuild + Buffer THEN 0 ELSE (t - Rebuild - Buffer) \div Day + 1
StartedBy(t) == IF t < Rebuild THEN 0 ELSE (t - Rebuild) \div Day + 1

Tick ==
  /\ time < MaxTime /\ SettledBy(time + 1) <= rebuilds /\ time' = time + 1
  /\ UNCHANGED <<rebuilds, watched, alerted, top, row, stored, seededAt, sync, tick, changes, steady>>

Publish ==
  /\ rebuilds < StartedBy(time) /\ rebuilds' = rebuilds + 1
  /\ UNCHANGED <<time, watched, alerted, top, row, stored, seededAt, sync, tick, changes, steady>>

Toggled(S, p) == (S \ {p}) \cup ({p} \ S)

WantsChange ==
  /\ changes < MaxChanges /\ changes' = changes + 1
  /\ \E p \in Pairs :
       \/ watched' = Toggled(watched, p) /\ UNCHANGED <<alerted, top>>
       \/ alerted' = Toggled(alerted, p) /\ UNCHANGED <<watched, top>>
       \/ top' = Toggled(top, p) /\ UNCHANGED <<watched, alerted>>
  /\ UNCHANGED <<time, rebuilds, row, stored, seededAt, sync, tick, steady>>

-----------------------------------------------------------------------------
(* One refresh: ensureTypeHistorySynced.                                   *)

\* A day from the answer instead of the next rebuild.
DayLater(now) == time + Day
\* nextDailyDueUtc: the first end of a rebuild's buffer after now.
NextDailyDue(now) == SettledBy(now) * Day + Rebuild + Buffer

Synced(p, due, ok) ==
  row' = [row EXCEPT ![p] =
    [due |-> due, ok |-> ok, wanted |-> IF @ = Nothing THEN Nothing ELSE @.wanted]]

Settle(p) ==
  /\ sync' = [sync EXCEPT ![p] = Nothing]
  /\ tick' = IF tick = Nothing THEN Nothing ELSE [tick EXCEPT !.running = @ \ {p}]
  /\ UNCHANGED <<time, rebuilds, watched, alerted, top, seededAt, changes, steady>>

\* The clock was read before the request; the rows are those ESI has now.
SyncOk(p) ==
  /\ sync[p] # Nothing
  /\ stored' = [stored EXCEPT ![p] = rebuilds]
  /\ Synced(p, NextDailyDue(sync[p]), TRUE)
  /\ Settle(p)

SyncFails(p) ==
  /\ sync[p] # Nothing
  /\ Synced(p, sync[p] + Backoff, FALSE)
  /\ Settle(p) /\ UNCHANGED stored

NeedsSync(p) == row[p] # Nothing => row[p].due <= time
Joined(p, now) == IF sync[p] # Nothing THEN sync ELSE [sync EXCEPT ![p] = now]

\* getTypeHistory: a view starts the refresh and serves what is stored.
View(p) ==
  /\ NeedsSync(p) /\ sync[p] = Nothing /\ sync' = Joined(p, time)
  /\ UNCHANGED <<time, rebuilds, watched, alerted, top, row, stored, seededAt, tick, changes, steady>>

-----------------------------------------------------------------------------
(* One tick of the worker.                                                 *)

SeedsTopOnce == seededAt = Nothing
SeedsTop == seededAt = Nothing \/ time - seededAt >= TopInterval
Seeded == watched \cup (IF SeedsTop THEN top ELSE {})

\* seedHistorySync: new pairs are due at once, the wanted ones are stamped; an
\* alert alone stamps its pair but does not seed it.
AfterSeed ==
  [p \in Pairs |->
    IF row[p] = Nothing
    THEN IF p \in Seeded THEN [due |-> time, ok |-> FALSE, wanted |-> time] ELSE Nothing
    ELSE IF p \in Seeded \cup alerted THEN [row[p] EXCEPT !.wanted = time] ELSE row[p]]

\* Rows without a stamp get the whole grace period from now on.
Stamp(r) == IF r.wanted = Nothing THEN time ELSE r.wanted
Unwanted(r, p) == Stamp(r) < time - Grace /\ p \notin watched \cup alerted

\* pruneUnwantedPairs.
AfterPrune(rows) ==
  [p \in Pairs |->
    IF rows[p] = Nothing \/ Unwanted(rows[p], p) THEN Nothing
    ELSE [rows[p] EXCEPT !.wanted = Stamp(rows[p])]]

\* selectDuePairs: the oldest first, up to the limit.
DuePairs(rows) ==
  LET due == SetToSortSeq({p \in Pairs : rows[p] # Nothing /\ rows[p].due <= time},
                          LAMBDA p, q : rows[p].due < rows[q].due)
  IN SubSeq(due, 1, IF Len(due) < MaxPerTick THEN Len(due) ELSE MaxPerTick)

StartTick ==
  LET rows == AfterPrune(AfterSeed) IN
  /\ tick = Nothing
  /\ row' = rows
  /\ seededAt' = IF SeedsTop THEN time ELSE seededAt
  /\ tick' = IF DuePairs(rows) = << >> THEN Nothing
             ELSE [now |-> time, queue |-> DuePairs(rows), running |-> {}]
  /\ steady' = {p \in watched \cup alerted \cup top : (row[p] = Nothing /\ rows[p] # Nothing) \/ p \in steady}
  /\ UNCHANGED <<time, rebuilds, watched, alerted, top, stored, sync, changes>>

\* A worker of the pool takes the next pair with the tick's clock.
TakePair ==
  /\ tick # Nothing /\ tick.queue # << >> /\ Cardinality(tick.running) < Concurrency
  /\ sync' = Joined(Head(tick.queue), tick.now)
  /\ tick' = [tick EXCEPT !.queue = Tail(@), !.running = @ \cup {Head(tick.queue)}]
  /\ UNCHANGED <<time, rebuilds, watched, alerted, top, row, stored, seededAt, changes, steady>>

EndTick ==
  /\ tick # Nothing /\ tick.queue = << >> /\ tick.running = {} /\ tick' = Nothing
  /\ UNCHANGED <<time, rebuilds, watched, alerted, top, row, stored, seededAt, sync, changes, steady>>

Restart ==
  /\ tick # Nothing \/ seededAt # Nothing \/ \E p \in Pairs : sync[p] # Nothing
  /\ tick' = Nothing /\ seededAt' = Nothing /\ sync' = [p \in Pairs |-> Nothing]
  /\ UNCHANGED <<time, rebuilds, watched, alerted, top, row, stored, changes, steady>>

Next ==
  \/ Tick \/ Publish \/ WantsChange
  \/ \E p \in Pairs : View(p) \/ SyncOk(p) \/ SyncFails(p)
  \/ StartTick \/ TakePair \/ EndTick \/ Restart

Spec == Init /\ [][Next]_vars

-----------------------------------------------------------------------------
\* A pair is parked only while it holds the newest rebuild, or after a failure:
\* an answer that is slow, comes just before a rebuild or was taken with the
\* clock of a long tick never makes the pair miss a day.
NoDayMissed ==
  \A p \in Pairs : row[p] # Nothing /\ row[p].ok /\ row[p].due > time =>
                     stored[p] >= SettledBy(time)

\* A pair that somebody wanted at every tick since it was seeded keeps its
\* schedule: the grace outlasts the scan that runs only now and then, and a
\* process that was down stamps before it prunes.
WantedKept == \A p \in steady : row[p] # Nothing

HistorySound == NoDayMissed /\ WantedKept
=============================================================================
