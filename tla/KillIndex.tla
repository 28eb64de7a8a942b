------------------------------ MODULE KillIndex ------------------------------
(***************************************************************************)
(* The map's index of recent killmails (eve-map/kill-index.ts).  The feed  *)
(* hands it every event once it is attached, and again after a restart;    *)
(* viewers of a system pull the hours before by a search; a sweep keeps it *)
(* small.  Kills at a stargate also count in the camp memory, which        *)
(* outlives their rows.  Rows, marks and memory are in SQLite.             *)
(***************************************************************************)
EXTENDS Integers, FiniteSets

CONSTANTS
  Kills, Systems,
  SystemOf,       \* of each kill: its system
  GateKills,      \* the kills at a stargate
  Retention,      \* killIndexRetentionHours
  GateRetention,  \* gateKillRetentionDays
  Ttl,            \* killBackfillTtlSeconds
  MaxRows,        \* killIndexMaxRows
  Redelivery,     \* how long the feed may deliver an event again
  FillTime,       \* how long a search is awaited: maxRequests, each with a timeout
  MaxTime,        \* bound on the clock
  Viewers, Nothing

Times == 0..MaxTime

VARIABLES
  now,
  when,      \* of each kill: its time, Nothing before it happens
  attached,  \* whether the index observes the feed
  rows,      \* map_kill_events
  camp,      \* kills counted in map_gate_camp_history, by their number of times
  marks,     \* map_kill_backfill: of each system, when it was last asked for
  fill,      \* of each viewer: the backfill in flight
  told,      \* kills that were ever recorded
  evicted,   \* kills the row cap removed
  filled,    \* of each system: the start of its last successful backfill
  asked      \* of each system: the times it was searched for

db == <<rows, camp, marks>>
past == <<told, evicted, filled, asked>>
vars == <<now, when, attached, db, fill, past>>

Fills == [at : Times, systems : SUBSET Systems]

TypeOK ==
  /\ now \in Times /\ when \in [Kills -> Times \cup {Nothing}]
  /\ attached \in BOOLEAN /\ rows \subseteq Kills
  /\ camp \in [GateKills -> Nat]
  /\ marks \in [Systems -> Times \cup {Nothing}]
  /\ fill \in [Viewers -> Fills \cup {Nothing}]
  /\ told \subseteq Kills /\ evicted \subseteq Kills
  /\ filled \in [Systems -> Times \cup {Nothing}] /\ asked \in [Systems -> SUBSET Times]

Init ==
  /\ now = 0 /\ when = [k \in Kills |-> Nothing]
  /\ attached = FALSE /\ rows = {}
  /\ camp = [k \in GateKills |-> 0]
  /\ marks = [s \in Systems |-> Nothing] /\ fill = [v \in Viewers |-> Nothing]
  /\ told = {} /\ evicted = {}
  /\ filled = [s \in Systems |-> Nothing] /\ asked = [s \in Systems |-> {}]

Happened == {k \in Kills : when[k] # Nothing}

-----------------------------------------------------------------------------
(* recordKillmail, for a set of kills.                                     *)

AnyKill(K) == K                                                    \* a bug
NewRows(K) == K \ rows

Record(K) ==
  /\ rows' = rows \cup K
  /\ camp' = [k \in GateKills |-> IF k \in NewRows(K) THEN camp[k] + 1 ELSE camp[k]]
  /\ told' = told \cup K
  /\ evicted' = evicted \ K

\* An event of the feed.
Observe(k) ==
  /\ attached /\ k \in Happened /\ now - when[k] <= Redelivery
  /\ Record({k})
  /\ UNCHANGED <<now, when, attached, marks, fill, filled, asked>>

-----------------------------------------------------------------------------
(* sweepKillIndex                                                          *)

WholeHours(k) == now - when[k] >= Retention                        \* a bug
Outdated(k) == now - when[k] > (IF k \in GateKills THEN GateRetention ELSE Retention)

\* ORDER BY (gate_id IS NOT NULL), killmail_time_ms
ByAge(k, l) == when[k] < when[l]                                   \* a bug
Before(k, l) ==
  IF (k \in GateKills) = (l \in GateKills) THEN when[k] < when[l] ELSE l \in GateKills

\* The kept rows: a set no row of which goes before a removed one.
Kept(R) ==
  CHOOSE K \in SUBSET R :
    /\ Cardinality(K) = (IF Cardinality(R) > MaxRows THEN MaxRows ELSE Cardinality(R))
    /\ \A k \in K, l \in R \ K : ~Before(k, l)

Swept ==
  LET fresh == {k \in rows : ~Outdated(k)}
      kept == Kept(fresh)
  IN /\ rows' = kept
     /\ evicted' = evicted \cup (fresh \ kept)
     /\ marks' = [s \in Systems |-> IF marks[s] # Nothing /\ marks[s] < now - Ttl
                                    THEN Nothing ELSE marks[s]]

Sweep ==
  /\ attached /\ Swept
  /\ UNCHANGED <<now, when, attached, camp, fill, told, filled, asked>>

\* startMapKillIndex, after an import that was awaited while the feed runs.
Attach ==
  /\ ~attached /\ attached' = TRUE
  /\ Swept
  /\ UNCHANGED <<now, when, camp, fill, told, filled, asked>>

-----------------------------------------------------------------------------
(* backfillSystems                                                         *)

Pending(S) == {s \in S : marks[s] = Nothing \/ marks[s] < now - Ttl}

MarkedLater(S) == marks                                            \* a bug
Marked(S) == [s \in Systems |-> IF s \in S THEN now ELSE marks[s]]

\* The systems are marked before the search is awaited.
Backfill(v, S) ==
  /\ fill[v] = Nothing /\ Pending(S) # {}
  /\ marks' = Marked(Pending(S))
  /\ fill' = [fill EXCEPT ![v] = [at |-> now, systems |-> Pending(S)]]
  /\ asked' = [s \in Systems |-> IF s \in Pending(S) THEN asked[s] \cup {now} ELSE asked[s]]
  /\ UNCHANGED <<now, when, attached, rows, camp, told, evicted, filled>>

\* The search answers with the kills of the retention before it began.
Found(f) == {k \in Happened : /\ SystemOf[k] \in f.systems
                              /\ when[k] \in (f.at - Retention)..f.at}

Filled(v) ==
  /\ fill[v] # Nothing
  /\ Record(Found(fill[v]))
  /\ filled' = [s \in Systems |-> IF s \in fill[v].systems THEN fill[v].at ELSE filled[s]]
  /\ fill' = [fill EXCEPT ![v] = Nothing]
  /\ UNCHANGED <<now, when, attached, marks, asked>>

SearchFails(v) ==
  /\ fill[v] # Nothing /\ fill' = [fill EXCEPT ![v] = Nothing]
  /\ UNCHANGED <<now, when, attached, db, past>>

-----------------------------------------------------------------------------
Tick ==
  /\ now < MaxTime /\ now' = now + 1
  /\ \A v \in Viewers : fill[v] # Nothing => now - fill[v].at < FillTime
  /\ UNCHANGED <<when, attached, db, fill, past>>

Happen(k) ==
  /\ when[k] = Nothing /\ when' = [when EXCEPT ![k] = now]
  /\ UNCHANGED <<now, attached, db, fill, past>>

Restart ==
  /\ attached' = FALSE /\ fill' = [v \in Viewers |-> Nothing]
  /\ UNCHANGED <<now, when, db, past>>

Next ==
  \/ \E k \in Kills : Happen(k) \/ Observe(k)
  \/ \E v \in Viewers : \/ \E S \in SUBSET Systems : Backfill(v, S)
                        \/ Filled(v) \/ SearchFails(v)
  \/ Sweep \/ Attach \/ Tick \/ Restart

Spec == Init /\ [][Next]_vars

-----------------------------------------------------------------------------
\* getSystemKillRollups counts the kills of the window: min(24, retention).
Window == {k \in rows : when[k] >= now - Retention}

\* The count of the window is honest: of the kills it was told of, it misses
\* those the row cap removed and no others.
RollupComplete ==
  \A k \in told : when[k] >= now - Retention => k \in Window \/ k \in evicted

\* What passed while the index was not attached (the poller starts before the
\* import is awaited) is there once its system has been backfilled.
BackfillHeals ==
  \A k \in Happened :
    LET f == filled[SystemOf[k]]
    IN f # Nothing /\ when[k] \in (f - Retention)..(f - 1) => k \in told

\* While the cap leaves gate kills alone, the camp memory counts each kill
\* once, through redelivery, backfill and restarts.
CountedOnce == \A k \in GateKills : camp[k] = IF k \in told THEN 1 ELSE 0

\* "A failing upstream cannot turn into a retry storm": a system is searched
\* for once in its Ttl, whoever asks, whatever failed, restarts included.
AskedRarely == \A s \in Systems : \A t, u \in asked[s] : t < u => u - t > Ttl

KillIndexSound == RollupComplete /\ BackfillHeals /\ CountedOnce /\ AskedRarely

-----------------------------------------------------------------------------
(* What every step keeps.                                                  *)

\* What is known has happened, and no search is awaited for ever.
Known ==
  /\ rows \subseteq told /\ told \subseteq Happened
  /\ \A k \in Happened : when[k] <= now
  /\ \A v \in Viewers : fill[v] # Nothing => fill[v].at <= now /\ now - fill[v].at <= FillTime
  /\ \A s \in Systems : filled[s] # Nothing => filled[s] <= now

\* A kill at a gate that was told keeps its row for as long as it may be told
\* again.
GatesKept == \A k \in told \cap GateKills : k \in rows \/ now - when[k] > GateRetention

\* A search of a system is behind its mark, or its Ttl is over.
MarksHold ==
  \A s \in Systems :
    /\ marks[s] # Nothing => marks[s] <= now
    /\ \A t \in asked[s] : t < now - Ttl \/ (marks[s] # Nothing /\ t <= marks[s])

IInv == TypeOK /\ KillIndexSound /\ Known /\ GatesKept /\ MarksHold
=============================================================================
