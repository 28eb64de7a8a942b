-------------------------- MODULE MarketSnapshots --------------------------
(***************************************************************************)
(* The local copy of EVE's market (eve/market-snapshot.ts and              *)
(* eve/market-snapshot-loader.ts).  A sweep refetches the regions that are *)
(* due, page by page through a pool, carries the others over, and swaps    *)
(* the staging table into place.  ESI rotates the book of a region at any  *)
(* time, answers fail, and the process may die between any two steps.      *)
(*                                                                         *)
(* A row stands for the orders of one page: the version of the book it     *)
(* belongs to and the time it was fetched at.                              *)
(***************************************************************************)
EXTENDS Integers, Sequences, FiniteSets

CONSTANTS
  Order,         \* options.regions, the order a sweep takes them in
  PagesAt,       \* pages of a region's book, by region and version; 0 is an empty book
  MajorMinPages, MajorInterval, MinorInterval, StaleAfter,
  CacheWindow,   \* how long ESI caches a book
  PoolSize, MinRows,
  MaxVersion, MaxTime,  \* bounds on the rotations of a book and on the clock
  Nothing

Regions == {Order[i] : i \in 1..Len(Order)}
Sweeps == {"cron", "boot"}   \* the two entry points of a sweep
Attempts == 2                \* MAX_REGION_WALK_ATTEMPTS
Versions == 0..MaxVersion
Times == 0..MaxTime

VARIABLES
  time, version,   \* the clock; ESI: the version of each region's book
  table, staging,  \* market_orders, market_orders_next: the rows of each region
  state,           \* market_snapshot_regions: each region's row
  snapshotTime,    \* market_snapshot_state.snapshot_time
  inFlight,        \* sweepInFlight: the sweep that runs
  sweep, walk      \* each sweep's progress, and its walk through one region

vars == <<time, version, table, staging, state, snapshotTime, inFlight, sweep, walk>>
esi == <<time, version>>
saved == <<table, state, snapshotTime>>

MaxOf(S) == CHOOSE x \in S : \A y \in S : y <= x
MinOf(S) == CHOOSE x \in S : \A y \in S : x <= y
XPages(r, v) == MaxOf({1, PagesAt[r][v]})
Pages == 1..MaxOf({XPages(r, v) : r \in Regions, v \in Versions})
Rows == [page : Pages, version : Versions, at : Times]
\* The rows of an answer; the only page of an empty book has none.
RowsOf(r, p) == IF p <= PagesAt[r][version[r]]
                THEN {[page |-> p, version |-> version[r], at |-> time]} ELSE {}

TypeOK ==
  /\ time \in Times /\ version \in [Regions -> Versions]
  /\ table \in [Regions -> SUBSET Rows] /\ staging \in [Regions -> SUBSET Rows]
  /\ \A r \in Regions : state[r] = Nothing \/ state[r] \in
       [pages : Pages, rows : Nat, fetched : Times, expires : Nat]
  /\ snapshotTime \in Times \cup {Nothing}
  /\ inFlight \in Sweeps \cup {Nothing}
  /\ \A s \in Sweeps : sweep[s] = Nothing \/ sweep[s].phase \in {"regions", "swapped", "recorded"}
  /\ \A s \in Sweeps : walk[s] = Nothing \/ walk[s].asked \subseteq Pages

Init ==
  /\ time = 0 /\ version = [r \in Regions |-> 0]
  /\ table = [r \in Regions |-> {}] /\ staging = [r \in Regions |-> {}]
  /\ state = [r \in Regions |-> Nothing] /\ snapshotTime = Nothing
  /\ inFlight = Nothing
  /\ sweep = [s \in Sweeps |-> Nothing] /\ walk = [s \in Sweeps |-> Nothing]

-----------------------------------------------------------------------------
Tick == time < MaxTime /\ time' = time + 1
        /\ UNCHANGED <<version, saved, staging, inFlight, sweep, walk>>

Rotate(r) ==
  /\ version[r] < MaxVersion /\ version' = [version EXCEPT ![r] = @ + 1]
  /\ UNCHANGED <<time, saved, staging, inFlight, sweep, walk>>

\* The tier of a region follows the pages of its last walk.
Interval(row) == IF row.pages >= MajorMinPages THEN MajorInterval ELSE MinorInterval
IsRegionDue(r) ==
  \/ state[r] = Nothing
  \/ time >= MaxOf({state[r].fetched + Interval(state[r]), state[r].expires})

OwnScheduleOnly(s) == sweep[s] = Nothing
\* The single-flight guard of both entry points.
MayStart(s) == inFlight = Nothing

\* A tick of the schedule or of the boot timer; with nothing due it does nothing.
StartSweep(s) ==
  LET due == {r \in Regions : IsRegionDue(r)} IN
  /\ MayStart(s) /\ sweep[s] = Nothing /\ due # {}
  /\ inFlight' = s
  /\ staging' = [r \in Regions |-> {}]
  /\ sweep' = [sweep EXCEPT ![s] =
       [phase |-> "regions", now |-> time, due |-> due, next |-> 1, known |-> state,
        records |-> <<>>, ages |-> <<>>]]
  /\ UNCHANGED <<esi, saved, walk>>

InRegions(s) == sweep[s] # Nothing /\ sweep[s].phase = "regions" /\ walk[s] = Nothing
Current(s) == Order[sweep[s].next]
MoreRegions(s) == sweep[s].next <= Len(Order)
Promised(s, r) == sweep[s].known[r] # Nothing /\ sweep[s].known[r].rows > 0
KnownAge(s, r) == IF sweep[s].known[r] = Nothing THEN Nothing ELSE sweep[s].known[r].fetched

EmptyRegion(r) == {}
\* carryOverRegion: the region's rows of the serving table.
Carried(r) == table[r]

\* A region that is not due keeps its rows, unless the table lost what it promised.
CarryOver(s) ==
  /\ InRegions(s) /\ MoreRegions(s) /\ Current(s) \notin sweep[s].due
  /\ table[Current(s)] # {} \/ ~Promised(s, Current(s))
  /\ staging' = [staging EXCEPT ![Current(s)] = Carried(Current(s))]
  /\ sweep' = [sweep EXCEPT ![s].next = @ + 1,
                            ![s].ages = Append(@, KnownAge(s, Current(s)))]
  /\ UNCHANGED <<esi, saved, inFlight, walk>>

\* fetchRegion: page 1 goes first, alone.
StartWalk(s) ==
  /\ InRegions(s) /\ MoreRegions(s)
  /\ \/ Current(s) \in sweep[s].due
     \/ table[Current(s)] = {} /\ Promised(s, Current(s))
  /\ walk' = [walk EXCEPT ![s] =
       [attempt |-> 1, asked |-> {1}, next |-> 2, total |-> 1, seen |-> 1,
        first |-> Nothing, expires |-> 0, error |-> "none"]]
  /\ UNCHANGED <<esi, saved, staging, inFlight, sweep>>

Walking(s, p) == walk[s] # Nothing /\ p \in walk[s].asked

NeverDrifts(s, r) == FALSE
\* Last-Modified of a later page is not that of the first.
Drifted(s, r) == walk[s].first # version[r]

FirstPage(s) ==
  LET r == Current(s) IN
  /\ Walking(s, 1)
  /\ staging' = [staging EXCEPT ![r] = @ \cup RowsOf(r, 1)]
  /\ walk' = [walk EXCEPT ![s].asked = {}, ![s].first = version[r],
                ![s].total = XPages(r, version[r]), ![s].seen = XPages(r, version[r]),
                ![s].expires = time + CacheWindow]
  /\ UNCHANGED <<esi, saved, inFlight, sweep>>

\* The pool asks for the next page until a page fails.
AskPage(s) ==
  /\ walk[s] # Nothing /\ walk[s].first # Nothing /\ walk[s].error = "none"
  /\ walk[s].next <= walk[s].total /\ Cardinality(walk[s].asked) < PoolSize
  /\ walk' = [walk EXCEPT ![s].asked = @ \cup {walk[s].next}, ![s].next = @ + 1]
  /\ UNCHANGED <<esi, saved, staging, inFlight, sweep>>

LaterPage(s, p) ==
  LET r == Current(s) IN
  /\ p # 1 /\ Walking(s, p)
  /\ IF Drifted(s, r)
     THEN /\ walk' = [walk EXCEPT ![s].asked = @ \ {p},
                        ![s].error = IF @ = "none" THEN "drift" ELSE @]
          /\ UNCHANGED staging
     ELSE /\ staging' = [staging EXCEPT ![r] = @ \cup RowsOf(r, p)]
          /\ walk' = [walk EXCEPT ![s].asked = @ \ {p},
                        ![s].seen = MaxOf({@, XPages(r, version[r])})]
  /\ UNCHANGED <<esi, saved, inFlight, sweep>>

\* A page fails for good (retries included), or its payload is corrupt.
PageFails(s, p, error) ==
  /\ Walking(s, p)
  /\ walk' = [walk EXCEPT ![s].asked = @ \ {p}, ![s].error = IF @ = "none" THEN error ELSE @]
  /\ UNCHANGED <<esi, saved, staging, inFlight, sweep>>

-----------------------------------------------------------------------------
(* The end of a walk: mapPool settles every page it asked for.             *)

PoolSettled(s) == walk[s] # Nothing /\ walk[s].asked = {}
Dropped(r) == [staging EXCEPT ![r] = {}]

\* A page that reported more pages extends the walk (none does here: the pages
\* of a rotation report the same number, and one of another rotation drifts).
Extend(s) ==
  /\ PoolSettled(s) /\ walk[s].error = "none" /\ walk[s].first # Nothing
  /\ walk[s].next > walk[s].total /\ walk[s].seen > walk[s].total
  /\ walk' = [walk EXCEPT ![s].total = walk[s].seen]
  /\ UNCHANGED <<esi, saved, staging, inFlight, sweep>>

WalkDone(s) ==
  LET r == Current(s) IN
  /\ PoolSettled(s) /\ walk[s].error = "none" /\ walk[s].first # Nothing
  /\ walk[s].next > walk[s].total /\ walk[s].seen = walk[s].total
  /\ sweep' = [sweep EXCEPT ![s].next = @ + 1, ![s].ages = Append(@, sweep[s].now),
       ![s].records = Append(@, [region |-> r, pages |-> walk[s].total,
          rows |-> Cardinality(staging[r]), expires |-> walk[s].expires])]
  /\ walk' = [walk EXCEPT ![s] = Nothing]
  /\ UNCHANGED <<esi, saved, staging, inFlight>>

\* The book rotated under the walk: once more from page 1, on a clean staging.
Rewalk(s) ==
  /\ PoolSettled(s) /\ walk[s].error = "drift" /\ walk[s].attempt < Attempts
  /\ staging' = Dropped(Current(s))
  /\ walk' = [walk EXCEPT ![s] =
       [attempt |-> walk[s].attempt + 1, asked |-> {1}, next |-> 2, total |-> 1, seen |-> 1,
        first |-> Nothing, expires |-> 0, error |-> "none"]]
  /\ UNCHANGED <<esi, saved, inFlight, sweep>>

Failed(s) == /\ PoolSettled(s)
             /\ walk[s].error = "failed" \/ (walk[s].error = "drift" /\ walk[s].attempt = Attempts)

\* The region keeps its previous rows; it stays due.
KeepPrevious(s) ==
  LET r == Current(s) IN
  /\ Failed(s)
  /\ table[r] # {} \/ (sweep[s].known[r] # Nothing /\ ~Promised(s, r))
  /\ staging' = [staging EXCEPT ![r] = Carried(r)]
  /\ sweep' = [sweep EXCEPT ![s].next = @ + 1, ![s].ages = Append(@, KnownAge(s, r))]
  /\ walk' = [walk EXCEPT ![s] = Nothing]
  /\ UNCHANGED <<esi, saved, inFlight>>

\* recordSnapshotError: the sweep gives up, the previous snapshot goes on serving.
SweepFails(s) ==
  /\ staging' = [r \in Regions |-> {}]
  /\ sweep' = [sweep EXCEPT ![s] = Nothing] /\ walk' = [walk EXCEPT ![s] = Nothing]
  /\ inFlight' = Nothing
  /\ UNCHANGED <<esi, saved>>

Abort(s) ==
  \/ /\ Failed(s) /\ table[Current(s)] = {}
     /\ sweep[s].known[Current(s)] = Nothing \/ Promised(s, Current(s))
     /\ SweepFails(s)
  \/ PoolSettled(s) /\ walk[s].error = "corrupt" /\ SweepFails(s)

Loaded == Cardinality(UNION {{r} \X staging[r] : r \in Regions})

TooFew(s) == InRegions(s) /\ ~MoreRegions(s) /\ Loaded < MinRows /\ SweepFails(s)

-----------------------------------------------------------------------------
(* The swap and the records of it: three transactions, one after another.  *)

Swap(s) ==
  /\ InRegions(s) /\ ~MoreRegions(s) /\ Loaded >= MinRows
  /\ table' = staging /\ staging' = [r \in Regions |-> {}]
  /\ sweep' = [sweep EXCEPT ![s].phase = "swapped"]
  /\ UNCHANGED <<esi, state, snapshotTime, inFlight, walk>>

RecordOf(s, r) == {sweep[s].records[i] : i \in
                     {j \in 1..Len(sweep[s].records) : sweep[s].records[j].region = r}}

RecordRegions(s) ==
  /\ sweep[s] # Nothing /\ sweep[s].phase = "swapped"
  /\ state' = [r \in Regions |->
       IF RecordOf(s, r) = {} THEN state[r]
       ELSE LET x == CHOOSE x \in RecordOf(s, r) : TRUE
            IN [pages |-> x.pages, rows |-> x.rows, fetched |-> sweep[s].now,
                expires |-> x.expires]]
  /\ sweep' = [sweep EXCEPT ![s].phase = "recorded"]
  /\ UNCHANGED <<esi, table, staging, snapshotTime, inFlight, walk>>

\* The honest age of the book is that of its oldest region.
AgeOfBook(ages) == IF Nothing \in ages THEN Nothing ELSE MinOf(ages)

RecordSnapshot(s) ==
  /\ sweep[s] # Nothing /\ sweep[s].phase = "recorded"
  /\ snapshotTime' = AgeOfBook({sweep[s].ages[i] : i \in 1..Len(sweep[s].ages)})
  /\ sweep' = [sweep EXCEPT ![s] = Nothing] /\ inFlight' = Nothing
  /\ UNCHANGED <<esi, table, staging, state, walk>>

\* The process dies: the staging table stays half-filled until the next sweep.
Crash ==
  /\ inFlight' = Nothing
  /\ sweep' = [s \in Sweeps |-> Nothing] /\ walk' = [s \in Sweeps |-> Nothing]
  /\ UNCHANGED <<esi, saved, staging>>

Progress(s) ==
  \/ CarryOver(s) \/ StartWalk(s) \/ FirstPage(s) \/ AskPage(s)
  \/ \E p \in Pages : LaterPage(s, p) \/ PageFails(s, p, "failed") \/ PageFails(s, p, "corrupt")
  \/ Extend(s) \/ WalkDone(s) \/ Rewalk(s) \/ KeepPrevious(s) \/ Abort(s) \/ TooFew(s)
  \/ Swap(s) \/ RecordRegions(s) \/ RecordSnapshot(s)

Next ==
  \/ Tick \/ Crash
  \/ \E r \in Regions : Rotate(r)
  \/ \E s \in Sweeps : StartSweep(s) \/ Progress(s)

Spec == Init /\ [][Next]_vars

-----------------------------------------------------------------------------
\* Every region of the serving book is one rotation of ESI's, all of it.
OneRotation ==
  \A r \in Regions : table[r] = {} \/
    \E v \in Versions : /\ {row.version : row \in table[r]} = {v}
                        /\ {row.page : row \in table[r]} = 1..PagesAt[r][v]

\* getMarketSnapshotMeta.
IsRegionStale(row) == time > row.fetched + Interval(row) + StaleAfter
Stale == snapshotTime = Nothing \/ \E r \in Regions : state[r] # Nothing /\ IsRegionStale(state[r])

\* A book reported fresh covers every region, and the orders of each are no
\* older than its tier allows.
FreshMeansRecent ==
  ~Stale => \A r \in Regions : /\ state[r] # Nothing
                               /\ \A row \in table[r] :
                                    row.at >= time - Interval(state[r]) - StaleAfter

\* snapshot_time is never later than the time the oldest order was fetched at.
AgeIsHonest ==
  snapshotTime # Nothing =>
    \A r \in Regions : \A row \in table[r] : snapshotTime <= row.at

\* A market tool that reads the book gets each region from one rotation, and
\* an age that does not flatter it, whatever failed or crashed on the way.
BookSound == OneRotation /\ FreshMeansRecent /\ AgeIsHonest

\* A region that has orders loses them only to a walk of its own: a failed or
\* aborted sweep never leaves the book without a region.
KeepsRegions ==
  \A r \in Regions : table[r] # {} /\ table'[r] = {} =>
    \E s \in Sweeps : sweep[s] # Nothing /\ RecordOf(s, r) # {}

-----------------------------------------------------------------------------
(* What the records of a region and the walks are, whatever their numbers.  *)
States == [pages : Nat, rows : Nat, fetched : Nat, expires : Nat]
Walks ==
  [attempt : Nat, asked : SUBSET Nat, next : Nat, total : Nat, seen : Nat,
   first : Nat \cup {Nothing}, expires : Nat, error : {"none", "drift", "failed", "corrupt"}]
=============================================================================
