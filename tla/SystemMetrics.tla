---------------------------- MODULE SystemMetrics ----------------------------
(***************************************************************************)
(* The hourly numbers of every system (eve-map/system-metrics.ts): two     *)
(* endpoints publish theirs on their own, a tick reads both and writes     *)
(* each into the hour that it is of, and folds the difference into sums    *)
(* that outlive the hours.  The tick of the boot timer may overlap one of  *)
(* the cron job, and the process may die between two statements.           *)
(*                                                                         *)
(* An endpoint is never behind by more than Lag hours, and a tick is over  *)
(* before an hour has passed; Lag + 1 hours are kept.  Only systems whose  *)
(* number is not zero are in a snapshot: the others are not written.       *)
(***************************************************************************)
EXTENDS Integers, FiniteSetsExt, Functions, TLC

CONSTANTS
  Systems,
  WeekHours,   \* hours of a week: WEEK_HOURS
  Retention,   \* metricsHourlyRetentionDays, in hours
  Lag,
  Numbers,     \* what an endpoint may count
  MaxHour,     \* bound: hours
  MaxTicks,    \* bound: ticks of the process
  Nothing

Kinds == {"jumps", "kills"}
Ticks == {"boot", "cron"}
Hours == 0..MaxHour
hourOfWeekFor(h) == h % WeekHours

VARIABLES
  now,         \* the hour
  published,   \* the hour of each endpoint, as it was last read
  tick,        \* of each tick under way: when it began, and what it has read
  ticks,       \* how many there were
  hourly,      \* map_system_hourly: rows <<system, hour>>
  profile,     \* map_system_profile: rows <<system, hour of the week>>
  sampled,     \* map_sampled_hours: <<hour, kind>>
  counted      \* what every system had in every hour, as it was last read

rows == <<hourly, profile, sampled, counted>>
vars == <<now, published, tick, ticks, rows>>

Zero == [k \in Kinds |-> 0]
Snapshot == [hour : Hours, numbers : [Systems -> Numbers]]

TypeOK ==
  /\ now \in Hours /\ ticks \in 0..MaxTicks /\ published \in [Kinds -> Hours]
  /\ DOMAIN tick \subseteq Ticks
  /\ \A t \in DOMAIN tick : tick[t].began \in Hours /\ \A k \in Kinds : tick[t][k] \in Snapshot \cup {Nothing}
  /\ DOMAIN hourly \subseteq Systems \X Hours
  /\ DOMAIN profile \subseteq Systems \X (0..WeekHours - 1)
  /\ sampled \subseteq Hours \X Kinds

NoRows == [r \in {} |-> Nothing]

Init ==
  /\ now = 0 /\ tick = NoRows /\ ticks = 0
  /\ published = [k \in Kinds |-> 0]
  /\ hourly = NoRows /\ profile = NoRows /\ sampled = {}
  /\ counted = [r \in Systems \X Hours |-> Zero]

-----------------------------------------------------------------------------
HourPasses ==
  /\ now < MaxHour /\ \A t \in DOMAIN tick : tick[t].began = now
  /\ now' = now + 1 /\ UNCHANGED <<published, tick, ticks, rows>>

-----------------------------------------------------------------------------
\* fetchMetric: what is published, also anew for the same hour; no rows when it
\* fails.
Fetched(k) ==
  {Nothing} \cup {snap \in Snapshot : snap.hour \in published[k]..now /\ now - snap.hour <= Lag}

\* runTick: both endpoints are asked at once, and it goes on with both answers.
TickReads(t) ==
  /\ t \notin DOMAIN tick /\ ticks < MaxTicks /\ ticks' = ticks + 1
  /\ \E jumps \in Fetched("jumps"), kills \in Fetched("kills") :
       LET read == [jumps |-> jumps, kills |-> kills]
       IN /\ published' = [k \in Kinds |-> IF read[k] = Nothing THEN published[k] ELSE read[k].hour]
          /\ tick' = [x \in DOMAIN tick \cup {t} |->
                        IF x = t THEN read @@ [began |-> now] ELSE tick[x]]
  /\ UNCHANGED <<now, rows>>

Row(table, r, default) == IF r \in DOMAIN table THEN table[r] ELSE default

\* writeBucket: the hour is noted, then one transaction.
Carriers(snap) == {s \in Systems : snap.numbers[s] > 0}
Upsert(table, keys, value(_)) == [r \in DOMAIN table \cup keys |-> IF r \in keys THEN value(r) ELSE table[r]]

AllColumns(old, k, n) == [Zero EXCEPT ![k] = n]                     \* a bug
OwnColumn(old, k, n) == [old EXCEPT ![k] = n]
Added(snap, k, s) == snap.numbers[s]                               \* a bug
Delta(snap, k, s) == snap.numbers[s] - Row(hourly, <<s, snap.hour>>, Zero)[k]

WriteHourly(table, k, snap) ==
  LET keys == Carriers(snap) \X {snap.hour}
  IN Upsert(table, keys, LAMBDA r : OwnColumn(Row(table, r, Zero), k, snap.numbers[r[1]]))

WriteProfile(k, snap) ==
  LET week == hourOfWeekFor(snap.hour)
      old(r) == Row(profile, r, [samples |-> 0, jumps |-> 0, kills |-> 0])
  IN Upsert(profile, Carriers(snap) \X {week},
       LAMBDA r : [old(r) EXCEPT !.samples = @ + (IF <<r[1], snap.hour>> \in DOMAIN hourly THEN 0 ELSE 1),
                                 ![k] = @ + Delta(snap, k, r[1])])

Writes(t, k) ==
  /\ hourly' = WriteHourly(hourly, k, tick[t][k])
  /\ profile' = WriteProfile(k, tick[t][k])
  /\ sampled' = sampled \cup {<<tick[t][k].hour, k>>}
  /\ counted' = [r \in DOMAIN counted |->
                   IF r[2] = tick[t][k].hour /\ tick[t][k].numbers[r[1]] > 0
                   THEN [counted[r] EXCEPT ![k] = tick[t][k].numbers[r[1]]] ELSE counted[r]]

Without(t) == [x \in DOMAIN tick \ {t} |-> tick[x]]
First(k, t) == k = "kills" => tick[t].jumps = Nothing

\* The jumps are written before the kills.
WriteBucket(t, k) ==
  /\ t \in DOMAIN tick /\ tick[t][k] # Nothing /\ First(k, t)
  /\ Writes(t, k)
  /\ tick' = [tick EXCEPT ![t][k] = Nothing]
  /\ UNCHANGED <<now, published, ticks>>

\* pruneHourly, and the end of the tick.
Stale(t) == {r \in DOMAIN hourly : r[2] < tick[t].began - Retention}
TickEnds(t) ==
  /\ t \in DOMAIN tick /\ \A k \in Kinds : tick[t][k] = Nothing
  /\ hourly' = [r \in DOMAIN hourly \ Stale(t) |-> hourly[r]]
  /\ tick' = Without(t)
  /\ UNCHANGED <<now, published, ticks, profile, sampled, counted>>

\* The process dies, also between the note of the hour and its transaction.
Crash ==
  /\ DOMAIN tick # {} /\ tick' = NoRows
  /\ \/ UNCHANGED rows
     \/ \E t \in DOMAIN tick, k \in Kinds :
          /\ tick[t][k] # Nothing /\ First(k, t)
          /\ sampled' = sampled \cup {<<tick[t][k].hour, k>>} /\ UNCHANGED <<hourly, profile, counted>>
  /\ UNCHANGED <<now, published, ticks>>

Next ==
  \/ HourPasses \/ Crash
  \/ \E t \in Ticks : TickReads(t) \/ TickEnds(t) \/ \E k \in Kinds : WriteBucket(t, k)

Spec == Init /\ [][Next]_vars

-----------------------------------------------------------------------------
HoursOf(w) == {h \in Hours : hourOfWeekFor(h) = w}
SampledHours(w) == {h \in HoursOf(w) : \E k \in Kinds : <<h, k>> \in sampled}

\* "Adding twice would quietly inflate the profile": however often an hour is
\* read and whatever dies, the sums are those of the hours, each counted once
\* and as it was last read, and a busy hour is among those divided by.
SumsAreOfTheHours ==
  \A s \in Systems, w \in 0..WeekHours - 1 :
    LET row == Row(profile, <<s, w>>, [samples |-> 0, jumps |-> 0, kills |-> 0])
        busy == {h \in HoursOf(w) : counted[<<s, h>>] # Zero}
    IN /\ \A k \in Kinds : row[k] = MapThenSumSet(LAMBDA h : counted[<<s, h>>][k], HoursOf(w))
       /\ row.samples = Cardinality(busy)
       /\ busy \subseteq SampledHours(w)

\* What is kept of the hours agrees with what they were.
HoursAreKept ==
  \A r \in DOMAIN hourly : hourly[r] = counted[r]

MetricsSound == SumsAreOfTheHours /\ HoursAreKept
=============================================================================
