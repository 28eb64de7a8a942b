---------------------------- MODULE UsageAccounts ----------------------------
(***************************************************************************)
(* What the calls of the model cost (usage/tracker.ts, rollup.ts,          *)
(* scheduler.ts, stats.ts): every call leaves a row, the rows of a day are *)
(* summed once the day is over, rows past the retention are deleted, and   *)
(* the sums stay.  A report reads the sums and the rows after them.        *)
(*                                                                         *)
(* An event is of a user, and its cost is known or not.  The rows of the   *)
(* first day may have been cut by an older version, after they were summed.*)
(***************************************************************************)
EXTENDS Integers, FiniteSetsExt

CONSTANTS
  Users,
  Retention,   \* retentionDays: at least 2
  MaxDay, MaxEvents, MaxLate   \* bounds: days, rows, rows with an older date

VARIABLES
  today,
  raw,        \* usage_events: rows [id, day, user, known]
  daily,      \* usage_daily: of a day and a user, [events, unknown]
  recorded,   \* every row that there ever was
  late        \* rows of a day that was summed before they came

vars == <<today, raw, daily, recorded, late>>

Days == 0..MaxDay
Row == [id : 0..MaxEvents - 1, day : Days, user : Users, known : BOOLEAN]
Sums == [events : 0..MaxEvents, unknown : 0..MaxEvents]

TypeOK ==
  /\ today \in Days /\ raw \subseteq recorded /\ recorded \subseteq Row /\ late \subseteq recorded
  /\ DOMAIN daily \subseteq Days \X Users /\ \A x \in DOMAIN daily : daily[x] \in Sums

Count(S) == [events |-> Cardinality(S), unknown |-> Cardinality({e \in S : ~e.known})]
OfDay(S, d) == {e \in S : e.day = d}
Of(S, d, u) == {e \in S : e.day = d /\ e.user = u}

\* One row per day and user that has events.
Grouped(S) == [x \in {<<e.day, e.user>> : e \in S} |-> Count(Of(S, x[1], x[2]))]

Init ==
  /\ late = {}
  /\ \E u \in Users, cut \in BOOLEAN :
       LET old == {[id |-> i, day |-> 0, user |-> u, known |-> i = 0] : i \in 0..1}
       IN /\ today = (IF cut THEN Retention ELSE 1)
          /\ recorded = old
          /\ raw = (IF cut THEN {e \in old : e.id = 0} ELSE old)
          /\ daily = (IF cut THEN Grouped(old) ELSE Grouped({}))

-----------------------------------------------------------------------------
\* recordModelUsageSafe: what cannot be written is dropped, the turn goes on.
Record(u) ==
  /\ Cardinality(recorded) < MaxEvents
  /\ \E d \in {today, today - 1}, known \in BOOLEAN :
       LET e == [id |-> Cardinality(recorded), day |-> d, user |-> u, known |-> known]
       IN /\ d < today => Cardinality(late) < MaxLate
          /\ raw' = raw \cup {e} /\ recorded' = recorded \cup {e}
          /\ late' = (IF d < today /\ \E x \in DOMAIN daily : x[1] >= d THEN late \cup {e} ELSE late)
  /\ UNCHANGED <<today, daily>>

Summed(d) == Cardinality(OfDay(raw, d))
Stored(d) == MapThenSumSet(LAMBDA x : daily[x].events, {x \in DOMAIN daily : x[1] = d})

\* rollupUsageEvents, one transaction: the days before today that have rows are
\* summed anew, unless rows of the day were deleted; then whole days go.
AllWithRows == {d \in Days : d < today /\ OfDay(raw, d) # {}}      \* a bug
Yesterday == {d \in {today - 1} : OfDay(raw, d) # {}}              \* a bug
Rebuildable == {d \in Days : d < today /\ OfDay(raw, d) # {} /\ Summed(d) >= Stored(d)}

Rebuilt(D) ==
  LET new == Grouped({e \in raw : e.day \in D})
      kept == {x \in DOMAIN daily : x[1] \notin D}
  IN [x \in DOMAIN new \cup kept |-> IF x \in kept THEN daily[x] ELSE new[x]]

Rollup ==
  /\ daily' = Rebuilt(Rebuildable)
  /\ raw' = {e \in raw : e.day >= today - Retention}
  /\ late' = {e \in late : e.day \notin Rebuildable}
  /\ UNCHANGED <<today, recorded>>

\* Midnight.  The process, or the rollup of an hour, may be down for days.
DayPasses == today < MaxDay /\ today' = today + 1 /\ UNCHANGED <<raw, daily, recorded, late>>

Next == Rollup \/ DayPasses \/ \E u \in Users : Record(u)

Spec == Init /\ [][Next]_vars

-----------------------------------------------------------------------------
(* buildUsageReport.                                                       *)

SmallerOf(a, b) == IF a < b THEN a ELSE b
NewestSummed == CHOOSE d \in Days : /\ \E x \in DOMAIN daily : x[1] = d
                                    /\ \A x \in DOMAIN daily : x[1] <= d

FromNewest == IF DOMAIN daily = {} THEN today - 1 ELSE SmallerOf(NewestSummed, today)   \* a bug
TailStart == IF DOMAIN daily = {} THEN today - 1 ELSE SmallerOf(NewestSummed + 1, today)

Reported(d, u) ==
  LET tail == Count({e \in Of(raw, d, u) : e.day >= TailStart})
      sums == IF <<d, u>> \in DOMAIN daily THEN daily[<<d, u>>] ELSE Count({})
  IN [events |-> sums.events + tail.events, unknown |-> sums.unknown + tail.unknown]

-----------------------------------------------------------------------------
\* Before the first rollup a report reads two days; the scheduler of a process
\* that serves reports has run it before.
Served == DOMAIN daily # {} \/ \A e \in recorded : e.day >= today - 1

\* A report counts every call once, in its day and for its user, and knows how
\* many had no price, whichever days the rollup has reached and whatever has
\* been deleted; a row that came late for its day is in it after the next one.
ReportIsComplete ==
  Served => \A d \in Days, u \in Users : Reported(d, u) = Count(Of(recorded \ late, d, u))

\* "Pruned or not, a summary is never rebuilt from leftovers": no step takes
\* a call from what a day was summed to.
HistoryKept ==
  \A x \in DOMAIN daily :
    x \in DOMAIN daily' /\ daily'[x].events >= daily[x].events /\ daily'[x].unknown >= daily[x].unknown

UsageState == ReportIsComplete
UsageStep == HistoryKept
=============================================================================
