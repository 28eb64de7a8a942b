---------------------------- MODULE RouteMonitor ----------------------------
(***************************************************************************)
(* The route monitor of one chat (eve-board/monitor.ts): how it is started *)
(* by the route planner (eve/route-planner.ts), which holds the feed while *)
(* it hands over, fed by the durable feed poller (eve-kill/feed-poll.ts),  *)
(* stopped by its own polls and by the user, and restored after a crash.   *)
(*                                                                         *)
(* A run is one monitor, named by startedAt.  The feed cursor, the monitor *)
(* row and the dedup rows survive a crash.  Events are those on the route, *)
(* all within the hour; what an alert says and the digests are left out.   *)
(***************************************************************************)
EXTENDS Integers, FiniteSets, Sequences

CONSTANTS Kills,
          KillOf,     \* the killmail of a feed event
          Polls,      \* the pilot's polls: "location" and "death"
          MaxSeq,     \* bound: events the server publishes
          MaxRuns,    \* bound: monitors started
          MaxStarts   \* bound: process starts

Events == 1..MaxSeq
Runs   == 1..MaxRuns

ASSUME EventsAssumption == KillOf \in [Events -> Kills]
ASSUME PollsAssumption  == Polls \subseteq {"location", "death"}
ASSUME BoundsAssumption == MaxSeq \in Nat /\ MaxRuns \in Nat /\ MaxStarts \in Nat

VARIABLES
  head, cursor,       \* the server's last event, the durable cursor
  row,                \* the route_monitors row: [run, killsSeen]; run = 0: none
  dedup,              \* route_monitor_kill_dedup rows <<run, kill>>
  up, starts,
  restored,           \* restoreMonitors has run in this process
  at,                 \* the event the poller is processing; 0: none
  calling, returned,  \* the listener it awaits, and those that have returned
  plan,               \* the planner: "idle", "scanning", "scanned", "starting"
  captured, snapshot, \* its captured event (0: none) and its baseline
  runs,               \* monitors started so far
  inst,               \* MonitorInstance of each run in this process
  counted             \* history: <<run, kill>> of the committed transactions

feed    == <<head, cursor, at, calling, returned>>
planner == <<plan, captured, snapshot, runs>>
tables  == <<row, dedup, counted>>
process == <<up, starts, restored>>
vars == <<feed, planner, tables, process, inst>>

\* Listeners: the planner's capture, or a run.
Capture == 0
NoOne   == -1

Sources  == {"initial", "operational", "live"}
Jobs     == [event : Events, from : Sources, step : {"queued", "enriching", "sending"}]
NoInstance == [status |-> "none", ready |-> FALSE, killsSeen |-> 0, seen |-> {},
               pending |-> 0, jobs |-> <<>>, polling |-> {}, refused |-> {}]
NoRow == [run |-> 0, killsSeen |-> 0]

\* At most one job of each source is in the queue of an instance.
TypeOK ==
  /\ head \in 0..MaxSeq /\ cursor \in 0..head
  /\ row \in [run : 0..MaxRuns, killsSeen : 0..MaxSeq]
  /\ dedup \subseteq Runs \X Kills /\ counted \subseteq Runs \X Kills
  /\ up \in BOOLEAN /\ starts \in 0..MaxStarts /\ restored \in BOOLEAN
  /\ at \in {0, cursor + 1} /\ calling \in {NoOne, Capture} \cup Runs
  /\ returned \subseteq {Capture} \cup Runs
  /\ plan \in {"idle", "scanning", "scanned", "starting"}
  /\ captured \in 0..MaxSeq /\ snapshot \subseteq Kills /\ runs \in 0..MaxRuns
  /\ \A r \in Runs :
       /\ inst[r].status \in {"none", "active", "gone"} /\ inst[r].ready \in BOOLEAN
       /\ inst[r].killsSeen \in 0..MaxSeq /\ inst[r].seen \subseteq Kills
       /\ inst[r].pending \in 0..MaxSeq /\ inst[r].polling \subseteq Polls
       /\ inst[r].refused \subseteq Kills
       /\ \A i \in DOMAIN inst[r].jobs : inst[r].jobs[i] \in Jobs
       /\ \A i, j \in DOMAIN inst[r].jobs : inst[r].jobs[i].from = inst[r].jobs[j].from => i = j

Init ==
  /\ head = 0 /\ cursor = 0 /\ row = NoRow /\ dedup = {}
  /\ up = FALSE /\ starts = 0 /\ restored = FALSE
  /\ at = 0 /\ calling = NoOne /\ returned = {}
  /\ plan = "idle" /\ captured = 0 /\ snapshot = {} /\ runs = 0
  /\ inst = [r \in Runs |-> NoInstance] /\ counted = {}

-----------------------------------------------------------------------------
Active(r) == inst[r].status = "active"
Known(n)  == {KillOf[e] : e \in 1..n}
Listeners == {r \in Runs : Active(r)} \cup (IF plan = "idle" THEN {} ELSE {Capture})

Publish ==
  /\ head < MaxSeq /\ head' = head + 1
  /\ UNCHANGED <<cursor, at, calling, returned, planner, tables, process, inst>>

Start ==
  /\ ~up /\ starts < MaxStarts /\ up' = TRUE /\ starts' = starts + 1
  /\ UNCHANGED <<feed, planner, tables, restored, inst>>

Crash ==
  /\ up /\ starts < MaxStarts
  /\ up' = FALSE /\ restored' = FALSE
  /\ at' = 0 /\ calling' = NoOne /\ returned' = {}
  /\ plan' = "idle" /\ captured' = 0 /\ snapshot' = {}
  /\ inst' = [r \in Runs |-> NoInstance]
  /\ UNCHANGED <<head, cursor, runs, tables, starts>>

\* stopRouteMonitor, discardRouteMonitor: detach, forget, delete.
Stopped(r) ==
  /\ inst' = [inst EXCEPT ![r].status = "gone"]
  /\ row' = NoRow /\ dedup' = {}

\* The user stops the monitor, switches the pilot, logs out; or a poll finds
\* the lane revoked.
Stop(r) ==
  /\ up /\ Active(r) /\ Stopped(r)
  /\ UNCHANGED <<feed, planner, counted, process>>

\* restoreMonitors: an active row is left alone; its baseline is awaited.
Restore ==
  /\ up /\ ~restored /\ restored' = TRUE
  /\ IF row.run = 0 \/ Active(row.run) THEN UNCHANGED inst
     ELSE inst' = [inst EXCEPT ![row.run] =
                     [NoInstance EXCEPT !.status = "active", !.killsSeen = row.killsSeen]]
  /\ UNCHANGED <<feed, planner, tables, up, starts>>

BaselineArrives(r) ==
  /\ Active(r) /\ ~inst[r].ready /\ inst[r].jobs = <<>>
  /\ inst' = [inst EXCEPT ![r].ready = TRUE, ![r].seen = @ \cup Known(head)]
  /\ UNCHANGED <<feed, planner, tables, process>>

\* A restored monitor does not go on without its baseline.
BaselineFails(r) ==
  /\ ~inst[r].ready /\ inst[r].jobs = <<>>
  /\ \/ /\ Active(r)
        /\ inst' = [inst EXCEPT ![r].ready = TRUE, ![r].status = "gone"]
        /\ row' = NoRow /\ dedup' = {}
     \/ /\ inst[r].status = "gone"
        /\ inst' = [inst EXCEPT ![r].ready = TRUE]
        /\ UNCHANGED <<row, dedup>>
  /\ UNCHANGED <<feed, planner, counted, process>>

-----------------------------------------------------------------------------
(* The planner.  It subscribes its capture before it scans, and releases it *)
(* when the monitor has subscribed and drained, or when it gives up.        *)

PlanBegin ==
  /\ up /\ plan = "idle" /\ runs < MaxRuns
  /\ plan' = "scanning" /\ captured' = 0 /\ snapshot' = {}
  /\ returned' = returned \ {Capture}
  /\ UNCHANGED <<head, cursor, at, calling, runs, tables, process, inst>>

ScanArrives ==
  /\ plan = "scanning" /\ plan' = "scanned" /\ snapshot' = Known(head)
  /\ UNCHANGED <<feed, captured, runs, tables, process, inst>>

\* The capture is removed from the listeners, and the poller, if it waits for
\* it, is let go or made to hold the event.
ReleasedNever(held) == UNCHANGED <<at, calling, returned>>         \* a bug
Released(held) ==
  IF calling # Capture THEN UNCHANGED <<at, calling, returned>>
  ELSE /\ calling' = NoOne
       /\ IF held THEN at' = 0 /\ returned' = {}
          ELSE returned' = returned \cup {Capture} /\ UNCHANGED at

PlanEnds(held) ==
  /\ plan' = "idle" /\ captured' = 0 /\ snapshot' = {}
  /\ Released(held)
  /\ UNCHANGED <<head, cursor, runs, tables, process, inst>>

PlanFails == plan \in {"scanning", "scanned"} /\ PlanEnds(FALSE)

\* startRouteMonitor: the chat's monitor is replaced, the new row saved and
\* the listener subscribed in one block; the captured event is drained first.
PlanStarts ==
  LET r   == runs + 1
      job == [event |-> captured, from |-> "initial", step |-> "queued"]
  IN /\ plan = "scanned" /\ plan' = "starting" /\ runs' = r
     /\ inst' = [p \in Runs |->
                   IF p = r THEN [NoInstance EXCEPT !.status = "active", !.seen = snapshot,
                                    !.ready = (captured = 0), !.pending = captured,
                                    !.jobs = IF captured = 0 THEN <<>> ELSE <<job>>]
                   ELSE IF Active(p) THEN [inst[p] EXCEPT !.status = "gone"] ELSE inst[p]]
     /\ row' = [run |-> r, killsSeen |-> 0] /\ dedup' = {}
     /\ UNCHANGED <<feed, captured, snapshot, counted, process>>

\* baselinePromise: true when the captured event was taken over.
Accepted == inst[runs].pending = 0

PlanDone == plan = "starting" /\ inst[runs].ready /\ PlanEnds(~Accepted)

-----------------------------------------------------------------------------
(* The feed poller and the monitor's listener.                              *)

Take ==
  /\ up /\ restored /\ at = 0 /\ cursor < head
  /\ at' = cursor + 1 /\ calling' = NoOne /\ returned' = {}
  /\ UNCHANGED <<head, cursor, planner, tables, process, inst>>

\* The capture keeps the event and does not return.
CaptureWaits == calling' = Capture /\ UNCHANGED returned

CallCapture ==
  /\ at # 0 /\ calling = NoOne /\ Capture \in Listeners \ returned
  /\ captured' = IF plan = "starting" THEN captured ELSE at
  /\ CaptureWaits
  /\ UNCHANGED <<head, cursor, at, plan, snapshot, runs, tables, process, inst>>

Call(r) ==
  /\ at # 0 /\ calling = NoOne /\ r \in Listeners \ returned
  /\ calling' = r
  /\ UNCHANGED <<head, cursor, at, returned, planner, tables, process, inst>>

NeverQueued(r, source) == FALSE                                     \* a bug
Queued(r, source) == \E i \in DOMAIN inst[r].jobs : inst[r].jobs[i].from = source

\* handleRouteFeedEvent, after the baseline: a monitor that is gone returns.
Hear(r) ==
  /\ calling = r /\ inst[r].ready /\ ~Queued(r, "live")
  /\ IF Active(r)
     THEN /\ inst' = [inst EXCEPT ![r].jobs =
                        Append(@, [event |-> at, from |-> "live", step |-> "queued"])]
          /\ UNCHANGED <<calling, returned>>
     ELSE /\ calling' = NoOne /\ returned' = returned \cup {r}
          /\ UNCHANGED inst
  /\ UNCHANGED <<head, cursor, at, planner, tables, process>>

Pass ==
  /\ at # 0 /\ calling = NoOne /\ Listeners \subseteq returned
  /\ cursor' = at /\ at' = 0 /\ returned' = {}
  /\ UNCHANGED <<head, calling, planner, tables, process, inst>>

-----------------------------------------------------------------------------
(* processRouteFeedEvent, one job after the other: feedEventTail.           *)

TurnOfAny(r, i) == i \in DOMAIN inst[r].jobs                        \* a bug
Turn(r, i) == i = 1 /\ i \in DOMAIN inst[r].jobs

Job(r, i, step) == up /\ Turn(r, i) /\ inst[r].jobs[i].step = step
Kill(r, i) == KillOf[inst[r].jobs[i].event]

Without(s, i) == SubSeq(s, 1, i - 1) \o SubSeq(s, i + 1, Len(s))

\* The job is over: its caller shifts the captured event, or the feed goes on,
\* with the event or without.
Ended(r, i, m, ok) ==
  LET from == inst[r].jobs[i].from
  IN /\ inst' = [inst EXCEPT ![r] =
                   [m EXCEPT !.jobs = Without(@, i),
                             !.pending = IF from # "live" /\ ok THEN 0 ELSE @,
                             !.ready = @ \/ from = "initial"]]
     /\ IF from # "live" THEN UNCHANGED <<at, calling, returned>>
        ELSE /\ calling' = NoOne
             /\ IF ok THEN returned' = returned \cup {r} /\ UNCHANGED at
                ELSE at' = 0 /\ returned' = {}
     /\ UNCHANGED <<head, cursor, planner, process>>

At(r, i, step) ==
  /\ inst' = [inst EXCEPT ![r].jobs[i].step = step]
  /\ UNCHANGED <<feed, planner, tables, process>>

\* Absorbed: processed already, in the baseline, an NPC kill, or too old.
Absorb(r, i) ==
  LET k == Kill(r, i)
  IN /\ Job(r, i, "queued")
     /\ IF <<r, k>> \in dedup THEN UNCHANGED dedup ELSE dedup' = dedup \cup {<<r, k>>}
     /\ Ended(r, i, [inst[r] EXCEPT !.seen = @ \cup {k}], TRUE)
     /\ UNCHANGED <<row, counted>>

Fresh(r, i) == <<r, Kill(r, i)>> \notin dedup /\ Kill(r, i) \notin inst[r].seen

Enrich(r, i) == Job(r, i, "queued") /\ Fresh(r, i) /\ At(r, i, "enriching")

\* A HIGH or CRITICAL threat is sent before anything is written.
Alert(r, i) == Job(r, i, "enriching") /\ Active(r) /\ At(r, i, "sending")

\* The monitor was stopped meanwhile: nothing is written.
Forget(r, i) ==
  /\ \/ Job(r, i, "enriching") \/ Job(r, i, "sending")
  /\ ~Active(r)
  /\ Ended(r, i, inst[r], TRUE) /\ UNCHANGED tables

\* The dedup row and the statistics are one transaction; memory follows it.
Commit(r, i) ==
  LET k == Kill(r, i)
  IN /\ \/ Job(r, i, "enriching") \/ Job(r, i, "sending")
     /\ Active(r)
     /\ IF <<r, k>> \in dedup
        THEN /\ Ended(r, i, [inst[r] EXCEPT !.seen = @ \cup {k}], TRUE)
             /\ UNCHANGED tables
        ELSE /\ dedup' = dedup \cup {<<r, k>>} /\ counted' = counted \cup {<<r, k>>}
             /\ row' = [row EXCEPT !.killsSeen = inst[r].killsSeen + 1]
             /\ Ended(r, i, [inst[r] EXCEPT !.seen = @ \cup {k}, !.killsSeen = @ + 1], TRUE)

\* The send or the transaction fails: the event is not acknowledged.
Unwound(m) == m

JobFails(r, i) ==
  /\ \/ Job(r, i, "enriching") \/ Job(r, i, "sending")
  /\ Ended(r, i, Unwound(inst[r]), FALSE) /\ UNCHANGED tables

\* The chat refuses messages for good: the poller acknowledges the event.
AlertRefused(r, i) ==
  LET live == inst[r].jobs[i].from = "live"
  IN /\ Job(r, i, "sending")
     /\ Ended(r, i, [inst[r] EXCEPT !.refused = IF live THEN @ \cup {Kill(r, i)} ELSE @], live)
     /\ UNCHANGED tables

\* pollOperationalState drains a captured event that is left.
Drain(r) ==
  /\ Active(r) /\ inst[r].pending # 0 /\ ~Queued(r, "operational")
  /\ inst' = [inst EXCEPT ![r].jobs =
                Append(@, [event |-> inst[r].pending, from |-> "operational", step |-> "queued"])]
  /\ UNCHANGED <<feed, planner, tables, process>>

-----------------------------------------------------------------------------
(* The pilot's polls: an ESI call between two looks at the instance.        *)

Ask(r, p) ==
  /\ Active(r) /\ p \notin inst[r].polling
  /\ inst' = [inst EXCEPT ![r].polling = @ \cup {p}]
  /\ UNCHANGED <<feed, planner, tables, process>>

\* ensureMonitorCharacterStillActive, after every await.
NeverAskedAgain(r) == TRUE                                          \* a bug
StillActive(r) == Active(r)

\* pollLocation and pollOnline save the whole row, checkOwnDeath its statistics.
Saved(r, p) ==
  IF p = "location" THEN row' = [run |-> r, killsSeen |-> inst[r].killsSeen]
  ELSE row' = [row EXCEPT !.killsSeen = IF row.run = 0 THEN @ ELSE inst[r].killsSeen]

Learn(r, p) ==
  /\ p \in inst[r].polling
  /\ inst' = [inst EXCEPT ![r].polling = @ \ {p}]
  /\ \/ UNCHANGED row                              \* nothing new, or no answer
     \/ StillActive(r) /\ Saved(r, p)
  /\ UNCHANGED <<feed, planner, dedup, counted, process>>

\* The pilot arrived, died, went offline, or cannot be located.
LearnEnd(r, p) ==
  /\ p \in inst[r].polling /\ Active(r)
  /\ inst' = [inst EXCEPT ![r].polling = @ \ {p}, ![r].status = "gone"]
  /\ row' = NoRow /\ dedup' = {}
  /\ UNCHANGED <<feed, planner, counted, process>>

-----------------------------------------------------------------------------
Settle(r, i) == \/ Absorb(r, i) \/ Enrich(r, i) \/ Commit(r, i) \/ Forget(r, i)
                \/ JobFails(r, i) \/ AlertRefused(r, i)

Next ==
  \/ Publish \/ Start \/ Crash \/ Restore
  \/ PlanBegin \/ ScanArrives \/ PlanFails \/ PlanStarts \/ PlanDone
  \/ Take \/ CallCapture \/ Pass
  \/ \E r \in Runs :
       \/ Stop(r) \/ BaselineArrives(r) \/ BaselineFails(r) \/ Call(r) \/ Hear(r) \/ Drain(r)
       \/ \E i \in 1..3 : \/ Absorb(r, i) \/ Enrich(r, i) \/ Alert(r, i) \/ Forget(r, i)
                          \/ Commit(r, i) \/ JobFails(r, i) \/ AlertRefused(r, i)
       \/ \E p \in Polls : Ask(r, p) \/ Learn(r, p) \/ LearnEnd(r, p)

Spec == Init /\ [][Next]_vars

\* The loop runs, the planner ends, a baseline ends (they have timeouts), the
\* jobs end, and no event fails for ever.  Calls are strongly fair: listeners
\* are called in the order they came, before the capture of the next planner.
FairSpec ==
  /\ Spec
  /\ WF_vars(Start) /\ WF_vars(Restore) /\ WF_vars(Take) /\ SF_vars(Pass)
  /\ WF_vars(CallCapture)
  /\ WF_vars(ScanArrives \/ PlanStarts \/ PlanFails) /\ WF_vars(PlanDone)
  /\ \A r \in Runs :
       /\ WF_vars(BaselineArrives(r) \/ BaselineFails(r)) /\ SF_vars(Call(r)) /\ WF_vars(Hear(r))
       /\ WF_vars(Settle(r, 1)) /\ SF_vars(Absorb(r, 1) \/ Commit(r, 1))

-----------------------------------------------------------------------------
\* killsSeen of the row is the number of killmails the run counted, each once:
\* through failed and repeated transactions, replays and restarts.
KillsCountedOnce ==
  row.run # 0 =>
    /\ row.killsSeen = Cardinality({k \in Kills : <<row.run, k>> \in counted})
    /\ Active(row.run) => inst[row.run].killsSeen = row.killsSeen

\* A stopped monitor leaves no row, whatever poll or alert of it was under way:
\* the row is that of the active monitor, or waits to be restored.
RowIsActive ==
  /\ row.run # 0 /\ restored => Active(row.run)
  /\ \A r \in Runs : Active(r) => row.run = r

\* "closing the snapshot-to-live handoff": a monitor whose baseline is there
\* knows every killmail on its route up to the feed cursor, or was refused.
NothingMissed ==
  \A r \in Runs : Active(r) /\ inst[r].ready =>
    \A e \in 1..cursor : KillOf[e] \in inst[r].seen \cup inst[r].refused

\* What the row and the memory of a monitor say is what happened.
MonitorIsTrue == KillsCountedOnce /\ RowIsActive /\ NothingMissed

\* A killmail that a run has counted is not alerted again by that run, though
\* the baseline, the operational poll and the feed may all hand it in.
AlertedOnce ==
  [][\A r \in Runs : \A i \in 1..3 : Alert(r, i) => <<r, Kill(r, i)>> \notin dedup]_vars

\* No hand-over, baseline or alert keeps the feed waiting for ever.
FeedGoesOn == \A e \in Events : e <= head ~> cursor >= e
=============================================================================
