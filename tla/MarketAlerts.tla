---------------------------- MODULE MarketAlerts ----------------------------
(***************************************************************************)
(* One-shot price alerts (eve/market-alerts-worker.ts and                  *)
(* web/market-alert-routes.ts).  A tick first sends again what was not     *)
(* delivered, then fires the alerts whose price has crossed their          *)
(* threshold and pushes them.  Pushes run a few at a time, each under a    *)
(* deadline, and the process may die at any point.                         *)
(***************************************************************************)
EXTENDS Integers, Sequences, FiniteSets, SequencesExt

CONSTANTS
  Alerts,          \* alerts that may be created
  MaxActive,       \* config.marketAlerts.maxActivePerUser; the alerts are one user's
  MaxAttempts,     \* REDELIVERY_MAX_ATTEMPTS
  Batch,           \* REDELIVERY_BATCH
  Concurrency,     \* DEFAULT_DELIVERY_CONCURRENCY
  MaxCrashes,      \* bound on the crashes
  Nothing

VARIABLES
  alert,      \* each alert's status; "none" before it is created
  events,     \* market_alert_events, in the order of their ids
  tick,       \* the tick in flight
  late,       \* sends past their deadline that the platform may still take
  linked,     \* whether the user has any outbound lane
  crashes,
  pushes      \* history: messages the user got for each event

vars == <<alert, events, tick, late, linked, crashes, pushes>>
Ids == 1..Len(events)

TypeOK ==
  /\ alert \in [Alerts -> {"none", "active", "triggered", "disabled"}]
  /\ linked \in BOOLEAN /\ crashes \in 0..MaxCrashes
  /\ \A e \in Ids : events[e] \in
       [alert : Alerts, attempts : 0..MaxAttempts, due : BOOLEAN, old : BOOLEAN,
        settled : {"no", "delivered", "abandoned"}]
  /\ tick = Nothing \/
       /\ tick.phase \in {"redelivery", "delivery"} /\ tick.spent \in BOOLEAN
       /\ tick.sending \subseteq Ids /\ Cardinality(tick.sending) <= Concurrency
       /\ ToSet(tick.queue) \subseteq Ids
  /\ late \subseteq Ids
  /\ DOMAIN pushes = Ids /\ \A e \in Ids : pushes[e] \in Nat

Init ==
  /\ alert = [a \in Alerts |-> "none"] /\ events = << >>
  /\ tick = Nothing /\ late = {} /\ linked = TRUE /\ crashes = 0
  /\ pushes = << >>

-----------------------------------------------------------------------------
(* The user and the platform.                                              *)

Create(a) ==
  /\ alert[a] = "none"
  /\ Cardinality({b \in Alerts : alert[b] = "active"}) < MaxActive
  /\ alert' = [alert EXCEPT ![a] = "active"]
  /\ UNCHANGED <<events, tick, late, linked, crashes, pushes>>

\* A soft delete, whatever the status.
Disable(a) ==
  /\ alert[a] \in {"active", "triggered"}
  /\ alert' = [alert EXCEPT ![a] = "disabled"]
  /\ UNCHANGED <<events, tick, late, linked, crashes, pushes>>

LinkChanges ==
  /\ linked' = ~linked
  /\ UNCHANGED <<alert, events, tick, late, crashes, pushes>>

\* A send that ran into its deadline goes through after all.
LateLands(e) ==
  /\ e \in late /\ late' = late \ {e}
  /\ pushes' = [pushes EXCEPT ![e] = @ + 1]
  /\ UNCHANGED <<alert, events, tick, linked, crashes>>

BackoffEnds(e) ==
  /\ ~events[e].due /\ events[e].settled = "no"
  /\ events' = [events EXCEPT ![e].due = TRUE]
  /\ UNCHANGED <<alert, tick, late, linked, crashes, pushes>>

\* The event leaves the redelivery window.
Ages(e) ==
  /\ ~events[e].old /\ events' = [events EXCEPT ![e].old = TRUE]
  /\ UNCHANGED <<alert, tick, late, linked, crashes, pushes>>

-----------------------------------------------------------------------------
(* A tick.                                                                 *)

NeverTried(e) == events[e].attempts = 0 /\ events[e].due
\* Not delivered, not given up, its backoff over, inside the window.
Pending(e) == events[e].settled = "no" /\ events[e].due /\ ~events[e].old

\* The fewest attempts first, then the oldest.
Before(d, e) == \/ events[d].attempts < events[e].attempts
                \/ events[d].attempts = events[e].attempts /\ d < e
Selected ==
  LET pending == SetToSortSeq({e \in Ids : Pending(e)}, Before)
  IN SubSeq(pending, 1, IF Len(pending) < Batch THEN Len(pending) ELSE Batch)

StartTick ==
  /\ tick = Nothing
  /\ tick' = [phase |-> "redelivery", queue |-> Selected, sending |-> {}, begun |-> FALSE,
            spent |-> FALSE]
  /\ UNCHANGED <<alert, events, late, linked, crashes, pushes>>

SendOne ==
  /\ tick # Nothing /\ tick.queue # << >> /\ ~tick.spent
  /\ Cardinality(tick.sending) < Concurrency
  /\ tick' = [tick EXCEPT !.queue = Tail(@), !.sending = @ \cup {Head(tick.queue)},
                           !.begun = TRUE]
  /\ UNCHANGED <<alert, events, late, linked, crashes, pushes>>

Sending(e) == tick # Nothing /\ e \in tick.sending
SendDone(e) == tick' = [tick EXCEPT !.sending = @ \ {e}]

MarkDelivered(e) ==
  IF events[e].settled = "delivered" THEN events
  ELSE [events EXCEPT ![e].settled = "delivered", ![e].due = TRUE]

Sent(e) ==
  /\ Sending(e) /\ linked /\ SendDone(e)
  /\ pushes' = [pushes EXCEPT ![e] = @ + 1]
  /\ events' = MarkDelivered(e)
  /\ UNCHANGED <<alert, late, linked, crashes>>

\* recordDeliveryFailure.
GivesUp(e, terminal) == terminal \/ events[e].attempts + 1 >= MaxAttempts
Failure(e, terminal) ==
  IF events[e].settled = "delivered" THEN events
  ELSE [events EXCEPT ![e].attempts = @ + 1,
          ![e].due = GivesUp(e, terminal),
          ![e].settled = IF GivesUp(e, terminal) THEN "abandoned" ELSE "no"]

\* The lane is offline or the platform refuses; without any lane at all the
\* event is given up.
SendFails(e) ==
  /\ Sending(e) /\ SendDone(e)
  /\ events' = Failure(e, ~linked)
  /\ UNCHANGED <<alert, late, linked, crashes, pushes>>

SendTimesOut(e) ==
  /\ Sending(e) /\ linked /\ SendDone(e)
  /\ events' = Failure(e, FALSE)
  /\ late' = late \cup {e}
  /\ UNCHANGED <<alert, linked, crashes, pushes>>

\* The phase's budget is spent: no further send starts in it.
BudgetSpent ==
  /\ tick # Nothing /\ tick.queue # << >> /\ tick.begun /\ ~tick.spent
  /\ tick' = [tick EXCEPT !.spent = TRUE]
  /\ UNCHANGED <<alert, events, late, linked, crashes, pushes>>

PhaseOver == tick # Nothing /\ tick.sending = {} /\ (tick.queue = << >> \/ tick.spent)

NotDisabled(a) == alert[a] \in {"active", "triggered"}
\* The claim is an update of active alerts only.
Claimable(a) == alert[a] = "active"
Firing(crossed) == {a \in crossed : Claimable(a)}

\* One transaction claims every firing alert, those whose best price is beyond
\* the threshold, and records its event.
Fire(crossed) ==
  LET fired == SetToSeq(Firing(crossed))
      new   == [i \in 1..Len(fired) |->
                 [alert |-> fired[i], attempts |-> 0, due |-> TRUE, old |-> FALSE,
                  settled |-> "no"]]
  IN /\ PhaseOver /\ tick.phase = "redelivery"
     /\ alert' = [a \in Alerts |-> IF a \in Firing(crossed) THEN "triggered" ELSE alert[a]]
     /\ events' = events \o new
     /\ pushes' = pushes \o [i \in 1..Len(fired) |-> 0]
     /\ tick' = IF fired = << >> THEN Nothing
                ELSE [phase |-> "delivery", sending |-> {}, begun |-> FALSE,
                      spent |-> FALSE, queue |-> [i \in 1..Len(fired) |-> Len(events) + i]]
     /\ UNCHANGED <<late, linked, crashes>>

EndTick ==
  /\ PhaseOver /\ tick.phase = "delivery" /\ tick' = Nothing
  /\ UNCHANGED <<alert, events, late, linked, crashes, pushes>>

\* A send that was on its way may have left the process.
Crash ==
  /\ tick # Nothing /\ crashes < MaxCrashes
  /\ tick' = Nothing /\ crashes' = crashes + 1
  /\ late' = late \cup tick.sending
  /\ UNCHANGED <<alert, events, linked, pushes>>

TickProgress ==
  \/ SendOne \/ EndTick
  \/ \E crossed \in SUBSET Alerts : Fire(crossed)
  \/ \E e \in Ids : Sent(e) \/ SendFails(e) \/ SendTimesOut(e)

Next ==
  \/ \E a \in Alerts : Create(a) \/ Disable(a)
  \/ LinkChanges
  \/ \E e \in Ids : LateLands(e) \/ BackoffEnds(e) \/ Ages(e)
  \/ StartTick \/ TickProgress \/ BudgetSpent \/ Crash

\* The schedule ticks, a send ends by its deadline, a backoff ends.
Fairness == /\ WF_vars(StartTick) /\ WF_vars(TickProgress)
            /\ \A e \in 1..Cardinality(Alerts) : WF_vars(e \in Ids /\ BackoffEnds(e))

Spec == Init /\ [][Next]_vars /\ Fairness

-----------------------------------------------------------------------------
\* An alert fires at most once, and one that fired has its event, whatever the
\* user does to it and wherever the process dies; delivered_at only stands for
\* a push the platform took.
FiresOnce ==
  /\ \A a \in Alerts :
       LET fired == {e \in Ids : events[e].alert = a} IN
       /\ Cardinality(fired) <= 1
       /\ alert[a] = "triggered" => Cardinality(fired) = 1
       /\ alert[a] = "active" => fired = {}
  /\ \A e \in Ids : events[e].settled = "delivered" => pushes[e] > 0

\* Every event is delivered, given up or too old in the end: a crash right after
\* the claim, a hung send or events that fail for ever do not keep it waiting.
EventsSettle ==
  \A e \in 1..Cardinality(Alerts) :
    e \in Ids ~> (e \in Ids /\ (events[e].settled # "no" \/ events[e].old))

\* "Marking delivered_at only after a successful send keeps the
\* exactly-once-per-event property" (market-alerts-worker.ts:263).
PushedOnce == \A e \in Ids : pushes[e] <= 1
=============================================================================
