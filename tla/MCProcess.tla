----------------------------- MODULE MCProcess -----------------------------
(***************************************************************************)
(* Four components of the life of the service process, which share no      *)
(* state: the first state chooses the one that steps, the others stay      *)
(* where they start.  For TLC there are                                    *)
(*   - ProcessLock: four processes, two of which get the same PID one      *)
(*     after the other;                                                    *)
(*   - Shutdown: a Telegram and a web turn, with and without a drain;      *)
(*   - TelegramUpdates: a message and a button press, three processes;     *)
(*   - MarketAlerts: two alerts, one attempt to send an event, a crash.    *)
(***************************************************************************)
EXTENDS ProcessLock, Sequences

CONSTANTS
  Turns, IngressOf, Drains, PollEvery, SweepBudget, Headroom, LastStop,   \* of Shutdown
  Messages, Taps, MaxAge, Retention, Redelivery, MaxClock, MaxBoots,      \* of TelegramUpdates
  Alerts, MaxActive, MaxAttempts, Batch, Concurrency, MaxCrashes, Nothing \* of MarketAlerts

VARIABLES
  chosen,
  now, drain, step, begun, due, busy, turn, batch, drained, early,
  clock, boot, up, startedAt, sent, keyboard, pending, fetched, handled,
  claims, claimed, runs,
  alert, events, tick, late, linked, crashes, pushes

shutdownVars == <<now, drain, step, begun, due, busy, turn, batch, drained, early>>
telegramVars == <<clock, boot, up, startedAt, sent, keyboard, pending, fetched, handled,
                  claims, claimed, runs>>
alertVars == <<alert, events, tick, late, linked, crashes, pushes>>
all == <<chosen, vars, shutdownVars, telegramVars, alertVars>>

Stop == INSTANCE Shutdown WITH MaxTime <- LastStop
Telegram == INSTANCE TelegramUpdates WITH MaxTime <- MaxClock, now <- clock
Alert == INSTANCE MarketAlerts

\* The times of a stop are numbers, and the budget of the market sweep fits into
\* what the supervisor grants above the drain.
ASSUME StopAssumption ==
  /\ Drains \subseteq Nat /\ LastStop \in Nat /\ PollEvery \in Nat \ {0}
  /\ SweepBudget \in Nat /\ Headroom \in Nat /\ SweepBudget < Headroom

\* A claim outlives the update in Telegram.
ASSUME UpdatesAssumption ==
  /\ MaxClock \in Nat /\ MaxBoots \in Nat
  /\ Retention \in Nat /\ Redelivery \in Nat /\ Redelivery <= Retention

\* There are finitely many alerts, and the limits are numbers.
ASSUME AlertsAssumption ==
  IsFiniteSet(Alerts) /\ MaxAttempts \in Nat \ {0} /\ Concurrency \in Nat

-----------------------------------------------------------------------------
\* The constants TLC takes.
CONSTANTS p1, p2, p3, p4, i1, i2, i3
ReusedPids == [p \in {p1, p2, p3, p4} |->
                 CASE p = p2 -> i2 [] p = p3 -> i3 [] OTHER -> i1]
StartTimes == [p \in {p1, p2, p3, p4} |->
                 CASE p = p1 -> 10 [] p = p2 -> 20 [] p = p3 -> 30 [] p = p4 -> 40]
NamedTurns == [x \in Turns |-> x]

MCInit ==
  /\ chosen \in {"lock", "shutdown", "telegram", "alerts"}
  /\ Init /\ Stop!Init /\ Telegram!Init /\ Alert!Init
  /\ chosen # "shutdown" => drain = CHOOSE d \in Drains : TRUE

MCNext ==
  /\ UNCHANGED chosen
  /\ \/ chosen = "lock" /\ Next /\ UNCHANGED <<shutdownVars, telegramVars, alertVars>>
     \/ chosen = "shutdown" /\ Stop!Next /\ UNCHANGED <<vars, telegramVars, alertVars>>
     \/ chosen = "telegram" /\ Telegram!Next /\ UNCHANGED <<vars, shutdownVars, alertVars>>
     \/ chosen = "alerts" /\ Alert!Next /\ UNCHANGED <<vars, shutdownVars, telegramVars>>

\* Each component's own fairness, when it is the one that steps.
MCFairness ==
  /\ WF_vars(Progress) /\ Stop!Fairness
  /\ WF_telegramVars(chosen = "telegram" /\ Telegram!Boot)
  /\ WF_telegramVars(chosen = "telegram" /\ Telegram!Poll)
  /\ WF_telegramVars(\E u \in Telegram!Updates :
       Telegram!Skip(u) \/ Telegram!Claim(u) \/ Telegram!Handle(u))
  /\ WF_alertVars(chosen = "alerts" /\ Alert!StartTick)
  /\ WF_alertVars(Alert!TickProgress)
  /\ \A e \in 1..Cardinality(Alerts) : WF_alertVars(e \in Alert!Ids /\ Alert!BackoffEnds(e))

MCSpec == MCInit /\ [][MCNext]_all /\ MCFairness

\* The lock alone.
LockInit == MCInit /\ chosen = "lock"
LockSpec == LockInit /\ [][MCNext]_all

-----------------------------------------------------------------------------
\* The variables of every component have their types.
TypesOK == TypeOK /\ Stop!TypeOK /\ Telegram!TypeOK /\ Alert!TypeOK

\* Shutdown: the process is gone before its supervisor kills it, and no turn is
\* cut while drain time is left.
StopsSafe == Stop!StoppedInTime /\ Stop!DrainIsKept

\* TelegramUpdates: no handler runs twice, and a press counts only for the
\* process that sent its keyboard.
UpdatesSafe == Telegram!UpdatesSafe

\* MarketAlerts: an alert fires once, and is not lost when it has.
AlertsSafe == Alert!FiresOnce

\* What must happen in the end: a dead owner's lock is reclaimed, a stop ends,
\* what arrived while the bot was down is answered, and no event of an alert
\* stays undelivered for ever.
AllGoOn ==
  /\ StaleLockReclaimed
  /\ Stop!StopEnds
  /\ Telegram!MessagesAnswered
  /\ Alert!EventsSettle
=============================================================================
