------------------------------ MODULE Shutdown ------------------------------
(***************************************************************************)
(* The orderly stop of the service: shutdown() of app.ts with its helpers  *)
(* in app-shutdown.ts.  Ingress closes at once, then eight awaits follow   *)
(* one another, each bounded by a timer: most by the deadline of the whole *)
(* stop, the market sweep by a budget of its own.  Agent turns run on all  *)
(* the while; what still runs when the process exits is cut.               *)
(*                                                                         *)
(* Time passes in units and never beyond a timer that is due: callbacks    *)
(* are short, and the event loop is not blocked.                           *)
(***************************************************************************)
EXTENDS Integers, Sequences

CONSTANTS Turns,
          IngressOf,    \* the ingress of a turn: "telegram", "discord", "web"
          Drains,       \* values of config.shutdown.drainMs, 0 disables it
          PollEvery,    \* config.shutdown.drainPollMs
          SweepBudget,  \* MARKET_SWEEP_STOP_BUDGET_MS
          Headroom,     \* deploy/systemd: TimeoutStopSec above the drain
          MaxTime       \* bound on the time at which a stop is asked for

Ladder == <<"telegram", "feed", "history", "alerts", "drain", "sweep",
            "discord", "server">>
Serving == 0
Exited  == Len(Ladder) + 1
Workers == {"telegram", "feed", "history", "alerts", "sweep", "discord", "server"}

VARIABLES
  now,      \* the clock
  drain,    \* config.shutdown.drainMs
  step,     \* the await the stop is in
  begun,    \* when shutdown() was entered
  due,      \* the timer of that await
  busy,     \* workers whose stop would have to wait for work in flight
  turn,     \* of each turn: not yet there, running, answered, or cut
  batch,    \* Telegram updates fetched but not yet handled
  drained,  \* turns begun after the drain was over
  early     \* turns cut although the drain time was not over

vars == <<now, drain, step, begun, due, busy, turn, batch, drained, early>>

Stopping == step \notin {Serving, Exited}
At(s) == Stopping /\ Ladder[step] = s
Deadline == begun + drain
Running == {t \in Turns : turn[t] = "running"}

TypeOK ==
  /\ drain \in Drains /\ step \in Serving..Exited
  /\ now \in Nat /\ begun \in Nat /\ due \in Nat
  /\ busy \subseteq Workers
  /\ turn \in [Turns -> {"none", "running", "answered", "cut"}]
  /\ batch \subseteq Turns /\ drained \subseteq Turns /\ early \subseteq Turns

Init ==
  /\ now = 0 /\ drain \in Drains /\ step = Serving
  /\ begun = 0 /\ due = 0 /\ busy = {}
  /\ turn = [t \in Turns |-> "none"] /\ batch = {}
  /\ drained = {} /\ early = {}

-----------------------------------------------------------------------------
(* The turns and the workers.                                              *)

Starts(t) ==
  /\ turn[t] = "none"
  /\ turn' = [turn EXCEPT ![t] = "running"]
  /\ drained' = IF step > 5 THEN drained \cup {t} ELSE drained
  /\ UNCHANGED <<now, drain, step, begun, due, busy, early>>

\* stopDiscordIngress, stopWebAgentIngress: closed with the first step.
IngressOpen == step = Serving

Message(t) ==
  /\ IngressOf[t] # "telegram" /\ IngressOpen /\ Starts(t) /\ UNCHANGED batch

\* grammY fetches updates in batches, and not after stop() was called.
Fetch(t) ==
  /\ IngressOf[t] = "telegram" /\ step = Serving /\ turn[t] = "none"
  /\ t \notin batch /\ batch' = batch \cup {t}
  /\ UNCHANGED <<now, drain, step, begun, due, busy, turn, drained, early>>

\* The rest of a batch is handled whether or not the bot was stopped.
Update(t) ==
  /\ step # Exited /\ t \in batch /\ batch' = batch \ {t} /\ Starts(t)

Answer(t) ==
  /\ step # Exited /\ turn[t] = "running"
  /\ turn' = [turn EXCEPT ![t] = "answered"]
  /\ UNCHANGED <<now, drain, step, begun, due, busy, batch, drained, early>>

\* A poll, a tick, a sweep, a socket: the stop of w would have to wait for it.
WorkBegins(w) ==
  /\ w \notin busy
  /\ \A i \in 1..step : i \in DOMAIN Ladder => Ladder[i] # w
  /\ busy' = busy \cup {w}
  /\ UNCHANGED <<now, drain, step, begun, due, turn, batch, drained, early>>

WorkEnds(w) ==
  /\ step # Exited /\ w \in busy /\ busy' = busy \ {w}
  /\ UNCHANGED <<now, drain, step, begun, due, turn, batch, drained, early>>

-----------------------------------------------------------------------------
(* The stop.                                                               *)

Earlier(a, b) == IF a < b THEN a ELSE b
Later(a, b) == IF a > b THEN a ELSE b

\* The turns shutdown() counts: activeRequestCount() + activeWebAgentRequestCount().
ChatOnly == {t \in Running : IngressOf[t] # "web"}
Counted == Running

\* withDeadline, waitForInFlightRequests: the timer of the await at a step,
\* set when the step is entered.
OwnTimer(s, deadline) == now + (IF s = "sweep" THEN SweepBudget ELSE drain)
Timer(s, deadline) ==
  CASE s = "sweep" -> now + SweepBudget
    [] s = "drain" -> now
    [] OTHER -> Later(now, deadline)

\* server.close() aborts the web turns that outlived the drain, and the exit
\* ends the others; early: some of the drain time was left to them.
Cuts(T) ==
  /\ turn' = [t \in Turns |-> IF t \in T THEN "cut" ELSE turn[t]]
  /\ early' = IF now < Deadline THEN early \cup T ELSE early

Enter(i) ==
  /\ step' = i
  /\ due' = IF i = Exited THEN due ELSE Timer(Ladder[i], Deadline)
  /\ CASE i = Exited -> Cuts(Running)
       [] i < Exited /\ Ladder[i] = "server" ->
            Cuts({t \in Running : IngressOf[t] = "web"})
       [] OTHER -> UNCHANGED <<turn, early>>

\* SIGTERM, SIGINT, an uncaught exception; only the first has an effect.
StopAgain == step # Exited
MayStop == step = Serving

Stop ==
  /\ MayStop /\ now <= MaxTime
  /\ begun' = now /\ step' = 1 /\ due' = now + drain
  /\ UNCHANGED <<now, drain, busy, turn, batch, drained, early>>

\* The awaited promise settled, or the timer of the await fired.
Settled(s) == s \notin busy
NextStep ==
  /\ Stopping /\ Ladder[step] # "drain"
  /\ Settled(Ladder[step]) \/ now >= due
  /\ IF Ladder[step] = "alerts" /\ drain = 0 THEN Enter(step + 2) ELSE Enter(step + 1)
  /\ UNCHANGED <<now, drain, begun, busy, batch, drained>>

\* waitForInFlightRequests looks at its counters on entry and at every poll.
DrainOver ==
  /\ At("drain") /\ now >= due
  /\ Counted = {} \/ now >= Deadline
  /\ Enter(step + 1)
  /\ UNCHANGED <<now, drain, begun, busy, batch, drained>>

DrainPoll ==
  /\ At("drain") /\ now >= due /\ Counted # {} /\ now < Deadline
  /\ due' = Earlier(now + PollEvery, Deadline)
  /\ UNCHANGED <<now, drain, step, begun, busy, turn, batch, drained, early>>

Tick ==
  /\ IF step = Serving THEN now < MaxTime ELSE Stopping /\ now < due
  /\ now' = now + 1
  /\ UNCHANGED <<drain, step, begun, due, busy, turn, batch, drained, early>>

Next ==
  \/ \E t \in Turns : Message(t) \/ Fetch(t) \/ Update(t) \/ Answer(t)
  \/ \E w \in Workers : WorkBegins(w) \/ WorkEnds(w)
  \/ Stop \/ NextStep \/ DrainOver \/ DrainPoll \/ Tick

\* Timers fire and promise reactions run.
Fairness == WF_vars(NextStep \/ DrainOver \/ DrainPoll \/ (Stopping /\ Tick))

Spec == Init /\ [][Next]_vars /\ Fairness

-----------------------------------------------------------------------------
(* However many turns, polls and ticks hang, and whichever of them hangs   *)
(* where: the process is gone before the supervisor loses patience, so     *)
(* that it is never killed in the middle of its stop.                      *)
StoppedInTime ==
  step # Serving => now < Deadline + Headroom

(* With a drain, no turn of a conversation is cut while drain time is left *)
(* to it; the one exception is the known one, a Telegram update of the     *)
(* batch in hand whose turn begins after the drain saw no turn.            *)
DrainIsKept ==
  \A t \in early : IngressOf[t] = "telegram" /\ t \in drained

(* A stop that begins ends, even if nothing it waits for ever settles.     *)
StopEnds == (step = 1) ~> (step = Exited)

(* app.ts:176-178, 250-251: the whole stop stays inside SHUTDOWN_DRAIN_MS. *)
StopInsideDrain == step # Serving => now <= Deadline
=============================================================================
