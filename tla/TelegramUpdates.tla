-------------------------- MODULE TelegramUpdates --------------------------
(***************************************************************************)
(* Updates of the Telegram bot (telegram/bot.ts, telegram/update-dedup.ts):*)
(* long polling redelivers every update whose offset was not confirmed,    *)
(* also to the next process, so the bot skips what is old, refuses the     *)
(* buttons of an earlier process and claims each update in SQLite before   *)
(* it handles it.                                                          *)
(*                                                                         *)
(* Time is a clock with the resolution of Telegram's dates; several boots  *)
(* may happen within one tick of it.                                       *)
(***************************************************************************)
EXTENDS Integers, FiniteSets, Sequences

CONSTANTS Messages,     \* updates that are text messages
          Taps,         \* updates that are button presses
          MaxAge,       \* config.telegram.maxUpdateAgeMinutes
          Retention,    \* RETENTION_DAYS
          Redelivery,   \* how long Telegram keeps an unconfirmed update
          MaxTime,      \* bound on the clock
          MaxBoots      \* bound on the processes

Updates == Messages \cup Taps
Times == 0..MaxTime
None == 0

VARIABLES
  now,
  boot,       \* the number of the process, the one that is up or the last one
  up,         \* whether it is up
  startedAt,  \* startedAtUnixSeconds
  sent,       \* of each update: when it was sent, or -1
  keyboard,   \* of each press: date and process of the keyboard it belongs to
  pending,    \* Telegram: updates whose offset is not confirmed
  fetched,    \* updates of the last getUpdates that are not handled yet
  handled,    \* updates of it that are: the next offset confirms them
  claims,     \* telegram_processed_updates: when each update was claimed
  claimed,    \* the update that was claimed and goes on to its handler
  runs        \* of each update: the processes its handler ran in

telegram == <<sent, keyboard, pending>>
process == <<boot, up, startedAt>>
vars == <<now, process, telegram, fetched, handled, claims, claimed, runs>>

TypeOK ==
  /\ now \in Times /\ startedAt \in Times
  /\ boot \in 0..MaxBoots /\ up \in BOOLEAN
  /\ sent \in [Updates -> {-1} \cup Times]
  /\ keyboard \in [Taps -> Times \X (0..MaxBoots)]
  /\ pending \subseteq Updates /\ fetched \subseteq pending
  /\ handled \subseteq Updates
  /\ claims \in [Updates -> {-1} \cup Times]
  /\ claimed \subseteq Updates /\ Cardinality(claimed) <= 1
  /\ runs \in [Updates -> Seq(1..MaxBoots)]

Init ==
  /\ now = 0 /\ boot = 0 /\ up = FALSE /\ startedAt = 0
  /\ sent = [u \in Updates |-> -1]
  /\ keyboard = [u \in Taps |-> <<0, 0>>]
  /\ pending = {} /\ fetched = {} /\ handled = {}
  /\ claims = [u \in Updates |-> -1]
  /\ claimed = {}
  /\ runs = [u \in Updates |-> <<>>]

\* A batch is handled long before Telegram's window for its updates ends.
Tick ==
  /\ now < MaxTime /\ now' = now + 1
  /\ \A u \in fetched : now - sent[u] < Redelivery
  /\ UNCHANGED <<process, telegram, fetched, handled, claims, claimed, runs>>

-----------------------------------------------------------------------------
(* The user and Telegram.                                                  *)

Write(u) ==
  /\ u \in Messages /\ sent[u] = -1
  /\ sent' = [sent EXCEPT ![u] = now]
  /\ pending' = pending \cup {u}
  /\ UNCHANGED <<now, process, keyboard, fetched, handled, claims, claimed, runs>>

\* A keyboard some process sent, in the course of its life, is pressed.
Press(u) ==
  /\ u \in Taps /\ sent[u] = -1 /\ boot > 0
  /\ \/ \E t \in startedAt..now : keyboard' = [keyboard EXCEPT ![u] = <<t, boot>>]
     \/ \E t \in 0..startedAt, b \in 1..(boot - 1) : keyboard' = [keyboard EXCEPT ![u] = <<t, b>>]
  /\ sent' = [sent EXCEPT ![u] = now]
  /\ pending' = pending \cup {u}
  /\ UNCHANGED <<now, process, fetched, handled, claims, claimed, runs>>

\* Telegram forgets an update at the end of its window.
Kept(u) == now - sent[u] <= Redelivery

-----------------------------------------------------------------------------
(* The process.                                                            *)

\* createBot: the boot second, and one sweep of the claims.
Outdated(t) == now - t > Retention
Pruned == [u \in Updates |-> IF claims[u] >= 0 /\ Outdated(claims[u]) THEN -1 ELSE claims[u]]

Boot ==
  /\ ~up /\ boot < MaxBoots
  /\ up' = TRUE /\ boot' = boot + 1 /\ startedAt' = now
  /\ claims' = Pruned
  /\ UNCHANGED <<now, telegram, fetched, handled, claimed, runs>>

\* getUpdates confirms the last batch by its offset and fetches the next one.
Poll ==
  /\ up /\ fetched = {} /\ claimed = {}
  /\ pending' = {u \in pending \ handled : Kept(u)}
  /\ fetched' = pending'
  /\ handled' = {}
  /\ UNCHANGED <<now, process, sent, keyboard, claims, claimed, runs>>

\* isStaleTelegramUpdate: only what was sent before this process started.
StaleByAge(u) == now - sent[u] > MaxAge                            \* a bug
Stale(u) == /\ sent[u] < startedAt /\ now - sent[u] > MaxAge

\* isTelegramCallbackBacklog: equal seconds are refused.
Backlog(u) == keyboard[u][1] <= startedAt

Next1(u) == \A v \in fetched : sent[u] <= sent[v]

Skip(u) ==
  /\ up /\ claimed = {} /\ u \in fetched /\ Next1(u)
  /\ IF u \in Taps THEN Backlog(u) ELSE Stale(u)
  /\ fetched' = fetched \ {u} /\ handled' = handled \cup {u}
  /\ UNCHANGED <<now, process, telegram, claims, claimed, runs>>

\* claimTelegramUpdate: the insert is the claim; now and then it prunes.
Passes(u) == TRUE                                                  \* a bug
Unclaimed(u) == claims[u] = -1

Claim(u) ==
  /\ up /\ claimed = {} /\ u \in fetched /\ Next1(u)
  /\ ~IF u \in Taps THEN Backlog(u) ELSE Stale(u)
  /\ IF Unclaimed(u)
     THEN /\ claimed' = {u}
          /\ UNCHANGED <<fetched, handled>>
     ELSE /\ fetched' = fetched \ {u} /\ handled' = handled \cup {u}
          /\ UNCHANGED claimed
  /\ claims' \in {[c EXCEPT ![u] = IF @ = -1 THEN now ELSE @] : c \in {claims, Pruned}}
  /\ UNCHANGED <<now, process, telegram, runs>>

\* The handler runs; a text message starts its turn and does not wait for it.
Handle(u) ==
  /\ up /\ u \in claimed
  /\ runs' = [runs EXCEPT ![u] = Append(@, boot)]
  /\ claimed' = {}
  /\ fetched' = fetched \ {u} /\ handled' = handled \cup {u}
  /\ UNCHANGED <<now, process, telegram, claims>>

\* bot.stop() confirms what was handled; a crash confirms nothing.
Down(confirmed) ==
  /\ up /\ up' = FALSE
  /\ pending' = pending \ confirmed
  /\ fetched' = {} /\ handled' = {} /\ claimed' = {}
  /\ UNCHANGED <<now, boot, startedAt, sent, keyboard, claims, runs>>

Stop == claimed = {} /\ Down(handled)
Crash == Down({})

Next ==
  \/ Tick \/ Boot \/ Poll \/ Stop \/ Crash
  \/ \E u \in Updates : \/ Write(u) \/ Press(u)
                        \/ Skip(u) \/ Claim(u) \/ Handle(u)

\* The process is started again, polls, and handles what it fetched.
Fairness ==
  /\ WF_vars(Boot) /\ WF_vars(Poll)
  /\ WF_vars(\E u \in Updates : Skip(u) \/ Claim(u) \/ Handle(u))

Spec == Init /\ [][Next]_vars /\ Fairness

-----------------------------------------------------------------------------
\* "This makes handling at-most-once": whenever the process dies, however
\* often an update is redelivered and whenever claims are pruned, its handler
\* does not run again.
HandledOnce == \A u \in Updates : Len(runs[u]) <= 1

\* "A tap can only be honoured when its keyboard provably belongs to this
\* process": also when the old process sent it in the second of the restart.
TapsOfThisProcess ==
  \A u \in Taps : \A i \in DOMAIN runs[u] : runs[u][i] = keyboard[u][2]

UpdatesSafe == HandledOnce /\ TapsOfThisProcess

TooOld(u) == sent[u] < startedAt /\ now - sent[u] > MaxAge

\* "Messages that arrived while the bot was DOWN were never claimed, so they
\* still get answered": a process that stays up takes every message to its
\* handler that is not too old for it and that no earlier process died with.
MessagesAnswered ==
  \A u \in Messages :
    (up /\ u \in pending /\ Unclaimed(u) /\ ~TooOld(u) /\ Kept(u))
      ~> (Len(runs[u]) > 0 \/ ~up \/ ~Kept(u) \/ TooOld(u))
=============================================================================
