------------------------------- MODULE MCWork -------------------------------
(***************************************************************************)
(* Six components of the work behind the chats, which share no state: the  *)
(* first state chooses the one that steps, the others stay where they      *)
(* start.  For TLC there are                                               *)
(*   - AgentTurn: two turns of a conversation, three requests each;        *)
(*   - ChatTurns: a Telegram chat and a Discord chat of one user, and a    *)
(*     Discord chat of another;                                            *)
(*   - EsiClient: two calls and two characters, a book of two pages;       *)
(*   - MarketSnapshots: a region of several pages and a small one, the two *)
(*     entry points of a sweep;                                            *)
(*   - MarketHistory: one pair through two days;                           *)
(*   - Heartbeat: one row with a list and a set, two ticks, a crash.       *)
(***************************************************************************)
EXTENDS Heartbeat, Sequences, FiniteSets, TLC

CONSTANTS
  Modes, Batches, MaxTurns, MaxIterations, MaxRetries, MaxRecoveries,
  MaxNudges, MaxEmpty, Keep, Unprompted,                              \* of AgentTurn
  Chats, DiscordChats, UserOf, MaxActive, MaxPerWindow, MaxBotTurns,  \* of ChatTurns
  Calls, Chars, MaxVersion, PagesAt, MaxPages, MaxAttempts,           \* of EsiClient
  Pairs, Day, Rebuild, Buffer, Backoff, TopInterval, Grace,           \* of MarketHistory
  MaxPerTick, Concurrency, MaxTime, MaxChanges,
  Order, BookPages, MajorMinPages, MajorInterval, MinorInterval,
  StaleAfter, CacheWindow, PoolSize, MinRows, MaxRotation, MaxHour    \* of MarketSnapshots

VARIABLES
  chosen,
  mode, phase, turns, drawn, role, gone, first, anchor, big, plan, turn, batch, tried,
  twice, stale,
  started, chatOf, stage, inFlight, abort, thread, turnThread, threads, clearing,
  window, closed,
  version, effects, linked, cache, pc, op, char, cached, attempt, pages, response,
  aborted, answer,
  time, rebuilds, watched, alerted, top, row, stored, seededAt, sync, tick, changes,
  steady,
  hour, rotation, table, staging, regions, snapshotTime, sweeping, sweep, walk

turnVars == <<mode, phase, turns, drawn, role, gone, first, anchor, big, plan, turn, batch,
              tried, twice, stale>>
botVars == <<started, chatOf, stage, inFlight, abort, thread, turnThread, threads, clearing,
             window, closed>>
esiVars == <<version, effects, linked, cache, pc, op, char, cached, attempt, pages, response,
             aborted, answer>>
historyVars == <<time, rebuilds, watched, alerted, top, row, stored, seededAt, sync, tick,
                 changes, steady>>
bookVars == <<hour, rotation, table, staging, regions, snapshotTime, sweeping, sweep, walk>>
all == <<chosen, vars, turnVars, botVars, esiVars, historyVars, bookVars>>

Turn == INSTANCE AgentTurn
Book == INSTANCE MarketSnapshots WITH
  PagesAt <- BookPages, MaxVersion <- MaxRotation, MaxTime <- MaxHour,
  time <- hour, version <- rotation, state <- regions, inFlight <- sweeping
Bots == INSTANCE ChatTurns WITH MaxTurns <- MaxBotTurns
Esi == INSTANCE EsiClient WITH row <- cached
History == INSTANCE MarketHistory

\* The limits are numbers, calls have names, and Nothing is no chain of
\* responses and no anchor.
ASSUME TurnAssumption ==
  /\ MaxTurns \in Nat /\ MaxIterations \in Nat /\ MaxRetries \in Nat /\ MaxRecoveries \in Nat
  /\ MaxNudges \in Nat /\ MaxEmpty \in Nat /\ Keep \in Nat /\ Unprompted \in BOOLEAN
  /\ Batches \subseteq Seq(STRING)
  /\ Nothing \notin Turn!Chains \cup [msg : Nat, chain : Turn!Chains]

\* There are finitely many chats, and the limits are numbers.
ASSUME BotsAssumption ==
  IsFiniteSet(Chats) /\ MaxActive \in Nat /\ MaxPerWindow \in Nat /\ MaxBotTurns \in Nat

\* ESI's answers have pages, and a request is attempted at least once.
ASSUME EsiAssumption ==
  /\ MaxVersion \in Nat /\ PagesAt \in [0..MaxVersion -> Nat]
  /\ MaxPages \in Nat \ {0} /\ MaxAttempts \in Nat \ {0}

\* The times are numbers, the grace is no shorter than the time between two
\* scans of the market, and neither a time nor a row of the table is Nothing.
ASSUME HistoryAssumption ==
  /\ Day \in Nat \ {0} /\ Rebuild \in Nat \ {0} /\ Buffer \in Nat /\ Backoff \in Nat
  /\ MaxTime \in Nat /\ TopInterval \in Nat /\ Grace \in Nat /\ TopInterval <= Grace
  /\ Nothing \notin Int \cup [due : Int, ok : BOOLEAN, wanted : Int \cup {Nothing}]

\* A sweep takes every region once, a book has a number of pages, the times are
\* numbers, and Nothing is neither a number, nor the record of a region, nor a
\* sweep, nor a walk.
ASSUME BookAssumption ==
  /\ Order \in Seq(Book!Regions)
  /\ \A i, j \in 1..Len(Order) : Order[i] = Order[j] => i = j
  /\ BookPages \in [Book!Regions -> [Book!Versions -> Nat]]
  /\ MajorInterval \in Nat /\ MinorInterval \in Nat /\ StaleAfter \in Nat
  /\ CacheWindow \in Nat /\ MaxRotation \in Nat
  /\ Nothing \notin Nat \cup Book!States \cup Book!Sweeps \cup Book!Walks

-----------------------------------------------------------------------------
\* The constants TLC takes.
CONSTANT dd
AllModes == {"server", "stateless"}
TwoBatches == {<<"read">>, <<"w", "w">>}
TwoRegions == <<"r1", "r2">>
TwoBooks == [r1 |-> (0 :> 3 @@ 1 :> 2), r2 |-> (0 :> 1 @@ 1 :> 0)]
TwoUsers == [c \in Chats |-> IF c = dd THEN "v" ELSE "u"]
TwoPages == [v \in 0..MaxVersion |-> 2]

MCInit ==
  /\ chosen \in {"turn", "bots", "esi", "book", "history", "heartbeat"}
  /\ Init /\ Turn!Init /\ Bots!Init /\ Esi!Init /\ Book!Init /\ History!Init
  /\ chosen # "turn" => mode = CHOOSE m \in Modes : TRUE
  /\ chosen # "bots" => \A n \in Bots!Turns : chatOf[n] = dd
  /\ chosen # "esi" => \A c \in Calls : op[c] = "post"
  /\ chosen # "esi" => linked = CHOOSE k \in Chars : TRUE

MCNext ==
  /\ UNCHANGED chosen
  /\ \/ /\ chosen = "turn" /\ Turn!Next
        /\ UNCHANGED <<vars, botVars, esiVars, historyVars, bookVars>>
     \/ /\ chosen = "bots" /\ Bots!Next
        /\ UNCHANGED <<vars, turnVars, esiVars, historyVars, bookVars>>
     \/ /\ chosen = "esi" /\ Esi!Next
        /\ UNCHANGED <<vars, turnVars, botVars, historyVars, bookVars>>
     \/ /\ chosen = "book" /\ Book!Next
        /\ UNCHANGED <<vars, turnVars, botVars, esiVars, historyVars>>
     \/ /\ chosen = "history" /\ History!Next
        /\ UNCHANGED <<vars, turnVars, botVars, esiVars, bookVars>>
     \/ /\ chosen = "heartbeat" /\ Next
        /\ UNCHANGED <<turnVars, botVars, esiVars, historyVars, bookVars>>

MCSpec == MCInit /\ [][MCNext]_all

-----------------------------------------------------------------------------
\* The variables of every component have their types.
TypesOK ==
  /\ chosen = "turn" => Turn!TypeOK
  /\ chosen = "bots" => Bots!TypeOK
  /\ chosen = "esi" => Esi!TypeOK
  /\ chosen = "book" => Book!TypeOK
  /\ chosen = "history" => History!TypeOK
  /\ TypeOK

\* AgentTurn: the model sees the whole conversation, no side effect happens
\* twice in a turn, no plan stays open, and every step brings a turn nearer to
\* its end.
TurnsSafe ==
  /\ [](chosen = "turn" => Turn!TurnsSafe)
  /\ [][chosen = "turn" => Turn!TurnsRunOut]_all

\* executor.ts:2631: a side effect that was refused because the tools are
\* saturated never ran, "and the model can retry": the same call, made again
\* in the turn, is not answered from memory.
RefusedMayRetry == chosen = "turn" => Turn!RefusedMayRetry

\* ChatTurns: one turn per chat and per user, and no thread is replaced under
\* a turn of Telegram.
BotTurnsSafe == chosen = "bots" => Bots!BotTurnsSafe

\* EsiClient: an answer is one snapshot of the caller's own data, and a write
\* is sent once.
EsiAnswersSound == chosen = "esi" => Esi!EsiAnswersSound

\* MarketSnapshots: a region's orders are of one rotation, and no older than
\* the answers say; a sweep that fails or skips a region keeps its orders.
BookSound ==
  /\ [](chosen = "book" => Book!BookSound)
  /\ [][chosen = "book" => Book!KeepsRegions]_all

\* MarketHistory: no day is missed for good, and a wanted pair is not pruned.
HistorySound == chosen = "history" => History!HistorySound
=============================================================================
