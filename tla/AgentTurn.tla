----------------------------- MODULE AgentTurn -----------------------------
(***************************************************************************)
(* The turns of one conversation: handleAgentMessage, runNativeAgentLoop   *)
(* and their helpers in agent/executor.ts, with the compaction of          *)
(* agent/compact.ts and the plans of agent/planner.ts.                     *)
(*                                                                         *)
(* A turn asks the model again and again, runs the tools it calls and      *)
(* feeds the outputs back, until the model answers.  What the model sees   *)
(* of the conversation is the point: in server mode the provider keeps the *)
(* chain of earlier responses, in stateless mode every request carries it; *)
(* the chain may be lost, the history compacted, a request retried.        *)
(*                                                                         *)
(* A view is a set of items: messages <<"msg", id>>, calls <<"call", c>>   *)
(* and outputs <<"out", c>>.  A chain has the view it stands for.          *)
(* The window of a cold context (MAX_CONTEXT_MESSAGES) is never full, and  *)
(* a completed response of server mode has an id.                          *)
(***************************************************************************)
EXTENDS Integers, FiniteSets, Sequences

CONSTANTS Modes,          \* config.openai.responseStateMode: "server", "stateless"
          Batches,        \* the sequences of calls a response may have
          MaxTurns,       \* bound: turns of the conversation
          MaxIterations,  \* config.openai.maxToolIterations
          MaxRetries,     \* config.openai.maxTransientRetries
          MaxRecoveries,  \* MAX_TOOL_STATE_RECOVERIES
          MaxNudges,      \* completion nudges of a turn
          MaxEmpty,       \* retries of an empty response
          Keep,           \* compaction: messages the keep window holds
          Unprompted,     \* whether the map writes while a turn runs
          Nothing

Read == "read"   \* a call without a side effect; any other call is one

VARIABLES
  mode, phase, turns,
  drawn,    \* message ids drawn (AUTOINCREMENT)
  role,     \* of each message of the table, its role
  gone,     \* messages the summary of the thread stands for
  first,    \* the user's message of the turn
  anchor,   \* last_response_id and last_response_message_id, or Nothing
  big,      \* whether total_tokens reached the limit
  plan,     \* status of the turn's plan: "none", "active", "closed"
  turn,     \* the variables of runNativeAgentLoop
  batch,    \* the calls of a response, the one it is at, whether that one runs
  tried,    \* side effects executed in this turn
  twice,    \* side effects executed twice in it
  stale

table   == <<drawn, role, gone>>
effects == <<tried, twice, stale>>
vars == <<mode, phase, turns, table, first, anchor, big, plan, turn, batch, effects>>

Messages == DOMAIN role
OfRole(r) == {i \in Messages : role[i] = r}
Spoken == OfRole("user") \cup OfRole("assistant")
Newest(S) == CHOOSE x \in S \cup {0} : \A y \in S : y <= x
Msgs(S) == {<<"msg", i>> : i \in S}
Chain(V) == [view |-> V]
PairsOf(S) == {<<"call", c>> : c \in S} \cup {<<"out", c>> : c \in S}

NoTurn == [prev |-> Nothing, items |-> {}, recovery |-> {}, prompt |-> {},
           iter |-> 0, retries |-> 0, recoveries |-> 0, nudges |-> 0, empties |-> 0,
           compacted |-> FALSE, made |-> {}, found |-> {}, omitted |-> {}, results |-> {}]
NoBatch == [calls |-> <<>>, at |-> 1, out |-> FALSE]

Init ==
  /\ mode \in Modes /\ phase = "idle" /\ turns = 0
  /\ drawn = 0 /\ role = <<>> /\ gone = {} /\ first = 0
  /\ anchor = Nothing /\ big = FALSE /\ plan = "none"
  /\ turn = NoTurn /\ batch = NoBatch
  /\ tried = {} /\ twice = {} /\ stale = {}

TypeOK ==
  /\ mode \in Modes /\ turns \in 0..MaxTurns
  /\ phase \in {"idle", "preflight", "shrink", "plan", "ready", "model", "tools", "compact"}
  /\ drawn \in Nat /\ first \in 0..drawn
  /\ Messages \subseteq 1..drawn /\ gone \subseteq 1..drawn \ Messages
  /\ anchor = Nothing \/ anchor.msg \in 1..drawn
  /\ big \in BOOLEAN /\ plan \in {"none", "active", "closed"}
  /\ turn.iter \in 0..MaxIterations /\ turn.retries \in 0..MaxRetries
  /\ turn.recoveries \in 0..MaxRecoveries
  /\ batch.at \in 1..Len(batch.calls) + 1

-----------------------------------------------------------------------------
(* The table of messages, and what happens around a turn.                  *)

With(n, r) == [i \in Messages \cup (drawn + 1)..(drawn + n) |-> IF i > drawn THEN r ELSE role[i]]
Only(S) == [i \in S |-> role[i]]
Add(n, r) == drawn' = drawn + n /\ role' = With(n, r) /\ UNCHANGED gone

\* runAgentTurn stores the user's message and calls handleAgentMessage.
Start ==
  /\ phase = "idle" /\ turns < MaxTurns
  /\ turns' = turns + 1 /\ phase' = "preflight"
  /\ Add(1, "user") /\ first' = drawn + 1
  /\ plan' = "none" /\ tried' = {} /\ twice' = {} /\ stale' = {}
  /\ UNCHANGED <<mode, anchor, big, turn, batch>>

\* appendAdvisory: the map writes into its conversation unasked.
Advise ==
  /\ turns \in 1..MaxTurns - 1
  /\ phase = "idle" \/ Unprompted
  /\ Cardinality(Spoken) <= 2 * turns
  /\ Add(1, "assistant")
  /\ UNCHANGED <<mode, phase, turns, first, anchor, big, plan, turn, batch, effects>>

\* finalizePlanFailure, finalizePlanCompletion.
PlanClosed == IF plan = "active" THEN "closed" ELSE plan
Over ==
  /\ phase' = "idle" /\ plan' = PlanClosed
  /\ turn' = NoTurn /\ batch' = NoBatch
  /\ UNCHANGED <<mode, turns, first, effects>>

\* storeAssistantMessage: the answer, and the response that it anchors.
Says(chain) ==
  /\ Add(1, "assistant")
  /\ anchor' = IF chain = Nothing THEN Nothing
               ELSE [msg |-> drawn + 1,
                     chain |-> Chain({x \in chain.view : x[1] = "msg"} \cup Msgs({drawn + 1}))]

\* terminalFailure, deadlineFailure, identityChangedFailure.
Fails == Over /\ Says(Nothing) /\ big' \in BOOLEAN

\* A provider failure that is thrown: no answer is stored.
Throws == Over /\ anchor' = Nothing /\ UNCHANGED <<table, big>>

\* abortTurn; finish() of the web and the command line then delete the rows
\* of the turn.
Abandons(a) ==
  /\ Over /\ anchor' = a /\ role' = Only({i \in Messages : i < first})
  /\ UNCHANGED <<drawn, gone, big>>

\* A cancel wins over an answer that is stored already: finish() deletes both.
Withdraw ==
  /\ phase = "idle" /\ first \in Messages /\ turns < MaxTurns
  /\ role' = Only({i \in Messages : i < first})
  /\ UNCHANGED <<mode, phase, turns, drawn, gone, first, anchor, big, plan, turn, batch,
                 effects>>

\* recoverInterruptedPlans closes the plan when the process starts again.
Crash == phase # "idle" /\ Over /\ UNCHANGED <<table, anchor, big>>

-----------------------------------------------------------------------------
(* Before the loop.                                                        *)

\* The awaits of handleAgentMessage, and the checks after each of them.
Preflight ==
  /\ phase = "preflight"
  /\ \/ Over /\ UNCHANGED <<table, anchor, big>>   \* the deadline
     \/ Fails                                        \* another active character
     \/ Abandons(anchor)                             \* an abort
     \/ /\ phase' = "shrink"
        /\ UNCHANGED <<mode, turns, table, first, anchor, big, plan, turn, batch, effects>>

\* tryHandleStaticAggregateFastPath answers without the model.
FastPath == phase = "preflight" /\ Fails

\* compactThread: the newest Keep messages stay, older ones are summarised up
\* to some message, and everything up to that one is deleted.
Kept == {i \in Spoken : Cardinality({j \in Spoken : j >= i}) <= Keep}
Older == Spoken \ Kept
Fresh(i) == role[i] # "tool" \/ \E k \in Kept : k <= i
Summarised(last) ==
  /\ gone' = gone \cup {i \in Spoken : i <= last}
  /\ role' = Only({i \in Messages : i > last /\ Fresh(i)})
  /\ anchor' = Nothing /\ big' = FALSE

\* A turn that is aborted or out of time rewrites nothing; the summariser may
\* fail three times, or have nothing to say.
Compacts ==
  /\ \/ /\ Cardinality(Spoken) > 2
        /\ \E last \in Older : Summarised(last)
     \/ /\ Cardinality(Spoken) > 2 /\ Older = {}
        /\ role' = Only({i \in Messages : Fresh(i)}) /\ big' = FALSE
        /\ UNCHANGED <<gone, anchor>>
     \/ UNCHANGED <<role, gone, anchor, big>>
  /\ UNCHANGED drawn

\* runPreTurnCompactSafe.
Shrink ==
  /\ phase = "shrink"
  /\ IF big THEN Compacts ELSE UNCHANGED <<table, anchor, big>>
  /\ \/ Over
     \/ phase' = "plan" /\ UNCHANGED <<mode, turns, first, plan, turn, batch, effects>>

\* planConversationContinuation: the chain goes on only from the answer that
\* the one new message follows.
After(i) == {j \in Messages : j > i}
LatestAnchor == anchor # Nothing /\ Newest(OfRole("assistant")) = anchor.msg
Warm ==
  /\ LatestAnchor
  /\ Cardinality(After(anchor.msg)) = 1 /\ After(anchor.msg) \subseteq OfRole("user")

\* The prompt and the first items of the loop; recent: the anchor is young.
Begin ==
  /\ phase = "plan" /\ phase' = "ready"
  /\ \E recent \in BOOLEAN :
       LET warm == Warm /\ recent IN
       /\ turn' = [NoTurn EXCEPT
            !.prompt = gone,
            !.prev = IF warm THEN anchor.chain ELSE Nothing,
            !.items = IF warm THEN Msgs({Newest(OfRole("user"))}) ELSE Msgs(Spoken),
            !.recovery = IF mode = "server" THEN Msgs(Spoken) ELSE {}]
       /\ anchor' = IF warm THEN anchor ELSE Nothing
  /\ UNCHANGED <<mode, turns, table, first, big, plan, batch, effects>>

-----------------------------------------------------------------------------
(* The loop: a request and its response.                                   *)

View == (IF turn.prev = Nothing THEN {} ELSE turn.prev.view) \cup turn.items

\* The deadline, another active character, an abort: each may come at any
\* time, and is seen by the next check of the turn: at the top of the loop,
\* after the response, before and between tools.
Interrupted == Fails \/ Abandons(Nothing)

Send ==
  /\ phase = "ready"
  /\ \/ Interrupted
     \/ turn.iter = MaxIterations /\ Fails
     \/ /\ turn.iter < MaxIterations /\ phase' = "model"
        /\ UNCHANGED <<mode, turns, table, first, anchor, big, plan, turn, batch, effects>>

Again(t) ==
  /\ phase' = "ready" /\ turn' = t
  /\ UNCHANGED <<mode, turns, table, first, big, plan, batch, effects>>

Interrupt == phase = "model" /\ Interrupted

\* A transient failure before any useful delta: the same request again.
AlwaysRetry == TRUE                                                  \* a bug
MayRetry == turn.retries < MaxRetries
Retry ==
  /\ phase = "model" /\ MayRetry
  /\ Again([turn EXCEPT !.retries = @ + 1])
  /\ UNCHANGED anchor

\* The provider lost the chain: cold, from the items of this turn.
FromItems == turn.items                                             \* a bug
Recovered == IF turn.recovery # {} THEN turn.recovery ELSE Msgs(Spoken)
Recover ==
  /\ phase = "model" /\ turn.prev # Nothing /\ turn.recoveries < MaxRecoveries
  /\ Again([turn EXCEPT !.recoveries = @ + 1, !.iter = @ + 1, !.prev = Nothing,
                        !.items = Recovered, !.recovery = Recovered])
  /\ anchor' = Nothing

\* Any other failure ends the turn; thrown, or reported in the response.
GiveUp ==
  /\ phase = "model"
  /\ Throws \/ Fails

\* A response without text: stateless goes on with what there is, the chain
\* is asked again a few times.
Empty ==
  /\ phase = "model"
  /\ \/ Fails
     \/ /\ mode = "stateless"
        /\ Again([turn EXCEPT !.iter = @ + 1]) /\ UNCHANGED anchor
     \/ /\ mode = "server" /\ turn.empties < MaxEmpty
        /\ Again([turn EXCEPT !.iter = @ + 1, !.empties = @ + 1, !.prev = Chain(View), !.items = {}])
        /\ UNCHANGED anchor

\* A text while an outcome the user asked for is still open.
Nudge ==
  /\ phase = "model" /\ turn.nudges < MaxNudges
  /\ Again(IF mode = "server"
             THEN [turn EXCEPT !.iter = @ + 1, !.nudges = @ + 1, !.prev = Chain(View), !.items = {}]
             ELSE [turn EXCEPT !.iter = @ + 1, !.nudges = @ + 1])
  /\ UNCHANGED anchor

Answer ==
  /\ phase = "model"
  /\ Over /\ Says(IF mode = "server" THEN Chain(View) ELSE Nothing)
  /\ big' \in BOOLEAN

\* The outputs of the calls C are sent with the next request: appended to the
\* chain, or to everything sent so far.
Fed(t, C) ==
  IF mode = "server"
    THEN [t EXCEPT !.prev = Chain(View \cup {<<"call", c>> : c \in C}),
                   !.items = {<<"out", c>> : c \in C},
                   !.recovery = @ \cup PairsOf(C)]
    ELSE [t EXCEPT !.items = @ \cup PairsOf(C)]

\* Calls are numbered in the order in which their outputs come.
NewCalls(n) == {Cardinality(turn.made \cup turn.found) + k : k \in 1..n}

\* A search for tools is answered at once, within the budgets of the turn.
Search ==
  /\ phase = "model"
  /\ \/ Fails
     \/ /\ Again([Fed(turn, NewCalls(1)) EXCEPT !.iter = @ + 1, !.found = @ \cup NewCalls(1)])
        /\ UNCHANGED anchor

\* Calls; a long context is compacted first, once in a turn, and the calls
\* are dropped with the response.
Call ==
  /\ phase = "model"
  /\ \E calls \in Batches, long \in BOOLEAN :
       /\ batch' = [NoBatch EXCEPT !.calls = calls]
       /\ phase' = IF long /\ turn.iter > 0 /\ ~turn.compacted THEN "compact" ELSE "tools"
  /\ UNCHANGED <<mode, turns, table, first, anchor, big, plan, turn, effects>>

\* runMidTurnCompact; the newest outputs of the turn are replayed within a
\* budget, the searches always.
OldPrompt == turn.prompt                                             \* a bug
NewPrompt == gone'
Compact ==
  /\ phase = "compact"
  /\ \/ Interrupted
     \/ /\ Compacts
        /\ \E k \in {0} \cup turn.made :
             LET replayed == {c \in turn.made : c > k}
                 items == Msgs({i \in DOMAIN role' : role'[i] # "tool"})
                            \cup PairsOf(replayed \cup turn.found)
             IN turn' = [turn EXCEPT
                  !.compacted = TRUE, !.iter = @ + 1, !.prompt = NewPrompt,
                  !.prev = Nothing, !.items = items,
                  !.recovery = IF mode = "server" THEN items ELSE {},
                  !.omitted = turn.made \ replayed]
        /\ phase' = "ready" /\ batch' = NoBatch
        /\ UNCHANGED <<mode, turns, first, plan, effects>>
     \/ /\ phase' = "tools"   \* the summariser failed
        /\ turn' = [turn EXCEPT !.compacted = TRUE]
        /\ UNCHANGED <<mode, turns, table, first, anchor, big, plan, batch, effects>>

-----------------------------------------------------------------------------
(* The loop: the tools of a response.                                      *)

Calling == phase = "tools" /\ batch.at <= Len(batch.calls)
At == batch.calls[batch.at]

\* runOne looks at the deadline and at the abort; a tool that runs is told.
ToolInterrupted ==
  /\ phase = "tools" /\ Interrupted

Next1(out) == batch' = [batch EXCEPT !.at = IF out THEN @ ELSE @ + 1, !.out = out]
Same == UNCHANGED <<mode, phase, turns, table, first, anchor, big>>

\* completedSideEffectResults: the result of this very call in this turn.
NoMemory == {}                                                       \* a bug
Remembered == turn.results

Reuse ==
  /\ Calling /\ ~batch.out /\ At # Read /\ At \in Remembered
  /\ Next1(FALSE)
  /\ stale' = IF At \in tried THEN stale ELSE stale \cup {At}
  /\ UNCHANGED <<turn, plan, tried, twice>> /\ Same

\* Admission refuses a call that was never executed; its result is kept as
\* any other.
Refused ==
  /\ Calling /\ ~batch.out /\ (At = Read \/ At \notin Remembered)
  /\ Next1(FALSE)
  /\ turn' = [turn EXCEPT !.results = IF At = Read THEN @ ELSE @ \cup {At}]
  /\ UNCHANGED <<plan, effects>> /\ Same

Dispatch ==
  /\ Calling /\ ~batch.out /\ (At = Read \/ At \notin Remembered)
  /\ Next1(TRUE)
  /\ tried' = IF At = Read THEN tried ELSE tried \cup {At}
  /\ twice' = IF At \in tried THEN twice \cup {At} ELSE twice
  /\ UNCHANGED <<turn, plan, stale>> /\ Same

\* The tool returns, or threw something that is not an interruption; it may
\* have been update_plan.
Return ==
  /\ Calling /\ batch.out
  /\ Next1(FALSE)
  /\ turn' = [turn EXCEPT !.results = IF At = Read THEN @ ELSE @ \cup {At}]
  /\ plan' \in {plan, "active"}
  /\ UNCHANGED effects /\ Same

\* All results are there: a tool row each, and the next request.
Collect ==
  /\ phase = "tools" /\ batch.at > Len(batch.calls)
  /\ LET C == NewCalls(Len(batch.calls)) IN
     /\ Add(Len(batch.calls), "tool")
     /\ turn' = [Fed(turn, C) EXCEPT !.iter = @ + 1, !.empties = 0, !.made = @ \cup C]
  /\ phase' = "ready" /\ batch' = NoBatch
  /\ UNCHANGED <<mode, turns, first, anchor, big, plan, effects>>

\* tryBuildDeterministicCountAnswer.
Counted ==
  /\ phase = "tools" /\ batch.calls = <<Read>> /\ batch.at = 2
  /\ Fails

Step ==
  \/ Preflight \/ FastPath \/ Shrink \/ Begin
  \/ Send \/ Interrupt \/ Retry \/ Recover \/ GiveUp
  \/ Empty \/ Nudge \/ Answer \/ Search \/ Call \/ Compact
  \/ ToolInterrupted \/ Reuse \/ Refused \/ Dispatch \/ Return \/ Collect \/ Counted

Next == Start \/ Advise \/ Withdraw \/ Crash \/ Step

Spec == Init /\ [][Next]_vars

-----------------------------------------------------------------------------
(* Whatever was lost, compacted, retried, cancelled or cut by a crash: the *)
(* model sees every message the conversation had when the turn began, or   *)
(* the summary that stands for it, and every output of the turn that the   *)
(* compaction did not tell it it dropped.                                  *)
NothingForgotten ==
  phase = "model" =>
    /\ \A i \in Spoken : i <= first => <<"msg", i>> \in View
    /\ gone \subseteq turn.prompt
    /\ PairsOf((turn.made \cup turn.found) \ turn.omitted) \subseteq View

(* An output is never sent without its call, nor a call without its output *)
(* (the provider would refuse the request).                                *)
CallsArePaired ==
  phase = "model" => \A c \in 1..Cardinality(turn.made \cup turn.found) :
                        (<<"call", c>> \in View) <=> (<<"out", c>> \in View)

(* A side effect the model asks for twice in a turn happens once.          *)
EffectsHappenOnce == twice = {}

(* No plan stays active after its turn, however the turn ended.            *)
PlansAreClosed == phase = "idle" => plan # "active"

TurnsSafe == NothingForgotten /\ CallsArePaired /\ EffectsHappenOnce /\ PlansAreClosed

(* A turn ends: whatever the provider answers, every step uses up retries, *)
(* iterations, phases of an iteration or calls of a batch, in that order.   *)
Rank == [preflight |-> 7, shrink |-> 6, plan |-> 5, ready |-> 4, model |-> 3,
         compact |-> 2, tools |-> 1, idle |-> 0]
Left      == (MaxIterations - turn.iter) + (MaxRetries - turn.retries)
CallsLeft == 2 * (Len(batch.calls) - batch.at) + (IF batch.out THEN 0 ELSE 1)
TurnsRunOut ==
  \/ phase = "idle" \/ phase' = "idle" \/ UNCHANGED <<phase, turn, batch>>
  \/ Left' < Left
  \/ Left' = Left /\ Rank[phase'] < Rank[phase]
  \/ Left' = Left /\ phase' = phase /\ CallsLeft' < CallsLeft

(* executor.ts:2631: a call refused because the tools are saturated never  *)
(* ran, "and the model can retry": the retry is not answered from memory.  *)
RefusedMayRetry == stale = {}

-----------------------------------------------------------------------------
(* What every step keeps.                                                  *)

Items == {"msg", "call", "out"} \X Nat
Roles == {"user", "assistant", "tool"}
Chains == [view : SUBSET Items]
Turns == [prev : Chains \cup {Nothing}, items : SUBSET Items, recovery : SUBSET Items,
          prompt : SUBSET Nat, iter : 0..MaxIterations, retries : 0..MaxRetries,
          recoveries : 0..MaxRecoveries, nudges : 0..MaxNudges, empties : 0..MaxEmpty,
          compacted : BOOLEAN, made : SUBSET Nat, found : SUBSET Nat, omitted : SUBSET Nat,
          results : SUBSET STRING]
Anchors == [msg : Nat, chain : [view : SUBSET ({"msg"} \X Nat)]]
Responses == [calls : Seq(STRING), at : Nat, out : BOOLEAN]
Typed ==
  /\ TypeOK /\ role \in [Messages -> Roles] /\ turn \in Turns /\ batch \in Responses
  /\ anchor = Nothing \/ anchor \in Anchors

\* The loop has a turn, an iteration is left for the response in work, and a
\* call runs only among the calls of a response.
Looping == phase \in {"ready", "model", "tools", "compact"}
InOrder ==
  /\ ~Looping => turn = NoTurn
  /\ phase \in {"model", "tools", "compact"} => turn.iter < MaxIterations
  /\ phase \notin {"tools", "compact"} => batch = NoBatch
  /\ batch.out => (phase = "tools" /\ batch.at <= Len(batch.calls))

\* What was executed in the turn is remembered, or runs.
Remembers ==
  /\ twice = {} /\ Read \notin tried
  /\ phase \in {"preflight", "shrink", "plan"} => tried = {}
  /\ Looping => \A c \in tried : c \in turn.results \/ (batch.out /\ c = At)

\* Only the user's message and what came before is spoken while a turn runs;
\* the chain of an anchor has all that was spoken up to it.
Anchored ==
  ~Unprompted =>
    /\ phase # "idle" => \A i \in Spoken : i <= first
    /\ anchor # Nothing =>
         \A i \in Spoken : i <= anchor.msg => <<"msg", i>> \in anchor.chain.view

\* The conversation and the outputs of the turn, in V.
Paired(V) ==
  \A x \in V : /\ x[1] = "call" => <<"out", x[2]>> \in V
               /\ x[1] = "out" => <<"call", x[2]>> \in V
Complete(V) ==
  /\ ~Unprompted => \A i \in Spoken : i <= first => <<"msg", i>> \in V
  /\ PairsOf((turn.made \cup turn.found) \ turn.omitted) \subseteq V

\* What the next request shows, and what a recovery would, is complete; the
\* provider keeps a chain in server mode only.
Shown ==
  /\ mode # "server" => (anchor = Nothing /\ turn.prev = Nothing)
  /\ Looping => /\ IsFiniteSet(turn.made \cup turn.found)
                /\ Paired(View) /\ Paired(turn.recovery) /\ gone \subseteq turn.prompt
                /\ Complete(View) /\ (mode = "server" => Complete(turn.recovery))

IInv == Typed /\ InOrder /\ Remembers /\ PlansAreClosed /\ Anchored /\ Shown
=============================================================================
