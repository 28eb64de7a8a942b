-------------------------------- MODULE MCFeed --------------------------------
(***************************************************************************)
(* Three components around the feed and the tools, which share no state:   *)
(* the first state chooses the one that steps, the others stay where they  *)
(* start.  For TLC there are                                               *)
(*   - KillFeed: three events, the last of which repeats the killmail of   *)
(*     the first;                                                          *)
(*   - ToolCalls: a batch of two tool calls, the second of which makes an  *)
(*     ESI request, beside a tool call that makes two;                     *)
(*   - EveTokens: three callers for two users who sign the same character  *)
(*     in, and two grants.                                                 *)
(***************************************************************************)
EXTENDS KillFeed

CONSTANTS
  Tools, Batches, Children, Leaves, MaxReads, MaxEsi, MaxQueued, Workers,  \* of ToolCalls
  Users, Callers, UserOf, MaxSignIns, MaxGrants, Nothing                   \* of EveTokens

VARIABLES
  chosen,
  tool, leaf, threw, identity, toolCut,
  readActive, readCall, readTicket, readDrawn, esiActive, esiCall, esiTicket, esiDrawn,
  account, signIns, owner, live, minted, inFlight, backoff,
  pc, from, attempt, reply, answer

toolVars == <<tool, leaf, threw, identity, toolCut, readActive, readCall, readTicket,
              readDrawn, esiActive, esiCall, esiTicket, esiDrawn>>
tokenVars == <<account, signIns, owner, live, minted, inFlight, backoff,
               pc, from, attempt, reply, answer>>

allVars == <<chosen, vars, toolVars, tokenVars>>

Tool == INSTANCE ToolCalls WITH cut <- toolCut
Token == INSTANCE EveTokens

\* There are finitely many calls and operations, a batch holds calls that are
\* no batches, an operation belongs to one call and none to a batch, and the
\* limits are numbers.
ASSUME ToolsAssumption ==
  /\ IsFiniteSet(Tools) /\ IsFiniteSet(Tool!Ops) /\ Batches \subseteq Tools
  /\ Children \in [Batches -> SUBSET (Tools \ Batches)]
  /\ \A t \in Batches : Leaves[t] = {}
  /\ \A t, s \in Tools : t # s => Leaves[t] \cap Leaves[s] = {}
  /\ MaxReads \in Nat \ {0} /\ MaxEsi \in Nat \ {0} /\ MaxQueued \in Nat

\* The bounds are numbers, a caller has a user, and nothing is none of the
\* values it stands for.
ASSUME TokensAssumption ==
  /\ MaxSignIns \in Nat /\ MaxGrants \in Nat /\ UserOf \in [Callers -> Users]
  /\ Nothing \notin Callers /\ Nothing \notin Token!Accounts /\ Nothing \notin Token!Grants
  /\ Nothing \notin Token!Pauses

-----------------------------------------------------------------------------
\* The constants TLC takes.
CONSTANTS k1, k2, topic, batch, e1, e2, prices, o1, o2, o3, third, u1, u2
Repeating == [s \in 1..3 |-> IF s = 2 THEN k2 ELSE k1]
OneTopic  == [s \in 1..3 |-> {topic}]
BatchChildren == [t \in {batch} |-> {e1, e2}]
ToolLeaves == [t \in {batch, e1, e2, prices} |->
                 CASE t = e2 -> {o1} [] t = prices -> {o2, o3} [] OTHER -> {}]
TwoAndOne == [c \in Callers |-> IF c = third THEN u2 ELSE u1]

MCInit ==
  /\ chosen \in {"feed", "tools", "tokens"}
  /\ Init /\ Tool!Init /\ Token!Init
  /\ chosen # "tokens" => owner = CHOOSE u \in Users : TRUE

MCNext ==
  /\ UNCHANGED chosen
  /\ \/ chosen = "feed" /\ Next /\ UNCHANGED <<toolVars, tokenVars>>
     \/ chosen = "tools" /\ Tool!Next /\ UNCHANGED <<vars, tokenVars>>
     \/ chosen = "tokens" /\ Token!Next /\ UNCHANGED <<vars, toolVars>>

\* Each component's own fairness.  But for the start of the poller, nothing
\* that is fair is enabled where a component starts.
MCFairness ==
  /\ WF_vars(chosen = "feed" /\ Start) /\ FairLoop
  /\ WF_toolVars(Tool!Progress) /\ Token!Fairness

MCSpec ==
  MCInit /\ [][MCNext]_allVars /\ MCFairness

-----------------------------------------------------------------------------
\* The variables of every component have their types.
TypesOK == TypeOK /\ Tool!TypeOK /\ Token!TypeOK

\* ToolCalls: every way out of a call gives its permit back, and a call that
\* was refused as saturated did nothing.
ToolsSafe == Tool!NoPermitLeft /\ Tool!RefusedDidNothing

\* EveTokens: the newest sign-in is kept, and a caller gets a token of its own.
TokensSafe == Token!NewestSignInKept /\ Token!OwnTokenServed

\* KillFeed: the kill index follows the server through outages, and the cursor
\* when they end.
FeedFollows == IndexFollows /\ CursorFollows

\* ToolCalls and EveTokens: every call that was started returns, and whoever
\* waits for a refresh is answered.
CallsEnd == Tool!CallsReturn /\ Token!CallsAnswered
=============================================================================
