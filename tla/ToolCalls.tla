----------------------------- MODULE ToolCalls -----------------------------
(***************************************************************************)
(* Read tool calls of one agent turn (agent/executor.ts): executeToolCall  *)
(* holds a tool permit while it runs, batch_market_prices holds ESI leaf   *)
(* permits inside it, and local_parallel_batch runs further tool calls     *)
(* inside itself.  Both kinds of permits come from a ResponseAdmission     *)
(* controller.                                                             *)
(*                                                                         *)
(* A tool call is cancelled by its AbortController (deadline, user abort)  *)
(* or because the turn's identity is no longer the active one.             *)
(***************************************************************************)
EXTENDS Integers, FiniteSets

CONSTANTS Tools,        \* the tool calls the model asks for
          Batches,      \* those that are local_parallel_batch containers
          Children,     \* of a batch: its tool calls
          Leaves,       \* of a tool call: its ESI operations
          MaxReads,     \* config.openai.maxConcurrentReadTools
          MaxEsi,       \* config.openai.maxConcurrentEsiLeaves
          MaxQueued,    \* config.openai.maxQueuedTools
          Workers       \* BATCH_MARKET_CONCURRENCY

Ops == UNION {Leaves[t] : t \in Tools}
Nested == UNION {Children[b] : b \in Batches}
Roots == Tools \ Nested
ToolOf(l) == CHOOSE t \in Tools : l \in Leaves[t]
BatchOf(t) == CHOOSE b \in Batches : t \in Children[b]

\* A child gets the guard of its batch.
SignalFor(t) == IF t \in Nested THEN BatchOf(t) ELSE t

VARIABLES
  tool,      \* each tool call: "idle", "admitting", "running" or "done"
  leaf,      \* each ESI operation: "idle", "admitting", "calling" or "done"
  threw,     \* tool calls one of whose workers threw
  identity,  \* the turn's identity is still the active one
  cut,       \* tool calls whose AbortController is aborted
  readActive, readCall, readTicket, readDrawn,
  esiActive, esiCall, esiTicket, esiDrawn

read == <<readActive, readCall, readTicket, readDrawn>>
esi  == <<esiActive, esiCall, esiTicket, esiDrawn>>
vars == <<tool, leaf, threw, identity, cut, read, esi>>

Read == INSTANCE ResponseAdmission WITH
  Calls <- Tools, Signals <- Roots, SignalOf <- [t \in Tools |-> SignalFor(t)],
  MaxConcurrent <- MaxReads, MaxQueued <- MaxQueued,
  active <- readActive, call <- readCall, ticket <- readTicket, drawn <- readDrawn

Esi == INSTANCE ResponseAdmission WITH
  Calls <- Ops, Signals <- Roots, SignalOf <- [l \in Ops |-> SignalFor(ToolOf(l))],
  MaxConcurrent <- MaxEsi, MaxQueued <- MaxQueued,
  active <- esiActive, call <- esiCall, ticket <- esiTicket, drawn <- esiDrawn

TypeOK ==
  /\ Read!TypeOK /\ Esi!TypeOK
  /\ tool \in [Tools -> {"idle", "admitting", "running", "done"}]
  /\ leaf \in [Ops -> {"idle", "admitting", "calling", "done"}]
  /\ threw \subseteq Tools /\ identity \in BOOLEAN

Init ==
  /\ Read!Init /\ Esi!Init
  /\ tool = [t \in Tools |-> "idle"]
  /\ leaf = [l \in Ops |-> "idle"]
  /\ threw = {} /\ identity = TRUE

Cancelled(t) == SignalFor(t) \in cut \/ ~identity
Outstanding(t) == {l \in Leaves[t] : leaf[l] \in {"admitting", "calling"}}

-----------------------------------------------------------------------------
(* Tool calls.                                                             *)

\* The batch container holds no permit while its children wait.
NeedsPermitAlways(t) == TRUE                                       \* a bug
NeedsPermit(t) == t \notin Batches

\* executeToolCall up to its first await on the controller.  A batch that is
\* malformed, over its budget or already aborted ends at once.
Start(t) ==
  /\ tool[t] = "idle"
  /\ t \in Nested => tool[BatchOf(t)] = "running"
  /\ UNCHANGED <<leaf, threw, identity, esi>>
  /\ IF NeedsPermit(t)
     THEN /\ tool' = [tool EXCEPT ![t] = "admitting"]
          /\ Read!Acquire(t)
     ELSE /\ \E next \in {"running", "done"} : tool' = [tool EXCEPT ![t] = next]
          /\ UNCHANGED <<cut, read>>

\* The permit is there, and the call is still wanted.
Proceed(t) ==
  /\ tool[t] = "admitting" /\ readCall[t] = "granted" /\ ~Cancelled(t)
  /\ tool' = [tool EXCEPT ![t] = "running"]
  /\ UNCHANGED <<leaf, threw, identity, cut, read, esi>>

\* The call ends and its finally block gives the permit back.
PermitKept(t) == UNCHANGED <<cut, read>>                           \* a bug
PermitBack(t) == IF NeedsPermit(t) THEN Read!Release(t) ELSE UNCHANGED <<cut, read>>

Blocked(t) ==
  /\ tool[t] = "admitting" /\ readCall[t] = "granted" /\ Cancelled(t)
  /\ tool' = [tool EXCEPT ![t] = "done"]
  /\ PermitBack(t)
  /\ UNCHANGED <<leaf, threw, identity, esi>>

\* acquire() rejects: the call is reported as not executed, or cancelled.
IgnoresRefusal(t) == "running"                                     \* a bug
FailsOnRefusal(t) == "failed"                                      \* a bug
AfterRefusal(t) == "done"

TurnedAway(t) ==
  /\ tool[t] = "admitting" /\ readCall[t] = "refused"
  /\ tool' = [tool EXCEPT ![t] = AfterRefusal(t)]
  /\ UNCHANGED <<leaf, threw, identity, cut, read, esi>>

\* A batch waits for all its children; a tool call for all its operations, or
\* for the first of its workers that throws, whatever the others still do.
Finished(t) ==
  IF t \in Batches THEN \A c \in Children[t] : tool[c] = "done"
  ELSE t \in threw \/ \A l \in Leaves[t] : leaf[l] = "done"

Return(t) ==
  /\ tool[t] = "running" /\ Finished(t)
  /\ tool' = [tool EXCEPT ![t] = "done"]
  /\ PermitBack(t)
  /\ UNCHANGED <<leaf, threw, identity, esi>>

-----------------------------------------------------------------------------
(* ESI operations: a pool of workers per tool call.                        *)

\* A free worker takes the next operation.
CallLeaf(l) ==
  LET t == ToolOf(l)
  IN /\ tool[t] = "running" /\ leaf[l] = "idle" /\ ~Cancelled(t)
     /\ Cardinality(Outstanding(t)) < Workers
     /\ leaf' = [leaf EXCEPT ![l] = "admitting"]
     /\ Esi!Acquire(l)
     /\ UNCHANGED <<tool, threw, identity, read>>

\* A free worker finds the call cancelled and throws.
WorkerStops(t) ==
  /\ tool[t] = "running" /\ Cancelled(t) /\ t \notin threw
  /\ \E l \in Leaves[t] : leaf[l] = "idle"
  /\ Cardinality(Outstanding(t)) < Workers
  /\ threw' = threw \cup {t}
  /\ UNCHANGED <<tool, leaf, identity, cut, read, esi>>

\* withEsiLeafAdmission: the permit is there, and the call is still wanted.
LeafProceed(l) ==
  /\ leaf[l] = "admitting" /\ esiCall[l] = "granted" /\ ~Cancelled(ToolOf(l))
  /\ leaf' = [leaf EXCEPT ![l] = "calling"]
  /\ UNCHANGED <<tool, threw, identity, cut, read, esi>>

LeafBlocked(l) ==
  /\ leaf[l] = "admitting" /\ esiCall[l] = "granted" /\ Cancelled(ToolOf(l))
  /\ leaf' = [leaf EXCEPT ![l] = "done"]
  /\ threw' = threw \cup {ToolOf(l)}
  /\ Esi!Release(l)
  /\ UNCHANGED <<tool, identity, read>>

\* Saturation loses one operation; a cancellation ends the worker.
LeafTurnedAway(l) ==
  /\ leaf[l] = "admitting" /\ esiCall[l] = "refused"
  /\ leaf' = [leaf EXCEPT ![l] = "done"]
  /\ threw' = IF Cancelled(ToolOf(l)) THEN threw \cup {ToolOf(l)} ELSE threw
  /\ UNCHANGED <<tool, identity, cut, read, esi>>

LeafReturns(l) ==
  /\ leaf[l] = "calling"
  /\ leaf' = [leaf EXCEPT ![l] = "done"]
  /\ Esi!Release(l)
  /\ UNCHANGED <<tool, threw, identity, read>>

-----------------------------------------------------------------------------
(* Cancellation and the queue timers.                                      *)

\* One abort runs the listeners of both queues.
Abort(t) ==
  /\ t \in Roots /\ tool[t] # "done"
  /\ Read!Abort(t) /\ Esi!Abort(t)
  /\ UNCHANGED <<tool, leaf, threw, identity>>

IdentityChanges ==
  /\ identity /\ identity' = FALSE
  /\ UNCHANGED <<tool, leaf, threw, cut, read, esi>>

ReadTimesOut(t) == Read!TimedOut(t) /\ UNCHANGED <<tool, leaf, threw, identity, esi>>
EsiTimesOut(l)  == Esi!TimedOut(l) /\ UNCHANGED <<tool, leaf, threw, identity, read>>

Next ==
  \/ \E t \in Tools : \/ Start(t) \/ Proceed(t) \/ Blocked(t) \/ TurnedAway(t)
                      \/ Return(t) \/ WorkerStops(t) \/ Abort(t) \/ ReadTimesOut(t)
  \/ \E l \in Ops : \/ CallLeaf(l) \/ LeafProceed(l) \/ LeafBlocked(l)
                    \/ LeafTurnedAway(l) \/ LeafReturns(l) \/ EsiTimesOut(l)
  \/ IdentityChanges

Spec == Init /\ [][Next]_vars

\* Promise continuations run and ESI requests end.  The queue timers, aborts
\* and identity changes may never come, and the model need not ask for a call.
Progress ==
  \/ \E t \in Tools : \/ Proceed(t) \/ Blocked(t) \/ TurnedAway(t)
                      \/ Return(t) \/ WorkerStops(t)
  \/ \E t \in Nested : Start(t)
  \/ \E l \in Ops : \/ CallLeaf(l) \/ LeafProceed(l) \/ LeafBlocked(l)
                    \/ LeafTurnedAway(l) \/ LeafReturns(l)

FairSpec == Spec /\ WF_vars(Progress)

-----------------------------------------------------------------------------
\* Permits are held only by calls that still run: every way out of a call,
\* cancellation included, gives its permit back.  And the two limits hold
\* together, although a cancelled tool call returns before its ESI operations.
NoPermitLeft ==
  /\ \A t \in Tools : readCall[t] = "granted" => tool[t] \in {"admitting", "running"}
  /\ \A l \in Ops : esiCall[l] = "granted" => leaf[l] \in {"admitting", "calling"}
  /\ Cardinality({t \in Tools \ Batches : tool[t] = "running"}) <= MaxReads
  /\ Cardinality({l \in Ops : leaf[l] = "calling"}) <= MaxEsi

\* "The call was not executed", says the result of a saturated call, and the
\* model may retry it: it sent no ESI request.
RefusedDidNothing ==
  \A t \in Tools : readCall[t] = "refused" =>
    \A l \in Leaves[t] : leaf[l] = "idle"

\* Nested permits never wait for each other: every call that was started
\* returns, without help from a queue timer.
CallsReturn == <>[](\A t \in Tools : tool[t] \in {"idle", "done"})
=============================================================================
