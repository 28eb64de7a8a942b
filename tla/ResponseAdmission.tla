------------------------- MODULE ResponseAdmission -------------------------
(***************************************************************************)
(* The bounded FIFO semaphore in front of model calls, tool calls and ESI  *)
(* requests: ResponseAdmissionController (agent/response-admission.ts).    *)
(*                                                                         *)
(* An element of Calls is one call of acquire(); several may share an      *)
(* AbortSignal.  Every method, timer and abort listener is one synchronous *)
(* block.  The array of waiters is represented by the tickets its elements *)
(* drew when they were pushed: shift() takes the lowest, splice() any.     *)
(***************************************************************************)
EXTENDS Integers, FiniteSets

CONSTANTS Calls, Signals,
          SignalOf,       \* the AbortSignal given to an acquire()
          MaxConcurrent,  \* options.maxConcurrent
          MaxQueued       \* options.maxQueued

ASSUME CallsAssumption == IsFiniteSet(Calls) /\ SignalOf \in [Calls -> Signals]
ASSUME OptionsAssumption == MaxConcurrent \in Nat \ {0} /\ MaxQueued \in Nat

VARIABLES
  active,  \* slots in use
  call,    \* the promise of each acquire(), and what became of its slot
  ticket,  \* position of a waiter in the queue; 0 when it never waited
  drawn,   \* tickets drawn so far
  cut      \* signals that are aborted

vars == <<active, call, ticket, drawn, cut>>

States  == {"idle", "waiting", "granted", "released", "refused"}
Waiting == {c \in Calls : call[c] = "waiting"}
Holders == {c \in Calls : call[c] = "granted"}

TypeOK ==
  /\ active \in 0..MaxConcurrent /\ drawn \in Nat
  /\ call \in [Calls -> States]
  /\ ticket \in [Calls -> Nat]
  /\ cut \subseteq Signals

Init ==
  /\ active = 0 /\ drawn = 0
  /\ call = [c \in Calls |-> "idle"]
  /\ ticket = [c \in Calls |-> 0]
  /\ cut = {}

Becomes(c, state) == call' = [call EXCEPT ![c] = state]

\* acquire(): an aborted signal refuses first, then a free slot is taken, then
\* a full queue refuses, and otherwise the call waits.
SlotFree(c) == active < MaxConcurrent

Acquire(c) ==
  /\ call[c] = "idle"
  /\ UNCHANGED cut
  /\ \/ /\ SignalOf[c] \in cut
        /\ Becomes(c, "refused")
        /\ UNCHANGED <<active, ticket, drawn>>
     \/ /\ SignalOf[c] \notin cut /\ SlotFree(c)
        /\ Becomes(c, "granted")
        /\ active' = active + 1
        /\ UNCHANGED <<ticket, drawn>>
     \/ /\ SignalOf[c] \notin cut /\ ~SlotFree(c)
        /\ Cardinality(Waiting) >= MaxQueued
        /\ Becomes(c, "refused")
        /\ UNCHANGED <<active, ticket, drawn>>
     \/ /\ SignalOf[c] \notin cut /\ ~SlotFree(c)
        /\ Cardinality(Waiting) < MaxQueued
        /\ Becomes(c, "waiting")
        /\ drawn' = drawn + 1
        /\ ticket' = [ticket EXCEPT ![c] = drawn + 1]
        /\ UNCHANGED active

\* The function acquire() resolves with.  Its slot goes to the first waiter
\* without being freed; calling it again has no effect.
Served == Waiting

NextIsNewest(c) == \A d \in Waiting : ticket[d] <= ticket[c]       \* a bug
NextIs(c) == \A d \in Waiting : ticket[c] <= ticket[d]

SlotKept == active

ReleasableTwice(c) == call[c] \in {"granted", "released"}          \* a bug
Releasable(c) == call[c] = "granted"

Release(c) ==
  /\ call[c] \in {"granted", "released"}
  /\ UNCHANGED <<ticket, drawn, cut>>
  /\ \/ /\ Releasable(c) /\ Served # {}
        /\ \E next \in Served :
             /\ NextIs(next)
             /\ call' = [call EXCEPT ![c] = "released", ![next] = "granted"]
        /\ active' = SlotKept
     \/ /\ Releasable(c) /\ Served = {}
        /\ Becomes(c, "released")
        /\ active' = IF active > 0 THEN active - 1 ELSE 0
     \/ /\ ~Releasable(c)
        /\ UNCHANGED <<active, call>>

\* The waiter's timer: cleanupWaiter clears it when the waiter is served.
TimedOut(c) ==
  /\ call[c] = "waiting"
  /\ Becomes(c, "refused")
  /\ UNCHANGED <<active, ticket, drawn, cut>>

\* The signal's listeners: every call still waiting with it is refused.
Abort(s) ==
  /\ s \notin cut
  /\ cut' = cut \cup {s}
  /\ call' = [c \in Calls |->
                IF call[c] = "waiting" /\ SignalOf[c] = s THEN "refused" ELSE call[c]]
  /\ UNCHANGED <<active, ticket, drawn>>

Next ==
  \/ \E c \in Calls : Acquire(c) \/ Release(c) \/ TimedOut(c)
  \/ \E s \in Signals : Abort(s)

Spec == Init /\ [][Next]_vars

\* A holder is done at some time: the calls behind it have their own timeouts.
\* The waiters' timers and signals are not needed, and may never fire.
Progress == \E c \in Calls : Release(c) /\ Releasable(c)

FairSpec == Spec /\ WF_vars(Progress)

-----------------------------------------------------------------------------
\* The counter is the number of calls that hold a slot: none is lost to a
\* release that races a timeout or an abort, and none is handed out twice.
SlotsAreHeld == active = Cardinality(Holders)

\* There are never more holders than slots, through hand-overs and repeated
\* releases.
WithinLimit == Cardinality(Holders) <= MaxConcurrent

\* Nobody waits while a slot is free.
NoIdleSlot == Waiting # {} => active = MaxConcurrent

\* Slots go to the waiters in the order they came: neither a later waiter nor
\* a call that never waited is served before one that still waits.
NoOvertaking ==
  [][\A c, d \in Calls :
       /\ call[c] = "waiting" /\ call'[c] = "waiting"
       /\ call[d] # "granted" /\ call'[d] = "granted"
       => call[d] = "waiting" /\ ticket[d] < ticket[c]]_vars

\* Every waiter leaves the queue, without its timer or its signal.
WaitersServed == <>[](Waiting = {})
=============================================================================
