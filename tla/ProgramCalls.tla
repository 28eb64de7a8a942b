----------------------------- MODULE ProgramCalls -----------------------------
(***************************************************************************)
(* The calls that a program of the model makes within a turn               *)
(* (validateProgrammaticBatch and its callers in agent/executor.ts).  A    *)
(* batch of calls is validated against what the programs did before, on a  *)
(* draft, and is admitted or refused as a whole; a program that ends the   *)
(* turn must have done what its tool is for.                               *)
(*                                                                         *)
(* A request is what the policy of its tool makes of the arguments: a key, *)
(* a shape (the shared part of a comparison), a window, work units.        *)
(***************************************************************************)
EXTENDS Integers, Sequences, FiniteSetsExt, SequencesExt

CONSTANTS
  Programs,
  Requests,   \* records [tool, key, shape, target, from, to, units]
  MaxCalls,   \* of each tool: policy.data.maxCalls
  MaxUnits,   \* of each tool: programmaticWorkUnitLimit
  MinCalls,   \* of each tool: the least calls of a complete program
  MaxOfTurn,  \* MAX_PROGRAMMATIC_CALLS_PER_TURN, _PER_BATCH
  MaxBatches, \* bound on the batches of the turn
  Nothing

VARIABLES
  known,     \* knownProgramIds
  refused,   \* rejectedProgramIds
  states,    \* of each program: its ProgrammaticProgramState
  executed,  \* programmaticCallsExecuted
  inFlight,  \* programInFlight
  nudges,    \* completionNudges
  outcome,   \* how the turn ended
  batches,   \* bound
  admitted   \* the calls admitted so far, with their programs

vars == <<known, refused, states, executed, inFlight, nudges, outcome, batches, admitted>>

Tools == {r.tool : r \in Requests}
Keys == {r.key : r \in Requests}
Windows == {<<r.target, r.from, r.to>> : r \in Requests}
OrNothing(S) == S \cup {Nothing}

State == [tool : Tools, calls : Nat, units : Nat, keys : SUBSET Keys,
          shape : OrNothing({r.shape : r \in Requests}), windows : SUBSET Windows]

TypeOK ==
  /\ known \subseteq Programs /\ refused \subseteq Programs
  /\ states \in [Programs -> OrNothing(State)]
  /\ executed \in Nat /\ inFlight \in BOOLEAN /\ nudges \in 0..2
  /\ outcome \in {"running", "answered", "failed"} /\ batches \in 0..MaxBatches
  /\ \A i \in 1..Len(admitted) : admitted[i] \in [program : Programs, request : Requests]

Init ==
  /\ known = {} /\ refused = {} /\ states = [p \in Programs |-> Nothing]
  /\ executed = 0 /\ inFlight = FALSE /\ nudges = 0
  /\ outcome = "running" /\ batches = 0 /\ admitted = <<>>

-----------------------------------------------------------------------------
(* One call against the state of its program.                              *)

NewState(r) == [tool |-> r.tool, calls |-> 0, units |-> 0, keys |-> {},
                shape |-> Nothing, windows |-> {}]

StateOf(draft, c) == IF draft[c.program] = Nothing THEN NewState(c.request) ELSE draft[c.program]

SameWindow(v, r) == v[2] = r.from /\ v[3] = r.to                   \* a bug
Overlap(v, r) == v[2] < r.to /\ r.from < v[3]

\* r.target is Nothing for a tool without windows.
Allowed(s, r) ==
  /\ s.tool = r.tool
  /\ s.calls + 1 <= MaxCalls[r.tool] /\ s.units + r.units <= MaxUnits[r.tool]
  /\ r.key \notin s.keys
  /\ s.shape \in {Nothing, r.shape} \/ r.shape = Nothing
  /\ \A v \in s.windows : v[1] = r.target => ~Overlap(v, r)

Charged(s, r) ==
  [s EXCEPT !.calls = @ + 1, !.units = @ + r.units, !.keys = @ \cup {r.key},
            !.shape = IF @ = Nothing THEN r.shape ELSE @,
            !.windows = IF r.target = Nothing THEN @ ELSE @ \cup {<<r.target, r.from, r.to>>}]

\* The calls in their order, on a draft, which is Nothing once one is refused.
AfterCall(draft, c) ==
  IF draft = Nothing \/ c.program \notin known \/ ~Allowed(StateOf(draft, c), c.request)
  THEN Nothing
  ELSE [draft EXCEPT ![c.program] = Charged(StateOf(draft, c), c.request)]

WithinTurn(b) == TRUE                                              \* a bug
InBudget(b) == executed + Len(b) <= MaxOfTurn

Draft(b) == IF InBudget(b) THEN FoldLeft(AfterCall, states, b) ELSE Nothing

-----------------------------------------------------------------------------
\* A response carries a program.
Emit(p) ==
  /\ outcome = "running" /\ p \notin known
  /\ known' = known \cup {p} /\ inFlight' = TRUE
  /\ UNCHANGED <<refused, states, executed, nudges, outcome, batches, admitted>>

\* What a refusal leaves of the batch: nothing.
ChargedAnyway(b) == [p \in Programs |->                            \* a bug
                       LET c == b[1] IN IF c.program = p /\ p \in known /\ Allowed(StateOf(states, c), c.request)
                                        THEN Charged(StateOf(states, c), c.request) ELSE states[p]]
AsBefore(b) == states

\* The provider runs no program beyond the answer in words.
Batch(b) ==
  /\ inFlight \/ \A i \in 1..Len(b) : b[i].program \notin known
  /\ outcome = "running" /\ batches < MaxBatches /\ batches' = batches + 1
  /\ IF Draft(b) = Nothing
     THEN /\ refused' = refused \cup {b[i].program : i \in 1..Len(b)}
          /\ states' = AsBefore(b) /\ UNCHANGED <<executed, admitted>>
     ELSE /\ states' = Draft(b)
          /\ executed' = executed + Len(b) /\ admitted' = admitted \o b
          /\ UNCHANGED refused
  /\ UNCHANGED <<known, inFlight, nudges, outcome>>

\* validateCompletedProgramShapes
AnyCalls(s) == s.calls > 0                                         \* a bug
Enough(s) == s.calls >= MinCalls[s.tool]
ShapesOK ==
  \A p \in known : IF states[p] = Nothing THEN p \in refused ELSE Enough(states[p])

\* The model answers in words: an incomplete program ends the turn; outcomes
\* of the turn that are still pending ask for more, twice.
FinalText ==
  /\ outcome = "running"
  /\ IF inFlight /\ ~ShapesOK
     THEN outcome' = "failed" /\ UNCHANGED <<inFlight, nudges>>
     ELSE /\ inFlight' = FALSE
          /\ \/ nudges < 2 /\ nudges' = nudges + 1 /\ UNCHANGED outcome
             \/ outcome' = "answered" /\ UNCHANGED nudges
  /\ UNCHANGED <<known, refused, states, executed, batches, admitted>>

Batches == UNION {[1..n -> [program : Programs, request : Requests]] : n \in 1..2}

Next ==
  \/ \E p \in Programs : Emit(p)
  \/ \E b \in Batches : Batch(b)
  \/ FinalText

Spec == Init /\ [][Next]_vars

-----------------------------------------------------------------------------
CallsOf(p) == {i \in 1..Len(admitted) : admitted[i].program = p}
Request(i) == admitted[i].request

\* What the programs are charged for is what was admitted: a refused batch
\* leaves no trace, an admitted one all of it.
ChargedAsAdmitted ==
  /\ executed = Len(admitted) /\ executed <= MaxOfTurn
  /\ \A p \in Programs :
       IF CallsOf(p) = {} THEN states[p] = Nothing
       ELSE /\ states[p].calls = Cardinality(CallsOf(p))
            /\ states[p].units = MapThenSumSet(LAMBDA i : Request(i).units, CallsOf(p))
            /\ states[p].keys = {Request(i).key : i \in CallsOf(p)}

\* A program compares: its calls are of one tool and one shape, no two are the
\* same question, and no kill falls in the windows of two of them.
OneComparison ==
  \A p \in Programs : \A i, j \in CallsOf(p) : i < j =>
    LET q == Request(i)
        r == Request(j)
    IN /\ q.tool = r.tool /\ q.key # r.key
       /\ q.shape = r.shape
       /\ q.target = r.target /\ q.target # Nothing
            => {t \in q.from..(q.to - 1) : t \in r.from..(r.to - 1)} = {}

\* A turn is answered only when every program did its calls, or had all of
\* them refused.
AnsweredIsWhole ==
  outcome = "answered" =>
    \A p \in known : IF CallsOf(p) = {} THEN p \in refused
                     ELSE Cardinality(CallsOf(p)) >= MinCalls[states[p].tool]

ProgramsSound == ChargedAsAdmitted /\ OneComparison /\ AnsweredIsWhole
=============================================================================
