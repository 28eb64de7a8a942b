---------------------------- MODULE ReadSubagents ----------------------------
(***************************************************************************)
(* A batch of read-only sub-agents (agent/read-subagents.ts) beside the    *)
(* other reads of the same turn (agent/executor.ts).  Workers take the     *)
(* tasks in order; a task alternates calls of the model and batches of     *)
(* reads.  All of them, and the root of the turn, spend one budget, which  *)
(* is checked before and taken across awaits.                              *)
(*                                                                         *)
(* Evidence is told apart by whether the read succeeded.                   *)
(***************************************************************************)
EXTENDS Integers, FiniteSets

CONSTANTS
  Workers,        \* readSubagentConcurrency
  MaxTasks,       \* the tasks of the batch
  MaxIterations,  \* maxWorkerIterations
  MaxModelCalls,  \* maxTotalModelCalls
  MaxLeaves,      \* maxTotalTurnReadLeaves
  MaxCalls,       \* bound: reads of one batch of calls
  Nothing

Tasks == 1..MaxTasks

VARIABLES
  next,      \* nextTask
  worker,    \* of each worker: its task, 0 between tasks
  over,      \* workers that found no task left
  asks,      \* tasks that await the model
  reads,     \* of each task: the reads it awaits
  iteration, good, bad, gaps, \* of each task
  results,   \* of each task: its status, Nothing before
  omitted,   \* tasks with evidence that the size limit took away
  modelCalls, toolLeaves,     \* the shared budget
  aborted, returned,
  sent       \* reads that were dispatched, by the root too

budget == <<modelCalls, toolLeaves, sent>>
task == <<asks, reads, iteration, good, bad, gaps, results>>
vars == <<next, worker, over, task, omitted, budget, aborted, returned>>

Statuses == {"completed", "partial", "failed"}

TypeOK ==
  /\ next \in 1..(MaxTasks + Cardinality(Workers) + 1)
  /\ worker \in [Workers -> 0..MaxTasks] /\ over \subseteq Workers
  /\ asks \subseteq Tasks /\ reads \in [Tasks -> 0..MaxCalls]
  /\ iteration \in [Tasks -> 0..MaxIterations]
  /\ good \in [Tasks -> Nat] /\ bad \in [Tasks -> Nat] /\ gaps \in [Tasks -> BOOLEAN]
  /\ results \in [Tasks -> Statuses \cup {Nothing}]
  /\ omitted \subseteq Tasks
  /\ modelCalls \in Nat /\ toolLeaves \in Nat /\ sent \in Nat
  /\ aborted \in BOOLEAN /\ returned \in BOOLEAN

Init ==
  /\ next = 1 /\ worker = [w \in Workers |-> 0] /\ over = {}
  /\ asks = {} /\ reads = [t \in Tasks |-> 0] /\ iteration = [t \in Tasks |-> 0]
  /\ good = [t \in Tasks |-> 0] /\ bad = [t \in Tasks |-> 0]
  /\ gaps = [t \in Tasks |-> FALSE] /\ results = [t \in Tasks |-> Nothing]
  /\ omitted = {} /\ modelCalls = 0 /\ toolLeaves = 0 /\ sent = 0
  /\ aborted = FALSE /\ returned = FALSE

-----------------------------------------------------------------------------
(* The worker w ends its task t, with the evidence as it becomes.          *)

EndsAs(w, t, status) ==
  /\ results' = [results EXCEPT ![t] = status]
  /\ asks' = asks \ {t}
  /\ worker' = [worker EXCEPT ![w] = 0]

PartialOrFailed(w, t) == EndsAs(w, t, IF good'[t] + bad'[t] > 0 THEN "partial" ELSE "failed")

OwnCalls(t) == iteration[t] < MaxIterations                        \* a bug
ModelCallLeft(t) == modelCalls < MaxModelCalls

\* The head of the loop, with its i-th iteration to come.
Iterate(w, t, i) ==
  IF i < MaxIterations /\ ~aborted /\ ModelCallLeft(t)
  THEN /\ modelCalls' = modelCalls + 1
       /\ asks' = asks \cup {t}
       /\ iteration' = [iteration EXCEPT ![t] = i + 1]
       /\ worker' = [worker EXCEPT ![w] = t] /\ UNCHANGED results
  ELSE PartialOrFailed(w, t) /\ UNCHANGED <<modelCalls, iteration>>

\* A worker takes the next task, which fails at once after an abort.
Take(w) ==
  /\ worker[w] = 0 /\ w \notin over /\ next' = next + 1
  /\ UNCHANGED <<reads, good, bad, gaps, omitted, toolLeaves, sent, aborted, returned>>
  /\ IF next > MaxTasks
     THEN over' = over \cup {w}
          /\ UNCHANGED <<worker, asks, iteration, results, modelCalls>>
     ELSE Iterate(w, next, 0) /\ UNCHANGED over

\* The tools of the task are not to be had, or an error escapes.
Unavailable(w) ==
  /\ worker[w] = 0 /\ next <= MaxTasks /\ next' = next + 1
  /\ results' = [results EXCEPT ![next] = "failed"]
  /\ UNCHANGED <<worker, over, asks, reads, iteration, good, bad, gaps, omitted, budget, aborted,
                 returned>>

-----------------------------------------------------------------------------
Asks(w) == worker[w] \in asks

\* The model fails or is aborted, or its answer is not usable.
ModelFails(w) ==
  /\ Asks(w)
  /\ UNCHANGED <<good, bad>> /\ PartialOrFailed(w, worker[w])
  /\ UNCHANGED <<next, over, reads, iteration, gaps, omitted, budget, aborted, returned>>

\* It answers in words: a summary counts only with evidence.
AnyStatus(t) == "completed"                                        \* a bug
Status(t) == IF gaps[t] THEN "partial" ELSE "completed"

Summarises(w) ==
  LET t == worker[w]
  IN /\ Asks(w) /\ good[t] + bad[t] > 0
     /\ EndsAs(w, t, Status(t))
     /\ UNCHANGED <<next, over, reads, iteration, good, bad, gaps, omitted, budget, aborted,
                    returned>>

\* It asks for n reads: all or none of them are dispatched.
CountedAfter(n) == toolLeaves                                      \* a bug
Reserved(n) == toolLeaves + n

AsksTools(w, n) ==
  LET t == worker[w]
  IN /\ Asks(w)
     /\ UNCHANGED <<next, over, iteration, good, bad, gaps, omitted, modelCalls, aborted,
                    returned>>
     /\ IF toolLeaves + n > MaxLeaves
        THEN PartialOrFailed(w, t) /\ UNCHANGED <<reads, toolLeaves, sent>>
        ELSE /\ toolLeaves' = Reserved(n) /\ sent' = sent + n
             /\ asks' = asks \ {t} /\ reads' = [reads EXCEPT ![t] = n]
             /\ UNCHANGED <<worker, results>>

\* A call of it breaks the schema: none is dispatched, and it may go on.
Rejected(w) ==
  /\ Asks(w) /\ toolLeaves < MaxLeaves
  /\ gaps' = [gaps EXCEPT ![worker[w]] = TRUE]
  /\ UNCHANGED <<next, over, reads, good, bad, omitted, toolLeaves, sent, aborted, returned>>
  /\ Iterate(w, worker[w], iteration[worker[w]])

\* All settle, k of them with a result.
ToolsSettle(w, k) ==
  LET t == worker[w]
  IN /\ t # 0 /\ reads[t] # 0 /\ k <= reads[t]
     /\ good' = [good EXCEPT ![t] = @ + k] /\ bad' = [bad EXCEPT ![t] = @ + reads[t] - k]
     /\ gaps' = [gaps EXCEPT ![t] = @ \/ k < reads[t]]
     /\ reads' = [reads EXCEPT ![t] = 0]
     /\ UNCHANGED <<next, over, omitted, toolLeaves, sent, aborted, returned>>
     /\ Iterate(w, t, iteration[t])

\* A read of the root of the turn, in the same batch of its tools.
RootReads(n) ==
  /\ ~returned /\ toolLeaves + n <= MaxLeaves
  /\ toolLeaves' = toolLeaves + n /\ sent' = sent + n
  /\ UNCHANGED <<next, worker, over, task, omitted, modelCalls, aborted, returned>>

\* The turn ends or changes its identity, or the batch is out of time.
Abort ==
  /\ ~aborted /\ ~returned /\ aborted' = TRUE
  /\ UNCHANGED <<next, worker, over, task, omitted, budget, returned>>

StatusKept(O) == results                                           \* a bug
Downgraded(O) == [t \in Tasks |-> IF t \in O /\ results[t] # "failed" THEN "partial"
                                  ELSE results[t]]

\* boundAggregate: the largest evidence goes, of the tasks in O.
Return ==
  /\ ~returned /\ over = Workers
  /\ \E O \in SUBSET {t \in Tasks : good[t] + bad[t] > 0} :
       omitted' = O /\ results' = Downgraded(O)
  /\ returned' = TRUE
  /\ UNCHANGED <<next, worker, over, asks, reads, iteration, good, bad, gaps, budget, aborted>>

Next ==
  \/ \E w \in Workers : \/ Take(w) \/ Unavailable(w) \/ ModelFails(w) \/ Summarises(w)
                        \/ Rejected(w)
                        \/ \E n \in 1..MaxCalls : AsksTools(w, n)
                        \/ \E k \in 0..MaxCalls : ToolsSettle(w, k)
  \/ \E n \in 1..MaxCalls : RootReads(n)
  \/ Abort \/ Return

Spec == Init /\ [][Next]_vars

-----------------------------------------------------------------------------
\* "One shared ceiling across root and children so delegation cannot reset
\* the budget", for reads as for calls of the model.
BudgetHeld == sent <= MaxLeaves /\ modelCalls <= MaxModelCalls

\* Every task has its answer, in its place, and nothing runs after the batch.
AllAnswered ==
  returned => \A t \in Tasks : results[t] # Nothing /\ t \notin asks /\ reads[t] = 0

\* What counts as completed rests on reads that all succeeded and are all
\* there; what failed outright, on none.
CompletedIsGrounded ==
  \A t \in Tasks :
    /\ results[t] = "completed" => good[t] > 0 /\ bad[t] = 0 /\ t \notin omitted
    /\ results[t] = "failed" => good[t] = 0

SubagentsSound == BudgetHeld /\ AllAnswered /\ CompletedIsGrounded

-----------------------------------------------------------------------------
(* What every step keeps.                                                  *)

\* A worker has a task that was taken and has no answer, and has it for itself;
\* one that is done found none left.
WorkersApart ==
  /\ \A w \in Workers : worker[w] # 0 => worker[w] < next /\ results[worker[w]] = Nothing
  /\ \A w \in Workers, v \in Workers : worker[w] # 0 /\ worker[w] = worker[v] => w = v
  /\ \A w \in over : worker[w] = 0 /\ next > MaxTasks

\* A task awaits one thing at a time, and a worker has it until it is answered.
Attended(t) ==
  /\ t \in asks => reads[t] = 0
  /\ t \in asks \/ reads[t] # 0 \/ (t < next /\ results[t] = Nothing)
       => \E w \in Workers : worker[w] = t

\* A read that failed leaves a gap; a task nobody took has no evidence.
Evidence(t) ==
  /\ ~gaps[t] => bad[t] = 0
  /\ t >= next => results[t] = Nothing /\ good[t] = 0 /\ bad[t] = 0

\* Every read is charged, and the workers that are done took one number each.
Counted ==
  /\ sent = toolLeaves
  /\ next <= MaxTasks + 1 + Cardinality(over)
  /\ returned => over = Workers
  /\ ~returned => omitted = {}

IInv ==
  /\ TypeOK /\ BudgetHeld /\ CompletedIsGrounded /\ WorkersApart /\ Counted
  /\ \A t \in Tasks : Attended(t) /\ Evidence(t)
=============================================================================
