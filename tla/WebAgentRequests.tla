-------------------------- MODULE WebAgentRequests --------------------------
(***************************************************************************)
(* The durable queue of browser agent turns: WebAgentRequestCoordinator    *)
(* (web/agent-requests.ts) with the callers that change its rows: the chat *)
(* routes (submit, cancel, delete a conversation, log out), the identity   *)
(* switch, the agent turn it runs, shutdown and restart.                   *)
(*                                                                         *)
(* JavaScript runs each synchronous block to completion and SQLite runs a  *)
(* transaction inside it, so one action is one such block: everything      *)
(* between two awaits.  Rows outlive the process; the running map, its     *)
(* abort controllers, the drain flag and the waiting logouts do not.       *)
(*                                                                         *)
(* Request ids are 1, 2, 3, ... in the order of created_at_ms.             *)
(***************************************************************************)
EXTENDS Integers, FiniteSets

CONSTANTS Users, Lanes, Threads, Keys,
          UserOf,         \* the user a lane (user_id, chat_id) belongs to
          LaneOf,         \* the lane a conversation thread belongs to
          MaxConcurrent,  \* config.web.maxConcurrentAgentRequests
          MaxPerLane,     \* config.web.maxQueuedAgentRequestsPerUser
          MaxActive,      \* config.web.maxQueuedAgentRequests
          MaxRequests,    \* bound: requests ever accepted
          MaxVersion,     \* bound: active character switches per user
          MaxStarts       \* bound: process starts

ASSUME MapsAssumption == /\ UserOf \in [Lanes -> Users]
                         /\ LaneOf \in [Threads -> Lanes]
ASSUME LimitsAssumption == /\ MaxConcurrent \in Nat \ {0}
                           /\ MaxPerLane \in Nat /\ MaxActive \in Nat
ASSUME BoundsAssumption == /\ MaxRequests \in Nat /\ MaxVersion \in Nat
                           /\ MaxStarts \in Nat

VARIABLES
  status,     \* the row's status; "absent" before, "gone" after its deletion
  asked,      \* rows with cancel_requested = 1
  row,        \* thread, idempotency key and character version of each row
  submitted,  \* number of requests accepted so far
  prompts,    \* requests whose user message is in the transcript
  answers,    \* requests with a stored assistant message
  threads,    \* the conversation threads that exist
  session,    \* of a lane: "open", "closed" (data kept) or "purged"
  identity,   \* active_character_version of a user
  up,         \* the process runs
  starts,     \* process starts so far
  closed,     \* the coordinator refuses new work
  draining,   \* a drain microtask is scheduled
  turn,       \* the running map: "none", "turn" or "settled"
  aborted,    \* turns whose abort controller was signalled
  logout      \* of a lane: "idle", "waiting" or "revoking"

rows    == <<status, asked, row, submitted>>
convs   == <<prompts, answers, threads, session, identity>>
memory  == <<closed, draining, turn, aborted, logout>>
process == <<up, starts>>
vars    == <<rows, convs, memory, process>>

Requests == 1..MaxRequests
Outcomes == {"completed", "failed", "cancelled"}
Statuses == {"absent", "queued", "running", "gone"} \cup Outcomes
Rows     == [thread : Threads, key : Keys, version : 0..MaxVersion]

TypeOK ==
  /\ status \in [Requests -> Statuses]
  /\ asked \subseteq Requests
  /\ submitted \in 0..MaxRequests
  /\ row \in [1..submitted -> Rows]
  /\ prompts \subseteq Requests /\ answers \subseteq Requests
  /\ threads \subseteq Threads
  /\ session \in [Lanes -> {"open", "closed", "purged"}]
  /\ identity \in [Users -> 0..MaxVersion]
  /\ up \in BOOLEAN /\ closed \in BOOLEAN /\ draining \in BOOLEAN
  /\ starts \in 0..MaxStarts
  /\ turn \in [Requests -> {"none", "turn", "settled"}]
  /\ aborted \subseteq Requests
  /\ logout \in [Lanes -> {"idle", "waiting", "revoking"}]

-----------------------------------------------------------------------------
Exists(r)    == status[r] \notin {"absent", "gone"}
Active(r)    == status[r] \in {"queued", "running"}
InLane(r, l) == LaneOf[row[r].thread] = l
LaneActive(l)   == {r \in Requests : Active(r) /\ InLane(r, l)}
AllActive       == {r \in Requests : Active(r)}
ThreadActive(t) == {r \in Requests : Active(r) /\ row[r].thread = t}
Running         == {r \in Requests : turn[r] # "none"}

\* scheduleDrain: one microtask at a time, none once closed.
NoDrainScheduled == UNCHANGED draining                             \* a bug
ScheduleDrain == draining' = (draining \/ ~closed)

Init ==
  /\ status = [r \in Requests |-> "absent"]
  /\ asked = {} /\ submitted = 0 /\ row = [r \in 1..0 |-> <<>>]
  /\ prompts = {} /\ answers = {}
  /\ threads = Threads
  /\ session = [l \in Lanes |-> "open"]
  /\ identity = [u \in Users |-> 0]
  /\ up = FALSE /\ starts = 0
  /\ closed = FALSE /\ draining = FALSE
  /\ turn = [r \in Requests |-> "none"]
  /\ aborted = {}
  /\ logout = [l \in Lanes |-> "idle"]

-----------------------------------------------------------------------------
(* The chat routes.                                                        *)

\* The caps count queued and running rows, of the lane and of the service.
Admissible(l) == /\ Cardinality(LaneActive(l)) < MaxPerLane
                 /\ Cardinality(AllActive) < MaxActive

\* The idempotency key is looked up among all rows of the lane.
KeyTaken(l, k) ==
  \E q \in 1..submitted : Exists(q) /\ InLane(q, l) /\ row[q].key = k

\* POST /chat with a new idempotency key.  Every refusal (closed, the key is
\* taken, a cap is reached, admission says no) leaves the state as it was;
\* the windows and budgets of admitWebEvent are the module WebAdmission.
Enqueue(t, k) ==
  LET l == LaneOf[t]
      r == submitted + 1
  IN /\ up /\ ~closed
     /\ session[l] = "open" /\ t \in threads
     /\ ~KeyTaken(l, k) /\ Admissible(l)
     /\ submitted < MaxRequests
     /\ submitted' = r
     /\ status' = [status EXCEPT ![r] = "queued"]
     /\ row' = [q \in 1..r |->
                  IF q = r THEN [thread |-> t, key |-> k,
                                 version |-> identity[UserOf[l]]]
                           ELSE row[q]]
     /\ prompts' = prompts \cup {r}
     /\ ScheduleDrain
     /\ UNCHANGED <<asked, answers, threads, session, identity, process,
                    closed, turn, aborted, logout>>

\* cancel() of every request of S in one block: a queued row is terminal at
\* once, a running one is only marked; either way its controller is aborted.
CancelAll(S) ==
  LET queued == {r \in S : status[r] = "queued"}
  IN /\ status' = [r \in Requests |->
                     IF r \in queued THEN "cancelled" ELSE status[r]]
     /\ asked' = asked \cup {r \in S : Active(r)}
     /\ prompts' = prompts \ queued
     /\ answers' = answers \ queued
     /\ aborted' = aborted \cup (S \cap Running)

\* DELETE /chat/requests/:id by the owner, whatever the row's status.
Cancel(r) ==
  /\ up /\ Exists(r) /\ session[LaneOf[row[r].thread]] = "open"
  /\ CancelAll({r})
  /\ UNCHANGED <<row, submitted, threads, session, identity, process,
                 closed, draining, turn, logout>>

\* DELETE /session: cancelLaneAndWait, first block.
LogoutBegin(l) ==
  /\ up /\ session[l] = "open" /\ logout[l] = "idle"
  /\ CancelAll(LaneActive(l))
  /\ logout' = [logout EXCEPT ![l] = "waiting"]
  /\ UNCHANGED <<row, submitted, threads, session, identity, process,
                 closed, draining, turn>>

\* A poll of the wait loop sees no active row.
LogoutDrained(l) ==
  /\ up /\ logout[l] = "waiting" /\ LaneActive(l) = {}
  /\ logout' = [logout EXCEPT ![l] = "revoking"]
  /\ UNCHANGED <<rows, convs, process, closed, draining, turn, aborted>>

\* Five seconds are over: the rows are made terminal whatever their turns do.
LogoutForced(l) ==
  LET forced    == LaneActive(l)
      cancelled == {r \in 1..submitted : InLane(r, l) /\ status'[r] = "cancelled"}
  IN /\ up /\ logout[l] = "waiting"
     /\ status' = [r \in Requests |->
                     IF r \in forced THEN "cancelled" ELSE status[r]]
     /\ asked' = asked \cup forced
     /\ prompts' = prompts \ cancelled
     /\ answers' = answers \ cancelled
     /\ logout' = [logout EXCEPT ![l] = "revoking"]
     /\ UNCHANGED <<row, submitted, threads, session, identity, process,
                    closed, draining, turn, aborted>>

\* Rows and transcript go with their threads (purge, delete a conversation).
DropThreads(T) ==
  LET dropped == {r \in 1..submitted : row[r].thread \in T}
  IN /\ threads' = threads \ T
     /\ status' = [r \in Requests |->
                     IF r \in dropped THEN "gone" ELSE status[r]]
     /\ prompts' = prompts \ dropped
     /\ answers' = answers \ dropped

\* purgeBrowserLane of a user with a linked character: only the session goes.
RevokeKeeping(l) ==
  /\ up /\ logout[l] = "revoking"
  /\ session' = [session EXCEPT ![l] = "closed"]
  /\ logout' = [logout EXCEPT ![l] = "idle"]
  /\ UNCHANGED <<rows, prompts, answers, threads, identity, process,
                 closed, draining, turn, aborted>>

\* purgeBrowserLane of a guest: the lane's data goes with the session.
RevokePurging(l) ==
  /\ up /\ logout[l] = "revoking"
  /\ DropThreads({t \in Threads : LaneOf[t] = l})
  /\ session' = [session EXCEPT ![l] = "purged"]
  /\ logout' = [logout EXCEPT ![l] = "idle"]
  /\ UNCHANGED <<asked, row, submitted, identity, process,
                 closed, draining, turn, aborted>>

\* The next SSO sign-in reattaches the kept conversations to the user.
SignIn(l) ==
  /\ up /\ session[l] = "closed"
  /\ session' = [session EXCEPT ![l] = "open"]
  /\ UNCHANGED <<rows, prompts, answers, threads, identity, process, memory>>

\* DELETE /conversations/:id, refused while a request of it is active.
DeleteConversation(t) ==
  /\ up /\ session[LaneOf[t]] = "open" /\ t \in threads
  /\ ThreadActive(t) = {}
  /\ DropThreads({t})
  /\ UNCHANGED <<asked, row, submitted, session, identity, process, memory>>

\* The user activates, links or unlinks a character.
SwitchIdentity(u) ==
  /\ up /\ identity[u] < MaxVersion
  /\ identity' = [identity EXCEPT ![u] = @ + 1]
  /\ UNCHANGED <<rows, prompts, answers, threads, session, process, memory>>

-----------------------------------------------------------------------------
(* The drain and the turns.                                                *)

Matches(r) == identity[UserOf[LaneOf[row[r].thread]]] = row[r].version

\* Rows claimNext may return, in a loop that claims in order of creation: no
\* running row in the thread, and no row claimed before it that keeps running.
ClaimableAnyThread ==                                              \* a bug
  {r \in 1..submitted : status[r] = "queued" /\ r \notin asked}
Claimable ==
  LET eligible == {r \in 1..submitted :
        /\ status[r] = "queued" /\ r \notin asked
        /\ \A q \in 1..submitted :
             status[q] = "running" => row[q].thread # row[r].thread}
  IN {r \in eligible : \A q \in eligible :
        q < r /\ Matches(q) => row[q].thread # row[r].thread}

\* running.size counts turns, not rows: a row may be terminal before its turn.
FreeSlotsByRows ==                                                 \* a bug
  MaxConcurrent - Cardinality({r \in Requests : status[r] = "running"})
FreeSlots == MaxConcurrent - Cardinality(Running)

\* The microtask: the oldest claimable rows fill the free slots.  A row whose
\* identity changed since submission fails before its turn starts, and holds
\* its slot until the finally callback.
Drain ==
  /\ up /\ draining
  /\ draining' = FALSE
  /\ IF closed THEN UNCHANGED <<status, turn>>
     ELSE \E claimed \in SUBSET Claimable :
       /\ Cardinality(claimed) <= FreeSlots
       /\ \A c \in claimed : \A q \in Claimable : q < c => q \in claimed
       /\ claimed = Claimable \/ Cardinality(claimed) = FreeSlots
       /\ status' = [r \in Requests |->
            IF r \notin claimed THEN status[r]
            ELSE IF Matches(r) THEN "running" ELSE "failed"]
       /\ turn' = [r \in Requests |->
            IF r \notin claimed THEN turn[r]
            ELSE IF Matches(r) THEN "turn" ELSE "settled"]
  /\ UNCHANGED <<asked, row, submitted, convs, process, closed, aborted, logout>>

\* The turn's deadline timer.
Deadline(r) ==
  /\ up /\ turn[r] = "turn" /\ r \notin aborted
  /\ aborted' = aborted \cup {r}
  /\ UNCHANGED <<rows, convs, process, closed, draining, turn, logout>>

\* The agent stores its answer; the foreign key refuses it once the thread is
\* gone.
RunnerStores(r) ==
  /\ up /\ turn[r] = "turn" /\ r \notin answers
  /\ row[r].thread \in threads
  /\ answers' = answers \cup {r}
  /\ UNCHANGED <<rows, prompts, threads, session, identity, process, memory>>

\* finish(): a terminal write guarded by the row still running, in which a
\* requested cancellation wins; a cancelled row takes its messages with it.
FinishAnyRow(r, outcome) ==                                        \* a bug
  IF outcome # "cancelled" /\ r \in asked THEN status[r] ELSE outcome
FinishedStatus(r, outcome) ==
  IF status[r] # "running" THEN status[r]
  ELSE IF outcome # "cancelled" /\ r \in asked THEN "cancelled"
  ELSE outcome

DeletedIfUpdated(r, final) ==                                      \* a bug
  IF status[r] = "running" /\ final = "cancelled" THEN {r} ELSE {}
DeletedWith(r, final) == IF final = "cancelled" THEN {r} ELSE {}

Finish(r, outcome) ==
  LET final   == FinishedStatus(r, outcome)
      deleted == DeletedWith(r, final)
  IN /\ status' = [status EXCEPT ![r] = final]
     /\ prompts' = prompts \ deleted
     /\ answers' = answers \ deleted
     /\ turn' = [turn EXCEPT ![r] = "settled"]
     /\ UNCHANGED <<asked, row, submitted, threads, session, identity, process,
                    closed, draining, aborted, logout>>

\* execute(): the runner's promise resolves.
RunnerAnswers(r) ==
  /\ up /\ turn[r] = "turn"
  /\ Finish(r, IF r \in aborted \/ (r \in asked /\ Exists(r))
               THEN "cancelled" ELSE "completed")

\* execute(): the runner's promise rejects, saying it was cut short or not.
RunnerFails(r, cutShort) ==
  /\ up /\ turn[r] = "turn"
  /\ Finish(r, IF (cutShort \/ r \in aborted) /\ r \in asked /\ Exists(r)
               THEN "cancelled" ELSE "failed")

RunnerEnds(r) == RunnerAnswers(r) \/ \E c \in BOOLEAN : RunnerFails(r, c)

\* The finally callback: the slot is free and the queue is looked at again.
Settle(r) ==
  /\ up /\ turn[r] = "settled"
  /\ turn' = [turn EXCEPT ![r] = "none"]
  /\ aborted' = aborted \ {r}
  /\ ScheduleDrain
  /\ UNCHANGED <<rows, convs, process, closed, logout>>

-----------------------------------------------------------------------------
(* Shutdown, crash and restart.                                            *)

\* stopWebAgentIngress, the first line of the shutdown.
CloseIngress ==
  /\ up /\ ~closed /\ starts < MaxStarts
  /\ closed' = TRUE
  /\ UNCHANGED <<rows, convs, process, draining, turn, aborted, logout>>

\* close(): whatever outlived the drain window is aborted.
Close ==
  /\ up /\ closed /\ ~(Running \subseteq aborted)
  /\ aborted' = aborted \cup Running
  /\ UNCHANGED <<rows, convs, process, closed, draining, turn, logout>>

\* The process ends: rows stay, everything in memory is lost.
Stop ==
  /\ up /\ starts < MaxStarts
  /\ up' = FALSE
  /\ closed' = FALSE /\ draining' = FALSE
  /\ turn' = [r \in Requests |-> "none"]
  /\ aborted' = {}
  /\ logout' = [l \in Lanes |-> "idle"]
  /\ UNCHANGED <<rows, convs, starts>>

Exit  == closed /\ Stop
Crash == ~closed /\ Stop

\* recoverAfterRestart: a request that was running is never replayed; terminal
\* rows created before the retention cutoff are deleted (not their messages).
Recovered(cutoff) ==
  LET failed == [r \in Requests |->
                  IF status[r] = "running" THEN "failed" ELSE status[r]]
  IN [r \in Requests |->
       IF failed[r] \in Outcomes /\ r <= cutoff THEN "gone" ELSE failed[r]]

Start ==
  /\ ~up /\ starts < MaxStarts
  /\ up' = TRUE /\ starts' = starts + 1
  /\ \E cutoff \in 0..submitted : status' = Recovered(cutoff)
  /\ draining' = TRUE
  /\ UNCHANGED <<asked, row, submitted, convs, closed, turn, aborted, logout>>

-----------------------------------------------------------------------------
Next ==
  \/ \E t \in Threads, k \in Keys : Enqueue(t, k)
  \/ \E r \in Requests : Cancel(r)
  \/ \E l \in Lanes : LogoutBegin(l) \/ LogoutDrained(l) \/ LogoutForced(l)
  \/ \E l \in Lanes : RevokeKeeping(l) \/ RevokePurging(l) \/ SignIn(l)
  \/ \E t \in Threads : DeleteConversation(t)
  \/ \E u \in Users : SwitchIdentity(u)
  \/ Drain
  \/ \E r \in Requests : Deadline(r) \/ RunnerStores(r) \/ RunnerAnswers(r)
  \/ \E r \in Requests, c \in BOOLEAN : RunnerFails(r, c)
  \/ \E r \in Requests : Settle(r)
  \/ CloseIngress \/ Close \/ Exit \/ Crash \/ Start

Spec == Init /\ [][Next]_vars

\* Microtasks and callbacks run, every turn ends (its own deadline and the
\* abort see to it), a logout waits at most five seconds, shutdown exits and
\* the supervisor starts the process again.  Nothing makes a user act, a
\* timer abort a turn, or the process crash.
Fairness ==
  /\ WF_vars(Drain) /\ WF_vars(Exit) /\ WF_vars(Start)
  /\ \A r \in Requests : WF_vars(RunnerEnds(r)) /\ WF_vars(Settle(r))
  /\ \A l \in Lanes : /\ WF_vars(LogoutDrained(l) \/ LogoutForced(l))
                      /\ WF_vars(RevokeKeeping(l) \/ RevokePurging(l))

FairSpec == Spec /\ Fairness

-----------------------------------------------------------------------------
(* Properties.                                                             *)

\* One running turn per conversation thread (claimNext): no two rows of a
\* thread are running, whatever order cancels, forced logouts, identity
\* switches, restarts and drains come in.
OneRunningPerThread ==
  \A p, q \in 1..submitted :
    status[p] = "running" /\ status[q] = "running" /\ p # q
      => row[p].thread # row[q].thread

\* A row says running exactly as long as this process has a turn for it that
\* will finish it (or forced and dropped it): no row is left running by a
\* crash, a shutdown or an early return of execute().
RunningHasTurn ==
  up => \A r \in Requests : status[r] = "running" => turn[r] = "turn"

\* The running map never holds more turns than the configured limit, although
\* rows become terminal (forced logout, purge) while their turns still run.
ConcurrencyBounded == Cardinality(Running) <= MaxConcurrent

\* A retried submission never makes a second row: the rows of a lane have
\* different idempotency keys.
KeysDistinct ==
  \A p, q \in 1..submitted :
    Exists(p) /\ Exists(q) /\ p # q /\ LaneOf[row[p].thread] = LaneOf[row[q].thread]
      => row[p].key # row[q].key

\* A queued request always has something that will look at the queue again: a
\* scheduled drain, a turn whose finally callback schedules one, or the next
\* process.
QueueIsWatched ==
  up /\ ~closed /\ (\E r \in Requests : status[r] = "queued")
    => draining \/ Running # {}

\* The prompt of a cancelled request is out of the transcript at once, so that
\* no later turn of the thread reads it.
CancelledHasNoPrompt == \A r \in Requests : status[r] = "cancelled" => r \notin prompts

\* A turn that ends on a cancelled row leaves none of its messages behind,
\* also when the row was forced terminal while the turn was still writing.
CancelledTurnLeavesNothing ==
  [][\A r \in Requests :
       turn[r] = "turn" /\ turn'[r] = "settled" /\ status'[r] = "cancelled"
         => r \notin prompts' /\ r \notin answers']_vars

\* Each request lives the life RequestLifecycle promises: an outcome is final,
\* a request that ran never runs again (nor after a restart), and one whose
\* cancellation was recorded never completes.
Lifecycle == INSTANCE RequestLifecycle
LifecycleKept == Lifecycle!Spec

\* Every accepted request comes to an end: it is not left queued behind a
\* stuck slot, a closed coordinator or a lost drain, nor running forever.
RequestsResolve == \A r \in Requests : Active(r) ~> ~Active(r)

-----------------------------------------------------------------------------
(* What the tests and comments of the repository say, and the code does not. *)

\* "runs at most one request per thread": no two turns of a thread are alive.
OneLiveTurnPerThread ==
  \A p, q \in 1..submitted :
    turn[p] = "turn" /\ turn[q] = "turn" /\ p # q => row[p].thread # row[q].thread
=============================================================================
