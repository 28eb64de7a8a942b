----------------------- MODULE WebAgentRequests_proofs -----------------------
(***************************************************************************)
(* What holds of WebAgentRequests for every set of users, lanes, threads   *)
(* and keys, every limit and every bound.                                  *)
(***************************************************************************)
EXTENDS WebAgentRequests, FiniteSetTheorems, TLAPS

\* The parts of the inductive invariant that are not properties of their own.
\* Rows are numbered by acceptance.
RowsNumbered == \A r \in Requests : status[r] = "absent" <=> r > submitted

\* A row that never ran has no turn, no signalled controller and no recorded
\* cancellation: what lets a drain start it afresh.
FreshUntilClaimed ==
  \A r \in Requests : status[r] \in {"absent", "queued"} =>
    r \notin asked /\ turn[r] = "none" /\ r \notin aborted

\* Nothing is in memory while the process is down.
MemoryGone == ~up => \A r \in Requests : turn[r] = "none"

Inv == /\ TypeOK
       /\ RowsNumbered
       /\ FreshUntilClaimed
       /\ MemoryGone
       /\ RunningHasTurn
       /\ OneRunningPerThread
       /\ CancelledHasNoPrompt
       /\ KeysDistinct

\* The initial states satisfy every part.
LEMMA InitInv == Init => Inv
<1> SUFFICES ASSUME Init PROVE Inv
  OBVIOUS
<1> USE MapsAssumption, LimitsAssumption, BoundsAssumption DEF Init, Requests
<1>1. 1..0 = {}
  OBVIOUS
<1>2. row \in [1..submitted -> Rows]
  BY <1>1
<1>3. TypeOK
  <2>1. status \in [Requests -> Statuses] /\ turn \in [Requests -> {"none", "turn", "settled"}]
    BY DEF Statuses
  <2>2. submitted \in 0..MaxRequests /\ starts \in 0..MaxStarts /\ identity \in [Users -> 0..MaxVersion]
    OBVIOUS
  <2>3. session \in [Lanes -> {"open", "closed", "purged"}] /\ logout \in [Lanes -> {"idle", "waiting", "revoking"}]
    OBVIOUS
  <2> QED BY <1>2, <2>1, <2>2, <2>3 DEF TypeOK
<1>4. RowsNumbered /\ FreshUntilClaimed /\ MemoryGone /\ RunningHasTurn
  BY DEF RowsNumbered, FreshUntilClaimed, MemoryGone, RunningHasTurn
<1>5. OneRunningPerThread /\ CancelledHasNoPrompt /\ KeysDistinct
  BY <1>1 DEF OneRunningPerThread, CancelledHasNoPrompt, KeysDistinct
<1> QED
  BY <1>3, <1>4, <1>5 DEF Inv

\* Every step keeps the types: the values written are statuses, rows of known
\* threads and keys, and sets of requests.
LEMMA TypeStep == TypeOK /\ [Next]_vars => TypeOK'
<1> SUFFICES ASSUME TypeOK, [Next]_vars PROVE TypeOK'
  OBVIOUS
<1> USE MapsAssumption, LimitsAssumption, BoundsAssumption
<1> USE DEF TypeOK, Requests, Statuses, Outcomes
<1>1. ASSUME NEW t \in Threads, NEW k \in Keys, Enqueue(t, k) PROVE TypeOK'
  <2>1. /\ submitted + 1 \in Requests /\ submitted' = submitted + 1
        /\ identity[UserOf[LaneOf[t]]] \in 0..MaxVersion
    BY <1>1 DEF Enqueue
  <2>2. row' \in [1..submitted' -> Rows]
    BY <1>1, <2>1 DEF Enqueue, Rows
  <2> QED BY <1>1, <2>1, <2>2 DEF Enqueue, ScheduleDrain, process
<1>2. ASSUME NEW r \in Requests, Cancel(r) PROVE TypeOK'
  BY <1>2 DEF Cancel, CancelAll, Running, process
<1>3. ASSUME NEW l \in Lanes, LogoutBegin(l) PROVE TypeOK'
  BY <1>3 DEF LogoutBegin, CancelAll, LaneActive, Running, process
<1>4. ASSUME NEW l \in Lanes, LogoutDrained(l) PROVE TypeOK'
  BY <1>4 DEF LogoutDrained, rows, convs, process
<1>5. ASSUME NEW l \in Lanes, LogoutForced(l) PROVE TypeOK'
  BY <1>5 DEF LogoutForced, LaneActive, process
<1>6. ASSUME NEW l \in Lanes, RevokeKeeping(l) \/ SignIn(l) PROVE TypeOK'
  BY <1>6 DEF RevokeKeeping, SignIn, rows, process, memory
<1>7. ASSUME NEW l \in Lanes, RevokePurging(l) PROVE TypeOK'
  BY <1>7 DEF RevokePurging, DropThreads, process
<1>8. ASSUME NEW t \in Threads, DeleteConversation(t) PROVE TypeOK'
  BY <1>8 DEF DeleteConversation, DropThreads, process, memory
<1>9. ASSUME NEW u \in Users, SwitchIdentity(u) PROVE TypeOK'
  BY <1>9 DEF SwitchIdentity, rows, process, memory
<1>10. ASSUME Drain PROVE TypeOK'
  BY <1>10 DEF Drain, convs, process
<1>11. ASSUME NEW r \in Requests, Deadline(r) PROVE TypeOK'
  BY <1>11 DEF Deadline, rows, convs, process
<1>12. ASSUME NEW r \in Requests, RunnerStores(r) PROVE TypeOK'
  BY <1>12 DEF RunnerStores, rows, process, memory
<1>13. ASSUME NEW r \in Requests, NEW o \in Outcomes, Finish(r, o) PROVE TypeOK'
  BY <1>13 DEF Finish, FinishedStatus, DeletedWith, process
<1>14. ASSUME NEW r \in Requests, Settle(r) PROVE TypeOK'
  BY <1>14 DEF Settle, ScheduleDrain, rows, convs, process
<1>15. ASSUME CloseIngress \/ Close PROVE TypeOK'
  BY <1>15 DEF CloseIngress, Close, Running, rows, convs, process
<1>16. ASSUME Stop PROVE TypeOK'
  BY <1>16 DEF Stop, rows, convs
<1>17. ASSUME Start PROVE TypeOK'
  BY <1>17 DEF Start, Recovered, convs
<1>18. CASE UNCHANGED vars
  BY <1>18 DEF vars, rows, convs, process, memory
<1> QED
  BY <1>1, <1>2, <1>3, <1>4, <1>5, <1>6, <1>7, <1>8, <1>9, <1>10, <1>11, <1>12,
     <1>13, <1>14, <1>15, <1>16, <1>17, <1>18
  DEF Next, RunnerAnswers, RunnerFails, Exit, Crash

\* What the parts of the invariant read: a step that leaves these alone keeps
\* every part.
LEMMA Frame ==
  ASSUME Inv, TypeOK', status' = status, asked' = asked, row' = row,
         submitted' = submitted, up' = up, turn' = turn,
         prompts' \subseteq prompts,
         \A r \in Requests : r \in aborted' => r \in aborted \/ turn[r] # "none"
  PROVE  Inv'
BY DEF Inv, RowsNumbered, FreshUntilClaimed, MemoryGone, RunningHasTurn,
       OneRunningPerThread, CancelledHasNoPrompt, KeysDistinct, Exists, Requests

\* A step that only makes rows terminal or deletes them, in a way that removes
\* the prompts of the newly cancelled ones, keeps every part.
LEMMA Ending ==
  ASSUME Inv, TypeOK', row' = row, submitted' = submitted, up' = up, turn' = turn,
         prompts' \subseteq prompts,
         \A r \in Requests :
           /\ \/ status'[r] = status[r]
              \/ Active(r) /\ status'[r] = "cancelled"
              \/ status[r] # "absent" /\ status'[r] = "gone"
           /\ status'[r] = "cancelled" /\ status[r] # "cancelled" => r \notin prompts'
           /\ r \in asked' /\ r \notin asked => status[r] # "absent" /\ status'[r] # "queued"
           /\ r \in aborted' /\ r \notin aborted => turn[r] # "none"
  PROVE  Inv'
<1>1. RowsNumbered' /\ MemoryGone' /\ RunningHasTurn'
  BY DEF Inv, TypeOK, Statuses, RowsNumbered, MemoryGone, RunningHasTurn, Requests, Active
<1>2. FreshUntilClaimed' /\ CancelledHasNoPrompt'
  BY DEF Inv, TypeOK, Statuses, FreshUntilClaimed, CancelledHasNoPrompt, Requests, Active
<1>3. \A q \in 1..submitted : /\ status'[q] = "running" => status[q] = "running"
                              /\ Exists(q)' => Exists(q)
  BY BoundsAssumption DEF Inv, TypeOK, Exists, Active, Requests
<1>4. OneRunningPerThread'
  BY <1>3 DEF Inv, OneRunningPerThread
<1>5. KeysDistinct'
  BY <1>3 DEF Inv, KeysDistinct
<1> QED
  BY <1>1, <1>2, <1>4, <1>5 DEF Inv

LEMMA EnqueueStep ==
  ASSUME Inv, TypeOK', NEW t \in Threads, NEW k \in Keys, Enqueue(t, k)
  PROVE  Inv'
<1> DEFINE r == submitted + 1
<1> USE MapsAssumption, BoundsAssumption DEF Inv, TypeOK, Requests
<1>1. /\ r \in Requests /\ submitted' = r /\ submitted \in Nat
      /\ status' = [status EXCEPT ![r] = "queued"] /\ status[r] = "absent"
      /\ row' = [q \in 1..r |-> IF q = r
                 THEN [thread |-> t, key |-> k, version |-> identity[UserOf[LaneOf[t]]]]
                 ELSE row[q]]
      /\ prompts' = prompts \cup {r}
      /\ UNCHANGED <<asked, turn, aborted, up>>
  BY DEF Enqueue, RowsNumbered, process
<1>2. \A q \in 1..submitted : /\ q \in Requests /\ q # r
                              /\ row'[q] = row[q] /\ status'[q] = status[q]
  BY <1>1
<1>3. 1..submitted' = (1..submitted) \cup {r}
  BY <1>1
<1>4. RowsNumbered' /\ FreshUntilClaimed' /\ MemoryGone' /\ RunningHasTurn'
  BY <1>1 DEF RowsNumbered, FreshUntilClaimed, MemoryGone, RunningHasTurn
<1>5. OneRunningPerThread'
  BY <1>1, <1>2, <1>3 DEF OneRunningPerThread
<1>6. CancelledHasNoPrompt'
  BY <1>1 DEF CancelledHasNoPrompt
<1>7. KeysDistinct'
  <2>1. row'[r].thread = t /\ row'[r].key = k
    BY <1>1
  <2>2. \A q \in 1..submitted : Exists(q) /\ LaneOf[row[q].thread] = LaneOf[t] => row[q].key # k
    BY DEF Enqueue, KeyTaken, InLane
  <2>3. \A q \in 1..submitted : Exists(q)' => Exists(q)
    BY <1>2 DEF Exists
  <2> HIDE DEF r
  <2>4. ASSUME NEW p \in 1..submitted', NEW q \in 1..submitted', Exists(p)', Exists(q)', p # q,
               LaneOf[row'[p].thread] = LaneOf[row'[q].thread]
        PROVE  row'[p].key # row'[q].key
    <3>1. CASE p = r
      BY <1>2, <1>3, <2>1, <2>2, <2>3, <2>4, <3>1
    <3>2. CASE q = r
      BY <1>2, <1>3, <2>1, <2>2, <2>3, <2>4, <3>2
    <3>3. CASE p # r /\ q # r
      <4>1. p \in 1..submitted /\ q \in 1..submitted
        BY <1>3, <2>4, <3>3
      <4>2. row'[p] = row[p] /\ row'[q] = row[q] /\ Exists(p) /\ Exists(q)
        BY <1>2, <2>3, <2>4, <4>1
      <4>3. KeysDistinct
        BY DEF Inv
      <4> HIDE DEF Inv, TypeOK, Requests
      <4> QED BY <2>4, <4>1, <4>2, <4>3 DEF KeysDistinct
    <3> QED BY <3>1, <3>2, <3>3
  <2> QED BY <2>4 DEF KeysDistinct
<1> QED
  BY <1>4, <1>5, <1>6, <1>7

\* The drain: a claimed row shares its thread with no running row and with no
\* row claimed in the same microtask that keeps running.
LEMMA DrainStep ==
  ASSUME Inv, TypeOK', Drain
  PROVE  Inv'
<1> USE MapsAssumption, BoundsAssumption DEF Inv, TypeOK, Requests
<1>1. CASE closed
  <2>1. UNCHANGED <<status, asked, row, submitted, up, turn, prompts, aborted>>
    BY <1>1 DEF Drain, convs, process
  <2> QED BY <2>1, Frame
<1>2. CASE ~closed
  <2>1. PICK claimed \in SUBSET Claimable :
          /\ status' = [r \in Requests |->
               IF r \notin claimed THEN status[r]
               ELSE IF Matches(r) THEN "running" ELSE "failed"]
          /\ turn' = [r \in Requests |->
               IF r \notin claimed THEN turn[r]
               ELSE IF Matches(r) THEN "turn" ELSE "settled"]
    BY <1>2 DEF Drain
  <2>2. UNCHANGED <<asked, row, submitted, up, prompts, aborted>> /\ up
    BY DEF Drain, convs, process
  <2>3. \A c \in claimed :
          /\ c \in 1..submitted /\ c \in Requests /\ status[c] = "queued"
          /\ \A q \in 1..submitted : status[q] = "running" => row[q].thread # row[c].thread
    BY DEF Claimable
  <2>4. \A c, d \in claimed : c < d /\ Matches(c) => row[c].thread # row[d].thread
    BY DEF Claimable
  <2>5. RowsNumbered' /\ MemoryGone' /\ RunningHasTurn'
    BY <2>1, <2>2, <2>3 DEF RowsNumbered, MemoryGone, RunningHasTurn
  <2>6. FreshUntilClaimed' /\ CancelledHasNoPrompt'
    BY <2>1, <2>2, <2>3 DEF FreshUntilClaimed, CancelledHasNoPrompt
  <2>7. \A q \in 1..submitted : status'[q] = "running" =>
          status[q] = "running" \/ (q \in claimed /\ Matches(q))
    BY <2>1
  <2>8. OneRunningPerThread'
    <3>1. ASSUME NEW p \in 1..submitted, NEW q \in 1..submitted, p < q,
                 status'[p] = "running", status'[q] = "running"
          PROVE  row[p].thread # row[q].thread
      <4>1. CASE status[p] = "running" /\ status[q] = "running"
        BY <3>1, <4>1 DEF OneRunningPerThread
      <4>2. CASE p \in claimed /\ status[q] = "running"
        BY <2>3, <4>2
      <4>3. CASE status[p] = "running" /\ q \in claimed
        BY <2>3, <4>3
      <4>4. CASE p \in claimed /\ Matches(p) /\ q \in claimed
        BY <2>4, <3>1, <4>4
      <4> QED BY <2>7, <3>1, <4>1, <4>2, <4>3, <4>4
    <3> QED BY <3>1, <2>2 DEF OneRunningPerThread
  <2>9. KeysDistinct'
    <3>1. \A q \in 1..submitted : Exists(q)' => Exists(q)
      BY <2>1, <2>3 DEF Exists
    <3> QED BY <3>1, <2>2 DEF KeysDistinct
  <2> QED BY <2>5, <2>6, <2>8, <2>9
<1> QED BY <1>1, <1>2

\* The terminal write of a turn.
LEMMA FinishStep ==
  ASSUME Inv, TypeOK', up, NEW r \in Requests, NEW o \in Outcomes,
         turn[r] = "turn", Finish(r, o)
  PROVE  Inv'
<1> USE BoundsAssumption DEF Inv, TypeOK, Requests, Outcomes
<1>1. /\ status' = [status EXCEPT ![r] = FinishedStatus(r, o)]
      /\ turn' = [turn EXCEPT ![r] = "settled"]
      /\ prompts' = prompts \ DeletedWith(r, FinishedStatus(r, o))
      /\ UNCHANGED <<asked, row, submitted, up, aborted>>
  BY DEF Finish, process
<1>2. /\ status[r] \notin {"absent", "queued"}
      /\ FinishedStatus(r, o) # "running"
      /\ FinishedStatus(r, o) \in {status[r]} \cup {"completed", "failed", "cancelled"}
      /\ status[r] = "running" \/ FinishedStatus(r, o) = status[r]
  BY DEF FreshUntilClaimed, FinishedStatus
<1>3. RowsNumbered' /\ MemoryGone' /\ RunningHasTurn'
  BY <1>1, <1>2 DEF RowsNumbered, MemoryGone, RunningHasTurn
<1>4. FreshUntilClaimed' /\ CancelledHasNoPrompt'
  BY <1>1, <1>2 DEF FreshUntilClaimed, CancelledHasNoPrompt, DeletedWith
<1>5. \A q \in 1..submitted : /\ status'[q] = "running" => status[q] = "running"
                              /\ Exists(q)' => Exists(q)
  BY <1>1, <1>2 DEF Exists
<1>6. OneRunningPerThread' /\ KeysDistinct'
  BY <1>1, <1>5 DEF OneRunningPerThread, KeysDistinct
<1> QED BY <1>3, <1>4, <1>6

\* The restart: every running row fails, so no row needs a turn.
LEMMA StartStep ==
  ASSUME Inv, TypeOK', Start
  PROVE  Inv'
<1> USE BoundsAssumption DEF Inv, TypeOK, Requests, Outcomes
<1>1. PICK cutoff \in 0..submitted : status' = Recovered(cutoff)
  BY DEF Start
<1>2. ~up /\ UNCHANGED <<asked, row, submitted, turn, prompts, aborted>>
  BY DEF Start, convs
<1>3. \A q \in Requests : /\ status'[q] # "running"
                          /\ status[q] \in {"absent", "queued"} => status'[q] = status[q]
                          /\ status'[q] \in {"absent", "queued"} => status[q] = status'[q]
                          /\ status'[q] = "cancelled" => status[q] = "cancelled"
                          /\ Exists(q)' => Exists(q)
  BY <1>1 DEF Recovered, Exists
<1>4. RowsNumbered' /\ MemoryGone' /\ RunningHasTurn'
  BY <1>2, <1>3 DEF RowsNumbered, MemoryGone, RunningHasTurn
<1>5. FreshUntilClaimed' /\ CancelledHasNoPrompt'
  BY <1>2, <1>3 DEF FreshUntilClaimed, CancelledHasNoPrompt
<1>6. \A q \in 1..submitted : q \in Requests
  OBVIOUS
<1>7. OneRunningPerThread' /\ KeysDistinct'
  BY <1>2, <1>3, <1>6 DEF OneRunningPerThread, KeysDistinct
<1> QED BY <1>4, <1>5, <1>7

LEMMA StopStep ==
  ASSUME Inv, TypeOK', Stop
  PROVE  Inv'
BY DEF Stop, rows, convs, Inv, RowsNumbered, FreshUntilClaimed, MemoryGone, RunningHasTurn,
       OneRunningPerThread, CancelledHasNoPrompt, KeysDistinct, Exists, Requests

LEMMA SettleStep ==
  ASSUME Inv, TypeOK', NEW r \in Requests, Settle(r)
  PROVE  Inv'
BY DEF Settle, rows, convs, process, Inv, TypeOK, RowsNumbered, FreshUntilClaimed, MemoryGone,
       RunningHasTurn, OneRunningPerThread, CancelledHasNoPrompt, KeysDistinct, Exists, Requests

\* Every step keeps the invariant.
LEMMA InvStep == Inv /\ [Next]_vars => Inv'
<1> SUFFICES ASSUME Inv, [Next]_vars PROVE Inv'
  OBVIOUS
<1>0. TypeOK'
  BY TypeStep DEF Inv
<1>1. ASSUME NEW t \in Threads, NEW k \in Keys, Enqueue(t, k) PROVE Inv'
  BY <1>0, <1>1, EnqueueStep
<1>2. ASSUME NEW S \in SUBSET Requests, CancelAll(S),
             UNCHANGED <<row, submitted, up, turn>>
      PROVE  Inv'
  <2> USE DEF CancelAll, Running, Active, Requests
  <2>1. prompts' \subseteq prompts
    BY <1>2
  <2>2. \A r \in Requests : status'[r] = IF r \in S /\ status[r] = "queued"
                                        THEN "cancelled" ELSE status[r]
    BY <1>2
  <2>3. \A r \in Requests :
          /\ status'[r] = "cancelled" /\ status[r] # "cancelled" => r \notin prompts'
          /\ r \in asked' /\ r \notin asked => status[r] # "absent" /\ status'[r] # "queued"
          /\ r \in aborted' /\ r \notin aborted => turn[r] # "none"
    BY <1>2, <2>2
  <2> QED BY <1>0, <1>2, <2>1, <2>2, <2>3, Ending
<1>3. ASSUME NEW r \in Requests, Cancel(r) PROVE Inv'
  <2>1. {r} \in SUBSET Requests /\ CancelAll({r})
    BY <1>3 DEF Cancel
  <2>2. UNCHANGED <<row, submitted, up, turn>>
    BY <1>3 DEF Cancel, process
  <2> QED BY <1>2, <2>1, <2>2
<1>4. ASSUME NEW l \in Lanes, LogoutBegin(l) PROVE Inv'
  <2>1. LaneActive(l) \in SUBSET Requests /\ CancelAll(LaneActive(l))
    BY <1>4 DEF LogoutBegin, LaneActive
  <2>2. UNCHANGED <<row, submitted, up, turn>>
    BY <1>4 DEF LogoutBegin, process
  <2> QED BY <1>2, <2>1, <2>2
<1>5. ASSUME NEW l \in Lanes, LogoutForced(l) PROVE Inv'
  <2> DEFINE cancelled == {q \in 1..submitted : InLane(q, l) /\ status'[q] = "cancelled"}
  <2>1. /\ status' = [r \in Requests |-> IF r \in LaneActive(l) THEN "cancelled" ELSE status[r]]
        /\ asked' = asked \cup LaneActive(l)
        /\ prompts' = prompts \ cancelled
        /\ UNCHANGED <<row, submitted, up, turn, aborted>>
    BY <1>5 DEF LogoutForced, process
  <2>2. \A r \in LaneActive(l) : Active(r) /\ InLane(r, l) /\ r \in 1..submitted
    BY BoundsAssumption DEF LaneActive, Inv, TypeOK, RowsNumbered, Active, Requests
  <2>3. \A r \in Requests :
          /\ status'[r] = "cancelled" /\ status[r] # "cancelled" => r \notin prompts'
          /\ r \in asked' /\ r \notin asked => status[r] # "absent" /\ status'[r] # "queued"
    BY <2>1, <2>2 DEF Active
  <2> QED BY <1>0, <2>1, <2>2, <2>3, Ending
<1>6. ASSUME NEW T, DropThreads(T), UNCHANGED <<asked, row, submitted, up, turn, aborted>>
      PROVE  Inv'
  <2>1. \A r \in Requests : \/ status'[r] = status[r]
                            \/ r \in 1..submitted /\ status'[r] = "gone"
    BY <1>6 DEF DropThreads
  <2>2. \A r \in 1..submitted : r \in Requests /\ status[r] # "absent"
    BY BoundsAssumption DEF Inv, TypeOK, RowsNumbered, Requests
  <2>3. prompts' \subseteq prompts
    BY <1>6 DEF DropThreads
  <2> HIDE DEF DropThreads
  <2> QED BY <1>0, <1>6, <2>1, <2>2, <2>3, Ending
<1>7. ASSUME NEW l \in Lanes, RevokePurging(l) PROVE Inv'
  BY <1>6, <1>7 DEF RevokePurging, process
<1>8. ASSUME NEW t \in Threads, DeleteConversation(t) PROVE Inv'
  BY <1>6, <1>8 DEF DeleteConversation, process, memory
<1>9. ASSUME NEW l \in Lanes, LogoutDrained(l) \/ RevokeKeeping(l) \/ SignIn(l) PROVE Inv'
  BY <1>0, <1>9, Frame
  DEF LogoutDrained, RevokeKeeping, SignIn, rows, convs, process, memory
<1>10. ASSUME NEW u \in Users, SwitchIdentity(u) PROVE Inv'
  BY <1>0, <1>10, Frame DEF SwitchIdentity, rows, process, memory
<1>11. CASE Drain
  BY <1>0, <1>11, DrainStep
<1>12. ASSUME NEW r \in Requests, Deadline(r) PROVE Inv'
  BY <1>0, <1>12, Frame DEF Deadline, rows, convs, process
<1>13. ASSUME NEW r \in Requests, RunnerStores(r) PROVE Inv'
  BY <1>0, <1>13, Frame DEF RunnerStores, rows, process, memory
<1>14. ASSUME NEW r \in Requests, RunnerAnswers(r) PROVE Inv'
  <2>1. PICK o \in Outcomes : Finish(r, o)
    BY <1>14 DEF RunnerAnswers, Outcomes
  <2> QED BY <1>0, <1>14, <2>1, FinishStep DEF RunnerAnswers
<1>15. ASSUME NEW r \in Requests, NEW c \in BOOLEAN, RunnerFails(r, c) PROVE Inv'
  <2>1. PICK o \in Outcomes : Finish(r, o)
    BY <1>15 DEF RunnerFails, Outcomes
  <2> QED BY <1>0, <1>15, <2>1, FinishStep DEF RunnerFails
<1>16. ASSUME NEW r \in Requests, Settle(r) PROVE Inv'
  BY <1>0, <1>16, SettleStep
<1>17. CASE CloseIngress \/ Close
  BY <1>0, <1>17, Frame DEF CloseIngress, Close, Running, rows, convs, process
<1>18. CASE Exit \/ Crash
  BY <1>0, <1>18, StopStep DEF Exit, Crash
<1>19. CASE Start
  BY <1>0, <1>19, StartStep
<1>20. CASE UNCHANGED vars
  BY <1>0, <1>20, Frame DEF vars, rows, convs, process, memory
<1> QED
  BY <1>1, <1>3, <1>4, <1>5, <1>7, <1>8, <1>9, <1>10, <1>11, <1>12, <1>13,
     <1>14, <1>15, <1>16, <1>17, <1>18, <1>19, <1>20
  DEF Next

\* The inductive invariant holds in every reachable state.
THEOREM Invariant == Spec => []Inv
  BY InitInv, InvStep, PTL DEF Spec

\* The rows and the memory of the coordinator keep their types.
THEOREM TypeCorrect == Spec => []TypeOK
  BY Invariant, PTL DEF Inv

\* No two rows of one thread are ever running (claimNext's promise).
THEOREM ThreadsSerialised == Spec => []OneRunningPerThread
  BY Invariant, PTL DEF Inv

\* A running row always has the turn that will finish it.
THEOREM NoOrphanedRunning == Spec => []RunningHasTurn
  BY Invariant, PTL DEF Inv

\* A cancelled request's prompt is never in the transcript.
THEOREM CancelledPromptGone == Spec => []CancelledHasNoPrompt
  BY Invariant, PTL DEF Inv

\* A lane never holds two rows for one idempotency key.
THEOREM SubmittedOnce == Spec => []KeysDistinct
  BY Invariant, PTL DEF Inv

-----------------------------------------------------------------------------
(* The concurrency limit.                                                  *)

LEMMA RunningFinite == TypeOK => IsFiniteSet(Running)
<1>1. IsFiniteSet(Requests)
  BY FS_Interval, BoundsAssumption DEF Requests
<1> QED BY <1>1, FS_Subset DEF Running

\* Only the drain adds turns to the running map.
LEMMA TurnsOnlyFromDrain ==
  ASSUME TypeOK, [Next]_vars, ~Drain
  PROVE  Running' \subseteq Running
<1> USE DEF Running, TypeOK
<1>1. ASSUME NEW r \in Requests, NEW o, turn[r] = "turn", Finish(r, o)
      PROVE  Running' \subseteq Running
  BY <1>1 DEF Finish
<1>2. ASSUME NEW r \in Requests, RunnerAnswers(r) \/ \E c \in BOOLEAN : RunnerFails(r, c)
      PROVE  Running' \subseteq Running
  BY <1>1, <1>2 DEF RunnerAnswers, RunnerFails
<1>3. ASSUME NEW r \in Requests, Settle(r) PROVE Running' \subseteq Running
  BY <1>3 DEF Settle
<1>4. CASE Stop
  BY <1>4 DEF Stop
<1>5. CASE \/ \E t \in Threads, k \in Keys : Enqueue(t, k)
           \/ \E r \in Requests : Cancel(r) \/ Deadline(r) \/ RunnerStores(r)
           \/ \E l \in Lanes : LogoutBegin(l) \/ LogoutDrained(l) \/ LogoutForced(l)
           \/ \E l \in Lanes : RevokeKeeping(l) \/ RevokePurging(l) \/ SignIn(l)
           \/ \E t \in Threads : DeleteConversation(t)
           \/ \E u \in Users : SwitchIdentity(u)
           \/ CloseIngress \/ Close \/ Start \/ UNCHANGED vars
  <2>1. turn' = turn
    BY <1>5 DEF Enqueue, Cancel, Deadline, RunnerStores, LogoutBegin, LogoutDrained,
       LogoutForced, RevokeKeeping, RevokePurging, SignIn, DeleteConversation,
       SwitchIdentity, CloseIngress, Close, Start, vars, memory
  <2> QED BY <2>1
<1> QED BY <1>2, <1>3, <1>4, <1>5 DEF Next, Exit, Crash

LEMMA ConcurrencyStep ==
  ASSUME Inv, TypeOK', ConcurrencyBounded, [Next]_vars
  PROVE  ConcurrencyBounded'
<1> USE LimitsAssumption
<1>1. IsFiniteSet(Running) /\ Cardinality(Running) \in Nat
  BY RunningFinite, FS_CardinalityType DEF Inv
<1>2. CASE Running' \subseteq Running
  <2>1. Cardinality(Running') \in Nat /\ Cardinality(Running') <= Cardinality(Running)
    BY <1>1, <1>2, FS_Subset, FS_CardinalityType
  <2> QED BY <1>1, <2>1 DEF ConcurrencyBounded
<1>3. CASE Drain /\ ~closed
  <2>1. PICK claimed \in SUBSET Claimable :
          /\ Cardinality(claimed) <= FreeSlots
          /\ turn' = [r \in Requests |-> IF r \notin claimed THEN turn[r]
                       ELSE IF Matches(r) THEN "turn" ELSE "settled"]
    BY <1>3 DEF Drain
  <2>2. IsFiniteSet(claimed)
    <3>1. claimed \subseteq 1..submitted /\ submitted \in Int
      BY DEF Claimable, Inv, TypeOK
    <3>2. IsFiniteSet(1..submitted)
      BY <3>1, FS_Interval
    <3> QED BY <3>1, <3>2, FS_Subset
  <2>3. Running' \subseteq Running \cup claimed
    BY <2>1 DEF Running
  <2>4. /\ IsFiniteSet(Running \cup claimed)
        /\ Cardinality(Running \cup claimed)
             = Cardinality(Running) + Cardinality(claimed) - Cardinality(Running \cap claimed)
    BY <1>1, <2>2, FS_Union
  <2>5. /\ Cardinality(claimed) \in Nat
        /\ Cardinality(Running \cap claimed) \in Nat
        /\ Cardinality(Running') \in Nat
        /\ Cardinality(Running') <= Cardinality(Running \cup claimed)
    BY <1>1, <2>2, <2>3, <2>4, FS_Subset, FS_Intersection, FS_CardinalityType
  <2> QED BY <1>1, <2>1, <2>4, <2>5 DEF ConcurrencyBounded, FreeSlots
<1>4. CASE Drain /\ closed
  BY <1>2, <1>4 DEF Drain, Running
<1> QED BY <1>2, <1>3, <1>4, TurnsOnlyFromDrain DEF Inv

\* The running map never exceeds maxConcurrentAgentRequests, although rows
\* become terminal under their turns.
THEOREM ConcurrencyLimited == Spec => []ConcurrencyBounded
<1>1. Init => ConcurrencyBounded
  <2>1. ASSUME Init PROVE Running = {}
    BY <2>1 DEF Init, Running
  <2> QED BY <2>1, FS_EmptySet, LimitsAssumption DEF ConcurrencyBounded
<1>2. Inv /\ Inv' /\ ConcurrencyBounded /\ [Next]_vars => ConcurrencyBounded'
  BY ConcurrencyStep DEF Inv
<1> QED BY <1>1, <1>2, Invariant, PTL DEF Spec

-----------------------------------------------------------------------------
(* Cancelled turns and the life of one request.                            *)

\* A turn settles only in finish(), which takes the messages of a cancelled
\* row with it, or in a drain whose row fails at once.
LEMMA SettlesClean ==
  ASSUME Inv, [Next]_vars, NEW r \in Requests,
         turn[r] = "turn", turn'[r] = "settled", status'[r] = "cancelled"
  PROVE  r \notin prompts' /\ r \notin answers'
<1> USE DEF Inv, TypeOK
<1>1. ASSUME NEW q \in Requests, NEW o, Finish(q, o) PROVE r \notin prompts' /\ r \notin answers'
  BY <1>1 DEF Finish, DeletedWith
<1>2. CASE \E q \in Requests : RunnerAnswers(q) \/ \E c \in BOOLEAN : RunnerFails(q, c)
  BY <1>1, <1>2 DEF RunnerAnswers, RunnerFails
<1>3. CASE Drain
  <2>1. PICK claimed \in SUBSET Claimable :
          turn' = [q \in Requests |-> IF q \notin claimed THEN turn[q]
                     ELSE IF Matches(q) THEN "turn" ELSE "settled"]
    BY <1>3 DEF Drain
  <2>2. \A c \in claimed : status[c] = "queued"
    BY DEF Claimable
  <2> QED BY <2>1, <2>2 DEF FreshUntilClaimed
<1>4. CASE (\E q \in Requests : Settle(q)) \/ Stop
  BY <1>4 DEF Settle, Stop
<1>5. CASE turn' = turn
  BY <1>5
<1> QED
  BY <1>2, <1>3, <1>4, <1>5
  DEF Next, Enqueue, Cancel, Deadline, RunnerStores, LogoutBegin, LogoutDrained,
      LogoutForced, RevokeKeeping, RevokePurging, SignIn, DeleteConversation,
      SwitchIdentity, CloseIngress, Close, Start, Exit, Crash, vars, memory

\* A turn that ends on a cancelled row leaves none of its messages, also when
\* the row was forced terminal before the turn's last write.
THEOREM CancelledTurnsClean == Spec => CancelledTurnLeavesNothing
<1>1. Inv /\ [Next]_vars =>
        [\A r \in Requests :
           turn[r] = "turn" /\ turn'[r] = "settled" /\ status'[r] = "cancelled"
             => r \notin prompts' /\ r \notin answers']_vars
  BY SettlesClean
<1> QED BY <1>1, Invariant, PTL DEF Spec, CancelledTurnLeavesNothing

\* One request in one step of the queue makes one move of RequestLifecycle.
LEMMA LifecycleMove ==
  ASSUME Inv, TypeOK', [Next]_vars, NEW r \in Requests
  PROVE  Lifecycle!Move(r)
<1> USE DEF Lifecycle!Move, Lifecycle!Submit, Lifecycle!Withdraw, Lifecycle!Begin,
            Lifecycle!Refuse, Lifecycle!Ask, Lifecycle!Complete, Lifecycle!Fail,
            Lifecycle!Abandon, Lifecycle!Drop, Lifecycle!Keep, Lifecycle!Becomes,
            Lifecycle!AskedSame
<1>1. CASE status' = status /\ asked' = asked
  BY <1>1
<1>2. ASSUME NEW t \in Threads, NEW k \in Keys, Enqueue(t, k) PROVE Lifecycle!Move(r)
  <2>1. /\ status' = [status EXCEPT ![submitted + 1] = "queued"] /\ asked' = asked
        /\ r = submitted + 1 => status[r] = "absent" /\ r \notin asked
    BY <1>2 DEF Enqueue, Inv, TypeOK, RowsNumbered, FreshUntilClaimed, Requests
  <2> QED BY <2>1 DEF Inv, TypeOK
<1>3. ASSUME NEW S, CancelAll(S) PROVE Lifecycle!Move(r)
  <2>1. /\ status'[r] = IF r \in S /\ status[r] = "queued" THEN "cancelled" ELSE status[r]
        /\ r \in asked' <=> r \in asked \/ (r \in S /\ status[r] \in {"queued", "running"})
    BY <1>3 DEF CancelAll, Active
  <2> QED BY <2>1
<1>4. ASSUME NEW l \in Lanes, LogoutForced(l) PROVE Lifecycle!Move(r)
  <2>1. /\ status'[r] = IF r \in LaneActive(l) THEN "cancelled" ELSE status[r]
        /\ r \in asked' <=> r \in asked \/ r \in LaneActive(l)
        /\ r \in LaneActive(l) => status[r] \in {"queued", "running"}
    BY <1>4 DEF LogoutForced, LaneActive, Active
  <2> QED BY <2>1
<1>5. ASSUME NEW T, DropThreads(T), asked' = asked PROVE Lifecycle!Move(r)
  <2>1. status'[r] = status[r] \/ (status'[r] = "gone" /\ r \in 1..submitted)
    BY <1>5 DEF DropThreads
  <2>2. r \in 1..submitted => status[r] # "absent"
    BY DEF Inv, TypeOK, RowsNumbered, Requests
  <2> QED BY <1>5, <2>1, <2>2
<1>6. CASE Drain
  <2>1. CASE closed
    BY <1>1, <1>6, <2>1 DEF Drain
  <2>2. CASE ~closed
    <3>1. PICK claimed \in SUBSET Claimable :
            status' = [q \in Requests |-> IF q \notin claimed THEN status[q]
                         ELSE IF Matches(q) THEN "running" ELSE "failed"]
      BY <1>6, <2>2 DEF Drain
    <3>2. asked' = asked
      BY <1>6 DEF Drain
    <3>3. r \in claimed => status[r] = "queued" /\ r \notin asked
      BY DEF Claimable
    <3> QED BY <3>1, <3>2, <3>3
  <2> QED BY <2>1, <2>2
<1>7. ASSUME NEW q \in Requests, NEW o, Finish(q, o),
             o \in {"failed", "cancelled"} \/ (o = "completed" /\ ~(q \in asked /\ Exists(q)))
      PROVE  Lifecycle!Move(r)
  <2>1. /\ status' = [status EXCEPT ![q] = FinishedStatus(q, o)] /\ asked' = asked
    BY <1>7 DEF Finish
  <2>2. \/ FinishedStatus(q, o) = status[q]
        \/ /\ status[q] = "running" /\ FinishedStatus(q, o) \in {"failed", "cancelled"}
        \/ /\ status[q] = "running" /\ FinishedStatus(q, o) = "completed" /\ q \notin asked
    BY <1>7 DEF FinishedStatus, Exists
  <2> QED BY <2>1, <2>2 DEF Inv, TypeOK
<1>8. CASE Start
  <2>1. PICK cutoff \in 0..submitted : status' = Recovered(cutoff)
    BY <1>8 DEF Start
  <2>2. asked' = asked
    BY <1>8 DEF Start
  <2>3. \/ status'[r] = status[r]
        \/ status[r] = "running" /\ status'[r] = "failed"
        \/ status[r] # "absent" /\ status'[r] = "gone"
    BY <2>1 DEF Recovered, Outcomes
  <2> QED BY <2>2, <2>3
<1>9. CASE \E q \in Requests : Cancel(q)
  BY <1>3, <1>9 DEF Cancel
<1>10. CASE \E l \in Lanes : LogoutBegin(l)
  BY <1>3, <1>10 DEF LogoutBegin
<1>11. CASE \E l \in Lanes : RevokePurging(l)
  BY <1>5, <1>11 DEF RevokePurging
<1>12. CASE \E t \in Threads : DeleteConversation(t)
  BY <1>5, <1>12 DEF DeleteConversation
<1>13. ASSUME NEW q \in Requests, RunnerAnswers(q) PROVE Lifecycle!Move(r)
  BY <1>7, <1>13 DEF RunnerAnswers
<1>14. ASSUME NEW q \in Requests, NEW c \in BOOLEAN, RunnerFails(q, c) PROVE Lifecycle!Move(r)
  BY <1>7, <1>14 DEF RunnerFails
<1>15. CASE \/ \E l \in Lanes : LogoutDrained(l) \/ RevokeKeeping(l) \/ SignIn(l)
            \/ \E u \in Users : SwitchIdentity(u)
            \/ \E q \in Requests : Deadline(q) \/ RunnerStores(q) \/ Settle(q)
            \/ CloseIngress \/ Close \/ Stop \/ UNCHANGED vars
  <2>1. status' = status /\ asked' = asked
    BY <1>15 DEF LogoutDrained, RevokeKeeping, SignIn, SwitchIdentity, Deadline,
       RunnerStores, Settle, CloseIngress, Close, Stop, vars, rows
  <2> QED BY <1>1, <2>1
<1> QED
  BY <1>2, <1>4, <1>6, <1>8, <1>9, <1>10, <1>11, <1>12, <1>13, <1>14, <1>15
  DEF Next, Exit, Crash

\* Every request lives the life RequestLifecycle promises: outcomes are final,
\* nothing that ran runs again, and what was cancelled does not complete.
THEOREM LifecycleImplemented == Spec => LifecycleKept
<1>1. Init => Lifecycle!Init
  BY DEF Init, Lifecycle!Init
<1>2. Inv /\ Inv' /\ [Next]_vars => [Lifecycle!Next]_(Lifecycle!vars)
  <2> SUFFICES ASSUME Inv, Inv', [Next]_vars PROVE Lifecycle!Next
    OBVIOUS
  <2>1. status' \in [Requests -> Lifecycle!Statuses] /\ asked' \subseteq Requests
    BY DEF Inv, TypeOK, Statuses, Outcomes, Lifecycle!Statuses, Lifecycle!Outcomes
  <2>2. \A r \in Requests : Lifecycle!Move(r)
    BY LifecycleMove DEF Inv
  <2> QED BY <2>1, <2>2 DEF Lifecycle!Next
<1> QED BY <1>1, <1>2, Invariant, PTL DEF Spec, LifecycleKept, Lifecycle!Spec
=============================================================================
