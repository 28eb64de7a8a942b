------------------------- MODULE RouteMonitor_proofs -------------------------
(***************************************************************************)
(* Proofs about RouteMonitor, for all killmails, events, monitors, polls   *)
(* and process starts: the invariants of the runs and AlertedOnce.         *)
(***************************************************************************)
EXTENDS RouteMonitor, TLAPS, FiniteSetTheorems, SequenceTheorems

CountedBy(r) == {k \in Kills : <<r, k>> \in counted}

Instances ==
  [status : {"none", "active", "gone"}, ready : BOOLEAN, killsSeen : Nat,
   seen : SUBSET Kills, pending : 0..MaxSeq, jobs : Seq(Jobs),
   polling : SUBSET Polls, refused : SUBSET Kills]

\* The types, with the instances as a function of records.
Typed ==
  /\ head \in 0..MaxSeq /\ cursor \in 0..head
  /\ row \in [run : 0..MaxRuns, killsSeen : Nat]
  /\ dedup \subseteq Runs \X Kills /\ counted \subseteq Runs \X Known(MaxSeq)
  /\ up \in BOOLEAN /\ starts \in 0..MaxStarts /\ restored \in BOOLEAN
  /\ at \in {0, cursor + 1} /\ calling \in {NoOne, Capture} \cup Runs
  /\ returned \subseteq {Capture} \cup Runs
  /\ plan \in {"idle", "scanning", "scanned", "starting"}
  /\ captured \in 0..MaxSeq /\ snapshot \subseteq Kills /\ runs \in 0..MaxRuns
  /\ inst \in [Runs -> Instances]

\* The poller works on a published event, once the monitors are restored.
Polled ==
  /\ at <= head /\ (at # 0 => restored) /\ (calling # NoOne => at # 0)

\* A monitor that was not started is nowhere.
Started ==
  /\ row.run <= runs
  /\ \A r \in Runs : /\ inst[r].status = "none" => inst[r] = NoInstance
                     /\ r > runs => /\ inst[r].status = "none" /\ r \notin returned
                                    /\ CountedBy(r) = {}

\* A job of the feed is of the event in work; only the first job is past its
\* queue, and nobody else has written its killmail since.
Queues ==
  \A r \in Runs : \A i \in DOMAIN inst[r].jobs :
    /\ inst[r].jobs[i].from = "live" => calling = r /\ inst[r].jobs[i].event = at
    /\ inst[r].jobs[i].step # "queued" => i = 1 /\ <<r, Kill(r, i)>> \notin dedup
    /\ \A j \in DOMAIN inst[r].jobs : inst[r].jobs[i].from = inst[r].jobs[j].from => i = j

\* The counters count what was counted, and the dedup rows have all of it.
Counts ==
  /\ row.run = 0 => row.killsSeen = 0
  /\ row.run # 0 => /\ row.killsSeen = Cardinality(CountedBy(row.run))
                    /\ \A k \in CountedBy(row.run) : <<row.run, k>> \in dedup
  /\ \A r \in Runs :
       inst[r].status # "none" => inst[r].killsSeen = Cardinality(CountedBy(r))

\* A monitor that waits for its captured event to be drained.
Draining(r) == ~inst[r].ready /\ (inst[r].jobs # <<>> \/ inst[r].pending # 0)

\* While the planner works the cursor waits for it, behind its snapshot, and so
\* does a monitor that has not drained the captured event.
HandedOver ==
  /\ plan # "idle" => Capture \notin returned
  /\ plan \in {"scanning", "scanned"} => runs < MaxRuns
  /\ plan \in {"scanned", "starting"} => Known(cursor) \subseteq snapshot
  /\ \A r \in Runs : Active(r) /\ Draining(r) =>
       plan = "starting" /\ r = runs /\ snapshot \subseteq inst[r].seen

\* A monitor that has returned knows the event.
Heard ==
  at # 0 => \A r \in Runs : r \in returned /\ Active(r) =>
              KillOf[at] \in inst[r].seen \cup inst[r].refused

IInv == /\ Typed /\ Polled /\ Started /\ Queues /\ Counts /\ HandedOver /\ Heard
        /\ RowIsActive /\ NothingMissed

USE DEF Events, Runs, Capture, NoOne

-----------------------------------------------------------------------------
(* The operators of the model.                                              *)

\* A queue without its first job is its tail.
LEMMA WithoutFirst ==
  ASSUME NEW s \in Seq(Jobs), s # <<>>
  PROVE  Without(s, 1) = Tail(s)
<1>1. SubSeq(s, 1, 0) = <<>>
  BY SubSeqEmpty
<1>2. Tail(s) = SubSeq(s, 2, Len(s)) /\ Tail(s) \in Seq(Jobs)
  BY TailIsSubSeq, HeadTailProperties
<1>3. Without(s, 1) = <<>> \o Tail(s)
  BY <1>1, <1>2 DEF Without
<1> QED
  BY <1>2, <1>3, ConcatEmptySeq, Zenon

\* What is left of a queue, and what a queue with a new job has.
LEMMA TailOfJobs ==
  ASSUME NEW s \in Seq(Jobs), s # <<>>
  PROVE  /\ Tail(s) \in Seq(Jobs) /\ 1 \in DOMAIN s /\ s[1] \in Jobs
         /\ \A i \in DOMAIN Tail(s) : i + 1 \in DOMAIN s /\ Tail(s)[i] = s[i + 1]
<1>1. Len(s) \in Nat \ {0} /\ DOMAIN s = 1..Len(s)
  BY EmptySeq, LenProperties
<1>2. /\ Tail(s) \in Seq(Jobs) /\ Len(Tail(s)) = Len(s) - 1
      /\ \A i \in 1..Len(Tail(s)) : Tail(s)[i] = s[i + 1]
  BY HeadTailProperties
<1>3. DOMAIN Tail(s) = 1..Len(Tail(s))
  BY <1>2, LenProperties
<1>4. s[1] \in Jobs
  BY <1>1, ElementOfSeq
<1> QED
  BY <1>1, <1>2, <1>3, <1>4

LEMMA JobAppended ==
  ASSUME NEW s \in Seq(Jobs), NEW job \in Jobs
  PROVE  /\ Append(s, job) \in Seq(Jobs) /\ Append(s, job) # <<>>
         /\ DOMAIN Append(s, job) = DOMAIN s \cup {Len(s) + 1}
         /\ Len(s) + 1 \notin DOMAIN s /\ Append(s, job)[Len(s) + 1] = job
         /\ \A i \in DOMAIN s : Append(s, job)[i] = s[i]
         /\ Len(s) + 1 = 1 <=> s = <<>>
<1>1. Len(s) \in Nat /\ DOMAIN s = 1..Len(s)
  BY LenProperties
<1>2. /\ Append(s, job) \in Seq(Jobs) /\ Append(s, job) # <<>>
      /\ Len(Append(s, job)) = Len(s) + 1
      /\ \A i \in 1..Len(s) : Append(s, job)[i] = s[i]
      /\ Append(s, job)[Len(s) + 1] = job
  BY AppendProperties
<1>3. DOMAIN Append(s, job) = 1..(Len(s) + 1)
  BY <1>2, LenProperties
<1>4. Len(s) = 0 <=> s = <<>>
  BY EmptySeq
<1> QED
  BY <1>1, <1>2, <1>3, <1>4

\* A run can count at most one killmail for each event.
LEMMA KnownIsFinite ==
  IsFiniteSet(Known(MaxSeq)) /\ Cardinality(Known(MaxSeq)) <= MaxSeq
<1> DEFINE f == [e \in 1..MaxSeq |-> KillOf[e]]
<1>1. f \in Surjection(1..MaxSeq, Known(MaxSeq))
  BY DEF Surjection, Known
<1>2. IsFiniteSet(1..MaxSeq) /\ Cardinality(1..MaxSeq) = MaxSeq
  BY FS_Interval, BoundsAssumption
<1>3. IsFiniteSet(Known(MaxSeq)) /\ Cardinality(Known(MaxSeq)) <= Cardinality(1..MaxSeq)
  BY <1>1, <1>2, FS_Surjection
<1> QED
  BY <1>2, <1>3

LEMMA CountsAreBounded ==
  ASSUME Typed, NEW r
  PROVE  IsFiniteSet(CountedBy(r)) /\ Cardinality(CountedBy(r)) \in 0..MaxSeq
<1>1. CountedBy(r) \in SUBSET Known(MaxSeq)
  BY DEF CountedBy, Typed
<1>2. /\ IsFiniteSet(CountedBy(r))
      /\ Cardinality(CountedBy(r)) <= Cardinality(Known(MaxSeq))
  BY <1>1, KnownIsFinite, FS_Subset
<1>3. Cardinality(CountedBy(r)) \in Nat /\ Cardinality(Known(MaxSeq)) \in Nat
  BY <1>2, KnownIsFinite, FS_CardinalityType
<1> QED
  BY <1>2, <1>3, KnownIsFinite, BoundsAssumption

LEMMA KillIsKnown ==
  ASSUME NEW e \in Events
  PROVE  KillOf[e] \in Kills /\ KillOf[e] \in Known(MaxSeq)
BY EventsAssumption DEF Known

LEMMA KnownIsOfKills == \A n \in 0..MaxSeq : Known(n) \subseteq Kills
BY EventsAssumption, BoundsAssumption DEF Known

-----------------------------------------------------------------------------
(* Steps that end a job.                                                    *)

LEMMA InitIInv == Init => IInv
<1> SUFFICES ASSUME Init PROVE IInv
  OBVIOUS
<1> USE DEF Init
<1>1. NoInstance \in Instances
  BY BoundsAssumption, EmptySeq DEF NoInstance, Instances
<1>2. Typed
  <2>1. restored \in BOOLEAN /\ up \in BOOLEAN
    BY Zenon
  <2> QED BY <1>1, <2>1, BoundsAssumption DEF Typed, NoRow
<1>3. \A r \in Runs : inst[r].jobs = <<>> /\ inst[r].status = "none"
  BY DEF NoInstance
<1>4. DOMAIN <<>> = {}
  BY EmptySeq, LenProperties
<1>5. Queues
  BY <1>3, <1>4 DEF Queues
<1>6. Started /\ Counts
  BY <1>3 DEF Started, Counts, NoRow, CountedBy
<1> QED
  BY <1>2, <1>3, <1>5, <1>6
     DEF IInv, Polled, HandedOver, Heard, RowIsActive, NothingMissed, Active, NoRow

\* What Ended does to the instances and to the feed.
LEMMA EndedStep ==
  ASSUME IInv, NEW r \in Runs, NEW i, Turn(r, i), NEW ok \in BOOLEAN,
         NEW m \in Instances, m.jobs = inst[r].jobs, m.ready = inst[r].ready,
         m.pending = inst[r].pending, Ended(r, i, m, ok)
  PROVE  LET job == inst[r].jobs[1]
         IN /\ i = 1 /\ inst[r].jobs # <<>> /\ job \in Jobs
            /\ inst' \in [Runs -> Instances]
            /\ \A p \in Runs : p # r => inst'[p] = inst[p]
            /\ inst'[r].jobs = Tail(inst[r].jobs)
            /\ inst'[r].status = m.status /\ inst'[r].killsSeen = m.killsSeen
            /\ inst'[r].seen = m.seen /\ inst'[r].refused = m.refused
            /\ inst'[r].ready = (inst[r].ready \/ job.from = "initial")
            /\ inst'[r].pending \in {0, inst[r].pending}
            /\ UNCHANGED <<head, cursor, planner, process>>
            /\ job.from # "live" => UNCHANGED <<at, calling, returned>>
            /\ job.from = "live" =>
                 /\ calling = r /\ job.event = at /\ calling' = NoOne
                 /\ ok => returned' = returned \cup {r} /\ at' = at
                 /\ ~ok => at' = 0 /\ returned' = {}
<1> DEFINE s == inst[r].jobs
<1>1. inst \in [Runs -> Instances] /\ inst[r] \in Instances /\ s \in Seq(Jobs)
  BY DEF IInv, Typed, Instances
<1>2. i = 1 /\ 1 \in DOMAIN s /\ s # <<>>
  <2>1. DOMAIN <<>> = {}
    BY EmptySeq, LenProperties
  <2> QED BY <2>1 DEF Turn
<1>3. Without(s, 1) = Tail(s) /\ Tail(s) \in Seq(Jobs) /\ s[1] \in Jobs
  BY <1>1, <1>2, WithoutFirst, TailOfJobs
<1> DEFINE n == [m EXCEPT !.jobs = Without(@, i),
                          !.pending = IF s[i].from # "live" /\ ok THEN 0 ELSE @,
                          !.ready = @ \/ s[i].from = "initial"]
<1>4. inst' = [inst EXCEPT ![r] = n]
  BY DEF Ended
<1>5. n.jobs = Tail(s) /\ n.status = m.status /\ n.killsSeen = m.killsSeen
      /\ n.seen = m.seen /\ n.refused = m.refused
      /\ n.ready = (m.ready \/ s[1].from = "initial") /\ n.polling = m.polling
      /\ n.pending = IF s[1].from # "live" /\ ok THEN 0 ELSE m.pending
  BY <1>2, <1>3 DEF Instances
<1>6. n \in Instances
  <2>1. (m.ready \/ s[i].from = "initial") \in BOOLEAN
    BY Zenon
  <2>2. (IF s[i].from # "live" /\ ok THEN 0 ELSE m.pending) \in 0..MaxSeq
    BY BoundsAssumption DEF Instances
  <2>3. Without(m.jobs, i) \in Seq(Jobs)
    BY <1>2, <1>3
  <2> QED BY <2>1, <2>2, <2>3 DEF Instances
<1>7. inst' \in [Runs -> Instances] /\ inst'[r] = n /\ \A p \in Runs : p # r => inst'[p] = inst[p]
  BY <1>1, <1>4, <1>6
<1>8. s[1].from = "live" => calling = r /\ s[1].event = at
  BY <1>2 DEF IInv, Queues
<1>9. /\ s[1].from # "live" => UNCHANGED <<at, calling, returned>>
      /\ s[1].from = "live" => /\ calling' = NoOne
                               /\ ok => returned' = returned \cup {r} /\ at' = at
                               /\ ~ok => at' = 0 /\ returned' = {}
      /\ UNCHANGED <<head, cursor, planner, process>>
  BY <1>2 DEF Ended
<1> QED
  BY <1>2, <1>3, <1>5, <1>7, <1>8, <1>9

\* A job that ends keeps the invariant, when the counters are kept and what the
\* feed handed in is known.
LEMMA EndedInv ==
  ASSUME IInv, NEW r \in Runs, NEW i, Turn(r, i), NEW ok \in BOOLEAN,
         NEW m \in Instances, m.jobs = inst[r].jobs, m.ready = inst[r].ready,
         m.pending = inst[r].pending, m.status = inst[r].status,
         inst[r].seen \subseteq m.seen, inst[r].refused \subseteq m.refused,
         Ended(r, i, m, ok),
         dedup' \subseteq dedup \cup {<<r, k>> : k \in Kills},
         counted' = counted \/ counted' = counted \cup {<<r, Kill(r, 1)>>},
         row' \in [run : 0..MaxRuns, killsSeen : Nat], row'.run = row.run, Counts',
         inst[r].jobs[1].from = "live" /\ ok /\ Active(r)
           => KillOf[at] \in m.seen \cup m.refused
  PROVE  IInv'
<1> DEFINE s == inst[r].jobs
           job == s[1]
<1>1. /\ i = 1 /\ s # <<>> /\ job \in Jobs
      /\ inst' \in [Runs -> Instances]
      /\ \A p \in Runs : p # r => inst'[p] = inst[p]
      /\ inst'[r].jobs = Tail(s) /\ inst'[r].status = inst[r].status
      /\ inst'[r].seen = m.seen /\ inst'[r].refused = m.refused
      /\ inst'[r].ready = (inst[r].ready \/ job.from = "initial")
      /\ inst'[r].pending \in {0, inst[r].pending}
      /\ UNCHANGED <<head, cursor, planner, process>>
      /\ job.from # "live" => UNCHANGED <<at, calling, returned>>
      /\ job.from = "live" =>
           /\ calling = r /\ job.event = at /\ calling' = NoOne
           /\ ok => returned' = returned \cup {r} /\ at' = at
           /\ ~ok => at' = 0 /\ returned' = {}
  BY EndedStep
<1> HIDE DEF job
<1>2. Typed /\ s \in Seq(Jobs)
  BY DEF IInv, Typed, Instances
<1>3. /\ Tail(s) \in Seq(Jobs) /\ 1 \in DOMAIN s
      /\ \A j \in DOMAIN Tail(s) : j + 1 \in DOMAIN s /\ Tail(s)[j] = s[j + 1]
      /\ DOMAIN Tail(s) \subseteq Nat \ {0}
  BY <1>1, <1>2, TailOfJobs, LenProperties
<1>4. Kill(r, 1) \in Kills /\ Kill(r, 1) \in Known(MaxSeq)
  BY <1>1, KillIsKnown DEF Jobs, Kill, job
<1>5. inst[r].status # "none"
  BY <1>1 DEF IInv, Started, NoInstance
<1>6. Typed'
  <2>1. dedup' \subseteq Runs \X Kills /\ counted' \subseteq Runs \X Known(MaxSeq)
    BY <1>2, <1>4 DEF Typed
  <2>2. /\ at' \in {0, cursor + 1} /\ calling' \in {NoOne, Capture} \cup Runs
        /\ returned' \subseteq {Capture} \cup Runs
    BY <1>1, <1>2 DEF Typed
  <2> QED
    BY <1>1, <1>2, <2>1, <2>2 DEF Typed, planner, process
<1>7. Polled'
  BY <1>1, <1>2 DEF IInv, Polled, Typed, process
<1>8. Started'
  <2>1. \A p \in Runs : p # r => CountedBy(p)' = CountedBy(p)
    BY DEF CountedBy
  <2>2. r <= runs
    BY <1>2, <1>5 DEF IInv, Started, Typed
  <2> QED
    BY <1>1, <1>2, <1>5, <2>1, <2>2 DEF IInv, Started, planner, Typed
<1>9. Queues'
  <2> SUFFICES ASSUME NEW p \in Runs, NEW j \in DOMAIN inst'[p].jobs
               PROVE  /\ inst'[p].jobs[j].from = "live" =>
                           calling' = p /\ inst'[p].jobs[j].event = at'
                      /\ inst'[p].jobs[j].step # "queued" =>
                           j = 1 /\ <<p, KillOf[inst'[p].jobs[j].event]>> \notin dedup'
                      /\ \A l \in DOMAIN inst'[p].jobs :
                           inst'[p].jobs[j].from = inst'[p].jobs[l].from => j = l
    BY DEF Queues, Kill
  <2>1. CASE p # r
    <3>1. inst'[p] = inst[p]
      BY <1>1, <2>1
    <3>2. <<p, KillOf[inst[p].jobs[j].event]>> \notin dedup
            => <<p, KillOf[inst[p].jobs[j].event]>> \notin dedup'
      BY <2>1
    <3>3. /\ inst[p].jobs[j].from = "live" => calling = p /\ inst[p].jobs[j].event = at
          /\ inst[p].jobs[j].step # "queued" =>
               j = 1 /\ <<p, KillOf[inst[p].jobs[j].event]>> \notin dedup
          /\ \A l \in DOMAIN inst[p].jobs :
               inst[p].jobs[j].from = inst[p].jobs[l].from => j = l
      BY <3>1 DEF IInv, Queues, Kill
    <3>4. calling = p => UNCHANGED <<at, calling>>
      BY <1>1, <2>1
    <3> QED
      BY <3>1, <3>2, <3>3, <3>4
  <2>2. CASE p = r
    <3>1. j \in Nat \ {0} /\ j + 1 \in DOMAIN s /\ inst'[p].jobs[j] = s[j + 1]
      BY <1>1, <1>3, <2>2
    <3>2. \A a \in DOMAIN s :
            /\ s[a].from = "live" => calling = r /\ s[a].event = at
            /\ s[a].step # "queued" => a = 1
            /\ \A b \in DOMAIN s : s[a].from = s[b].from => a = b
      BY DEF IInv, Queues
    <3>3. s[j + 1].step = "queued" /\ s[j + 1].from # s[1].from
      BY <1>3, <3>1, <3>2
    <3>4. s[j + 1].from = "live" => calling = r /\ s[j + 1].event = at /\ UNCHANGED <<at, calling>>
      BY <1>1, <3>1, <3>2, <3>3 DEF job
    <3>5. \A l \in DOMAIN Tail(s) : Tail(s)[j].from = Tail(s)[l].from => j = l
      <4> SUFFICES ASSUME NEW l \in DOMAIN Tail(s), Tail(s)[j].from = Tail(s)[l].from
                   PROVE  j = l
        OBVIOUS
      <4>1. l \in Nat /\ l + 1 \in DOMAIN s /\ s[j + 1].from = s[l + 1].from
        BY <1>1, <1>3, <2>2, <3>1
      <4> QED
        BY <3>1, <3>2, <4>1
    <3> QED
      BY <1>1, <2>2, <3>1, <3>3, <3>4, <3>5
  <2> QED
    BY <2>1, <2>2
<1>10. HandedOver'
  <2>1. \A p \in Runs : Active(p)' /\ Draining(p)'
          => Active(p) /\ Draining(p) /\ inst[p].seen \subseteq inst'[p].seen
    BY <1>1 DEF Active, Draining
  <2>2. plan # "idle" => Capture \notin returned'
    BY <1>1, <1>2 DEF IInv, HandedOver, Typed
  <2> QED
    BY <1>1, <2>1, <2>2 DEF IInv, HandedOver, planner
<1>11. Heard'
  <2> SUFFICES ASSUME at' # 0, NEW p \in Runs, p \in returned', Active(p)'
               PROVE  KillOf[at'] \in inst'[p].seen \cup inst'[p].refused
    BY DEF Heard
  <2>1. at' = at
    BY <1>1
  <2>2. Active(p)
    BY <1>1 DEF Active
  <2>3. CASE p \in returned
    BY <1>1, <2>1, <2>2, <2>3 DEF IInv, Heard
  <2>4. CASE p \notin returned
    BY <1>1, <2>1, <2>2, <2>4 DEF job
  <2> QED
    BY <2>3, <2>4
<1>12. RowIsActive'
  BY <1>1 DEF IInv, RowIsActive, Active, process
<1>13. NothingMissed'
  <2> SUFFICES ASSUME NEW p \in Runs, Active(p)', inst'[p].ready, NEW e \in 1..cursor
               PROVE  KillOf[e] \in inst'[p].seen \cup inst'[p].refused
    BY <1>1 DEF NothingMissed
  <2>1. Active(p) /\ inst[p].seen \subseteq inst'[p].seen /\ inst[p].refused \subseteq inst'[p].refused
    BY <1>1 DEF Active
  <2>2. CASE inst[p].ready
    BY <2>1, <2>2 DEF IInv, NothingMissed
  <2>3. CASE ~inst[p].ready
    <3>1. p = r
      BY <1>1, <2>3
    <3>2. Known(cursor) \subseteq inst[p].seen
      BY <1>1, <2>1, <2>3, <3>1 DEF IInv, HandedOver, Draining
    <3> QED
      BY <2>1, <3>2 DEF Known
  <2> QED
    BY <2>2, <2>3
<1> QED
  BY <1>6, <1>7, <1>8, <1>9, <1>10, <1>11, <1>12, <1>13 DEF IInv

\* The facts about a job that Absorb, Commit, ... start from.
LEMMA JobFacts ==
  ASSUME IInv, NEW r \in Runs, NEW i, Turn(r, i)
  PROVE  /\ i = 1 /\ inst[r].jobs[1] \in Jobs
         /\ inst[r] \in Instances /\ Kill(r, 1) \in Kills /\ Kill(r, 1) \in Known(MaxSeq)
         /\ inst[r].jobs[1].from = "live" => inst[r].jobs[1].event = at
         /\ inst[r].status # "none"
<1>1. inst[r] \in Instances /\ inst[r].jobs \in Seq(Jobs)
  BY DEF IInv, Typed, Instances
<1>2. i = 1 /\ 1 \in DOMAIN inst[r].jobs /\ inst[r].jobs # <<>>
  <2>1. DOMAIN <<>> = {}
    BY EmptySeq, LenProperties
  <2> QED BY <2>1 DEF Turn
<1>3. inst[r].jobs[1] \in Jobs
  BY <1>1, <1>2, TailOfJobs
<1>4. Kill(r, 1) \in Kills /\ Kill(r, 1) \in Known(MaxSeq)
  BY <1>3, KillIsKnown DEF Jobs, Kill
<1>5. inst[r].jobs[1].from = "live" => inst[r].jobs[1].event = at
  BY <1>2 DEF IInv, Queues
<1>6. inst[r].status # "none"
  BY <1>2 DEF IInv, Started, NoInstance
<1> QED
  BY <1>1, <1>2, <1>3, <1>4, <1>5, <1>6

\* The counters are those of before when nothing is counted.
LEMMA SameCounts ==
  ASSUME IInv, row' = row, counted' = counted, dedup \subseteq dedup',
         \A p \in Runs : inst'[p].status # "none" =>
           inst[p].status # "none" /\ inst'[p].killsSeen = inst[p].killsSeen
  PROVE  Counts'
<1>1. \A p : CountedBy(p)' = CountedBy(p)
  BY DEF CountedBy
<1> QED
  BY <1>1 DEF IInv, Counts

LEMMA AbsorbInv == ASSUME IInv, NEW r \in Runs, NEW i, Absorb(r, i) PROVE IInv'
<1> DEFINE m == [inst[r] EXCEPT !.seen = @ \cup {Kill(r, i)}]
<1>1. Turn(r, i) /\ Ended(r, i, m, TRUE) /\ UNCHANGED <<row, counted>>
  BY DEF Absorb, Job
<1>2. /\ i = 1 /\ inst[r] \in Instances /\ Kill(r, 1) \in Kills
      /\ inst[r].jobs[1].from = "live" => inst[r].jobs[1].event = at
  BY <1>1, JobFacts
<1>3. /\ m \in Instances /\ m.jobs = inst[r].jobs /\ m.ready = inst[r].ready
      /\ m.pending = inst[r].pending /\ m.status = inst[r].status
      /\ m.killsSeen = inst[r].killsSeen /\ m.refused = inst[r].refused
      /\ m.seen = inst[r].seen \cup {Kill(r, 1)}
  BY <1>2 DEF Instances
<1>4. dedup \subseteq dedup' /\ dedup' \subseteq dedup \cup {<<r, k>> : k \in Kills}
  BY <1>2 DEF Absorb
<1> HIDE DEF m
<1>5. Counts'
  <2>1. inst' \in [Runs -> Instances] /\ inst'[r].status = inst[r].status
        /\ inst'[r].killsSeen = inst[r].killsSeen
        /\ \A p \in Runs : p # r => inst'[p] = inst[p]
    BY <1>1, <1>3, EndedStep
  <2> QED
    BY <1>1, <1>4, <2>1, SameCounts
<1>6. inst[r].jobs[1].from = "live" => KillOf[at] \in m.seen
  BY <1>2, <1>3 DEF Kill
<1>7. row' \in [run : 0..MaxRuns, killsSeen : Nat]
  BY <1>1 DEF IInv, Typed
<1> QED
  BY <1>1, <1>3, <1>4, <1>5, <1>6, <1>7, EndedInv

LEMMA ForgetInv == ASSUME IInv, NEW r \in Runs, NEW i, Forget(r, i) PROVE IInv'
<1>1. /\ Turn(r, i) /\ Ended(r, i, inst[r], TRUE) /\ ~Active(r)
      /\ UNCHANGED <<row, counted, dedup>>
  BY DEF Forget, Job, tables
<1>2. inst[r] \in Instances
  BY <1>1, JobFacts
<1>3. Counts'
  <2>1. inst' \in [Runs -> Instances] /\ inst'[r].status = inst[r].status
        /\ inst'[r].killsSeen = inst[r].killsSeen
        /\ \A p \in Runs : p # r => inst'[p] = inst[p]
    BY <1>1, <1>2, EndedStep
  <2> QED
    BY <1>1, <2>1, SameCounts
<1>4. row' \in [run : 0..MaxRuns, killsSeen : Nat]
  BY <1>1 DEF IInv, Typed
<1> QED
  BY <1>1, <1>2, <1>3, <1>4, EndedInv

LEMMA JobFailsInv == ASSUME IInv, NEW r \in Runs, NEW i, JobFails(r, i) PROVE IInv'
<1>1. /\ Turn(r, i) /\ Ended(r, i, inst[r], FALSE)
      /\ UNCHANGED <<row, counted, dedup>>
  BY DEF JobFails, Job, tables, Unwound
<1>2. inst[r] \in Instances
  BY <1>1, JobFacts
<1>3. Counts'
  <2>1. inst' \in [Runs -> Instances] /\ inst'[r].status = inst[r].status
        /\ inst'[r].killsSeen = inst[r].killsSeen
        /\ \A p \in Runs : p # r => inst'[p] = inst[p]
    BY <1>1, <1>2, EndedStep
  <2> QED
    BY <1>1, <2>1, SameCounts
<1>4. row' \in [run : 0..MaxRuns, killsSeen : Nat]
  BY <1>1 DEF IInv, Typed
<1> QED
  BY <1>1, <1>2, <1>3, <1>4, EndedInv

LEMMA AlertRefusedInv ==
  ASSUME IInv, NEW r \in Runs, NEW i, AlertRefused(r, i) PROVE IInv'
<1> DEFINE live == inst[r].jobs[i].from = "live"
           m == [inst[r] EXCEPT !.refused = IF live THEN @ \cup {Kill(r, i)} ELSE @]
<1>1. Turn(r, i) /\ Ended(r, i, m, live) /\ UNCHANGED <<row, counted, dedup>>
  BY DEF AlertRefused, Job, tables
<1>2. /\ i = 1 /\ inst[r] \in Instances /\ Kill(r, 1) \in Kills
      /\ live => inst[r].jobs[1].event = at
  BY <1>1, JobFacts
<1>3. /\ m \in Instances /\ m.jobs = inst[r].jobs /\ m.ready = inst[r].ready
      /\ m.pending = inst[r].pending /\ m.status = inst[r].status
      /\ m.killsSeen = inst[r].killsSeen /\ m.seen = inst[r].seen
      /\ m.refused = IF live THEN inst[r].refused \cup {Kill(r, 1)} ELSE inst[r].refused
  BY <1>2 DEF Instances
<1>4. live \in BOOLEAN
  OBVIOUS
<1> HIDE DEF m
<1>5. Counts'
  <2>1. inst' \in [Runs -> Instances] /\ inst'[r].status = inst[r].status
        /\ inst'[r].killsSeen = inst[r].killsSeen
        /\ \A p \in Runs : p # r => inst'[p] = inst[p]
    BY <1>1, <1>3, <1>4, EndedStep
  <2> QED
    BY <1>1, <2>1, SameCounts
<1>6. inst[r].jobs[1].from = "live" => KillOf[at] \in m.refused
  BY <1>2, <1>3 DEF Kill
<1>7. row' \in [run : 0..MaxRuns, killsSeen : Nat]
  BY <1>1 DEF IInv, Typed
<1>8. inst[r].seen \subseteq m.seen /\ inst[r].refused \subseteq m.refused
  BY <1>3
<1> QED
  BY <1>1, <1>3, <1>4, <1>5, <1>6, <1>7, <1>8, EndedInv

\* A killmail is counted with its dedup row: the run has not counted it before.
LEMMA CommitInv == ASSUME IInv, NEW r \in Runs, NEW i, Commit(r, i) PROVE IInv'
<1> DEFINE k == Kill(r, 1)
           fresh == <<r, k>> \notin dedup
           m == IF fresh THEN [inst[r] EXCEPT !.seen = @ \cup {k}, !.killsSeen = @ + 1]
                ELSE [inst[r] EXCEPT !.seen = @ \cup {k}]
<1>1. Turn(r, i) /\ Active(r)
  BY DEF Commit, Job
<1>2. /\ i = 1 /\ inst[r] \in Instances /\ k \in Kills /\ k \in Known(MaxSeq)
      /\ inst[r].jobs[1].from = "live" => inst[r].jobs[1].event = at
  BY <1>1, JobFacts
<1>3. /\ Ended(r, i, m, TRUE)
      /\ ~fresh => UNCHANGED <<row, counted, dedup>>
      /\ fresh => /\ dedup' = dedup \cup {<<r, k>>} /\ counted' = counted \cup {<<r, k>>}
                  /\ row' = [row EXCEPT !.killsSeen = inst[r].killsSeen + 1]
  BY <1>2 DEF Commit, tables
<1>4. /\ m \in Instances /\ m.jobs = inst[r].jobs /\ m.ready = inst[r].ready
      /\ m.pending = inst[r].pending /\ m.status = inst[r].status
      /\ m.refused = inst[r].refused /\ m.seen = inst[r].seen \cup {k}
      /\ m.killsSeen = IF fresh THEN inst[r].killsSeen + 1 ELSE inst[r].killsSeen
  <2>1. CASE fresh
    <3>1. m = [inst[r] EXCEPT !.seen = @ \cup {k}, !.killsSeen = @ + 1]
      BY <2>1, Zenon
    <3>2. inst[r].killsSeen + 1 \in Nat
      BY <1>2 DEF Instances
    <3> HIDE DEF m
    <3>3. m \in Instances
      BY <1>2, <3>1, <3>2 DEF Instances
    <3>4. /\ m.jobs = inst[r].jobs /\ m.ready = inst[r].ready
          /\ m.pending = inst[r].pending /\ m.status = inst[r].status
          /\ m.refused = inst[r].refused /\ m.seen = inst[r].seen \cup {k}
          /\ m.killsSeen = inst[r].killsSeen + 1
      BY <1>2, <3>1 DEF Instances
    <3> QED
      BY <2>1, <3>3, <3>4
  <2>2. CASE ~fresh
    BY <1>2, <2>2 DEF Instances
  <2> QED
    BY <2>1, <2>2
<1> HIDE DEF m
<1>5. /\ inst' \in [Runs -> Instances] /\ inst'[r].status = inst[r].status
      /\ inst'[r].killsSeen = m.killsSeen
      /\ \A p \in Runs : p # r => inst'[p] = inst[p]
  <2>1. Ended(r, i, m, TRUE) /\ TRUE \in BOOLEAN /\ Turn(r, i)
    BY <1>1, <1>3, Zenon
  <2> QED
    BY <1>4, <2>1, EndedStep
<1>6. row.run = r /\ row \in [run : 0..MaxRuns, killsSeen : Nat] /\ r # 0
  BY <1>1 DEF IInv, RowIsActive, Typed
<1>7. row' \in [run : 0..MaxRuns, killsSeen : Nat] /\ row'.run = row.run
  BY <1>2, <1>3, <1>6 DEF Instances
<1>8. Counts'
  <2>1. CASE ~fresh
    BY <1>3, <1>4, <1>5, <2>1, SameCounts
  <2>2. CASE fresh
    <3>1. CountedBy(r)' = CountedBy(r) \cup {k} /\ k \notin CountedBy(r)
      BY <1>2, <1>3, <1>6, <2>2 DEF IInv, Counts, CountedBy
    <3>2. \A p \in Runs : p # r => CountedBy(p)' = CountedBy(p)
      BY <1>3, <2>2 DEF CountedBy
    <3>3. IsFiniteSet(CountedBy(r)) /\ inst[r].killsSeen = Cardinality(CountedBy(r))
      BY <1>1, CountsAreBounded DEF IInv, Counts, Active
    <3>4. Cardinality(CountedBy(r) \cup {k}) = inst[r].killsSeen + 1
      BY <3>1, <3>3, FS_AddElement
    <3>5. /\ row'.run = r /\ row'.killsSeen = Cardinality(CountedBy(r)')
          /\ \A l \in CountedBy(r)' : <<r, l>> \in dedup'
      BY <1>3, <1>6, <2>2, <3>1, <3>4 DEF IInv, Counts
    <3>6. \A p \in Runs : inst'[p].status # "none"
            => inst'[p].killsSeen = Cardinality(CountedBy(p)')
      BY <1>4, <1>5, <2>2, <3>1, <3>2, <3>4 DEF IInv, Counts
    <3> QED
      BY <3>5, <3>6 DEF Counts, CountedBy
  <2> QED
    BY <2>1, <2>2
<1>9. dedup' \subseteq dedup \cup {<<r, l>> : l \in Kills}
  BY <1>2, <1>3
<1>10. inst[r].jobs[1].from = "live" => KillOf[at] \in m.seen
  BY <1>2, <1>4 DEF Kill
<1>11. inst[r].seen \subseteq m.seen /\ inst[r].refused \subseteq m.refused
  BY <1>4
<1>12. counted' = counted \/ counted' = counted \cup {<<r, k>>}
  BY <1>3
<1> QED
  BY <1>1, <1>3, <1>4, <1>7, <1>8, <1>9, <1>10, <1>11, <1>12, EndedInv

-----------------------------------------------------------------------------
(* Steps that leave every queue as it is.                                   *)

\* The invariant of the queues, when queues, feed and dedup rows are those of
\* before (or the dedup rows fewer).
LEMMA SameQueues ==
  ASSUME IInv, UNCHANGED <<at, calling>>, dedup' \subseteq dedup,
         \A p \in Runs : inst'[p].jobs = inst[p].jobs
  PROVE  Queues'
<1> SUFFICES ASSUME NEW p \in Runs, NEW j \in DOMAIN inst[p].jobs
             PROVE  /\ inst[p].jobs[j].from = "live" => calling = p /\ inst[p].jobs[j].event = at
                    /\ inst[p].jobs[j].step # "queued" =>
                         j = 1 /\ <<p, KillOf[inst[p].jobs[j].event]>> \notin dedup'
                    /\ \A l \in DOMAIN inst[p].jobs :
                         inst[p].jobs[j].from = inst[p].jobs[l].from => j = l
  BY DEF Queues, Kill
<1> QED
  BY DEF IInv, Queues, Kill

\* A monitor that learns something, or whose baseline arrives.
LEMMA TouchInv ==
  ASSUME IInv, NEW r \in Runs, UNCHANGED <<feed, planner, process, counted, dedup>>,
         inst' \in [Runs -> Instances], \A p \in Runs : p # r => inst'[p] = inst[p],
         inst[r].status # "none", inst'[r].status = inst[r].status,
         inst'[r].jobs = inst[r].jobs, inst'[r].killsSeen = inst[r].killsSeen,
         inst'[r].pending = inst[r].pending,
         inst[r].seen \subseteq inst'[r].seen, inst[r].refused \subseteq inst'[r].refused,
         inst[r].ready => inst'[r].ready,
         Active(r) /\ inst'[r].ready => inst[r].ready \/ Known(cursor) \subseteq inst'[r].seen,
         row' \in [run : 0..MaxRuns, killsSeen : Nat], row'.run = row.run,
         row'.killsSeen = row.killsSeen \/ (row.run = r /\ row'.killsSeen = inst[r].killsSeen)
  PROVE  IInv'
<1> USE DEF feed, planner, process
<1>1. \A p : CountedBy(p)' = CountedBy(p)
  BY DEF CountedBy
<1>2. \A p \in Runs : /\ inst'[p].status = inst[p].status
                      /\ inst'[p].jobs = inst[p].jobs /\ inst'[p].killsSeen = inst[p].killsSeen
                      /\ inst[p].seen \subseteq inst'[p].seen
                      /\ inst[p].refused \subseteq inst'[p].refused
                      /\ Draining(p)' => Draining(p)
                      /\ Active(p)' <=> Active(p)
  BY DEF Draining, Active
<1>3. Typed'
  BY DEF IInv, Typed
<1>4. Started'
  BY <1>1, <1>2 DEF IInv, Started
<1>5. Queues'
  BY <1>2, SameQueues
<1>6. Counts'
  BY <1>1, <1>2 DEF IInv, Counts
<1>7. HandedOver' /\ Heard'
  BY <1>2 DEF IInv, HandedOver, Heard
<1>8. NothingMissed'
  <2> SUFFICES ASSUME NEW p \in Runs, Active(p), inst'[p].ready, NEW e \in 1..cursor
               PROVE  KillOf[e] \in inst'[p].seen \cup inst'[p].refused
    BY <1>2 DEF NothingMissed
  <2>1. CASE inst[p].ready
    BY <1>2, <2>1 DEF IInv, NothingMissed
  <2>2. CASE ~inst[p].ready
    <3>1. p = r /\ Known(cursor) \subseteq inst'[p].seen
      BY <2>2
    <3> QED BY <3>1 DEF Known
  <2> QED BY <2>1, <2>2
<1>9. Polled' /\ RowIsActive'
  BY <1>2 DEF IInv, Polled, RowIsActive
<1> QED
  BY <1>3, <1>4, <1>5, <1>6, <1>7, <1>8, <1>9 DEF IInv

\* The active monitor is gone, and with it the row and the dedup rows.
LEMMA GoneInv ==
  ASSUME IInv, NEW r \in Runs, Active(r), UNCHANGED <<feed, planner, process, counted>>,
         inst' \in [Runs -> Instances], \A p \in Runs : p # r => inst'[p] = inst[p],
         inst'[r].status = "gone", inst'[r].jobs = inst[r].jobs,
         inst'[r].killsSeen = inst[r].killsSeen, row' = NoRow, dedup' = {}
  PROVE  IInv'
<1> USE DEF feed, planner, process
<1>1. \A p : CountedBy(p)' = CountedBy(p)
  BY DEF CountedBy
<1>2. \A p \in Runs : ~Active(p)'
  BY DEF IInv, RowIsActive, Active
<1>3. Typed'
  BY BoundsAssumption DEF IInv, Typed, NoRow
<1>4. r <= runs /\ inst[r].status = "active"
  BY DEF IInv, Started, Active, Typed
<1>5. Started'
  BY <1>1, <1>4, BoundsAssumption DEF IInv, Started, NoRow, Typed
<1>6. Queues'
  <2>1. \A p \in Runs : inst'[p].jobs = inst[p].jobs
    OBVIOUS
  <2> QED BY <2>1, SameQueues
<1>7. Counts'
  BY <1>1, <1>4 DEF IInv, Counts, NoRow
<1>8. HandedOver' /\ Heard' /\ NothingMissed' /\ RowIsActive'
  BY <1>2 DEF IInv, HandedOver, Heard, NothingMissed, RowIsActive, NoRow
<1>9. Polled'
  BY DEF IInv, Polled
<1> QED
  BY <1>3, <1>5, <1>6, <1>7, <1>8, <1>9 DEF IInv

LEMMA StopInv == ASSUME IInv, NEW r \in Runs, Stop(r) PROVE IInv'
<1>1. inst \in [Runs -> Instances] /\ inst[r] \in Instances
  BY DEF IInv, Typed
<1>2. inst' = [inst EXCEPT ![r] = [inst[r] EXCEPT !.status = "gone"]]
  BY <1>1 DEF Stop, Stopped
<1>3. [inst[r] EXCEPT !.status = "gone"] \in Instances
  BY <1>1 DEF Instances
<1>4. /\ inst' \in [Runs -> Instances] /\ \A p \in Runs : p # r => inst'[p] = inst[p]
      /\ inst'[r].status = "gone" /\ inst'[r].jobs = inst[r].jobs
      /\ inst'[r].killsSeen = inst[r].killsSeen
  BY <1>1, <1>2, <1>3 DEF Instances
<1> QED
  BY <1>4, GoneInv DEF Stop, Stopped

LEMMA LearnEndInv == ASSUME IInv, NEW r \in Runs, NEW p, LearnEnd(r, p) PROVE IInv'
<1>1. inst \in [Runs -> Instances] /\ inst[r] \in Instances
  BY DEF IInv, Typed
<1> DEFINE n == [inst[r] EXCEPT !.polling = @ \ {p}, !.status = "gone"]
<1>2. inst' = [inst EXCEPT ![r] = n]
  BY <1>1 DEF LearnEnd
<1>3. n \in Instances /\ n.status = "gone" /\ n.jobs = inst[r].jobs
      /\ n.killsSeen = inst[r].killsSeen
  BY <1>1 DEF Instances
<1>4. /\ inst' \in [Runs -> Instances] /\ \A q \in Runs : q # r => inst'[q] = inst[q]
      /\ inst'[r] = n
  BY <1>1, <1>2, <1>3
<1> QED
  BY <1>3, <1>4, GoneInv DEF LearnEnd

LEMMA BaselineFailsInv == ASSUME IInv, NEW r \in Runs, BaselineFails(r) PROVE IInv'
<1>1. inst \in [Runs -> Instances] /\ inst[r] \in Instances
  BY DEF IInv, Typed
<1>2. CASE Active(r)
  <2> DEFINE n == [inst[r] EXCEPT !.ready = TRUE, !.status = "gone"]
  <2>1. inst' = [inst EXCEPT ![r] = n] /\ row' = NoRow /\ dedup' = {}
    BY <1>1, <1>2 DEF BaselineFails, Active
  <2>2. n \in Instances /\ n.status = "gone" /\ n.jobs = inst[r].jobs
        /\ n.killsSeen = inst[r].killsSeen
    BY <1>1 DEF Instances
  <2>3. /\ inst' \in [Runs -> Instances] /\ \A q \in Runs : q # r => inst'[q] = inst[q]
        /\ inst'[r] = n
    BY <1>1, <2>1, <2>2
  <2> QED
    BY <1>2, <2>1, <2>2, <2>3, GoneInv DEF BaselineFails
<1>3. CASE ~Active(r)
  <2> DEFINE n == [inst[r] EXCEPT !.ready = TRUE]
  <2>1. inst' = [inst EXCEPT ![r] = n] /\ UNCHANGED <<row, dedup>> /\ inst[r].status = "gone"
    BY <1>1, <1>3 DEF BaselineFails, Active
  <2>2. /\ n \in Instances /\ n.status = inst[r].status /\ n.jobs = inst[r].jobs
        /\ n.killsSeen = inst[r].killsSeen /\ n.pending = inst[r].pending
        /\ n.seen = inst[r].seen /\ n.refused = inst[r].refused /\ n.ready
    BY <1>1 DEF Instances
  <2>3. /\ inst' \in [Runs -> Instances] /\ \A q \in Runs : q # r => inst'[q] = inst[q]
        /\ inst'[r] = n
    BY <1>1, <2>1, <2>2
  <2> HIDE DEF n
  <2>4. row \in [run : 0..MaxRuns, killsSeen : Nat] /\ UNCHANGED <<feed, planner, process, counted>>
    BY DEF IInv, Typed, BaselineFails
  <2> QED
    BY <1>3, <2>1, <2>2, <2>3, <2>4, TouchInv
<1> QED
  BY <1>2, <1>3

LEMMA BaselineArrivesInv == ASSUME IInv, NEW r \in Runs, BaselineArrives(r) PROVE IInv'
<1>1. inst \in [Runs -> Instances] /\ inst[r] \in Instances
  BY DEF IInv, Typed
<1> DEFINE n == [inst[r] EXCEPT !.ready = TRUE, !.seen = @ \cup Known(head)]
<1>2. inst' = [inst EXCEPT ![r] = n] /\ inst[r].status = "active"
  BY <1>1 DEF BaselineArrives, Active
<1>3. Known(head) \subseteq Kills /\ Known(cursor) \subseteq Known(head)
  BY KnownIsOfKills DEF IInv, Typed, Known
<1>4. /\ n \in Instances /\ n.status = inst[r].status /\ n.jobs = inst[r].jobs
      /\ n.killsSeen = inst[r].killsSeen /\ n.pending = inst[r].pending
      /\ n.seen = inst[r].seen \cup Known(head) /\ n.refused = inst[r].refused /\ n.ready
  BY <1>1, <1>3 DEF Instances
<1>5. /\ inst' \in [Runs -> Instances] /\ \A q \in Runs : q # r => inst'[q] = inst[q]
      /\ inst'[r] = n
  BY <1>1, <1>2, <1>4
<1> HIDE DEF n
<1>6. row' \in [run : 0..MaxRuns, killsSeen : Nat] /\ UNCHANGED <<feed, planner, process, tables>>
  BY DEF IInv, Typed, BaselineArrives, tables
<1> QED
  BY <1>2, <1>3, <1>4, <1>5, <1>6, TouchInv DEF tables

LEMMA AskInv == ASSUME IInv, NEW r \in Runs, NEW p \in Polls, Ask(r, p) PROVE IInv'
<1>1. inst \in [Runs -> Instances] /\ inst[r] \in Instances
  BY DEF IInv, Typed
<1> DEFINE n == [inst[r] EXCEPT !.polling = @ \cup {p}]
<1>2. inst' = [inst EXCEPT ![r] = n] /\ inst[r].status = "active"
  BY <1>1 DEF Ask, Active
<1>3. /\ n \in Instances /\ n.status = inst[r].status /\ n.jobs = inst[r].jobs
      /\ n.killsSeen = inst[r].killsSeen /\ n.pending = inst[r].pending
      /\ n.seen = inst[r].seen /\ n.refused = inst[r].refused /\ n.ready = inst[r].ready
  BY <1>1 DEF Instances
<1>4. /\ inst' \in [Runs -> Instances] /\ \A q \in Runs : q # r => inst'[q] = inst[q]
      /\ inst'[r] = n
  BY <1>1, <1>2, <1>3
<1> HIDE DEF n
<1>5. row' \in [run : 0..MaxRuns, killsSeen : Nat] /\ UNCHANGED <<feed, planner, process, tables>>
  BY DEF IInv, Typed, Ask, tables
<1> QED
  BY <1>2, <1>3, <1>4, <1>5, TouchInv DEF tables

\* A poll that saves the row writes what the row says already.
LEMMA LearnInv == ASSUME IInv, NEW r \in Runs, NEW p, Learn(r, p) PROVE IInv'
<1>1. inst \in [Runs -> Instances] /\ inst[r] \in Instances
  BY DEF IInv, Typed
<1> DEFINE n == [inst[r] EXCEPT !.polling = @ \ {p}]
<1>2. inst' = [inst EXCEPT ![r] = n] /\ inst[r].status # "none"
  <2>1. NoInstance.polling = {}
    BY DEF NoInstance
  <2> QED BY <1>1, <2>1 DEF Learn, IInv, Started
<1>3. /\ n \in Instances /\ n.status = inst[r].status /\ n.jobs = inst[r].jobs
      /\ n.killsSeen = inst[r].killsSeen /\ n.pending = inst[r].pending
      /\ n.seen = inst[r].seen /\ n.refused = inst[r].refused /\ n.ready = inst[r].ready
  BY <1>1 DEF Instances
<1>4. /\ inst' \in [Runs -> Instances] /\ \A q \in Runs : q # r => inst'[q] = inst[q]
      /\ inst'[r] = n
  BY <1>1, <1>2, <1>3
<1> HIDE DEF n
<1>5. UNCHANGED <<feed, planner, dedup, counted, process>>
  BY DEF Learn
<1>6. /\ row' \in [run : 0..MaxRuns, killsSeen : Nat] /\ row'.run = row.run
      /\ row'.killsSeen = row.killsSeen \/ (row.run = r /\ row'.killsSeen = inst[r].killsSeen)
  <2>1. row \in [run : 0..MaxRuns, killsSeen : Nat] /\ inst[r].killsSeen \in Nat
    BY <1>1 DEF IInv, Typed, Instances
  <2>2. CASE UNCHANGED row
    BY <2>1, <2>2
  <2>3. CASE StillActive(r) /\ Saved(r, p)
    <3>1. row.run = r
      BY <2>3 DEF StillActive, IInv, RowIsActive
    <3> QED
      BY <2>1, <2>3, <3>1 DEF Saved
  <2> QED
    BY <2>2, <2>3 DEF Learn
<1> QED
  BY <1>2, <1>3, <1>4, <1>5, <1>6, TouchInv

-----------------------------------------------------------------------------
(* Steps that put a job into a queue or move it on.                         *)

LEMMA AtInv ==
  ASSUME IInv, NEW r \in Runs, NEW i, Turn(r, i), NEW step \in {"enriching", "sending"},
         <<r, Kill(r, 1)>> \notin dedup, At(r, i, step)
  PROVE  IInv'
<1> USE DEF feed, planner, process, tables
<1> DEFINE s == inst[r].jobs
           job == [s[1] EXCEPT !.step = step]
           t == [s EXCEPT ![1] = job]
           n == [inst[r] EXCEPT !.jobs = t]
<1>1. /\ inst \in [Runs -> Instances] /\ inst[r] \in Instances /\ s \in Seq(Jobs)
      /\ i = 1 /\ s[1] \in Jobs /\ inst[r].status # "none"
  BY JobFacts DEF IInv, Typed, Instances
<1>2. inst' = [inst EXCEPT ![r] = n]
  BY <1>1 DEF At
<1>3. job \in Jobs /\ job.from = s[1].from /\ job.event = s[1].event
  BY <1>1 DEF Jobs
<1>4. 1 \in 1..Len(s) /\ DOMAIN s = 1..Len(s)
  BY <1>1, LenProperties DEF Turn
<1>5. /\ t \in Seq(Jobs) /\ DOMAIN t = DOMAIN s /\ t[1] = job
      /\ \A j \in DOMAIN s : j # 1 => t[j] = s[j]
  BY <1>1, <1>3, <1>4, ExceptSeq, LenProperties
<1>6. t # <<>> /\ s # <<>>
  <2>1. DOMAIN <<>> = {}
    BY EmptySeq, LenProperties
  <2> QED BY <1>4, <1>5, <2>1
<1> HIDE DEF job, t
<1>7. /\ n \in Instances /\ n.jobs = t /\ n.status = inst[r].status /\ n.ready = inst[r].ready
      /\ n.killsSeen = inst[r].killsSeen /\ n.pending = inst[r].pending
      /\ n.seen = inst[r].seen /\ n.refused = inst[r].refused
  BY <1>1, <1>5 DEF Instances
<1> HIDE DEF n
<1>8. /\ inst' \in [Runs -> Instances] /\ \A p \in Runs : p # r => inst'[p] = inst[p]
      /\ inst'[r] = n
  BY <1>1, <1>2, <1>7
<1>9. UNCHANGED <<feed, planner, tables, process>>
  BY DEF At
<1>10. \A p : CountedBy(p)' = CountedBy(p)
  BY <1>9 DEF CountedBy
<1>11. \A p \in Runs : /\ inst'[p].status = inst[p].status /\ inst'[p].ready = inst[p].ready
                       /\ inst'[p].killsSeen = inst[p].killsSeen
                       /\ inst'[p].seen = inst[p].seen /\ inst'[p].refused = inst[p].refused
                       /\ Draining(p)' <=> Draining(p)
                       /\ Active(p)' <=> Active(p)
  BY <1>6, <1>7, <1>8 DEF Draining, Active
<1>12. Typed' /\ Polled'
  BY <1>8, <1>9 DEF IInv, Typed, Polled
<1>13. Started'
  BY <1>1, <1>8, <1>9, <1>10, <1>11 DEF IInv, Started
<1>14. Queues'
  <2> SUFFICES ASSUME NEW p \in Runs, NEW j \in DOMAIN inst'[p].jobs
               PROVE  /\ inst'[p].jobs[j].from = "live" =>
                           calling = p /\ inst'[p].jobs[j].event = at
                      /\ inst'[p].jobs[j].step # "queued" =>
                           j = 1 /\ <<p, KillOf[inst'[p].jobs[j].event]>> \notin dedup
                      /\ \A l \in DOMAIN inst'[p].jobs :
                           inst'[p].jobs[j].from = inst'[p].jobs[l].from => j = l
    BY <1>9 DEF Queues, Kill
  <2>1. \A a \in DOMAIN inst[p].jobs :
          /\ inst[p].jobs[a].from = "live" => calling = p /\ inst[p].jobs[a].event = at
          /\ inst[p].jobs[a].step # "queued" =>
               a = 1 /\ <<p, KillOf[inst[p].jobs[a].event]>> \notin dedup
          /\ \A l \in DOMAIN inst[p].jobs :
               inst[p].jobs[a].from = inst[p].jobs[l].from => a = l
    BY DEF IInv, Queues, Kill
  <2>2. CASE p # r
    BY <1>8, <2>1, <2>2
  <2>3. CASE p = r
    <3>1. /\ inst'[p].jobs[j].from = s[j].from /\ inst'[p].jobs[j].event = s[j].event
          /\ j \in DOMAIN s /\ DOMAIN inst'[p].jobs = DOMAIN s
      BY <1>3, <1>5, <1>7, <1>8, <2>3
    <3>2. \A l \in DOMAIN s : inst'[p].jobs[l].from = s[l].from
      BY <1>3, <1>5, <1>7, <1>8, <2>3
    <3>3. inst'[p].jobs[j].step # "queued" => j = 1
      <4>1. j # 1 => inst'[p].jobs[j] = s[j]
        BY <1>5, <1>7, <1>8, <2>3, <3>1
      <4>2. s[j].step # "queued" => j = 1
        BY <2>1, <2>3, <3>1
      <4> QED BY <4>1, <4>2
    <3>4. <<r, KillOf[s[1].event]>> \notin dedup
      BY DEF Kill
    <3> QED
      BY <2>1, <2>3, <3>1, <3>2, <3>3, <3>4
  <2> QED BY <2>2, <2>3
<1>15. Counts'
  BY <1>9, <1>10, <1>11 DEF IInv, Counts
<1>16. HandedOver'
  BY <1>9, <1>11 DEF IInv, HandedOver
<1>17. Heard' /\ RowIsActive'
  <2>1. UNCHANGED <<at, returned, row, restored>>
    BY <1>9
  <2>2. Heard'
    BY <1>11, <2>1 DEF IInv, Heard
  <2>3. RowIsActive'
    BY <1>11, <2>1 DEF IInv, RowIsActive, Typed
  <2> QED BY <2>2, <2>3
<1>18. NothingMissed'
  BY <1>9, <1>11 DEF IInv, NothingMissed
<1> QED
  BY <1>17, <1>18, <1>12, <1>13, <1>14, <1>15, <1>16 DEF IInv

LEMMA EnrichInv == ASSUME IInv, NEW r \in Runs, NEW i, Enrich(r, i) PROVE IInv'
<1>1. Turn(r, i) /\ At(r, i, "enriching") /\ <<r, Kill(r, i)>> \notin dedup
  BY DEF Enrich, Job, Fresh
<1> QED
  BY <1>1, JobFacts, AtInv

LEMMA AlertIsFirst ==
  ASSUME IInv, NEW r \in Runs, NEW i, Alert(r, i)
  PROVE  <<r, Kill(r, i)>> \notin dedup
BY DEF Alert, Job, Turn, IInv, Queues

LEMMA AlertInv == ASSUME IInv, NEW r \in Runs, NEW i, Alert(r, i) PROVE IInv'
<1>1. Turn(r, i) /\ At(r, i, "sending")
  BY DEF Alert, Job
<1> QED
  BY <1>1, JobFacts, AlertIsFirst, AtInv

\* A job is put at the end of the queue of a monitor.
LEMMA AppendInv ==
  ASSUME IInv, NEW r \in Runs, UNCHANGED <<feed, planner, tables, process>>, Active(r),
         NEW job \in Jobs, job.step = "queued", ~Queued(r, job.from),
         job.from = "live" => calling = r /\ job.event = at,
         inst[r].ready \/ inst[r].pending # 0,
         inst' = [inst EXCEPT ![r].jobs = Append(@, job)]
  PROVE  IInv'
<1> USE DEF feed, planner, process, tables
<1> DEFINE s == inst[r].jobs
           t == Append(s, job)
           n == [inst[r] EXCEPT !.jobs = t]
<1>1. inst \in [Runs -> Instances] /\ inst[r] \in Instances /\ s \in Seq(Jobs)
  BY DEF IInv, Typed, Instances
<1>2. inst' = [inst EXCEPT ![r] = n] /\ inst[r].status = "active"
  BY <1>1 DEF Active
<1> DEFINE last == Len(s) + 1
<1>3. /\ t \in Seq(Jobs) /\ DOMAIN t = DOMAIN s \cup {last} /\ last \notin DOMAIN s
      /\ t[last] = job /\ \A j \in DOMAIN s : t[j] = s[j]
  BY <1>1, JobAppended
<1> HIDE DEF t, last
<1>4. /\ n \in Instances /\ n.jobs = t /\ n.status = inst[r].status /\ n.ready = inst[r].ready
      /\ n.killsSeen = inst[r].killsSeen /\ n.pending = inst[r].pending
      /\ n.seen = inst[r].seen /\ n.refused = inst[r].refused
  BY <1>1, <1>3 DEF Instances
<1> HIDE DEF n
<1>5. /\ inst' \in [Runs -> Instances] /\ \A p \in Runs : p # r => inst'[p] = inst[p]
      /\ inst'[r] = n
  BY <1>1, <1>2, <1>4
<1>6. \A p : CountedBy(p)' = CountedBy(p)
  BY DEF CountedBy
<1>7. \A p \in Runs : /\ inst'[p].status = inst[p].status /\ inst'[p].ready = inst[p].ready
                      /\ inst'[p].killsSeen = inst[p].killsSeen
                      /\ inst'[p].seen = inst[p].seen /\ inst'[p].refused = inst[p].refused
                      /\ Draining(p)' => Draining(p)
                      /\ Active(p)' <=> Active(p)
  BY <1>4, <1>5 DEF Draining, Active
<1>8. Typed' /\ Polled'
  BY <1>5 DEF IInv, Typed, Polled
<1>9. Started'
  BY <1>2, <1>5, <1>6, <1>7 DEF IInv, Started
<1>10. Queues'
  <2> SUFFICES ASSUME NEW p \in Runs, NEW j \in DOMAIN inst'[p].jobs
               PROVE  /\ inst'[p].jobs[j].from = "live" =>
                           calling = p /\ inst'[p].jobs[j].event = at
                      /\ inst'[p].jobs[j].step # "queued" =>
                           j = 1 /\ <<p, KillOf[inst'[p].jobs[j].event]>> \notin dedup
                      /\ \A l \in DOMAIN inst'[p].jobs :
                           inst'[p].jobs[j].from = inst'[p].jobs[l].from => j = l
    BY DEF Queues, Kill
  <2>1. \A a \in DOMAIN inst[p].jobs :
          /\ inst[p].jobs[a].from = "live" => calling = p /\ inst[p].jobs[a].event = at
          /\ inst[p].jobs[a].step # "queued" =>
               a = 1 /\ <<p, KillOf[inst[p].jobs[a].event]>> \notin dedup
          /\ \A l \in DOMAIN inst[p].jobs :
               inst[p].jobs[a].from = inst[p].jobs[l].from => a = l
    BY DEF IInv, Queues, Kill
  <2>2. CASE p # r
    BY <1>5, <2>1, <2>2
  <2>3. CASE p = r
    <3>1. \A a \in DOMAIN s : s[a].from # job.from
      BY DEF Queued
    <3>2. inst'[p].jobs = t
      BY <1>4, <1>5, <2>3
    <3>3. CASE j \in DOMAIN s
      <4>1. inst'[p].jobs[j] = s[j] /\ \A l \in DOMAIN s : inst'[p].jobs[l] = s[l]
        BY <1>3, <3>2, <3>3
      <4>2. inst'[p].jobs[last] = job /\ DOMAIN inst'[p].jobs = DOMAIN s \cup {last}
        BY <1>3, <3>2
      <4> QED
        <5>1. /\ s[j].from = "live" => calling = p /\ s[j].event = at
              /\ s[j].step # "queued" => j = 1 /\ <<p, KillOf[s[j].event]>> \notin dedup
              /\ \A l \in DOMAIN s : s[j].from = s[l].from => j = l
          BY <2>1, <2>3, <3>3
        <5>2. \A l \in DOMAIN inst'[p].jobs : inst'[p].jobs[j].from = inst'[p].jobs[l].from => j = l
          BY <3>1, <3>3, <4>1, <4>2, <5>1
        <5> QED BY <4>1, <5>1, <5>2
    <3>4. CASE j = last
      BY <1>3, <2>3, <3>1, <3>2, <3>4
    <3> QED BY <1>3, <3>2, <3>3, <3>4
  <2> QED BY <2>2, <2>3
<1>11. Counts'
  BY <1>6, <1>7 DEF IInv, Counts
<1>12. HandedOver' /\ Heard' /\ RowIsActive' /\ NothingMissed'
  BY <1>7 DEF IInv, HandedOver, Heard, RowIsActive, NothingMissed
<1> QED
  BY <1>8, <1>9, <1>10, <1>11, <1>12 DEF IInv

LEMMA DrainInv == ASSUME IInv, NEW r \in Runs, Drain(r) PROVE IInv'
<1> DEFINE job == [event |-> inst[r].pending, from |-> "operational", step |-> "queued"]
<1>1. inst[r].pending \in 1..MaxSeq
  <2>1. inst[r] \in Instances
    BY DEF IInv, Typed
  <2> QED BY <2>1, BoundsAssumption DEF Drain, Instances
<1>2. job \in Jobs /\ job.from = "operational" /\ job.step = "queued"
  BY <1>1 DEF Jobs, Sources
<1>3. /\ UNCHANGED <<feed, planner, tables, process>> /\ Active(r) /\ ~Queued(r, job.from)
      /\ inst[r].pending # 0 /\ inst' = [inst EXCEPT ![r].jobs = Append(@, job)]
  BY DEF Drain
<1> QED
  BY <1>2, <1>3, AppendInv

LEMMA HearInv == ASSUME IInv, NEW r \in Runs, Hear(r) PROVE IInv'
<1>1. calling = r /\ inst[r].ready /\ ~Queued(r, "live") /\ at \in Events /\ inst[r].status # "none"
  <2>1. ~NoInstance.ready
    BY DEF NoInstance
  <2>2. r # NoOne
    BY BoundsAssumption
  <2> QED
    BY <2>1, <2>2, BoundsAssumption DEF Hear, IInv, Polled, Started, Typed
<1>2. CASE Active(r)
  <2> DEFINE job == [event |-> at, from |-> "live", step |-> "queued"]
  <2>1. job \in Jobs /\ job.from = "live" /\ job.step = "queued" /\ job.event = at
    BY <1>1 DEF Jobs, Sources
  <2>2. /\ UNCHANGED <<feed, planner, tables, process>>
        /\ inst' = [inst EXCEPT ![r].jobs = Append(@, job)]
    BY <1>2 DEF Hear, feed
  <2> HIDE DEF job
  <2> QED
    BY <1>1, <1>2, <2>1, <2>2, AppendInv
<1>3. CASE ~Active(r)
  <2> USE DEF planner, process, tables
  <2>1. /\ calling' = NoOne /\ returned' = returned \cup {r}
        /\ UNCHANGED <<inst, head, cursor, at, planner, tables, process>>
    BY <1>3 DEF Hear
  <2>2. \A p : CountedBy(p)' = CountedBy(p)
    BY <2>1 DEF CountedBy
  <2>3. Typed' /\ Polled'
    BY <2>1 DEF IInv, Typed, Polled
  <2>4. Started' /\ Counts'
    BY <1>1, <2>1, <2>2 DEF IInv, Started, Counts
  <2>5. Queues'
    <3>1. \A p \in Runs : \A j \in DOMAIN inst[p].jobs : inst[p].jobs[j].from # "live"
      BY <1>1 DEF IInv, Queues, Queued
    <3> QED BY <2>1, <3>1 DEF IInv, Queues, Kill
  <2>6. HandedOver'
    BY <2>1, BoundsAssumption DEF IInv, HandedOver, Draining, Active, Typed
  <2>7. Heard' /\ RowIsActive' /\ NothingMissed'
    BY <1>3, <2>1 DEF IInv, Heard, RowIsActive, NothingMissed, Active
  <2> QED
    BY <2>3, <2>4, <2>5, <2>6, <2>7 DEF IInv
<1> QED
  BY <1>2, <1>3

-----------------------------------------------------------------------------
(* The feed, the planner and the process.                                   *)

\* No queue has a job of the feed while the poller calls nobody.
LEMMA NoLiveJobs ==
  ASSUME IInv, calling \notin Runs
  PROVE  \A p \in Runs : \A j \in DOMAIN inst[p].jobs : inst[p].jobs[j].from # "live"
BY DEF IInv, Queues

\* A step that leaves the instances, the tables and the cursor alone, and lets
\* the poller go on with the same event, calling another or nobody.
LEMMA FeedInv ==
  ASSUME IInv, UNCHANGED <<inst, tables, cursor, runs, restored>>, Typed', Polled',
         at' = at \/ at' = 0 \/ (at = 0 /\ returned' = {}),
         calling \in Runs => UNCHANGED <<calling, at>>,
         returned' \cap Runs \subseteq returned,
         plan' # "idle" => Capture \notin returned',
         plan' \in {"scanning", "scanned"} => runs < MaxRuns,
         plan' \in {"scanned", "starting"} => Known(cursor) \subseteq snapshot',
         \A r \in Runs : Active(r) /\ Draining(r) => UNCHANGED <<plan, snapshot>>
  PROVE  IInv'
<1> USE DEF tables
<1>1. \A p : CountedBy(p)' = CountedBy(p)
  BY DEF CountedBy
<1>2. \A p : (Active(p)' <=> Active(p)) /\ (Draining(p)' <=> Draining(p))
  BY DEF Active, Draining
<1>3. Started' /\ Counts'
  BY <1>1 DEF IInv, Started, Counts
<1>4. Queues'
  BY NoLiveJobs DEF IInv, Queues, Kill
<1>5. HandedOver'
  BY <1>2 DEF IInv, HandedOver
<1>6. Heard'
  BY <1>2 DEF IInv, Heard
<1>7. RowIsActive' /\ NothingMissed'
  BY <1>2 DEF IInv, RowIsActive, NothingMissed
<1> QED
  BY <1>3, <1>4, <1>5, <1>6, <1>7 DEF IInv

LEMMA PublishInv == ASSUME IInv, Publish PROVE IInv'
<1> USE DEF Publish, planner, tables, process
<1>1. Typed' /\ Polled'
  BY BoundsAssumption DEF IInv, Typed, Polled
<1> QED
  BY <1>1, FeedInv DEF IInv, HandedOver

LEMMA StartInv == ASSUME IInv, Start PROVE IInv'
<1> USE DEF Start, feed, planner, tables
<1>1. Typed' /\ Polled'
  BY BoundsAssumption DEF IInv, Typed, Polled
<1> QED
  BY <1>1, FeedInv DEF IInv, HandedOver

LEMMA PlanBeginInv == ASSUME IInv, PlanBegin PROVE IInv'
<1> USE DEF PlanBegin, tables, process
<1>1. Typed' /\ Polled'
  BY BoundsAssumption DEF IInv, Typed, Polled
<1>2. \A r \in Runs : ~(Active(r) /\ Draining(r))
  BY DEF IInv, HandedOver
<1> QED
  BY <1>1, <1>2, FeedInv

LEMMA ScanArrivesInv == ASSUME IInv, ScanArrives PROVE IInv'
<1> USE DEF ScanArrives, feed, tables, process
<1>1. Known(head) \subseteq Kills /\ Known(cursor) \subseteq Known(head)
  BY KnownIsOfKills DEF IInv, Typed, Known
<1>2. Typed' /\ Polled'
  BY <1>1 DEF IInv, Typed, Polled
<1>3. \A r \in Runs : ~(Active(r) /\ Draining(r))
  BY DEF IInv, HandedOver
<1>4. Capture \notin returned /\ runs < MaxRuns
  BY DEF IInv, HandedOver
<1> QED
  BY <1>1, <1>2, <1>3, <1>4, FeedInv

LEMMA PlanEndsInv ==
  ASSUME IInv, NEW held \in BOOLEAN, PlanEnds(held),
         \A r \in Runs : ~(Active(r) /\ Draining(r))
  PROVE  IInv'
<1> USE DEF PlanEnds, tables, process
<1>1. \/ calling # Capture /\ UNCHANGED <<at, calling, returned>>
      \/ calling = Capture /\ calling' = NoOne /\ at' = 0 /\ returned' = {}
      \/ calling = Capture /\ calling' = NoOne /\ at' = at /\ returned' = returned \cup {Capture}
  BY DEF Released
<1>2. Typed'
  <2>1. /\ at' \in {0, cursor + 1} /\ calling' \in {NoOne, Capture} \cup Runs
        /\ returned' \subseteq {Capture} \cup Runs
    BY <1>1 DEF IInv, Typed
  <2>2. plan' = "idle" /\ captured' \in 0..MaxSeq /\ snapshot' \subseteq Kills
    BY BoundsAssumption
  <2> QED
    BY <2>1, <2>2 DEF IInv, Typed
<1>3. Polled'
  BY <1>1 DEF IInv, Polled, Typed
<1>4. /\ at' = at \/ at' = 0
      /\ calling \in Runs => UNCHANGED <<calling, at>>
      /\ returned' \cap Runs \subseteq returned
  BY <1>1
<1> QED
  BY <1>2, <1>3, <1>4, FeedInv

LEMMA PlanFailsInv == ASSUME IInv, PlanFails PROVE IInv'
<1>1. \A r \in Runs : ~(Active(r) /\ Draining(r))
  BY DEF PlanFails, IInv, HandedOver
<1> QED
  BY <1>1, PlanEndsInv DEF PlanFails

LEMMA PlanDoneInv == ASSUME IInv, PlanDone PROVE IInv'
<1>1. \A r \in Runs : ~(Active(r) /\ Draining(r))
  BY DEF PlanDone, IInv, HandedOver, Draining
<1>2. PlanEnds(~Accepted) /\ (~Accepted) \in BOOLEAN
  BY Zenon DEF PlanDone, Accepted
<1> QED
  BY <1>1, <1>2, PlanEndsInv

LEMMA TakeInv == ASSUME IInv, Take PROVE IInv'
<1> USE DEF Take, planner, tables, process
<1>1. calling = NoOne
  BY DEF IInv, Polled
<1>2. Typed' /\ Polled'
  BY BoundsAssumption DEF IInv, Typed, Polled
<1> QED
  BY <1>1, <1>2, FeedInv, BoundsAssumption DEF IInv, HandedOver

LEMMA CallCaptureInv == ASSUME IInv, CallCapture PROVE IInv'
<1> USE DEF CallCapture, CaptureWaits, tables, process
<1>1. Typed' /\ Polled'
  BY BoundsAssumption DEF IInv, Typed, Polled
<1>2. calling \notin Runs
  BY BoundsAssumption
<1> QED
  BY <1>1, <1>2, FeedInv DEF IInv, HandedOver

LEMMA CallInv == ASSUME IInv, NEW r \in Runs, Call(r) PROVE IInv'
<1> USE DEF Call, planner, tables, process
<1>1. Typed' /\ Polled'
  BY DEF IInv, Typed, Polled
<1>2. calling \notin Runs
  BY BoundsAssumption
<1> QED
  BY <1>1, <1>2, FeedInv DEF IInv, HandedOver

\* The cursor passes an event when the monitors have returned, and while no
\* planner holds it.
LEMMA PassInv == ASSUME IInv, Pass PROVE IInv'
<1> USE DEF Pass, planner, tables, process
<1>1. plan = "idle"
  BY DEF Listeners, IInv, HandedOver
<1>2. Typed' /\ Polled'
  BY BoundsAssumption DEF IInv, Typed, Polled
<1>3. \A p : CountedBy(p)' = CountedBy(p)
  BY DEF CountedBy
<1>4. \A p : (Active(p)' <=> Active(p)) /\ (Draining(p)' <=> Draining(p))
  BY DEF Active, Draining
<1>5. Started' /\ Counts'
  BY <1>3 DEF IInv, Started, Counts
<1>6. Queues'
  <2>1. calling \notin Runs
    BY BoundsAssumption
  <2> QED BY <2>1, NoLiveJobs DEF IInv, Queues, Kill
<1>7. HandedOver' /\ Heard'
  BY <1>1, <1>4 DEF IInv, HandedOver, Heard
<1>8. RowIsActive'
  BY <1>4 DEF IInv, RowIsActive
<1>9. NothingMissed'
  <2> SUFFICES ASSUME NEW r \in Runs, Active(r), inst[r].ready, NEW e \in 1..cursor'
               PROVE  KillOf[e] \in inst[r].seen \cup inst[r].refused
    BY <1>4 DEF NothingMissed
  <2>1. cursor' = at /\ at = cursor + 1 /\ cursor \in Nat
    BY DEF IInv, Typed
  <2>2. CASE e = at
    <3>1. r \in returned
      BY DEF Listeners
    <3> QED BY <2>2, <3>1 DEF IInv, Heard
  <2>3. CASE e # at
    <3>1. e \in 1..cursor
      BY <2>1, <2>3
    <3> QED BY <3>1 DEF IInv, NothingMissed
  <2> QED BY <2>2, <2>3
<1> QED
  BY <1>2, <1>5, <1>6, <1>7, <1>8, <1>9 DEF IInv

LEMMA CrashInv == ASSUME IInv, Crash PROVE IInv'
<1> USE DEF Crash, tables
<1>1. NoInstance \in Instances /\ NoInstance.status = "none" /\ NoInstance.jobs = <<>>
  BY BoundsAssumption, EmptySeq DEF NoInstance, Instances
<1>2. \A p \in Runs : inst'[p] = NoInstance
  OBVIOUS
<1>3. Typed' /\ Polled'
  <2>1. up' \in BOOLEAN /\ restored' \in BOOLEAN
    BY Zenon
  <2>2. inst' \in [Runs -> Instances]
    BY <1>1, Zenon
  <2> QED
    BY <2>1, <2>2, BoundsAssumption DEF IInv, Typed, Polled
<1>4. \A p : CountedBy(p)' = CountedBy(p)
  BY DEF CountedBy
<1>5. Started' /\ Counts'
  BY <1>1, <1>2, <1>4 DEF IInv, Started, Counts
<1>6. Queues'
  <2>1. DOMAIN <<>> = {}
    BY EmptySeq, LenProperties
  <2> QED BY <1>1, <1>2, <2>1 DEF Queues
<1>7. \A p \in Runs : ~Active(p)'
  BY <1>1, <1>2 DEF Active
<1> QED
  BY <1>3, <1>5, <1>6, <1>7 DEF IInv, HandedOver, Heard, RowIsActive, NothingMissed

\* A restored monitor counts on from its row.
LEMMA RestoreInv == ASSUME IInv, Restore PROVE IInv'
<1> USE DEF Restore, feed, planner, tables
<1>1. at = 0 /\ calling = NoOne
  BY DEF IInv, Polled
<1>2. \A p : CountedBy(p)' = CountedBy(p)
  BY DEF CountedBy
<1>3. CASE row.run = 0 \/ Active(row.run)
  <2>1. UNCHANGED inst
    BY <1>3
  <2>2. Typed' /\ Polled'
    BY <2>1 DEF IInv, Typed, Polled
  <2>3. Started' /\ Counts' /\ Queues'
    BY <1>2, <2>1 DEF IInv, Started, Counts, Queues, Kill
  <2>4. \A p : (Active(p)' <=> Active(p)) /\ (Draining(p)' <=> Draining(p))
    BY <2>1 DEF Active, Draining
  <2>5. RowIsActive'
    BY <1>3, <2>4 DEF IInv, RowIsActive
  <2> QED
    BY <2>1, <2>2, <2>3, <2>4, <2>5 DEF IInv, HandedOver, Heard, NothingMissed
<1>4. CASE row.run # 0 /\ ~Active(row.run)
  <2> DEFINE r == row.run
             n == [NoInstance EXCEPT !.status = "active", !.killsSeen = row.killsSeen]
  <2>1. r \in Runs /\ r <= runs /\ row.killsSeen \in Nat
    BY <1>4, BoundsAssumption DEF IInv, Typed, Started
  <2>2. /\ n \in Instances /\ n.status = "active" /\ n.killsSeen = row.killsSeen
        /\ n.jobs = <<>> /\ n.pending = 0 /\ ~n.ready
    <3>1. <<>> \in Seq(Jobs)
      BY EmptySeq
    <3>2. NoInstance \in Instances /\ NoInstance.jobs = <<>> /\ NoInstance.pending = 0
          /\ ~NoInstance.ready
      BY <3>1, BoundsAssumption DEF NoInstance, Instances
    <3> QED
      BY <2>1, <3>2 DEF Instances
  <2>3. inst' = [inst EXCEPT ![r] = n]
    BY <1>4
  <2> HIDE DEF n
  <2>4. /\ inst' \in [Runs -> Instances] /\ inst'[r] = n
        /\ \A p \in Runs : p # r => inst'[p] = inst[p]
    BY <2>1, <2>2, <2>3 DEF IInv, Typed
  <2>5. \A p \in Runs : /\ Active(p)' <=> p = r \/ Active(p)
                        /\ Draining(p)' => p # r /\ Draining(p)
    BY <2>1, <2>2, <2>4 DEF Active, Draining
  <2>6. Typed' /\ Polled'
    BY <2>4 DEF IInv, Typed, Polled
  <2>7. Started' /\ Counts'
    <3>1. \A p \in Runs : p # r => inst'[p] = inst[p]
      BY <2>4
    <3>2. inst'[r].status = "active" /\ inst'[r].killsSeen = row.killsSeen
      BY <2>2, <2>4
    <3>3. Started'
      <4>1. row'.run <= runs'
        BY <2>1
      <4>2. ASSUME NEW p \in Runs
            PROVE  /\ inst'[p].status = "none" => inst'[p] = NoInstance
                   /\ p > runs' => /\ inst'[p].status = "none" /\ p \notin returned'
                                   /\ CountedBy(p)' = {}
        <5>1. CASE p = r
          BY <2>1, <3>2, <5>1 DEF IInv, Typed
        <5>2. CASE p # r
          BY <1>2, <3>1, <5>2 DEF IInv, Started
        <5> QED BY <5>1, <5>2
      <4> QED BY <4>1, <4>2 DEF Started
    <3>4. Counts'
      BY <1>2, <1>4, <3>1, <3>2 DEF IInv, Counts
    <3> QED BY <3>3, <3>4
  <2>8. Queues'
    <3>1. DOMAIN <<>> = {}
      BY EmptySeq, LenProperties
    <3>2. inst'[r].jobs = <<>>
      BY <2>2, <2>4
    <3> SUFFICES ASSUME NEW p \in Runs, NEW j \in DOMAIN inst'[p].jobs
                 PROVE  /\ inst'[p].jobs[j].from = "live" =>
                             calling' = p /\ inst'[p].jobs[j].event = at'
                        /\ inst'[p].jobs[j].step # "queued" =>
                             j = 1 /\ <<p, KillOf[inst'[p].jobs[j].event]>> \notin dedup'
                        /\ \A l \in DOMAIN inst'[p].jobs :
                             inst'[p].jobs[j].from = inst'[p].jobs[l].from => j = l
      BY DEF Queues, Kill
    <3>3. inst'[p] = inst[p]
      BY <2>4, <3>1, <3>2
    <3> QED BY <3>3 DEF IInv, Queues, Kill
  <2>9. RowIsActive'
    BY <1>4, <2>1, <2>5 DEF IInv, RowIsActive
  <2>10. NothingMissed'
    BY <2>2, <2>4, <2>5 DEF IInv, NothingMissed
  <2> QED
    BY <1>1, <2>4, <2>5, <2>6, <2>7, <2>8, <2>9, <2>10 DEF IInv, HandedOver, Heard
<1> QED
  BY <1>3, <1>4

\* The new monitor counts from nothing and starts from the planner's snapshot.
LEMMA PlanStartsInv == ASSUME IInv, PlanStarts PROVE IInv'
<1> USE DEF feed, process
<1> DEFINE r == runs + 1
           job == [event |-> captured, from |-> "initial", step |-> "queued"]
           jobs == IF captured = 0 THEN <<>> ELSE <<job>>
           n == [NoInstance EXCEPT !.status = "active", !.seen = snapshot,
                   !.ready = (captured = 0), !.pending = captured, !.jobs = jobs]
           gone(p) == IF Active(p) THEN [inst[p] EXCEPT !.status = "gone"] ELSE inst[p]
<1>1. /\ plan = "scanned" /\ plan' = "starting" /\ runs' = r
      /\ inst' = [p \in Runs |-> IF p = r THEN n ELSE gone(p)]
      /\ row' = [run |-> r, killsSeen |-> 0] /\ dedup' = {}
      /\ UNCHANGED <<feed, captured, snapshot, counted, process>>
  BY DEF PlanStarts
<1>2. r \in Runs /\ runs \in Nat /\ captured \in 0..MaxSeq /\ snapshot \subseteq Kills
  BY <1>1, BoundsAssumption DEF IInv, Typed, HandedOver
<1>3. CountedBy(r) = {} /\ r \notin returned
  BY <1>2 DEF IInv, Started
<1>4. /\ jobs \in Seq(Jobs) /\ DOMAIN jobs \subseteq {1}
      /\ 1 \in DOMAIN jobs => jobs[1].from = "initial" /\ jobs[1].step = "queued"
  <2>1. CASE captured = 0
    <3>1. DOMAIN <<>> = {} /\ <<>> \in Seq(Jobs)
      BY EmptySeq, LenProperties
    <3> QED BY <2>1, <3>1
  <2>2. CASE captured # 0
    <3>1. job \in Jobs /\ job.from = "initial" /\ job.step = "queued"
      BY <1>2, <2>2, BoundsAssumption DEF Jobs, Sources
    <3> HIDE DEF job
    <3>2. <<job>> \in Seq(Jobs) /\ DOMAIN <<job>> = {1} /\ <<job>>[1] = job
      BY <3>1
    <3> QED BY <2>2, <3>1, <3>2
  <2> QED BY <2>1, <2>2
<1> HIDE DEF jobs
<1>5. /\ n.status = "active" /\ n.killsSeen = 0 /\ n.seen = snapshot /\ n.jobs = jobs
      /\ n.ready <=> captured = 0
  BY DEF NoInstance
<1>6. n \in Instances
  <2>1. (captured = 0) \in BOOLEAN
    BY Zenon
  <2> QED BY <1>2, <1>4, <2>1, BoundsAssumption DEF NoInstance, Instances
<1> HIDE DEF n
<1>7. \A p \in Runs : /\ gone(p) \in Instances /\ gone(p).status # "active"
                      /\ gone(p).status = "none" => gone(p) = inst[p]
                      /\ inst[p].status = "none" => gone(p) = inst[p]
                      /\ gone(p).jobs = inst[p].jobs /\ gone(p).killsSeen = inst[p].killsSeen
  <2> SUFFICES ASSUME NEW p \in Runs
               PROVE  /\ gone(p) \in Instances /\ gone(p).status # "active"
                      /\ gone(p).status = "none" => gone(p) = inst[p]
                      /\ inst[p].status = "none" => gone(p) = inst[p]
                      /\ gone(p).jobs = inst[p].jobs /\ gone(p).killsSeen = inst[p].killsSeen
    OBVIOUS
  <2>1. inst[p] \in Instances
    BY DEF IInv, Typed
  <2> QED BY <2>1 DEF Instances, Active
<1>8. /\ inst' \in [Runs -> Instances] /\ inst'[r] = n
      /\ \A p \in Runs : p # r => inst'[p] = gone(p)
  BY <1>1, <1>2, <1>6, <1>7
<1> HIDE DEF gone
<1>9. \A p \in Runs : Active(p)' <=> p = r
  BY <1>5, <1>7, <1>8 DEF Active
<1>10. \A p : CountedBy(p)' = CountedBy(p)
  BY <1>1 DEF CountedBy
<1>11. Typed' /\ Polled'
  BY <1>1, <1>2, <1>8, BoundsAssumption DEF IInv, Typed, Polled
<1>12. Started'
  <2>1. row'.run = r
    BY <1>1
  <2> QED
    BY <1>1, <1>2, <1>5, <1>7, <1>8, <1>10, <2>1 DEF IInv, Started
<1>13. Counts'
  <2>1. Cardinality({}) = 0
    BY FS_EmptySet
  <2>2. row'.run = r /\ row'.killsSeen = 0
    BY <1>1
  <2> QED
    BY <1>3, <1>5, <1>7, <1>8, <1>10, <2>1, <2>2 DEF IInv, Counts
<1>14. Queues'
  <2> SUFFICES ASSUME NEW p \in Runs, NEW j \in DOMAIN inst'[p].jobs
               PROVE  /\ inst'[p].jobs[j].from = "live" =>
                           calling = p /\ inst'[p].jobs[j].event = at
                      /\ inst'[p].jobs[j].step # "queued" =>
                           j = 1 /\ <<p, KillOf[inst'[p].jobs[j].event]>> \notin dedup'
                      /\ \A l \in DOMAIN inst'[p].jobs :
                           inst'[p].jobs[j].from = inst'[p].jobs[l].from => j = l
    BY <1>1 DEF Queues, Kill
  <2>1. CASE p = r
    BY <1>4, <1>5, <1>8, <2>1
  <2>2. CASE p # r
    <3>1. inst'[p].jobs = inst[p].jobs
      BY <1>7, <1>8, <2>2
    <3>2. /\ inst[p].jobs[j].from = "live" => calling = p /\ inst[p].jobs[j].event = at
          /\ inst[p].jobs[j].step # "queued" => j = 1
          /\ \A l \in DOMAIN inst[p].jobs :
               inst[p].jobs[j].from = inst[p].jobs[l].from => j = l
      BY <3>1 DEF IInv, Queues
    <3> QED BY <1>1, <3>1, <3>2
  <2> QED BY <2>1, <2>2
<1>15. Known(cursor) \subseteq snapshot
  BY <1>1 DEF IInv, HandedOver
<1>16. HandedOver'
  BY <1>1, <1>5, <1>8, <1>9, <1>15 DEF IInv, HandedOver
<1>17. Heard'
  BY <1>1, <1>3, <1>9 DEF Heard
<1>18. RowIsActive'
  <2>1. row'.run = r
    BY <1>1
  <2> QED BY <1>2, <1>9, <2>1 DEF RowIsActive
<1>19. NothingMissed'
  BY <1>1, <1>5, <1>8, <1>9, <1>15 DEF NothingMissed, Known
<1> QED
  BY <1>11, <1>12, <1>13, <1>14, <1>16, <1>17, <1>18, <1>19 DEF IInv

-----------------------------------------------------------------------------
(* The theorems.                                                            *)

LEMMA NextIInv == IInv /\ [Next]_vars => IInv'
<1> SUFFICES ASSUME IInv, [Next]_vars PROVE IInv'
  OBVIOUS
<1>1. CASE Publish \/ Start \/ Crash \/ Restore
  BY <1>1, PublishInv, StartInv, CrashInv, RestoreInv
<1>2. CASE PlanBegin \/ ScanArrives \/ PlanFails \/ PlanStarts \/ PlanDone
  BY <1>2, PlanBeginInv, ScanArrivesInv, PlanFailsInv, PlanStartsInv, PlanDoneInv
<1>3. CASE Take \/ CallCapture \/ Pass
  BY <1>3, TakeInv, CallCaptureInv, PassInv
<1>4. ASSUME NEW r \in Runs,
             \/ Stop(r) \/ BaselineArrives(r) \/ BaselineFails(r) \/ Call(r) \/ Hear(r)
             \/ Drain(r)
      PROVE  IInv'
  BY <1>4, StopInv, BaselineArrivesInv, BaselineFailsInv, CallInv, HearInv, DrainInv
<1>5. ASSUME NEW r \in Runs, NEW i \in 1..3,
             \/ Absorb(r, i) \/ Enrich(r, i) \/ Alert(r, i) \/ Forget(r, i) \/ Commit(r, i)
             \/ JobFails(r, i) \/ AlertRefused(r, i)
      PROVE  IInv'
  BY <1>5, AbsorbInv, EnrichInv, AlertInv, ForgetInv, CommitInv, JobFailsInv, AlertRefusedInv
<1>6. ASSUME NEW r \in Runs, NEW p \in Polls, Ask(r, p) \/ Learn(r, p) \/ LearnEnd(r, p)
      PROVE  IInv'
  BY <1>6, AskInv, LearnInv, LearnEndInv
<1>7. CASE UNCHANGED vars
  <2>1. /\ Typed' /\ Polled' /\ Started' /\ Counts' /\ RowIsActive' /\ NothingMissed'
        /\ HandedOver' /\ Heard'
    BY <1>7 DEF vars, feed, planner, tables, process, IInv, Typed, Polled, Started, Counts,
                CountedBy, RowIsActive, NothingMissed, HandedOver, Draining, Heard, Active
  <2>2. Queues'
    BY <1>7 DEF vars, feed, tables, IInv, Queues, Kill
  <2> QED
    BY <2>1, <2>2 DEF IInv
<1> QED
  BY <1>1, <1>2, <1>3, <1>4, <1>5, <1>6, <1>7 DEF Next

LEMMA Invariance == Spec => []IInv
BY InitIInv, NextIInv, PTL DEF Spec

\* No counter of a monitor or of its row passes the events there are.
LEMMA IInvTypes == IInv => TypeOK
<1> SUFFICES ASSUME IInv PROVE TypeOK
  OBVIOUS
<1>1. Typed
  BY DEF IInv
<1>2. Known(MaxSeq) \subseteq Kills
  BY KnownIsOfKills, BoundsAssumption
<1>3. row \in [run : 0..MaxRuns, killsSeen : 0..MaxSeq]
  <2>1. CASE row.run # 0
    BY <1>1, <2>1, CountsAreBounded DEF IInv, Counts, Typed
  <2>2. CASE row.run = 0
    BY <1>1, <2>2, BoundsAssumption DEF IInv, Counts, Typed
  <2> QED BY <2>1, <2>2
<1>4. ASSUME NEW r \in Runs
      PROVE  /\ inst[r].status \in {"none", "active", "gone"} /\ inst[r].ready \in BOOLEAN
             /\ inst[r].killsSeen \in 0..MaxSeq /\ inst[r].seen \subseteq Kills
             /\ inst[r].pending \in 0..MaxSeq /\ inst[r].polling \subseteq Polls
             /\ inst[r].refused \subseteq Kills
             /\ \A i \in DOMAIN inst[r].jobs : inst[r].jobs[i] \in Jobs
             /\ \A i, j \in DOMAIN inst[r].jobs :
                  inst[r].jobs[i].from = inst[r].jobs[j].from => i = j
  <2>1. inst[r] \in Instances /\ inst[r].jobs \in Seq(Jobs)
    BY <1>1 DEF Typed, Instances
  <2>2. inst[r].killsSeen \in 0..MaxSeq
    <3>1. CASE inst[r].status = "none"
      BY <3>1, BoundsAssumption DEF IInv, Started, NoInstance
    <3>2. CASE inst[r].status # "none"
      BY <1>1, <3>2, CountsAreBounded DEF IInv, Counts
    <3> QED BY <3>1, <3>2
  <2>3. \A i \in DOMAIN inst[r].jobs : inst[r].jobs[i] \in Jobs
    BY <2>1, LenProperties, ElementOfSeq
  <2>4. \A i, j \in DOMAIN inst[r].jobs :
          inst[r].jobs[i].from = inst[r].jobs[j].from => i = j
    BY DEF IInv, Queues
  <2> QED
    BY <2>1, <2>2, <2>3, <2>4 DEF Instances
<1> QED
  BY <1>1, <1>2, <1>3, <1>4 DEF Typed, TypeOK

\* Every variable keeps its type, and no queue has two jobs of one source.
THEOREM TypeCorrect == Spec => []TypeOK
BY Invariance, IInvTypes, PTL

\* What the row and the memory of a monitor say is what happened: each killmail
\* is counted once, through failed transactions, replays and restarts; a stopped
\* monitor leaves no row; and no killmail is lost between the planner's snapshot
\* and the feed.
THEOREM MonitorTrue == Spec => []MonitorIsTrue
<1>1. IInv => MonitorIsTrue
  BY DEF IInv, Typed, MonitorIsTrue, KillsCountedOnce, Counts, CountedBy, Active
<1> QED
  BY <1>1, Invariance, PTL

\* A killmail that a run has counted is never alerted again by that run.
THEOREM NoSecondAlert == Spec => AlertedOnce
<1>1. IInv /\ [Next]_vars =>
        [\A r \in Runs : \A i \in 1..3 : Alert(r, i) => <<r, Kill(r, i)>> \notin dedup]_vars
  BY AlertIsFirst
<1> QED
  BY <1>1, Invariance, PTL DEF Spec, AlertedOnce

-----------------------------------------------------------------------------
\* The instance TLC checks has one event.
OneEvent == [s \in 1..1 |-> CHOOSE k \in Kills : TRUE]
=============================================================================
