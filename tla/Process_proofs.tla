--------------------------- MODULE Process_proofs ---------------------------
(***************************************************************************)
(* Proofs about the components of MCProcess, for all processes, turns,     *)
(* updates, alerts and bounds: when a stop ends, how often an update is    *)
(* handled, how often an alert fires, and who owns the lock.               *)
(***************************************************************************)
EXTENDS MCProcess, FiniteSetTheorems, SequenceTheorems, TLAPS

-----------------------------------------------------------------------------
(* Shutdown.                                                               *)

\* The rungs by number.
LEMMA Rungs ==
  /\ Stop!Serving = 0 /\ Stop!Exited = 9 /\ Len(Stop!Ladder) = 8
  /\ \A i \in 1..8 : /\ Stop!Ladder[i] = "sweep" <=> i = 6
                     /\ Stop!Ladder[i] = "drain" <=> i = 5
                     /\ Stop!Ladder[i] = "alerts" <=> i = 4
                     /\ Stop!Ladder[i] = "server" <=> i = 8
<1>1. Len(Stop!Ladder) = 8  BY DEF Stop!Ladder
<1>2. \A i \in 1..8 : i = 1 \/ i = 2 \/ i = 3 \/ i = 4 \/ i = 5 \/ i = 6 \/ i = 7 \/ i = 8
  OBVIOUS
<1>. QED  BY <1>1, <1>2 DEF Stop!Ladder, Stop!Serving, Stop!Exited

\* Every await up to the sweep ends by the deadline of the stop, the others by
\* the budget of the sweep above it, and the clock never passes a timer.
Bounded ==
  /\ step > 0 => begun <= now
  /\ step \in 1..8 => now <= due
  /\ step \in 1..5 => due <= Stop!Deadline
  /\ step \in 6..8 => due <= Stop!Deadline + SweepBudget
  /\ step = 9 => now <= Stop!Deadline + SweepBudget

\* After the drain and before the deadline only turns run that began with an
\* update of Telegram's batch after the drain had seen no turn.
Drained ==
  /\ \A t \in batch : IngressOf[t] = "telegram"
  /\ step > 5 /\ now < Stop!Deadline =>
       \A t \in Stop!Running : IngressOf[t] = "telegram" /\ t \in drained

StopInv == Stop!TypeOK /\ Bounded /\ Drained /\ Stop!DrainIsKept

\* It holds at the start: the service serves.
LEMMA StopInit == Stop!Init => StopInv
  BY StopAssumption, Rungs
  DEF Stop!Init, StopInv, Stop!TypeOK, Bounded, Drained, Stop!Running, Stop!DrainIsKept

\* What the turns and the workers do leaves the clock and the timers alone.
LEMMA TurnStep ==
  ASSUME StopInv, NEW t \in Turns,
         Stop!Message(t) \/ Stop!Fetch(t) \/ Stop!Update(t) \/ Stop!Answer(t)
  PROVE  StopInv'
<1>. USE Rungs DEF StopInv, Stop!Message, Stop!Fetch, Stop!Update, Stop!Answer, Stop!Starts,
         Stop!IngressOpen, Stop!TypeOK
<1>1. Stop!TypeOK'  OBVIOUS
<1>2. Bounded'  BY DEF Bounded, Stop!Deadline
<1>3. Drained'  BY DEF Drained, Stop!Deadline, Stop!Running
<1>4. Stop!DrainIsKept'  BY DEF Stop!DrainIsKept
<1>. QED  BY <1>1, <1>2, <1>3, <1>4

LEMMA WorkStep ==
  ASSUME StopInv, NEW w \in Stop!Workers, Stop!WorkBegins(w) \/ Stop!WorkEnds(w)
  PROVE  StopInv'
  BY DEF StopInv, Stop!WorkBegins, Stop!WorkEnds, Stop!TypeOK, Bounded, Drained, Stop!Deadline,
         Stop!Running, Stop!DrainIsKept

\* A stop is asked for.
LEMMA StopStep == ASSUME StopInv, Stop!Stop PROVE StopInv'
<1>. USE Rungs, StopAssumption DEF StopInv, Stop!Stop, Stop!MayStop, Stop!TypeOK
<1>1. Stop!TypeOK'  OBVIOUS
<1>2. Bounded'  BY DEF Bounded, Stop!Deadline
<1>3. Drained'  BY DEF Drained, Stop!Running
<1>4. Stop!DrainIsKept'  BY DEF Stop!DrainIsKept
<1>. QED  BY <1>1, <1>2, <1>3, <1>4

\* The next await gets its timer, and turns are cut on the last two rungs.
LEMMA EnterStep ==
  ASSUME StopInv, NEW i \in 2..9, Stop!Enter(i), step \in 1..8, i > step,
         i <= 5 => now <= Stop!Deadline,
         step <= 5 /\ i > 5 /\ now < Stop!Deadline => Stop!Running = {},
         i > 5 => now <= Stop!Deadline \/ step >= 6,
         UNCHANGED <<now, drain, begun, busy, batch, drained>>
  PROVE  StopInv'
<1>. USE Rungs, StopAssumption DEF StopInv, Stop!TypeOK
<1>1. /\ now \in Nat /\ begun \in Nat /\ drain \in Nat /\ due \in Nat /\ step \in Nat
      /\ Stop!Deadline \in Nat /\ UNCHANGED Stop!Deadline
  BY DEF Stop!Deadline
<1>2. \/ i = 9 /\ due' = due
      \/ i = 6 /\ due' = now + SweepBudget
      \/ i = 5 /\ due' = now
      \/ i \in {2, 3, 4, 7, 8} /\ due' = IF now > Stop!Deadline THEN now ELSE Stop!Deadline
  BY DEF Stop!Enter, Stop!Timer, Stop!Later
<1>3. step' = i  BY DEF Stop!Enter
<1>4. now <= Stop!Deadline + SweepBudget
  BY <1>1 DEF Bounded
<1>5. Bounded'  BY <1>1, <1>2, <1>3, <1>4 DEF Bounded
<1>6. \E T \in SUBSET Stop!Running :
        /\ turn' = [t \in Turns |-> IF t \in T THEN "cut" ELSE turn[t]]
        /\ early' = IF T # {} /\ now < Stop!Deadline THEN early \cup T ELSE early
        /\ T # {} => i > 5
  <2>1. CASE i = 9  BY <2>1 DEF Stop!Enter, Stop!Cuts
  <2>2. CASE i = 8
    <3>. DEFINE W == {t \in Stop!Running : IngressOf[t] = "web"}
    <3>1. Stop!Cuts(W)  BY <2>2 DEF Stop!Enter
    <3>2. W \in SUBSET Stop!Running  OBVIOUS
    <3>. HIDE DEF W
    <3>3. W = {} => early \cup W = early  OBVIOUS
    <3>4. /\ turn' = [t \in Turns |-> IF t \in W THEN "cut" ELSE turn[t]]
          /\ early' = IF W # {} /\ now < Stop!Deadline THEN early \cup W ELSE early
      BY <3>1, <3>3 DEF Stop!Cuts
    <3>5. i > 5  BY <2>2
    <3>. WITNESS W \in SUBSET Stop!Running
    <3>. QED  BY <3>4, <3>5
  <2>3. CASE i < 8
    <3>1. turn' = turn /\ early' = early  BY <2>3 DEF Stop!Enter
    <3>2. turn' = [t \in Turns |-> IF t \in {} THEN "cut" ELSE turn[t]]  BY <3>1
    <3>. QED  BY <3>1, <3>2
  <2>. QED  BY <2>1, <2>2, <2>3
<1>7. PICK T \in SUBSET Stop!Running :
        /\ turn' = [t \in Turns |-> IF t \in T THEN "cut" ELSE turn[t]]
        /\ early' = IF T # {} /\ now < Stop!Deadline THEN early \cup T ELSE early
        /\ T # {} => i > 5
  BY <1>6
<1>8. i > 5 /\ now < Stop!Deadline =>
        \A t \in Stop!Running : IngressOf[t] = "telegram" /\ t \in drained
  BY <1>1 DEF Drained
<1>9. Stop!TypeOK'
  BY <1>2, <1>3, <1>7, <1>1 DEF Stop!Running
<1>10. Drained'
  BY <1>1, <1>3, <1>7, <1>8 DEF Drained, Stop!Running
<1>11. Stop!DrainIsKept'
  BY <1>7, <1>8 DEF Stop!DrainIsKept
<1>. QED  BY <1>5, <1>9, <1>10, <1>11

\* An await ends: what it waited for is over, or its timer is due.
LEMMA NextStepStep == ASSUME StopInv, Stop!NextStep PROVE StopInv'
<1>. USE Rungs, StopAssumption DEF StopInv, Stop!TypeOK
<1>1. step \in {1, 2, 3, 4, 6, 7, 8}  BY DEF Stop!NextStep, Stop!Stopping
<1>2. UNCHANGED <<now, drain, begun, busy, batch, drained>>  BY DEF Stop!NextStep
<1>3. /\ now \in Nat /\ begun \in Nat /\ drain \in Nat /\ due \in Nat
      /\ Stop!Deadline = begun + drain
  BY DEF Stop!Deadline
<1>4. step <= 5 => now <= Stop!Deadline  BY <1>1, <1>3 DEF Bounded
<1>5. CASE step = 4 /\ drain = 0
  <2>1. Stop!Enter(6)  BY <1>5 DEF Stop!NextStep
  <2>2. ~(now < Stop!Deadline)  BY <1>3, <1>5 DEF Bounded
  <2>. QED  BY <1>2, <1>4, <1>5, <2>1, <2>2, EnterStep
<1>6. CASE ~(step = 4 /\ drain = 0)
  <2>1. Stop!Enter(step + 1)  BY <1>1, <1>6 DEF Stop!NextStep
  <2>2. step + 1 \in 2..9 /\ step + 1 > step /\ (step + 1 <= 5 => step <= 5)
        /\ (step + 1 > 5 => step >= 6)
    BY <1>1
  <2>. QED  BY <1>1, <1>2, <1>4, <2>1, <2>2, EnterStep
<1>. QED  BY <1>5, <1>6

\* The drain saw no turn, or its time is over.
LEMMA DrainOverStep == ASSUME StopInv, Stop!DrainOver PROVE StopInv'
<1>. USE Rungs, StopAssumption DEF StopInv, Stop!TypeOK
<1>1. step = 5  BY DEF Stop!DrainOver, Stop!At, Stop!Stopping
<1>2. Stop!Enter(6) /\ UNCHANGED <<now, drain, begun, busy, batch, drained>>
  BY <1>1 DEF Stop!DrainOver
<1>3. now <= Stop!Deadline
  BY <1>1 DEF Bounded, Stop!Deadline
<1>4. now < Stop!Deadline => Stop!Running = {}
  BY <1>3 DEF Stop!DrainOver, Stop!Counted, Stop!Deadline
<1>. QED  BY <1>1, <1>2, <1>3, <1>4, EnterStep

\* The drain looks again, and time passes.
LEMMA TimeStep == ASSUME StopInv, Stop!DrainPoll \/ Stop!Tick \/ UNCHANGED shutdownVars PROVE StopInv'
<1>. USE Rungs, StopAssumption DEF StopInv, Stop!TypeOK
<1>1. CASE Stop!DrainPoll
  <2>. USE <1>1 DEF Stop!DrainPoll
  <2>1. step = 5  BY DEF Stop!At, Stop!Stopping
  <2>2. Stop!TypeOK'  BY DEF Stop!Earlier, Stop!Deadline
  <2>3. Bounded'  BY <2>1 DEF Bounded, Stop!Earlier, Stop!Deadline
  <2>4. Drained' /\ Stop!DrainIsKept'  BY DEF Drained, Stop!Deadline, Stop!Running, Stop!DrainIsKept
  <2>. QED  BY <2>2, <2>3, <2>4
<1>2. CASE Stop!Tick
  <2>. USE <1>2 DEF Stop!Tick
  <2>1. Stop!TypeOK'  OBVIOUS
  <2>2. Bounded'  BY DEF Bounded, Stop!Stopping, Stop!Deadline
  <2>3. Drained' /\ Stop!DrainIsKept'  BY DEF Drained, Stop!Deadline, Stop!Running, Stop!DrainIsKept
  <2>. QED  BY <2>1, <2>2, <2>3
<1>3. CASE UNCHANGED shutdownVars
  BY <1>3 DEF shutdownVars, Bounded, Drained, Stop!Deadline, Stop!Running, Stop!DrainIsKept
<1>. QED  BY <1>1, <1>2, <1>3

\* Every step keeps the invariant.
LEMMA ShutdownStep == StopInv /\ (Stop!Next \/ UNCHANGED shutdownVars) => StopInv'
  BY TurnStep, WorkStep, StopStep, NextStepStep, DrainOverStep, TimeStep DEF Stop!Next

\* A stop ends inside the time its supervisor grants, and cuts no turn while
\* drain time is left to it but those of Telegram updates handled after the
\* drain, for any turns, drain, poll and budgets, and whatever hangs.
THEOREM StopsInTime == MCSpec => []StopsSafe
<1>1. MCInit => StopInv  BY StopInit DEF MCInit
<1>2. StopInv /\ [MCNext]_all => StopInv'
  BY ShutdownStep DEF MCNext, all
<1>3. StopInv => StopsSafe
  <2>. SUFFICES ASSUME StopInv PROVE StopsSafe  OBVIOUS
  <2>1. Stop!StoppedInTime
    BY Rungs, StopAssumption
    DEF StopInv, Stop!TypeOK, Bounded, Stop!Deadline, Stop!StoppedInTime
  <2>. QED  BY <2>1 DEF StopInv, StopsSafe
<1>. QED  BY <1>1, <1>2, <1>3, PTL DEF MCSpec

-----------------------------------------------------------------------------
(* TelegramUpdates.                                                        *)

\* An update nobody sent yet is nowhere; one that was fetched is still within
\* Telegram's window; a claim is not older than its update.
Delivered ==
  /\ \A u \in Telegram!Updates : sent[u] <= clock
  /\ \A u \in Telegram!Updates :
       sent[u] = -1 => u \notin pending /\ claims[u] = -1 /\ runs[u] = << >>
  /\ \A u \in fetched : Telegram!Kept(u)
  /\ \A u \in Telegram!Updates : claims[u] # -1 => sent[u] <= claims[u] /\ claims[u] <= clock

\* What goes on to its handler is claimed and did not run.  An update that ran
\* and has no claim any more is one that Telegram has forgotten.
ClaimedOnce ==
  /\ up => boot > 0
  /\ claimed # {} => up
  /\ \A u \in claimed : u \in fetched /\ claims[u] # -1 /\ runs[u] = << >>
  /\ \A u \in Telegram!Updates : runs[u] # << >> /\ claims[u] = -1 => ~Telegram!Kept(u)
  /\ Telegram!HandledOnce

\* The keyboard of an earlier process is no later than the start of this one,
\* and a press that goes on to its handler is of a later keyboard.
OwnKeyboards ==
  /\ startedAt <= clock
  /\ \A u \in Taps : /\ keyboard[u][1] <= clock /\ keyboard[u][2] <= boot
                     /\ keyboard[u][2] < boot => keyboard[u][1] <= startedAt
                     /\ u \in claimed => ~Telegram!Backlog(u)
  /\ Telegram!TapsOfThisProcess

UpdatesInv == Telegram!TypeOK /\ Delivered /\ ClaimedOnce /\ OwnKeyboards

\* The cardinality of the instance is the library's.
LEMMA TelegramCardinality == \A S : Telegram!Cardinality(S) = Cardinality(S)
  BY DEF Telegram!Cardinality, Cardinality

\* It holds at the start: nothing was sent.
LEMMA UpdatesInit == Telegram!Init => UpdatesInv
<1>. SUFFICES ASSUME Telegram!Init PROVE UpdatesInv  OBVIOUS
<1>. USE UpdatesAssumption DEF Telegram!Init, Telegram!Times, Telegram!Updates
<1>1. Telegram!TypeOK
  <2>1. Cardinality({}) = 0  BY FS_EmptySet
  <2>2. runs \in [Telegram!Updates -> Seq(1..MaxBoots)]
    <3>1. << >> \in Seq(1..MaxBoots)  OBVIOUS
    <3>. QED  BY <3>1
  <2>3. keyboard \in [Taps -> Telegram!Times \X (0..MaxBoots)]  OBVIOUS
  <2>4. /\ sent \in [Telegram!Updates -> {-1} \cup Telegram!Times]
        /\ claims \in [Telegram!Updates -> {-1} \cup Telegram!Times]
    OBVIOUS
  <2>5. Telegram!Cardinality(claimed) = 0  BY <2>1, TelegramCardinality
  <2>6. clock \in Telegram!Times /\ startedAt \in Telegram!Times /\ boot \in 0..MaxBoots
    OBVIOUS
  <2>7. /\ up \in BOOLEAN /\ pending \subseteq Telegram!Updates /\ fetched \subseteq pending
        /\ handled \subseteq Telegram!Updates /\ claimed \subseteq Telegram!Updates
    OBVIOUS
  <2>. HIDE DEF Telegram!Init, Telegram!Times, Telegram!Updates
  <2>8. Telegram!Cardinality(claimed) <= 1  BY <2>5
  <2>. QED  BY <2>2, <2>3, <2>4, <2>6, <2>7, <2>8 DEF Telegram!TypeOK
<1>2. Delivered  BY DEF Delivered
<1>3. ClaimedOnce  BY DEF ClaimedOnce, Telegram!HandledOnce
<1>4. OwnKeyboards  BY DEF OwnKeyboards, Telegram!TapsOfThisProcess
<1>. QED  BY <1>1, <1>2, <1>3, <1>4 DEF UpdatesInv

\* Time passes, the user writes or presses.
LEMMA ClockTick == ASSUME UpdatesInv, Telegram!Tick PROVE UpdatesInv'
<1>. USE UpdatesAssumption DEF UpdatesInv, Telegram!Tick, Telegram!process, Telegram!telegram
<1>1. Telegram!TypeOK'  BY DEF Telegram!TypeOK, Telegram!Times, Telegram!Updates
<1>2. Delivered'
  BY DEF Delivered, Telegram!TypeOK, Telegram!Times, Telegram!Updates, Telegram!Kept
<1>3. ClaimedOnce'
  BY DEF ClaimedOnce, Telegram!TypeOK, Telegram!Times, Telegram!Updates, Telegram!Kept,
     Telegram!HandledOnce
<1>4. OwnKeyboards'
  BY DEF OwnKeyboards, Telegram!TypeOK, Telegram!Times, Telegram!Backlog,
     Telegram!TapsOfThisProcess
<1>. QED  BY <1>1, <1>2, <1>3, <1>4

LEMMA SendStep ==
  ASSUME UpdatesInv, NEW u \in Telegram!Updates, sent[u] = -1,
         sent' = [sent EXCEPT ![u] = clock], pending' = pending \cup {u},
         \/ UNCHANGED keyboard
         \/ /\ u \in Taps
            /\ \/ \E k \in startedAt..clock : keyboard' = [keyboard EXCEPT ![u] = <<k, boot>>]
               \/ \E k \in 0..startedAt, b \in 1..(boot - 1) :
                    keyboard' = [keyboard EXCEPT ![u] = <<k, b>>],
         UNCHANGED <<clock, boot, up, startedAt, fetched, handled, claims, claimed, runs>>
  PROVE  UpdatesInv'
<1>. USE UpdatesAssumption DEF UpdatesInv
<1>1. /\ u \notin pending /\ u \notin fetched /\ u \notin claimed /\ claims[u] = -1
      /\ runs[u] = << >>
  BY DEF Delivered, ClaimedOnce, Telegram!TypeOK
<1>2. \A v \in Telegram!Updates \ {u} : sent'[v] = sent[v]  BY DEF Telegram!TypeOK
<1>3. sent'[u] = clock  BY DEF Telegram!TypeOK
<1>4. /\ clock \in Nat /\ clock <= MaxClock /\ boot \in Nat /\ boot <= MaxBoots
      /\ startedAt \in Nat /\ startedAt <= clock
  BY DEF Telegram!TypeOK, Telegram!Times, OwnKeyboards
<1>5. \/ UNCHANGED keyboard
      \/ \E k \in 0..clock, b \in 0..boot :
           /\ u \in Taps /\ keyboard' = [keyboard EXCEPT ![u] = <<k, b>>]
           /\ b < boot => k <= startedAt
  BY <1>4
<1>6. /\ keyboard' \in [Taps -> Telegram!Times \X (0..MaxBoots)]
      /\ \A v \in Taps \ {u} : keyboard'[v] = keyboard[v]
      /\ u \in Taps => /\ keyboard'[u][1] <= clock /\ keyboard'[u][2] <= boot
                       /\ keyboard'[u][2] < boot => keyboard'[u][1] <= startedAt
  <2>1. CASE UNCHANGED keyboard  BY <2>1 DEF Telegram!TypeOK, OwnKeyboards
  <2>2. ASSUME NEW k \in 0..clock, NEW b \in 0..boot, u \in Taps,
               keyboard' = [keyboard EXCEPT ![u] = <<k, b>>], b < boot => k <= startedAt
        PROVE  /\ keyboard' \in [Taps -> Telegram!Times \X (0..MaxBoots)]
               /\ \A v \in Taps \ {u} : keyboard'[v] = keyboard[v]
               /\ keyboard'[u][1] <= clock /\ keyboard'[u][2] <= boot
               /\ keyboard'[u][2] < boot => keyboard'[u][1] <= startedAt
    <3>1. <<k, b>> \in Telegram!Times \X (0..MaxBoots)  BY <1>4 DEF Telegram!Times
    <3>2. keyboard'[u] = <<k, b>>  BY <2>2 DEF Telegram!TypeOK
    <3>3. keyboard' \in [Taps -> Telegram!Times \X (0..MaxBoots)]
      BY <2>2, <3>1 DEF Telegram!TypeOK
    <3>4. \A v \in Taps \ {u} : keyboard'[v] = keyboard[v]  BY <2>2 DEF Telegram!TypeOK
    <3>. QED  BY <2>2, <3>2, <3>3, <3>4, <1>4
  <2>. QED  BY <1>5, <2>1, <2>2
<1>7. Telegram!TypeOK'
  BY <1>4, <1>6 DEF Telegram!TypeOK, Telegram!Times
<1>8. Delivered'
  BY <1>1, <1>2, <1>3, <1>4 DEF Delivered, Telegram!Kept
<1>9. ClaimedOnce'
  BY <1>1, <1>2, <1>3 DEF ClaimedOnce, Telegram!Kept, Telegram!HandledOnce
<1>10. OwnKeyboards'
  <2>1. \A v \in Taps : runs[v] # << >> => keyboard'[v] = keyboard[v]  BY <1>1, <1>6
  <2>2. Telegram!TapsOfThisProcess'
    BY <1>1, <1>6 DEF Telegram!TapsOfThisProcess, OwnKeyboards
  <2>. QED  BY <1>1, <1>4, <1>6, <2>2 DEF OwnKeyboards, Telegram!Backlog
<1>. QED  BY <1>7, <1>8, <1>9, <1>10

\* A claim that the sweep removes is older than Telegram's window for its update.
LEMMA Prunes ==
  ASSUME UpdatesInv, NEW u \in Telegram!Updates
  PROVE  /\ Telegram!Pruned[u] \in {claims[u], -1}
         /\ Telegram!Pruned[u] # claims[u] => ~Telegram!Kept(u)
  BY UpdatesAssumption
  DEF UpdatesInv, Delivered, Telegram!TypeOK, Telegram!Times, Telegram!Pruned, Telegram!Outdated,
      Telegram!Kept

\* The next process starts, and sweeps the claims.
LEMMA BootStep == ASSUME UpdatesInv, Telegram!Boot PROVE UpdatesInv'
<1>. USE UpdatesAssumption DEF UpdatesInv, Telegram!Boot, Telegram!telegram
<1>1. claimed = {}  BY DEF ClaimedOnce
<1>2. claims' = Telegram!Pruned /\ Telegram!Pruned = [u \in Telegram!Updates |-> Telegram!Pruned[u]]
  BY DEF Telegram!Pruned
<1>3. \A u \in Telegram!Updates :
        claims'[u] \in {claims[u], -1} /\ (claims'[u] # claims[u] => ~Telegram!Kept(u))
  BY <1>2, Prunes
<1>4. Telegram!TypeOK'
  <2>1. claims' \in [Telegram!Updates -> {-1} \cup Telegram!Times]
    BY <1>2, <1>3 DEF Telegram!TypeOK
  <2>. QED  BY <2>1 DEF Telegram!TypeOK, Telegram!Times
<1>5. Delivered'  BY <1>3 DEF Delivered, Telegram!Kept, Telegram!TypeOK
<1>6. ClaimedOnce'
  <2>1. boot + 1 > 0  BY DEF Telegram!TypeOK
  <2>2. \A u \in Telegram!Updates : runs[u] # << >> /\ claims'[u] = -1 => ~Telegram!Kept(u)
    BY <1>3 DEF ClaimedOnce
  <2>. QED  BY <1>1, <2>1, <2>2 DEF ClaimedOnce, Telegram!Kept, Telegram!HandledOnce
<1>7. OwnKeyboards'
  BY <1>1 DEF OwnKeyboards, Telegram!TapsOfThisProcess, Telegram!TypeOK, Telegram!Times
<1>. QED  BY <1>4, <1>5, <1>6, <1>7

\* Polling fetches only what Telegram still has; what was skipped, handled or
\* given up with the process leaves the batch.
LEMMA BatchStep ==
  ASSUME UpdatesInv,
         UNCHANGED <<clock, boot, startedAt, sent, keyboard, claims, runs>>,
         up' \in BOOLEAN, up' => up, pending' \subseteq pending, fetched' \subseteq pending',
         \A u \in fetched' : Telegram!Kept(u), handled' \subseteq Telegram!Updates, claimed' = {}
  PROVE  UpdatesInv'
<1>. USE DEF UpdatesInv
<1>1. Cardinality({}) = 0  BY FS_EmptySet
<1>2. Telegram!TypeOK'  BY <1>1, TelegramCardinality DEF Telegram!TypeOK
<1>3. Delivered'  BY DEF Delivered, Telegram!Kept
<1>4. ClaimedOnce'  BY DEF ClaimedOnce, Telegram!Kept, Telegram!HandledOnce
<1>5. OwnKeyboards'  BY DEF OwnKeyboards, Telegram!TapsOfThisProcess
<1>. QED  BY <1>2, <1>3, <1>4, <1>5

LEMMA PollStep ==
  ASSUME UpdatesInv,
         \/ Telegram!Poll \/ Telegram!Stop \/ Telegram!Crash
         \/ \E u \in Telegram!Updates : Telegram!Skip(u)
  PROVE  UpdatesInv'
<1>1. /\ up \in BOOLEAN /\ pending \subseteq Telegram!Updates /\ fetched \subseteq pending
      /\ handled \subseteq Telegram!Updates /\ \A u \in fetched : Telegram!Kept(u)
  BY DEF UpdatesInv, Telegram!TypeOK, Delivered
<1>2. CASE Telegram!Poll
  BY <1>1, <1>2, BatchStep DEF Telegram!Poll, Telegram!process
<1>3. CASE Telegram!Stop \/ Telegram!Crash
  BY <1>1, <1>3, BatchStep DEF Telegram!Stop, Telegram!Crash, Telegram!Down
<1>4. ASSUME NEW u \in Telegram!Updates, Telegram!Skip(u) PROVE UpdatesInv'
  BY <1>1, <1>4, BatchStep DEF Telegram!Skip, Telegram!process, Telegram!telegram
<1>. QED  BY <1>2, <1>3, <1>4

\* An update is claimed for the first time, or was claimed before.
LEMMA ClaimUpdate == ASSUME UpdatesInv, NEW u \in Telegram!Updates, Telegram!Claim(u) PROVE UpdatesInv'
<1>. USE UpdatesAssumption DEF UpdatesInv
<1>1. /\ up /\ claimed = {} /\ u \in fetched /\ Telegram!Kept(u)
      /\ u \in Taps => ~Telegram!Backlog(u)
      /\ UNCHANGED <<clock, boot, up, startedAt, sent, keyboard, pending, runs>>
  BY DEF Telegram!Claim, Telegram!process, Telegram!telegram, Delivered
<1>2. \/ claims[u] = -1 /\ claimed' = {u} /\ UNCHANGED <<fetched, handled>>
      \/ /\ claims[u] # -1 /\ claimed' = {}
         /\ fetched' = fetched \ {u} /\ handled' = handled \cup {u}
  BY <1>1 DEF Telegram!Claim, Telegram!Unclaimed
<1>3. PICK c \in {claims, Telegram!Pruned} :
        claims' = [c EXCEPT ![u] = IF @ = -1 THEN clock ELSE @]
  BY DEF Telegram!Claim
<1>4. /\ c \in [Telegram!Updates -> {-1} \cup Telegram!Times]
      /\ \A v \in Telegram!Updates : c[v] \in {claims[v], -1} /\ (c[v] # claims[v] => ~Telegram!Kept(v))
  <2>1. Telegram!Pruned = [v \in Telegram!Updates |-> Telegram!Pruned[v]]  BY DEF Telegram!Pruned
  <2>2. \A v \in Telegram!Updates :
          /\ Telegram!Pruned[v] \in {claims[v], -1}
          /\ Telegram!Pruned[v] # claims[v] => ~Telegram!Kept(v)
    BY Prunes
  <2>3. claims \in [Telegram!Updates -> {-1} \cup Telegram!Times]  BY DEF Telegram!TypeOK
  <2>. QED  BY <2>1, <2>2, <2>3
<1>5. clock \in Telegram!Times /\ clock \in Nat /\ sent[u] <= clock /\ clock # -1
  BY DEF Telegram!TypeOK, Delivered, Telegram!Times
<1>6. /\ claims' \in [Telegram!Updates -> {-1} \cup Telegram!Times]
      /\ claims'[u] # -1 /\ claims'[u] \in {claims[u], clock}
      /\ \A v \in Telegram!Updates \ {u} :
           claims'[v] \in {claims[v], -1} /\ (claims'[v] # claims[v] => ~Telegram!Kept(v))
  BY <1>3, <1>4, <1>5
<1>7. Cardinality({}) = 0 /\ Cardinality({u}) = 1  BY FS_EmptySet, FS_Singleton
<1>8. Telegram!TypeOK'
  <2>1. /\ fetched' \subseteq pending /\ handled' \subseteq Telegram!Updates
        /\ claimed' \subseteq Telegram!Updates
    BY <1>2 DEF Telegram!TypeOK
  <2>2. Telegram!Cardinality(claimed') <= 1  BY <1>2, <1>7, TelegramCardinality
  <2>. QED  BY <1>1, <1>6, <2>1, <2>2 DEF Telegram!TypeOK
<1>9. Delivered'
  <2>1. sent[u] # -1  BY <1>1 DEF Delivered, Telegram!TypeOK
  <2>. QED  BY <1>1, <1>2, <1>5, <1>6, <2>1 DEF Delivered, Telegram!Kept
<1>10. ClaimedOnce'
  BY <1>1, <1>2, <1>6 DEF ClaimedOnce, Telegram!Kept, Telegram!HandledOnce
<1>11. OwnKeyboards'
  BY <1>1, <1>2 DEF OwnKeyboards, Telegram!Backlog, Telegram!TapsOfThisProcess
<1>. QED  BY <1>8, <1>9, <1>10, <1>11

\* The handler of the claimed update runs.
LEMMA HandleUpdate == ASSUME UpdatesInv, NEW u \in Telegram!Updates, Telegram!Handle(u) PROVE UpdatesInv'
<1>. USE UpdatesAssumption DEF UpdatesInv
<1>1. /\ u \in fetched /\ claims[u] # -1 /\ runs[u] = << >>
      /\ up /\ claimed' = {} /\ fetched' = fetched \ {u} /\ handled' = handled \cup {u}
      /\ UNCHANGED <<clock, boot, up, startedAt, sent, keyboard, pending, claims>>
  BY DEF Telegram!Handle, Telegram!process, Telegram!telegram, ClaimedOnce
<1>2. sent[u] # -1  BY <1>1 DEF Delivered, Telegram!TypeOK
<1>3. boot \in 1..MaxBoots
  <2>1. boot \in 0..MaxBoots  BY DEF Telegram!TypeOK
  <2>. QED  BY <1>1, <2>1 DEF ClaimedOnce
<1>4. runs' = [runs EXCEPT ![u] = <<boot>>]
  BY <1>1 DEF Telegram!Handle, Telegram!TypeOK
<1>5. Telegram!TypeOK'
  <2>1. Cardinality({}) = 0  BY FS_EmptySet
  <2>2. runs' \in [Telegram!Updates -> Seq(1..MaxBoots)]  BY <1>3, <1>4 DEF Telegram!TypeOK
  <2>. QED  BY <1>1, <2>1, <2>2, TelegramCardinality DEF Telegram!TypeOK
<1>6. Delivered'  BY <1>1, <1>2, <1>4 DEF Delivered, Telegram!Kept, Telegram!TypeOK
<1>7. ClaimedOnce'
  <2>1. Telegram!HandledOnce'  BY <1>4 DEF ClaimedOnce, Telegram!HandledOnce, Telegram!TypeOK
  <2>. QED  BY <1>1, <1>4, <2>1 DEF ClaimedOnce, Telegram!Kept, Telegram!TypeOK
<1>8. OwnKeyboards'
  <2>1. u \in Taps => keyboard[u][2] = boot
    <3>1. u \in Taps => /\ keyboard[u][1] \in Nat /\ keyboard[u][2] \in Nat /\ startedAt \in Nat
                        /\ boot \in Nat
      BY <1>3 DEF Telegram!TypeOK, Telegram!Times
    <3>. QED  BY <3>1 DEF OwnKeyboards, Telegram!Backlog, Telegram!Handle
  <2>2. Telegram!TapsOfThisProcess'
    <3>. SUFFICES ASSUME NEW v \in Taps, NEW i \in DOMAIN runs'[v]
                  PROVE  runs'[v][i] = keyboard[v][2]
      BY <1>1 DEF Telegram!TapsOfThisProcess
    <3>1. CASE v = u  BY <1>4, <2>1, <3>1 DEF Telegram!TypeOK
    <3>2. CASE v # u
      BY <1>4, <3>2 DEF Telegram!TypeOK, OwnKeyboards, Telegram!TapsOfThisProcess
    <3>. QED  BY <3>1, <3>2
  <2>. QED  BY <1>1, <2>2 DEF OwnKeyboards
<1>. QED  BY <1>5, <1>6, <1>7, <1>8

\* Every step keeps the invariant.
LEMMA UpdatesStep == UpdatesInv /\ (Telegram!Next \/ UNCHANGED telegramVars) => UpdatesInv'
<1>. SUFFICES ASSUME UpdatesInv, Telegram!Next \/ UNCHANGED telegramVars PROVE UpdatesInv'
  OBVIOUS
<1>1. ASSUME NEW u \in Telegram!Updates, Telegram!Write(u) \/ Telegram!Press(u) PROVE UpdatesInv'
  BY <1>1, SendStep DEF Telegram!Write, Telegram!Press, Telegram!process
<1>2. CASE UNCHANGED telegramVars
  BY <1>2 DEF telegramVars, UpdatesInv, Telegram!TypeOK, Delivered, ClaimedOnce, OwnKeyboards,
     Telegram!Kept, Telegram!HandledOnce, Telegram!Backlog, Telegram!TapsOfThisProcess
<1>. QED
  BY <1>1, <1>2, ClockTick, BootStep, PollStep, ClaimUpdate, HandleUpdate DEF Telegram!Next

\* However often an update is redelivered, whenever the process dies and the
\* claims are swept, its handler runs once, and a press counts only for the
\* process that sent its keyboard: for any updates, ages, windows and processes,
\* as long as a claim is kept no shorter than Telegram keeps the update.
THEOREM UpdatesOnce == MCSpec => []UpdatesSafe
<1>1. MCInit => UpdatesInv  BY UpdatesInit DEF MCInit
<1>2. UpdatesInv /\ [MCNext]_all => UpdatesInv'
  BY UpdatesStep DEF MCNext, all
<1>3. UpdatesInv => UpdatesSafe
  BY DEF UpdatesInv, ClaimedOnce, OwnKeyboards, UpdatesSafe, Telegram!UpdatesSafe
<1>. QED  BY <1>1, <1>2, <1>3, PTL DEF MCSpec

-----------------------------------------------------------------------------
(* MarketAlerts.                                                           *)

\* A finite set written as a sequence has each element once.
LEMMA InSequence ==
  ASSUME NEW S, IsFiniteSet(S)
  PROVE  \E n \in Nat :
           /\ Alert!SetToSeq(S) \in [1..n -> S]
           /\ \A i, j \in 1..n : Alert!SetToSeq(S)[i] = Alert!SetToSeq(S)[j] => i = j
           /\ \A x \in S : \E i \in 1..n : Alert!SetToSeq(S)[i] = x
<1>. DEFINE n == Cardinality(S)
            f == Alert!SetToSeq(S)
<1>1. n \in Nat /\ ExistsBijection(1..n, S)  BY FS_CardinalityType
<1>2. Alert!Cardinality(S) = n  BY DEF Alert!Cardinality, Cardinality
<1>3. PICK g : g \in Bijection(1..n, S)  BY <1>1 DEF ExistsBijection
<1>4. g \in [1..n -> S] /\ Alert!IsInjective(g)
  BY <1>3 DEF Bijection, Injection, IsInjective, Alert!IsInjective
<1>5. f = CHOOSE h \in [1..n -> S] : Alert!IsInjective(h)
  BY <1>2 DEF Alert!SetToSeq
<1>. HIDE DEF n, f
<1>6. f \in [1..n -> S] /\ Alert!IsInjective(f)  BY <1>4, <1>5
<1>7. f \in Injection(1..n, S)  BY <1>6 DEF Injection, IsInjective, Alert!IsInjective
<1>8. IsFiniteSet(1..n) /\ Cardinality(1..n) = n  BY <1>1, FS_Interval
<1>9. f \in Surjection(1..n, S)  BY <1>7, <1>8, FS_Injection DEF n
<1>10. \A x \in S : \E i \in 1..n : f[i] = x  BY <1>9 DEF Surjection
<1>11. \A i, j \in 1..n : f[i] = f[j] => i = j  BY <1>6 DEF Alert!IsInjective
<1>. QED  BY <1>1, <1>6, <1>10, <1>11 DEF f

EventRows == [alert : Alerts, attempts : Nat, due : BOOLEAN, old : BOOLEAN,
              settled : {"no", "delivered", "abandoned"}]

\* An alert has at most one event, an alert that waits has none, one that fired
\* and was not disabled has one.
Fired ==
  /\ \A d, e \in Alert!Ids : events[d].alert = events[e].alert => d = e
  /\ \A a \in Alerts :
       /\ alert[a] = "triggered" => \E e \in Alert!Ids : events[e].alert = a
       /\ alert[a] \in {"none", "active"} => \A e \in Alert!Ids : events[e].alert # a

Taken == \A e \in Alert!Ids : events[e].settled = "delivered" => pushes[e] > 0

AlertsTyped ==
  /\ alert \in [Alerts -> {"none", "active", "triggered", "disabled"}]
  /\ events \in Seq(EventRows) /\ pushes \in Seq(Nat) /\ Len(pushes) = Len(events)

AlertsInv == AlertsTyped /\ Fired /\ Taken

\* It holds at the start: there is no alert.
LEMMA AlertsInit == Alert!Init => AlertsInv
  BY DEF Alert!Init, AlertsInv, AlertsTyped, Fired, Taken, Alert!Ids

\* The user creates and disables alerts; what no event depends on changes.
LEMMA StatusStep ==
  ASSUME AlertsInv, UNCHANGED <<events, pushes>>,
         \/ UNCHANGED alert
         \/ \E a \in Alerts : Alert!Create(a) \/ Alert!Disable(a)
  PROVE  AlertsInv'
<1>. USE DEF AlertsInv
<1>1. /\ alert' \in [Alerts -> {"none", "active", "triggered", "disabled"}]
      /\ \A a \in Alerts : \/ alert'[a] = alert[a] \/ alert'[a] = "disabled"
                           \/ alert[a] = "none" /\ alert'[a] = "active"
  BY DEF AlertsTyped, Alert!Create, Alert!Disable
<1>2. AlertsTyped'  BY <1>1 DEF AlertsTyped
<1>3. Fired'  BY <1>1 DEF Fired, Alert!Ids
<1>4. Taken'  BY DEF Taken, Alert!Ids
<1>. QED  BY <1>2, <1>3, <1>4

\* The row of one event changes, but not its alert; it is marked as delivered
\* with a push, or was before.
LEMMA EventStep ==
  ASSUME AlertsInv, NEW e \in Alert!Ids, NEW r \in EventRows, UNCHANGED alert,
         events' = [events EXCEPT ![e] = r], r.alert = events[e].alert,
         \/ UNCHANGED pushes /\ (r.settled = "delivered" => events[e].settled = "delivered")
         \/ pushes' = [pushes EXCEPT ![e] = @ + 1]
  PROVE  AlertsInv'
<1>. USE DEF AlertsInv
<1>1. /\ events' \in Seq(EventRows) /\ Len(events') = Len(events) /\ events'[e] = r
      /\ \A d \in Alert!Ids \ {e} : events'[d] = events[d]
  BY DEF AlertsTyped, Alert!Ids
<1>2. /\ pushes' \in Seq(Nat) /\ Len(pushes') = Len(pushes)
      /\ \A d \in Alert!Ids : pushes[d] \in Nat /\ pushes'[d] \in Nat /\ pushes'[d] >= pushes[d]
      /\ \/ UNCHANGED pushes /\ (r.settled = "delivered" => events[e].settled = "delivered")
         \/ pushes'[e] > 0
  <2>1. pushes \in Seq(Nat) /\ Alert!Ids = 1..Len(pushes) /\ e \in 1..Len(pushes)
    BY DEF AlertsTyped, Alert!Ids
  <2>2. CASE UNCHANGED pushes /\ (r.settled = "delivered" => events[e].settled = "delivered")
    BY <2>1, <2>2
  <2>3. CASE pushes' = [pushes EXCEPT ![e] = @ + 1]
    <3>1. pushes[e] \in Nat  BY <2>1
    <3>2. pushes[e] + 1 \in Nat /\ pushes[e] + 1 > 0  BY <3>1
    <3>3. pushes' = [pushes EXCEPT ![e] = pushes[e] + 1]  BY <2>3
    <3>4. pushes' \in Seq(Nat) /\ Len(pushes') = Len(pushes)  BY <2>1, <3>2, <3>3
    <3>5. \A d \in 1..Len(pushes) : pushes'[d] = IF d = e THEN pushes[e] + 1 ELSE pushes[d]
      BY <2>1, <3>3
    <3>6. \A d \in 1..Len(pushes) : pushes[d] \in Nat  BY <2>1
    <3>7. \A d \in 1..Len(pushes) : pushes'[d] \in Nat /\ pushes'[d] >= pushes[d]
      BY <3>2, <3>5, <3>6
    <3>. QED  BY <2>1, <3>2, <3>4, <3>5, <3>6, <3>7
  <2>. QED  BY <2>2, <2>3
<1>3. UNCHANGED Alert!Ids  BY <1>1 DEF Alert!Ids
<1>4. AlertsTyped'  BY <1>1, <1>2 DEF AlertsTyped
<1>5. \A d \in Alert!Ids : events'[d].alert = events[d].alert  BY <1>1
<1>6. Fired'  BY <1>3, <1>5 DEF Fired
<1>7. Taken'
  <2>. SUFFICES ASSUME NEW d \in Alert!Ids, events'[d].settled = "delivered" PROVE pushes'[d] > 0
    BY <1>3 DEF Taken
  <2>1. CASE d = e  BY <1>1, <1>2, <2>1 DEF Taken
  <2>2. CASE d # e  BY <1>1, <1>2, <2>2 DEF Taken
  <2>. QED  BY <2>1, <2>2
<1>. QED  BY <1>4, <1>6, <1>7

LEMMA SendSteps ==
  ASSUME AlertsInv, NEW e \in Alert!Ids,
         \/ Alert!LateLands(e) \/ Alert!BackoffEnds(e) \/ Alert!Ages(e)
         \/ Alert!Sent(e) \/ Alert!SendFails(e) \/ Alert!SendTimesOut(e)
  PROVE  AlertsInv'
<1>1. /\ events[e] \in EventRows /\ events[e].attempts \in Nat
      /\ events = [events EXCEPT ![e] = events[e]]
  <2>1. events \in Seq(EventRows) /\ e \in 1..Len(events)
    BY DEF AlertsInv, AlertsTyped, Alert!Ids
  <2>2. events[e] \in EventRows  BY <2>1
  <2>3. events = [events EXCEPT ![e] = events[e]]  BY <2>1
  <2>. QED  BY <2>2, <2>3 DEF EventRows
<1>2. CASE Alert!LateLands(e)
  BY <1>1, <1>2, EventStep DEF Alert!LateLands
<1>3. CASE Alert!BackoffEnds(e)
  <2>. DEFINE r == [events[e] EXCEPT !.due = TRUE]
  <2>1. r \in EventRows /\ r.alert = events[e].alert /\ r.settled = events[e].settled
    BY <1>1 DEF EventRows
  <2>2. events' = [events EXCEPT ![e] = r] /\ UNCHANGED <<alert, pushes>>
    BY <1>3 DEF Alert!BackoffEnds
  <2>. HIDE DEF r
  <2>. QED  BY <2>1, <2>2, EventStep
<1>4. CASE Alert!Ages(e)
  <2>. DEFINE r == [events[e] EXCEPT !.old = TRUE]
  <2>1. r \in EventRows /\ r.alert = events[e].alert /\ r.settled = events[e].settled
    BY <1>1 DEF EventRows
  <2>2. events' = [events EXCEPT ![e] = r] /\ UNCHANGED <<alert, pushes>>
    BY <1>4 DEF Alert!Ages
  <2>. HIDE DEF r
  <2>. QED  BY <2>1, <2>2, EventStep
<1>5. CASE Alert!Sent(e)
  <2>. DEFINE r == [events[e] EXCEPT !.settled = "delivered", !.due = TRUE]
  <2>1. r \in EventRows /\ r.alert = events[e].alert
    BY <1>1 DEF EventRows
  <2>2. /\ pushes' = [pushes EXCEPT ![e] = @ + 1] /\ UNCHANGED alert
        /\ events' = events \/ events' = [events EXCEPT ![e] = r]
    BY <1>5 DEF Alert!Sent, Alert!MarkDelivered
  <2>. HIDE DEF r
  <2>. QED  BY <1>1, <2>1, <2>2, EventStep
<1>6. CASE Alert!SendFails(e) \/ Alert!SendTimesOut(e)
  <2>1. UNCHANGED <<alert, pushes>> /\ \E terminal \in BOOLEAN : events' = Alert!Failure(e, terminal)
    BY <1>6 DEF Alert!SendFails, Alert!SendTimesOut
  <2>2. PICK terminal \in BOOLEAN : events' = Alert!Failure(e, terminal)  BY <2>1
  <2>. DEFINE g == Alert!GivesUp(e, terminal)
              r == [events[e] EXCEPT !.attempts = @ + 1, !.due = g,
                                     !.settled = IF g THEN "abandoned" ELSE "no"]
  <2>3. g \in BOOLEAN  BY DEF Alert!GivesUp
  <2>4. events' = events \/ events' = [events EXCEPT ![e] = r]
    BY <2>2 DEF Alert!Failure
  <2>. HIDE DEF g
  <2>5. r \in EventRows /\ r.alert = events[e].alert /\ r.settled # "delivered"
    <3>1. events[e].attempts + 1 \in Nat /\ (IF g THEN "abandoned" ELSE "no") \in {"no", "abandoned"}
      BY <1>1
    <3>. QED  BY <1>1, <2>3, <3>1 DEF EventRows
  <2>. HIDE DEF r
  <2>. QED  BY <1>1, <2>1, <2>4, <2>5, EventStep
<1>. QED  BY <1>2, <1>3, <1>4, <1>5, <1>6

\* One transaction triggers alerts that had no event, and gives each one.
LEMMA FireStep == ASSUME AlertsInv, NEW crossed \in SUBSET Alerts, Alert!Fire(crossed) PROVE AlertsInv'
<1>. DEFINE F == Alert!Firing(crossed)
            s == Alert!SetToSeq(F)
            new == [i \in 1..Len(s) |-> [alert |-> s[i], attempts |-> 0, due |-> TRUE,
                                         old |-> FALSE, settled |-> "no"]]
            none == [i \in 1..Len(s) |-> 0]
<1>1. F \subseteq Alerts /\ \A a \in F : alert[a] = "active"
  BY DEF Alert!Firing, Alert!Claimable
<1>2. IsFiniteSet(F)  BY <1>1, AlertsAssumption, FS_Subset
<1>3. /\ events' = events \o new /\ pushes' = pushes \o none
      /\ alert' = [a \in Alerts |-> IF a \in F THEN "triggered" ELSE alert[a]]
  BY DEF Alert!Fire
<1>. HIDE DEF F
<1>4. PICK n \in Nat : /\ s \in [1..n -> F]
                       /\ \A i, j \in 1..n : s[i] = s[j] => i = j
                       /\ \A a \in F : \E i \in 1..n : s[i] = a
  BY <1>2, InSequence
<1>. HIDE DEF s
<1>5. Len(s) = n /\ \A i \in 1..n : s[i] \in F /\ s[i] \in Alerts  BY <1>1, <1>4
<1>6. /\ new \in Seq(EventRows) /\ Len(new) = n
      /\ \A i \in 1..n : new[i].alert = s[i] /\ new[i].settled = "no"
  BY <1>5 DEF EventRows
<1>7. none \in Seq(Nat) /\ Len(none) = n  BY <1>5
<1>. HIDE DEF new, none
<1>8. events \in Seq(EventRows) /\ pushes \in Seq(Nat) /\ Len(pushes) = Len(events)
  BY DEF AlertsInv, AlertsTyped
<1>9. /\ events' \in Seq(EventRows) /\ Len(events') = Len(events) + n
      /\ \A d \in 1..Len(events) : events'[d] = events[d]
      /\ \A d \in (Len(events) + 1)..(Len(events) + n) : events'[d] = new[d - Len(events)]
  <2>1. /\ events \o new \in Seq(EventRows) /\ Len(events \o new) = Len(events) + Len(new)
        /\ \A d \in 1..(Len(events) + Len(new)) :
             (events \o new)[d] = IF d <= Len(events) THEN events[d] ELSE new[d - Len(events)]
    BY <1>6, <1>8, ConcatProperties
  <2>2. Len(events) \in Nat  BY <1>8
  <2>. QED  BY <1>3, <1>6, <2>1, <2>2
<1>10. /\ pushes' \in Seq(Nat) /\ Len(pushes') = Len(events')
       /\ \A d \in 1..Len(events) : pushes'[d] = pushes[d]
  <2>1. /\ pushes \o none \in Seq(Nat) /\ Len(pushes \o none) = Len(pushes) + Len(none)
        /\ \A d \in 1..(Len(pushes) + Len(none)) :
             (pushes \o none)[d] = IF d <= Len(pushes) THEN pushes[d] ELSE none[d - Len(pushes)]
    BY <1>7, <1>8, ConcatProperties
  <2>2. Len(events) \in Nat  BY <1>8
  <2>. QED  BY <1>3, <1>7, <1>8, <1>9, <2>1, <2>2
<1>11. AlertsTyped'
  BY <1>3, <1>9, <1>10 DEF AlertsInv, AlertsTyped
<1>12. \A d \in 1..Len(events') :
         \/ /\ d \in 1..Len(events) /\ events'[d] = events[d]
            /\ events'[d].alert \notin F
         \/ /\ d \notin 1..Len(events) /\ d - Len(events) \in 1..n
            /\ events'[d].alert = s[d - Len(events)] /\ events'[d].settled = "no"
  <2>. SUFFICES ASSUME NEW d \in 1..Len(events')
                PROVE  \/ /\ d \in 1..Len(events) /\ events'[d] = events[d]
                          /\ events'[d].alert \notin F
                       \/ /\ d \notin 1..Len(events) /\ d - Len(events) \in 1..n
                          /\ events'[d].alert = s[d - Len(events)] /\ events'[d].settled = "no"
    OBVIOUS
  <2>1. CASE d \in 1..Len(events)
    <3>1. events'[d] = events[d]  BY <1>9, <2>1
    <3>2. \A a \in F : events[d].alert # a
      BY <1>1, <2>1 DEF AlertsInv, Fired, Alert!Ids
    <3>. QED  BY <2>1, <3>1, <3>2
  <2>2. CASE d \notin 1..Len(events)
    <3>1. d \in (Len(events) + 1)..(Len(events) + n) /\ d - Len(events) \in 1..n
      BY <1>8, <1>9, <2>2
    <3>. QED  BY <1>6, <1>9, <2>2, <3>1
  <2>. QED  BY <2>1, <2>2
<1>13. Fired'
  <2>1. ASSUME NEW d \in 1..Len(events'), NEW e \in 1..Len(events'),
               events'[d].alert = events'[e].alert
        PROVE  d = e
    <3>1. CASE d \in 1..Len(events) /\ e \in 1..Len(events)
      BY <1>12, <2>1, <3>1 DEF AlertsInv, Fired, Alert!Ids
    <3>2. CASE d \notin 1..Len(events) /\ e \notin 1..Len(events)
      <4>1. /\ d - Len(events) \in 1..n /\ e - Len(events) \in 1..n
            /\ s[d - Len(events)] = s[e - Len(events)]
        BY <1>12, <2>1, <3>2
      <4>2. d - Len(events) = e - Len(events)  BY <1>4, <4>1
      <4>. QED  BY <1>8, <4>2
    <3>3. CASE d \in 1..Len(events) /\ e \notin 1..Len(events)
      BY <1>5, <1>12, <2>1, <3>3
    <3>4. CASE d \notin 1..Len(events) /\ e \in 1..Len(events)
      BY <1>5, <1>12, <2>1, <3>4
    <3>. QED  BY <3>1, <3>2, <3>3, <3>4
  <2>2. ASSUME NEW a \in Alerts, alert'[a] = "triggered"
        PROVE  \E e \in 1..Len(events') : events'[e].alert = a
    <3>1. CASE a \in F
      <4>1. PICK i \in 1..n : s[i] = a  BY <1>4, <3>1
      <4>2. /\ Len(events) + i \in (Len(events) + 1)..(Len(events) + n)
            /\ Len(events) + i \in 1..Len(events') /\ (Len(events) + i) - Len(events) = i
        BY <1>8, <1>9, <4>1
      <4>3. events'[Len(events) + i] = new[i]  BY <1>9, <4>2
      <4>. QED  BY <1>6, <4>1, <4>2, <4>3
    <3>2. CASE a \notin F
      <4>1. alert[a] = "triggered"  BY <1>3, <2>2, <3>2
      <4>2. PICK e \in 1..Len(events) : events[e].alert = a
        BY <4>1 DEF AlertsInv, Fired, Alert!Ids
      <4>3. e \in 1..Len(events') /\ events'[e] = events[e]
        <5>1. Len(events) \in Nat  BY <1>8
        <5>. QED  BY <1>9, <4>2, <5>1
      <4>. QED  BY <4>2, <4>3
    <3>. QED  BY <3>1, <3>2
  <2>3. ASSUME NEW a \in Alerts, alert'[a] \in {"none", "active"}, NEW e \in 1..Len(events')
        PROVE  events'[e].alert # a
    <3>1. a \notin F /\ alert[a] \in {"none", "active"}  BY <1>3, <2>3
    <3>2. CASE e \in 1..Len(events)
      BY <1>12, <3>1, <3>2 DEF AlertsInv, Fired, Alert!Ids
    <3>3. CASE e \notin 1..Len(events)  BY <1>5, <1>12, <3>1, <3>3
    <3>. QED  BY <3>2, <3>3
  <2>. QED  BY <2>1, <2>2, <2>3 DEF Fired, Alert!Ids
<1>14. Taken'
  <2>. SUFFICES ASSUME NEW d \in 1..Len(events'), events'[d].settled = "delivered"
                PROVE  pushes'[d] > 0
    BY DEF Taken, Alert!Ids
  <2>1. d \in 1..Len(events) /\ events'[d] = events[d]  BY <1>12
  <2>. QED  BY <1>10, <2>1 DEF AlertsInv, Taken, Alert!Ids
<1>. QED  BY <1>11, <1>13, <1>14 DEF AlertsInv

\* Every step keeps the invariant.
LEMMA AlertsStep == AlertsInv /\ (Alert!Next \/ UNCHANGED alertVars) => AlertsInv'
<1>. SUFFICES ASSUME AlertsInv, Alert!Next \/ UNCHANGED alertVars PROVE AlertsInv'
  OBVIOUS
<1>1. CASE \/ Alert!LinkChanges \/ Alert!StartTick \/ Alert!SendOne \/ Alert!EndTick
           \/ Alert!BudgetSpent \/ Alert!Crash \/ UNCHANGED alertVars
  BY <1>1, StatusStep
  DEF Alert!LinkChanges, Alert!StartTick, Alert!SendOne, Alert!EndTick, Alert!BudgetSpent,
      Alert!Crash, alertVars
<1>2. ASSUME NEW a \in Alerts, Alert!Create(a) \/ Alert!Disable(a) PROVE AlertsInv'
  BY <1>2, StatusStep DEF Alert!Create, Alert!Disable
<1>. QED
  BY <1>1, <1>2, SendSteps, FireStep DEF Alert!Next, Alert!TickProgress

\* An alert fires at most once, one that fired and was not disabled has its
\* event, and an event marked as delivered was pushed: for any alerts and
\* limits, whatever fails, hangs or dies, and whatever the user does meanwhile.
THEOREM AlertsOnce == MCSpec => []AlertsSafe
<1>1. MCInit => AlertsInv  BY AlertsInit DEF MCInit
<1>2. AlertsInv /\ [MCNext]_all => AlertsInv'
  BY AlertsStep DEF MCNext, all
<1>3. AlertsInv => AlertsSafe
  <2>. SUFFICES ASSUME AlertsInv PROVE Alert!FiresOnce  BY DEF AlertsSafe
  <2>1. ASSUME NEW a \in Alerts
        PROVE  LET fired == {e \in Alert!Ids : events[e].alert = a} IN
               /\ Alert!Cardinality(fired) <= 1
               /\ alert[a] = "triggered" => Alert!Cardinality(fired) = 1
               /\ alert[a] = "active" => fired = {}
    <3>. DEFINE fired == {e \in Alert!Ids : events[e].alert = a}
    <3>1. fired = {} \/ \E e : fired = {e}
      <4>1. \A d, e \in fired : d = e  BY DEF AlertsInv, Fired
      <4>. HIDE DEF fired
      <4>. QED  BY <4>1
    <3>2. alert[a] = "triggered" => fired # {}  BY DEF AlertsInv, Fired
    <3>3. alert[a] = "active" => fired = {}  BY DEF AlertsInv, Fired
    <3>. HIDE DEF fired
    <3>4. Alert!Cardinality(fired) = Cardinality(fired)  BY DEF Alert!Cardinality, Cardinality
    <3>5. Cardinality(fired) = IF fired = {} THEN 0 ELSE 1  BY <3>1, FS_EmptySet, FS_Singleton
    <3>6. /\ Alert!Cardinality(fired) <= 1
          /\ alert[a] = "triggered" => Alert!Cardinality(fired) = 1
          /\ alert[a] = "active" => fired = {}
      BY <3>2, <3>3, <3>4, <3>5
    <3>. QED  BY <3>6 DEF fired
  <2>2. \A e \in Alert!Ids : events[e].settled = "delivered" => pushes[e] > 0
    BY DEF AlertsInv, Taken
  <2>. QED  BY <2>1, <2>2 DEF Alert!FiresOnce
<1>. QED  BY <1>1, <1>2, <1>3, PTL DEF MCSpec

-----------------------------------------------------------------------------
(* ProcessLock.                                                            *)

(* Mutual exclusion for any number of processes, crashes and reused PIDs,   *)
(* as long as the processes start one at a time (the run lock_race shows    *)
(* what two contenders can do).  The argument: the only contender saw every *)
(* process that owns the lock, so what it judges stale belongs to nobody,   *)
(* and stays so until it is taken.                                          *)

OneContender == \A p, q \in Contenders : p = q

\* What a contender knows between its read of owner.json and the takeover.
SawTheOwner == \A p, q \in Processes :
                 pc[p] = "judging" /\ pc[q] \in Owning => seen[p] = q
StaleIsNobodys == \A p, q \in Processes : pc[p] = "taking" => pc[q] \notin Owning

IInv == TypeOK /\ OwnerKeepsLock /\ OneContender /\ SawTheOwner /\ StaleIsNobodys

USE ProcessesAssumption
USE DEF Contending, Owning, Living, Alive, Goto

LEMMA InitIInv == Init => IInv
  BY DEF Init, IInv, TypeOK, OwnerKeepsLock, OneContender, Contenders,
         SawTheOwner, StaleIsNobodys

\* A contender comes only when there is none.
LEMMA StartStep ==
  ASSUME MaxContenders = 1, IInv, NEW p \in Processes, Start(p) PROVE IInv'
<1>1. Contenders = {}
  <2>1. IsFiniteSet(Contenders)  BY FS_Subset DEF Contenders
  <2>2. Cardinality(Contenders) \in Nat /\ Cardinality(Contenders) < 1
    BY <2>1, FS_CardinalityType DEF Start
  <2>. QED  BY <2>1, <2>2, FS_EmptySet
<1>2. Contenders' \subseteq {p}
  BY <1>1 DEF Start, Contenders, IInv, TypeOK
<1>3. OneContender'  BY <1>2 DEF OneContender
<1>4. TypeOK' /\ OwnerKeepsLock'  BY DEF Start, IInv, TypeOK, OwnerKeepsLock
<1>5. SawTheOwner' /\ StaleIsNobodys'
  BY DEF Start, IInv, TypeOK, SawTheOwner, StaleIsNobodys
<1>. QED  BY <1>3, <1>4, <1>5 DEF IInv

\* The owner a contender judges stale is not one that lives.
LEMMA JudgeStep == ASSUME IInv, NEW p \in Processes, Judge(p) PROVE IInv'
<1>1. TypeOK' /\ OwnerKeepsLock'  BY DEF Judge, IInv, TypeOK, OwnerKeepsLock
<1>2. OneContender'  BY DEF Judge, IInv, TypeOK, OneContender, Contenders
<1>3. SawTheOwner'  BY DEF Judge, IInv, TypeOK, SawTheOwner
<1>4. ASSUME ~Refuses(p), NEW q \in Processes, pc[q] \in Owning PROVE FALSE
  <2>1. seen[p] = q /\ q # NoOwner  BY <1>4 DEF Judge, IInv, SawTheOwner
  <2>2. StartedAt[q] \in Nat  OBVIOUS
  <2>3. StartedAt[q] - StartedAt[q] \in -2..2  BY <2>2
  <2>4. SameProcess(q)  BY <1>4, <2>3 DEF SameProcess
  <2>. QED  BY <1>4, <2>1, <2>4 DEF Refuses
<1>5. StaleIsNobodys'
  BY <1>4 DEF Judge, IInv, TypeOK, StaleIsNobodys
<1>. QED  BY <1>1, <1>2, <1>3, <1>5 DEF IInv

\* The takeover finds the directory of no living owner.
LEMMA TakeStep == ASSUME IInv, NEW p \in Processes, Take(p) PROVE IInv'
<1>1. \A q \in Processes : pc[q] \notin Owning
  BY DEF Take, IInv, StaleIsNobodys
<1>2. pc' = [pc EXCEPT ![p] = "renaming"]  BY DEF Take, TriesAgain
<1>3. TypeOK' /\ OwnerKeepsLock'
  BY <1>1, <1>2 DEF Take, IInv, TypeOK, OwnerKeepsLock
<1>4. OneContender'  BY <1>2 DEF Take, IInv, TypeOK, OneContender, Contenders
<1>5. SawTheOwner' /\ StaleIsNobodys'
  BY <1>1, <1>2 DEF Take, IInv, TypeOK, SawTheOwner, StaleIsNobodys
<1>. QED  BY <1>3, <1>4, <1>5 DEF IInv

LEMMA RenameStep == ASSUME IInv, NEW p \in Processes, Rename(p) PROVE IInv'
<1>. USE DEF IInv, TypeOK
<1>1. OneContender'  BY DEF Rename, OneContender, Contenders
<1>2. \A q \in Processes : pc[q] \in Contending => q = p
  BY DEF Rename, OneContender, Contenders
<1>3. CASE lock = NoOwner
  <2>1. lock' = p /\ pc' = [pc EXCEPT ![p] = "owning"] /\ seen' = seen
    BY <1>3 DEF Rename
  <2>2. \A q \in Processes : pc[q] \notin Owning  BY <1>3 DEF OwnerKeepsLock
  <2>3. TypeOK' /\ OwnerKeepsLock'  BY <2>1, <2>2 DEF OwnerKeepsLock
  <2>4. SawTheOwner' /\ StaleIsNobodys'
    BY <1>2, <2>1 DEF SawTheOwner, StaleIsNobodys
  <2>. QED  BY <1>1, <2>3, <2>4
<1>4. CASE lock # NoOwner
  BY <1>1, <1>4 DEF Rename, OwnerKeepsLock, SawTheOwner, StaleIsNobodys
<1>. QED  BY <1>3, <1>4

LEMMA ReadStep == ASSUME IInv, NEW p \in Processes, Read(p) PROVE IInv'
  BY DEF Read, IInv, TypeOK, OwnerKeepsLock, OneContender, Contenders,
         SawTheOwner, StaleIsNobodys

LEMMA ReleaseStep == ASSUME IInv, NEW p \in Processes, Release(p) PROVE IInv'
<1>. USE DEF IInv, TypeOK
<1>1. lock = p  BY DEF Release, OwnerKeepsLock
<1>2. OwnerKeepsLock'  BY <1>1 DEF Release, OwnerKeepsLock
<1>. QED
  BY <1>2 DEF Release, OneContender, Contenders, SawTheOwner, StaleIsNobodys

\* The other steps change no lock, and make no process contend or own.
LEMMA OtherStep ==
  ASSUME IInv, NEW p \in Processes,
         UNCHANGED <<lock, seen>>,
         NEW place \in (Living \cup {"new", "refused", "left", "crashed"})
                       \ (Contending \cup {"owning"}),
         place = "releasing" => pc[p] = "owning",
         Goto(p, place)
  PROVE  IInv'
  BY DEF IInv, TypeOK, OwnerKeepsLock, OneContender, Contenders,
         SawTheOwner, StaleIsNobodys

LEMMA IInvStep == MaxContenders = 1 /\ IInv /\ [Next]_vars => IInv'
<1>. SUFFICES ASSUME MaxContenders = 1, IInv, [Next]_vars PROVE IInv'
  OBVIOUS
<1>1. ASSUME NEW p \in Processes, Start(p) PROVE IInv'  BY <1>1, StartStep
<1>2. ASSUME NEW p \in Processes, StartForeign(p) PROVE IInv'
  BY <1>2, OtherStep DEF StartForeign
<1>3. ASSUME NEW p \in Processes, Rename(p) PROVE IInv'  BY <1>3, RenameStep
<1>4. ASSUME NEW p \in Processes, Read(p) PROVE IInv'  BY <1>4, ReadStep
<1>5. ASSUME NEW p \in Processes, Judge(p) PROVE IInv'  BY <1>5, JudgeStep
<1>6. ASSUME NEW p \in Processes, Unverifiable(p) PROVE IInv'
  BY <1>6, OtherStep DEF Unverifiable
<1>7. ASSUME NEW p \in Processes, Take(p) PROVE IInv'  BY <1>7, TakeStep
<1>8. ASSUME NEW p \in Processes, ReadToken(p) PROVE IInv'
  BY <1>8, OtherStep DEF ReadToken
<1>9. ASSUME NEW p \in Processes, Release(p) PROVE IInv'  BY <1>9, ReleaseStep
<1>10. ASSUME NEW p \in Processes, Crash(p) PROVE IInv'
  BY <1>10, OtherStep DEF Crash
<1>11. CASE UNCHANGED vars
  BY <1>11 DEF vars, IInv, TypeOK, OwnerKeepsLock, OneContender, Contenders,
               SawTheOwner, StaleIsNobodys
<1>. QED
  BY <1>1, <1>2, <1>3, <1>4, <1>5, <1>6, <1>7, <1>8, <1>9, <1>10, <1>11 DEF Next

\* The directory names its owner for as long as the owner has the lock.
THEOREM LockKept == MaxContenders = 1 => (Spec => []OwnerKeepsLock)
<1>. SUFFICES ASSUME MaxContenders = 1 PROVE Spec => []OwnerKeepsLock
  OBVIOUS
<1>1. IInv /\ [Next]_vars => IInv'  BY IInvStep
<1>2. IInv => OwnerKeepsLock  BY DEF IInv
<1>. QED  BY InitIInv, <1>1, <1>2, PTL DEF Spec

\* No two processes use the database at a time.
THEOREM MutualExclusion == MaxContenders = 1 => (Spec => []OneOwner)
<1>. SUFFICES ASSUME MaxContenders = 1 PROVE Spec => []OneOwner
  OBVIOUS
<1>1. Spec => []OwnerKeepsLock  BY LockKept
<1>2. OwnerKeepsLock => OneOwner  BY DEF OwnerKeepsLock, OneOwner
<1>. QED  BY <1>1, <1>2, PTL
=============================================================================
