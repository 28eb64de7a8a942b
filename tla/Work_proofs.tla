---------------------------- MODULE Work_proofs ----------------------------
(***************************************************************************)
(* Proofs about the components of MCWork, for all chats, users, calls,     *)
(* characters, pairs, rows and bounds: what the heartbeat tells, how the   *)
(* turns of the bots exclude each other, what an answer of ESI's client is *)
(* of, which days of a price history are there, what the model sees of a   *)
(* conversation, and what is in the local copy of the market.              *)
(***************************************************************************)
EXTENDS MCWork, FiniteSetTheorems, WellFoundedInduction, NaturalsInduction, TLAPS

(* Heartbeat.                                                              *)
\* What the row has saved, and what the tick in progress would save.
Saved(r, c) == config[r].state.list[c]
Seen(t, c) == run[t].state.list[c]

OneTick == \A t, u \in Ticks : run[t] # Nothing /\ run[u] # Nothing => t = u

\* A row that waits for its turn in the tick was read as it still is, and the
\* row in progress waits no more.
ReadIsCurrent ==
  \A t \in Ticks : run[t] # Nothing =>
    /\ \A r \in run[t].todo : run[t].read[r].state = config[r].state
    /\ run[t].row \notin run[t].todo

\* A list has a baseline once it has a saved id, which ESI had published; who
\* is not in the saved set has left.
Based ==
  /\ \A r \in Pilots : LET saved == config[r].state.set IN
       saved # Nothing => Members \ saved \subseteq left[r]
  /\ \A r \in Pilots, c \in Lists :
       /\ baseline[r][c] = Nothing <=> Saved(r, c) = Nothing
       /\ Saved(r, c) # Nothing => Saved(r, c) <= newest[r][c]

\* What the tick found in a list is what lies between the saved id and the one
\* it would save; before the poll, nothing.
ListInProgress(t, r, c) ==
  /\ Seen(t, c) # Nothing => Seen(t, c) <= newest[r][c]
  /\ c \in run[t].polls => Seen(t, c) = Saved(r, c)
  /\ Saved(r, c) = Nothing => \A i \in Ids : <<c, i>> \notin run[t].found
  /\ Saved(r, c) # Nothing =>
       /\ Seen(t, c) # Nothing /\ Saved(r, c) <= Seen(t, c)
       /\ \A i \in Ids : <<c, i>> \in run[t].found <=> Saved(r, c) < i /\ i <= Seen(t, c)

\* What it found in the set was a member when the row was saved, and would be
\* none any more.
SetInProgress(t, r) ==
  LET saved == config[r].state.set
      seen  == run[t].state.set
  IN /\ "set" \in run[t].polls => seen = saved
     /\ saved # Nothing => seen # Nothing /\ seen \subseteq saved
     /\ seen # Nothing => Members \ seen \subseteq left[r]
     /\ \A m \in Members : <<"set", m>> \in run[t].found =>
          saved # Nothing /\ m \in saved /\ m \notin seen
Confirmed(t, r) ==
  run[t].accepted => run[t].polls = {} /\ \A x \in run[t].found : told[r][x] > 0
InProgress ==
  \A t \in Ticks, r \in Pilots : At(t, r) =>
    /\ run[t].state # Nothing /\ Confirmed(t, r)
    /\ SetInProgress(t, r) /\ \A c \in Lists : ListInProgress(t, r, c)

\* Nothing of one row is left when the next is taken.
BetweenRows == \A t \in Ticks : Between(t) => run[t].found = {} /\ ~run[t].accepted

\* What was told is behind the saved state, or in the message accepted just now.
Behind(r, x) ==
  \/ x[1] \in Lists /\ Saved(r, x[1]) # Nothing /\ x[2] <= Saved(r, x[1])
  \/ x[1] = "set" /\ config[r].state.set # Nothing /\ x[2] \notin config[r].state.set
TellsNow(r, x) == \E t \in Ticks : At(t, r) /\ run[t].accepted /\ x \in run[t].found
ToldBefore ==
  crashes = 0 => \A r \in Pilots, x \in Things :
    told[r][x] > 0 => Behind(r, x) \/ TellsNow(r, x)

IInv == /\ TypeOK /\ OneTick /\ ReadIsCurrent /\ Based /\ InProgress /\ BetweenRows
        /\ NothingSkipped /\ ToldOnce /\ ToldBefore

\* Fields of a tick that runs, and of a row.
LEMMA Types ==
  ASSUME TypeOK
  PROVE  /\ \A t \in Ticks : run[t] # Nothing => run[t] \in TickStates
         /\ \A x \in TickStates : x # Nothing
         /\ \A r \in Pilots : config[r] \in Configs /\ config[r].state \in States
         /\ \A r \in Pilots, c \in Lists : Saved(r, c) \in Ids \cup {0, Nothing}
         /\ \A t \in Ticks, r \in Pilots : At(t, r) =>
              run[t] \in TickStates /\ run[t].state \in States \cup {Nothing}
  BY NothingAssumption DEF TypeOK, Configs, States, Saved, Ids, At, TickStates

\* It holds at the start: nothing is saved, told or in progress.
LEMMA InitIInv == Init => IInv
<1> SUFFICES ASSUME Init PROVE IInv OBVIOUS
<1>1. TypeOK
  BY BoundsAssumption DEF Init, TypeOK, Configs, States, Fresh
<1>2. QED
  BY <1>1 DEF Init, IInv, OneTick, ReadIsCurrent, Based, InProgress, BetweenRows, Between, At,
      NothingSkipped, ToldOnce, ToldBefore, Saved, Fresh

\* ESI publishes a mail.
LEMMA PublishStep == ASSUME IInv, NEW r \in Pilots, NEW c \in Lists, Publish(r, c) PROVE IInv'
<1> USE DEF IInv, Publish
<1>1. TypeOK'
  BY BoundsAssumption DEF TypeOK
<1>2. \A q \in Pilots, d \in Lists :
        newest[q][d] \in Int /\ newest'[q][d] \in Int /\ newest[q][d] <= newest'[q][d]
  BY BoundsAssumption DEF TypeOK
<1>3. /\ \A q \in Pilots, d \in Lists : Saved(q, d) \in Int \cup {Nothing}
      /\ \A t \in Ticks, q \in Pilots, d \in Lists : At(t, q) /\ run[t].state # Nothing =>
           Seen(t, d) \in Int \cup {Nothing}
  BY Types DEF States, Seen, Ids
<1>4. Based'
  BY <1>2, <1>3 DEF Based, Saved
<1>5. InProgress'
  BY <1>2, <1>3 DEF InProgress, Confirmed, At, ListInProgress, SetInProgress, Seen, Saved
<1>6. (OneTick /\ ReadIsCurrent /\ BetweenRows /\ NothingSkipped /\ ToldOnce /\ ToldBefore)'
  BY DEF OneTick, ReadIsCurrent, BetweenRows, NothingSkipped, ToldOnce, ToldBefore, Saved, Behind,
         TellsNow, At, Between
<1> QED BY <1>1, <1>4, <1>5, <1>6

\* A member leaves the set for good.
LEMMA LeaveStep == ASSUME IInv, NEW r \in Pilots, NEW m \in Members, Leave(r, m) PROVE IInv'
<1> USE DEF IInv, Leave
<1>1. TypeOK'
  BY DEF TypeOK
<1>2. \A q \in Pilots : left[q] \subseteq left'[q]
  BY DEF TypeOK
<1>3. InProgress'
  BY <1>2 DEF InProgress, Confirmed, At, ListInProgress, SetInProgress, Seen, Saved
<1>4. Based'
  BY <1>2 DEF Based, Saved
<1>5. (OneTick /\ ReadIsCurrent /\ BetweenRows /\ NothingSkipped /\ ToldOnce /\ ToldBefore)'
  BY DEF OneTick, ReadIsCurrent, BetweenRows, NothingSkipped, ToldOnce, ToldBefore, Saved,
         Behind, TellsNow, At, Between
<1> QED BY <1>1, <1>3, <1>4, <1>5

\* The pilot, the clock and a row that is skipped leave what is saved alone.
LEMMA SameStates ==
  ASSUME IInv, TypeOK', \A r \in Pilots : config'[r].state = config[r].state,
         UNCHANGED <<newest, left, baseline, told, crashes>>,
         \A t \in Ticks : /\ run'[t] = Nothing <=> run[t] = Nothing
                          /\ run[t] # Nothing =>
                               /\ run'[t].read = run[t].read /\ run'[t].row = run[t].row
                               /\ run'[t].state = run[t].state /\ run'[t].polls = run[t].polls
                               /\ run'[t].found = run[t].found
                               /\ run'[t].accepted = run[t].accepted
                               /\ run'[t].todo \subseteq run[t].todo
  PROVE  IInv'
<1> USE DEF IInv
<1>1. (OneTick /\ ReadIsCurrent)'
  BY DEF OneTick, ReadIsCurrent, TypeOK, TickStates
<1>2. (Based /\ NothingSkipped /\ ToldOnce)'
  BY DEF Based, NothingSkipped, ToldOnce, Saved
<1>3. \A t \in Ticks, r \in Pilots : At(t, r) <=> At(t, r)'
  BY DEF At
<1>4. ASSUME NEW t \in Ticks, NEW r \in Pilots, At(t, r), NEW c \in Lists, ListInProgress(t, r, c)
      PROVE  ListInProgress(t, r, c)'
  <2>1. Seen(t, c)' = Seen(t, c) /\ Saved(r, c)' = Saved(r, c)
    BY <1>4 DEF Seen, Saved, At
  <2> QED BY <1>4, <2>1 DEF ListInProgress, At
<1>6. ASSUME NEW t \in Ticks, NEW r \in Pilots, At(t, r), SetInProgress(t, r) /\ Confirmed(t, r)
      PROVE  (SetInProgress(t, r) /\ Confirmed(t, r))'
             /\ run'[t].state = run[t].state
  BY <1>6 DEF SetInProgress, Confirmed, At
<1>8. InProgress'
  BY <1>3, <1>4, <1>6 DEF InProgress
<1>7. BetweenRows'
  BY DEF BetweenRows, Between
<1>5. ToldBefore'
  BY <1>3 DEF ToldBefore, Behind, TellsNow, Saved, At
<1> QED BY <1>1, <1>2, <1>5, <1>7, <1>8

\* The pilot may edit the row while it is polled.
LEMMA ConfigureStep == ASSUME IInv, NEW r \in Pilots, Configure(r) PROVE IInv'
<1>1. /\ config' \in [Pilots -> Configs] /\ \A q \in Pilots : config'[q].state = config[q].state
  <2>1. CASE config' = [config EXCEPT ![r].enabled = ~@]
    BY <2>1, Types DEF IInv, TypeOK, Configs
  <2>2. ASSUME NEW c \in Checks, config' = [config EXCEPT ![r].checks = @ \ {c}]
        PROVE  <1>1
    BY <2>2, Types DEF IInv, TypeOK, Configs
  <2>3. ASSUME NEW c \in Checks,
               config' = [config EXCEPT ![r].checks = @ \cup {c}, ![r].enabled = TRUE]
        PROVE  <1>1
    BY <2>3, Types DEF IInv, TypeOK, Configs
  <2> QED BY <2>1, <2>2, <2>3 DEF Configure
<1> QED BY <1>1, SameStates DEF Configure, IInv, TypeOK

\* A row falls due.
LEMMA IntervalStep == ASSUME IInv, NEW r \in Pilots, IntervalPasses(r) PROVE IInv'
<1>1. /\ config' \in [Pilots -> Configs] /\ \A q \in Pilots : config'[q].state = config[q].state
  BY Types DEF IInv, IntervalPasses, TypeOK, Configs
<1> QED BY <1>1, SameStates DEF IntervalPasses, IInv, TypeOK

\* A tick passes a row over.
LEMMA SkipStep ==
  ASSUME IInv, NEW t \in Ticks, NEW r \in Pilots, NEW tokenless \in BOOLEAN,
         SkipRow(t, r, tokenless)
  PROVE  IInv'
<1>1. /\ config' \in [Pilots -> Configs] /\ \A q \in Pilots : config'[q].state = config[q].state
  BY Types DEF IInv, SkipRow, TypeOK, Configs
<1>2. run[t] # Nothing /\ run[t] \in TickStates /\ run' = [run EXCEPT ![t].todo = @ \ {r}]
  BY Types DEF IInv, SkipRow, Between
<1>3. run'[t] = [run[t] EXCEPT !.todo = @ \ {r}] /\ run'[t] \in TickStates /\ run'[t] # Nothing
      /\ \A u \in Ticks \ {t} : run'[u] = run[u]
  <2>1. run'[t] = [run[t] EXCEPT !.todo = @ \ {r}] /\ \A u \in Ticks \ {t} : run'[u] = run[u]
    BY <1>2 DEF IInv, TypeOK
  <2>2. run'[t] \in TickStates
    BY <1>2, <2>1 DEF TickStates
  <2> QED BY <2>1, <2>2, Types DEF IInv
<1>4. TypeOK'
  BY <1>1, <1>2, <1>3 DEF IInv, TypeOK, SkipRow
<1> QED BY <1>1, <1>2, <1>3, <1>4, SameStates DEF SkipRow, TickStates

\* What is saved, told and published is as it was: only the tick steps.
LEMMA TickOnly ==
  ASSUME IInv, UNCHANGED <<newest, left, config, baseline, told, crashes>>
  PROVE  /\ (Based /\ NothingSkipped /\ ToldOnce)'
         /\ \A r \in Pilots, c \in Lists : Saved(r, c)' = Saved(r, c)
BY DEF IInv, Based, NothingSkipped, ToldOnce, Saved

\* A tick that runs is the only one.
LEMMA Alone ==
  ASSUME IInv, NEW t \in Ticks, run[t] # Nothing
  PROVE  \A u \in Ticks \ {t} : run[u] = Nothing
BY DEF IInv, OneTick

\* A tick begins: it reads the rows that are due, and has none in progress.
LEMMA StartStep == ASSUME IInv, NEW t \in Ticks, Start(t) PROVE IInv'
<1> DEFINE new == [todo |-> Due, read |-> config, row |-> Nothing, state |-> Nothing,
                   polls |-> {}, found |-> {}, accepted |-> FALSE]
<1>1. new \in TickStates
  BY DEF IInv, TypeOK, TickStates, Due
<1>2. /\ run' = [run EXCEPT ![t] = new] /\ \A u \in Ticks : run[u] = Nothing
      /\ UNCHANGED <<newest, left, config, baseline, told, crashes>>
  BY DEF Start, MayTick
<1>3. run'[t] = new /\ new # Nothing /\ \A u \in Ticks \ {t} : run'[u] = Nothing
  <2> HIDE DEF new
  <2> QED BY <1>1, <1>2, Types DEF IInv, TypeOK
<1>4. TypeOK'
  <2> HIDE DEF new
  <2> QED BY <1>1, <1>2 DEF IInv, TypeOK
<1>5. (OneTick /\ ReadIsCurrent /\ BetweenRows)'
  <2>1. OneTick'
    BY <1>3 DEF OneTick
  <2>2. run'[t].found = {} /\ ~run'[t].accepted
    BY <1>3
  <2>3. BetweenRows'
    BY <1>3, <2>2 DEF BetweenRows, Between
  <2>4. ReadIsCurrent'
    BY <1>2, <1>3, NothingAssumption DEF ReadIsCurrent, Due
  <2> QED BY <2>1, <2>3, <2>4
<1>6. \A u \in Ticks, r \in Pilots : ~At(u, r) /\ ~At(u, r)'
  BY <1>2, <1>3, NothingAssumption DEF At
<1>7. (InProgress /\ ToldBefore)'
  BY <1>2, <1>6 DEF IInv, InProgress, ToldBefore, TellsNow, Behind, Saved
<1> QED BY <1>2, <1>4, <1>5, <1>7, TickOnly DEF IInv

\* A tick ends between two rows, its message saved.
LEMMA EndStep == ASSUME IInv, NEW t \in Ticks, EndTick(t) PROVE IInv'
<1>1. /\ Between(t) /\ \A u \in Ticks : run'[u] = Nothing
      /\ UNCHANGED <<newest, left, config, baseline, told, crashes>>
  BY Alone DEF EndTick, Between, IInv, TypeOK
<1>2. TypeOK'
  BY <1>1 DEF EndTick, IInv, TypeOK
<1>3. \A u \in Ticks, r \in Pilots : ~At(u, r) /\ ~At(u, r)'
  BY <1>1, Alone, NothingAssumption DEF At, Between
<1>4. (OneTick /\ ReadIsCurrent /\ BetweenRows /\ InProgress)'
  BY <1>1, <1>3 DEF OneTick, ReadIsCurrent, BetweenRows, Between, InProgress
<1>5. ToldBefore'
  BY <1>1, <1>3 DEF IInv, ToldBefore, TellsNow, Behind, Saved
<1> QED BY <1>1, <1>2, <1>4, <1>5, TickOnly DEF IInv

\* The process dies: what it told and did not save is told again.
LEMMA CrashStep == ASSUME IInv, Crash PROVE IInv'
<1>1. /\ \A u \in Ticks : run'[u] = Nothing
      /\ crashes' = crashes + 1 /\ crashes \in Nat /\ crashes < MaxCrashes
      /\ UNCHANGED <<newest, left, config, baseline, told>>
  BY BoundsAssumption DEF Crash, IInv, TypeOK
<1>2. TypeOK'
  BY <1>1, BoundsAssumption DEF Crash, IInv, TypeOK
<1>3. (OneTick /\ ReadIsCurrent /\ BetweenRows /\ InProgress)'
  BY <1>1 DEF OneTick, ReadIsCurrent, BetweenRows, Between, InProgress, At
<1>4. (Based /\ NothingSkipped)'
  BY <1>1 DEF IInv, Based, NothingSkipped, Saved
<1>5. (ToldBefore /\ ToldOnce)'
  BY <1>1 DEF IInv, ToldBefore, ToldOnce
<1> QED BY <1>2, <1>3, <1>4, <1>5 DEF IInv

\* A row is taken with the state that was read, which is still the saved one.
LEMMA TakeStep == ASSUME IInv, NEW t \in Ticks, NEW r \in Pilots, TakeRow(t, r) PROVE IInv'
<1>1. /\ run[t] \in TickStates /\ Between(t) /\ r \in run[t].todo
      /\ \A u \in Ticks \ {t} : run[u] = Nothing /\ run'[u] = Nothing
      /\ UNCHANGED <<newest, left, config, baseline, told, crashes>>
  BY Types, Alone DEF TakeRow, Between, IInv, TypeOK
<1>2. /\ run[t].read[r] \in Configs /\ run[t].read[r].state = config[r].state
      /\ run[t].found = {} /\ ~run[t].accepted
  BY <1>1 DEF IInv, ReadIsCurrent, BetweenRows, Between, TickStates
<1>3. run'[t] = [run[t] EXCEPT !.todo = @ \ {r}, !.row = r,
                   !.state = run[t].read[r].state, !.polls = run[t].read[r].checks]
  BY <1>1 DEF TakeRow, IInv, TypeOK
<1>4. /\ run'[t].todo = run[t].todo \ {r} /\ run'[t].row = r /\ run'[t].read = run[t].read
      /\ run'[t].state = config[r].state /\ run'[t].polls = run[t].read[r].checks
      /\ run'[t].found = {} /\ run'[t].accepted = FALSE
  BY <1>1, <1>2, <1>3 DEF TickStates
<1>5. run'[t] \in TickStates
  BY <1>1, <1>2, <1>3 DEF TickStates, Configs
<1>6. TypeOK' /\ run'[t] # Nothing
  BY <1>1, <1>5, Types DEF TakeRow, IInv, TypeOK
<1>7. \A u \in Ticks, q \in Pilots : (At(u, q)' => u = t /\ q = r) /\ ~At(u, q)
  BY <1>1, <1>4, NothingAssumption DEF At, Between
<1>8. (OneTick /\ ReadIsCurrent /\ BetweenRows)'
  BY <1>1, <1>4, <1>6, NothingAssumption DEF IInv, OneTick, ReadIsCurrent, BetweenRows, Between
<1>9. config[r].state \in States /\ SetInProgress(t, r)' /\ Confirmed(t, r)'
  BY <1>1, <1>4, <1>6, Types DEF SetInProgress, Confirmed, IInv, Based
<1>10. ASSUME NEW c \in Lists PROVE ListInProgress(t, r, c)'
  <2>1. Seen(t, c)' = Saved(r, c) /\ Saved(r, c)' = Saved(r, c)
    BY <1>1, <1>4 DEF Seen, Saved
  <2>2. Saved(r, c) # Nothing => Saved(r, c) \in Int /\ Saved(r, c) <= newest[r][c]
    BY Types DEF IInv, Based, Ids
  <2> QED BY <1>1, <1>4, <2>1, <2>2 DEF ListInProgress, Ids
<1>11. InProgress'
  BY <1>1, <1>4, <1>7, <1>9, <1>10, NothingAssumption DEF InProgress
<1>12. ToldBefore'
  BY <1>1, <1>7 DEF IInv, ToldBefore, TellsNow, Behind, Saved
<1> QED BY <1>1, <1>6, <1>8, <1>11, <1>12, TickOnly DEF IInv

\* A step within a row: the tick keeps the rows it waits for, the row and what
\* it read.
Within(t, r) ==
  /\ At(t, r) /\ run'[t] # Nothing /\ run'[t].row = r /\ run'[t].todo = run[t].todo
  /\ run'[t].read = run[t].read /\ \A u \in Ticks \ {t} : run'[u] = run[u]
  /\ UNCHANGED config

\* It leaves the rows it waits for current, and steps in no other row.
LEMMA WithinRow ==
  ASSUME IInv, NEW t \in Ticks, NEW r \in Pilots, Within(t, r)
  PROVE  /\ (OneTick /\ ReadIsCurrent /\ BetweenRows)'
         /\ \A u \in Ticks, q \in Pilots : /\ At(u, q)' => u = t /\ q = r
                                        /\ At(u, q) => u = t /\ q = r
<1>1. /\ \A u \in Ticks \ {t} : run[u] = Nothing /\ run'[u] = Nothing
      /\ run[t] # Nothing /\ run[t].row = r /\ r # Nothing
  BY Alone, NothingAssumption DEF Within, At
<1>2. (OneTick /\ BetweenRows)'
  BY <1>1 DEF Within, OneTick, BetweenRows, Between
<1>3. ReadIsCurrent'
  BY <1>1 DEF IInv, Within, ReadIsCurrent
<1> QED BY <1>1, <1>2, <1>3 DEF Within, At

\* A step within a row that is not accepted, before or after.
LEMMA Unaccepted ==
  ASSUME IInv, TypeOK', NEW t \in Ticks, NEW r \in Pilots, Within(t, r),
         UNCHANGED <<newest, left, baseline, told, crashes>>,
         ~run[t].accepted, ~run'[t].accepted, run'[t].state # Nothing,
         SetInProgress(t, r)', \A c \in Lists : ListInProgress(t, r, c)'
  PROVE  IInv'
<1>0. \A u \in Ticks, q \in Pilots : At(u, q)' \/ At(u, q) => u = t /\ q = r
  BY Alone, NothingAssumption DEF At, Within
<1>1. InProgress'
  BY <1>0 DEF InProgress, Confirmed, At
<1>2. \A q \in Pilots, x \in Things : ~TellsNow(q, x) /\ (Behind(q, x) => Behind(q, x)')
  BY <1>0 DEF TellsNow, Behind, Saved, Within
<1>3. ToldBefore'
  BY <1>2 DEF IInv, ToldBefore
<1> QED BY <1>1, <1>3, WithinRow, TickOnly DEF IInv, Within

\* The fields of the row in progress.
LEMMA RowTypes ==
  ASSUME IInv, NEW t \in Ticks, NEW r \in Pilots, At(t, r)
  PROVE  /\ run[t] \in TickStates /\ run[t].state \in States
         /\ SetInProgress(t, r) /\ Confirmed(t, r) /\ \A c \in Lists : ListInProgress(t, r, c)
         /\ run[t].state.list \in [Lists -> Ids \cup {0, Nothing}]
         /\ run[t].state.set \in (SUBSET Members) \cup {Nothing}
         /\ \A c \in Lists : /\ newest[r][c] \in 0..MaxId
                             /\ Seen(t, c) \in Ids \cup {0, Nothing}
                             /\ Saved(r, c) \in Ids \cup {0, Nothing}
         /\ left[r] \subseteq Members
<1>1. /\ run[t] \in TickStates /\ run[t].state \in States
      /\ SetInProgress(t, r) /\ Confirmed(t, r) /\ \A c \in Lists : ListInProgress(t, r, c)
  BY Types DEF IInv, InProgress
<1>2. 0..MaxId = Ids \cup {0}
  BY BoundsAssumption DEF Ids
<1> QED BY <1>1, <1>2, Types DEF IInv, TypeOK, States, Seen

\* A poll changes the state, the checks to poll and what was found.
LEMMA PollFrame ==
  ASSUME IInv, NEW t \in Ticks, NEW r \in Pilots, Poll(t, r),
         NEW p \in SUBSET Checks, NEW s \in States, NEW f \in SUBSET Things,
         run' = [run EXCEPT ![t] = [@ EXCEPT !.polls = p, !.state = s, !.found = f]]
  PROVE  /\ TypeOK' /\ Within(t, r) /\ ~run[t].accepted /\ ~run'[t].accepted
         /\ run'[t].polls = p /\ run'[t].state = s /\ run'[t].found = f /\ s # Nothing
<1>1. run[t] \in TickStates /\ At(t, r) /\ ~run[t].accepted
  BY RowTypes DEF Poll
<1>2. run'[t] = [run[t] EXCEPT !.polls = p, !.state = s, !.found = f]
      /\ \A u \in Ticks \ {t} : run'[u] = run[u]
  BY DEF IInv, TypeOK
<1>3. /\ run'[t].todo = run[t].todo /\ run'[t].read = run[t].read /\ run'[t].row = run[t].row
      /\ run'[t].state = s /\ run'[t].polls = p /\ run'[t].found = f
      /\ run'[t].accepted = run[t].accepted
      /\ run'[t] \in TickStates
  <2> DEFINE w == run[t]
             e == run'[t]
  <2>1. w \in TickStates /\ e = [w EXCEPT !.polls = p, !.state = s, !.found = f]
    BY <1>1, <1>2
  <2> HIDE DEF w, e
  <2>2. /\ e.todo = w.todo /\ e.read = w.read /\ e.row = w.row /\ e.accepted = w.accepted
        /\ e.state = s /\ e.polls = p /\ e.found = f
        /\ e \in TickStates
    BY <2>1 DEF TickStates
  <2> QED BY <2>2 DEF w, e
<1>4. TypeOK'
  BY <1>3 DEF Poll, IInv, TypeOK
<1>5. run'[t] # Nothing /\ s # Nothing
  BY <1>3, Types, NothingAssumption DEF IInv
<1> QED BY <1>1, <1>2, <1>3, <1>4, <1>5 DEF Poll, Within, At

\* The list is polled.
LEMMA PollListStep ==
  ASSUME IInv, NEW t \in Ticks, NEW r \in Pilots, NEW c \in Lists, Poll(t, r), PollList(t, r, c)
  PROVE  IInv'
<1> DEFINE last == Seen(t, c)
           now == newest[r][c]
           rest == run[t].polls \ {c}
           s == [run[t].state EXCEPT !.list[c] = now]
           f == run[t].found \cup IF last = Nothing THEN {} ELSE {<<c, i>> : i \in (last + 1)..now}
<1>1. /\ At(t, r) /\ c \in run[t].polls
      /\ run' = [run EXCEPT ![t] = [@ EXCEPT !.polls = rest, !.state = s, !.found = f]]
      /\ UNCHANGED <<newest, left, config, baseline, told, crashes>>
  BY DEF Poll, PollList, Seen
<1>2. /\ last = Saved(r, c) /\ last \in Ids \cup {0, Nothing} /\ now \in 0..MaxId
      /\ last # Nothing => last \in Nat /\ last <= now
      /\ "set" # c
  BY <1>1, RowTypes, BoundsAssumption, ListsAssumption DEF ListInProgress, IInv, Based, Ids
<1>3. f \in SUBSET Things
  BY <1>1, <1>2, RowTypes, BoundsAssumption DEF TickStates, Things, Ids
<1>4. s \in States /\ rest \in SUBSET Checks /\ s.set = run[t].state.set
      /\ \A d \in Lists : s.list[d] = IF d = c THEN now ELSE Seen(t, d)
  BY <1>1, <1>2, RowTypes DEF TickStates, States, Seen
<1>5. /\ TypeOK' /\ Within(t, r) /\ ~run[t].accepted /\ ~run'[t].accepted
      /\ run'[t].polls = rest /\ run'[t].state = s /\ run'[t].found = f /\ s # Nothing
  <2> HIDE DEF rest, s, f
  <2> QED BY <1>1, <1>3, <1>4, PollFrame
<1>6. \A d \in Lists : /\ Seen(t, d)' = IF d = c THEN now ELSE Seen(t, d)
                       /\ Saved(r, d)' = Saved(r, d)
  BY <1>1, <1>4, <1>5 DEF Seen, Saved
<1>7. SetInProgress(t, r)'
  BY <1>1, <1>2, <1>4, <1>5, RowTypes DEF SetInProgress
<1>8. ASSUME NEW d \in Lists PROVE ListInProgress(t, r, d)'
  <2>1. CASE d # c
    BY <2>1, <1>1, <1>5, <1>6, RowTypes DEF ListInProgress
  <2>2. CASE d = c
    <3>1. \A i \in Ids : <<c, i>> \in f <=>
           (<<c, i>> \in run[t].found) \/ (last # Nothing /\ last < i /\ i <= now)
      <4>1. CASE last = Nothing
        <5>1. f = run[t].found
          BY <4>1
        <5> HIDE DEF last, now, f
        <5> QED BY <4>1, <5>1
      <4>2. CASE last # Nothing
        <5>1. f = run[t].found \cup {<<c, i>> : i \in (last + 1)..now}
          BY <4>2
        <5>2. last \in Nat /\ now \in Nat
          BY <1>2, <4>2, BoundsAssumption
        <5> HIDE DEF last, now, f
        <5> QED BY <4>2, <5>1, <5>2, BoundsAssumption DEF Ids
      <4> QED BY <4>1, <4>2
    <3> QED BY <2>2, <3>1, <1>1, <1>2, <1>5, <1>6, RowTypes, NothingAssumption
            DEF ListInProgress, Ids
  <2> QED BY <2>1, <2>2
<1> HIDE DEF s, rest, f
<1> QED BY <1>1, <1>5, <1>7, <1>8, Unaccepted

\* The set is polled.
LEMMA PollSetStep ==
  ASSUME IInv, NEW t \in Ticks, NEW r \in Pilots, Poll(t, r), PollSet(t, r)
  PROVE  IInv'
<1> DEFINE seen == run[t].state.set
           now == Members \ left[r]
           rest == run[t].polls \ {"set"}
           s == [run[t].state EXCEPT !.set = now]
           f == run[t].found \cup IF seen = Nothing THEN {}
                                   ELSE {<<"set", m>> : m \in seen \cap left[r]}
<1>1. /\ At(t, r) /\ "set" \in run[t].polls
      /\ run' = [run EXCEPT ![t] = [@ EXCEPT !.polls = rest, !.state = s, !.found = f]]
      /\ UNCHANGED <<newest, left, config, baseline, told, crashes>>
  BY DEF Poll, PollSet
<1>2. /\ seen = config[r].state.set /\ seen # Nothing => seen \subseteq Members
      /\ now # Nothing /\ "set" \notin Lists
      /\ seen # Nothing => Members \ seen \subseteq left[r]
  BY <1>1, RowTypes, NothingAssumption, ListsAssumption DEF SetInProgress
<1>3. f \in SUBSET Things
  BY <1>1, <1>2, RowTypes DEF TickStates, Things
<1>4. s \in States /\ rest \in SUBSET Checks /\ s.set = now /\ s.list = run[t].state.list
  BY <1>1, RowTypes DEF TickStates, States
<1>5. /\ TypeOK' /\ Within(t, r) /\ ~run[t].accepted /\ ~run'[t].accepted
      /\ run'[t].polls = rest /\ run'[t].state = s /\ run'[t].found = f /\ s # Nothing
  <2> HIDE DEF rest, s, f
  <2> QED BY <1>1, <1>3, <1>4, PollFrame
<1>6. \A d \in Lists : Seen(t, d)' = Seen(t, d) /\ Saved(r, d)' = Saved(r, d)
  BY <1>1, <1>4, <1>5 DEF Seen, Saved
<1>7. SetInProgress(t, r)'
  BY <1>1, <1>2, <1>4, <1>5, RowTypes DEF SetInProgress
<1>8. ASSUME NEW d \in Lists PROVE ListInProgress(t, r, d)'
  BY <1>1, <1>2, <1>5, <1>6, RowTypes DEF ListInProgress
<1> HIDE DEF s, rest, f
<1> QED BY <1>1, <1>5, <1>7, <1>8, Unaccepted

\* ESI fails: the check keeps its state.
LEMMA PollFailsStep ==
  ASSUME IInv, NEW t \in Ticks, NEW r \in Pilots, NEW c \in Checks, Poll(t, r), PollFails(t, c)
  PROVE  IInv'
<1> DEFINE rest == run[t].polls \ {c}
<1>1. /\ At(t, r) /\ run' = [run EXCEPT ![t].polls = rest] /\ run[t] \in TickStates
      /\ ~run[t].accepted
      /\ UNCHANGED <<newest, left, config, baseline, told, crashes>>
  BY RowTypes DEF Poll, PollFails
<1>2. run'[t] = [run[t] EXCEPT !.polls = rest] /\ \A u \in Ticks \ {t} : run'[u] = run[u]
  BY <1>1 DEF IInv, TypeOK
<1>3. run'[t] \in TickStates
  BY <1>1, <1>2 DEF TickStates
<1>4. TypeOK'
  BY <1>1, <1>3 DEF IInv, TypeOK
<1>5. /\ Within(t, r) /\ run'[t].polls = rest /\ run'[t].state = run[t].state
      /\ run'[t].found = run[t].found /\ ~run'[t].accepted
  BY <1>1, <1>2, <1>3, Types DEF IInv, Within, At, TickStates
<1>6. \A d \in Lists : Seen(t, d)' = Seen(t, d) /\ Saved(r, d)' = Saved(r, d)
  BY <1>1, <1>5 DEF Seen, Saved
<1>7. SetInProgress(t, r)' /\ \A d \in Lists : ListInProgress(t, r, d)'
  BY <1>1, <1>5, <1>6, RowTypes DEF SetInProgress, ListInProgress
<1>8. run'[t].state # Nothing
  BY <1>1, <1>5, RowTypes, NothingAssumption
<1> QED BY <1>1, <1>4, <1>5, <1>7, <1>8, Unaccepted

\* What was found is new: nothing of it was told, unless the process died.
LEMMA FoundIsNew ==
  ASSUME IInv, NEW t \in Ticks, NEW r \in Pilots, At(t, r), ~run[t].accepted, crashes = 0,
         NEW x \in run[t].found
  PROVE  told[r][x] = 0
<1>1. /\ x \in Things /\ told[r][x] \in Nat
      /\ SetInProgress(t, r) /\ \A c \in Lists : ListInProgress(t, r, c)
  BY RowTypes DEF IInv, TypeOK, TickStates
<1>2. ~TellsNow(r, x)
  BY Alone DEF TellsNow, At
<1>3. CASE x \in Lists \X Ids
  <2>1. PICK c \in Lists, i \in Ids : x = <<c, i>>
    BY <1>3
  <2>2. ListInProgress(t, r, c) /\ c # "set"
    BY <1>1, ListsAssumption
  <2>3. Saved(r, c) # Nothing => Saved(r, c) \in Int /\ i \in Int
    BY RowTypes DEF Ids
  <2>4. ~Behind(r, x)
    BY <2>1, <2>2, <2>3 DEF Behind, ListInProgress
  <2> QED BY <1>1, <1>2, <2>4 DEF IInv, ToldBefore
<1>4. CASE x \in {"set"} \X Members
  <2>1. PICK m \in Members : x = <<"set", m>>
    BY <1>4
  <2>2. ~Behind(r, x)
    BY <1>1, <2>1, ListsAssumption DEF Behind, SetInProgress
  <2> QED BY <1>1, <1>2, <2>2 DEF IInv, ToldBefore
<1> QED BY <1>1, <1>3, <1>4 DEF Things

\* The gateway accepts the message: what was found is told.
LEMMA AcceptedStep == ASSUME IInv, NEW t \in Ticks, NEW r \in Pilots, Accepted(t, r) PROVE IInv'
<1> DEFINE f == run[t].found
<1>1. /\ At(t, r) /\ run[t].polls = {} /\ ~run[t].accepted /\ run[t] \in TickStates
      /\ f \subseteq Things
      /\ UNCHANGED <<newest, left, config, baseline, crashes>>
  BY RowTypes DEF Accepted, Polled, TickStates
<1>2. run'[t] = [run[t] EXCEPT !.accepted = TRUE] /\ \A u \in Ticks \ {t} : run'[u] = run[u]
  BY DEF IInv, TypeOK, Accepted
<1>3. /\ run'[t].todo = run[t].todo /\ run'[t].read = run[t].read /\ run'[t].row = run[t].row
      /\ run'[t].state = run[t].state /\ run'[t].polls = run[t].polls /\ run'[t].found = f
      /\ run'[t].accepted /\ run'[t] \in TickStates
  BY <1>1, <1>2 DEF TickStates
<1>4. /\ \A q \in Pilots : told'[q] \in [Things -> Nat]
      /\ \A q \in Pilots, x \in Things :
           told'[q][x] = IF q = r /\ x \in f THEN told[q][x] + 1 ELSE told[q][x]
      /\ \A q \in Pilots, x \in Things : told[q][x] \in Nat
  BY <1>1 DEF IInv, TypeOK, Accepted
<1>5. TypeOK'
  BY <1>1, <1>3, <1>4 DEF IInv, TypeOK, Accepted
<1>6. Within(t, r)
  BY <1>1, <1>2, <1>3, Types DEF IInv, Within, At
<1>7. \A q \in Pilots, d \in Lists : Seen(t, d)' = Seen(t, d) /\ Saved(q, d)' = Saved(q, d)
  BY <1>1, <1>3 DEF Seen, Saved
<1>8. \A u \in Ticks, q \in Pilots : At(u, q)' \/ At(u, q) => u = t /\ q = r
  BY <1>6, Alone, NothingAssumption DEF At, Within
<1>9. InProgress'
  <2>1. SetInProgress(t, r)' /\ \A d \in Lists : ListInProgress(t, r, d)'
    BY <1>1, <1>3, <1>7, RowTypes DEF SetInProgress, ListInProgress
  <2>2. Confirmed(t, r)'
    BY <1>1, <1>3, <1>4 DEF Confirmed
  <2>3. run'[t].state # Nothing
    BY <1>1, <1>3, RowTypes, NothingAssumption
  <2> QED BY <1>8, <2>1, <2>2, <2>3 DEF InProgress, At
<1>10. Based'
  BY <1>1 DEF IInv, Based, Saved
<1>11. NothingSkipped'
  <2> SUFFICES ASSUME NEW q \in Pilots, NEW c \in Lists, Saved(q, c) # Nothing,
                      NEW i \in (baseline[q][c] + 1)..Saved(q, c)
               PROVE  told'[q][<<c, i>>] > 0
    BY <1>1, <1>7 DEF NothingSkipped, Saved
  <2>1. told[q][<<c, i>>] > 0
    BY DEF IInv, NothingSkipped, Saved
  <2>2. <<c, i>> \in Things
    <3>1. /\ Saved(q, c) \in Ids \cup {0} /\ baseline[q][c] \in Ids \cup {0}
      BY Types, BoundsAssumption DEF IInv, Based, TypeOK, Ids
    <3> QED BY <3>1, BoundsAssumption DEF Things, Ids
  <2> QED BY <1>4, <2>1, <2>2
<1>12. ToldOnce'
  <2> SUFFICES ASSUME crashes = 0, NEW q \in Pilots, NEW x \in Things PROVE told'[q][x] <= 1
    BY <1>1 DEF ToldOnce
  <2>1. CASE q = r /\ x \in f
    BY <1>1, <1>4, <2>1, FoundIsNew
  <2>2. CASE ~(q = r /\ x \in f)
    BY <1>4, <2>2 DEF IInv, ToldOnce
  <2> QED BY <2>1, <2>2
<1>13. ToldBefore'
  <2> SUFFICES ASSUME crashes = 0, NEW q \in Pilots, NEW x \in Things, told'[q][x] > 0
               PROVE  Behind(q, x)' \/ TellsNow(q, x)'
    BY <1>1 DEF ToldBefore
  <2>1. CASE q = r /\ x \in f
    BY <1>1, <1>3, <1>6, <2>1 DEF TellsNow, At, Within
  <2>2. CASE ~(q = r /\ x \in f)
    <3>1. Behind(q, x)
      <4>1. Behind(q, x) \/ TellsNow(q, x)
        BY <1>4, <2>2 DEF IInv, ToldBefore
      <4>2. ~TellsNow(q, x)
        BY <1>1, <1>8 DEF TellsNow
      <4> QED BY <4>1, <4>2
    <3> QED BY <1>1, <3>1 DEF Behind, Saved
  <2> QED BY <2>1, <2>2
<1> QED BY <1>5, <1>6, <1>9, <1>10, <1>11, <1>12, <1>13, WithinRow DEF IInv

\* The row is over: the tick is between two rows.
LEMMA RowOverFrame ==
  ASSUME IInv, NEW t \in Ticks, NEW r \in Pilots, At(t, r), RowOver(t)
  PROVE  /\ run' \in [Ticks -> TickStates \cup {Nothing}]
         /\ run'[t] # Nothing /\ run'[t].row = Nothing /\ run'[t].todo = run[t].todo
         /\ run'[t].read = run[t].read /\ run'[t].found = {} /\ ~run'[t].accepted
         /\ \A u \in Ticks \ {t} : run[u] = Nothing /\ run'[u] = Nothing
         /\ (OneTick /\ InProgress /\ BetweenRows)'
<1>1. run[t] \in TickStates /\ run[t] # Nothing
  BY RowTypes DEF At
<1>2. run'[t] = [run[t] EXCEPT !.row = Nothing, !.state = Nothing, !.polls = {},
                               !.found = {}, !.accepted = FALSE]
      /\ \A u \in Ticks \ {t} : run'[u] = run[u]
  BY DEF IInv, TypeOK, RowOver
<1>3. /\ run'[t].row = Nothing /\ run'[t].todo = run[t].todo /\ run'[t].read = run[t].read
      /\ run'[t].found = {} /\ ~run'[t].accepted /\ run'[t] \in TickStates
  BY <1>1, <1>2 DEF TickStates
<1>4. run' \in [Ticks -> TickStates \cup {Nothing}]
  BY <1>3 DEF IInv, TypeOK, RowOver
<1>5. run'[t] # Nothing /\ \A u \in Ticks \ {t} : run[u] = Nothing /\ run'[u] = Nothing
  BY <1>1, <1>2, <1>3, Types, Alone DEF IInv
<1>6. (OneTick /\ BetweenRows)'
  BY <1>3, <1>5 DEF OneTick, BetweenRows, Between
<1>7. InProgress'
  BY <1>3, <1>5, NothingAssumption DEF InProgress, At
<1> QED BY <1>3, <1>4, <1>5, <1>6, <1>7

\* The send failed: the row stays as it was saved.
LEMMA SendFailsStep == ASSUME IInv, NEW t \in Ticks, NEW r \in Pilots, SendFails(t, r) PROVE IInv'
<1>1. /\ At(t, r) /\ RowOver(t) /\ ~run[t].accepted
      /\ UNCHANGED <<newest, left, config, baseline, told, crashes>>
  BY DEF SendFails, Polled
<1>2. TypeOK'
  BY <1>1, RowOverFrame DEF IInv, TypeOK
<1>3. ReadIsCurrent'
  BY <1>1, RowOverFrame, RowTypes, NothingAssumption DEF IInv, ReadIsCurrent, TickStates
<1>4. \A q \in Pilots, x \in Things : ~TellsNow(q, x)
  BY <1>1, RowOverFrame DEF TellsNow, At
<1>5. ToldBefore'
  BY <1>1, <1>4 DEF IInv, ToldBefore, Behind, Saved
<1> QED BY <1>1, <1>2, <1>3, <1>5, RowOverFrame, TickOnly DEF IInv

\* The state is saved: what it passes over was told.
LEMMA SaveStep == ASSUME IInv, NEW t \in Ticks, NEW r \in Pilots, Save(t, r) PROVE IInv'
<1> DEFINE s == run[t].state
<1>1. /\ At(t, r) /\ RowOver(t) /\ run[t].polls = {} /\ run[t] \in TickStates /\ s \in States
      /\ run[t].found # {} => run[t].accepted
      /\ SetInProgress(t, r) /\ Confirmed(t, r) /\ \A c \in Lists : ListInProgress(t, r, c)
      /\ r \notin run[t].todo
      /\ UNCHANGED <<newest, left, told, crashes>>
  BY RowTypes DEF Save, Polled, MaySave, IInv, ReadIsCurrent, At
<1>2. /\ \A q \in Pilots : config'[q] \in Configs
      /\ config'[r].state = s /\ \A q \in Pilots \ {r} : config'[q] = config[q]
  BY <1>1, Types DEF IInv, TypeOK, Save, Configs
<1>3. \A q \in Pilots, c \in Lists :
        baseline'[q][c] = IF q = r /\ baseline[r][c] = Nothing THEN Seen(t, c) ELSE baseline[q][c]
  BY <1>1 DEF IInv, TypeOK, Save, Seen
<1>4. \A q \in Pilots, c \in Lists :
        Saved(q, c)' = IF q = r THEN Seen(t, c) ELSE Saved(q, c)
  BY <1>2 DEF Saved, Seen
<1>5. TypeOK'
  <2>1. baseline' \in [Pilots -> [Lists -> 0..MaxId \cup {Nothing}]]
    BY <1>1 DEF IInv, TypeOK, Save, States
  <2> QED BY <1>1, <1>2, <2>1, RowOverFrame DEF IInv, TypeOK, Save
<1>6. ReadIsCurrent'
  BY <1>1, <1>2, RowOverFrame, NothingAssumption DEF IInv, ReadIsCurrent, TickStates
<1>7. Based'
  BY <1>1, <1>2, <1>3, <1>4 DEF IInv, Based, SetInProgress, ListInProgress
<1>8. NothingSkipped'
  <2> SUFFICES ASSUME NEW q \in Pilots, NEW c \in Lists, Saved(q, c)' # Nothing,
                      NEW i \in (baseline'[q][c] + 1)..Saved(q, c)'
               PROVE  told[q][<<c, i>>] > 0
    BY <1>1 DEF NothingSkipped, Saved
  <2>1. CASE q # r
    BY <1>3, <1>4, <2>1 DEF IInv, NothingSkipped, Saved
  <2>2. CASE q = r
    <3>1. Seen(t, c) # Nothing /\ Seen(t, c) \in Ids \cup {0}
      BY <1>1, <1>4, <2>2, RowTypes
    <3>2. CASE Saved(r, c) = Nothing
      <4>1. baseline'[r][c] = Seen(t, c)
        BY <1>3, <3>2 DEF IInv, Based
      <4> QED BY <1>4, <2>2, <3>1, <4>1 DEF Ids
    <3>3. CASE Saved(r, c) # Nothing
      <4>1. /\ baseline'[r][c] = baseline[r][c] /\ baseline[r][c] \in Ids \cup {0}
            /\ Saved(r, c) \in Ids \cup {0}
        BY <1>1, <1>3, <3>3, RowTypes, BoundsAssumption DEF IInv, Based, TypeOK, Ids
      <4>2. /\ i \in Ids /\ i <= Seen(t, c) /\ i > baseline[r][c]
        BY <1>4, <2>2, <3>1, <4>1, BoundsAssumption DEF Ids
      <4>3. CASE i <= Saved(r, c)
        BY <2>2, <3>3, <4>1, <4>2, <4>3 DEF IInv, NothingSkipped, Saved, Ids
      <4>4. CASE i > Saved(r, c)
        <5>1. <<c, i>> \in run[t].found
          BY <1>1, <3>3, <4>2, <4>4 DEF ListInProgress
        <5> QED BY <1>1, <2>2, <5>1 DEF Confirmed
      <4> QED BY <4>1, <4>2, <4>3, <4>4 DEF Ids
    <3> QED BY <3>2, <3>3
  <2> QED BY <2>1, <2>2
<1>9. ToldOnce'
  BY <1>1 DEF IInv, ToldOnce
<1>10. ToldBefore'
  <2> SUFFICES ASSUME crashes = 0, NEW q \in Pilots, NEW x \in Things, told[q][x] > 0
               PROVE  Behind(q, x)'
    BY <1>1 DEF ToldBefore
  <2>1. Behind(q, x) \/ TellsNow(q, x)
    BY DEF IInv, ToldBefore
  <2>2. CASE q # r
    <3>1. ~TellsNow(q, x)
      BY <1>1, <2>2, Alone DEF TellsNow, At
    <3> QED BY <1>2, <2>1, <2>2, <3>1 DEF Behind, Saved
  <2>3. CASE q = r /\ x \in Lists \X Ids
    <3>1. PICK c \in Lists, i \in Ids : x = <<c, i>>
      BY <2>3
    <3>2. Saved(r, c) # Nothing /\ Seen(t, c) # Nothing /\ i <= Seen(t, c)
      <4>1. CASE TellsNow(r, x)
        <5>1. <<c, i>> \in run[t].found
          BY <1>1, <3>1, <4>1, Alone DEF TellsNow, At
        <5> QED BY <1>1, <5>1 DEF ListInProgress
      <4>2. CASE Behind(r, x)
        <5>1. Saved(r, c) # Nothing /\ i <= Saved(r, c)
          BY <3>1, <4>2, ListsAssumption DEF Behind
        <5>2. Saved(r, c) <= Seen(t, c) /\ Seen(t, c) # Nothing
          BY <1>1, <5>1 DEF ListInProgress
        <5> QED BY <5>1, <5>2, RowTypes, <1>1 DEF Ids
      <4> QED BY <2>1, <2>3, <4>1, <4>2
    <3> QED BY <1>4, <2>3, <3>1, <3>2 DEF Behind
  <2>4. CASE q = r /\ x \in {"set"} \X Members
    <3>1. PICK m \in Members : x = <<"set", m>>
      BY <2>4
    <3>2. s.set # Nothing /\ m \notin s.set
      <4>1. CASE TellsNow(r, x)
        <5>1. <<"set", m>> \in run[t].found
          BY <1>1, <3>1, <4>1, Alone DEF TellsNow, At
        <5> QED BY <1>1, <5>1 DEF SetInProgress
      <4>2. CASE Behind(r, x)
        BY <1>1, <3>1, <4>2, ListsAssumption DEF Behind, SetInProgress
      <4> QED BY <2>1, <2>4, <4>1, <4>2
    <3> QED BY <1>2, <2>4, <3>1, <3>2 DEF Behind
  <2> QED BY <2>2, <2>3, <2>4 DEF Things
<1> QED BY <1>1, <1>5, <1>6, <1>7, <1>8, <1>9, <1>10, RowOverFrame DEF IInv

\* Every step keeps the invariant.
LEMMA IInvStep == IInv /\ [Next]_vars => IInv'
<1> SUFFICES ASSUME IInv, [Next]_vars PROVE IInv' OBVIOUS
<1>1. CASE Crash BY <1>1, CrashStep
<1>2. ASSUME NEW r \in Pilots, Configure(r) \/ IntervalPasses(r) PROVE IInv'
  BY <1>2, ConfigureStep, IntervalStep
<1>3. ASSUME NEW r \in Pilots, NEW c \in Lists, Publish(r, c) PROVE IInv'
  BY <1>3, PublishStep
<1>4. ASSUME NEW r \in Pilots, NEW m \in Members, Leave(r, m) PROVE IInv'
  BY <1>4, LeaveStep
<1>5. ASSUME NEW t \in Ticks, Start(t) \/ EndTick(t) PROVE IInv'
  BY <1>5, StartStep, EndStep
<1>6. ASSUME NEW t \in Ticks, NEW r \in Pilots, Poll(t, r) PROVE IInv'
  <2>1. \/ \E c \in Lists : PollList(t, r, c)
        \/ PollSet(t, r)
        \/ \E c \in Checks : PollFails(t, c)
    BY <1>6 DEF Poll
  <2> QED BY <1>6, <2>1, PollListStep, PollSetStep, PollFailsStep
<1>7. ASSUME NEW t \in Ticks, NEW r \in Pilots,
             \/ TakeRow(t, r) \/ Accepted(t, r) \/ SendFails(t, r) \/ Save(t, r)
             \/ SkipRow(t, r, TRUE) \/ SkipRow(t, r, FALSE)
      PROVE  IInv'
  BY <1>7, TakeStep, AcceptedStep, SendFailsStep, SaveStep, SkipStep
<1>8. CASE UNCHANGED vars
  <2>1. TypeOK' BY <1>8 DEF vars, IInv, TypeOK
  <2> QED BY <1>8, <2>1, SameStates DEF vars, IInv
<1> QED BY <1>1, <1>2, <1>3, <1>4, <1>5, <1>6, <1>7, <1>8 DEF Next

\* The state of every row, tick and message has its type, for any rows, lists,
\* members and number of crashes.
THEOREM TypeCorrect == Spec => []TypeOK
<1>1. IInv => TypeOK BY DEF IInv
<1> QED BY <1>1, InitIInv, IInvStep, PTL DEF Spec

\* The saved state of a list passes over nothing the pilot was not told of, and
\* he is told of nothing twice unless the process died, whatever he edits
\* during a tick and whichever poll or message fails.
THEOREM PilotIsTold == Spec => []PilotHears
<1>1. IInv => PilotHears BY DEF IInv, PilotHears
<1> QED BY <1>1, InitIInv, IInvStep, PTL DEF Spec

-----------------------------------------------------------------------------
(* ChatTurns.                                                              *)

\* A turn's number is drawn once, and so is a thread's.
NumbersDrawn ==
  /\ \A n \in Bots!Turns : n > started => stage[n] = "none"
  /\ threads <= started

\* The entry of a chat is of a turn of that chat.
OwnEntries == \A c \in Chats : inFlight[c] # Bots!None => chatOf[inFlight[c]] = c

\* While a /clear of Telegram waits, no update is taken: the turn it waits for
\* is the only one its chat can have.
TelegramWaits ==
  \A c \in Chats \ DiscordChats :
    clearing[c] # Bots!None => inFlight[c] \in {clearing[c], Bots!None}

BotsInv == /\ Bots!TypeOK /\ NumbersDrawn /\ OwnEntries /\ TelegramWaits
           /\ Bots!OneTurnPerActor /\ Bots!TelegramThreadUnderTurn

RunningTurns == {n \in Bots!Turns : Bots!Running(n)}

\* Cardinality is the library's, seen through the instance.
LEMMA BotsCardinality == \A S : Bots!Cardinality(S) = Cardinality(S)
  BY DEF Bots!Cardinality, Cardinality

\* There are as many running turns as there are entries, at most.
LEMMA TurnsOfEntries ==
  ASSUME BotsInv
  PROVE  /\ IsFiniteSet(RunningTurns) /\ IsFiniteSet(Bots!Active)
         /\ Cardinality(RunningTurns) <= Cardinality(Bots!Active)
<1>1. IsFiniteSet(Bots!Active)
  BY BotsAssumption, FS_Subset DEF Bots!Active
<1>. DEFINE f == [n \in RunningTurns |-> chatOf[n]]
<1>2. f \in Injection(RunningTurns, Bots!Active)
  <2>1. f \in [RunningTurns -> Bots!Active]
    BY DEF RunningTurns, Bots!Active, BotsInv, Bots!OneTurnPerActor, Bots!TypeOK, Bots!Turns,
           Bots!None
  <2>2. ASSUME NEW n \in RunningTurns, NEW k \in RunningTurns, f[n] = f[k] PROVE n = k
    BY <2>2 DEF RunningTurns, BotsInv, Bots!OneTurnPerActor
  <2>. QED  BY <2>1, <2>2 DEF Injection, IsInjective
<1>. QED  BY <1>1, <1>2, FS_Injection

\* It holds at the start: no turn was started.
LEMMA BotsInit == Bots!Init => BotsInv
<1>. SUFFICES ASSUME Bots!Init PROVE BotsInv  OBVIOUS
<1>. USE BotsAssumption DEF Bots!Init, Bots!None, Bots!Turns
<1>1. Bots!TypeOK
  <2>1. chatOf \in [Bots!Turns -> Chats]  OBVIOUS
  <2>2. 0 \in 0..MaxBotTurns /\ 0 \in 0..MaxPerWindow  OBVIOUS
  <2>. QED  BY <2>1, <2>2 DEF Bots!TypeOK, Bots!Stages
<1>2. NumbersDrawn /\ OwnEntries /\ TelegramWaits
  BY DEF NumbersDrawn, OwnEntries, TelegramWaits
<1>3. Bots!TelegramThreadUnderTurn
  BY DEF Bots!TelegramThreadUnderTurn, Bots!Running
<1>4. RunningTurns = {}  BY DEF RunningTurns, Bots!Running
<1>5. Bots!OneTurnPerActor
  <2>1. Cardinality(RunningTurns) = 0  BY <1>4, FS_EmptySet
  <2>2. Bots!Cardinality({n \in Bots!Turns : Bots!Running(n)}) <= MaxActive
    BY <2>1, BotsCardinality DEF RunningTurns
  <2>3. \A n \in Bots!Turns : ~Bots!Running(n) /\ inFlight[chatOf[n]] # n
    BY <1>1 DEF Bots!Running, Bots!TypeOK
  <2>. QED  BY <2>2, <2>3 DEF Bots!OneTurnPerActor
<1>. QED  BY <1>1, <1>2, <1>3, <1>5 DEF BotsInv

\* A message starts a turn for an actor who runs none.
LEMMA MessageStep == ASSUME BotsInv, NEW c \in Chats, Bots!Message(c) PROVE BotsInv'
<1>. DEFINE n == started + 1
<1>. USE BotsAssumption DEF BotsInv, Bots!Turns, Bots!None
<1>1. /\ n \in Bots!Turns /\ started' = n /\ stage[n] = "none"
      /\ chatOf' = [chatOf EXCEPT ![n] = c] /\ stage' = [stage EXCEPT ![n] = "greeting"]
      /\ inFlight' = [inFlight EXCEPT ![c] = n] /\ inFlight[c] = 0
      /\ UNCHANGED <<abort, clearing, closed>>
  BY DEF Bots!Message, Bots!Allowed, Bots!Busy, NumbersDrawn, Bots!TypeOK
<1>. DEFINE own == IF thread[c] = 0 THEN threads + 1 ELSE thread[c]
<1>2. /\ threads' \in 0..MaxBotTurns /\ threads' <= n /\ own \in 0..MaxBotTurns
      /\ thread' = [thread EXCEPT ![c] = own]
      /\ turnThread' = [turnThread EXCEPT ![n] = own]
  <2>1. started \in Nat /\ threads \in Nat /\ n <= MaxBotTurns /\ threads <= started
    BY DEF Bots!Message, NumbersDrawn, Bots!TypeOK
  <2>. QED  BY <2>1 DEF Bots!Message, Bots!TypeOK
<1>. HIDE DEF own
<1>3. window' \in [Bots!Users -> 0..MaxPerWindow]
  BY DEF Bots!Message, Bots!Allowed, Bots!TypeOK, Bots!Users
<1>4. Bots!TypeOK'
  <2>1. /\ started' \in 0..MaxBotTurns /\ chatOf' \in [Bots!Turns -> Chats]
        /\ stage' \in [Bots!Turns -> Bots!Stages]
        /\ inFlight' \in [Chats -> Bots!Turns \cup {0}]
    BY <1>1 DEF Bots!TypeOK, Bots!Stages
  <2>2. thread' \in [Chats -> 0..MaxBotTurns] /\ turnThread' \in [Bots!Turns -> 0..MaxBotTurns]
    BY <1>1, <1>2 DEF Bots!TypeOK
  <2>. QED  BY <1>1, <1>2, <1>3, <2>1, <2>2 DEF Bots!TypeOK
<1>5. NumbersDrawn' /\ OwnEntries'
  <2>1. NumbersDrawn'
    BY <1>1, <1>2 DEF NumbersDrawn, Bots!TypeOK
  <2>2. OwnEntries'
    <3>1. \A d \in Chats : d # c /\ inFlight[d] # 0 => inFlight[d] # n
      BY <1>1 DEF OwnEntries, Bots!OneTurnPerActor, Bots!Running, Bots!TypeOK
    <3>. QED  BY <1>1, <3>1 DEF OwnEntries, Bots!TypeOK
  <2>. QED  BY <2>1, <2>2
<1>6. TelegramWaits'
  BY <1>1 DEF TelegramWaits, Bots!Message, Bots!Delivered, Bots!TypeOK
<1>7. \A k \in Bots!Turns : Bots!Running(k)' <=> Bots!Running(k) \/ k = n
  BY <1>1 DEF Bots!Running, Bots!TypeOK
<1>8. \A k \in Bots!Turns : Bots!Running(k) =>
        /\ k # n /\ chatOf'[k] = chatOf[k] /\ chatOf[k] \in Chats
        /\ UserOf[chatOf[k]] # UserOf[c] /\ chatOf[k] # c
  <2>. SUFFICES ASSUME NEW k \in Bots!Turns, Bots!Running(k)
                PROVE  /\ k # n /\ chatOf'[k] = chatOf[k] /\ chatOf[k] \in Chats
                       /\ UserOf[chatOf[k]] # UserOf[c] /\ chatOf[k] # c
    OBVIOUS
  <2>1. k # n  BY <1>1 DEF Bots!Running
  <2>2. chatOf'[k] = chatOf[k] /\ chatOf[k] \in Chats  BY <1>1, <2>1 DEF Bots!TypeOK
  <2>3. chatOf[k] \in Bots!Active  BY <2>2 DEF Bots!OneTurnPerActor, Bots!Active
  <2>4. UserOf[chatOf[k]] # UserOf[c]
    BY <2>3 DEF Bots!Message, Bots!Allowed, Bots!Busy
  <2>. QED  BY <2>1, <2>2, <2>4
<1>9. Bots!TelegramThreadUnderTurn'
  BY <1>1, <1>2, <1>7, <1>8 DEF Bots!TelegramThreadUnderTurn, Bots!TypeOK
<1>10. Bots!OneTurnPerActor'
  <2>1. \A k, l \in Bots!Turns : Bots!Running(k)' /\ Bots!Running(l)' /\ k # l =>
          UserOf[chatOf'[k]] # UserOf[chatOf'[l]]
    BY <1>1, <1>7, <1>8 DEF Bots!OneTurnPerActor, Bots!TypeOK
  <2>2. \A k \in Bots!Turns : Bots!Running(k)' <=> inFlight'[chatOf'[k]] = k
    BY <1>1, <1>7, <1>8 DEF Bots!OneTurnPerActor, Bots!TypeOK
  <2>3. RunningTurns' = RunningTurns \cup {n}
    BY <1>1, <1>7 DEF RunningTurns
  <2>4. Cardinality(RunningTurns') <= MaxActive
    <3>1. Cardinality(Bots!Active) < MaxActive
      BY BotsCardinality DEF Bots!Message, Bots!Allowed
    <3>2. /\ Cardinality(RunningTurns) \in Nat /\ Cardinality(Bots!Active) \in Nat
          /\ Cardinality(RunningTurns) <= Cardinality(Bots!Active)
      BY TurnsOfEntries, FS_CardinalityType
    <3>3. Cardinality(RunningTurns') \in {Cardinality(RunningTurns), Cardinality(RunningTurns) + 1}
      BY <2>3, TurnsOfEntries, FS_AddElement
    <3>. QED  BY <3>1, <3>2, <3>3
  <2>5. Bots!Cardinality({k \in Bots!Turns : Bots!Running(k)})' <= MaxActive
    BY <2>4, BotsCardinality DEF RunningTurns
  <2>. QED  BY <2>1, <2>2, <2>5 DEF Bots!OneTurnPerActor
<1>. QED  BY <1>4, <1>5, <1>6, <1>9, <1>10

\* The message is stored: the turn goes on.
LEMMA GreetedStep == ASSUME BotsInv, NEW n \in Bots!Turns, Bots!Greeted(n) PROVE BotsInv'
<1>. USE DEF BotsInv, Bots!Greeted, Bots!Goes
<1>1. \A k \in Bots!Turns : Bots!Running(k)' <=> Bots!Running(k)
  BY DEF Bots!Running, Bots!TypeOK
<1>2. Bots!TypeOK' /\ NumbersDrawn'
  BY DEF Bots!TypeOK, Bots!Stages, NumbersDrawn
<1>3. OwnEntries' /\ TelegramWaits'  BY DEF OwnEntries, TelegramWaits
<1>4. RunningTurns' = RunningTurns  BY <1>1 DEF RunningTurns
<1>5. Bots!OneTurnPerActor' /\ Bots!TelegramThreadUnderTurn'
  BY <1>1, <1>4 DEF Bots!OneTurnPerActor, Bots!TelegramThreadUnderTurn, RunningTurns
<1>. QED  BY <1>2, <1>3, <1>5

\* A turn that ends takes its entry, and no other's.
LEMMA EndedStep == ASSUME BotsInv, NEW n \in Bots!Turns, Bots!Ended(n) PROVE BotsInv'
<1>. USE DEF BotsInv, Bots!Ended, Bots!Goes
<1>1. /\ Bots!Running(n) /\ inFlight[chatOf[n]] = n /\ chatOf[n] \in Chats
      /\ inFlight' = [inFlight EXCEPT ![chatOf[n]] = Bots!None]
  BY DEF Bots!Running, Bots!OneTurnPerActor, Bots!EntryTaken, Bots!TypeOK
<1>2. \A k \in Bots!Turns : Bots!Running(k)' <=> Bots!Running(k) /\ k # n
  BY DEF Bots!Running, Bots!TypeOK
<1>3. Bots!TypeOK' /\ NumbersDrawn'
  BY <1>1 DEF Bots!TypeOK, Bots!Stages, NumbersDrawn
<1>4. OwnEntries' /\ TelegramWaits'
  BY <1>1 DEF OwnEntries, TelegramWaits, Bots!TypeOK
<1>5. Bots!TelegramThreadUnderTurn'
  BY <1>2 DEF Bots!TelegramThreadUnderTurn
<1>6. Bots!OneTurnPerActor'
  <2>1. \A k \in Bots!Turns : Bots!Running(k)' <=> inFlight'[chatOf'[k]] = k
    BY <1>1, <1>2 DEF Bots!OneTurnPerActor, Bots!TypeOK, Bots!None, Bots!Turns
  <2>2. Cardinality(RunningTurns') <= MaxActive
    <3>1. RunningTurns' = RunningTurns \ {n}  BY <1>2 DEF RunningTurns
    <3>2. /\ Cardinality(RunningTurns) \in Nat
          /\ Cardinality(RunningTurns') \in {Cardinality(RunningTurns), Cardinality(RunningTurns) - 1}
      BY <3>1, TurnsOfEntries, FS_RemoveElement, FS_CardinalityType
    <3>3. Cardinality(RunningTurns) <= MaxActive
      BY BotsCardinality DEF Bots!OneTurnPerActor, RunningTurns
    <3>. QED  BY <3>2, <3>3, BotsAssumption
  <2>3. Bots!Cardinality({k \in Bots!Turns : Bots!Running(k)})' <= MaxActive
    BY <2>2, BotsCardinality DEF RunningTurns
  <2>4. \A k, l \in Bots!Turns : Bots!Running(k)' /\ Bots!Running(l)' /\ k # l =>
          UserOf[chatOf'[k]] # UserOf[chatOf'[l]]
    BY <1>2 DEF Bots!OneTurnPerActor
  <2>. QED  BY <2>1, <2>3, <2>4 DEF Bots!OneTurnPerActor
<1>. QED  BY <1>3, <1>4, <1>5, <1>6

\* A step that starts and ends no turn, and takes no thread from a turn of
\* Telegram, needs to keep the types and the wait.
LEMMA NoTurnStep ==
  ASSUME BotsInv, UNCHANGED <<started, chatOf, stage, turnThread, inFlight, threads>>,
         Bots!TypeOK', TelegramWaits',
         \A c \in Chats \ DiscordChats : inFlight[c] # Bots!None => thread'[c] = thread[c]
  PROVE  BotsInv'
<1>1. \A k \in Bots!Turns : Bots!Running(k)' <=> Bots!Running(k)
  BY DEF Bots!Running
<1>2. NumbersDrawn' /\ OwnEntries'  BY DEF BotsInv, NumbersDrawn, OwnEntries
<1>3. RunningTurns' = RunningTurns  BY <1>1 DEF RunningTurns
<1>4. Bots!OneTurnPerActor'
  BY <1>1, <1>3 DEF BotsInv, Bots!OneTurnPerActor, RunningTurns
<1>5. Bots!TelegramThreadUnderTurn'
  BY <1>1 DEF BotsInv, Bots!TelegramThreadUnderTurn, Bots!OneTurnPerActor, Bots!TypeOK,
              Bots!Turns, Bots!None
<1>. QED  BY <1>2, <1>4, <1>5 DEF BotsInv

\* A /clear deletes the thread of a chat that runs no turn, or waits.
LEMMA ClearCommandStep == ASSUME BotsInv, NEW c \in Chats, Bots!ClearCommand(c) PROVE BotsInv'
<1>. USE DEF BotsInv, Bots!ClearCommand, Bots!Cleared, Bots!None, Bots!turns
<1>1. Bots!TypeOK'  BY BotsAssumption DEF Bots!TypeOK
<1>2. TelegramWaits'  BY DEF TelegramWaits, Bots!TypeOK
<1>. QED  BY <1>1, <1>2, NoTurnStep DEF Bots!TypeOK

\* After the wait of a /clear its Telegram chat runs no turn.
LEMMA ClearAfterStep == ASSUME BotsInv, NEW c \in Chats, Bots!ClearAfter(c) PROVE BotsInv'
<1>. USE DEF BotsInv, Bots!ClearAfter, Bots!Cleared, Bots!None, Bots!turns
<1>1. Bots!TypeOK'  BY BotsAssumption DEF Bots!TypeOK
<1>2. TelegramWaits'  BY DEF TelegramWaits, Bots!TypeOK
<1>3. c \notin DiscordChats => inFlight[c] = 0
  BY DEF Bots!WaitOver, TelegramWaits
<1>. QED  BY <1>1, <1>2, <1>3, NoTurnStep DEF Bots!TypeOK

\* The others change neither a turn nor a thread.
LEMMA OtherBotStep ==
  ASSUME BotsInv,
         \/ \E c \in Chats : Bots!ClearGivesUp(c)
         \/ \E u \in Bots!Users : Bots!WindowSlides(u)
         \/ Bots!CloseIngress
         \/ UNCHANGED botVars
  PROVE  BotsInv'
<1>1. UNCHANGED <<started, chatOf, stage, turnThread, inFlight, threads, thread>>
  BY DEF Bots!ClearGivesUp, Bots!WindowSlides, Bots!CloseIngress, Bots!turns, botVars
<1>2. Bots!TypeOK'
  <2>1. ASSUME NEW u \in Bots!Users, Bots!WindowSlides(u) PROVE Bots!TypeOK'
    <3>1. window[u] \in 1..MaxPerWindow /\ window[u] - 1 \in 0..MaxPerWindow
      BY <2>1, BotsAssumption DEF Bots!WindowSlides, BotsInv, Bots!TypeOK
    <3>. QED
      BY <2>1, <3>1 DEF Bots!WindowSlides, Bots!turns, BotsInv, Bots!TypeOK
  <2>2. ASSUME NEW c \in Chats, Bots!ClearGivesUp(c) PROVE Bots!TypeOK'
    BY <2>2 DEF Bots!ClearGivesUp, Bots!turns, BotsInv, Bots!TypeOK, Bots!None
  <2>3. CASE Bots!CloseIngress
    BY <2>3 DEF Bots!CloseIngress, Bots!turns, BotsInv, Bots!TypeOK
  <2>4. CASE UNCHANGED botVars
    BY <2>4 DEF botVars, BotsInv, Bots!TypeOK
  <2>. QED  BY <2>1, <2>2, <2>3, <2>4
<1>3. TelegramWaits'
  BY DEF Bots!ClearGivesUp, Bots!WindowSlides, Bots!CloseIngress, Bots!turns, botVars,
         BotsInv, TelegramWaits, Bots!TypeOK
<1>. QED  BY <1>1, <1>2, <1>3, NoTurnStep

\* Every step keeps the invariant.
LEMMA BotsStep == BotsInv /\ (Bots!Next \/ UNCHANGED botVars) => BotsInv'
<1>. SUFFICES ASSUME BotsInv, Bots!Next \/ UNCHANGED botVars PROVE BotsInv'
  OBVIOUS
<1>1. ASSUME NEW n \in Bots!Turns, Bots!Stopped(n) PROVE BotsInv'
  BY <1>1, EndedStep DEF Bots!Stopped
<1>. QED
  BY <1>1, MessageStep, GreetedStep, EndedStep, ClearCommandStep, ClearAfterStep, OtherBotStep
  DEF Bots!Next

\* A chat and a user run one turn at a time, no entry outlives its turn, and
\* no thread is deleted under a turn of Telegram, however messages, /clear and
\* the ends of turns interleave, for any chats, users and limits.
THEOREM TurnsOfBots == MCSpec => []BotTurnsSafe
<1>1. MCInit => (chosen = "bots" => BotsInv)
  BY BotsInit DEF MCInit
<1>2. (chosen = "bots" => BotsInv) /\ [MCNext]_all => (chosen = "bots" => BotsInv)'
  BY BotsStep DEF MCNext, all
<1>3. (chosen = "bots" => BotsInv) => BotTurnsSafe
  BY DEF BotTurnsSafe, BotsInv, Bots!BotTurnsSafe
<1>. QED  BY <1>1, <1>2, <1>3, PTL DEF MCSpec
-----------------------------------------------------------------------------
(* EsiClient.                                                              *)

OneVersion(s) == \A i \in DOMAIN s : s[i] = s[1]

\* Data of one version of what ESI publishes, and of one identity.
Right(data, k) == data \in Esi!Data /\ data.char = k /\ OneVersion(data.pages)

\* What a call has of its own.  Its token, the row it read and its answer are
\* of one identity; a 304 answers the validators of a row; a write ESI may have
\* processed is not in the course of being sent.
CallSound(c) ==
  /\ op[c] # "private" => char[c] = Nothing
  /\ pc[c] = "idle" => cached[c] = Nothing /\ answer[c] = Nothing
  /\ cached[c] # Nothing => op[c] # "post" /\ Right(cached[c].data, char[c])
  /\ pages[c] \in Seq(Esi!Versions) /\ Len(pages[c]) < MaxPages /\ OneVersion(pages[c])
  /\ pc[c] = "reading" =>
       \/ response[c] \in Esi!Versions
       \/ response[c] = Esi!NotModified /\ cached[c] # Nothing /\ op[c] # "paged"
  /\ answer[c] \in {Nothing, Esi!Failed} \/ Right(answer[c], char[c])
  /\ effects[c] \in {0, 1} /\ (effects[c] = 1 => op[c] = "post" /\ pc[c] \in {"reading", "done"})

\* What a variable of the calls is a function of.
Typed ==
  /\ Esi!TypeOK
  /\ DOMAIN pages = Calls /\ DOMAIN response = Calls /\ DOMAIN answer = Calls

CacheSound == \A k \in Esi!Keys : cache[k] # Nothing => Right(cache[k].data, k.char)

EsiInv == Typed /\ CacheSound /\ \A c \in Calls : CallSound(c)

\* The variables of a call, all of which only its own steps change.
Untouched(c) ==
  /\ UNCHANGED op /\ char'[c] = char[c] /\ cached'[c] = cached[c] /\ pages'[c] = pages[c]
  /\ pc'[c] = pc[c] /\ response'[c] = response[c] /\ answer'[c] = answer[c]
  /\ effects'[c] = effects[c]

LEMMA UntouchedSound ==
  \A c \in Calls : CallSound(c) /\ Untouched(c) => CallSound(c)'
  BY DEF CallSound, Untouched

\* The pages of an answer make data.
LEMMA PagesAreData ==
  ASSUME NEW s \in Seq(Esi!Versions), Len(s) <= MaxPages, OneVersion(s),
         NEW k \in Chars \cup {Nothing}
  PROVE  Right([char |-> k, pages |-> s], k)
<1>1. Len(s) \in 0..MaxPages /\ s \in [1..Len(s) -> Esi!Versions]
  BY EsiAssumption
<1>. QED  BY <1>1 DEF Right, Esi!Data

\* It holds at the start: nothing was asked for or kept.
LEMMA EsiInit == Esi!Init => EsiInv
<1>. SUFFICES ASSUME Esi!Init PROVE EsiInv  OBVIOUS
<1>. USE EsiAssumption DEF Esi!Init
<1>1. Typed  BY DEF Typed, Esi!TypeOK, Esi!Versions, Esi!Waiting
<1>2. CacheSound  BY DEF CacheSound
<1>3. \A c \in Calls : CallSound(c)  BY DEF CallSound, OneVersion
<1>. QED  BY <1>1, <1>2, <1>3 DEF EsiInv

\* ESI publishes, the user switches, a guard aborts, a row goes stale.
LEMMA AroundStep ==
  ASSUME EsiInv,
         \/ Esi!Publish
         \/ \E k \in Chars \cup {Nothing} : Esi!Switch(k)
         \/ \E k \in Esi!Keys : Esi!Expire(k)
         \/ \E c \in Calls : Esi!Abort(c)
         \/ UNCHANGED esiVars
  PROVE  EsiInv'
<1>. USE DEF EsiInv
<1>1. \A c \in Calls : Untouched(c)
  BY DEF Untouched, Esi!Publish, Esi!Switch, Esi!Expire, Esi!Abort, Esi!esi, Esi!call, esiVars
<1>2. \A c \in Calls : CallSound(c)'  BY <1>1, UntouchedSound
<1>3. ASSUME NEW k \in Esi!Keys, Esi!Expire(k) PROVE CacheSound' /\ Typed'
  <2>. DEFINE aged == IF cache[k].fresh THEN [cache[k] EXCEPT !.fresh = FALSE] ELSE Nothing
  <2>1. /\ cache[k] \in Esi!Rows /\ cache' = [cache EXCEPT ![k] = aged]
        /\ UNCHANGED <<version, effects, linked, pc, op, char, cached, attempt, pages, response,
                       aborted, answer>>
    BY <1>3 DEF Esi!Expire, Typed, Esi!TypeOK, Esi!esi, Esi!call
  <2>2. aged \in Esi!Rows \cup {Nothing} /\ (aged # Nothing => aged.data = cache[k].data)
    BY <2>1 DEF Esi!Rows
  <2>. HIDE DEF aged
  <2>3. CacheSound'  BY <1>3, <2>1, <2>2 DEF CacheSound, Esi!Expire, Typed, Esi!TypeOK
  <2>4. Typed'  BY <2>1, <2>2 DEF Typed, Esi!TypeOK
  <2>. QED  BY <2>3, <2>4
<1>4. CASE Esi!Publish
  BY <1>2, <1>4, EsiAssumption DEF Esi!Publish, CacheSound, Typed, Esi!TypeOK, Esi!Versions, Esi!esi,
     Esi!call
<1>5. ASSUME NEW k \in Chars \cup {Nothing}, Esi!Switch(k) PROVE CacheSound' /\ Typed'
  BY <1>5 DEF Esi!Switch, CacheSound, Typed, Esi!TypeOK, Esi!esi, Esi!call
<1>6. ASSUME NEW c \in Calls, Esi!Abort(c) PROVE CacheSound' /\ Typed'
  BY <1>6 DEF Esi!Abort, CacheSound, Typed, Esi!TypeOK, Esi!esi, Esi!call
<1>7. CASE UNCHANGED esiVars
  BY <1>2, <1>7 DEF esiVars, CacheSound, Typed, Esi!TypeOK
<1>. QED  BY <1>2, <1>3, <1>4, <1>5, <1>6, <1>7

\* A step of one call that leaves the cache alone.
LEMMA OneCall ==
  ASSUME EsiInv, NEW c \in Calls, Typed', CallSound(c)', UNCHANGED cache,
         \A d \in Calls \ {c} : Untouched(d)
  PROVE  EsiInv'
<1>1. \A d \in Calls : CallSound(d)'  BY UntouchedSound DEF EsiInv
<1>2. CacheSound'  BY DEF EsiInv, CacheSound
<1>. QED  BY <1>1, <1>2 DEF EsiInv

\* A call takes the token of the active character, and is refused.
LEMMA BeginStep == ASSUME EsiInv, NEW c \in Calls, Esi!Begin(c) PROVE EsiInv'
<1>. USE DEF EsiInv, Esi!Begin, Esi!Answered, Esi!Moves, Esi!esi, Typed, Esi!TypeOK
<1>1. Typed'  BY DEF Esi!Waiting
<1>2. CallSound(c)'  BY DEF CallSound
<1>3. \A d \in Calls \ {c} : Untouched(d)  BY DEF Untouched
<1>. QED  BY <1>1, <1>2, <1>3, OneCall

LEMMA DeniedStep == ASSUME EsiInv, NEW c \in Calls, Esi!Denied(c) PROVE EsiInv'
<1>. USE DEF EsiInv, Esi!Denied, Esi!Answered, Esi!esi, Esi!call, Typed, Esi!TypeOK
<1>1. Typed'  OBVIOUS
<1>2. CallSound(c)'  BY DEF CallSound
<1>3. \A d \in Calls \ {c} : Untouched(d)  BY DEF Untouched
<1>. QED  BY <1>1, <1>2, <1>3, OneCall

\* The row of its key has the data of its identity.
LEMMA LookStep == ASSUME EsiInv, NEW c \in Calls, Esi!Look(c) PROVE EsiInv'
<1>. USE DEF EsiInv, Esi!Look, Esi!Answered, Esi!Moves, Esi!esi, Esi!call
<1>. DEFINE r == cache[Esi!CacheKey(c)]
<1>1. Esi!Cacheable(c) =>
        /\ Esi!CacheKey(c) \in Esi!Keys /\ r \in Esi!Rows \cup {Nothing}
        /\ r # Nothing => Right(r.data, char[c])
  <2>. SUFFICES ASSUME Esi!Cacheable(c) PROVE
         /\ Esi!CacheKey(c) \in Esi!Keys /\ r \in Esi!Rows \cup {Nothing}
         /\ r # Nothing => Right(r.data, char[c])
    OBVIOUS
  <2>1. Esi!CacheKey(c) \in Esi!Keys /\ Esi!CacheKey(c).char = char[c]
    BY DEF Esi!Cacheable, Esi!CacheKey, Esi!Keys, Typed, Esi!TypeOK
  <2>2. r \in Esi!Rows \cup {Nothing}  BY <2>1 DEF Typed, Esi!TypeOK
  <2>. QED  BY <2>1, <2>2 DEF CacheSound
<1>. HIDE DEF r
<1>2. Typed'  BY <1>1 DEF Typed, Esi!TypeOK, Esi!Waiting, r
<1>3. CallSound(c)'
  <2>1. \/ answer' = [answer EXCEPT ![c] = Esi!Failed] /\ cached' = cached
           /\ pc' = [pc EXCEPT ![c] = "done"]
        \/ /\ Esi!Cacheable(c) /\ r # Nothing /\ cached' = [cached EXCEPT ![c] = r]
           /\ \/ answer' = [answer EXCEPT ![c] = r.data] /\ pc' = [pc EXCEPT ![c] = "done"]
              \/ answer' = answer /\ pc' = [pc EXCEPT ![c] = "sending"]
        \/ cached' = cached /\ answer' = answer /\ pc' = [pc EXCEPT ![c] = "sending"]
    BY DEF r
  <2>. QED  BY <1>1, <2>1 DEF CallSound, Esi!Cacheable, Typed, Esi!TypeOK
<1>4. \A d \in Calls \ {c} : Untouched(d)  BY DEF Untouched, Typed, Esi!TypeOK
<1>. QED  BY <1>2, <1>3, <1>4, OneCall

\* ESI processes the request of a write for the first time.
LEMMA ReceiveStep == ASSUME EsiInv, NEW c \in Calls, Esi!Receive(c) PROVE EsiInv'
<1>. USE EsiAssumption DEF EsiInv, Esi!Receive, Esi!Moves, Esi!call, Typed, Esi!TypeOK
<1>1. effects[c] = 0  BY DEF CallSound
<1>2. Typed'
  <2>1. effects' \in [Calls -> 0..MaxAttempts]  BY <1>1
  <2>. QED  BY <2>1 DEF Esi!Waiting
<1>3. CallSound(c)'
  <2>1. /\ pc'[c] = "reading" /\ UNCHANGED <<op, char, cached, pages, answer>>
        /\ effects'[c] = IF op[c] = "post" THEN 1 ELSE 0
    BY <1>1
  <2>2. \/ response'[c] \in Esi!Versions
        \/ response'[c] = Esi!NotModified /\ cached[c] # Nothing /\ op[c] # "paged"
    OBVIOUS
  <2>. QED  BY <2>1, <2>2 DEF CallSound
<1>4. \A d \in Calls \ {c} : Untouched(d)  BY DEF Untouched
<1>. QED  BY <1>2, <1>3, <1>4, OneCall

\* A step after which a call waits again or has failed.  Only a call that has
\* failed may leave a write processed.
LEMMA SetbackStep ==
  ASSUME EsiInv, NEW c \in Calls, pc[c] \in Esi!Waiting \ {"resolving"},
         \/ effects' = effects
         \/ op[c] = "post" /\ effects' = [effects EXCEPT ![c] = @ + 1] /\ Esi!Answered(c, Esi!Failed),
         \/ Esi!Answered(c, Esi!Failed) /\ UNCHANGED attempt
         \/ /\ attempt[c] < MaxAttempts /\ attempt' = [attempt EXCEPT ![c] = @ + 1]
            /\ Esi!Moves(c, "pausing"),
         UNCHANGED <<version, linked, cache, op, char, cached, pages, response, aborted>>
  PROVE  EsiInv'
<1>. USE EsiAssumption DEF EsiInv, Typed, Esi!TypeOK, Esi!Answered, Esi!Moves
<1>1. effects[c] = 0  BY DEF CallSound, Esi!Waiting
<1>2. Typed'
  <2>1. effects' \in [Calls -> 0..MaxAttempts]
    <3>1. effects' = effects \/ effects' = [effects EXCEPT ![c] = 1]  BY <1>1
    <3>2. 1 \in 0..MaxAttempts  OBVIOUS
    <3>. QED  BY <3>1, <3>2
  <2>2. attempt' \in [Calls -> 1..MaxAttempts]
    <3>1. attempt[c] \in 1..MaxAttempts  OBVIOUS
    <3>2. \/ attempt' = attempt
          \/ attempt[c] + 1 \in 1..MaxAttempts /\ attempt' = [attempt EXCEPT ![c] = attempt[c] + 1]
      BY <3>1
    <3>. QED  BY <3>2
  <2>3. pc' \in [Calls -> Esi!Waiting \cup {"idle", "reading", "done"}]  BY DEF Esi!Waiting
  <2>. QED  BY <2>1, <2>2, <2>3
<1>3. CallSound(c)'
  <2>1. /\ UNCHANGED <<op, char, cached, pages, response>>
        /\ pc'[c] \in {"done", "pausing"} /\ answer'[c] \in {Esi!Failed, answer[c]}
        /\ effects'[c] \in {0, 1} /\ (effects'[c] = 1 => op[c] = "post" /\ pc'[c] = "done")
    BY <1>1
  <2>. QED  BY <2>1 DEF CallSound
<1>4. \A d \in Calls \ {c} : Untouched(d)  BY DEF Untouched
<1>. QED  BY <1>2, <1>3, <1>4, OneCall

\* A write that ESI may have processed is answered as failed; what it did not
\* process, and any other operation, is asked for again.
LEMMA LoseStep == ASSUME EsiInv, NEW c \in Calls, Esi!Lose(c) PROVE EsiInv'
  BY SetbackStep DEF Esi!Lose, Esi!Again, Esi!Idempotent, Esi!call, Esi!Waiting

LEMMA LimitedStep == ASSUME EsiInv, NEW c \in Calls, Esi!Limited(c) PROVE EsiInv'
  BY SetbackStep DEF Esi!Limited, Esi!Again, Esi!esi, Esi!call, Esi!Waiting

LEMMA CancelStep == ASSUME EsiInv, NEW c \in Calls, Esi!Cancel(c) PROVE EsiInv'
  BY SetbackStep DEF Esi!Cancel, Esi!call, Esi!Waiting

LEMMA ResumeStep == ASSUME EsiInv, NEW c \in Calls, Esi!Resume(c) PROVE EsiInv'
<1>. USE DEF EsiInv, Esi!Resume, Esi!Moves, Esi!esi, Esi!call, Typed, Esi!TypeOK
<1>1. Typed'  BY DEF Esi!Waiting
<1>2. CallSound(c)'  BY DEF CallSound
<1>3. \A d \in Calls \ {c} : Untouched(d)  BY DEF Untouched
<1>. QED  BY <1>1, <1>2, <1>3, OneCall

\* A call that answers with data of its identity, and writes them in the cache.
LEMMA AnswerStep ==
  ASSUME EsiInv, NEW c \in Calls, NEW data, pc[c] = "reading",
         Right(data, char[c]), Esi!Write(c, data), Esi!Answered(c, data),
         UNCHANGED <<version, effects, linked, op, char, cached, attempt, pages, response, aborted>>
  PROVE  EsiInv'
<1>. USE DEF EsiInv, Esi!Write, Esi!Answered
<1>. DEFINE r == [data |-> data, fresh |-> TRUE]
<1>1. r \in Esi!Rows /\ r.data = data  BY DEF Right, Esi!Rows
<1>. HIDE DEF r
<1>2. \/ UNCHANGED cache
      \/ Esi!Cacheable(c) /\ cache' = [cache EXCEPT ![Esi!CacheKey(c)] = r]
  BY DEF r
<1>3. Esi!Cacheable(c) => Esi!CacheKey(c) \in Esi!Keys /\ Esi!CacheKey(c).char = char[c]
  BY DEF Esi!Cacheable, Esi!CacheKey, Esi!Keys, Typed, Esi!TypeOK
<1>4. Typed'  BY <1>1, <1>2, <1>3 DEF Typed, Esi!TypeOK
<1>5. CacheSound'  BY <1>1, <1>2, <1>3 DEF CacheSound, Typed, Esi!TypeOK
<1>6. CallSound(c)'  BY DEF CallSound, Typed, Esi!TypeOK
<1>7. \A d \in Calls \ {c} : CallSound(d)'
  BY UntouchedSound DEF Untouched, Typed, Esi!TypeOK
<1>. QED  BY <1>4, <1>5, <1>6, <1>7

\* The row this call read is the one it writes again.
LEMMA RevalidateStep == ASSUME EsiInv, NEW c \in Calls, Esi!Revalidate(c) PROVE EsiInv'
<1>1. cached[c] # Nothing
  BY EsiAssumption DEF Esi!Revalidate, EsiInv, CallSound, Esi!Versions, Esi!NotModified
<1>2. Right(cached[c].data, char[c])  BY <1>1 DEF EsiInv, CallSound
<1>. QED
  BY <1>2, AnswerStep DEF Esi!Revalidate, Esi!esi, Esi!call

LEMMA SingleStep == ASSUME EsiInv, NEW c \in Calls, Esi!Single(c) PROVE EsiInv'
<1>. DEFINE data == [char |-> char[c], pages |-> <<response[c]>>]
<1>1. response[c] \in Esi!Versions /\ char[c] \in Chars \cup {Nothing}
  BY DEF Esi!Single, EsiInv, CallSound, Typed, Esi!TypeOK
<1>2. /\ <<response[c]>> \in Seq(Esi!Versions) /\ Len(<<response[c]>>) <= MaxPages
      /\ OneVersion(<<response[c]>>)
  BY <1>1, EsiAssumption DEF OneVersion
<1>3. Right(data, char[c])  BY <1>1, <1>2, PagesAreData
<1>4. /\ pc[c] = "reading" /\ Esi!Write(c, data) /\ Esi!Answered(c, data)
      /\ UNCHANGED <<version, effects, linked, op, char, cached, attempt, pages, response, aborted>>
  BY DEF Esi!Single, Esi!esi, Esi!call
<1>. HIDE DEF data
<1>. QED  BY <1>3, <1>4, AnswerStep

\* A page that does not match the first one ends the call; the last one
\* completes an answer of one version.
LEMMA PageStep == ASSUME EsiInv, NEW c \in Calls, Esi!Page(c) PROVE EsiInv'
<1>. DEFINE got == Append(pages[c], response[c])
<1>1. /\ response[c] \in Esi!Versions /\ char[c] = Nothing /\ op[c] = "paged"
      /\ pages[c] \in Seq(Esi!Versions) /\ Len(pages[c]) < MaxPages /\ OneVersion(pages[c])
  BY DEF Esi!Page, EsiInv, CallSound
<1>2. PagesAt[response[c]] \in Nat /\ MaxPages \in Nat
  BY <1>1, EsiAssumption DEF Esi!Versions
<1>3. CASE ~Esi!MatchesSnapshot(c) \/ PagesAt[response[c]] > MaxPages
  <2>. USE <1>3 DEF Esi!Page, Esi!Answered, EsiInv, Esi!esi, Esi!call, Typed, Esi!TypeOK
  <2>1. Typed'  OBVIOUS
  <2>2. CallSound(c)'  BY DEF CallSound
  <2>3. \A d \in Calls \ {c} : Untouched(d)  BY DEF Untouched
  <2>. QED  BY <2>1, <2>2, <2>3, OneCall
<1>4. CASE Esi!MatchesSnapshot(c) /\ PagesAt[response[c]] <= MaxPages
  <2>1. /\ got \in Seq(Esi!Versions) /\ Len(got) = Len(pages[c]) + 1 /\ Len(got) <= MaxPages
        /\ \A i \in 1..Len(pages[c]) : got[i] = pages[c][i]
        /\ got[Len(got)] = response[c]
    BY <1>1, EsiAssumption
  <2>2. PagesAt[response[c]] \in Nat /\ Len(got) \in Nat
    BY <1>1, <2>1, EsiAssumption DEF Esi!Versions
  <2>3. OneVersion(got)
    BY <1>1, <1>4, <2>1 DEF OneVersion, Esi!MatchesSnapshot
  <2>4. CASE Len(got) >= PagesAt[response[c]]
    <3>. DEFINE data == [char |-> Nothing, pages |-> got]
    <3>1. Right(data, char[c])  BY <1>1, <2>1, <2>3, PagesAreData
    <3>2. /\ pc[c] = "reading" /\ Esi!Write(c, data) /\ Esi!Answered(c, data)
          /\ UNCHANGED <<version, effects, linked, op, char, cached, attempt, pages, response,
                         aborted>>
      BY <1>1, <1>4, <1>2, <2>4, <2>2 DEF Esi!Page, Esi!esi, Esi!call
    <3>. HIDE DEF data
    <3>. QED  BY <3>1, <3>2, AnswerStep
  <2>5. CASE Len(got) < PagesAt[response[c]]
    <3>1. /\ pages' = [pages EXCEPT ![c] = got] /\ attempt' = [attempt EXCEPT ![c] = 1]
          /\ pc' = [pc EXCEPT ![c] = "pacing"] /\ Len(got) < MaxPages
          /\ UNCHANGED <<version, effects, linked, cache, op, char, cached, response, aborted,
                         answer>>
      BY <1>1, <1>4, <1>2, <2>1, <2>5, <2>2 DEF Esi!Page, Esi!Moves, Esi!esi, Esi!call
    <3>. HIDE DEF got
    <3>. USE <2>1, <2>3, <3>1, EsiAssumption DEF EsiInv, Typed, Esi!TypeOK
    <3>2. \A d \in Calls : Len(pages'[d]) < MaxPages
      BY DEF CallSound
    <3>3. Typed'  BY <3>2 DEF Esi!Waiting
    <3>4. CallSound(c)'  BY <1>1 DEF CallSound, Esi!Page
    <3>5. \A d \in Calls \ {c} : Untouched(d)  BY DEF Untouched
    <3>. QED  BY <3>3, <3>4, <3>5, OneCall
  <2>. HIDE DEF got
  <2>. QED  BY <2>4, <2>5, <2>2
<1>. QED  BY <1>3, <1>4, <1>2

\* Every step keeps the invariant.
LEMMA EsiStep == EsiInv /\ (Esi!Next \/ UNCHANGED esiVars) => EsiInv'
<1>. SUFFICES ASSUME EsiInv, Esi!Next \/ UNCHANGED esiVars PROVE EsiInv'
  OBVIOUS
<1>. QED
  BY AroundStep, BeginStep, DeniedStep, LookStep, ReceiveStep, LoseStep, LimitedStep, CancelStep,
     ResumeStep, RevalidateStep, SingleStep, PageStep
  DEF Esi!Next

\* An answer of the client is of one version of ESI's data and of the character
\* whose token asked for it, from the cache or not, and a write is not sent
\* twice, whatever calls, switches of character, new data and lost answers come
\* between, for any calls, characters, pages and attempts.
THEOREM AnswersOfEsi == MCSpec => []EsiAnswersSound
<1>1. MCInit => (chosen = "esi" => EsiInv)
  BY EsiInit DEF MCInit
<1>2. (chosen = "esi" => EsiInv) /\ [MCNext]_all => (chosen = "esi" => EsiInv)'
  BY EsiStep DEF MCNext, all
<1>3. EsiInv => Esi!EsiAnswersSound
  <2>. SUFFICES ASSUME EsiInv PROVE Esi!EsiAnswersSound  OBVIOUS
  <2>1. Esi!OneSnapshot
    BY DEF EsiInv, CallSound, CacheSound, Right, OneVersion, Esi!OneSnapshot, Esi!HasData
  <2>2. Esi!OwnDataOnly  BY DEF EsiInv, CallSound, Right, Esi!OwnDataOnly, Esi!HasData
  <2>3. Esi!PostedOnce  BY DEF EsiInv, CallSound, Esi!PostedOnce
  <2>. QED  BY <2>1, <2>2, <2>3 DEF Esi!EsiAnswersSound
<1>4. (chosen = "esi" => EsiInv) => EsiAnswersSound
  BY <1>3 DEF EsiAnswersSound
<1>. QED  BY <1>1, <1>2, <1>4, PTL DEF MCSpec

-----------------------------------------------------------------------------
(* MarketHistory.                                                          *)

\* The end of the buffer of the n-th rebuild.
EndOf(n) == n * Day + Rebuild + Buffer

\* What division says of a day.
LEMMA Days ==
  ASSUME NEW u \in Nat
  PROVE  /\ u \div Day \in Nat
         /\ Day * (u \div Day) <= u /\ u < Day * (u \div Day) + Day
  BY HistoryAssumption

\* The rebuilds that are over are those whose buffer ended.
LEMMA Settled ==
  ASSUME NEW t \in Nat
  PROVE  /\ History!SettledBy(t) \in Nat
         /\ t < EndOf(History!SettledBy(t))
         /\ History!SettledBy(t) > 0 => EndOf(History!SettledBy(t) - 1) <= t
<1>. USE HistoryAssumption
<1>. DEFINE u == t - Rebuild - Buffer
<1>1. CASE t < Rebuild + Buffer
  BY <1>1 DEF History!SettledBy, EndOf
<1>2. CASE ~(t < Rebuild + Buffer)
  <2>1. u \in Nat  BY <1>2
  <2>. DEFINE q == u \div Day
  <2>2. q \in Nat /\ Day * q <= u /\ u < Day * q + Day  BY <2>1, Days
  <2>3. History!SettledBy(t) = q + 1  BY <1>2 DEF History!SettledBy
  <2>. HIDE DEF q
  <2>4. (q + 1) * Day = Day * q + Day /\ (q + 1 - 1) * Day = Day * q  BY <2>2
  <2>. QED  BY <2>2, <2>3, <2>4 DEF EndOf
<1>. QED  BY <1>1, <1>2

\* A later rebuild ends later.
LEMMA EndsInOrder ==
  ASSUME NEW m \in Nat, NEW n \in Nat, m <= n
  PROVE  EndOf(m) <= EndOf(n) /\ EndOf(m) \in Nat
<1>1. Day \in Nat /\ Rebuild \in Nat /\ Buffer \in Nat  BY HistoryAssumption
<1>2. m * Day \in Nat /\ n * Day = m * Day + (n - m) * Day /\ (n - m) * Day \in Nat  BY <1>1
<1>. QED  BY <1>1, <1>2 DEF EndOf

\* Before the end of rebuild n no more than n rebuilds are over.
LEMMA SettledBefore ==
  ASSUME NEW t \in Nat, NEW n \in Nat, t < EndOf(n)
  PROVE  History!SettledBy(t) <= n
<1>. DEFINE k == History!SettledBy(t)
<1>1. k \in Nat /\ (k > 0 => EndOf(k - 1) <= t)  BY Settled
<1>. HIDE DEF k
<1>2. SUFFICES ASSUME k > n PROVE FALSE  BY <1>1 DEF k
<1>3. k - 1 \in Nat /\ n <= k - 1  BY <1>1, <1>2
<1>4. EndOf(n) <= EndOf(k - 1) /\ EndOf(n) \in Nat /\ EndOf(k - 1) \in Nat
  BY <1>3, EndsInOrder
<1>. QED  BY <1>1, <1>2, <1>4

\* And in time there are never fewer.
LEMMA SettledInOrder ==
  ASSUME NEW s \in Nat, NEW t \in Nat, s <= t
  PROVE  History!SettledBy(s) <= History!SettledBy(t)
<1>1. History!SettledBy(t) \in Nat /\ t < EndOf(History!SettledBy(t))  BY Settled
<1>2. EndOf(History!SettledBy(t)) \in Nat  BY <1>1, EndsInOrder
<1>. QED  BY <1>1, <1>2, SettledBefore

-----------------------------------------------------------------------------
HistoryRows == [due : Nat, ok : BOOLEAN, wanted : Nat \cup {Nothing}]

\* The clocks that refreshes and ticks hold are not ahead of the time.
HistoryTyped ==
  /\ time \in Nat /\ rebuilds \in Nat
  /\ row \in [Pairs -> HistoryRows \cup {Nothing}] /\ stored \in [Pairs -> Nat]
  /\ watched \subseteq Pairs /\ alerted \subseteq Pairs /\ top \subseteq Pairs
  /\ seededAt # Nothing => seededAt \in 0..time
  /\ sync \in [Pairs -> 0..time \cup {Nothing}]
  /\ tick # Nothing => "now" \in DOMAIN tick /\ tick.now \in 0..time

\* What ESI has published, a pair that is parked has up to the day it is due.
Rebuilt ==
  /\ rebuilds >= History!SettledBy(time)
  /\ \A p \in Pairs : row[p] # Nothing /\ row[p].ok => row[p].due <= EndOf(stored[p])

\* What is wanted all along was stamped by every scan since the process started.
Stamped ==
  \A p \in steady : /\ p \in Pairs /\ row[p] # Nothing
                    /\ seededAt # Nothing /\ row[p].wanted # Nothing => row[p].wanted >= seededAt

HistoryInv == HistoryTyped /\ Rebuilt /\ Stamped

\* It holds at the start: no pair has a row.
LEMMA HistoryInit == History!Init => HistoryInv
<1>. SUFFICES ASSUME History!Init PROVE HistoryInv  OBVIOUS
<1>. USE HistoryAssumption DEF History!Init
<1>1. HistoryTyped  BY DEF HistoryTyped
<1>2. History!SettledBy(0) <= 0  BY DEF History!SettledBy
<1>3. Rebuilt  BY <1>2, Settled DEF Rebuilt
<1>4. Stamped  BY DEF Stamped
<1>. QED  BY <1>1, <1>3, <1>4 DEF HistoryInv

\* The clock waits for ESI; ESI publishes; users and traders change their minds.
LEMMA AroundHistory ==
  ASSUME HistoryInv, History!Tick \/ History!Publish \/ History!WantsChange \/ UNCHANGED historyVars
  PROVE  HistoryInv'
<1>. USE DEF HistoryInv
<1>1. CASE History!Tick
  <2>. USE <1>1 DEF History!Tick
  <2>1. HistoryTyped'  BY DEF HistoryTyped
  <2>2. Rebuilt'  BY DEF Rebuilt, HistoryTyped, History!SettledBy, EndOf
  <2>3. Stamped'  BY DEF Stamped
  <2>. QED  BY <2>1, <2>2, <2>3
<1>2. CASE History!Publish
  <2>. USE <1>2 DEF History!Publish
  <2>1. HistoryTyped'  BY DEF HistoryTyped
  <2>2. History!SettledBy(time) \in Nat  BY Settled DEF HistoryTyped
  <2>3. Rebuilt'  BY <2>2 DEF Rebuilt, HistoryTyped, History!SettledBy, EndOf
  <2>4. Stamped'  BY DEF Stamped
  <2>. QED  BY <2>1, <2>3, <2>4
<1>3. CASE History!WantsChange \/ UNCHANGED historyVars
  BY <1>3 DEF History!WantsChange, History!Toggled, historyVars, HistoryTyped, Rebuilt, Stamped,
     History!SettledBy, EndOf
<1>. QED  BY <1>1, <1>2, <1>3

\* A refresh writes the row of its pair: due after an answer at the end of a
\* rebuild no later than those it stored, after a failure at once or later.
LEMMA SyncedStep ==
  ASSUME HistoryInv, NEW p \in Pairs, NEW due, NEW ok \in BOOLEAN, due \in Nat,
         History!Synced(p, due, ok), History!Settle(p),
         \/ ok = FALSE /\ UNCHANGED stored
         \/ stored' = [stored EXCEPT ![p] = rebuilds] /\ due <= EndOf(rebuilds)
  PROVE  HistoryInv'
<1>. USE HistoryAssumption DEF HistoryInv
<1>. DEFINE r == [due |-> due, ok |-> ok,
                  wanted |-> IF row[p] = Nothing THEN Nothing ELSE row[p].wanted]
<1>1. r \in HistoryRows /\ r # Nothing /\ r.due = due /\ r.ok = ok
  BY DEF HistoryTyped, HistoryRows
<1>2. row[p] # Nothing => r.wanted = row[p].wanted  OBVIOUS
<1>3. row' = [row EXCEPT ![p] = r]  BY DEF History!Synced, HistoryTyped
<1>. HIDE DEF r
<1>4. HistoryTyped'
  <2>1. row' \in [Pairs -> HistoryRows \cup {Nothing}]  BY <1>1, <1>3 DEF HistoryTyped
  <2>2. stored' \in [Pairs -> Nat]  BY DEF HistoryTyped
  <2>3. UNCHANGED <<time, rebuilds, watched, alerted, top, seededAt>>  BY DEF History!Settle
  <2>4. sync' \in [Pairs -> 0..time \cup {Nothing}]  BY DEF History!Settle, HistoryTyped
  <2>5. tick' # Nothing => "now" \in DOMAIN tick' /\ tick'.now \in 0..time
    BY DEF History!Settle, HistoryTyped
  <2>. QED  BY <2>1, <2>2, <2>3, <2>4, <2>5 DEF HistoryTyped
<1>5. Rebuilt'
  <2>1. UNCHANGED <<time, rebuilds>>  BY DEF History!Settle
  <2>2. \A q \in Pairs : row'[q] # Nothing /\ row'[q].ok => row'[q].due <= EndOf(stored'[q])
    <3>. SUFFICES ASSUME NEW q \in Pairs, row'[q] # Nothing, row'[q].ok
                  PROVE  row'[q].due <= EndOf(stored'[q])
      OBVIOUS
    <3>1. CASE q = p  BY <1>1, <1>3, <3>1 DEF HistoryTyped
    <3>2. CASE q # p
      <4>1. row'[q] = row[q] /\ stored'[q] = stored[q]  BY <1>3, <3>2 DEF HistoryTyped
      <4>. QED  BY <4>1 DEF Rebuilt
    <3>. QED  BY <3>1, <3>2
  <2>. QED  BY <2>1, <2>2 DEF Rebuilt, History!SettledBy
<1>6. Stamped'
  <2>1. UNCHANGED <<seededAt, steady>>  BY DEF History!Settle
  <2>. QED  BY <1>1, <1>2, <1>3, <2>1 DEF Stamped, HistoryTyped
<1>. QED  BY <1>4, <1>5, <1>6

\* One that was answered is due at the end of the rebuild after its clock.
LEMMA SyncOkStep == ASSUME HistoryInv, NEW p \in Pairs, History!SyncOk(p) PROVE HistoryInv'
<1>. DEFINE due == History!NextDailyDue(sync[p])
<1>1. sync[p] \in Nat /\ sync[p] <= time /\ time \in Nat /\ rebuilds \in Nat
  BY DEF History!SyncOk, HistoryInv, HistoryTyped
<1>2. /\ History!SettledBy(sync[p]) \in Nat /\ History!SettledBy(time) \in Nat
      /\ History!SettledBy(sync[p]) <= History!SettledBy(time)
  BY <1>1, Settled, SettledInOrder
<1>3. History!SettledBy(sync[p]) <= rebuilds  BY <1>1, <1>2 DEF HistoryInv, Rebuilt
<1>4. due = EndOf(History!SettledBy(sync[p]))  BY DEF History!NextDailyDue, EndOf
<1>5. due \in Nat /\ due <= EndOf(rebuilds)  BY <1>1, <1>2, <1>3, <1>4, EndsInOrder
<1>6. /\ stored' = [stored EXCEPT ![p] = rebuilds]
      /\ History!Synced(p, due, TRUE) /\ History!Settle(p)
  BY DEF History!SyncOk
<1>. HIDE DEF due
<1>. QED  BY <1>5, <1>6, SyncedStep

\* And one that failed is due after the backoff.
LEMMA SyncFailsStep == ASSUME HistoryInv, NEW p \in Pairs, History!SyncFails(p) PROVE HistoryInv'
<1>. DEFINE due == sync[p] + Backoff
<1>1. due \in Nat
  BY HistoryAssumption DEF History!SyncFails, HistoryInv, HistoryTyped
<1>2. UNCHANGED stored /\ History!Synced(p, due, FALSE) /\ History!Settle(p)
  BY DEF History!SyncFails
<1>. HIDE DEF due
<1>. QED  BY <1>1, <1>2, SyncedStep

\* A refresh or a tick starts or ends: its clock is the time or an earlier one.
LEMMA ClockStep ==
  ASSUME HistoryInv, HistoryTyped',
         UNCHANGED <<time, rebuilds, watched, alerted, top, row, stored, steady>>,
         UNCHANGED seededAt \/ seededAt' = Nothing
  PROVE  HistoryInv'
  BY DEF HistoryInv, Rebuilt, Stamped, History!SettledBy, EndOf

\* A view takes the time as its clock.
LEMMA ViewStep == ASSUME HistoryInv, NEW p \in Pairs, History!View(p) PROVE HistoryInv'
<1>1. HistoryTyped'  BY DEF HistoryInv, HistoryTyped, History!View, History!Joined
<1>. QED  BY <1>1, ClockStep DEF History!View

\* A worker of the pool takes the clock of the tick.
LEMMA TakePairStep == ASSUME HistoryInv, History!TakePair PROVE HistoryInv'
<1>. USE DEF HistoryInv, HistoryTyped, History!TakePair
<1>1. sync' \in [Pairs -> 0..time \cup {Nothing}]  BY DEF History!Joined
<1>2. "now" \in DOMAIN tick' /\ tick'.now \in 0..time  OBVIOUS
<1>. QED  BY <1>1, <1>2, ClockStep

\* The end of a tick, or of the process, forgets the clocks.
LEMMA EndTickStep == ASSUME HistoryInv, History!EndTick \/ History!Restart PROVE HistoryInv'
<1>1. HistoryTyped'  BY DEF HistoryInv, HistoryTyped, History!EndTick, History!Restart
<1>. QED  BY <1>1, ClockStep DEF History!EndTick, History!Restart

\* The seed: a row that was there keeps its day and is stamped when wanted; a
\* new one was not answered yet and is stamped.
LEMMA SeedRow ==
  ASSUME HistoryTyped, NEW p \in Pairs
  PROVE  LET a == History!AfterSeed[p] IN
         /\ a \in HistoryRows \cup {Nothing}
         /\ row[p] # Nothing =>
              /\ a # Nothing /\ a.due = row[p].due /\ a.ok = row[p].ok
              /\ a.wanted \in {time, row[p].wanted}
              /\ p \in History!Seeded \cup alerted => a.wanted = time
         /\ row[p] = Nothing /\ a # Nothing => ~a.ok /\ a.wanted = time
<1>. USE HistoryAssumption
<1>. DEFINE new == [due |-> time, ok |-> FALSE, wanted |-> time]
            old == [row[p] EXCEPT !.wanted = time]
            a == History!AfterSeed[p]
<1>1. \/ row[p] = Nothing /\ a = Nothing
      \/ row[p] = Nothing /\ a = new
      \/ row[p] # Nothing /\ p \in History!Seeded \cup alerted /\ a = old
      \/ row[p] # Nothing /\ p \notin History!Seeded \cup alerted /\ a = row[p]
  <2>1. a = IF row[p] = Nothing THEN IF p \in History!Seeded THEN new ELSE Nothing
            ELSE IF p \in History!Seeded \cup alerted THEN old ELSE row[p]
    BY DEF History!AfterSeed
  <2>. HIDE DEF a, new, old
  <2>. QED  BY <2>1
<1>2. new \in HistoryRows /\ new # Nothing /\ ~new.ok /\ new.wanted = time
  <2>1. new \in HistoryRows  BY DEF HistoryTyped, HistoryRows
  <2>2. new \in [due : Int, ok : BOOLEAN, wanted : Int \cup {Nothing}]  BY DEF HistoryTyped
  <2>. QED  BY <2>1, <2>2
<1>3. row[p] # Nothing =>
        /\ old \in HistoryRows /\ old # Nothing /\ old.wanted = time
        /\ old.due = row[p].due /\ old.ok = row[p].ok
  BY DEF HistoryTyped, HistoryRows
<1>4. row[p] \in HistoryRows \cup {Nothing}  BY DEF HistoryTyped
<1>. HIDE DEF new, old, a
<1>5. /\ a \in HistoryRows \cup {Nothing}
      /\ row[p] # Nothing =>
           /\ a # Nothing /\ a.due = row[p].due /\ a.ok = row[p].ok
           /\ a.wanted \in {time, row[p].wanted}
           /\ p \in History!Seeded \cup alerted => a.wanted = time
      /\ row[p] = Nothing /\ a # Nothing => ~a.ok /\ a.wanted = time
  BY <1>1, <1>2, <1>3, <1>4
<1>. QED  BY <1>5 DEF a

\* The prune: a row that stays keeps its day and has a stamp; one that is wanted
\* or was stamped within the grace stays.
LEMMA PruneRow ==
  ASSUME NEW rows \in [Pairs -> HistoryRows \cup {Nothing}], NEW p \in Pairs, time \in Nat
  PROVE  LET b == History!AfterPrune(rows)[p] IN
         /\ b \in HistoryRows \cup {Nothing}
         /\ b # Nothing =>
              /\ rows[p] # Nothing /\ b.due = rows[p].due /\ b.ok = rows[p].ok
              /\ b.wanted = IF rows[p].wanted = Nothing THEN time ELSE rows[p].wanted
         /\ rows[p] # Nothing /\
              (p \in watched \cup alerted \/ rows[p].wanted = Nothing \/ rows[p].wanted >= time - Grace)
              => b # Nothing
<1>. USE HistoryAssumption
<1>. DEFINE b == History!AfterPrune(rows)[p]
            stamp == IF rows[p].wanted = Nothing THEN time ELSE rows[p].wanted
            kept == [rows[p] EXCEPT !.wanted = stamp]
<1>1. History!Stamp(rows[p]) = stamp  BY DEF History!Stamp
<1>2. \/ b = Nothing /\ (rows[p] = Nothing \/ (stamp < time - Grace /\ p \notin watched \cup alerted))
      \/ rows[p] # Nothing /\ b = kept
  BY <1>1 DEF History!AfterPrune, History!Unwanted
<1>3. rows[p] # Nothing =>
        /\ kept \in HistoryRows /\ kept # Nothing /\ kept.wanted = stamp
        /\ kept.due = rows[p].due /\ kept.ok = rows[p].ok
  BY DEF HistoryRows
<1>4. /\ rows[p] # Nothing => rows[p].wanted \in Nat \cup {Nothing} /\ stamp \in Nat
      /\ ~(time < time - Grace)
  BY DEF HistoryRows
<1>. HIDE DEF kept, b
<1>5. /\ b \in HistoryRows \cup {Nothing}
      /\ b # Nothing =>
           /\ rows[p] # Nothing /\ b.due = rows[p].due /\ b.ok = rows[p].ok
           /\ b.wanted = IF rows[p].wanted = Nothing THEN time ELSE rows[p].wanted
  BY <1>2, <1>3
<1>6. rows[p] # Nothing /\
        (p \in watched \cup alerted \/ rows[p].wanted = Nothing \/ rows[p].wanted >= time - Grace)
        => b # Nothing
  BY <1>2, <1>3, <1>4
<1>. QED  BY <1>5, <1>6 DEF b

\* A tick seeds and prunes.
LEMMA StartTickStep == ASSUME HistoryInv, History!StartTick PROVE HistoryInv'
<1>. USE HistoryAssumption
<1>. DEFINE seed == History!AfterSeed
            rows == History!AfterPrune(seed)
<1>1. /\ row' = rows
      /\ seededAt' = IF History!SeedsTop THEN time ELSE seededAt
      /\ tick' = Nothing \/ \E q : tick' = [now |-> time, queue |-> q, running |-> {}]
      /\ steady' = {p \in watched \cup alerted \cup top :
                      (row[p] = Nothing /\ rows[p] # Nothing) \/ p \in steady}
      /\ UNCHANGED <<time, rebuilds, watched, alerted, top, stored, sync, changes>>
  BY DEF History!StartTick
<1>2. HistoryTyped /\ Rebuilt /\ Stamped  BY DEF HistoryInv
<1>3. seed \in [Pairs -> HistoryRows \cup {Nothing}]
  <2>1. \A p \in Pairs : seed[p] \in HistoryRows \cup {Nothing}  BY <1>2, SeedRow
  <2>2. seed = [p \in Pairs |-> seed[p]]  BY DEF History!AfterSeed
  <2>. QED  BY <2>1, <2>2
<1>4. time \in Nat  BY <1>2 DEF HistoryTyped
<1>5. ASSUME NEW p \in Pairs
      PROVE  /\ seed[p] \in HistoryRows \cup {Nothing}
             /\ row[p] # Nothing =>
                  /\ seed[p] # Nothing /\ seed[p].due = row[p].due /\ seed[p].ok = row[p].ok
                  /\ seed[p].wanted \in {time, row[p].wanted}
                  /\ p \in History!Seeded \cup alerted => seed[p].wanted = time
             /\ row[p] = Nothing /\ seed[p] # Nothing => ~seed[p].ok /\ seed[p].wanted = time
  BY <1>2, SeedRow
<1>. HIDE DEF seed
<1>6. ASSUME NEW p \in Pairs
      PROVE  /\ rows[p] \in HistoryRows \cup {Nothing}
             /\ rows[p] # Nothing =>
                  /\ seed[p] # Nothing /\ rows[p].due = seed[p].due /\ rows[p].ok = seed[p].ok
                  /\ rows[p].wanted = IF seed[p].wanted = Nothing THEN time ELSE seed[p].wanted
             /\ seed[p] # Nothing /\ (p \in watched \cup alerted \/ seed[p].wanted = Nothing
                                       \/ seed[p].wanted >= time - Grace)
                => rows[p] # Nothing
  BY <1>3, <1>4, PruneRow
<1>7. rows = [p \in Pairs |-> rows[p]]  BY DEF History!AfterPrune
<1>. HIDE DEF rows
<1>8. HistoryTyped'
  <2>1. rows \in [Pairs -> HistoryRows \cup {Nothing}]  BY <1>6, <1>7
  <2>2. tick' # Nothing => "now" \in DOMAIN tick' /\ tick'.now \in 0..time  BY <1>1, <1>4
  <2>. QED  BY <1>1, <1>2, <2>1, <2>2 DEF HistoryTyped
<1>9. Rebuilt'
  <2>1. ASSUME NEW p \in Pairs, rows[p] # Nothing, rows[p].ok
        PROVE  rows[p].due <= EndOf(stored[p])
    <3>1. row[p] # Nothing /\ row[p].ok /\ rows[p].due = row[p].due  BY <1>5, <1>6, <2>1
    <3>. QED  BY <1>2, <3>1 DEF Rebuilt
  <2>. QED  BY <1>1, <1>2, <2>1 DEF Rebuilt, History!SettledBy, EndOf
<1>10. Stamped'
  <2>. SUFFICES ASSUME NEW p \in steady'
                PROVE  /\ p \in Pairs /\ rows[p] # Nothing
                       /\ seededAt' # Nothing /\ rows[p].wanted # Nothing =>
                            rows[p].wanted >= seededAt'
    BY <1>1 DEF Stamped
  <2>1. CASE History!SeedsTop
    <3>1. seededAt' = time  BY <1>1, <2>1
    <3>2. CASE row[p] = Nothing /\ rows[p] # Nothing
      BY <1>1, <1>2, <1>4, <1>5, <1>6, <3>1, <3>2 DEF HistoryTyped
    <3>3. CASE p \in steady
      <4>1. row[p] # Nothing /\ p \in Pairs  BY <1>2, <3>3 DEF Stamped
      <4>2. p \in History!Seeded \cup alerted  BY <1>1, <2>1 DEF History!Seeded
      <4>3. seed[p] # Nothing /\ seed[p].wanted = time  BY <1>5, <4>1, <4>2
      <4>. QED  BY <1>4, <1>6, <3>1, <4>1, <4>3
    <3>. QED  BY <1>1, <3>2, <3>3
  <2>2. CASE ~History!SeedsTop
    <3>1. /\ seededAt' = seededAt /\ seededAt # Nothing /\ seededAt \in 0..time
          /\ time - seededAt < TopInterval
      BY <1>1, <1>2, <1>4, <2>2 DEF History!SeedsTop, HistoryTyped
    <3>2. CASE row[p] = Nothing /\ rows[p] # Nothing
      BY <1>1, <1>2, <1>4, <1>5, <1>6, <3>1, <3>2 DEF HistoryTyped
    <3>3. CASE p \in steady
      <4>1. /\ row[p] # Nothing /\ p \in Pairs
            /\ row[p].wanted # Nothing => row[p].wanted >= seededAt
        BY <1>2, <3>1, <3>3 DEF Stamped
      <4>2. seed[p] # Nothing /\ (seed[p].wanted # Nothing => seed[p].wanted >= seededAt)
        BY <1>4, <1>5, <3>1, <4>1
      <4>3. seed[p] \in HistoryRows  BY <1>5, <4>1, <4>2
      <4>4. seed[p].wanted # Nothing => seed[p].wanted \in Nat /\ seed[p].wanted >= time - Grace
        BY <1>4, <3>1, <4>2, <4>3 DEF HistoryRows
      <4>5. rows[p] # Nothing  BY <1>6, <4>1, <4>2, <4>4
      <4>. QED  BY <1>4, <1>6, <3>1, <4>1, <4>2, <4>5
    <3>. QED  BY <1>1, <3>2, <3>3
  <2>. QED  BY <2>1, <2>2
<1>. QED  BY <1>8, <1>9, <1>10 DEF HistoryInv

\* Every step keeps the invariant.
LEMMA HistoryStep == HistoryInv /\ (History!Next \/ UNCHANGED historyVars) => HistoryInv'
  BY AroundHistory, ViewStep, SyncOkStep, SyncFailsStep, StartTickStep, TakePairStep, EndTickStep
  DEF History!Next

\* Price history: a pair is parked only while it holds the newest rebuild or
\* after a failure, and one that is wanted at every tick keeps its schedule, for
\* any pairs, times, backoff, limits and restarts, as long as the grace is no
\* shorter than the time between two scans of the market.
THEOREM HistoryOfPairs == MCSpec => []HistorySound
<1>1. MCInit => (chosen = "history" => HistoryInv)
  BY HistoryInit DEF MCInit
<1>2. (chosen = "history" => HistoryInv) /\ [MCNext]_all => (chosen = "history" => HistoryInv)'
  BY HistoryStep DEF MCNext, all
<1>3. HistoryInv => History!HistorySound
  <2>. SUFFICES ASSUME HistoryInv PROVE History!HistorySound  OBVIOUS
  <2>1. History!NoDayMissed
    <3>. SUFFICES ASSUME NEW p \in Pairs, row[p] # Nothing, row[p].ok, row[p].due > time
                  PROVE  stored[p] >= History!SettledBy(time)
      BY DEF History!NoDayMissed
    <3>1. time \in Nat /\ stored[p] \in Nat /\ row[p].due \in Nat
      BY DEF HistoryInv, HistoryTyped, HistoryRows
    <3>2. row[p].due <= EndOf(stored[p])  BY DEF HistoryInv, Rebuilt
    <3>3. EndOf(stored[p]) \in Nat  BY <3>1, EndsInOrder
    <3>4. time < EndOf(stored[p])  BY <3>1, <3>2, <3>3
    <3>5. History!SettledBy(time) <= stored[p] /\ History!SettledBy(time) \in Nat
      BY <3>1, <3>4, Settled, SettledBefore
    <3>. QED  BY <3>1, <3>5
  <2>2. History!WantedKept  BY DEF HistoryInv, Stamped, History!WantedKept
  <2>. QED  BY <2>1, <2>2 DEF History!HistorySound
<1>4. (chosen = "history" => HistoryInv) => HistorySound
  BY <1>3 DEF HistorySound
<1>. QED  BY <1>1, <1>2, <1>4, PTL DEF MCSpec

-----------------------------------------------------------------------------
(* AgentTurn.                                                              *)

\* The table of messages and the anchor, as a step leaves them.
Stored ==
  /\ drawn \in Nat /\ first \in 0..drawn /\ role \in [DOMAIN role -> Turn!Roles]
  /\ DOMAIN role \subseteq 1..drawn /\ gone \subseteq 1..drawn \ DOMAIN role
  /\ anchor = Nothing \/ (anchor \in Turn!Anchors /\ anchor.msg \in 1..drawn)
  /\ big \in BOOLEAN
  /\ mode # "server" => anchor = Nothing
  /\ ~Unprompted /\ anchor # Nothing =>
       \A i \in Turn!Spoken : i <= anchor.msg => <<"msg", i>> \in anchor.chain.view

LEMMA StoredNow == Turn!IInv => Stored
  BY DEF Turn!IInv, Turn!Typed, Turn!TypeOK, Turn!Messages, Turn!Anchored, Turn!Shown, Stored

\* What is spoken is in the table.
LEMMA SpokenIs ==
  Turn!Spoken = {i \in DOMAIN role : role[i] \in {"user", "assistant"}}
  BY DEF Turn!Spoken, Turn!OfRole, Turn!Messages

LEMMA SpokenWillBe ==
  Turn!Spoken' = {i \in DOMAIN role' : role'[i] \in {"user", "assistant"}}
  BY DEF Turn!Spoken, Turn!OfRole, Turn!Messages

\* New messages are newer than all others.
LEMMA Added ==
  ASSUME Stored, NEW n \in Nat, NEW r \in Turn!Roles, Turn!Add(n, r)
  PROVE  /\ drawn' = drawn + n /\ drawn' \in Nat /\ gone' \subseteq 1..drawn' \ DOMAIN role'
         /\ DOMAIN role' = DOMAIN role \cup (drawn + 1)..(drawn + n)
         /\ role' \in [DOMAIN role' -> Turn!Roles] /\ DOMAIN role' \subseteq 1..drawn'
         /\ \A i \in DOMAIN role : role'[i] = role[i]
         /\ \A i \in (drawn + 1)..(drawn + n) : role'[i] = r
         /\ Turn!Spoken' = Turn!Spoken \cup
              (IF r = "tool" THEN {} ELSE (drawn + 1)..(drawn + n))
<1>1. role' = Turn!With(n, r) /\ drawn' = drawn + n /\ gone' = gone
  BY DEF Turn!Add
<1>2. DOMAIN role' = DOMAIN role \cup (drawn + 1)..(drawn + n)
  BY <1>1 DEF Turn!With, Turn!Messages
<1>3. /\ \A i \in DOMAIN role : i <= drawn /\ i \in Int
      /\ \A i \in (drawn + 1)..(drawn + n) : i > drawn /\ i \in 1..(drawn + n)
  BY DEF Stored
<1>4. /\ \A i \in DOMAIN role : role'[i] = role[i]
      /\ \A i \in (drawn + 1)..(drawn + n) : role'[i] = r
  BY <1>1, <1>2, <1>3 DEF Turn!With, Turn!Messages, Stored
<1>5. role' \in [DOMAIN role' -> Turn!Roles]
  <2>1. role' = [i \in DOMAIN role' |-> role'[i]]
    BY <1>1 DEF Turn!With, Turn!Messages
  <2>2. \A i \in DOMAIN role' : role'[i] \in Turn!Roles
    BY <1>2, <1>4 DEF Stored
  <2>. QED  BY <2>1, <2>2
<1>6. Turn!Spoken' = Turn!Spoken \cup (IF r = "tool" THEN {} ELSE (drawn + 1)..(drawn + n))
  BY <1>2, <1>4, SpokenIs, SpokenWillBe DEF Turn!Roles
<1>7. DOMAIN role' \subseteq 1..drawn' /\ drawn' \in Nat
  BY <1>1, <1>2, <1>3 DEF Stored
<1>8. gone' \subseteq 1..drawn' \ DOMAIN role'
  BY <1>1, <1>2, <1>3 DEF Stored
<1>. QED  BY <1>1, <1>2, <1>4, <1>5, <1>6, <1>7, <1>8

\* Messages that are deleted take nothing else with them.
Thinned ==
  /\ UNCHANGED <<mode, drawn, first>> /\ anchor' \in {anchor, Nothing} /\ big' \in BOOLEAN
  /\ DOMAIN role' \subseteq DOMAIN role /\ role' \in [DOMAIN role' -> Turn!Roles]
  /\ \A i \in DOMAIN role' : role'[i] = role[i]
  /\ gone' \subseteq 1..drawn \ DOMAIN role'

LEMMA ThinnedStored == ASSUME Stored, Thinned PROVE Stored' /\ Turn!Spoken' \subseteq Turn!Spoken
<1>1. Turn!Spoken' \subseteq Turn!Spoken
  BY SpokenIs, SpokenWillBe DEF Thinned
<1>. QED  BY <1>1 DEF Thinned, Stored

\* Deleting all but S.
LEMMA OnlyThins ==
  ASSUME Stored, NEW S \in SUBSET DOMAIN role, role' = Turn!Only(S)
  PROVE  /\ DOMAIN role' = S /\ role' \in [S -> Turn!Roles]
         /\ \A i \in S : role'[i] = role[i]
  BY DEF Stored, Turn!Only

LEMMA CompactsThins ==
  ASSUME Stored, Turn!Compacts, UNCHANGED <<mode, first>> PROVE Thinned
<1>1. ASSUME NEW last \in Turn!Older, Turn!Summarised(last), UNCHANGED drawn PROVE Thinned
  <2>. DEFINE S == {i \in Turn!Messages : i > last /\ Turn!Fresh(i)}
  <2>1. role' = Turn!Only(S) /\ S \in SUBSET DOMAIN role
    BY <1>1 DEF Turn!Summarised, Turn!Messages
  <2>2. DOMAIN role' = S /\ role' \in [S -> Turn!Roles] /\ \A i \in S : role'[i] = role[i]
    BY <2>1, OnlyThins
  <2>3. gone' = gone \cup {i \in Turn!Spoken : i <= last}
    BY <1>1 DEF Turn!Summarised
  <2>4. last \in Int /\ \A i \in DOMAIN role : i \in 1..drawn
    BY <1>1, SpokenIs DEF Turn!Older, Stored
  <2>5. gone' \subseteq 1..drawn \ S
    BY <2>3, <2>4, SpokenIs DEF Stored, Turn!Messages
  <2>. QED  BY <1>1, <2>1, <2>2, <2>5 DEF Turn!Summarised, Thinned
<1>2. ASSUME role' = Turn!Only({i \in Turn!Messages : Turn!Fresh(i)}), big' = FALSE,
             UNCHANGED <<gone, anchor, drawn>> PROVE Thinned
  <2>. DEFINE S == {i \in Turn!Messages : Turn!Fresh(i)}
  <2>1. role' = Turn!Only(S) /\ S \in SUBSET DOMAIN role
    BY <1>2 DEF Turn!Messages
  <2>2. DOMAIN role' = S /\ role' \in [S -> Turn!Roles] /\ \A i \in S : role'[i] = role[i]
    BY <2>1, OnlyThins
  <2>. QED  BY <1>2, <2>1, <2>2 DEF Stored, Thinned
<1>3. ASSUME UNCHANGED <<role, gone, anchor, big, drawn>> PROVE Thinned
  BY <1>3 DEF Stored, Thinned
<1>. QED  BY <1>1, <1>2, <1>3 DEF Turn!Compacts

\* An answer is stored, and anchors a chain that shows everything spoken.
LEMMA SaysStored ==
  ASSUME Stored, UNCHANGED <<mode, first>>, big' \in BOOLEAN, NEW c, Turn!Says(c),
         c # Nothing => /\ mode = "server" /\ c \in Turn!Chains
                        /\ ~Unprompted => \A i \in Turn!Spoken : <<"msg", i>> \in c.view
  PROVE  Stored'
<1>1. Turn!Add(1, "assistant")  BY DEF Turn!Says
<1>2. /\ drawn' = drawn + 1 /\ drawn' \in Nat /\ gone' \subseteq 1..drawn' \ DOMAIN role'
      /\ role' \in [DOMAIN role' -> Turn!Roles] /\ DOMAIN role' \subseteq 1..drawn'
      /\ Turn!Spoken' = Turn!Spoken \cup {drawn + 1}
  <2>1. "assistant" \in Turn!Roles /\ "assistant" # "tool" /\ 1 \in Nat
    BY DEF Turn!Roles
  <2>2. (drawn + 1)..(drawn + 1) = {drawn + 1}
    BY DEF Stored
  <2>. QED  BY <1>1, <2>1, <2>2, Added
<1>3. CASE c = Nothing
  BY <1>2, <1>3 DEF Stored, Turn!Says
<1>4. CASE c # Nothing
  <2>. DEFINE V == {x \in c.view : x[1] = "msg"} \cup Turn!Msgs({drawn + 1})
  <2>1. anchor' = [msg |-> drawn + 1, chain |-> [view |-> V]]
    BY <1>4 DEF Turn!Says, Turn!Chain
  <2>2. V \subseteq {"msg"} \X Nat
    BY <1>4 DEF Turn!Chains, Turn!Items, Turn!Msgs, Stored
  <2>3. \A i \in Turn!Spoken \cup {drawn + 1} : ~Unprompted => <<"msg", i>> \in V
    BY <1>4 DEF Turn!Msgs
  <2>. HIDE DEF V
  <2>4. anchor' \in Turn!Anchors /\ anchor'.msg \in 1..drawn' /\ anchor'.chain.view = V
    BY <1>2, <2>1, <2>2 DEF Turn!Anchors, Stored
  <2>. QED  BY <1>2, <1>4, <2>3, <2>4 DEF Stored
<1>. QED  BY <1>3, <1>4

\* A turn ends, however it does.
LEMMA EndsStep == ASSUME Turn!IInv, Turn!Over, Stored' PROVE Turn!IInv'
<1>1. Turn!NoTurn \in Turn!Turns /\ Turn!NoBatch \in Turn!Responses
  BY TurnAssumption DEF Turn!NoTurn, Turn!NoBatch, Turn!Turns, Turn!Responses
<1>2. /\ phase' = "idle" /\ turn' = Turn!NoTurn /\ batch' = Turn!NoBatch /\ plan' = Turn!PlanClosed
      /\ UNCHANGED <<mode, turns, first, tried, twice, stale>>
  BY DEF Turn!Over, Turn!effects
<1>3. Turn!Typed'
  <2>1. turn' \in Turn!Turns /\ batch' \in Turn!Responses
    BY <1>1, <1>2
  <2>2. turn'.iter = 0 /\ turn'.retries = 0 /\ turn'.recoveries = 0
        /\ batch'.at = 1 /\ batch'.calls = <<>>
    BY <1>2 DEF Turn!NoTurn, Turn!NoBatch
  <2>3. batch'.at \in 1..Len(batch'.calls) + 1
    BY <2>2
  <2>4. plan' \in {"none", "active", "closed"}
    BY <1>2 DEF Turn!PlanClosed, Turn!IInv, Turn!Typed, Turn!TypeOK
  <2>5. mode' \in Modes /\ turns' \in 0..MaxTurns
    BY <1>2 DEF Turn!IInv, Turn!Typed, Turn!TypeOK
  <2>6. Turn!TypeOK'
    BY <1>2, <2>2, <2>3, <2>4, <2>5, TurnAssumption DEF Turn!TypeOK, Turn!Messages, Stored
  <2>. QED  BY <2>1, <2>6 DEF Turn!Typed, Turn!Messages, Stored
<1>4. (Turn!InOrder /\ Turn!PlansAreClosed)'
  BY <1>2 DEF Turn!InOrder, Turn!Looping, Turn!PlansAreClosed, Turn!PlanClosed, Turn!NoBatch
<1>5. (Turn!Remembers /\ Turn!Anchored /\ Turn!Shown)'
  BY <1>2 DEF Turn!IInv, Turn!Remembers, Turn!Anchored, Turn!Shown, Turn!Looping, Stored,
      Turn!NoTurn
<1>. QED  BY <1>3, <1>4, <1>5 DEF Turn!IInv

\* A step outside the loop.
LEMMA OutsideStep ==
  ASSUME Turn!IInv, ~Turn!Looping, Stored', UNCHANGED <<mode, turn, batch, twice>>,
         phase' \in {"idle", "preflight", "shrink", "plan"}, turns' \in 0..MaxTurns,
         plan' \in {plan, "none"}, phase' = "idle" => phase = "idle",
         tried' \in {tried, {}}, phase' # "idle" => tried' = {},
         ~Unprompted /\ phase' # "idle" => \A i \in Turn!Spoken' : i <= first'
  PROVE  Turn!IInv'
<1>1. Turn!Typed'
  <2>1. turn' \in Turn!Turns /\ batch' \in Turn!Responses /\ mode' \in Modes
        /\ plan' \in {"none", "active", "closed"}
        /\ turn'.iter \in 0..MaxIterations /\ turn'.retries \in 0..MaxRetries
        /\ turn'.recoveries \in 0..MaxRecoveries /\ batch'.at \in 1..Len(batch'.calls) + 1
    BY DEF Turn!IInv, Turn!Typed, Turn!TypeOK
  <2>2. Turn!TypeOK'
    BY <2>1 DEF Turn!TypeOK, Turn!Messages, Stored
  <2>. QED  BY <2>1, <2>2 DEF Turn!Typed, Turn!Messages, Stored
<1>2. (Turn!InOrder /\ Turn!PlansAreClosed)'
  BY DEF Turn!IInv, Turn!InOrder, Turn!Looping, Turn!PlansAreClosed
<1>3. (Turn!Remembers /\ Turn!Anchored)'
  BY DEF Turn!IInv, Turn!Remembers, Turn!Anchored, Turn!Looping, Stored
<1>4. Turn!Shown'
  BY DEF Turn!IInv, Turn!Shown, Turn!Looping, Stored
<1>. QED  BY <1>1, <1>2, <1>3, <1>4 DEF Turn!IInv

\* A user's message begins a turn.
LEMMA TurnStartStep == ASSUME Turn!IInv, Turn!Start PROVE Turn!IInv'
<1>1. Stored  BY StoredNow
<1>2. Turn!Add(1, "user") /\ 1 \in Nat /\ "user" \in Turn!Roles /\ "user" # "tool"
  BY DEF Turn!Start, Turn!Roles
<1>3. /\ drawn' = drawn + 1 /\ drawn' \in Nat /\ gone' \subseteq 1..drawn' \ DOMAIN role'
      /\ role' \in [DOMAIN role' -> Turn!Roles] /\ DOMAIN role' \subseteq 1..drawn'
      /\ Turn!Spoken' = Turn!Spoken \cup {drawn + 1}
  <2>1. (drawn + 1)..(drawn + 1) = {drawn + 1}
    BY <1>1 DEF Stored
  <2>. QED  BY <1>1, <1>2, <2>1, Added
<1>4. \A i \in Turn!Spoken : i \in 1..drawn
  BY <1>1, SpokenIs DEF Stored
<1>5. UNCHANGED <<mode, anchor, big, turn, batch>> /\ first' = drawn + 1
      /\ phase = "idle" /\ phase' = "preflight" /\ plan' = "none" /\ tried' = {} /\ twice' = {}
      /\ turns' = turns + 1 /\ turns < MaxTurns
  BY DEF Turn!Start
<1>6. Stored'
  <2>1. anchor' = Nothing \/ (anchor' \in Turn!Anchors /\ anchor'.msg \in 1..drawn'
                              /\ anchor'.msg <= drawn)
    BY <1>1, <1>3, <1>5 DEF Stored
  <2>2. ~Unprompted /\ anchor' # Nothing =>
          \A i \in Turn!Spoken' : i <= anchor'.msg => <<"msg", i>> \in anchor'.chain.view
    BY <1>1, <1>3, <1>5, <2>1 DEF Stored, Turn!Anchors
  <2>. QED  BY <1>1, <1>3, <1>5, <2>1, <2>2 DEF Stored
<1>7. ~Turn!Looping /\ twice = {} /\ turns' \in 0..MaxTurns
  <2>1. ~Turn!Looping /\ twice = {}
    BY <1>5 DEF Turn!IInv, Turn!Looping, Turn!Remembers
  <2>2. turns \in 0..MaxTurns
    BY DEF Turn!IInv, Turn!Typed, Turn!TypeOK
  <2>. QED  BY <1>5, <2>1, <2>2, TurnAssumption
<1>8. \A i \in Turn!Spoken' : i <= first'
  BY <1>1, <1>3, <1>4, <1>5 DEF Stored
<1>. QED  BY <1>5, <1>6, <1>7, <1>8, OutsideStep

\* The map writes into the conversation: between turns, or unasked.
LEMMA AdviseStep == ASSUME Turn!IInv, Turn!Advise PROVE Turn!IInv'
<1>1. Stored  BY StoredNow
<1>2. Turn!Add(1, "assistant") /\ 1 \in Nat /\ "assistant" \in Turn!Roles
      /\ "assistant" # "tool"
  BY DEF Turn!Advise, Turn!Roles
<1>3. /\ drawn' = drawn + 1 /\ drawn' \in Nat /\ gone' \subseteq 1..drawn' \ DOMAIN role'
      /\ role' \in [DOMAIN role' -> Turn!Roles] /\ DOMAIN role' \subseteq 1..drawn'
      /\ Turn!Spoken' = Turn!Spoken \cup {drawn + 1}
  <2>1. (drawn + 1)..(drawn + 1) = {drawn + 1}
    BY <1>1 DEF Stored
  <2>. QED  BY <1>1, <1>2, <2>1, Added
<1>4. /\ UNCHANGED <<mode, phase, turns, first, anchor, big, plan, turn, batch, tried, twice>>
      /\ gone' = gone /\ (phase = "idle" \/ Unprompted)
  BY <1>2 DEF Turn!Advise, Turn!effects, Turn!Add
<1>5. Stored'
  <2>1. anchor' = Nothing \/ (anchor' \in Turn!Anchors /\ anchor'.msg \in 1..drawn'
                              /\ anchor'.msg <= drawn)
    BY <1>1, <1>3, <1>4 DEF Stored
  <2>2. ~Unprompted /\ anchor' # Nothing =>
          \A i \in Turn!Spoken' : i <= anchor'.msg => <<"msg", i>> \in anchor'.chain.view
    BY <1>1, <1>3, <1>4, <2>1 DEF Stored, Turn!Anchors
  <2>. QED  BY <1>1, <1>3, <1>4, <2>1, <2>2 DEF Stored
<1>6. CASE phase = "idle"
  <2>1. ~Turn!Looping /\ turns' \in 0..MaxTurns
    BY <1>4, <1>6 DEF Turn!IInv, Turn!Looping, Turn!Typed, Turn!TypeOK
  <2>. QED  BY <1>4, <1>5, <1>6, <2>1, OutsideStep
<1>7. CASE phase # "idle"
  <2>1. Unprompted
    BY <1>4, <1>7
  <2>2. Turn!TypeOK'
    BY <1>4, <1>5 DEF Turn!IInv, Turn!Typed, Turn!TypeOK, Turn!Messages, Stored
  <2>3. Turn!Typed'
    BY <1>4, <1>5, <2>2 DEF Turn!IInv, Turn!Typed, Turn!Messages, Stored
  <2>4. (Turn!InOrder /\ Turn!PlansAreClosed /\ Turn!Remembers)'
    BY <1>4 DEF Turn!IInv, Turn!InOrder, Turn!Looping, Turn!PlansAreClosed, Turn!Remembers,
                Turn!At
  <2>5. (Turn!Anchored /\ Turn!Shown)'
    BY <1>4, <2>1 DEF Turn!IInv, Turn!Anchored, Turn!Shown, Turn!Looping, Turn!Complete,
                      Turn!View
  <2>. QED  BY <2>3, <2>4, <2>5 DEF Turn!IInv
<1>. QED  BY <1>6, <1>7

\* A turn that was cancelled takes its messages with it.
LEMMA Withdrawn ==
  ASSUME Stored, role' = Turn!Only({i \in Turn!Messages : i < first}),
         UNCHANGED <<mode, drawn, gone, first>>, anchor' \in {anchor, Nothing},
         big' \in BOOLEAN
  PROVE  Stored'
<1>. DEFINE S == {i \in Turn!Messages : i < first}
<1>1. S \in SUBSET DOMAIN role /\ role' = Turn!Only(S)
  BY DEF Turn!Messages
<1>2. DOMAIN role' = S /\ role' \in [S -> Turn!Roles] /\ \A i \in S : role'[i] = role[i]
  BY <1>1, OnlyThins
<1>3. Thinned
  BY <1>1, <1>2 DEF Thinned, Stored
<1>. QED  BY <1>3, ThinnedStored

LEMMA WithdrawStep == ASSUME Turn!IInv, Turn!Withdraw PROVE Turn!IInv'
<1>1. Stored  BY StoredNow
<1>2. /\ UNCHANGED <<mode, phase, turns, drawn, gone, first, anchor, big, plan, turn, batch, tried,
                     twice>>
      /\ role' = Turn!Only({i \in Turn!Messages : i < first}) /\ phase = "idle"
  BY DEF Turn!Withdraw, Turn!effects
<1>3. Stored'
  BY <1>1, <1>2, Withdrawn DEF Stored
<1>4. ~Turn!Looping /\ turns' \in 0..MaxTurns
  BY <1>2 DEF Turn!IInv, Turn!Looping, Turn!Typed, Turn!TypeOK
<1>. QED  BY <1>2, <1>3, <1>4, OutsideStep

\* Every way a turn fails or is given up.
LEMMA UntouchedStored ==
  ASSUME Stored, UNCHANGED <<mode, drawn, role, gone, first>>, anchor' \in {anchor, Nothing},
         big' \in BOOLEAN
  PROVE  Stored'
  BY DEF Stored, Turn!Spoken, Turn!OfRole, Turn!Messages

LEMMA FailsStep == ASSUME Turn!IInv, Turn!Fails PROVE Turn!IInv'
<1>1. Stored  BY StoredNow
<1>2. Turn!Over /\ Turn!Says(Nothing) /\ big' \in BOOLEAN /\ UNCHANGED <<mode, first>>
  BY DEF Turn!Fails, Turn!Over
<1>3. Stored'
  BY <1>1, <1>2, SaysStored
<1>. QED  BY <1>2, <1>3, EndsStep

LEMMA ThrowsStep == ASSUME Turn!IInv, Turn!Throws PROVE Turn!IInv'
<1>1. Stored  BY StoredNow
<1>2. /\ Turn!Over /\ anchor' = Nothing /\ big' \in BOOLEAN
      /\ UNCHANGED <<mode, drawn, role, gone, first>>
  BY <1>1 DEF Turn!Throws, Turn!Over, Turn!table, Stored
<1>. QED  BY <1>1, <1>2, UntouchedStored, EndsStep

LEMMA AbandonsStep ==
  ASSUME Turn!IInv, NEW a \in {anchor, Nothing}, Turn!Abandons(a) PROVE Turn!IInv'
<1>1. Stored  BY StoredNow
<1>2. /\ Turn!Over /\ anchor' = a /\ big' \in BOOLEAN /\ UNCHANGED <<mode, drawn, gone, first>>
      /\ role' = Turn!Only({i \in Turn!Messages : i < first})
  BY <1>1 DEF Turn!Abandons, Turn!Over, Stored
<1>. QED  BY <1>1, <1>2, Withdrawn, EndsStep

LEMMA InterruptedStep == ASSUME Turn!IInv, Turn!Interrupted PROVE Turn!IInv'
  BY FailsStep, AbandonsStep DEF Turn!Interrupted

LEMMA CutStep ==
  ASSUME Turn!IInv, Turn!Over, UNCHANGED <<Turn!table, anchor, big>> PROVE Turn!IInv'
<1>1. Stored  BY StoredNow
<1>2. UNCHANGED <<mode, drawn, role, gone, first>> /\ big' \in BOOLEAN
  BY <1>1 DEF Turn!Over, Turn!table, Stored
<1>. QED  BY <1>1, <1>2, UntouchedStored, EndsStep

LEMMA PreflightStep == ASSUME Turn!IInv, Turn!Preflight PROVE Turn!IInv'
<1>1. Stored  BY StoredNow
<1>2. CASE /\ phase' = "shrink"
           /\ UNCHANGED <<mode, turns, Turn!table, first, anchor, big, plan, turn, batch,
                          Turn!effects>>
  <2>1. UNCHANGED <<mode, turns, drawn, role, gone, first, anchor, big, plan, turn, batch,
                    tried, twice>> /\ phase = "preflight" /\ big' \in BOOLEAN
    BY <1>1, <1>2 DEF Turn!Preflight, Turn!table, Turn!effects, Stored
  <2>2. Stored'
    BY <1>1, <2>1, UntouchedStored
  <2>3. ~Turn!Looping /\ turns' \in 0..MaxTurns
    BY <2>1 DEF Turn!IInv, Turn!Looping, Turn!Typed, Turn!TypeOK
  <2>4. tried = {} /\ (~Unprompted => \A i \in Turn!Spoken' : i <= first')
    BY <2>1, SpokenIs, SpokenWillBe DEF Turn!IInv, Turn!Remembers, Turn!Anchored
  <2>. QED  BY <1>2, <2>1, <2>2, <2>3, <2>4, OutsideStep
<1>. QED  BY <1>2, CutStep, FailsStep, AbandonsStep DEF Turn!Preflight

LEMMA ShrinkStep == ASSUME Turn!IInv, Turn!Shrink PROVE Turn!IInv'
<1>1. Stored  BY StoredNow
<1>2. UNCHANGED <<mode, first>>
  BY DEF Turn!Shrink, Turn!Over
<1>3. Stored' /\ Turn!Spoken' \subseteq Turn!Spoken
  <2>1. CASE Turn!Compacts
    BY <1>1, <1>2, <2>1, CompactsThins, ThinnedStored
  <2>2. CASE UNCHANGED <<Turn!table, anchor, big>>
    <3>1. UNCHANGED <<drawn, role, gone>> /\ big' \in BOOLEAN
      BY <1>1, <2>2 DEF Turn!table, Stored
    <3>. QED  BY <1>1, <1>2, <2>2, <3>1, UntouchedStored, SpokenIs, SpokenWillBe
  <2>. QED  BY <2>1, <2>2 DEF Turn!Shrink
<1>4. CASE Turn!Over
  BY <1>3, <1>4, EndsStep
<1>5. CASE phase' = "plan" /\ UNCHANGED <<mode, turns, first, plan, turn, batch, Turn!effects>>
  <2>1. phase = "shrink" /\ UNCHANGED <<mode, turns, first, plan, turn, batch, tried, twice>>
    BY <1>5 DEF Turn!Shrink, Turn!effects
  <2>2. ~Turn!Looping /\ turns' \in 0..MaxTurns /\ tried = {}
    BY <2>1 DEF Turn!IInv, Turn!Looping, Turn!Typed, Turn!TypeOK, Turn!Remembers
  <2>3. ~Unprompted => \A i \in Turn!Spoken' : i <= first'
    BY <1>3, <2>1 DEF Turn!IInv, Turn!Anchored
  <2>. QED  BY <1>3, <1>5, <2>1, <2>2, <2>3, OutsideStep
<1>. QED  BY <1>4, <1>5 DEF Turn!Shrink

\* What pairs, messages and their unions are.
LEMMA PairedPairs == \A S : Turn!Paired(Turn!PairsOf(S)) /\ Turn!Paired(Turn!Msgs(S))
  BY DEF Turn!Paired, Turn!PairsOf, Turn!Msgs
LEMMA PairedUnion == \A A, B : Turn!Paired(A) /\ Turn!Paired(B) => Turn!Paired(A \cup B)
  BY DEF Turn!Paired
LEMMA PairsAreItems ==
  \A S \in SUBSET Nat : Turn!PairsOf(S) \subseteq Turn!Items /\ Turn!Msgs(S) \subseteq Turn!Items
  BY DEF Turn!PairsOf, Turn!Msgs, Turn!Items
LEMMA PairsUnion ==
  \A A, B : Turn!PairsOf(A \cup B) = Turn!PairsOf(A) \cup Turn!PairsOf(B)
  BY DEF Turn!PairsOf
LEMMA PairsInclude == \A A, B : A \subseteq B => Turn!PairsOf(A) \subseteq Turn!PairsOf(B)
  BY DEF Turn!PairsOf

\* The loop goes on to its next request.
LEMMA NextRequest ==
  ASSUME Turn!IInv, Stored', Turn!Looping \/ phase = "plan", phase' = "ready",
         batch' = Turn!NoBatch, turn' \in Turn!Turns, Turn!Shown',
         UNCHANGED <<mode, turns, first, plan, tried, twice>>,
         Turn!Spoken' \subseteq Turn!Spoken, \A c \in tried : c \in turn'.results
  PROVE  Turn!IInv'
<1>1. Turn!Typed'
  <2>1. Turn!NoBatch \in Turn!Responses /\ Turn!NoBatch.at = 1 /\ Turn!NoBatch.calls = <<>>
    BY DEF Turn!NoBatch, Turn!Responses
  <2>2. batch' \in Turn!Responses /\ batch'.at \in 1..Len(batch'.calls) + 1
    BY <2>1
  <2>3. mode' \in Modes /\ turns' \in 0..MaxTurns /\ plan' \in {"none", "active", "closed"}
    BY DEF Turn!IInv, Turn!Typed, Turn!TypeOK
  <2>4. turn'.iter \in 0..MaxIterations /\ turn'.retries \in 0..MaxRetries
        /\ turn'.recoveries \in 0..MaxRecoveries
    BY DEF Turn!Turns
  <2>5. Turn!TypeOK'
    BY <2>2, <2>3, <2>4 DEF Turn!TypeOK, Turn!Messages, Stored
  <2>. QED  BY <2>2, <2>5 DEF Turn!Typed, Turn!Messages, Stored
<1>2. (Turn!InOrder /\ Turn!PlansAreClosed)'
  BY DEF Turn!InOrder, Turn!Looping, Turn!PlansAreClosed, Turn!NoBatch
<1>3. Turn!Remembers'
  BY DEF Turn!IInv, Turn!Remembers, Turn!Looping
<1>4. Turn!Anchored'
  BY DEF Turn!IInv, Turn!Anchored, Stored, Turn!Looping
<1>. QED  BY <1>1, <1>2, <1>3, <1>4 DEF Turn!IInv

\* The user's message that a warm chain is asked with is the only one after
\* the anchor.
LEMMA WarmShows ==
  ASSUME Turn!IInv, Turn!Warm
  PROVE  /\ Turn!Newest(Turn!OfRole("user")) \in Nat
         /\ ~Unprompted => \A i \in Turn!Spoken :
              <<"msg", i>> \in anchor.chain.view
                               \cup Turn!Msgs({Turn!Newest(Turn!OfRole("user"))})
<1>1. Stored  BY StoredNow
<1>2. /\ anchor # Nothing /\ Cardinality(Turn!After(anchor.msg)) = 1
      /\ Turn!After(anchor.msg) \subseteq Turn!OfRole("user")
  <2>1. \A S : Turn!Cardinality(S) = Cardinality(S)
    BY DEF Turn!Cardinality, Cardinality
  <2>. QED  BY <2>1 DEF Turn!Warm, Turn!LatestAnchor
<1>3. PICK j : Turn!After(anchor.msg) = {j}
  <2>1. IsFiniteSet(1..drawn) /\ Turn!After(anchor.msg) \subseteq 1..drawn
    <3>1. 1 \in Int /\ drawn \in Int /\ DOMAIN role \subseteq 1..drawn
      BY <1>1 DEF Stored
    <3>. QED  BY <3>1, FS_Interval DEF Turn!After, Turn!Messages
  <2>2. IsFiniteSet(Turn!After(anchor.msg))
    BY <2>1, FS_Subset
  <2>. QED  BY <1>2, <2>2, FS_Singleton
<1>4. j \in Turn!OfRole("user") /\ j \in 1..drawn /\ j > anchor.msg /\ anchor.msg \in 1..drawn
  BY <1>1, <1>2, <1>3 DEF Turn!After, Turn!Messages, Stored
<1>5. \A i \in DOMAIN role : i \in 1..drawn /\ (i = j \/ i <= anchor.msg)
  BY <1>1, <1>3, <1>4 DEF Turn!After, Turn!Messages, Stored
<1>6. Turn!Newest(Turn!OfRole("user")) = j
  <2>. DEFINE U == Turn!OfRole("user")
  <2>1. U \subseteq DOMAIN role
    BY DEF Turn!OfRole, Turn!Messages
  <2>2. j \in U \cup {0} /\ \A y \in U : y <= j
    BY <1>4, <1>5, <2>1
  <2>3. \A x \in U \cup {0} : (\A y \in U : y <= x) => x = j
    BY <1>4, <1>5, <2>1
  <2>. QED  BY <2>2, <2>3 DEF Turn!Newest
<1>7. \A i \in Turn!Spoken : i = j \/ i <= anchor.msg
  BY <1>5, SpokenIs
<1>. QED  BY <1>1, <1>2, <1>4, <1>6, <1>7 DEF Stored, Turn!Msgs

\* Finite sets, as AgentTurn's instance names them.
LEMMA TurnSets ==
  /\ \A S : Turn!IsFiniteSet(S) = IsFiniteSet(S)
  /\ \A S : Turn!Cardinality(S) = Cardinality(S)
  BY DEF Turn!IsFiniteSet, Turn!Cardinality, IsFiniteSet, Cardinality

LEMMA NewTurn ==
  ASSUME NEW p \in Turn!Chains \cup {Nothing}, NEW i \in SUBSET Turn!Items,
         NEW r \in SUBSET Turn!Items, NEW s \in SUBSET Nat
  PROVE  [prev |-> p, items |-> i, recovery |-> r, prompt |-> s, iter |-> 0, retries |-> 0,
          recoveries |-> 0, nudges |-> 0, empties |-> 0, compacted |-> FALSE, made |-> {},
          found |-> {}, omitted |-> {}, results |-> {}] \in Turn!Turns
  BY TurnAssumption DEF Turn!Turns

\* The prompt of the loop has the summary, and the chain or the table the rest.
LEMMA BeginLoop == ASSUME Turn!IInv, Turn!Begin PROVE Turn!IInv'
<1>1. Stored  BY StoredNow
<1>2. /\ phase = "plan" /\ phase' = "ready" /\ turn = Turn!NoTurn /\ batch = Turn!NoBatch
      /\ UNCHANGED <<mode, turns, drawn, role, gone, first, big, plan, batch, tried, twice>>
      /\ tried = {}
  BY DEF Turn!Begin, Turn!table, Turn!effects, Turn!IInv, Turn!InOrder, Turn!Looping,
         Turn!Remembers
<1>. DEFINE Cold == Turn!Msgs(Turn!Spoken)
            Last == Turn!Msgs({Turn!Newest(Turn!OfRole("user"))})
<1>3. PICK warm \in BOOLEAN :
        /\ warm => Turn!Warm
        /\ turn' = [Turn!NoTurn EXCEPT
             !.prompt = gone, !.prev = IF warm THEN anchor.chain ELSE Nothing,
             !.items = IF warm THEN Last ELSE Cold,
             !.recovery = IF mode = "server" THEN Cold ELSE {}]
        /\ anchor' = IF warm THEN anchor ELSE Nothing
  <2>1. PICK recent \in BOOLEAN : LET warm == Turn!Warm /\ recent IN
          /\ turn' = [Turn!NoTurn EXCEPT
               !.prompt = gone, !.prev = IF warm THEN anchor.chain ELSE Nothing,
               !.items = IF warm THEN Last ELSE Cold,
               !.recovery = IF mode = "server" THEN Cold ELSE {}]
          /\ anchor' = IF warm THEN anchor ELSE Nothing
    BY DEF Turn!Begin
  <2>. WITNESS (Turn!Warm /\ recent) \in BOOLEAN
  <2>. QED  BY <2>1
<1>4. /\ turn'.prev = (IF warm THEN anchor.chain ELSE Nothing)
      /\ turn'.items = (IF warm THEN Last ELSE Cold)
      /\ turn'.recovery = (IF mode = "server" THEN Cold ELSE {})
      /\ turn'.prompt = gone /\ turn'.made = {} /\ turn'.found = {} /\ turn'.results = {}
  BY <1>3 DEF Turn!NoTurn
<1>5. anchor' \in {anchor, Nothing} /\ big' \in BOOLEAN /\ Stored'
  BY <1>1, <1>2, <1>3, UntouchedStored DEF Stored
<1>6. Turn!Spoken' = Turn!Spoken /\ Turn!Spoken \subseteq Nat
  BY <1>1, <1>2, SpokenIs, SpokenWillBe DEF Stored
<1>7. warm => /\ anchor \in Turn!Anchors /\ anchor.chain \in Turn!Chains /\ mode = "server"
              /\ anchor.chain # Nothing /\ Turn!Paired(anchor.chain.view)
              /\ Last \subseteq Turn!Items
  <2>. HAVE warm
  <2>1. anchor \in Turn!Anchors /\ mode = "server"
    BY <1>1, <1>3 DEF Stored, Turn!Warm, Turn!LatestAnchor
  <2>2. anchor.chain \in Turn!Chains /\ anchor.chain # Nothing
    BY <2>1, TurnAssumption DEF Turn!Anchors, Turn!Chains, Turn!Items
  <2>3. Turn!Paired(anchor.chain.view)
    BY <2>1 DEF Turn!Anchors, Turn!Paired
  <2>4. Last \subseteq Turn!Items
    BY <1>3, WarmShows DEF Turn!Msgs, Turn!Items
  <2>. QED  BY <2>1, <2>2, <2>3, <2>4
<1>8. Cold \subseteq Turn!Items /\ Turn!Paired(Cold) /\ Turn!Paired(Last) /\ gone \subseteq Nat
  <2>1. Turn!Paired(Cold) /\ Turn!Paired(Last)
    BY PairedPairs
  <2>2. Cold \subseteq Turn!Items
    BY <1>6, PairsAreItems
  <2>. QED  BY <1>1, <2>1, <2>2 DEF Stored
<1>. HIDE DEF Cold, Last
<1>9. turn' \in Turn!Turns
  <2>1. turn' = [prev |-> turn'.prev, items |-> turn'.items, recovery |-> turn'.recovery,
           prompt |-> gone, iter |-> 0, retries |-> 0, recoveries |-> 0, nudges |-> 0,
           empties |-> 0, compacted |-> FALSE, made |-> {}, found |-> {}, omitted |-> {},
           results |-> {}]
    BY <1>3 DEF Turn!NoTurn
  <2>2. turn'.prev \in Turn!Chains \cup {Nothing} /\ turn'.items \subseteq Turn!Items
        /\ turn'.recovery \subseteq Turn!Items
    BY <1>4, <1>7, <1>8
  <2>. QED  BY <1>8, <2>1, <2>2, NewTurn
<1>10. Turn!View' = IF warm THEN anchor.chain.view \cup Last ELSE Cold
  BY <1>4, <1>7 DEF Turn!View
<1>11. Turn!Paired(Turn!View') /\ Turn!Paired(turn'.recovery)
  <2>1. Turn!Paired({})
    BY DEF Turn!Paired
  <2>2. turn'.recovery = Cold \/ turn'.recovery = {}
    BY <1>4
  <2>3. Turn!Paired(turn'.recovery)
    BY <1>8, <2>1, <2>2
  <2>4. CASE warm
    BY <1>7, <1>8, <1>10, <2>3, <2>4, PairedUnion
  <2>5. CASE ~warm
    BY <1>8, <1>10, <2>3, <2>5
  <2>. QED  BY <2>3, <2>4, <2>5
<1>12. Turn!Complete(Turn!View)' /\ (mode' = "server" => Turn!Complete(turn.recovery)')
  <2>1. Turn!PairsOf((turn'.made \cup turn'.found) \ turn'.omitted) = {}
    BY <1>4 DEF Turn!PairsOf
  <2>2. ~Unprompted => \A i \in Turn!Spoken : <<"msg", i>> \in Cold
    BY DEF Cold, Turn!Msgs
  <2>3. ~Unprompted => \A i \in Turn!Spoken : <<"msg", i>> \in Turn!View'
    BY <1>3, <1>10, <2>2, WarmShows DEF Last
  <2>. QED  BY <1>2, <1>4, <1>6, <2>1, <2>2, <2>3 DEF Turn!Complete
<1>13. Turn!Shown'
  <2>1. Turn!IsFiniteSet(turn'.made \cup turn'.found)
    BY <1>4, TurnSets, FS_EmptySet
  <2>. QED  BY <1>2, <1>4, <1>5, <1>7, <1>11, <1>12, <2>1 DEF Turn!Shown, Stored
<1>. QED  BY <1>2, <1>5, <1>6, <1>9, <1>13, NextRequest

\* A step of the loop that leaves the request as it is.
LEMMA SameView ==
  ASSUME Turn!IInv, Turn!Looping, phase' \in {"ready", "model", "tools", "compact"},
         UNCHANGED <<mode, turns, drawn, role, gone, first, anchor, big>>,
         plan' \in {plan, "active"}, turn' \in Turn!Turns, turn'.prev = turn.prev,
         turn'.items = turn.items, turn'.recovery = turn.recovery, turn'.prompt = turn.prompt,
         turn'.made = turn.made, turn'.found = turn.found, turn'.omitted = turn.omitted,
         batch' \in Turn!Responses, batch'.at \in 1..Len(batch'.calls) + 1,
         Turn!InOrder', Turn!Remembers'
  PROVE  Turn!IInv'
<1>1. Turn!Typed'
  <2>1. plan' \in {"none", "active", "closed"}
    BY DEF Turn!IInv, Turn!Typed, Turn!TypeOK
  <2>2. turn'.iter \in 0..MaxIterations /\ turn'.retries \in 0..MaxRetries
        /\ turn'.recoveries \in 0..MaxRecoveries
    BY DEF Turn!Turns
  <2>3. Turn!TypeOK'
    BY <2>1, <2>2 DEF Turn!IInv, Turn!Typed, Turn!TypeOK, Turn!Messages
  <2>. QED  BY <2>3 DEF Turn!IInv, Turn!Typed, Turn!Messages
<1>2. Turn!Spoken' = Turn!Spoken /\ Turn!View' = Turn!View
  BY SpokenIs, SpokenWillBe DEF Turn!View
<1>3. Turn!PlansAreClosed'
  BY DEF Turn!PlansAreClosed
<1>4. Turn!Anchored'
  BY <1>2 DEF Turn!IInv, Turn!Anchored, Turn!Looping
<1>5. Turn!Shown'
  BY <1>2 DEF Turn!IInv, Turn!Shown, Turn!Complete, Turn!Looping
<1>. QED  BY <1>1, <1>3, <1>4, <1>5 DEF Turn!IInv

\* The request shows what it did, and the calls C with their outputs.
LEMMA MoreView ==
  ASSUME Turn!IInv, Turn!Looping, phase' = "ready", UNCHANGED <<mode, gone, first>>,
         Turn!Spoken' = Turn!Spoken, anchor' \in {anchor, Nothing},
         turn'.prompt = turn.prompt, turn'.omitted = turn.omitted,
         mode # "server" => turn'.prev = Nothing,
         NEW C, IsFiniteSet(C), turn'.made \cup turn'.found = (turn.made \cup turn.found) \cup C,
         Turn!View' = Turn!View \cup Turn!PairsOf(C),
         turn'.recovery = (IF mode = "server" THEN turn.recovery \cup Turn!PairsOf(C)
                                              ELSE turn.recovery)
  PROVE  Turn!Shown'
<1>. DEFINE O == (turn.made \cup turn.found) \ turn.omitted
<1>1. /\ Turn!Paired(Turn!View) /\ Turn!Paired(turn.recovery) /\ gone \subseteq turn.prompt
      /\ Turn!PairsOf(O) \subseteq Turn!View /\ Turn!IsFiniteSet(turn.made \cup turn.found)
      /\ ~Unprompted => \A i \in Turn!Spoken : i <= first => <<"msg", i>> \in Turn!View
      /\ mode = "server" =>
           /\ Turn!PairsOf(O) \subseteq turn.recovery
           /\ ~Unprompted => \A i \in Turn!Spoken : i <= first => <<"msg", i>> \in turn.recovery
      /\ mode # "server" => anchor = Nothing
  BY DEF Turn!IInv, Turn!Shown, Turn!Complete
<1>2. Turn!PairsOf((turn'.made \cup turn'.found) \ turn'.omitted)
        \subseteq Turn!PairsOf(O) \cup Turn!PairsOf(C)
  <2>. DEFINE N == (turn'.made \cup turn'.found) \ turn'.omitted
  <2>1. N \subseteq O \cup C
    OBVIOUS
  <2>. HIDE DEF O, N
  <2>2. Turn!PairsOf(N) \subseteq Turn!PairsOf(O) \cup Turn!PairsOf(C)
    <3>1. Turn!PairsOf(N) \subseteq Turn!PairsOf(O \cup C)
      BY <2>1, PairsInclude
    <3>2. Turn!PairsOf(O \cup C) = Turn!PairsOf(O) \cup Turn!PairsOf(C)
      BY PairsUnion
    <3>. QED  BY <3>1, <3>2
  <2>. QED  BY <2>2 DEF N
<1>3. Turn!Paired(Turn!View') /\ Turn!Paired(turn'.recovery)
  <2>1. Turn!Paired(Turn!View')
    BY <1>1, PairedPairs, PairedUnion
  <2>2. CASE mode = "server"
    BY <1>1, <2>1, <2>2, PairedPairs, PairedUnion
  <2>3. CASE mode # "server"
    BY <1>1, <2>1, <2>3
  <2>. QED  BY <2>2, <2>3
<1>. HIDE DEF O
<1>4. Turn!Complete(Turn!View)' /\ (mode = "server" => Turn!Complete(turn.recovery)')
  BY <1>1, <1>2 DEF Turn!Complete
<1>5. Turn!IsFiniteSet(turn'.made \cup turn'.found)
  BY <1>1, TurnSets, FS_Union
<1>. QED  BY <1>1, <1>3, <1>4, <1>5 DEF Turn!Shown

LEMMA AgainStep ==
  ASSUME Turn!IInv, phase = "model", NEW t \in Turn!Turns, Turn!Again(t),
         anchor' \in {anchor, Nothing}, t.results = turn.results, Turn!Shown'
  PROVE  Turn!IInv'
<1>1. Stored  BY StoredNow
<1>2. /\ phase' = "ready" /\ turn' = t
      /\ UNCHANGED <<mode, turns, drawn, role, gone, first, big, plan, batch, tried, twice>>
  BY DEF Turn!Again, Turn!table, Turn!effects
<1>3. Stored' /\ Turn!Spoken' = Turn!Spoken
  BY <1>1, <1>2, UntouchedStored, SpokenIs, SpokenWillBe DEF Stored
<1>4. Turn!Looping /\ batch = Turn!NoBatch /\ \A c \in tried : c \in turn.results
  <2>1. Turn!Looping /\ batch = Turn!NoBatch /\ ~batch.out
    BY DEF Turn!IInv, Turn!InOrder, Turn!Looping, Turn!NoBatch
  <2>. QED  BY <2>1 DEF Turn!IInv, Turn!Remembers
<1>. QED  BY <1>2, <1>3, <1>4, NextRequest

\* A request is sent.
LEMMA SendStep == ASSUME Turn!IInv, Turn!Send PROVE Turn!IInv'
<1>1. CASE /\ turn.iter < MaxIterations /\ phase' = "model"
           /\ UNCHANGED <<mode, turns, Turn!table, first, anchor, big, plan, turn, batch,
                          Turn!effects>>
  <2>1. /\ UNCHANGED <<mode, turns, drawn, role, gone, first, anchor, big, plan, turn, batch, tried,
                       twice>>
        /\ phase = "ready" /\ Turn!Looping
    BY <1>1 DEF Turn!Send, Turn!table, Turn!effects, Turn!Looping
  <2>2. turn' \in Turn!Turns /\ batch' \in Turn!Responses /\ batch'.at \in 1..Len(batch'.calls) + 1
    BY <2>1 DEF Turn!IInv, Turn!Typed, Turn!TypeOK
  <2>3. Turn!InOrder' /\ Turn!Remembers'
    BY <1>1, <2>1 DEF Turn!IInv, Turn!InOrder, Turn!Remembers, Turn!Looping, Turn!At, Turn!NoBatch
  <2>. QED  BY <1>1, <2>1, <2>2, <2>3, SameView
<1>. QED  BY <1>1, InterruptedStep, FailsStep DEF Turn!Send

LEMMA InterruptStep ==
  ASSUME Turn!IInv, Turn!Interrupt \/ Turn!ToolInterrupted \/ Turn!GiveUp \/ Turn!FastPath
                    \/ Turn!Counted
  PROVE  Turn!IInv'
  BY InterruptedStep, FailsStep, ThrowsStep
  DEF Turn!Interrupt, Turn!ToolInterrupted, Turn!GiveUp, Turn!FastPath, Turn!Counted

\* The response is asked for again, or goes on with a chain of what was shown.
LEMMA ModelState ==
  ASSUME Turn!IInv, phase = "model"
  PROVE  /\ Turn!Looping /\ turn \in Turn!Turns /\ turn.iter < MaxIterations
         /\ turn.iter + 1 \in 0..MaxIterations
         /\ batch = Turn!NoBatch /\ Turn!View \subseteq Turn!Items
         /\ mode # "server" => turn.prev = Nothing
         /\ Turn!Chain(Turn!View) \in Turn!Chains /\ Turn!Chain(Turn!View) # Nothing
         /\ Turn!Chain(Turn!View).view = Turn!View /\ Turn!PairsOf({}) = {}
<1>1. /\ Turn!Looping /\ turn \in Turn!Turns /\ turn.iter < MaxIterations /\ batch = Turn!NoBatch
      /\ mode # "server" => turn.prev = Nothing
  BY DEF Turn!IInv, Turn!Typed, Turn!InOrder, Turn!Looping, Turn!Shown
<1>2. turn.iter + 1 \in 0..MaxIterations
  BY <1>1, TurnAssumption DEF Turn!Turns
<1>3. Turn!View \subseteq Turn!Items
  BY <1>1 DEF Turn!View, Turn!Turns, Turn!Chains
<1>4. Turn!Chain(Turn!View) \in Turn!Chains /\ Turn!Chain(Turn!View).view = Turn!View
  BY <1>3 DEF Turn!Chain, Turn!Chains
<1>5. Turn!Chain(Turn!View) # Nothing
  BY <1>4, TurnAssumption
<1>6. Turn!PairsOf({}) = {}
  BY DEF Turn!PairsOf
<1>. QED  BY <1>1, <1>2, <1>3, <1>4, <1>5, <1>6

\* The same view again.
LEMMA SameAgain ==
  ASSUME Turn!IInv, phase = "model", NEW t \in Turn!Turns, Turn!Again(t), anchor' = anchor,
         t.results = turn.results, t.made = turn.made, t.found = turn.found,
         t.omitted = turn.omitted, t.prompt = turn.prompt, t.recovery = turn.recovery,
         \/ t.prev = turn.prev /\ t.items = turn.items
         \/ mode = "server" /\ t.prev = Turn!Chain(Turn!View) /\ t.items = {}
  PROVE  Turn!IInv'
<1>1. /\ phase' = "ready" /\ turn' = t /\ UNCHANGED <<mode, drawn, role, gone, first>>
  BY DEF Turn!Again, Turn!table
<1>2. Turn!Spoken' = Turn!Spoken
  BY <1>1, SpokenIs, SpokenWillBe
<1>3. Turn!View' = Turn!View /\ (mode # "server" => turn'.prev = Nothing)
  BY <1>1, ModelState DEF Turn!View
<1>4. Turn!Shown'
  <2>. DEFINE C == {}
  <2>1. turn'.made \cup turn'.found = (turn.made \cup turn.found) \cup C
    BY <1>1
  <2>2. Turn!PairsOf(C) = {} /\ Turn!Looping /\ IsFiniteSet(C)
    BY ModelState, FS_EmptySet
  <2>. HIDE DEF C
  <2>3. Turn!View' = Turn!View \cup Turn!PairsOf(C)
        /\ turn'.recovery = (IF mode = "server" THEN turn.recovery \cup Turn!PairsOf(C)
                                                ELSE turn.recovery)
    BY <1>1, <1>3, <2>2
  <2>. QED  BY <1>1, <1>2, <1>3, <2>1, <2>2, <2>3, MoreView
<1>. QED  BY <1>4, AgainStep

LEMMA RetryStep == ASSUME Turn!IInv, Turn!Retry PROVE Turn!IInv'
<1>. DEFINE t == [turn EXCEPT !.retries = @ + 1]
<1>1. phase = "model" /\ Turn!Again(t) /\ anchor' = anchor /\ turn.retries < MaxRetries
  BY DEF Turn!Retry, Turn!MayRetry
<1>2. turn \in Turn!Turns
  BY <1>1, ModelState
<1>3. t \in Turn!Turns /\ t.results = turn.results /\ t.made = turn.made /\ t.found = turn.found
      /\ t.omitted = turn.omitted /\ t.prompt = turn.prompt /\ t.recovery = turn.recovery
      /\ t.prev = turn.prev /\ t.items = turn.items
  <2>1. turn.retries + 1 \in 0..MaxRetries
    BY <1>1, <1>2, TurnAssumption DEF Turn!Turns
  <2>. QED  BY <1>2, <2>1 DEF Turn!Turns
<1>. HIDE DEF t
<1>. QED  BY <1>1, <1>3, SameAgain

LEMMA EmptyStep == ASSUME Turn!IInv, Turn!Empty PROVE Turn!IInv'
<1>1. phase = "model"
  BY DEF Turn!Empty
<1>2. turn \in Turn!Turns /\ turn.iter + 1 \in 0..MaxIterations
      /\ Turn!Chain(Turn!View) \in Turn!Chains
  BY <1>1, ModelState
<1>3. ASSUME NEW t, t = [turn EXCEPT !.iter = @ + 1], Turn!Again(t), anchor' = anchor
      PROVE Turn!IInv'
  <2>1. t \in Turn!Turns /\ t.results = turn.results /\ t.made = turn.made
        /\ t.found = turn.found /\ t.omitted = turn.omitted /\ t.prompt = turn.prompt
        /\ t.recovery = turn.recovery /\ t.prev = turn.prev /\ t.items = turn.items
    BY <1>2, <1>3 DEF Turn!Turns
  <2>. QED  BY <1>1, <1>3, <2>1, SameAgain
<1>4. ASSUME NEW t, t = [turn EXCEPT !.iter = @ + 1, !.empties = @ + 1,
                           !.prev = Turn!Chain(Turn!View), !.items = {}],
             turn.empties < MaxEmpty, mode = "server", Turn!Again(t), anchor' = anchor
      PROVE Turn!IInv'
  <2>1. t \in Turn!Turns /\ t.results = turn.results /\ t.made = turn.made
        /\ t.found = turn.found /\ t.omitted = turn.omitted /\ t.prompt = turn.prompt
        /\ t.recovery = turn.recovery /\ t.prev = Turn!Chain(Turn!View) /\ t.items = {}
    <3>1. turn.empties + 1 \in 0..MaxEmpty
      BY <1>2, <1>4, TurnAssumption DEF Turn!Turns
    <3>. QED  BY <1>2, <1>4, <3>1 DEF Turn!Turns
  <2>. QED  BY <1>1, <1>4, <2>1, SameAgain
<1>. QED  BY <1>3, <1>4, FailsStep DEF Turn!Empty

LEMMA NudgeStep == ASSUME Turn!IInv, Turn!Nudge PROVE Turn!IInv'
<1>1. phase = "model" /\ turn.nudges < MaxNudges /\ anchor' = anchor
  BY DEF Turn!Nudge
<1>2. turn \in Turn!Turns /\ turn.iter + 1 \in 0..MaxIterations
      /\ Turn!Chain(Turn!View) \in Turn!Chains
  BY <1>1, ModelState
<1>3. CASE mode # "server"
  <2>. DEFINE t == [turn EXCEPT !.iter = @ + 1, !.nudges = @ + 1]
  <2>1. Turn!Again(t)
    BY <1>3 DEF Turn!Nudge
  <2>2. t \in Turn!Turns /\ t.results = turn.results /\ t.made = turn.made
        /\ t.found = turn.found /\ t.omitted = turn.omitted /\ t.prompt = turn.prompt
        /\ t.recovery = turn.recovery /\ t.prev = turn.prev /\ t.items = turn.items
    <3>1. turn.nudges + 1 \in 0..MaxNudges
      BY <1>1, <1>2, TurnAssumption DEF Turn!Turns
    <3>. QED  BY <1>2, <3>1 DEF Turn!Turns
  <2>. HIDE DEF t
  <2>. QED  BY <1>1, <2>1, <2>2, SameAgain
<1>4. CASE mode = "server"
  <2>. DEFINE t == [turn EXCEPT !.iter = @ + 1, !.nudges = @ + 1,
                      !.prev = Turn!Chain(Turn!View), !.items = {}]
  <2>1. Turn!Again(t)
    BY <1>4 DEF Turn!Nudge
  <2>2. t \in Turn!Turns /\ t.results = turn.results /\ t.made = turn.made
        /\ t.found = turn.found /\ t.omitted = turn.omitted /\ t.prompt = turn.prompt
        /\ t.recovery = turn.recovery /\ t.prev = Turn!Chain(Turn!View) /\ t.items = {}
    <3>1. turn.nudges + 1 \in 0..MaxNudges
      BY <1>1, <1>2, TurnAssumption DEF Turn!Turns
    <3>. QED  BY <1>2, <3>1 DEF Turn!Turns
  <2>. HIDE DEF t
  <2>. QED  BY <1>1, <1>4, <2>1, <2>2, SameAgain
<1>. QED  BY <1>3, <1>4

\* A lost chain: the turn goes on from what it has kept of it.
LEMMA RecoverStep == ASSUME Turn!IInv, Turn!Recover PROVE Turn!IInv'
<1>. DEFINE R == Turn!Recovered
            t == [turn EXCEPT !.recoveries = @ + 1, !.iter = @ + 1, !.prev = Nothing,
                              !.items = R, !.recovery = R]
<1>1. Stored  BY StoredNow
<1>2. phase = "model" /\ turn.prev # Nothing /\ turn.recoveries < MaxRecoveries
      /\ Turn!Again(t) /\ anchor' = Nothing
  BY DEF Turn!Recover
<1>3. turn \in Turn!Turns /\ turn.iter + 1 \in 0..MaxIterations /\ mode = "server"
      /\ Turn!Looping
  BY <1>2, ModelState
<1>4. /\ Turn!IsFiniteSet(turn.made \cup turn.found) /\ Turn!Paired(turn.recovery)
      /\ gone \subseteq turn.prompt /\ Turn!Complete(turn.recovery)
  BY <1>3 DEF Turn!IInv, Turn!Shown
<1>5. Turn!Spoken \subseteq Nat
  BY <1>1, SpokenIs DEF Stored
<1>6. R \subseteq Turn!Items /\ Turn!Paired(R) /\ Turn!Complete(R)
  <2>1. CASE turn.recovery # {}
    BY <1>3, <1>4, <2>1 DEF Turn!Recovered, Turn!Turns
  <2>2. CASE turn.recovery = {}
    <3>1. R = Turn!Msgs(Turn!Spoken)
      BY <2>2 DEF Turn!Recovered
    <3>2. \A i \in Turn!Spoken : <<"msg", i>> \in R
      BY <3>1 DEF Turn!Msgs
    <3>3. Turn!Complete(R)
      BY <1>4, <2>2, <3>2 DEF Turn!Complete
    <3>. HIDE DEF R
    <3>4. R \subseteq Turn!Items /\ Turn!Paired(R)
      BY <1>5, <3>1, PairedPairs, PairsAreItems
    <3>. QED  BY <3>3, <3>4
  <2>. QED  BY <2>1, <2>2
<1>. HIDE DEF R
<1>7. t \in Turn!Turns /\ t.results = turn.results
  <2>1. turn.recoveries + 1 \in 0..MaxRecoveries
    BY <1>2, <1>3, TurnAssumption DEF Turn!Turns
  <2>. QED  BY <1>3, <1>6, <2>1 DEF Turn!Turns
<1>8. /\ t.prev = Nothing /\ t.items = R /\ t.recovery = R /\ t.made = turn.made
      /\ t.found = turn.found /\ t.omitted = turn.omitted /\ t.prompt = turn.prompt
  BY <1>3 DEF Turn!Turns
<1>. HIDE DEF t
<1>9. /\ phase' = "ready" /\ turn' = t /\ UNCHANGED <<mode, drawn, role, gone, first>>
  BY <1>2 DEF Turn!Again, Turn!table
<1>10. Turn!Spoken' = Turn!Spoken /\ Turn!View' = R
  BY <1>8, <1>9, SpokenIs, SpokenWillBe DEF Turn!View
<1>11. Turn!Complete(Turn!View)' /\ Turn!Complete(turn.recovery)'
  BY <1>6, <1>8, <1>9, <1>10 DEF Turn!Complete
<1>12. Turn!Paired(Turn!View') /\ Turn!Paired(turn'.recovery)
       /\ Turn!IsFiniteSet(turn'.made \cup turn'.found) /\ gone' \subseteq turn'.prompt
  BY <1>4, <1>6, <1>8, <1>9, <1>10
<1>13. Turn!Shown'
  BY <1>3, <1>9, <1>11, <1>12 DEF Turn!Shown
<1>. QED  BY <1>2, <1>7, <1>13, AgainStep

\* An answer ends the turn, and its chain shows the conversation.
LEMMA AnswersStep == ASSUME Turn!IInv, Turn!Answer PROVE Turn!IInv'
<1>. DEFINE c == IF mode = "server" THEN Turn!Chain(Turn!View) ELSE Nothing
<1>1. Stored  BY StoredNow
<1>2. /\ phase = "model" /\ Turn!Over /\ Turn!Says(c) /\ big' \in BOOLEAN
      /\ UNCHANGED <<mode, first>>
  BY DEF Turn!Answer, Turn!Over
<1>3. ~Unprompted => \A i \in Turn!Spoken : <<"msg", i>> \in Turn!View
  BY <1>2 DEF Turn!IInv, Turn!Anchored, Turn!Shown, Turn!Complete, Turn!Looping
<1>4. c # Nothing => /\ mode = "server" /\ c \in Turn!Chains
                     /\ ~Unprompted => \A i \in Turn!Spoken : <<"msg", i>> \in c.view
  BY <1>2, <1>3, ModelState
<1>. HIDE DEF c
<1>5. Stored'
  BY <1>1, <1>2, <1>4, SaysStored
<1>. QED  BY <1>2, <1>5, EndsStep

\* The numbers of new calls.
LEMMA NewNumbers ==
  ASSUME Turn!IInv, Turn!Looping, NEW n \in Nat
  PROVE  Turn!NewCalls(n) \subseteq Nat /\ IsFiniteSet(Turn!NewCalls(n))
<1>. DEFINE k == Cardinality(turn.made \cup turn.found)
<1>1. IsFiniteSet(turn.made \cup turn.found)
  BY TurnSets DEF Turn!IInv, Turn!Shown
<1>2. k \in Nat
  BY <1>1, FS_CardinalityType
<1>3. Turn!NewCalls(n) = {k + i : i \in 1..n}
  BY TurnSets DEF Turn!NewCalls
<1>. HIDE DEF k
<1>4. Turn!NewCalls(n) \subseteq Nat /\ Turn!NewCalls(n) \subseteq (k + 1)..(k + n)
  BY <1>2, <1>3
<1>5. IsFiniteSet((k + 1)..(k + n))
  BY <1>2, FS_Interval
<1>. QED  BY <1>4, <1>5, FS_Subset

\* The outputs of calls, and the calls, join what was shown.
LEMMA FedTurn ==
  ASSUME Turn!IInv, Turn!Looping, NEW C \in SUBSET Nat, NEW f, f = Turn!Fed(turn, C)
  PROVE  /\ f \in Turn!Turns /\ f.iter = turn.iter /\ f.made = turn.made /\ f.found = turn.found
         /\ f.omitted = turn.omitted /\ f.results = turn.results /\ f.prompt = turn.prompt
         /\ (IF f.prev = Nothing THEN {} ELSE f.prev.view) \cup f.items
              = Turn!View \cup Turn!PairsOf(C)
         /\ f.recovery = IF mode = "server" THEN turn.recovery \cup Turn!PairsOf(C)
                                            ELSE turn.recovery
         /\ mode # "server" => f.prev = Nothing
<1>. DEFINE calls == {<<"call", c>> : c \in C}
            outs == {<<"out", c>> : c \in C}
            ch == Turn!Chain(Turn!View \cup calls)
<1>1. turn \in Turn!Turns /\ (mode # "server" => turn.prev = Nothing)
  BY DEF Turn!IInv, Turn!Typed, Turn!Shown
<1>2. Turn!PairsOf(C) = calls \cup outs /\ calls \subseteq Turn!Items /\ outs \subseteq Turn!Items
  BY DEF Turn!PairsOf, Turn!Items
<1>3. Turn!View \subseteq Turn!Items
  BY <1>1 DEF Turn!View, Turn!Turns, Turn!Chains
<1>4. ch \in Turn!Chains /\ ch.view = Turn!View \cup calls /\ ch # Nothing
  <2>1. ch \in Turn!Chains /\ ch.view = Turn!View \cup calls
    BY <1>2, <1>3 DEF Turn!Chain, Turn!Chains
  <2>. QED  BY <2>1, TurnAssumption
<1>5. CASE mode = "server"
  <2>. HIDE DEF calls, outs, ch
  <2>1. f = [turn EXCEPT !.prev = ch, !.items = outs, !.recovery = @ \cup Turn!PairsOf(C)]
    BY <1>5 DEF Turn!Fed, ch, calls, outs
  <2>2. turn.recovery \cup Turn!PairsOf(C) \subseteq Turn!Items
    BY <1>1, <1>2 DEF Turn!Turns
  <2>3. f \in Turn!Turns
    BY <1>1, <1>2, <1>4, <2>1, <2>2 DEF Turn!Turns
  <2>4. /\ f.prev = ch /\ f.items = outs /\ f.recovery = turn.recovery \cup Turn!PairsOf(C)
        /\ f.iter = turn.iter /\ f.made = turn.made /\ f.found = turn.found
        /\ f.omitted = turn.omitted /\ f.results = turn.results /\ f.prompt = turn.prompt
    BY <1>1, <2>1 DEF Turn!Turns
  <2>. QED  BY <1>2, <1>4, <1>5, <2>3, <2>4
<1>6. CASE mode # "server"
  <2>. HIDE DEF calls, outs, ch
  <2>1. f = [turn EXCEPT !.items = @ \cup Turn!PairsOf(C)]
    BY <1>6 DEF Turn!Fed
  <2>2. turn.items \cup Turn!PairsOf(C) \subseteq Turn!Items
    BY <1>1, <1>2 DEF Turn!Turns
  <2>3. f \in Turn!Turns
    BY <1>1, <2>1, <2>2 DEF Turn!Turns
  <2>4. /\ f.prev = turn.prev /\ f.items = turn.items \cup Turn!PairsOf(C)
        /\ f.recovery = turn.recovery
        /\ f.iter = turn.iter /\ f.made = turn.made /\ f.found = turn.found
        /\ f.omitted = turn.omitted /\ f.results = turn.results /\ f.prompt = turn.prompt
    BY <1>1, <2>1 DEF Turn!Turns
  <2>. QED  BY <1>1, <1>6, <2>3, <2>4 DEF Turn!View
<1>. QED  BY <1>5, <1>6

LEMMA SearchStep == ASSUME Turn!IInv, Turn!Search PROVE Turn!IInv'
<1>. DEFINE C == Turn!NewCalls(1)
            f == Turn!Fed(turn, C)
            t == [f EXCEPT !.iter = @ + 1, !.found = @ \cup C]
<1>1. CASE Turn!Again(t) /\ anchor' = anchor
  <2>1. phase = "model" /\ Turn!Looping /\ turn.iter + 1 \in 0..MaxIterations
    BY ModelState DEF Turn!Search
  <2>2. C \subseteq Nat /\ IsFiniteSet(C)
    BY <2>1, NewNumbers
  <2>. HIDE DEF C
  <2>3. /\ f \in Turn!Turns /\ f.iter = turn.iter /\ f.made = turn.made /\ f.found = turn.found
        /\ f.omitted = turn.omitted /\ f.results = turn.results /\ f.prompt = turn.prompt
        /\ (IF f.prev = Nothing THEN {} ELSE f.prev.view) \cup f.items
             = Turn!View \cup Turn!PairsOf(C)
        /\ f.recovery = (IF mode = "server" THEN turn.recovery \cup Turn!PairsOf(C)
                                            ELSE turn.recovery)
        /\ mode # "server" => f.prev = Nothing
    BY <2>1, <2>2, FedTurn
  <2>. HIDE DEF f
  <2>4. f.found \cup C \subseteq Nat
    BY <2>2, <2>3 DEF Turn!Turns
  <2>5. t \in Turn!Turns
    BY <2>1, <2>3, <2>4 DEF Turn!Turns
  <2>6. /\ t.prev = f.prev /\ t.items = f.items /\ t.recovery = f.recovery /\ t.made = turn.made
        /\ t.found = turn.found \cup C /\ t.omitted = turn.omitted /\ t.results = turn.results
        /\ t.prompt = turn.prompt
    BY <2>3 DEF Turn!Turns
  <2>. HIDE DEF t
  <2>7. phase' = "ready" /\ turn' = t /\ UNCHANGED <<mode, drawn, role, gone, first>>
    BY <1>1 DEF Turn!Again, Turn!table
  <2>8. Turn!Spoken' = Turn!Spoken
    BY <2>7, SpokenIs, SpokenWillBe
  <2>9. Turn!View' = Turn!View \cup Turn!PairsOf(C)
    BY <2>3, <2>6, <2>7 DEF Turn!View
  <2>10. turn'.made \cup turn'.found = (turn.made \cup turn.found) \cup C
    BY <2>6, <2>7
  <2>11. Turn!Shown'
    BY <1>1, <2>1, <2>2, <2>3, <2>6, <2>7, <2>8, <2>9, <2>10, MoreView
  <2>. QED  BY <1>1, <2>1, <2>5, <2>6, <2>11, AgainStep
<1>. QED  BY <1>1, FailsStep DEF Turn!Search

\* Calls are taken, or wait for the compaction.
LEMMA CallStep == ASSUME Turn!IInv, Turn!Call PROVE Turn!IInv'
<1>1. phase = "model" /\ Turn!Looping /\ turn \in Turn!Turns /\ turn.iter < MaxIterations
      /\ batch = Turn!NoBatch
  BY ModelState DEF Turn!Call
<1>2. PICK calls \in Batches :
        /\ batch' = [Turn!NoBatch EXCEPT !.calls = calls] /\ phase' \in {"compact", "tools"}
        /\ UNCHANGED <<mode, turns, drawn, role, gone, first, anchor, big, plan, turn, tried, twice>>
  BY DEF Turn!Call, Turn!table, Turn!effects
<1>3. batch' = [calls |-> calls, at |-> 1, out |-> FALSE] /\ calls \in Seq(STRING)
  BY <1>2, TurnAssumption DEF Turn!NoBatch
<1>4. batch' \in Turn!Responses /\ batch'.at \in 1..Len(batch'.calls) + 1
  BY <1>3 DEF Turn!Responses
<1>5. Turn!InOrder'
  BY <1>1, <1>2, <1>3 DEF Turn!InOrder, Turn!Looping
<1>6. Turn!Remembers'
  BY <1>1, <1>2, <1>3 DEF Turn!IInv, Turn!Remembers, Turn!Looping, Turn!NoBatch
<1>. QED  BY <1>1, <1>2, <1>4, <1>5, <1>6, SameView

\* What is compacted is in the summary, what is not is shown, and the calls
\* that are not replayed are told of.
LEMMA CompactStep == ASSUME Turn!IInv, Turn!Compact PROVE Turn!IInv'
<1>1. Stored  BY StoredNow
<1>2. /\ phase = "compact" /\ Turn!Looping /\ turn \in Turn!Turns
      /\ turn.iter + 1 \in 0..MaxIterations /\ turn.iter < MaxIterations /\ ~batch.out
      /\ \A c \in tried : c \in turn.results
  <2>1. /\ phase = "compact" /\ Turn!Looping /\ turn \in Turn!Turns /\ turn.iter < MaxIterations
        /\ ~batch.out /\ \A c \in tried : c \in turn.results
    BY DEF Turn!Compact, Turn!IInv, Turn!Typed, Turn!InOrder, Turn!Remembers, Turn!Looping
  <2>2. turn.iter + 1 \in 0..MaxIterations
    BY <2>1, TurnAssumption DEF Turn!Turns
  <2>. QED  BY <2>1, <2>2
<1>3. ASSUME Turn!Compacts, phase' = "ready", batch' = Turn!NoBatch,
             UNCHANGED <<mode, turns, first, plan, Turn!effects>>,
             NEW k, NEW replayed, replayed = {c \in turn.made : c > k},
             NEW items, items = Turn!Msgs({i \in DOMAIN role' : role'[i] # "tool"})
                                  \cup Turn!PairsOf(replayed \cup turn.found),
             turn' = [turn EXCEPT
               !.compacted = TRUE, !.iter = @ + 1, !.prompt = Turn!NewPrompt,
               !.prev = Nothing, !.items = items,
               !.recovery = IF mode = "server" THEN items ELSE {},
               !.omitted = turn.made \ replayed]
      PROVE Turn!IInv'
  <2>1. Thinned
    BY <1>1, <1>3, CompactsThins
  <2>2. Stored' /\ Turn!Spoken' \subseteq Turn!Spoken
    BY <1>1, <2>1, ThinnedStored
  <2>3. {i \in DOMAIN role' : role'[i] # "tool"} = Turn!Spoken'
    BY <2>2, SpokenWillBe DEF Stored, Turn!Roles
  <2>4. Turn!Spoken' \subseteq Nat /\ replayed \cup turn.found \subseteq Nat
        /\ turn.made \ replayed \subseteq Nat /\ gone' \subseteq Nat
    BY <1>2, <1>3, <2>2, SpokenWillBe DEF Stored, Turn!Turns
  <2>5. items \subseteq Turn!Items /\ Turn!Paired(items)
    <3>1. Turn!Msgs(Turn!Spoken') \subseteq Turn!Items
          /\ Turn!PairsOf(replayed \cup turn.found) \subseteq Turn!Items
      BY <2>4, PairsAreItems
    <3>2. Turn!Paired(Turn!Msgs(Turn!Spoken')) /\ Turn!Paired(Turn!PairsOf(replayed \cup turn.found))
      BY PairedPairs
    <3>3. items = Turn!Msgs(Turn!Spoken') \cup Turn!PairsOf(replayed \cup turn.found)
      BY <1>3, <2>3
    <3>. QED  BY <3>1, <3>2, <3>3, PairedUnion
  <2>6. turn' \in Turn!Turns
    BY <1>2, <1>3, <2>4, <2>5 DEF Turn!Turns, Turn!NewPrompt
  <2>7. /\ turn'.prev = Nothing /\ turn'.items = items /\ turn'.prompt = gone'
        /\ turn'.recovery = (IF mode = "server" THEN items ELSE {})
        /\ turn'.made = turn.made /\ turn'.found = turn.found
        /\ turn'.omitted = turn.made \ replayed /\ turn'.results = turn.results
    BY <1>2, <1>3 DEF Turn!Turns, Turn!NewPrompt
  <2>8. Turn!View' = items
    BY <2>7 DEF Turn!View
  <2>9. Turn!Complete(items)'
    <3>1. \A i \in Turn!Spoken' : <<"msg", i>> \in items
      BY <1>3, <2>3 DEF Turn!Msgs
    <3>. DEFINE N == (turn'.made \cup turn'.found) \ turn'.omitted
    <3>2. N \subseteq replayed \cup turn.found
      BY <1>3, <2>7
    <3>3. Turn!PairsOf(N) \subseteq items
      <4>. HIDE DEF N
      <4>1. Turn!PairsOf(N) \subseteq Turn!PairsOf(replayed \cup turn.found)
        BY <3>2, PairsInclude
      <4>. QED  BY <1>3, <4>1
    <3>4. (~Unprompted => \A i \in Turn!Spoken' : i <= first' => <<"msg", i>> \in items)
          /\ Turn!PairsOf(N) \subseteq items
      BY <3>1, <3>3
    <3>. QED  BY <2>7, <2>8, <3>4 DEF Turn!Complete
  <2>10. Turn!Paired(turn'.recovery) /\ Turn!IsFiniteSet(turn'.made \cup turn'.found)
    <3>1. Turn!Paired({})
      BY DEF Turn!Paired
    <3>2. Turn!Paired(turn'.recovery)
      BY <2>5, <2>7, <3>1
    <3>3. Turn!IsFiniteSet(turn'.made \cup turn'.found)
      BY <1>2, <2>7 DEF Turn!IInv, Turn!Shown
    <3>. QED  BY <3>2, <3>3
  <2>11. Turn!Shown'
    <3>1. mode' # "server" => (anchor' = Nothing /\ turn'.prev = Nothing)
      BY <2>2, <2>7 DEF Stored
    <3>2. Turn!Paired(Turn!View')
      BY <2>5, <2>8
    <3>3. Turn!Complete(Turn!View)' /\ (mode' = "server" => Turn!Complete(turn.recovery)')
      BY <1>3, <2>7, <2>8, <2>9 DEF Turn!Complete
    <3>4. gone' \subseteq turn'.prompt
      BY <2>7
    <3>. QED  BY <2>10, <3>1, <3>2, <3>3, <3>4 DEF Turn!Shown
  <2>. QED  BY <1>2, <1>3, <2>2, <2>6, <2>7, <2>11, NextRequest DEF Turn!effects
<1>4. CASE /\ phase' = "tools" /\ turn' = [turn EXCEPT !.compacted = TRUE]
           /\ UNCHANGED <<mode, turns, Turn!table, first, anchor, big, plan, batch, Turn!effects>>
  <2>1. UNCHANGED <<mode, turns, drawn, role, gone, first, anchor, big, plan, batch, tried, twice>>
    BY <1>4 DEF Turn!table, Turn!effects
  <2>2. /\ turn' \in Turn!Turns /\ turn'.prev = turn.prev /\ turn'.items = turn.items
        /\ turn'.recovery = turn.recovery /\ turn'.prompt = turn.prompt
        /\ turn'.made = turn.made /\ turn'.found = turn.found /\ turn'.omitted = turn.omitted
        /\ turn'.results = turn.results /\ turn'.iter = turn.iter
    BY <1>2, <1>4 DEF Turn!Turns
  <2>3. batch' \in Turn!Responses /\ batch'.at \in 1..Len(batch'.calls) + 1
    BY <2>1 DEF Turn!IInv, Turn!Typed, Turn!TypeOK
  <2>4. Turn!InOrder'
    BY <1>2, <1>4, <2>1, <2>2 DEF Turn!InOrder, Turn!Looping
  <2>5. Turn!Remembers'
    BY <1>2, <1>4, <2>1, <2>2 DEF Turn!IInv, Turn!Remembers, Turn!Looping
  <2>. QED  BY <1>2, <1>4, <2>1, <2>2, <2>3, <2>4, <2>5, SameView
<1>5. ASSUME Turn!Compacts, phase' = "ready", batch' = Turn!NoBatch,
             UNCHANGED <<mode, turns, first, plan, Turn!effects>>, NEW k \in {0} \cup turn.made,
             LET replayed == {c \in turn.made : c > k}
                 items == Turn!Msgs({i \in DOMAIN role' : role'[i] # "tool"})
                            \cup Turn!PairsOf(replayed \cup turn.found)
             IN turn' = [turn EXCEPT
                  !.compacted = TRUE, !.iter = @ + 1, !.prompt = Turn!NewPrompt,
                  !.prev = Nothing, !.items = items,
                  !.recovery = IF mode = "server" THEN items ELSE {},
                  !.omitted = turn.made \ replayed]
      PROVE Turn!IInv'
  BY <1>3, <1>5
<1>. QED  BY <1>4, <1>5, InterruptedStep DEF Turn!Compact

\* The tool steps of a response.
LEMMA ToolState ==
  ASSUME Turn!IInv, Turn!Calling
  PROVE  /\ phase = "tools" /\ Turn!Looping /\ turn \in Turn!Turns /\ turn.iter < MaxIterations
         /\ batch \in Turn!Responses /\ batch.at \in 1..Len(batch.calls) /\ Turn!At \in STRING
         /\ twice = {} /\ Turn!Read \notin tried
         /\ \A c \in tried : c \in turn.results \/ (batch.out /\ c = Turn!At)
  BY DEF Turn!Calling, Turn!IInv, Turn!Typed, Turn!TypeOK, Turn!InOrder, Turn!Remembers,
         Turn!Looping, Turn!At, Turn!Responses

LEMMA ToolStep ==
  ASSUME Turn!IInv, Turn!Calling, Turn!Same, NEW out \in BOOLEAN, Turn!Next1(out),
         plan' \in {plan, "active"},
         turn' = turn \/ turn' = [turn EXCEPT !.results = IF Turn!At = Turn!Read THEN @
                                                        ELSE @ \cup {Turn!At}],
         twice' = {}, Turn!Read \notin tried',
         \A c \in tried' : c \in turn'.results \/ (out /\ c = Turn!At)
  PROVE  Turn!IInv'
<1>1. /\ phase = "tools" /\ Turn!Looping /\ turn \in Turn!Turns /\ turn.iter < MaxIterations
      /\ batch \in Turn!Responses /\ batch.at \in 1..Len(batch.calls) /\ Turn!At \in STRING
      /\ twice = {}
  BY ToolState
<1>2. UNCHANGED <<mode, phase, turns, drawn, role, gone, first, anchor, big>>
  BY DEF Turn!Same, Turn!table
<1>3. /\ turn' \in Turn!Turns /\ turn'.prev = turn.prev /\ turn'.items = turn.items
      /\ turn'.recovery = turn.recovery /\ turn'.prompt = turn.prompt
      /\ turn'.made = turn.made /\ turn'.found = turn.found /\ turn'.omitted = turn.omitted
      /\ turn'.iter = turn.iter
  BY <1>1 DEF Turn!Turns
<1>4. batch' = [batch EXCEPT !.at = IF out THEN @ ELSE @ + 1, !.out = out]
  BY DEF Turn!Next1
<1>5. /\ batch' \in Turn!Responses /\ batch'.calls = batch.calls /\ batch'.out = out
      /\ batch'.at = IF out THEN batch.at ELSE batch.at + 1
  <2>1. batch.at \in Nat /\ batch.at + 1 \in Nat
    BY <1>1 DEF Turn!Responses
  <2>2. CASE out
    BY <1>1, <1>4, <2>1, <2>2 DEF Turn!Responses
  <2>3. CASE ~out
    <3>1. batch' = [batch EXCEPT !.at = batch.at + 1, !.out = out]
      BY <1>1, <1>4, <2>3 DEF Turn!Responses
    <3>. QED  BY <1>1, <2>1, <2>3, <3>1 DEF Turn!Responses
  <2>. QED  BY <2>2, <2>3
<1>6. Len(batch.calls) \in Nat
  BY <1>1 DEF Turn!Responses
<1>7. batch'.at \in 1..Len(batch'.calls) + 1 /\ (out => batch'.at <= Len(batch'.calls))
  BY <1>1, <1>5, <1>6
<1>8. Turn!InOrder'
  BY <1>1, <1>2, <1>3, <1>5, <1>7 DEF Turn!InOrder, Turn!Looping
<1>9. out => Turn!At' = Turn!At
  BY <1>5 DEF Turn!At
<1>10. Turn!Remembers'
  BY <1>1, <1>2, <1>5, <1>9 DEF Turn!Remembers
<1>. QED  BY <1>1, <1>2, <1>3, <1>5, <1>7, <1>8, <1>10, SameView

LEMMA ReuseStep == ASSUME Turn!IInv, Turn!Reuse PROVE Turn!IInv'
<1>1. /\ Turn!Calling /\ Turn!Same /\ Turn!Next1(FALSE) /\ ~batch.out
      /\ UNCHANGED <<turn, plan, tried, twice>>
  BY DEF Turn!Reuse
<1>. QED  BY <1>1, ToolState, ToolStep

LEMMA RefusedStep == ASSUME Turn!IInv, Turn!Refused PROVE Turn!IInv'
<1>1. /\ Turn!Calling /\ Turn!Same /\ Turn!Next1(FALSE) /\ ~batch.out
      /\ UNCHANGED <<plan, tried, twice>>
      /\ turn' = [turn EXCEPT !.results = IF Turn!At = Turn!Read THEN @ ELSE @ \cup {Turn!At}]
  BY DEF Turn!Refused, Turn!effects
<1>2. turn.results \subseteq turn'.results
  BY <1>1, ToolState DEF Turn!Turns
<1>. QED  BY <1>1, <1>2, ToolState, ToolStep

LEMMA DispatchStep == ASSUME Turn!IInv, Turn!Dispatch PROVE Turn!IInv'
<1>1. /\ Turn!Calling /\ Turn!Same /\ Turn!Next1(TRUE) /\ ~batch.out /\ UNCHANGED <<turn, plan>>
      /\ Turn!At = Turn!Read \/ Turn!At \notin turn.results
      /\ tried' = IF Turn!At = Turn!Read THEN tried ELSE tried \cup {Turn!At}
      /\ twice' = IF Turn!At \in tried THEN twice \cup {Turn!At} ELSE twice
  BY DEF Turn!Dispatch, Turn!Remembered
<1>2. /\ twice = {} /\ Turn!Read \notin tried
      /\ \A c \in tried : c \in turn.results \/ (batch.out /\ c = Turn!At)
  BY <1>1, ToolState
<1>3. Turn!At \notin tried
  BY <1>1, <1>2
<1>4. twice' = {} /\ Turn!Read \notin tried' /\ plan' \in {plan, "active"} /\ turn' = turn
  BY <1>1, <1>2, <1>3
<1>5. \A c \in tried' : c \in turn'.results \/ (TRUE /\ c = Turn!At)
  BY <1>1, <1>2
<1>. QED  BY <1>1, <1>4, <1>5, ToolStep

LEMMA ReturnStep == ASSUME Turn!IInv, Turn!Return PROVE Turn!IInv'
<1>1. /\ Turn!Calling /\ Turn!Same /\ Turn!Next1(FALSE) /\ plan' \in {plan, "active"}
      /\ UNCHANGED <<tried, twice>>
      /\ turn' = [turn EXCEPT !.results = IF Turn!At = Turn!Read THEN @ ELSE @ \cup {Turn!At}]
  BY DEF Turn!Return, Turn!effects
<1>2. turn'.results = IF Turn!At = Turn!Read THEN turn.results
                                            ELSE turn.results \cup {Turn!At}
  BY <1>1, ToolState DEF Turn!Turns
<1>3. /\ twice = {} /\ Turn!Read \notin tried
      /\ \A c \in tried : c \in turn.results \/ c = Turn!At
  BY <1>1, ToolState
<1>4. twice' = {} /\ Turn!Read \notin tried'
      /\ \A c \in tried' : c \in turn'.results \/ (FALSE /\ c = Turn!At)
  BY <1>1, <1>2, <1>3
<1>. QED  BY <1>1, <1>4, ToolStep
\* All outputs are there: a row of the table each, and the next request.
LEMMA CollectStep == ASSUME Turn!IInv, Turn!Collect PROVE Turn!IInv'
<1>. DEFINE n == Len(batch.calls)
            C == Turn!NewCalls(n)
            f == Turn!Fed(turn, C)
            t == [f EXCEPT !.iter = @ + 1, !.empties = 0, !.made = @ \cup C]
<1>1. Stored  BY StoredNow
<1>2. /\ phase = "tools" /\ batch.at > n /\ Turn!Add(n, "tool") /\ turn' = t
      /\ phase' = "ready" /\ batch' = Turn!NoBatch
      /\ UNCHANGED <<mode, turns, first, anchor, big, plan, tried, twice>>
  BY DEF Turn!Collect, Turn!effects
<1>3. /\ Turn!Looping /\ turn \in Turn!Turns /\ turn.iter < MaxIterations
      /\ batch \in Turn!Responses /\ n \in Nat /\ ~batch.out
      /\ \A c \in tried : c \in turn.results
  <2>1. /\ Turn!Looping /\ turn \in Turn!Turns /\ turn.iter < MaxIterations
        /\ batch \in Turn!Responses
    BY <1>2 DEF Turn!IInv, Turn!Typed, Turn!InOrder, Turn!Looping
  <2>2. n \in Nat /\ batch.at \in Nat
    BY <2>1 DEF Turn!Responses
  <2>3. ~batch.out
    BY <1>2, <2>2 DEF Turn!IInv, Turn!InOrder
  <2>4. \A c \in tried : c \in turn.results
    BY <2>1, <2>3 DEF Turn!IInv, Turn!Remembers
  <2>. QED  BY <2>1, <2>2, <2>3, <2>4
<1>4. C \subseteq Nat /\ IsFiniteSet(C)
  BY <1>3, NewNumbers
<1>. HIDE DEF n, C
<1>5. /\ drawn' = drawn + n /\ drawn' \in Nat /\ gone' \subseteq 1..drawn' \ DOMAIN role'
      /\ role' \in [DOMAIN role' -> Turn!Roles] /\ DOMAIN role' \subseteq 1..drawn'
      /\ Turn!Spoken' = Turn!Spoken
  <2>1. "tool" \in Turn!Roles /\ n \in Nat /\ Turn!Add(n, "tool")
    BY <1>2, <1>3 DEF Turn!Roles
  <2>2. /\ drawn' = drawn + n /\ drawn' \in Nat /\ gone' \subseteq 1..drawn' \ DOMAIN role'
        /\ role' \in [DOMAIN role' -> Turn!Roles] /\ DOMAIN role' \subseteq 1..drawn'
        /\ Turn!Spoken' = Turn!Spoken \cup
             (IF "tool" = "tool" THEN {} ELSE (drawn + 1)..(drawn + n))
    BY <1>1, <2>1, Added
  <2>. QED  BY <2>2
<1>6. Stored'
  <2>1. anchor' = Nothing \/ (anchor' \in Turn!Anchors /\ anchor'.msg \in 1..drawn')
    BY <1>1, <1>2, <1>3, <1>5 DEF Stored
  <2>. QED  BY <1>1, <1>2, <1>3, <1>5, <2>1 DEF Stored
<1>7. /\ f \in Turn!Turns /\ f.iter = turn.iter /\ f.made = turn.made /\ f.found = turn.found
      /\ f.omitted = turn.omitted /\ f.results = turn.results /\ f.prompt = turn.prompt
      /\ (IF f.prev = Nothing THEN {} ELSE f.prev.view) \cup f.items
           = Turn!View \cup Turn!PairsOf(C)
      /\ f.recovery = (IF mode = "server" THEN turn.recovery \cup Turn!PairsOf(C)
                                          ELSE turn.recovery)
      /\ mode # "server" => f.prev = Nothing
  BY <1>3, <1>4, FedTurn
<1>. HIDE DEF f
<1>8. f.made \cup C \subseteq Nat /\ turn.iter + 1 \in 0..MaxIterations /\ 0 \in 0..MaxEmpty
  <2>1. f.made \cup C \subseteq Nat
    BY <1>4, <1>7 DEF Turn!Turns
  <2>2. turn.iter \in 0..MaxIterations
    BY <1>3 DEF Turn!Turns
  <2>3. turn.iter + 1 \in 0..MaxIterations /\ 0 \in 0..MaxEmpty
    BY <1>3, <2>2, TurnAssumption
  <2>. QED  BY <2>1, <2>3
<1>9. t \in Turn!Turns
  BY <1>7, <1>8 DEF Turn!Turns
<1>10. /\ t.prev = f.prev /\ t.items = f.items /\ t.recovery = f.recovery /\ t.found = turn.found
       /\ t.made = turn.made \cup C /\ t.omitted = turn.omitted /\ t.results = turn.results
       /\ t.prompt = turn.prompt
  BY <1>7 DEF Turn!Turns
<1>. HIDE DEF t
<1>11. Turn!View' = Turn!View \cup Turn!PairsOf(C)
  BY <1>2, <1>7, <1>10 DEF Turn!View
<1>12. turn'.made \cup turn'.found = (turn.made \cup turn.found) \cup C
  BY <1>2, <1>10
<1>13. Turn!Shown'
  <2>1. UNCHANGED gone
    BY <1>2 DEF Turn!Add
  <2>. QED  BY <1>2, <1>3, <1>4, <1>5, <1>7, <1>10, <1>11, <1>12, <2>1, MoreView
<1>14. \A c \in tried : c \in turn'.results
  BY <1>2, <1>3, <1>10
<1>. QED  BY <1>2, <1>3, <1>5, <1>6, <1>9, <1>13, <1>14, NextRequest

LEMMA TurnInit == ASSUME Turn!Init PROVE Turn!IInv
<1>1. /\ mode \in Modes /\ phase = "idle" /\ turns = 0 /\ drawn = 0 /\ role = <<>> /\ gone = {}
      /\ first = 0 /\ anchor = Nothing /\ big = FALSE /\ plan = "none" /\ turn = Turn!NoTurn
      /\ batch = Turn!NoBatch /\ tried = {} /\ twice = {}
  BY DEF Turn!Init
<1>2. Turn!NoTurn \in Turn!Turns /\ Turn!NoBatch \in Turn!Responses
  BY TurnAssumption DEF Turn!NoTurn, Turn!NoBatch, Turn!Turns, Turn!Responses
<1>3. DOMAIN role = {} /\ role \in [{} -> Turn!Roles]
  BY <1>1
<1>4. Turn!TypeOK
  <2>1. turn.iter = 0 /\ turn.retries = 0 /\ turn.recoveries = 0
        /\ batch.at = 1 /\ batch.calls = <<>>
    BY <1>1 DEF Turn!NoTurn, Turn!NoBatch
  <2>2. batch.at \in 1..Len(batch.calls) + 1
    BY <2>1
  <2>3. mode \in Modes /\ turns \in 0..MaxTurns /\ phase = "idle" /\ plan = "none"
    BY <1>1, TurnAssumption
  <2>4. DOMAIN role \subseteq 1..drawn /\ gone \subseteq 1..drawn \ DOMAIN role
        /\ drawn \in Nat /\ first \in 0..drawn
    BY <1>1, <1>3
  <2>5. anchor = Nothing /\ big \in BOOLEAN
    BY <1>1
  <2>. QED  BY <2>1, <2>2, <2>3, <2>4, <2>5, TurnAssumption DEF Turn!TypeOK, Turn!Messages
<1>5. Turn!Typed
  BY <1>1, <1>2, <1>3, <1>4 DEF Turn!Typed, Turn!Messages
<1>6. Turn!InOrder /\ Turn!Remembers /\ Turn!PlansAreClosed /\ Turn!Anchored
  BY <1>1 DEF Turn!InOrder, Turn!Remembers, Turn!PlansAreClosed, Turn!Anchored, Turn!Looping,
              Turn!NoBatch
<1>7. Turn!Shown
  BY <1>1 DEF Turn!Shown, Turn!Looping, Turn!NoTurn
<1>. QED  BY <1>5, <1>6, <1>7 DEF Turn!IInv

LEMMA TurnStays == ASSUME Turn!IInv, UNCHANGED turnVars PROVE Turn!IInv'
<1>1. UNCHANGED <<mode, phase, turns, drawn, role, gone, first, anchor, big, plan, turn, batch,
                  tried, twice, stale>>
  BY DEF turnVars
<1>2. (Turn!Typed /\ Turn!InOrder)'
  BY <1>1 DEF Turn!IInv, Turn!Typed, Turn!TypeOK, Turn!Messages, Turn!InOrder, Turn!Looping
<1>3. (Turn!Remembers /\ Turn!PlansAreClosed)'
  BY <1>1 DEF Turn!IInv, Turn!Remembers, Turn!Looping, Turn!PlansAreClosed, Turn!At
<1>4. Turn!Spoken' = Turn!Spoken /\ Turn!View' = Turn!View
  BY <1>1, SpokenIs, SpokenWillBe DEF Turn!View
<1>5. (Turn!Anchored /\ Turn!Shown)'
  BY <1>1, <1>4 DEF Turn!IInv, Turn!Anchored, Turn!Shown, Turn!Looping, Turn!Complete
<1>. QED  BY <1>2, <1>3, <1>5 DEF Turn!IInv

LEMMA TurnStep == ASSUME Turn!IInv, Turn!Next \/ UNCHANGED turnVars PROVE Turn!IInv'
<1>1. CASE Turn!Next
  <2>1. CASE Turn!Start \/ Turn!Advise \/ Turn!Withdraw \/ Turn!Preflight \/ Turn!Shrink \/ Turn!Begin
    BY <2>1, TurnStartStep, AdviseStep, WithdrawStep, PreflightStep, ShrinkStep, BeginLoop
  <2>2. CASE Turn!Crash
    BY <2>2, CutStep DEF Turn!Crash
  <2>3. CASE Turn!Interrupt \/ Turn!ToolInterrupted \/ Turn!GiveUp \/ Turn!FastPath \/ Turn!Counted
    BY <2>3, InterruptStep
  <2>4. CASE Turn!Send \/ Turn!Retry \/ Turn!Recover \/ Turn!Empty \/ Turn!Nudge \/ Turn!Answer
    BY <2>4, SendStep, RetryStep, RecoverStep, EmptyStep, NudgeStep, AnswersStep
  <2>5. CASE Turn!Search \/ Turn!Call \/ Turn!Compact
    BY <2>5, SearchStep, CallStep, CompactStep
  <2>6. CASE Turn!Reuse \/ Turn!Refused \/ Turn!Dispatch \/ Turn!Return \/ Turn!Collect
    BY <2>6, ReuseStep, RefusedStep, DispatchStep, ReturnStep, CollectStep
  <2>. QED  BY <1>1, <2>1, <2>2, <2>3, <2>4, <2>5, <2>6 DEF Turn!Next, Turn!Step
<1>. QED  BY <1>1, TurnStays

LEMMA TurnKept ==
  ASSUME Turn!IInv
  PROVE  /\ Turn!CallsArePaired /\ Turn!EffectsHappenOnce /\ Turn!PlansAreClosed
         /\ ~Unprompted => Turn!NothingForgotten
<1>1. Turn!EffectsHappenOnce /\ Turn!PlansAreClosed
  BY DEF Turn!IInv, Turn!Remembers, Turn!EffectsHappenOnce
<1>2. Turn!CallsArePaired
  <2>1. phase = "model" => Turn!Paired(Turn!View)
    BY DEF Turn!IInv, Turn!Shown, Turn!Looping
  <2>. QED  BY <2>1 DEF Turn!Paired, Turn!CallsArePaired
<1>3. ~Unprompted => Turn!NothingForgotten
  BY DEF Turn!IInv, Turn!Shown, Turn!Looping, Turn!Complete, Turn!NothingForgotten
<1>. QED  BY <1>1, <1>2, <1>3

\* What brings a turn nearer to its end: less is left, or the next phase of the
\* iteration, or the next call of the batch.
LEMMA Less ==
  ASSUME Turn!IInv
  PROVE  /\ turn.iter \in Nat /\ turn.retries \in Nat /\ batch.at \in Nat
         /\ Len(batch.calls) \in Nat /\ batch.out \in BOOLEAN
         /\ turn'.iter = turn.iter + 1 /\ turn'.retries = turn.retries => Turn!TurnsRunOut
         /\ turn'.iter = turn.iter /\ turn'.retries = turn.retries + 1 => Turn!TurnsRunOut
         /\ (turn'.iter = turn.iter /\ turn'.retries = turn.retries
             /\ Turn!Rank[phase'] < Turn!Rank[phase]) => Turn!TurnsRunOut
<1>1. turn.iter \in Nat /\ turn.retries \in Nat /\ batch.at \in Nat /\ batch.out \in BOOLEAN
      /\ Len(batch.calls) \in Nat
  BY TurnAssumption DEF Turn!IInv, Turn!Typed, Turn!Turns, Turn!Responses
<1>2. /\ Turn!Left = (MaxIterations - turn.iter) + (MaxRetries - turn.retries)
      /\ Turn!Left' = (MaxIterations - turn'.iter) + (MaxRetries - turn'.retries)
  BY DEF Turn!Left
<1>3. turn'.iter = turn.iter + 1 /\ turn'.retries = turn.retries => Turn!TurnsRunOut
  <2>1. turn'.iter = turn.iter + 1 /\ turn'.retries = turn.retries => Turn!Left' < Turn!Left
    BY <1>1, <1>2, TurnAssumption
  <2>. QED  BY <2>1 DEF Turn!TurnsRunOut
<1>4. turn'.iter = turn.iter /\ turn'.retries = turn.retries + 1 => Turn!TurnsRunOut
  <2>1. turn'.iter = turn.iter /\ turn'.retries = turn.retries + 1 => Turn!Left' < Turn!Left
    BY <1>1, <1>2, TurnAssumption
  <2>. QED  BY <2>1 DEF Turn!TurnsRunOut
<1>5. (turn'.iter = turn.iter /\ turn'.retries = turn.retries
       /\ Turn!Rank[phase'] < Turn!Rank[phase]) => Turn!TurnsRunOut
  BY <1>2 DEF Turn!TurnsRunOut
<1>. QED  BY <1>1, <1>3, <1>4, <1>5

LEMMA ToolLess ==
  ASSUME Turn!IInv, Turn!Calling, Turn!Same, turn'.iter = turn.iter,
         turn'.retries = turn.retries, NEW out \in BOOLEAN, Turn!Next1(out),
         out => ~batch.out
  PROVE  Turn!TurnsRunOut
<1>1. /\ batch.at \in Nat /\ Len(batch.calls) \in Nat /\ batch.out \in BOOLEAN /\ phase' = phase
      /\ batch \in Turn!Responses /\ batch' = [batch EXCEPT !.at = IF out THEN @ ELSE @ + 1, !.out = out]
  BY Less DEF Turn!Same, Turn!Next1, Turn!IInv, Turn!Typed
<1>2. batch'.calls = batch.calls /\ batch'.out = out
      /\ batch'.at = IF out THEN batch.at ELSE batch.at + 1
  BY <1>1 DEF Turn!Responses
<1>3. Turn!Left' = Turn!Left
  BY DEF Turn!Left
<1>4. Turn!CallsLeft' < Turn!CallsLeft
  BY <1>1, <1>2 DEF Turn!CallsLeft
<1>. QED  BY <1>1, <1>3, <1>4 DEF Turn!TurnsRunOut

LEMMA TurnLess == ASSUME Turn!IInv, Turn!Next PROVE Turn!TurnsRunOut
<1>. USE DEF Turn!Rank
<1>1. turn \in Turn!Turns
  BY DEF Turn!IInv, Turn!Typed
<1>2. ASSUME phase = "idle" \/ phase' = "idle" \/ UNCHANGED <<phase, turn, batch>>
      PROVE  Turn!TurnsRunOut
  BY <1>2 DEF Turn!TurnsRunOut
<1>3. ASSUME Turn!Over PROVE Turn!TurnsRunOut
  BY <1>2, <1>3 DEF Turn!Over
<1>4. ASSUME Turn!Interrupted \/ Turn!Fails \/ Turn!Throws PROVE Turn!TurnsRunOut
  BY <1>3, <1>4 DEF Turn!Interrupted, Turn!Fails, Turn!Throws, Turn!Abandons
<1>5. CASE Turn!Start \/ Turn!Advise \/ Turn!Withdraw \/ Turn!Crash
  BY <1>2, <1>3, <1>5 DEF Turn!Start, Turn!Advise, Turn!Withdraw, Turn!Crash
<1>6. CASE Turn!FastPath \/ Turn!Interrupt \/ Turn!GiveUp \/ Turn!Answer \/ Turn!ToolInterrupted
           \/ Turn!Counted
  BY <1>3, <1>4, <1>6 DEF Turn!FastPath, Turn!Interrupt, Turn!GiveUp, Turn!Answer,
                         Turn!ToolInterrupted, Turn!Counted
<1>7. CASE Turn!Preflight
  <2>1. CASE phase = "preflight" /\ phase' = "shrink" /\ turn' = turn
    BY <2>1, Less
  <2>. QED  BY <1>3, <1>4, <1>7, <2>1 DEF Turn!Preflight, Turn!Abandons
<1>8. CASE Turn!Shrink
  <2>1. CASE phase = "shrink" /\ phase' = "plan" /\ turn' = turn
    BY <2>1, Less
  <2>. QED  BY <1>3, <1>8, <2>1 DEF Turn!Shrink
<1>9. CASE Turn!Begin
  <2>1. phase = "plan" /\ phase' = "ready" /\ turn = Turn!NoTurn
    BY <1>9 DEF Turn!Begin, Turn!IInv, Turn!InOrder, Turn!Looping
  <2>2. turn'.iter = turn.iter /\ turn'.retries = turn.retries
    BY <1>9, <2>1 DEF Turn!Begin, Turn!NoTurn
  <2>. QED  BY <2>1, <2>2, Less
<1>10. CASE Turn!Send
  <2>1. CASE phase = "ready" /\ phase' = "model" /\ turn' = turn
    BY <2>1, Less
  <2>. QED  BY <1>4, <1>10, <2>1 DEF Turn!Send
<1>11. CASE Turn!Retry
  <2>1. turn' = [turn EXCEPT !.retries = @ + 1]
    BY <1>11 DEF Turn!Retry, Turn!Again
  <2>2. turn'.iter = turn.iter /\ turn'.retries = turn.retries + 1
    BY <1>1, <2>1 DEF Turn!Turns
  <2>. QED  BY <2>2, Less
<1>12. CASE Turn!Recover
  <2>1. turn'.iter = turn.iter + 1 /\ turn'.retries = turn.retries
    BY <1>1, <1>12 DEF Turn!Recover, Turn!Again, Turn!Turns
  <2>. QED  BY <2>1, Less
<1>13. CASE Turn!Empty
  <2>1. CASE Turn!Again([turn EXCEPT !.iter = @ + 1])
    <3>1. turn'.iter = turn.iter + 1 /\ turn'.retries = turn.retries
      BY <1>1, <2>1 DEF Turn!Again, Turn!Turns
    <3>. QED  BY <3>1, Less
  <2>2. CASE Turn!Again([turn EXCEPT !.iter = @ + 1, !.empties = @ + 1,
                           !.prev = Turn!Chain(Turn!View), !.items = {}])
    <3>1. turn'.iter = turn.iter + 1 /\ turn'.retries = turn.retries
      BY <1>1, <2>2 DEF Turn!Again, Turn!Turns
    <3>. QED  BY <3>1, Less
  <2>. QED  BY <1>4, <1>13, <2>1, <2>2 DEF Turn!Empty
<1>14. CASE Turn!Nudge
  <2>1. turn'.iter = turn.iter + 1 /\ turn'.retries = turn.retries
    BY <1>1, <1>14 DEF Turn!Nudge, Turn!Again, Turn!Turns
  <2>. QED  BY <2>1, Less
<1>15. ASSUME NEW C, NEW t, t = Turn!Fed(turn, C)
       PROVE  t.iter = turn.iter /\ t.retries = turn.retries
              /\ DOMAIN t = DOMAIN turn
  BY <1>1, <1>15 DEF Turn!Fed, Turn!Turns
<1>16. CASE Turn!Search
  <2>. DEFINE C == Turn!NewCalls(1)
              f == Turn!Fed(turn, C)
  <2>1. CASE Turn!Again([f EXCEPT !.iter = @ + 1, !.found = @ \cup C])
    <3>1. f.iter = turn.iter /\ f.retries = turn.retries /\ "iter" \in DOMAIN f
          /\ "retries" \in DOMAIN f
      BY <1>1, <1>15 DEF Turn!Turns
    <3>. HIDE DEF f
    <3>2. turn' = [f EXCEPT !.iter = @ + 1, !.found = @ \cup C]
      BY <2>1 DEF Turn!Again
    <3>3. turn'.iter = turn.iter + 1 /\ turn'.retries = turn.retries
      BY <3>1, <3>2
    <3>. QED  BY <3>3, Less
  <2>. QED  BY <1>4, <1>16, <2>1 DEF Turn!Search
<1>17. CASE Turn!Call
  <2>1. phase = "model" /\ phase' \in {"compact", "tools"} /\ turn' = turn
    BY <1>17 DEF Turn!Call
  <2>2. Turn!Rank[phase'] < Turn!Rank[phase]
    BY <2>1
  <2>. QED  BY <2>1, <2>2, Less
<1>18. CASE Turn!Compact
  <2>1. CASE phase = "compact" /\ phase' = "tools" /\ turn' = [turn EXCEPT !.compacted = TRUE]
    <3>1. turn'.iter = turn.iter /\ turn'.retries = turn.retries
      BY <1>1, <2>1 DEF Turn!Turns
    <3>. QED  BY <2>1, <3>1, Less
  <2>2. ASSUME NEW k \in {0} \cup turn.made,
               LET replayed == {c \in turn.made : c > k}
                   items == Turn!Msgs({i \in DOMAIN role' : role'[i] # "tool"})
                              \cup Turn!PairsOf(replayed \cup turn.found)
               IN turn' = [turn EXCEPT
                    !.compacted = TRUE, !.iter = @ + 1, !.prompt = Turn!NewPrompt,
                    !.prev = Nothing, !.items = items,
                    !.recovery = IF mode = "server" THEN items ELSE {},
                    !.omitted = turn.made \ replayed]
        PROVE  Turn!TurnsRunOut
    <3>1. turn'.iter = turn.iter + 1 /\ turn'.retries = turn.retries
      BY <1>1, <2>2 DEF Turn!Turns
    <3>. QED  BY <3>1, Less
  <2>. QED  BY <1>4, <1>18, <2>1, <2>2 DEF Turn!Compact
<1>19. CASE Turn!Reuse \/ Turn!Dispatch
  <2>1. turn' = turn /\ Turn!Calling /\ Turn!Same /\ ~batch.out
        /\ (Turn!Next1(FALSE) \/ Turn!Next1(TRUE))
    BY <1>19 DEF Turn!Reuse, Turn!Dispatch
  <2>. QED  BY <2>1, ToolLess
<1>20. CASE Turn!Refused \/ Turn!Return
  <2>1. /\ Turn!Calling /\ Turn!Same /\ Turn!Next1(FALSE)
        /\ turn' = [turn EXCEPT !.results = IF Turn!At = Turn!Read THEN @ ELSE @ \cup {Turn!At}]
    BY <1>20 DEF Turn!Refused, Turn!Return
  <2>2. turn'.iter = turn.iter /\ turn'.retries = turn.retries
    BY <1>1, <2>1 DEF Turn!Turns
  <2>. QED  BY <2>1, <2>2, ToolLess
<1>21. CASE Turn!Collect
  <2>. DEFINE C == Turn!NewCalls(Len(batch.calls))
              f == Turn!Fed(turn, C)
  <2>1. f.iter = turn.iter /\ f.retries = turn.retries /\ "iter" \in DOMAIN f
        /\ "retries" \in DOMAIN f
    BY <1>1, <1>15 DEF Turn!Turns
  <2>2. turn' = [f EXCEPT !.iter = @ + 1, !.empties = 0, !.made = @ \cup C]
    BY <1>21 DEF Turn!Collect
  <2>. HIDE DEF f
  <2>3. turn'.iter = turn.iter + 1 /\ turn'.retries = turn.retries
    BY <2>1, <2>2
  <2>. QED  BY <2>3, Less
<1>. QED  BY <1>5, <1>6, <1>7, <1>8, <1>9, <1>10, <1>11, <1>12, <1>13, <1>14, <1>16, <1>17,
             <1>18, <1>19, <1>20, <1>21 DEF Turn!Next, Turn!Step

\* The turns of a conversation, for any batches of calls, bounds and keep window
\* of the compaction, in both modes: while a turn runs no other voice writes
\* into the conversation, and then the model sees all of it, or the summary that
\* stands for it, and every output it was not told was dropped; no side effect
\* happens twice, no plan stays open, and every step brings the turn nearer to
\* its end.
THEOREM TurnsKeepAll == ~Unprompted => (MCSpec => TurnsSafe)
<1>. SUFFICES ASSUME ~Unprompted PROVE MCSpec => TurnsSafe
  OBVIOUS
<1>1. MCInit => (chosen = "turn" => Turn!IInv)
  BY TurnInit DEF MCInit
<1>2. (chosen = "turn" => Turn!IInv) /\ [MCNext]_all => (chosen = "turn" => Turn!IInv)'
  BY TurnStep DEF MCNext, all
<1>3. (chosen = "turn" => Turn!IInv) => (chosen = "turn" => Turn!TurnsSafe)
  BY TurnKept DEF Turn!TurnsSafe
<1>4. (chosen = "turn" => Turn!IInv) /\ [MCNext]_all
        => [chosen = "turn" => Turn!TurnsRunOut]_all
  BY TurnLess DEF MCNext
<1>. QED  BY <1>1, <1>2, <1>3, <1>4, PTL DEF MCSpec, TurnsSafe

\* Even when the map writes into the conversation of a running turn: the calls
\* and outputs of a request are paired, no side effect happens twice, no plan
\* stays open, and turns run out.
THEOREM TurnsEnd ==
  MCSpec => /\ [](chosen = "turn" => /\ Turn!CallsArePaired /\ Turn!EffectsHappenOnce
                                     /\ Turn!PlansAreClosed)
            /\ [][chosen = "turn" => Turn!TurnsRunOut]_all
<1>1. MCInit => (chosen = "turn" => Turn!IInv)
  BY TurnInit DEF MCInit
<1>2. (chosen = "turn" => Turn!IInv) /\ [MCNext]_all => (chosen = "turn" => Turn!IInv)'
  BY TurnStep DEF MCNext, all
<1>3. (chosen = "turn" => Turn!IInv)
        => (chosen = "turn" => /\ Turn!CallsArePaired /\ Turn!EffectsHappenOnce
                               /\ Turn!PlansAreClosed)
  BY TurnKept
<1>4. (chosen = "turn" => Turn!IInv) /\ [MCNext]_all
        => [chosen = "turn" => Turn!TurnsRunOut]_all
  BY TurnLess DEF MCNext
<1>. QED  BY <1>1, <1>2, <1>3, <1>4, PTL DEF MCSpec

-----------------------------------------------------------------------------
(* MarketSnapshots.                                                        *)

BookRows == [page : Nat, version : Nat, at : Nat]
RegionRecords == [region : Book!Regions, pages : Nat, rows : Nat, expires : Nat]
SweepStates ==
  [phase : {"regions", "swapped", "recorded"}, now : Nat, due : (SUBSET Book!Regions) \ {{}},
   next : Nat, known : [Book!Regions -> Book!States \cup {Nothing}],
   records : Seq(RegionRecords), ages : Seq(Nat \cup {Nothing})]

BookTyped ==
  /\ hour \in Nat /\ rotation \in [Book!Regions -> Book!Versions]
  /\ table \in [Book!Regions -> SUBSET BookRows] /\ staging \in [Book!Regions -> SUBSET BookRows]
  /\ \A r \in Book!Regions : IsFiniteSet(staging[r]) /\ IsFiniteSet(table[r])
  /\ regions \in [Book!Regions -> Book!States \cup {Nothing}]
  /\ sweep \in [Book!Sweeps -> SweepStates \cup {Nothing}]
  /\ walk \in [Book!Sweeps -> Book!Walks \cup {Nothing}]

\* One sweep runs, and a walk belongs to it.
OneSweep ==
  /\ \A s \in Book!Sweeps : sweep[s] # Nothing => sweeping = s
  /\ \A s \in Book!Sweeps : walk[s] # Nothing =>
       sweep[s] # Nothing /\ sweep[s].phase = "regions" /\ sweep[s].next <= Len(Order)

\* Rows that are one rotation of a region, all of it; rows no older than t.
WholeBook(r, S) ==
  S = {} \/ \E v \in Book!Versions : /\ {x.version : x \in S} = {v}
                                     /\ {x.page : x \in S} = 1..BookPages[r][v]
NoOlder(S, t) == \A x \in S : t <= x.at

\* What is served: whole rotations, no older than the records of them say.
Served ==
  /\ \A r \in Book!Regions : WholeBook(r, table[r])
  /\ \A r \in Book!Regions : regions[r] # Nothing =>
       regions[r].fetched <= hour /\ NoOlder(table[r], regions[r].fetched)
  /\ snapshotTime # Nothing =>
       /\ snapshotTime \in 0..hour
       /\ \A r \in Book!Regions : regions[r] # Nothing /\ NoOlder(table[r], snapshotTime)

\* A region that the sweep w is through with was walked, and recorded as of its
\* start, or was left as it is served.
Recorded(w, r) == \E j \in 1..Len(w.records) : w.records[j].region = r
Through(w, i) ==
  LET r == Order[i] IN
  \/ /\ Recorded(w, r) /\ w.ages[i] = w.now
     /\ WholeBook(r, staging[r]) /\ NoOlder(staging[r], w.now)
  \/ /\ ~Recorded(w, r) /\ staging[r] = table[r]
     /\ w.ages[i] = IF w.known[r] = Nothing THEN Nothing ELSE w.known[r].fetched
Ahead(w, i) == ~Recorded(w, Order[i])
Swapped(w, i) ==
  LET r == Order[i] IN
  \/ Recorded(w, r) /\ w.ages[i] = w.now /\ NoOlder(table[r], w.now)
  \/ ~Recorded(w, r) /\ w.ages[i] = IF w.known[r] = Nothing THEN Nothing ELSE w.known[r].fetched
Dated(w, i) ==
  w.ages[i] # Nothing => /\ regions[Order[i]] # Nothing /\ w.ages[i] \in 0..hour
                         /\ NoOlder(table[Order[i]], w.ages[i])
SweepKeeps(s) ==
  LET w == sweep[s] IN
  /\ w.now <= hour /\ w.next \in 1..Len(Order) + 1 /\ Len(w.ages) = w.next - 1
  /\ snapshotTime # Nothing => snapshotTime <= w.now
  /\ w.phase # "regions" => w.next = Len(Order) + 1
  /\ w.phase # "recorded" =>
       /\ w.known = regions
       /\ \A r \in Book!Regions : regions[r] # Nothing => regions[r].fetched <= w.now
  /\ w.phase = "regions" =>
       /\ \A i \in 1..w.next - 1 : Through(w, i)
       /\ \A i \in w.next..Len(Order) : Ahead(w, i)
       /\ \A i \in w.next..Len(Order) :
            walk[s] = Nothing \/ i # w.next => staging[Order[i]] = {}
  /\ w.phase = "swapped" => \A i \in 1..Len(Order) : Swapped(w, i)
  /\ w.phase = "recorded" => \A i \in 1..Len(Order) : Dated(w, i)

\* A walk has the rows of the pages it has got, all of the rotation it began
\* with, unless a page failed.
WalkKeeps(s) ==
  LET w == walk[s]
      r == Order[sweep[s].next]
  IN /\ w.first = Nothing => staging[r] = {} /\ w.next = 2 /\ w.asked \subseteq {1}
     /\ w.first # Nothing =>
          LET n == BookPages[r][w.first] IN
          /\ w.first \in Book!Versions /\ w.total = Book!XPages(r, w.first) /\ w.seen = w.total
          /\ w.next \in 2..w.total + 1 /\ w.asked \subseteq 2..w.next - 1
          /\ \A x \in staging[r] : /\ x.version = w.first /\ sweep[s].now <= x.at
                                   /\ x.page \in 1..n
          /\ w.error = "none" => \A p \in (1..w.next - 1) \ w.asked :
                                   p <= n => \E x \in staging[r] : x.page = p

BookInv ==
  /\ BookTyped /\ OneSweep /\ Served
  /\ \A s \in Book!Sweeps : sweep[s] # Nothing => SweepKeeps(s)
  /\ \A s \in Book!Sweeps : walk[s] # Nothing => WalkKeeps(s)

\* A set of numbers has a least one.
LEMMA LeastNumber ==
  ASSUME NEW S \in SUBSET Nat, S # {}
  PROVE  \E n \in S : \A m \in S : n <= m
<1>1. IsWellFoundedOn(OpToRel(<, Nat), Nat)
  BY NatLessThanWellFounded
<1>2. PICK n \in S : \A m \in S : <<m, n>> \notin OpToRel(<, Nat)
  BY <1>1, WFMin
<1>3. ASSUME NEW m \in S PROVE ~(m < n)
  BY <1>2 DEF OpToRel
<1>. QED  BY <1>3

\* The operators of finite sets, as MarketSnapshots' instance names them.
LEMMA BookSets == \A S : Book!Cardinality(S) = Cardinality(S)
  BY DEF Book!Cardinality, Cardinality

LEMMA RegionsIn ==
  /\ Len(Order) \in Nat /\ Book!Regions = {Order[i] : i \in 1..Len(Order)}
  /\ \A i \in 1..Len(Order) : Order[i] \in Book!Regions
  /\ \A r \in Book!Regions : \E i \in 1..Len(Order) : r = Order[i]
<1>1. Len(Order) \in Nat
  BY BookAssumption
<1>2. Book!Regions = {Order[i] : i \in 1..Len(Order)}
  BY DEF Book!Regions
<1>. QED  BY <1>1, <1>2

LEMMA MaxOfTwo ==
  ASSUME NEW a \in Nat, NEW b \in Nat
  PROVE  Book!MaxOf({a, b}) = IF a <= b THEN b ELSE a
<1>. DEFINE m == IF a <= b THEN b ELSE a
<1>1. m \in {a, b} /\ \A y \in {a, b} : y <= m
  OBVIOUS
<1>2. \A x \in {a, b} : (\A y \in {a, b} : y <= x) => x = m
  OBVIOUS
<1>. QED  BY <1>1, <1>2 DEF Book!MaxOf

LEMMA PagesOfBook ==
  ASSUME NEW r \in Book!Regions, NEW v \in Book!Versions
  PROVE  /\ BookPages[r][v] \in Nat
         /\ Book!XPages(r, v) = IF BookPages[r][v] = 0 THEN 1 ELSE BookPages[r][v]
<1>1. BookPages[r][v] \in Nat
  BY BookAssumption
<1>2. Book!MaxOf({1, BookPages[r][v]}) = IF 1 <= BookPages[r][v] THEN BookPages[r][v] ELSE 1
  BY <1>1, MaxOfTwo
<1>. QED  BY <1>1, <1>2 DEF Book!XPages

\* A sweep and its walk are the only ones.
LEMMA OnlySweep ==
  ASSUME BookInv, NEW s \in Book!Sweeps, sweep[s] # Nothing
  PROVE  /\ sweeping = s /\ \A t \in Book!Sweeps : t # s => sweep[t] = Nothing /\ walk[t] = Nothing
         /\ sweep[s] \in SweepStates /\ SweepKeeps(s)
  BY DEF BookInv, OneSweep, BookTyped

\* What is served stays what it is while time passes.
LEMMA ServedStays ==
  ASSUME Served, hour' \in Nat, hour \in Nat, hour <= hour', BookTyped,
         UNCHANGED <<table, regions, snapshotTime>>
  PROVE  Served'
<1>1. \A r \in Book!Regions : WholeBook(r, table'[r])
  BY DEF Served
<1>2. \A r \in Book!Regions : regions'[r] # Nothing =>
        regions'[r].fetched <= hour' /\ NoOlder(table'[r], regions'[r].fetched)
  BY DEF Served, BookTyped, Book!States
<1>3. snapshotTime' # Nothing =>
        /\ snapshotTime' \in 0..hour'
        /\ \A r \in Book!Regions : regions'[r] # Nothing /\ NoOlder(table'[r], snapshotTime')
  BY DEF Served
<1>. QED  BY <1>1, <1>2, <1>3 DEF Served, WholeBook, NoOlder

\* Time passes and books rotate around a sweep.
LEMMA AroundBook ==
  ASSUME BookInv, hour' \in Nat, hour <= hour',
         rotation' \in [Book!Regions -> Book!Versions],
         UNCHANGED <<table, staging, regions, snapshotTime, sweeping, sweep, walk>>
  PROVE  BookInv'
<1>1. BookTyped' /\ OneSweep'
  BY DEF BookInv, BookTyped, OneSweep
<1>2. Served'
  BY ServedStays DEF BookInv, BookTyped
<1>3. ASSUME NEW s \in Book!Sweeps, sweep[s] # Nothing PROVE SweepKeeps(s)'
  <2>1. SweepKeeps(s) /\ sweep[s].now \in Nat /\ hour \in Nat
    BY <1>3 DEF BookInv, BookTyped, SweepStates
  <2>2. \A i : /\ Through(sweep[s], i) => Through(sweep[s], i)'
               /\ Ahead(sweep[s], i) => Ahead(sweep[s], i)'
               /\ Swapped(sweep[s], i) => Swapped(sweep[s], i)'
    BY DEF Through, Ahead, Swapped, Recorded, WholeBook, NoOlder
  <2>3. \A i : Dated(sweep[s], i) => Dated(sweep[s], i)'
    BY <2>1 DEF Dated, NoOlder
  <2>. QED  BY <2>1, <2>2, <2>3 DEF SweepKeeps
<1>4. ASSUME NEW s \in Book!Sweeps, walk[s] # Nothing PROVE WalkKeeps(s)'
  <2>1. WalkKeeps(s)
    BY <1>4 DEF BookInv
  <2>. QED  BY <2>1 DEF WalkKeeps
<1>. QED  BY <1>1, <1>2, <1>3, <1>4 DEF BookInv

\* A sweep is over, or dies.
LEMMA SweepOver ==
  ASSUME BookInv, \A s \in Book!Sweeps : sweep'[s] = Nothing /\ walk'[s] = Nothing,
         sweep' \in [Book!Sweeps -> {Nothing}], walk' \in [Book!Sweeps -> {Nothing}],
         UNCHANGED <<hour, rotation, table, regions>>,
         staging' \in [Book!Regions -> SUBSET BookRows],
         \A r \in Book!Regions : IsFiniteSet(staging'[r]), Served'
  PROVE  BookInv'
  BY DEF BookInv, BookTyped, OneSweep

\* A step of a walk, or its first.
LEMMA WalkChanges ==
  ASSUME BookInv, NEW s \in Book!Sweeps, sweep[s] # Nothing, sweep[s].phase = "regions",
         sweep[s].next <= Len(Order), NEW w \in Book!Walks, walk' = [walk EXCEPT ![s] = w],
         NEW S \in SUBSET BookRows, IsFiniteSet(S),
         staging' = [staging EXCEPT ![Order[sweep[s].next]] = S],
         UNCHANGED <<hour, rotation, table, regions, snapshotTime, sweeping, sweep>>,
         WalkKeeps(s)'
  PROVE  BookInv'
<1>. DEFINE r == Order[sweep[s].next]
<1>1. /\ sweeping = s /\ sweep[s] \in SweepStates /\ SweepKeeps(s)
      /\ \A t \in Book!Sweeps : t # s => sweep[t] = Nothing /\ walk[t] = Nothing
  BY OnlySweep
<1>2. sweep[s].next \in 1..Len(Order) /\ r \in Book!Regions
  BY <1>1, RegionsIn DEF SweepKeeps
<1>3. staging' \in [Book!Regions -> SUBSET BookRows] /\ staging'[r] = S
      /\ \A q \in Book!Regions : q # r => staging'[q] = staging[q]
  BY <1>2 DEF BookInv, BookTyped
<1>4. walk' \in [Book!Sweeps -> Book!Walks \cup {Nothing}] /\ walk'[s] = w
      /\ \A t \in Book!Sweeps : t # s => walk'[t] = Nothing
  BY <1>1 DEF BookInv, BookTyped
<1>5. BookTyped'
  <2>1. \A q \in Book!Regions : IsFiniteSet(staging'[q])
    BY <1>3 DEF BookInv, BookTyped
  <2>. QED  BY <1>3, <1>4, <2>1 DEF BookInv, BookTyped
<1>6. OneSweep'
  BY <1>1, <1>4 DEF BookInv, OneSweep
<1>7. Served'
  BY ServedStays DEF BookInv, BookTyped
<1>8. SweepKeeps(s)'
  <2>1. \A i \in 1..Len(Order) : i # sweep[s].next => staging'[Order[i]] = staging[Order[i]]
    BY <1>2, <1>3, RegionsIn, BookAssumption
  <2>2. \A i \in 1..sweep[s].next - 1 : Through(sweep[s], i)'
    <3>. SUFFICES ASSUME NEW i \in 1..sweep[s].next - 1 PROVE Through(sweep[s], i)'
      OBVIOUS
    <3>1. i \in 1..Len(Order) /\ i # sweep[s].next /\ Through(sweep[s], i)
      BY <1>1, <1>2, RegionsIn DEF SweepKeeps
    <3>. QED  BY <2>1, <3>1 DEF Through, Recorded, WholeBook, NoOlder
  <2>3. \A i \in sweep[s].next..Len(Order) :
          walk'[s] = Nothing \/ i # sweep[s].next => staging'[Order[i]] = {}
    <3>. SUFFICES ASSUME NEW i \in sweep[s].next..Len(Order),
                         walk'[s] = Nothing \/ i # sweep[s].next
                  PROVE  staging'[Order[i]] = {}
      OBVIOUS
    <3>1. i # sweep[s].next /\ i \in 1..Len(Order)
      BY <1>2, <1>4, RegionsIn, BookAssumption
    <3>2. staging[Order[i]] = {}
      BY <1>1, <3>1 DEF SweepKeeps
    <3>. QED  BY <2>1, <3>1, <3>2
  <2>. QED  BY <1>1, <2>2, <2>3 DEF SweepKeeps, Ahead, Recorded
<1>9. \A t \in Book!Sweeps : sweep'[t] # Nothing => SweepKeeps(t)'
  BY <1>1, <1>8
<1>10. \A t \in Book!Sweeps : walk'[t] # Nothing => WalkKeeps(t)'
  BY <1>4
<1>. QED  BY <1>5, <1>6, <1>7, <1>9, <1>10 DEF BookInv

\* A sweep is through with a region.
LEMMA RegionThrough ==
  ASSUME BookInv, NEW s \in Book!Sweeps, sweep[s] # Nothing, sweep[s].phase = "regions",
         sweep[s].next <= Len(Order), NEW w \in SweepStates, sweep' = [sweep EXCEPT ![s] = w],
         w.phase = "regions", w.now = sweep[s].now, w.known = sweep[s].known,
         w.next = sweep[s].next + 1, NEW a, w.ages = Append(sweep[s].ages, a),
         walk' \in [Book!Sweeps -> {Nothing}],
         NEW S \in SUBSET BookRows, IsFiniteSet(S),
         staging' = [staging EXCEPT ![Order[sweep[s].next]] = S],
         UNCHANGED <<hour, rotation, table, regions, snapshotTime, sweeping>>,
         \A q \in Book!Regions : q # Order[sweep[s].next] =>
            (Recorded(w, q) <=> Recorded(sweep[s], q)),
         LET r == Order[sweep[s].next] IN
         \/ /\ Recorded(w, r) /\ a = w.now /\ WholeBook(r, S) /\ NoOlder(S, w.now)
         \/ /\ ~Recorded(w, r) /\ S = table[r]
            /\ a = IF w.known[r] = Nothing THEN Nothing ELSE w.known[r].fetched
  PROVE  BookInv'
<1>. DEFINE n == sweep[s].next
            r == Order[n]
<1>1. /\ sweeping = s /\ sweep[s] \in SweepStates /\ SweepKeeps(s)
      /\ \A t \in Book!Sweeps : t # s => sweep[t] = Nothing /\ walk[t] = Nothing
  BY OnlySweep
<1>2. n \in 1..Len(Order) /\ r \in Book!Regions /\ Len(Order) \in Nat
  BY <1>1, RegionsIn DEF SweepKeeps
<1>3. staging' \in [Book!Regions -> SUBSET BookRows] /\ staging'[r] = S
      /\ \A q \in Book!Regions : q # r => staging'[q] = staging[q]
  BY <1>2 DEF BookInv, BookTyped
<1>4. sweep' \in [Book!Sweeps -> SweepStates \cup {Nothing}] /\ sweep'[s] = w
      /\ \A t \in Book!Sweeps : t # s => sweep'[t] = Nothing
  BY <1>1 DEF BookInv, BookTyped
<1>5. BookTyped'
  <2>1. \A q \in Book!Regions : IsFiniteSet(staging'[q])
    BY <1>3 DEF BookInv, BookTyped
  <2>. QED  BY <1>3, <1>4, <2>1 DEF BookInv, BookTyped
<1>6. OneSweep'
  BY <1>1, <1>4 DEF BookInv, OneSweep
<1>7. Served'
  BY ServedStays DEF BookInv, BookTyped
<1>8. /\ Len(w.ages) = n /\ w.ages[n] = a
      /\ \A i \in 1..n - 1 : w.ages[i] = sweep[s].ages[i]
  <2>1. sweep[s].ages \in Seq(Nat \cup {Nothing}) /\ Len(sweep[s].ages) = n - 1 /\ n \in Nat
    BY <1>1 DEF SweepStates, SweepKeeps
  <2>. QED  BY <1>2, <2>1
<1>9. \A i \in 1..Len(Order) : i # n => staging'[Order[i]] = staging[Order[i]] /\ Order[i] # r
                                        /\ Order[i] \in Book!Regions
  BY <1>2, <1>3, RegionsIn, BookAssumption
<1>10. \A i \in 1..n : Through(sweep[s], i)'
  <2>. SUFFICES ASSUME NEW i \in 1..n PROVE Through(sweep[s], i)'
    OBVIOUS
  <2>1. CASE i = n
    <3>1. sweep'[s] = w /\ staging'[Order[i]] = S /\ w.ages[i] = a
      BY <1>3, <1>4, <1>8, <2>1
    <3>2. CASE Recorded(w, r) /\ a = w.now /\ WholeBook(r, S) /\ NoOlder(S, w.now)
      BY <2>1, <3>1, <3>2 DEF Through, Recorded, WholeBook, NoOlder
    <3>3. CASE /\ ~Recorded(w, r) /\ S = table[r]
               /\ a = IF w.known[r] = Nothing THEN Nothing ELSE w.known[r].fetched
      BY <2>1, <3>1, <3>3 DEF Through, Recorded
    <3>. QED  BY <3>2, <3>3
  <2>2. CASE i # n
    <3>1. i \in 1..n - 1 /\ i \in 1..Len(Order)
      BY <1>2, <2>2
    <3>2. Through(sweep[s], i) /\ w.ages[i] = sweep[s].ages[i]
      BY <1>1, <1>8, <3>1 DEF SweepKeeps
    <3>3. Recorded(w, Order[i]) <=> Recorded(sweep[s], Order[i])
      BY <1>9, <2>2, <3>1
    <3>4. staging'[Order[i]] = staging[Order[i]]
      BY <1>9, <2>2, <3>1
    <3>. QED  BY <1>4, <3>2, <3>3, <3>4 DEF Through, Recorded, WholeBook, NoOlder
  <2>. QED  BY <2>1, <2>2
<1>11. \A i \in n + 1..Len(Order) : Ahead(sweep[s], i)' /\ staging'[Order[i]] = {}
  <2>. SUFFICES ASSUME NEW i \in n + 1..Len(Order)
                PROVE  Ahead(sweep[s], i)' /\ staging'[Order[i]] = {}
    OBVIOUS
  <2>1. i \in 1..Len(Order) /\ i \in n..Len(Order) /\ i # n
    BY <1>2
  <2>2. Ahead(sweep[s], i) /\ staging[Order[i]] = {}
    BY <1>1, <2>1 DEF SweepKeeps
  <2>3. Recorded(w, Order[i]) <=> Recorded(sweep[s], Order[i])
    BY <1>9, <2>1
  <2>. QED  BY <1>4, <1>9, <2>1, <2>2, <2>3 DEF Ahead, Recorded
<1>12. SweepKeeps(s)'
  <2>1. /\ w.now <= hour /\ w.next \in 1..Len(Order) + 1 /\ Len(w.ages) = w.next - 1
        /\ snapshotTime # Nothing => snapshotTime <= w.now
        /\ w.known = regions
        /\ \A q \in Book!Regions : regions[q] # Nothing => regions[q].fetched <= w.now
    BY <1>1, <1>2, <1>8 DEF SweepKeeps
  <2>2. w.next - 1 = n /\ w.next = n + 1
    BY <1>2
  <2>. QED  BY <1>4, <1>10, <1>11, <2>1, <2>2 DEF SweepKeeps
<1>. QED  BY <1>4, <1>5, <1>6, <1>7, <1>12 DEF BookInv

\* What a record adds.
LEMMA RecordAdded ==
  ASSUME NEW l \in Seq(RegionRecords), NEW x \in RegionRecords, NEW v, NEW w,
         w.records = Append(l, x), v.records = l
  PROVE  \A q : Recorded(w, q) <=> Recorded(v, q) \/ q = x.region
<1>1. Len(w.records) = Len(l) + 1 /\ Len(l) \in Nat /\ w.records[Len(l) + 1] = x
      /\ \A j \in 1..Len(l) : w.records[j] = l[j]
  OBVIOUS
<1>2. \A j \in 1..Len(l) + 1 : j \in 1..Len(l) \/ j = Len(l) + 1
  BY <1>1
<1>. QED  BY <1>1, <1>2 DEF Recorded

LEMMA CarryOverStep ==
  ASSUME BookInv, NEW s \in Book!Sweeps, Book!CarryOver(s) PROVE BookInv'
<1>. DEFINE v == sweep[s]
            r == Order[v.next]
            a == IF v.known[r] = Nothing THEN Nothing ELSE v.known[r].fetched
            w == [v EXCEPT !.next = @ + 1, !.ages = Append(@, a)]
<1>1. /\ v # Nothing /\ v.phase = "regions" /\ walk[s] = Nothing /\ v.next <= Len(Order)
      /\ staging' = [staging EXCEPT ![r] = table[r]] /\ sweep' = [sweep EXCEPT ![s] = w]
      /\ UNCHANGED <<hour, rotation, table, regions, snapshotTime, sweeping, walk>>
  BY DEF Book!CarryOver, Book!InRegions, Book!MoreRegions, Book!Current, Book!Carried,
         Book!KnownAge, Book!esi, Book!saved
<1>2. /\ v \in SweepStates /\ SweepKeeps(s)
      /\ \A t \in Book!Sweeps : t # s => walk[t] = Nothing
  BY <1>1, OnlySweep
<1>3. v.next \in 1..Len(Order) /\ r \in Book!Regions
  BY <1>1, <1>2, RegionsIn DEF SweepKeeps
<1>4. a \in Nat \cup {Nothing}
  BY <1>2, <1>3 DEF SweepStates, Book!States
<1>. HIDE DEF a
<1>5. /\ w \in SweepStates /\ w.phase = "regions" /\ w.now = v.now /\ w.known = v.known
      /\ w.next = v.next + 1 /\ w.ages = Append(v.ages, a) /\ w.records = v.records
  <2>1. v.next + 1 \in Nat /\ Append(v.ages, a) \in Seq(Nat \cup {Nothing})
    BY <1>2, <1>4 DEF SweepStates
  <2>. QED  BY <1>1, <1>2, <2>1 DEF SweepStates
<1>. HIDE DEF w
<1>6. walk' \in [Book!Sweeps -> {Nothing}]
  BY <1>1, <1>2 DEF BookInv, BookTyped
<1>7. table[r] \in SUBSET BookRows /\ IsFiniteSet(table[r])
  BY <1>3 DEF BookInv, BookTyped
<1>8. \A q : Recorded(w, q) <=> Recorded(v, q)
  BY <1>5 DEF Recorded
<1>9. ~Recorded(w, r)
  BY <1>1, <1>2, <1>3, <1>8 DEF SweepKeeps, Ahead
<1>10. a = IF w.known[r] = Nothing THEN Nothing ELSE w.known[r].fetched
  BY <1>5 DEF a
<1>. QED  BY <1>1, <1>5, <1>6, <1>7, <1>8, <1>9, <1>10, RegionThrough

LEMMA KeepPreviousStep ==
  ASSUME BookInv, NEW s \in Book!Sweeps, Book!KeepPrevious(s) PROVE BookInv'
<1>. DEFINE v == sweep[s]
            r == Order[v.next]
            a == IF v.known[r] = Nothing THEN Nothing ELSE v.known[r].fetched
            w == [v EXCEPT !.next = @ + 1, !.ages = Append(@, a)]
<1>1. /\ walk[s] # Nothing /\ staging' = [staging EXCEPT ![r] = table[r]]
      /\ sweep' = [sweep EXCEPT ![s] = w] /\ walk' = [walk EXCEPT ![s] = Nothing]
      /\ UNCHANGED <<hour, rotation, table, regions, snapshotTime, sweeping>>
  BY DEF Book!KeepPrevious, Book!Failed, Book!PoolSettled, Book!Current, Book!Carried,
         Book!KnownAge, Book!esi, Book!saved
<1>2. v # Nothing /\ v.phase = "regions" /\ v.next <= Len(Order)
  BY <1>1 DEF BookInv, OneSweep
<1>3. /\ v \in SweepStates /\ SweepKeeps(s)
      /\ \A t \in Book!Sweeps : t # s => walk[t] = Nothing
  BY <1>2, OnlySweep
<1>4. v.next \in 1..Len(Order) /\ r \in Book!Regions
  BY <1>2, <1>3, RegionsIn DEF SweepKeeps
<1>5. a \in Nat \cup {Nothing}
  BY <1>3, <1>4 DEF SweepStates, Book!States
<1>. HIDE DEF a
<1>6. /\ w \in SweepStates /\ w.phase = "regions" /\ w.now = v.now /\ w.known = v.known
      /\ w.next = v.next + 1 /\ w.ages = Append(v.ages, a) /\ w.records = v.records
  <2>1. v.next + 1 \in Nat /\ Append(v.ages, a) \in Seq(Nat \cup {Nothing})
    BY <1>3, <1>5 DEF SweepStates
  <2>. QED  BY <1>2, <1>3, <2>1 DEF SweepStates
<1>. HIDE DEF w
<1>7. walk' \in [Book!Sweeps -> {Nothing}]
  BY <1>1, <1>3 DEF BookInv, BookTyped
<1>8. table[r] \in SUBSET BookRows /\ IsFiniteSet(table[r])
  BY <1>4 DEF BookInv, BookTyped
<1>9. \A q : Recorded(w, q) <=> Recorded(v, q)
  BY <1>6 DEF Recorded
<1>10. ~Recorded(w, r)
  BY <1>2, <1>3, <1>4, <1>9 DEF SweepKeeps, Ahead
<1>11. a = IF w.known[r] = Nothing THEN Nothing ELSE w.known[r].fetched
  BY <1>6 DEF a
<1>. QED  BY <1>1, <1>2, <1>6, <1>7, <1>8, <1>9, <1>10, <1>11, RegionThrough

\* A walk that is done has all pages of the rotation it began with.
LEMMA WalkDoneStep ==
  ASSUME BookInv, NEW s \in Book!Sweeps, Book!WalkDone(s) PROVE BookInv'
<1>. DEFINE v == sweep[s]
            r == Order[v.next]
            k == walk[s]
            x == [region |-> r, pages |-> k.total, rows |-> Book!Cardinality(staging[r]),
                  expires |-> k.expires]
            w == [v EXCEPT !.next = @ + 1, !.ages = Append(@, v.now), !.records = Append(@, x)]
<1>1. /\ k # Nothing /\ k.asked = {} /\ k.error = "none" /\ k.first # Nothing /\ k.next > k.total
      /\ sweep' = [sweep EXCEPT ![s] = w] /\ walk' = [walk EXCEPT ![s] = Nothing]
      /\ UNCHANGED <<hour, rotation, table, regions, snapshotTime, sweeping, staging>>
  BY DEF Book!WalkDone, Book!PoolSettled, Book!Current, Book!esi, Book!saved
<1>2. v # Nothing /\ v.phase = "regions" /\ v.next <= Len(Order) /\ WalkKeeps(s)
      /\ k \in Book!Walks
  BY <1>1 DEF BookInv, BookTyped, OneSweep
<1>3. /\ v \in SweepStates /\ SweepKeeps(s)
      /\ \A t \in Book!Sweeps : t # s => walk[t] = Nothing
  BY <1>2, OnlySweep
<1>4. v.next \in 1..Len(Order) /\ r \in Book!Regions
  BY <1>2, <1>3, RegionsIn DEF SweepKeeps
<1>5. staging[r] \in SUBSET BookRows /\ IsFiniteSet(staging[r])
      /\ staging' = [staging EXCEPT ![r] = staging[r]]
  BY <1>1, <1>4 DEF BookInv, BookTyped
<1>6. x \in RegionRecords /\ x.region = r
  <2>1. Cardinality(staging[r]) \in Nat
    BY <1>5, FS_CardinalityType
  <2>2. Book!Cardinality(staging[r]) \in Nat
    BY <2>1, BookSets
  <2>. QED  BY <1>2, <1>4, <2>2 DEF RegionRecords, Book!Walks
<1>7. WholeBook(r, staging[r]) /\ NoOlder(staging[r], v.now)
  <2>. DEFINE n == BookPages[r][k.first]
  <2>1. /\ k.first \in Book!Versions /\ k.total = Book!XPages(r, k.first)
        /\ k.next \in 2..k.total + 1
        /\ \A y \in staging[r] : y.version = k.first /\ v.now <= y.at /\ y.page \in 1..n
        /\ \A p \in 1..k.next - 1 : p <= n => \E y \in staging[r] : y.page = p
    BY <1>1, <1>2 DEF WalkKeeps
  <2>2. n \in Nat /\ k.total = IF n = 0 THEN 1 ELSE n
    BY <1>4, <2>1, PagesOfBook
  <2>3. k.next - 1 = k.total
    <3>1. k.total \in Nat
      BY <2>2
    <3>. QED  BY <1>1, <2>1, <3>1
  <2>. HIDE DEF n
  <2>4. \A p \in 1..n : \E y \in staging[r] : y.page = p
    BY <2>1, <2>2, <2>3
  <2>5. {y.page : y \in staging[r]} = 1..n
    BY <2>1, <2>4
  <2>6. staging[r] # {} => {y.version : y \in staging[r]} = {k.first}
    BY <2>1
  <2>7. WholeBook(r, staging[r])
    BY <2>1, <2>5, <2>6 DEF WholeBook, n
  <2>. QED  BY <2>1, <2>7 DEF NoOlder
<1>. HIDE DEF x
<1>8. /\ w \in SweepStates /\ w.phase = "regions" /\ w.now = v.now /\ w.known = v.known
      /\ w.next = v.next + 1 /\ w.ages = Append(v.ages, v.now)
      /\ w.records = Append(v.records, x)
  <2>1. v.next + 1 \in Nat /\ Append(v.ages, v.now) \in Seq(Nat \cup {Nothing})
        /\ Append(v.records, x) \in Seq(RegionRecords)
    BY <1>3, <1>6 DEF SweepStates
  <2>. QED  BY <1>2, <1>3, <2>1 DEF SweepStates
<1>. HIDE DEF w
<1>9. walk' \in [Book!Sweeps -> {Nothing}]
  BY <1>1, <1>3 DEF BookInv, BookTyped
<1>10. \A q : Recorded(w, q) <=> Recorded(v, q) \/ q = r
  <2>1. v.records \in Seq(RegionRecords)
    BY <1>3 DEF SweepStates
  <2>. DEFINE l == v.records
  <2>2. l \in Seq(RegionRecords) /\ w.records = Append(l, x) /\ x \in RegionRecords
    BY <1>6, <1>8, <2>1
  <2>3. v.records = l
    OBVIOUS
  <2>. HIDE DEF l
  <2>4. \A q : Recorded(w, q) <=> Recorded(v, q) \/ q = x.region
    BY <2>2, <2>3, RecordAdded
  <2>. QED  BY <1>6, <2>4
<1>11. Recorded(w, r)
  BY <1>10
<1>12. \A q \in Book!Regions : q # r => (Recorded(w, q) <=> Recorded(v, q))
  BY <1>10
<1>. QED  BY <1>1, <1>2, <1>5, <1>7, <1>8, <1>9, <1>11, <1>12, RegionThrough

\* The steps of a walk.
LEMMA WalkState ==
  ASSUME BookInv, NEW s \in Book!Sweeps, walk[s] # Nothing
  PROVE  /\ sweep[s] # Nothing /\ sweep[s].phase = "regions" /\ sweep[s].next <= Len(Order)
         /\ sweep[s].next \in 1..Len(Order) /\ Order[sweep[s].next] \in Book!Regions
         /\ walk[s] \in Book!Walks /\ WalkKeeps(s) /\ sweep[s] \in SweepStates
         /\ sweep[s].now \in Nat /\ sweep[s].now <= hour /\ hour \in Nat
         /\ staging[Order[sweep[s].next]] \in SUBSET BookRows
         /\ IsFiniteSet(staging[Order[sweep[s].next]])
         /\ rotation[Order[sweep[s].next]] \in Book!Versions
         /\ walk \in [Book!Sweeps -> Book!Walks \cup {Nothing}]
<1>1. /\ sweep[s] # Nothing /\ sweep[s].phase = "regions" /\ sweep[s].next <= Len(Order)
      /\ walk[s] \in Book!Walks /\ WalkKeeps(s) /\ hour \in Nat
      /\ walk \in [Book!Sweeps -> Book!Walks \cup {Nothing}]
  BY DEF BookInv, BookTyped, OneSweep
<1>2. sweep[s] \in SweepStates /\ SweepKeeps(s)
  BY <1>1, OnlySweep
<1>3. sweep[s].next \in 1..Len(Order) /\ Order[sweep[s].next] \in Book!Regions
  BY <1>1, <1>2, RegionsIn DEF SweepKeeps
<1>4. sweep[s].now \in Nat /\ sweep[s].now <= hour
  BY <1>2 DEF SweepStates, SweepKeeps
<1>5. staging[Order[sweep[s].next]] \in SUBSET BookRows
      /\ IsFiniteSet(staging[Order[sweep[s].next]])
      /\ rotation[Order[sweep[s].next]] \in Book!Versions
  BY <1>3 DEF BookInv, BookTyped
<1>. QED  BY <1>1, <1>2, <1>3, <1>4, <1>5

\* A step of a walk that gets no rows.
LEMMA WalkOnly ==
  ASSUME BookInv, NEW s \in Book!Sweeps, walk[s] # Nothing, NEW w \in Book!Walks,
         walk' = [walk EXCEPT ![s] = w],
         UNCHANGED <<hour, rotation, table, staging, regions, snapshotTime, sweeping, sweep>>,
         WalkKeeps(s)'
  PROVE  BookInv'
<1>. DEFINE r == Order[sweep[s].next]
<1>1. r \in Book!Regions /\ staging[r] \in SUBSET BookRows /\ IsFiniteSet(staging[r])
      /\ sweep[s] # Nothing /\ sweep[s].phase = "regions" /\ sweep[s].next <= Len(Order)
  BY WalkState
<1>2. staging' = [staging EXCEPT ![r] = staging[r]]
  BY <1>1 DEF BookInv, BookTyped
<1>. QED  BY <1>1, <1>2, WalkChanges

\* A walk from the first page, on a clean staging.
NewWalk(n) == [attempt |-> n, asked |-> {1}, next |-> 2, total |-> 1, seen |-> 1,
               first |-> Nothing, expires |-> 0, error |-> "none"]

LEMMA WalkBegins ==
  ASSUME BookInv, NEW s \in Book!Sweeps, sweep[s] # Nothing, sweep[s].phase = "regions",
         sweep[s].next <= Len(Order), NEW n \in Nat, walk' = [walk EXCEPT ![s] = NewWalk(n)],
         staging' = [staging EXCEPT ![Order[sweep[s].next]] = {}],
         UNCHANGED <<hour, rotation, table, regions, snapshotTime, sweeping, sweep>>
  PROVE  BookInv'
<1>. DEFINE w == NewWalk(n)
<1>1. w \in Book!Walks /\ w.first = Nothing /\ w.next = 2 /\ w.asked = {1}
  BY DEF NewWalk, Book!Walks
<1>2. walk'[s] = w
  BY DEF BookInv, BookTyped
<1>3. staging'[Order[sweep[s].next]] = {}
  <2>1. Order[sweep[s].next] \in Book!Regions
    BY OnlySweep, RegionsIn DEF SweepKeeps
  <2>. QED  BY <2>1 DEF BookInv, BookTyped
<1>. HIDE DEF w
<1>4. WalkKeeps(s)'
  BY <1>1, <1>2, <1>3 DEF WalkKeeps
<1>5. {} \in SUBSET BookRows /\ IsFiniteSet({})
  BY FS_EmptySet
<1>. QED  BY <1>1, <1>4, <1>5, WalkChanges DEF w

LEMMA StartWalkStep ==
  ASSUME BookInv, NEW s \in Book!Sweeps, Book!StartWalk(s) PROVE BookInv'
<1>. DEFINE r == Order[sweep[s].next]
<1>1. /\ sweep[s] # Nothing /\ sweep[s].phase = "regions" /\ walk[s] = Nothing
      /\ sweep[s].next <= Len(Order) /\ walk' = [walk EXCEPT ![s] = NewWalk(1)]
      /\ UNCHANGED <<hour, rotation, table, staging, regions, snapshotTime, sweeping, sweep>>
  BY DEF Book!StartWalk, Book!InRegions, Book!MoreRegions, Book!esi, Book!saved, NewWalk
<1>2. SweepKeeps(s) /\ sweep[s] \in SweepStates
  BY <1>1, OnlySweep
<1>3. sweep[s].next \in 1..Len(Order) /\ r \in Book!Regions
      /\ sweep[s].next \in sweep[s].next..Len(Order)
  BY <1>1, <1>2, RegionsIn DEF SweepKeeps
<1>4. staging[r] = {}
  BY <1>1, <1>2, <1>3 DEF SweepKeeps
<1>5. staging' = [staging EXCEPT ![r] = {}]
  BY <1>1, <1>3, <1>4 DEF BookInv, BookTyped
<1>. QED  BY <1>1, <1>5, WalkBegins

LEMMA RewalkStep ==
  ASSUME BookInv, NEW s \in Book!Sweeps, Book!Rewalk(s) PROVE BookInv'
<1>1. walk[s] # Nothing
  BY DEF Book!Rewalk, Book!PoolSettled
<1>2. /\ sweep[s] # Nothing /\ sweep[s].phase = "regions" /\ sweep[s].next <= Len(Order)
      /\ walk[s] \in Book!Walks
  BY <1>1, WalkState
<1>3. walk[s].attempt + 1 \in Nat
  BY <1>2 DEF Book!Walks
<1>4. /\ walk' = [walk EXCEPT ![s] = NewWalk(walk[s].attempt + 1)]
      /\ staging' = [staging EXCEPT ![Order[sweep[s].next]] = {}]
      /\ UNCHANGED <<hour, rotation, table, regions, snapshotTime, sweeping, sweep>>
  BY DEF Book!Rewalk, Book!Dropped, Book!Current, Book!esi, Book!saved, NewWalk
<1>. QED  BY <1>2, <1>3, <1>4, WalkBegins

\* The first page fixes the rotation and the number of pages.
LEMMA FirstPageStep ==
  ASSUME BookInv, NEW s \in Book!Sweeps, Book!FirstPage(s) PROVE BookInv'
<1>. DEFINE r == Order[sweep[s].next]
            k == walk[s]
            t == Book!XPages(r, rotation[r])
            S == staging[r] \cup Book!RowsOf(r, 1)
            w == [k EXCEPT !.asked = {}, !.first = rotation[r], !.total = t, !.seen = t,
                           !.expires = hour + CacheWindow]
<1>1. /\ k # Nothing /\ 1 \in k.asked /\ staging' = [staging EXCEPT ![r] = S]
      /\ walk' = [walk EXCEPT ![s].asked = {}, ![s].first = rotation[r], ![s].total = t,
                              ![s].seen = t, ![s].expires = hour + CacheWindow]
      /\ UNCHANGED <<hour, rotation, table, regions, snapshotTime, sweeping, sweep>>
  BY DEF Book!FirstPage, Book!Walking, Book!Current, Book!esi, Book!saved
<1>2. /\ sweep[s] # Nothing /\ sweep[s].phase = "regions" /\ sweep[s].next <= Len(Order)
      /\ r \in Book!Regions /\ k \in Book!Walks /\ WalkKeeps(s)
      /\ sweep[s].now <= hour /\ hour \in Nat /\ rotation[r] \in Book!Versions
      /\ walk \in [Book!Sweeps -> Book!Walks \cup {Nothing}]
      /\ staging[r] \in SUBSET BookRows /\ IsFiniteSet(staging[r]) /\ sweep[s].now \in Nat
  BY <1>1, WalkState
<1>3. k.first = Nothing /\ staging[r] = {} /\ k.next = 2
  <2>1. k.first # Nothing => k.asked \subseteq 2..k.next - 1
    BY <1>2 DEF WalkKeeps
  <2>2. k.first = Nothing
    BY <1>1, <2>1
  <2>. QED  BY <1>2, <2>2 DEF WalkKeeps
<1>. DEFINE n == BookPages[r][rotation[r]]
<1>4. n \in Nat /\ t = (IF n = 0 THEN 1 ELSE n) /\ t \in Nat /\ rotation[r] \in Nat
      /\ rotation[r] # Nothing /\ hour + CacheWindow \in Nat
  <2>1. n \in Nat /\ t = IF n = 0 THEN 1 ELSE n
    BY <1>2, PagesOfBook
  <2>2. rotation[r] \in Nat /\ rotation[r] # Nothing
    BY <1>2, BookAssumption DEF Book!Versions
  <2>3. hour + CacheWindow \in Nat
    BY <1>2, BookAssumption
  <2>. QED  BY <2>1, <2>2, <2>3
<1>5. Book!RowsOf(r, 1) = IF 1 <= n THEN {[page |-> 1, version |-> rotation[r], at |-> hour]} ELSE {}
  BY DEF Book!RowsOf
<1>6. S = Book!RowsOf(r, 1) /\ S \in SUBSET BookRows /\ IsFiniteSet(S)
  <2>1. S = Book!RowsOf(r, 1)
    BY <1>3
  <2>2. S \in SUBSET BookRows
    <3>1. [page |-> 1, version |-> rotation[r], at |-> hour] \in BookRows
      BY <1>2, <1>4 DEF BookRows
    <3>. QED  BY <1>5, <2>1, <3>1
  <2>3. IsFiniteSet({}) /\ IsFiniteSet({[page |-> 1, version |-> rotation[r], at |-> hour]})
    BY FS_EmptySet, FS_Singleton
  <2>. QED  BY <1>5, <2>1, <2>2, <2>3
<1>. HIDE DEF t, n, S
<1>7. walk' = [walk EXCEPT ![s] = w]
  BY <1>1, <1>2
<1>8. w \in Book!Walks /\ w.first = rotation[r] /\ w.asked = {} /\ w.total = t /\ w.seen = t
      /\ w.next = 2
  BY <1>2, <1>3, <1>4 DEF Book!Walks
<1>. HIDE DEF w
<1>9. walk'[s] = w /\ staging'[r] = S
  BY <1>1, <1>2, <1>7 DEF BookInv, BookTyped
<1>10. WalkKeeps(s)'
  <2>1. \A x \in S : x.version = w.first /\ sweep[s].now <= x.at /\ x.page \in 1..n
    BY <1>2, <1>4, <1>5, <1>6, <1>8
  <2>2. \A p \in (1..w.next - 1) \ w.asked : p <= n => \E x \in S : x.page = p
    <3>. SUFFICES ASSUME NEW p \in 1..w.next - 1, p <= n PROVE \E x \in S : x.page = p
      OBVIOUS
    <3>1. p = 1 /\ 1 <= n
      BY <1>4, <1>8
    <3>2. [page |-> 1, version |-> rotation[r], at |-> hour] \in S
      BY <1>5, <1>6, <3>1
    <3>. QED  BY <3>1, <3>2
  <2>3. w.first # Nothing /\ w.first \in Book!Versions /\ w.total = Book!XPages(r, w.first)
        /\ w.seen = w.total /\ w.asked \subseteq 2..w.next - 1
    BY <1>2, <1>4, <1>8 DEF t
  <2>4. w.next \in 2..w.total + 1
    BY <1>4, <1>8
  <2>5. n = BookPages[r][w.first]
    BY <1>8 DEF n
  <2>. QED  BY <1>1, <1>9, <2>1, <2>2, <2>3, <2>4, <2>5 DEF WalkKeeps
<1>. QED  BY <1>1, <1>2, <1>6, <1>7, <1>8, <1>10, WalkChanges

LEMMA AskPageStep ==
  ASSUME BookInv, NEW s \in Book!Sweeps, Book!AskPage(s) PROVE BookInv'
<1>. DEFINE r == Order[sweep[s].next]
            k == walk[s]
            w == [k EXCEPT !.asked = @ \cup {k.next}, !.next = @ + 1]
<1>1. /\ k # Nothing /\ k.first # Nothing /\ k.next <= k.total
      /\ walk' = [walk EXCEPT ![s].asked = @ \cup {k.next}, ![s].next = @ + 1]
      /\ UNCHANGED <<hour, rotation, table, staging, regions, snapshotTime, sweeping, sweep>>
  BY DEF Book!AskPage, Book!esi, Book!saved
<1>2. /\ k \in Book!Walks /\ WalkKeeps(s) /\ r \in Book!Regions
      /\ walk \in [Book!Sweeps -> Book!Walks \cup {Nothing}]
  BY <1>1, WalkState
<1>3. walk' = [walk EXCEPT ![s] = w]
  BY <1>1, <1>2
<1>4. k.next + 1 \in Nat /\ k.next \in Nat /\ k.total \in Nat /\ k.asked \cup {k.next} \subseteq Nat
  BY <1>2 DEF Book!Walks
<1>5. /\ w \in Book!Walks /\ w.first = k.first /\ w.asked = k.asked \cup {k.next}
      /\ w.next = k.next + 1 /\ w.total = k.total /\ w.seen = k.seen /\ w.error = k.error
  BY <1>2, <1>4 DEF Book!Walks
<1>. HIDE DEF w
<1>6. walk'[s] = w
  BY <1>2, <1>3
<1>7. WalkKeeps(s)'
  <2>. DEFINE n == BookPages[r][k.first]
  <2>1. /\ k.first \in Book!Versions /\ k.total = Book!XPages(r, k.first) /\ k.seen = k.total
        /\ k.next \in 2..k.total + 1 /\ k.asked \subseteq 2..k.next - 1
        /\ \A x \in staging[r] : x.version = k.first /\ sweep[s].now <= x.at /\ x.page \in 1..n
        /\ k.error = "none" => \A p \in (1..k.next - 1) \ k.asked :
                                 p <= n => \E x \in staging[r] : x.page = p
    BY <1>1, <1>2 DEF WalkKeeps
  <2>2. w.next \in 2..w.total + 1 /\ w.asked \subseteq 2..w.next - 1
    BY <1>1, <1>4, <1>5, <2>1
  <2>3. (1..w.next - 1) \ w.asked \subseteq (1..k.next - 1) \ k.asked
    BY <1>4, <1>5
  <2>. HIDE DEF n
  <2>4. w.error = "none" => \A p \in (1..w.next - 1) \ w.asked :
                              p <= n => \E x \in staging[r] : x.page = p
    BY <1>5, <2>1, <2>3
  <2>. QED  BY <1>1, <1>5, <1>6, <2>1, <2>2, <2>4 DEF WalkKeeps, n
<1>. QED  BY <1>1, <1>3, <1>5, <1>7, WalkOnly

\* A page that fails, or is of another rotation, is not asked for any more.
LEMMA PageMissed ==
  ASSUME BookInv, NEW s \in Book!Sweeps, walk[s] # Nothing, NEW p \in walk[s].asked,
         NEW e \in {"drift", "failed", "corrupt"},
         walk' = [walk EXCEPT ![s].asked = @ \ {p}, ![s].error = IF @ = "none" THEN e ELSE @],
         UNCHANGED <<hour, rotation, table, staging, regions, snapshotTime, sweeping, sweep>>
  PROVE  BookInv'
<1>. DEFINE k == walk[s]
            w == [k EXCEPT !.asked = @ \ {p}, !.error = IF @ = "none" THEN e ELSE @]
<1>1. /\ k \in Book!Walks /\ WalkKeeps(s) /\ walk \in [Book!Sweeps -> Book!Walks \cup {Nothing}]
  BY WalkState
<1>2. walk' = [walk EXCEPT ![s] = w]
  BY <1>1
<1>3. /\ w \in Book!Walks /\ w.first = k.first /\ w.asked = k.asked \ {p}
      /\ w.next = k.next /\ w.total = k.total /\ w.seen = k.seen /\ w.error # "none"
  BY <1>1 DEF Book!Walks
<1>. HIDE DEF w
<1>4. walk'[s] = w
  BY <1>1, <1>2
<1>5. WalkKeeps(s)'
  BY <1>1, <1>3, <1>4 DEF WalkKeeps
<1>. QED  BY <1>2, <1>3, <1>5, WalkOnly

LEMMA PageFailsStep ==
  ASSUME BookInv, NEW s \in Book!Sweeps, NEW p, NEW e \in {"failed", "corrupt"},
         Book!PageFails(s, p, e)
  PROVE  BookInv'
<1>1. /\ walk[s] # Nothing /\ p \in walk[s].asked
      /\ walk' = [walk EXCEPT ![s].asked = @ \ {p}, ![s].error = IF @ = "none" THEN e ELSE @]
      /\ UNCHANGED <<hour, rotation, table, staging, regions, snapshotTime, sweeping, sweep>>
  BY DEF Book!PageFails, Book!Walking, Book!esi, Book!saved
<1>. QED  BY <1>1, PageMissed

\* A later page of the same rotation.
LEMMA LaterPageStep ==
  ASSUME BookInv, NEW s \in Book!Sweeps, NEW p, Book!LaterPage(s, p) PROVE BookInv'
<1>. DEFINE r == Order[sweep[s].next]
            k == walk[s]
            S == staging[r] \cup Book!RowsOf(r, p)
            m == Book!MaxOf({k.seen, Book!XPages(r, rotation[r])})
            w == [k EXCEPT !.asked = @ \ {p}, !.seen = m]
<1>1. k # Nothing /\ p \in k.asked /\ p # 1
  BY DEF Book!LaterPage, Book!Walking
<1>2. /\ r \in Book!Regions /\ k \in Book!Walks /\ WalkKeeps(s)
      /\ sweep[s] # Nothing /\ sweep[s].phase = "regions" /\ sweep[s].next <= Len(Order)
      /\ sweep[s].now <= hour /\ hour \in Nat /\ rotation[r] \in Book!Versions
      /\ walk \in [Book!Sweeps -> Book!Walks \cup {Nothing}]
      /\ staging[r] \in SUBSET BookRows /\ IsFiniteSet(staging[r])
  BY <1>1, WalkState
<1>3. k.first # Nothing /\ p \in Nat
  <2>1. k.first # Nothing
    BY <1>1, <1>2 DEF WalkKeeps
  <2>. QED  BY <1>1, <1>2, <2>1 DEF Book!Walks
<1>4. CASE Book!Drifted(s, r)
  <2>1. /\ walk' = [walk EXCEPT ![s].asked = @ \ {p},
                                ![s].error = IF @ = "none" THEN "drift" ELSE @]
        /\ UNCHANGED <<hour, rotation, table, staging, regions, snapshotTime, sweeping, sweep>>
    BY <1>4 DEF Book!LaterPage, Book!Current, Book!esi, Book!saved
  <2>. QED  BY <1>1, <2>1, PageMissed
<1>5. CASE ~Book!Drifted(s, r)
  <2>. DEFINE n == BookPages[r][k.first]
              x == [page |-> p, version |-> rotation[r], at |-> hour]
  <2>1. /\ walk' = [walk EXCEPT ![s].asked = @ \ {p}, ![s].seen = Book!MaxOf({@, Book!XPages(r, rotation[r])})]
        /\ staging' = [staging EXCEPT ![r] = S]
        /\ UNCHANGED <<hour, rotation, table, regions, snapshotTime, sweeping, sweep>>
    BY <1>5 DEF Book!LaterPage, Book!Current, Book!esi, Book!saved
  <2>2. k.first = rotation[r]
    BY <1>5 DEF Book!Drifted
  <2>3. /\ k.total = Book!XPages(r, k.first) /\ k.seen = k.total
        /\ k.next \in 2..k.total + 1 /\ k.asked \subseteq 2..k.next - 1
        /\ \A y \in staging[r] : y.version = k.first /\ sweep[s].now <= y.at /\ y.page \in 1..n
        /\ k.error = "none" => \A q \in (1..k.next - 1) \ k.asked :
                                 q <= n => \E y \in staging[r] : y.page = q
    BY <1>2, <1>3 DEF WalkKeeps
  <2>4. n \in Nat /\ k.total = (IF n = 0 THEN 1 ELSE n) /\ k.total \in Nat
    <3>. DEFINE v == rotation[r]
    <3>1. v \in Book!Versions /\ k.first = v
      BY <1>2, <2>2
    <3>. HIDE DEF v
    <3>2. BookPages[r][v] \in Nat
          /\ Book!XPages(r, v) = IF BookPages[r][v] = 0 THEN 1 ELSE BookPages[r][v]
      BY <1>2, <3>1, PagesOfBook
    <3>. QED  BY <2>3, <3>1, <3>2
  <2>5. m = k.total
    <3>. DEFINE a == k.seen
                b == Book!XPages(r, rotation[r])
    <3>1. a = k.total /\ b = k.total /\ a \in Nat /\ b \in Nat
      BY <2>2, <2>3, <2>4
    <3>2. Book!MaxOf({a, b}) = IF a <= b THEN b ELSE a
      BY <3>1, MaxOfTwo
    <3>. QED  BY <3>1, <3>2
  <2>. HIDE DEF n, m
  <2>6. walk' = [walk EXCEPT ![s] = w]
    BY <1>2, <2>1 DEF m
  <2>7. /\ w \in Book!Walks /\ w.first = k.first /\ w.asked = k.asked \ {p}
        /\ w.next = k.next /\ w.total = k.total /\ w.seen = k.total /\ w.error = k.error
    BY <1>2, <2>4, <2>5 DEF Book!Walks
  <2>. HIDE DEF w
  <2>8. Book!RowsOf(r, p) = IF p <= n THEN {x} ELSE {}
    BY <2>2 DEF Book!RowsOf, n
  <2>9. x \in BookRows /\ x.page = p /\ x.version = k.first /\ sweep[s].now <= x.at
    <3>1. rotation[r] \in Nat
      BY <1>2, BookAssumption DEF Book!Versions
    <3>. QED  BY <1>2, <1>3, <2>2, <3>1 DEF BookRows
  <2>. HIDE DEF x
  <2>10. S \in SUBSET BookRows /\ IsFiniteSet(S)
    <3>1. IsFiniteSet({}) /\ IsFiniteSet({x})
      BY FS_EmptySet, FS_Singleton
    <3>2. IsFiniteSet(Book!RowsOf(r, p)) /\ Book!RowsOf(r, p) \subseteq BookRows
      BY <2>8, <2>9, <3>1
    <3>. QED  BY <1>2, <3>2, FS_Union
  <2>11. \A y \in S : y.version = k.first /\ sweep[s].now <= y.at /\ y.page \in 1..n
    <3>1. p \in 2..k.next - 1 /\ p >= 1
      BY <1>1, <1>3, <2>3
    <3>2. p <= n => p \in 1..n
      BY <1>3, <2>4, <3>1
    <3>. QED  BY <2>3, <2>8, <2>9, <3>2
  <2>12. k.error = "none" => \A q \in (1..k.next - 1) \ w.asked :
                               q <= n => \E y \in S : y.page = q
    <3>. SUFFICES ASSUME k.error = "none", NEW q \in (1..k.next - 1) \ w.asked, q <= n
                  PROVE  \E y \in S : y.page = q
      OBVIOUS
    <3>1. CASE q = p
      BY <2>8, <2>9, <3>1
    <3>2. CASE q # p
      <4>1. q \in (1..k.next - 1) \ k.asked
        BY <2>7, <3>2
      <4>. QED  BY <2>3, <4>1
    <3>. QED  BY <3>1, <3>2
  <2>. HIDE DEF S
  <2>13. walk'[s] = w /\ staging'[r] = S
    BY <1>2, <2>1, <2>6 DEF BookInv, BookTyped
  <2>14. WalkKeeps(s)'
    <3>1. w.next \in 2..w.total + 1 /\ w.asked \subseteq 2..w.next - 1
      BY <2>3, <2>7
    <3>2. n = BookPages[r][w.first] /\ w.first # Nothing /\ w.first \in Book!Versions
          /\ w.total = Book!XPages(r, w.first) /\ w.seen = w.total
      BY <1>2, <1>3, <2>2, <2>3, <2>7 DEF n
    <3>3. \A y \in S : y.version = w.first /\ sweep[s].now <= y.at /\ y.page \in 1..n
      BY <2>7, <2>11
    <3>4. w.error = "none" => \A q \in (1..w.next - 1) \ w.asked :
                                q <= n => \E y \in S : y.page = q
      BY <2>7, <2>12
    <3>. QED  BY <2>1, <2>13, <3>1, <3>2, <3>3, <3>4 DEF WalkKeeps
  <2>. QED  BY <1>2, <2>1, <2>6, <2>7, <2>10, <2>14, WalkChanges
<1>. QED  BY <1>4, <1>5

\* All pages of a walk are of the rotation it began with, so none reports more.
LEMMA ExtendStep ==
  ASSUME BookInv, NEW s \in Book!Sweeps, Book!Extend(s) PROVE BookInv'
<1>1. walk[s] # Nothing /\ walk[s].first # Nothing /\ walk[s].seen > walk[s].total
  BY DEF Book!Extend, Book!PoolSettled
<1>2. WalkKeeps(s) /\ walk[s] \in Book!Walks
  BY <1>1, WalkState
<1>3. walk[s].seen = walk[s].total /\ walk[s].total \in Nat
  BY <1>1, <1>2 DEF WalkKeeps, Book!Walks
<1>. QED  BY <1>1, <1>3

\* A sweep starts on what the last one saved, and an empty staging.
LEMMA StartSweepStep ==
  ASSUME BookInv, NEW s \in Book!Sweeps, Book!StartSweep(s) PROVE BookInv'
<1>. DEFINE due == {r \in Book!Regions : Book!IsRegionDue(r)}
            w == [phase |-> "regions", now |-> hour, due |-> due, next |-> 1, known |-> regions,
                  records |-> <<>>, ages |-> <<>>]
<1>1. /\ sweep[s] = Nothing /\ due # {} /\ sweeping' = s
      /\ staging' = [r \in Book!Regions |-> {}] /\ sweep' = [sweep EXCEPT ![s] = w]
      /\ UNCHANGED <<hour, rotation, table, regions, snapshotTime, walk>>
      /\ Book!MayStart(s)
  BY DEF Book!StartSweep, Book!esi, Book!saved
<1>2. \A t \in Book!Sweeps : sweep[t] = Nothing /\ walk[t] = Nothing
  <2>1. sweeping = Nothing
    BY <1>1 DEF Book!MayStart
  <2>2. Nothing \notin Book!Sweeps
    BY BookAssumption
  <2>3. \A t \in Book!Sweeps : t # Nothing
    BY <2>2
  <2>. QED  BY <2>1, <2>3 DEF BookInv, OneSweep
<1>. HIDE DEF due
<1>3. w \in SweepStates
  <2>1. due \in (SUBSET Book!Regions) \ {{}} /\ hour \in Nat
        /\ regions \in [Book!Regions -> Book!States \cup {Nothing}]
    BY <1>1 DEF BookInv, BookTyped, due
  <2>2. <<>> \in Seq(RegionRecords) /\ <<>> \in Seq(Nat \cup {Nothing})
    OBVIOUS
  <2>. QED  BY <2>1, <2>2 DEF SweepStates
<1>4. /\ w.phase = "regions" /\ w.now = hour /\ w.next = 1 /\ w.known = regions
      /\ w.records = <<>> /\ w.ages = <<>>
  OBVIOUS
<1>. HIDE DEF w
<1>5. sweep' \in [Book!Sweeps -> SweepStates \cup {Nothing}] /\ sweep'[s] = w
      /\ \A t \in Book!Sweeps : t # s => sweep'[t] = Nothing
  BY <1>1, <1>2, <1>3 DEF BookInv, BookTyped
<1>6. BookTyped'
  <2>1. staging' \in [Book!Regions -> SUBSET BookRows] /\ \A r \in Book!Regions : staging'[r] = {}
    BY <1>1
  <2>2. \A r \in Book!Regions : IsFiniteSet(staging'[r])
    BY <2>1, FS_EmptySet
  <2>. QED  BY <1>1, <1>5, <2>1, <2>2 DEF BookInv, BookTyped
<1>7. OneSweep'
  BY <1>1, <1>2, <1>5 DEF OneSweep
<1>8. Served'
  BY <1>1, ServedStays DEF BookInv, BookTyped
<1>9. SweepKeeps(s)'
  <2>1. \A i \in 1..Len(Order) : Ahead(sweep[s], i)' /\ staging'[Order[i]] = {}
    <3>1. \A r : ~Recorded(w, r)
      BY <1>4 DEF Recorded
    <3>. QED  BY <1>1, <1>5, <3>1, RegionsIn DEF Ahead, Recorded
  <2>2. hour \in Nat /\ Len(Order) \in Nat /\ w.next \in 1..Len(Order) + 1
        /\ Len(w.ages) = w.next - 1 /\ w.next - 1 = 0
    BY <1>4, RegionsIn DEF BookInv, BookTyped
  <2>3. /\ snapshotTime # Nothing => snapshotTime <= hour
        /\ \A r \in Book!Regions : regions[r] # Nothing => regions[r].fetched <= hour
    BY DEF BookInv, Served
  <2>4. \A i \in 1..w.next - 1 : FALSE
    BY <2>2
  <2>5. hour <= hour
    BY <2>2
  <2>. QED  BY <1>1, <1>4, <1>5, <2>1, <2>2, <2>3, <2>4, <2>5 DEF SweepKeeps
<1>. QED  BY <1>1, <1>2, <1>5, <1>6, <1>7, <1>8, <1>9 DEF BookInv

LEMMA SweepFailsStep ==
  ASSUME BookInv, NEW s \in Book!Sweeps, sweep[s] # Nothing, Book!SweepFails(s) PROVE BookInv'
<1>1. /\ staging' = [r \in Book!Regions |-> {}]
      /\ sweep' = [sweep EXCEPT ![s] = Nothing] /\ walk' = [walk EXCEPT ![s] = Nothing]
      /\ UNCHANGED <<hour, rotation, table, regions, snapshotTime>>
  BY DEF Book!SweepFails, Book!esi, Book!saved
<1>2. \A t \in Book!Sweeps : t # s => sweep[t] = Nothing /\ walk[t] = Nothing
  BY OnlySweep
<1>3. sweep' \in [Book!Sweeps -> {Nothing}] /\ walk' \in [Book!Sweeps -> {Nothing}]
  BY <1>1, <1>2 DEF BookInv, BookTyped
<1>4. staging' \in [Book!Regions -> SUBSET BookRows] /\ \A r \in Book!Regions : IsFiniteSet(staging'[r])
  BY <1>1, FS_EmptySet
<1>5. Served'
  BY <1>1, ServedStays DEF BookInv, BookTyped
<1>. QED  BY <1>1, <1>3, <1>4, <1>5, SweepOver

LEMMA SweepDies == ASSUME BookInv, Book!Crash PROVE BookInv'
<1>1. /\ sweep' = [s \in Book!Sweeps |-> Nothing] /\ walk' = [s \in Book!Sweeps |-> Nothing]
      /\ UNCHANGED <<hour, rotation, table, staging, regions, snapshotTime>>
  BY DEF Book!Crash, Book!esi, Book!saved
<1>2. Served'
  BY <1>1, ServedStays DEF BookInv, BookTyped
<1>3. staging' \in [Book!Regions -> SUBSET BookRows] /\ \A r \in Book!Regions : IsFiniteSet(staging'[r])
  BY <1>1 DEF BookInv, BookTyped
<1>4. sweep' \in [Book!Sweeps -> {Nothing}] /\ walk' \in [Book!Sweeps -> {Nothing}]
  BY <1>1
<1>. QED  BY <1>1, <1>2, <1>3, <1>4, SweepOver

\* What a sweep collected becomes what is served.
LEMMA SwapStep ==
  ASSUME BookInv, NEW s \in Book!Sweeps, Book!Swap(s) PROVE BookInv'
<1>. DEFINE v == sweep[s]
            w == [v EXCEPT !.phase = "swapped"]
<1>1. /\ v # Nothing /\ v.phase = "regions" /\ walk[s] = Nothing /\ ~(v.next <= Len(Order))
      /\ table' = staging /\ staging' = [r \in Book!Regions |-> {}]
      /\ sweep' = [sweep EXCEPT ![s] = w]
      /\ UNCHANGED <<hour, rotation, regions, snapshotTime, sweeping, walk>>
  <2>1. sweep' = [sweep EXCEPT ![s].phase = "swapped"]
    BY DEF Book!Swap
  <2>2. sweep' = [sweep EXCEPT ![s] = w]
    BY <2>1 DEF BookInv, BookTyped
  <2>. QED  BY <2>2 DEF Book!Swap, Book!InRegions, Book!MoreRegions, Book!esi
<1>2. /\ sweeping = s /\ v \in SweepStates /\ SweepKeeps(s)
      /\ \A t \in Book!Sweeps : t # s => sweep[t] = Nothing /\ walk[t] = Nothing
  BY <1>1, OnlySweep
<1>3. v.next = Len(Order) + 1 /\ Len(Order) \in Nat /\ v.next - 1 = Len(Order)
  BY <1>1, <1>2, RegionsIn DEF SweepKeeps
<1>4. /\ w \in SweepStates /\ w.phase = "swapped" /\ w.now = v.now /\ w.next = v.next
      /\ w.known = v.known /\ w.records = v.records /\ w.ages = v.ages
  BY <1>2 DEF SweepStates
<1>. HIDE DEF w
<1>5. sweep' \in [Book!Sweeps -> SweepStates \cup {Nothing}] /\ sweep'[s] = w
      /\ \A t \in Book!Sweeps : t # s => sweep'[t] = Nothing
  BY <1>1, <1>2, <1>4 DEF BookInv, BookTyped
<1>6. \A i \in 1..Len(Order) : Through(v, i)
  BY <1>1, <1>2, <1>3 DEF SweepKeeps
<1>7. v.now \in Nat /\ v.known = regions
      /\ \A r \in Book!Regions : regions[r] # Nothing =>
           regions[r].fetched <= v.now /\ regions[r].fetched \in Nat
  BY <1>1, <1>2 DEF SweepKeeps, SweepStates, Book!States
<1>8. BookTyped'
  <2>1. staging' \in [Book!Regions -> SUBSET BookRows] /\ \A r \in Book!Regions : staging'[r] = {}
    BY <1>1
  <2>2. \A r \in Book!Regions : IsFiniteSet(staging'[r]) /\ IsFiniteSet(table'[r])
    BY <1>1, <2>1, FS_EmptySet DEF BookInv, BookTyped
  <2>. QED  BY <1>1, <1>5, <2>1, <2>2 DEF BookInv, BookTyped
<1>9. OneSweep'
  BY <1>1, <1>2, <1>5 DEF BookInv, OneSweep
<1>10. ASSUME NEW r \in Book!Regions, NEW t \in Nat, NoOlder(table[r], t), t <= v.now
       PROVE  NoOlder(staging[r], t)
  <2>1. PICK i \in 1..Len(Order) : r = Order[i]
    BY RegionsIn
  <2>2. Through(v, i)
    BY <1>6
  <2>3. CASE NoOlder(staging[r], v.now)
    <3>1. staging[r] \subseteq BookRows
      BY DEF BookInv, BookTyped
    <3>. QED  BY <1>7, <1>10, <2>3, <3>1 DEF NoOlder, BookRows
  <2>4. CASE staging[r] = table[r]
    BY <1>10, <2>4
  <2>. QED  BY <2>1, <2>2, <2>3, <2>4 DEF Through
<1>11. \A r \in Book!Regions : WholeBook(r, staging[r])
  <2>. SUFFICES ASSUME NEW r \in Book!Regions PROVE WholeBook(r, staging[r])
    OBVIOUS
  <2>1. PICK i \in 1..Len(Order) : r = Order[i]
    BY RegionsIn
  <2>2. Through(v, i) /\ WholeBook(r, table[r])
    BY <1>6 DEF BookInv, Served
  <2>. QED  BY <2>1, <2>2 DEF Through
<1>12. Served'
  <2>1. \A r \in Book!Regions : WholeBook(r, table'[r])
    BY <1>1, <1>11
  <2>2. \A r \in Book!Regions : regions'[r] # Nothing =>
          regions'[r].fetched <= hour' /\ NoOlder(table'[r], regions'[r].fetched)
    BY <1>1, <1>7, <1>10 DEF BookInv, Served
  <2>3. snapshotTime' # Nothing =>
          /\ snapshotTime' \in 0..hour'
          /\ \A r \in Book!Regions : regions'[r] # Nothing /\ NoOlder(table'[r], snapshotTime')
    <3>. SUFFICES ASSUME snapshotTime # Nothing
                  PROVE  /\ snapshotTime \in 0..hour
                         /\ \A r \in Book!Regions : regions[r] # Nothing /\ NoOlder(staging[r], snapshotTime)
      BY <1>1
    <3>1. snapshotTime \in 0..hour /\ snapshotTime \in Nat /\ snapshotTime <= v.now
          /\ \A r \in Book!Regions : regions[r] # Nothing /\ NoOlder(table[r], snapshotTime)
      BY <1>2 DEF BookInv, BookTyped, Served, SweepKeeps
    <3>. QED  BY <1>10, <3>1
  <2>. QED  BY <2>1, <2>2, <2>3 DEF Served, WholeBook, NoOlder
<1>13. SweepKeeps(s)'
  <2>1. \A i \in 1..Len(Order) : Swapped(sweep[s], i)'
    <3>. SUFFICES ASSUME NEW i \in 1..Len(Order) PROVE Swapped(sweep[s], i)'
      OBVIOUS
    <3>1. Through(v, i)
      BY <1>6
    <3>. QED  BY <1>1, <1>4, <1>5, <3>1 DEF Through, Swapped, Recorded, NoOlder
  <2>2. /\ w.now <= hour /\ w.next \in 1..Len(Order) + 1 /\ Len(w.ages) = w.next - 1
        /\ snapshotTime # Nothing => snapshotTime <= w.now
    BY <1>2, <1>4 DEF SweepKeeps
  <2>. QED  BY <1>1, <1>3, <1>4, <1>5, <1>7, <2>1, <2>2 DEF SweepKeeps
<1>. QED  BY <1>1, <1>2, <1>5, <1>8, <1>9, <1>12, <1>13 DEF BookInv

\* What a sweep recorded of a region is one of its records.
LEMMA RecordsOf ==
  ASSUME BookInv, NEW s \in Book!Sweeps, sweep[s] # Nothing, NEW r
  PROVE  /\ Book!RecordOf(s, r) # {} <=> Recorded(sweep[s], r)
         /\ Book!RecordOf(s, r) \subseteq RegionRecords
<1>1. sweep[s].records \in Seq(RegionRecords)
  BY DEF BookInv, BookTyped, SweepStates
<1>2. \A j \in 1..Len(sweep[s].records) : sweep[s].records[j] \in RegionRecords
  BY <1>1
<1>. QED  BY <1>2 DEF Book!RecordOf, Recorded

LEMMA RecordRegionsStep ==
  ASSUME BookInv, NEW s \in Book!Sweeps, Book!RecordRegions(s) PROVE BookInv'
<1>. DEFINE v == sweep[s]
            w == [v EXCEPT !.phase = "recorded"]
            x(r) == CHOOSE x \in Book!RecordOf(s, r) : TRUE
            entry(r) == [pages |-> x(r).pages, rows |-> x(r).rows, fetched |-> v.now,
                       expires |-> x(r).expires]
<1>1. /\ v # Nothing /\ v.phase = "swapped"
      /\ regions' = [r \in Book!Regions |-> IF Book!RecordOf(s, r) = {} THEN regions[r] ELSE entry(r)]
      /\ sweep' = [sweep EXCEPT ![s] = w]
      /\ UNCHANGED <<hour, rotation, table, staging, snapshotTime, sweeping, walk>>
  <2>1. v # Nothing /\ sweep' = [sweep EXCEPT ![s].phase = "recorded"]
    BY DEF Book!RecordRegions
  <2>2. sweep' = [sweep EXCEPT ![s] = w]
    BY <2>1 DEF BookInv, BookTyped
  <2>. QED  BY <2>2 DEF Book!RecordRegions, Book!esi
<1>2. /\ sweeping = s /\ v \in SweepStates /\ SweepKeeps(s)
      /\ \A t \in Book!Sweeps : t # s => sweep[t] = Nothing /\ walk[t] = Nothing
  BY <1>1, OnlySweep
<1>3. /\ w \in SweepStates /\ w.phase = "recorded" /\ w.now = v.now /\ w.next = v.next
      /\ w.ages = v.ages
  BY <1>2 DEF SweepStates
<1>. HIDE DEF w
<1>4. sweep' \in [Book!Sweeps -> SweepStates \cup {Nothing}] /\ sweep'[s] = w
      /\ \A t \in Book!Sweeps : t # s => sweep'[t] = Nothing
  BY <1>1, <1>2, <1>3 DEF BookInv, BookTyped
<1>5. /\ v.now \in Nat /\ hour \in Nat /\ v.now <= hour /\ v.known = regions
      /\ v.next = Len(Order) + 1 /\ Len(v.ages) = Len(Order)
      /\ snapshotTime # Nothing => snapshotTime <= v.now
      /\ \A i \in 1..Len(Order) : Swapped(v, i)
  BY <1>1, <1>2, RegionsIn DEF SweepKeeps, SweepStates, BookInv, BookTyped
<1>6. ASSUME NEW r \in Book!Regions, Recorded(v, r)
      PROVE  regions'[r] \in Book!States /\ regions'[r] # Nothing /\ regions'[r].fetched = v.now
  <2>1. Book!RecordOf(s, r) # {} /\ x(r) \in RegionRecords
    BY <1>1, <1>6, RecordsOf
  <2>2. regions'[r] = entry(r)
    BY <1>1, <2>1
  <2>3. entry(r) \in Book!States /\ entry(r).fetched = v.now
    BY <1>5, <2>1 DEF RegionRecords, Book!States
  <2>. HIDE DEF entry
  <2>4. regions'[r] # Nothing
    BY <2>2, <2>3, BookAssumption
  <2>. QED  BY <2>2, <2>3, <2>4
<1>7. ASSUME NEW r \in Book!Regions, ~Recorded(v, r) PROVE regions'[r] = regions[r]
  <2>1. Book!RecordOf(s, r) = {}
    BY <1>1, <1>7, RecordsOf
  <2>. QED  BY <1>1, <2>1
<1>8. regions' \in [Book!Regions -> Book!States \cup {Nothing}]
  <2>. DEFINE f(r) == IF Book!RecordOf(s, r) = {} THEN regions[r] ELSE entry(r)
  <2>1. regions' = [r \in Book!Regions |-> f(r)]
    BY <1>1
  <2>. HIDE DEF f
  <2>2. \A r \in Book!Regions : regions'[r] \in Book!States \cup {Nothing}
    <3>1. \A r \in Book!Regions : regions[r] \in Book!States \cup {Nothing}
      BY DEF BookInv, BookTyped
    <3>. QED  BY <1>6, <1>7, <3>1
  <2>. QED  BY <2>1, <2>2
<1>9. BookTyped'
  BY <1>1, <1>4, <1>8 DEF BookInv, BookTyped
<1>10. OneSweep'
  BY <1>1, <1>2, <1>4 DEF BookInv, OneSweep
<1>11. ASSUME NEW r \in Book!Regions, Recorded(v, r) PROVE NoOlder(table[r], v.now)
  <2>1. PICK i \in 1..Len(Order) : r = Order[i]
    BY RegionsIn
  <2>2. Swapped(v, i)
    BY <1>5
  <2>. QED  BY <1>11, <2>1, <2>2 DEF Swapped
<1>12. \A r \in Book!Regions : regions'[r] # Nothing =>
         regions'[r].fetched <= hour /\ NoOlder(table[r], regions'[r].fetched)
  <2>. SUFFICES ASSUME NEW r \in Book!Regions, regions'[r] # Nothing
                PROVE  regions'[r].fetched <= hour /\ NoOlder(table[r], regions'[r].fetched)
    OBVIOUS
  <2>1. CASE Recorded(v, r)
    BY <1>5, <1>6, <1>11, <2>1
  <2>2. CASE ~Recorded(v, r)
    <3>1. regions'[r] = regions[r]
      BY <1>7, <2>2
    <3>. QED  BY <3>1 DEF BookInv, Served
  <2>. QED  BY <2>1, <2>2
<1>13. \A r \in Book!Regions : regions[r] # Nothing => regions'[r] # Nothing
  BY <1>6, <1>7
<1>14. Served'
  <2>1. snapshotTime' # Nothing =>
          /\ snapshotTime' \in 0..hour'
          /\ \A r \in Book!Regions : regions'[r] # Nothing /\ NoOlder(table'[r], snapshotTime')
    BY <1>1, <1>13 DEF BookInv, Served
  <2>2. \A r \in Book!Regions : WholeBook(r, table'[r])
    BY <1>1 DEF BookInv, Served
  <2>3. \A r \in Book!Regions : regions'[r] # Nothing =>
          regions'[r].fetched <= hour' /\ NoOlder(table'[r], regions'[r].fetched)
    BY <1>1, <1>12
  <2>. QED  BY <2>1, <2>2, <2>3 DEF Served, WholeBook, NoOlder
<1>15. SweepKeeps(s)'
  <2>1. \A i \in 1..Len(Order) : Dated(sweep[s], i)'
    <3>. SUFFICES ASSUME NEW i \in 1..Len(Order), v.ages[i] # Nothing
                  PROVE  /\ regions'[Order[i]] # Nothing /\ v.ages[i] \in 0..hour
                         /\ NoOlder(table[Order[i]], v.ages[i])
      BY <1>1, <1>3, <1>4 DEF Dated, NoOlder
    <3>. DEFINE r == Order[i]
    <3>1. r \in Book!Regions /\ Swapped(v, i)
      BY <1>5, RegionsIn
    <3>2. CASE Recorded(v, r)
      <4>1. v.ages[i] = v.now
        BY <3>1, <3>2 DEF Swapped
      <4>2. v.now \in 0..hour
        BY <1>5
      <4>. QED  BY <1>6, <1>11, <3>1, <3>2, <4>1, <4>2
    <3>3. CASE ~Recorded(v, r)
      <4>1. regions[r] # Nothing /\ v.ages[i] = regions[r].fetched
        BY <1>5, <3>1, <3>3 DEF Swapped
      <4>2. regions[r] \in Book!States
        BY <3>1, <4>1 DEF BookInv, BookTyped
      <4>3. regions[r].fetched \in Nat
        BY <4>2 DEF Book!States
      <4>4. regions[r].fetched <= hour /\ NoOlder(table[r], regions[r].fetched)
        BY <3>1, <4>1 DEF BookInv, Served
      <4>. QED  BY <1>5, <1>13, <3>1, <4>1, <4>3, <4>4
    <3>. QED  BY <3>2, <3>3
  <2>2. /\ w.now <= hour /\ w.next \in 1..Len(Order) + 1 /\ Len(w.ages) = w.next - 1
        /\ snapshotTime # Nothing => snapshotTime <= w.now
    BY <1>2, <1>3 DEF SweepKeeps
  <2>3. w.next = Len(Order) + 1
    BY <1>3, <1>5
  <2>. QED  BY <1>1, <1>3, <1>4, <2>1, <2>2, <2>3 DEF SweepKeeps
<1>16. \A u \in Book!Sweeps : walk'[u] = Nothing
  BY <1>1, <1>2 DEF BookInv, OneSweep
<1>. QED  BY <1>1, <1>2, <1>4, <1>9, <1>10, <1>14, <1>15, <1>16 DEF BookInv

\* The age of the book is that of one of its regions, and of none an older one.
LEMMA AgeOfAll ==
  ASSUME NEW A, A # {}, \A a \in A : a = Nothing \/ a \in Nat, Book!AgeOfBook(A) # Nothing
  PROVE  /\ Book!AgeOfBook(A) \in A /\ \A a \in A : a # Nothing /\ a \in Nat
         /\ \A a \in A : Book!AgeOfBook(A) <= a
<1>1. Nothing \notin A /\ Book!AgeOfBook(A) = Book!MinOf(A)
  BY DEF Book!AgeOfBook
<1>2. A \in SUBSET Nat
  BY <1>1
<1>3. \E x \in A : \A y \in A : x <= y
  BY <1>2, LeastNumber
<1>4. Book!MinOf(A) \in A /\ \A y \in A : Book!MinOf(A) <= y
  BY <1>3 DEF Book!MinOf
<1>. QED  BY <1>1, <1>2, <1>4

LEMMA RecordSnapshotStep ==
  ASSUME BookInv, NEW s \in Book!Sweeps, Book!RecordSnapshot(s) PROVE BookInv'
<1>. DEFINE v == sweep[s]
            A == {v.ages[i] : i \in 1..Len(v.ages)}
            t == Book!AgeOfBook(A)
<1>1. /\ v # Nothing /\ v.phase = "recorded" /\ snapshotTime' = t
      /\ sweep' = [sweep EXCEPT ![s] = Nothing]
      /\ UNCHANGED <<hour, rotation, table, staging, regions, walk>>
  BY DEF Book!RecordSnapshot, Book!esi
<1>2. /\ v \in SweepStates /\ SweepKeeps(s)
      /\ \A u \in Book!Sweeps : u # s => sweep[u] = Nothing /\ walk[u] = Nothing
  BY <1>1, OnlySweep
<1>3. walk[s] = Nothing
  BY <1>1 DEF BookInv, OneSweep
<1>4. sweep' \in [Book!Sweeps -> {Nothing}] /\ walk' \in [Book!Sweeps -> {Nothing}]
  <2>1. \A u \in Book!Sweeps : sweep'[u] = Nothing /\ walk'[u] = Nothing
    BY <1>1, <1>2, <1>3 DEF BookInv, BookTyped
  <2>. QED  BY <1>1, <2>1 DEF BookInv, BookTyped
<1>5. /\ Len(v.ages) = Len(Order) /\ Len(Order) \in Nat
      /\ \A i \in 1..Len(Order) : Dated(v, i)
      /\ v.due \in (SUBSET Book!Regions) \ {{}} /\ v.ages \in Seq(Nat \cup {Nothing})
  BY <1>1, <1>2, RegionsIn DEF SweepKeeps, SweepStates
<1>6. A # {} /\ \A a \in A : a = Nothing \/ a \in Nat
  <2>1. PICK i \in 1..Len(Order) : TRUE
    BY <1>5, RegionsIn
  <2>2. v.ages[i] \in A
    BY <1>5, <2>1
  <2>3. \A j \in 1..Len(v.ages) : v.ages[j] \in Nat \cup {Nothing}
    BY <1>5
  <2>. QED  BY <2>2, <2>3
<1>. HIDE DEF t
<1>7. t # Nothing =>
        /\ t \in 0..hour
        /\ \A r \in Book!Regions : regions[r] # Nothing /\ NoOlder(table[r], t)
  <2>. SUFFICES ASSUME t # Nothing
                PROVE  /\ t \in 0..hour
                       /\ \A r \in Book!Regions : regions[r] # Nothing /\ NoOlder(table[r], t)
    OBVIOUS
  <2>. HIDE DEF A
  <2>1. t \in A /\ (\A a \in A : a # Nothing /\ a \in Nat) /\ \A a \in A : t <= a
    BY <1>6, AgeOfAll DEF t
  <2>2. \A i \in 1..Len(Order) : v.ages[i] \in A
    BY <1>5 DEF A
  <2>3. PICK k \in 1..Len(Order) : t = v.ages[k]
    BY <1>5, <2>1 DEF A
  <2>4. t \in 0..hour
    <3>1. Dated(v, k) /\ v.ages[k] # Nothing
      BY <1>5, <2>1, <2>2
    <3>. QED  BY <2>3, <3>1 DEF Dated
  <2>5. ASSUME NEW r \in Book!Regions PROVE regions[r] # Nothing /\ NoOlder(table[r], t)
    <3>1. PICK i \in 1..Len(Order) : r = Order[i]
      BY RegionsIn
    <3>2. v.ages[i] # Nothing /\ v.ages[i] \in Nat /\ t <= v.ages[i] /\ t \in Nat
      BY <2>1, <2>2
    <3>3. Dated(v, i)
      BY <1>5
    <3>4. regions[r] # Nothing /\ NoOlder(table[r], v.ages[i])
      BY <3>1, <3>2, <3>3 DEF Dated
    <3>5. table[r] \subseteq BookRows
      BY DEF BookInv, BookTyped
    <3>. QED  BY <3>2, <3>4, <3>5 DEF NoOlder, BookRows
  <2>. QED  BY <2>4, <2>5
<1>8. Served'
  <2>1. /\ \A r \in Book!Regions : WholeBook(r, table'[r])
        /\ \A r \in Book!Regions : regions'[r] # Nothing =>
             regions'[r].fetched <= hour' /\ NoOlder(table'[r], regions'[r].fetched)
    BY <1>1 DEF BookInv, Served
  <2>2. snapshotTime' # Nothing =>
          /\ snapshotTime' \in 0..hour'
          /\ \A r \in Book!Regions : regions'[r] # Nothing /\ NoOlder(table'[r], snapshotTime')
    BY <1>1, <1>7
  <2>. QED  BY <2>1, <2>2 DEF Served, WholeBook, NoOlder
<1>9. staging' \in [Book!Regions -> SUBSET BookRows] /\ \A r \in Book!Regions : IsFiniteSet(staging'[r])
  BY <1>1 DEF BookInv, BookTyped
<1>10. \A u \in Book!Sweeps : sweep'[u] = Nothing /\ walk'[u] = Nothing
  BY <1>4
<1>. QED  BY <1>1, <1>4, <1>8, <1>9, <1>10, SweepOver

LEMMA GivesUp ==
  ASSUME BookInv, NEW s \in Book!Sweeps, Book!Abort(s) \/ Book!TooFew(s) PROVE BookInv'
<1>1. CASE Book!Abort(s)
  <2>1. walk[s] # Nothing /\ Book!SweepFails(s)
    BY <1>1 DEF Book!Abort, Book!Failed, Book!PoolSettled
  <2>2. sweep[s] # Nothing
    BY <2>1 DEF BookInv, OneSweep
  <2>. QED  BY <2>1, <2>2, SweepFailsStep
<1>2. CASE Book!TooFew(s)
  <2>1. sweep[s] # Nothing /\ Book!SweepFails(s)
    BY <1>2 DEF Book!TooFew, Book!InRegions
  <2>. QED  BY <2>1, SweepFailsStep
<1>. QED  BY <1>1, <1>2

LEMMA BookStart == Book!Init => BookInv
<1>. SUFFICES ASSUME Book!Init PROVE BookInv
  OBVIOUS
<1>1. 0 \in Book!Versions /\ 0 \in Nat
  BY BookAssumption DEF Book!Versions
<1>2. BookTyped
  BY <1>1, FS_EmptySet DEF Book!Init, BookTyped
<1>3. OneSweep /\ Served
  BY DEF Book!Init, OneSweep, Served, WholeBook
<1>. QED  BY <1>2, <1>3 DEF Book!Init, BookInv

LEMMA BookStays == ASSUME BookInv, UNCHANGED bookVars PROVE BookInv'
<1>1. hour' \in Nat /\ hour <= hour' /\ rotation' \in [Book!Regions -> Book!Versions]
      /\ UNCHANGED <<table, staging, regions, snapshotTime, sweeping, sweep, walk>>
  BY DEF bookVars, BookInv, BookTyped
<1>. QED  BY <1>1, AroundBook

LEMMA BookStep == ASSUME BookInv, Book!Next PROVE BookInv'
<1>1. CASE Book!Tick
  <2>1. hour' \in Nat /\ hour <= hour' /\ rotation' \in [Book!Regions -> Book!Versions]
        /\ UNCHANGED <<table, staging, regions, snapshotTime, sweeping, sweep, walk>>
    BY <1>1 DEF Book!Tick, Book!saved, BookInv, BookTyped
  <2>. QED  BY <2>1, AroundBook
<1>2. CASE Book!Crash
  BY <1>2, SweepDies
<1>3. ASSUME NEW r \in Book!Regions, Book!Rotate(r) PROVE BookInv'
  <2>1. UNCHANGED <<hour, table, staging, regions, snapshotTime, sweeping, sweep, walk>>
        /\ rotation[r] < MaxRotation /\ rotation' = [rotation EXCEPT ![r] = @ + 1]
    BY <1>3 DEF Book!Rotate, Book!saved
  <2>2. rotation \in [Book!Regions -> Book!Versions] /\ hour \in Nat
    BY DEF BookInv, BookTyped
  <2>3. rotation[r] + 1 \in Book!Versions
    BY <2>1, <2>2, BookAssumption DEF Book!Versions
  <2>4. rotation' \in [Book!Regions -> Book!Versions] /\ hour' \in Nat /\ hour <= hour'
    BY <2>1, <2>2, <2>3
  <2>. QED  BY <2>1, <2>4, AroundBook
<1>4. ASSUME NEW s \in Book!Sweeps, Book!StartSweep(s) PROVE BookInv'
  BY <1>4, StartSweepStep
<1>5. ASSUME NEW s \in Book!Sweeps, Book!Progress(s) PROVE BookInv'
  <2>1. \/ Book!CarryOver(s) \/ Book!StartWalk(s) \/ Book!FirstPage(s) \/ Book!AskPage(s)
        \/ \E p \in Book!Pages : \/ Book!LaterPage(s, p) \/ Book!PageFails(s, p, "failed")
                                 \/ Book!PageFails(s, p, "corrupt")
        \/ Book!Extend(s) \/ Book!WalkDone(s) \/ Book!Rewalk(s) \/ Book!KeepPrevious(s)
        \/ Book!Abort(s) \/ Book!TooFew(s) \/ Book!Swap(s) \/ Book!RecordRegions(s)
        \/ Book!RecordSnapshot(s)
    BY <1>5 DEF Book!Progress
  <2>2. ASSUME NEW p, NEW e \in {"failed", "corrupt"}, Book!PageFails(s, p, e) PROVE BookInv'
    BY <2>2, PageFailsStep
  <2>. QED  BY <2>1, <2>2, CarryOverStep, StartWalkStep, FirstPageStep, AskPageStep, LaterPageStep,
               ExtendStep, WalkDoneStep, RewalkStep, KeepPreviousStep, GivesUp, SwapStep,
               RecordRegionsStep, RecordSnapshotStep
<1>. QED  BY <1>1, <1>2, <1>3, <1>4, <1>5 DEF Book!Next

LEMMA BookKept == BookInv => Book!BookSound
<1>. SUFFICES ASSUME BookInv PROVE Book!BookSound
  OBVIOUS
<1>1. Book!OneRotation
  BY DEF BookInv, Served, WholeBook, Book!OneRotation
<1>2. Book!AgeIsHonest
  BY DEF BookInv, Served, NoOlder, Book!AgeIsHonest
<1>3. Book!FreshMeansRecent
  <2>. SUFFICES ASSUME ~Book!Stale, NEW r \in Book!Regions
                PROVE  /\ regions[r] # Nothing
                       /\ \A x \in table[r] : x.at >= hour - Book!Interval(regions[r]) - StaleAfter
    BY DEF Book!FreshMeansRecent
  <2>1. regions[r] # Nothing
    BY DEF Book!Stale, BookInv, Served
  <2>2. regions[r] \in Book!States /\ hour \in Nat /\ table[r] \subseteq BookRows
    BY <2>1 DEF BookInv, BookTyped
  <2>3. Book!Interval(regions[r]) \in Nat /\ StaleAfter \in Nat /\ regions[r].fetched \in Nat
    BY <2>2, BookAssumption DEF Book!Interval, Book!States
  <2>4. ~(hour > regions[r].fetched + Book!Interval(regions[r]) + StaleAfter)
    BY <2>1 DEF Book!Stale, Book!IsRegionStale
  <2>5. \A x \in table[r] : regions[r].fetched <= x.at /\ x.at \in Nat
    BY <2>1, <2>2 DEF BookInv, Served, NoOlder, BookRows
  <2>. QED  BY <2>1, <2>2, <2>3, <2>4, <2>5
<1>. QED  BY <1>1, <1>2, <1>3 DEF Book!BookSound

LEMMA RegionsKept == ASSUME BookInv, Book!Next PROVE Book!KeepsRegions
<1>1. ASSUME UNCHANGED table PROVE Book!KeepsRegions
  BY <1>1 DEF Book!KeepsRegions
<1>2. ASSUME NEW s \in Book!Sweeps, Book!Swap(s) PROVE Book!KeepsRegions
  <2>. SUFFICES ASSUME NEW r \in Book!Regions, table[r] # {}, table'[r] = {}
                PROVE  sweep[s] # Nothing /\ Book!RecordOf(s, r) # {}
    BY DEF Book!KeepsRegions
  <2>1. /\ table' = staging /\ sweep[s] # Nothing /\ sweep[s].phase = "regions"
        /\ ~(sweep[s].next <= Len(Order))
    BY <1>2 DEF Book!Swap, Book!InRegions, Book!MoreRegions
  <2>2. SweepKeeps(s) /\ sweep[s] \in SweepStates
    BY <2>1, OnlySweep
  <2>3. sweep[s].next - 1 = Len(Order)
    BY <2>1, <2>2, RegionsIn DEF SweepKeeps
  <2>4. PICK i \in 1..Len(Order) : r = Order[i]
    BY RegionsIn
  <2>5. Through(sweep[s], i)
    BY <2>1, <2>2, <2>3, <2>4 DEF SweepKeeps
  <2>6. Recorded(sweep[s], r)
    BY <2>1, <2>4, <2>5 DEF Through
  <2>. QED  BY <2>1, <2>6, RecordsOf
<1>3. ASSUME NEW s \in Book!Sweeps, Book!Progress(s), ~Book!Swap(s) PROVE UNCHANGED table
  <2>1. \/ Book!CarryOver(s) \/ Book!StartWalk(s) \/ Book!FirstPage(s) \/ Book!AskPage(s)
        \/ Book!Extend(s) \/ Book!WalkDone(s) \/ Book!Rewalk(s) \/ Book!KeepPrevious(s)
        => UNCHANGED table
    BY DEF Book!CarryOver, Book!StartWalk, Book!FirstPage, Book!AskPage, Book!Extend,
           Book!WalkDone, Book!Rewalk, Book!KeepPrevious, Book!saved
  <2>2. \A p : Book!LaterPage(s, p) => UNCHANGED table
    BY DEF Book!LaterPage, Book!saved
  <2>3. \A p, e : Book!PageFails(s, p, e) => UNCHANGED table
    BY DEF Book!PageFails, Book!saved
  <2>4. Book!Abort(s) \/ Book!TooFew(s) => UNCHANGED table
    BY DEF Book!Abort, Book!TooFew, Book!SweepFails, Book!saved
  <2>5. Book!RecordRegions(s) \/ Book!RecordSnapshot(s) => UNCHANGED table
    BY DEF Book!RecordRegions, Book!RecordSnapshot
  <2>. QED  BY <1>3, <2>1, <2>2, <2>3, <2>4, <2>5 DEF Book!Progress
<1>4. \/ UNCHANGED table \/ \E s \in Book!Sweeps : Book!Progress(s)
  BY DEF Book!Next, Book!Tick, Book!Crash, Book!Rotate, Book!StartSweep, Book!saved
<1>. QED  BY <1>1, <1>2, <1>3, <1>4

\* The book a market tool reads has each region from one rotation, all of it;
\* a book reported fresh covers every region and is no older than the tiers
\* allow, and its age is never flattered; and only a walk of a region that
\* found it empty leaves it without orders.  This is for any regions, books,
\* intervals and pool, whatever fails, rotates or crashes on the way.
THEOREM BookIsWhole == MCSpec => BookSound
<1>1. MCInit => (chosen = "book" => BookInv)
  BY BookStart DEF MCInit
<1>2. (chosen = "book" => BookInv) /\ [MCNext]_all => (chosen = "book" => BookInv)'
  <2>. SUFFICES ASSUME chosen = "book" => BookInv, [MCNext]_all, chosen' = "book"
                PROVE  BookInv'
    OBVIOUS
  <2>1. chosen = "book" /\ BookInv /\ (Book!Next \/ UNCHANGED bookVars)
    BY DEF MCNext, all
  <2>. QED  BY <2>1, BookStep, BookStays
<1>3. (chosen = "book" => BookInv) => (chosen = "book" => Book!BookSound)
  BY BookKept
<1>4. (chosen = "book" => BookInv) /\ [MCNext]_all => [chosen = "book" => Book!KeepsRegions]_all
  <2>. SUFFICES ASSUME chosen = "book" => BookInv, MCNext, chosen = "book"
                PROVE  Book!KeepsRegions
    OBVIOUS
  <2>1. Book!Next
    BY DEF MCNext
  <2>. QED  BY <2>1, RegionsKept
<1>. QED  BY <1>1, <1>2, <1>3, <1>4, PTL DEF MCSpec, BookSound
=============================================================================
