----------------------------- MODULE Heartbeat -----------------------------
(***************************************************************************)
(* The heartbeat of a character (scheduled/heartbeat-worker.ts,            *)
(* scheduled/heartbeat-config.ts).  A tick takes the rows that are due,    *)
(* polls each check against the state it read, sends what is new in one    *)
(* message, and saves the new state once the message was accepted.  The    *)
(* pilot edits the row meanwhile, ESI and the platform fail, the process   *)
(* dies.                                                                   *)
(*                                                                         *)
(* A check follows either the newest id of a list that grows (mail,        *)
(* contracts, killmails, notifications) or a set whose members leave       *)
(* (orders, industry jobs, skills in training).                            *)
(***************************************************************************)
EXTENDS Integers

CONSTANTS
  Pilots,      \* heartbeat_config: pairs of a user and a character
  Lists,       \* the checks that follow a list
  MaxId,       \* bound on the ids of a list
  Members,     \* what may be in the set the other check follows
  MaxCrashes,  \* bound on the crashes
  Nothing

ASSUME BoundsAssumption == MaxId \in Nat /\ MaxCrashes \in Nat

\* Each check has a key of its own in the saved state.
ASSUME ListsAssumption == "set" \notin Lists

Checks == Lists \cup {"set"}
Ticks == {"this", "next"}   \* two ticks of the schedule

VARIABLES
  newest, left,  \* ESI: newest id of each list; the members that left the set
  config,        \* each row: enabled, checks, due, state
  baseline,      \* history: the first state of each list that was saved
  run,           \* each tick: rows to process, and the row in progress
  told,          \* history: how often a message told of an id or a member
  crashes

vars == <<newest, left, config, baseline, run, told, crashes>>
Ids == 1..MaxId
States == [list : [Lists -> 0..MaxId \cup {Nothing}], set : (SUBSET Members) \cup {Nothing}]
Things == (Lists \X Ids) \cup ({"set"} \X Members)
Configs == [enabled : BOOLEAN, checks : SUBSET Checks, due : BOOLEAN, state : States]
TickStates == [todo : SUBSET Pilots, read : [Pilots -> Configs], row : Pilots \cup {Nothing},
               state : States \cup {Nothing}, polls : SUBSET Checks,
               found : SUBSET Things, accepted : BOOLEAN]

\* Nothing stands for what is absent.
ASSUME NothingAssumption ==
  /\ Nothing \notin Pilots /\ Nothing \notin 0..MaxId /\ (\A s \in SUBSET Members : s # Nothing)
  /\ Nothing \notin States /\ Nothing \notin TickStates

TypeOK ==
  /\ newest \in [Pilots -> [Lists -> 0..MaxId]] /\ left \in [Pilots -> SUBSET Members]
  /\ config \in [Pilots -> Configs]
  /\ baseline \in [Pilots -> [Lists -> 0..MaxId \cup {Nothing}]]
  /\ run \in [Ticks -> TickStates \cup {Nothing}]
  /\ told \in [Pilots -> [Things -> Nat]] /\ crashes \in 0..MaxCrashes

Fresh == [list |-> [c \in Lists |-> Nothing], set |-> Nothing]

Init ==
  /\ newest = [r \in Pilots |-> [c \in Lists |-> 0]] /\ left = [r \in Pilots |-> {}]
  /\ config = [r \in Pilots |-> [enabled |-> TRUE, checks |-> Checks, due |-> TRUE,
                               state |-> Fresh]]
  /\ baseline = [r \in Pilots |-> [c \in Lists |-> Nothing]]
  /\ run = [t \in Ticks |-> Nothing]
  /\ told = [r \in Pilots |-> [x \in Things |-> 0]] /\ crashes = 0

-----------------------------------------------------------------------------
(* ESI, the pilot and the clock.                                           *)

Publish(r, c) ==
  /\ newest[r][c] < MaxId /\ newest' = [newest EXCEPT ![r][c] = @ + 1]
  /\ UNCHANGED <<left, config, baseline, run, told, crashes>>

Leave(r, m) ==
  /\ m \notin left[r] /\ left' = [left EXCEPT ![r] = @ \cup {m}]
  /\ UNCHANGED <<newest, config, baseline, run, told, crashes>>

\* executeHeartbeatConfig: enable_check switches the row on with the check.
Configure(r) ==
  /\ \/ config' = [config EXCEPT ![r].enabled = ~@]
     \/ \E c \in Checks : config' = [config EXCEPT ![r].checks = @ \ {c}]
     \/ \E c \in Checks : config' = [config EXCEPT ![r].checks = @ \cup {c}, ![r].enabled = TRUE]
  /\ UNCHANGED <<newest, left, baseline, run, told, crashes>>

IntervalPasses(r) ==
  /\ ~config[r].due /\ config' = [config EXCEPT ![r].due = TRUE]
  /\ UNCHANGED <<newest, left, baseline, run, told, crashes>>

-----------------------------------------------------------------------------
(* A tick.                                                                 *)

\* The schedule is protected: no tick starts while another runs.
MayTick(t) == \A u \in Ticks : run[u] = Nothing

Due == {r \in Pilots : config[r].enabled /\ config[r].due}

\* The rows are read once, their state and checks with them.
Start(t) ==
  /\ MayTick(t) /\ Due # {}
  /\ run' = [run EXCEPT ![t] =
       [todo |-> Due, read |-> config, row |-> Nothing, state |-> Nothing,
        polls |-> {}, found |-> {}, accepted |-> FALSE]]
  /\ UNCHANGED <<newest, left, config, baseline, told, crashes>>

Between(t) == run[t] # Nothing /\ run[t].row = Nothing
At(t, r) == run[t] # Nothing /\ run[t].row = r
RowOver(t) ==
  run' = [run EXCEPT ![t].row = Nothing, ![t].state = Nothing, ![t].polls = {},
                     ![t].found = {}, ![t].accepted = FALSE]

TakeRow(t, r) ==
  /\ Between(t) /\ r \in run[t].todo
  /\ run' = [run EXCEPT ![t].todo = @ \ {r}, ![t].row = r,
                        ![t].state = run[t].read[r].state, ![t].polls = run[t].read[r].checks]
  /\ UNCHANGED <<newest, left, config, baseline, told, crashes>>

\* No outbound lane: nothing is recorded.  No token: the attempt is.
SkipRow(t, r, tokenless) ==
  /\ Between(t) /\ r \in run[t].todo
  /\ run' = [run EXCEPT ![t].todo = @ \ {r}]
  /\ config' = IF tokenless THEN [config EXCEPT ![r].due = FALSE] ELSE config
  /\ UNCHANGED <<newest, left, baseline, told, crashes>>

EndTick(t) ==
  /\ Between(t) /\ run[t].todo = {} /\ run' = [run EXCEPT ![t] = Nothing]
  /\ UNCHANGED <<newest, left, config, baseline, told, crashes>>

\* The first poll of a list seeds its baseline and tells of nothing.
PollList(t, r, c) ==
  LET last == run[t].state.list[c] IN
  /\ c \in run[t].polls
  /\ run' = [run EXCEPT ![t].polls = @ \ {c}, ![t].state.list[c] = newest[r][c],
       ![t].found = @ \cup IF last = Nothing THEN {}
                           ELSE {<<c, i>> : i \in (last + 1)..newest[r][c]}]

PollSet(t, r) ==
  LET seen == run[t].state.set IN
  /\ "set" \in run[t].polls
  /\ run' = [run EXCEPT ![t].polls = @ \ {"set"}, ![t].state.set = Members \ left[r],
       ![t].found = @ \cup IF seen = Nothing THEN {}
                           ELSE {<<"set", m>> : m \in seen \cap left[r]}]

\* ESI fails, of the list or of a detail: the check keeps its state.
PollFails(t, c) ==
  /\ c \in run[t].polls /\ run' = [run EXCEPT ![t].polls = @ \ {c}]

Poll(t, r) ==
  /\ At(t, r) /\ ~run[t].accepted
  /\ \/ \E c \in Lists : PollList(t, r, c)
     \/ PollSet(t, r)
     \/ \E c \in Checks : PollFails(t, c)
  /\ UNCHANGED <<newest, left, config, baseline, told, crashes>>

Polled(t, r) == At(t, r) /\ run[t].polls = {}

\* The gateway accepted the message.
Accepted(t, r) ==
  /\ Polled(t, r) /\ run[t].found # {} /\ ~run[t].accepted
  /\ told' = [told EXCEPT ![r] = [x \in Things |-> IF x \in run[t].found THEN @[x] + 1 ELSE @[x]]]
  /\ run' = [run EXCEPT ![t].accepted = TRUE]
  /\ UNCHANGED <<newest, left, config, baseline, crashes>>

\* The send failed: nothing is saved, the next tick finds the same again.
SendFails(t, r) ==
  /\ Polled(t, r) /\ run[t].found # {} /\ ~run[t].accepted /\ RowOver(t)
  /\ UNCHANGED <<newest, left, config, baseline, told, crashes>>

PolledAll(t) == TRUE
\* The state is saved with nothing to tell, or once the message was accepted.
MaySave(t) == run[t].found = {} \/ run[t].accepted

\* persistHeartbeatState.
Save(t, r) ==
  /\ Polled(t, r) /\ MaySave(t)
  /\ config' = [config EXCEPT ![r].state = run[t].state, ![r].due = FALSE]
  /\ baseline' = [baseline EXCEPT ![r] =
       [c \in Lists |-> IF @[c] = Nothing THEN run[t].state.list[c] ELSE @[c]]]
  /\ RowOver(t)
  /\ UNCHANGED <<newest, left, told, crashes>>

Crash ==
  /\ crashes < MaxCrashes /\ crashes' = crashes + 1
  /\ run' = [t \in Ticks |-> Nothing]
  /\ UNCHANGED <<newest, left, config, baseline, told>>

Next ==
  \/ Crash
  \/ \E r \in Pilots : Configure(r) \/ IntervalPasses(r)
  \/ \E r \in Pilots, c \in Lists : Publish(r, c)
  \/ \E r \in Pilots, m \in Members : Leave(r, m)
  \/ \E t \in Ticks : Start(t) \/ EndTick(t)
  \/ \E t \in Ticks, r \in Pilots :
       \/ TakeRow(t, r) \/ Poll(t, r) \/ Accepted(t, r) \/ SendFails(t, r) \/ Save(t, r)
       \/ SkipRow(t, r, TRUE) \/ SkipRow(t, r, FALSE)

Spec == Init /\ [][Next]_vars

-----------------------------------------------------------------------------
\* The saved state of a list moves only over ids that a message told of.
NothingSkipped ==
  \A r \in Pilots, c \in Lists :
    config[r].state.list[c] # Nothing =>
      \A i \in (baseline[r][c] + 1)..config[r].state.list[c] : told[r][<<c, i>>] > 0

\* Only a process that died after the message was accepted tells of it again.
ToldOnce == crashes = 0 => \A r \in Pilots, x \in Things : told[r][x] <= 1

\* The pilot hears of every id past the baseline and of each once, whatever he
\* edits during a tick and whichever poll or send fails.
PilotHears == NothingSkipped /\ ToldOnce
=============================================================================
