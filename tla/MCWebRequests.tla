--------------------------- MODULE MCWebRequests ---------------------------
(***************************************************************************)
(* An instance for TLC of the web requests, of what a browser meets around *)
(* them and of the data they stand on: components that share no state.     *)
(* The first state chooses the one that steps; WebAgentRequests stays      *)
(* where it starts unless it is the one, and x1, x2, ... stand for the     *)
(* variables of any other, in the order in which its module declares them. *)
(*   - WebAdmission: a guest and an account, two kinds of request;         *)
(*   - RequestProgress: one tab, a stream a lane, one draft and one tool;  *)
(*   - UsageAccounts: two users, five events in five days, one of them     *)
(*     late;                                                               *)
(*   - Migrations: any of four chats, two starts;                          *)
(*   - StaticData: three exports, two loads, two starts.                   *)
(***************************************************************************)
EXTENDS WebAgentRequests, TLC

CONSTANTS u1, l1, l2, t1, t2, k1, k2, Nothing

VARIABLES chosen, x1, x2, x3, x4, x5, x6, x7, x8, x9, x10, x11, x12, x13, x14

others == <<x1, x2, x3, x4, x5, x6, x7, x8, x9, x10, x11, x12, x13, x14>>
all == <<chosen, vars, others>>

\* One lane with two conversations.
OneLane   == [l \in {l1} |-> u1]
TwoTalks  == [t \in {t1, t2} |-> l1]

\* Two lanes (browser sessions) of one user.
TwoLanes  == [l \in {l1, l2} |-> u1]
OneEach   == [t \in {t1, t2} |-> IF t = t1 THEN l1 ELSE l2]

Budget == INSTANCE WebAdmission WITH
  Users <- {"u", "v"}, Ips <- {"i"}, Cost <- [chat |-> 2, search |-> 1],
  Window <- 1, Day <- 3, SessionWindow <- 2, Retention <- 1,
  MaxUserWindow <- 2, MaxGlobalWindow <- 3, MaxGlobalDay <- 3,
  MaxUserCost <- 3, MaxGlobalCost <- 5, MaxDayCost <- 6, MaxSessions <- 1,
  MaxEvents <- 4, MaxTime <- 4,
  now <- x1, events <- x2, accepted <- x3, merged <- x4

Shown == INSTANCE RequestProgress WITH
  MaxStreams <- 1, MaxDrafts <- 1, MaxTools <- 1, MaxOpens <- 2,
  MaxAnswers <- 2,
  row <- x1, cancel <- x2, runner <- x3, buffer <- x4, drafts <- x5,
  streams <- x6, lane <- x7, view <- x8, source <- x9, answers <- x10

Usage == INSTANCE UsageAccounts WITH
  Users <- {"u", "v"}, Retention <- 2, MaxDay <- 4, MaxEvents <- 5,
  MaxLate <- 1,
  today <- x1, raw <- x2, daily <- x3, recorded <- x4, late <- x5

Older == INSTANCE Migrations WITH
  Telegram <- {2}, Discord <- {-1}, Chars <- {"a", "b"}, MaxThreads <- 4,
  MaxUsers <- 4, MaxWatches <- 2, MaxStarts <- 2,
  sessions <- x1, accounts <- x2, marked <- x3, local <- x4, users <- x5,
  threads <- x6, links <- x7, owner <- x8, watches <- x9, cleaned <- x10,
  starts <- x11, ran <- x12

\* Three exports: with a record that cannot be bound, with a torn line, and with
\* a system that has no place.
System(id, placed, form) == [row |-> [id |-> id, placed |-> placed], form |-> form]
Gate(a, b) == [row |-> [from |-> a, to |-> b], form |-> "good"]
ThreeExports ==
  {[systems |-> <<System(1, TRUE, "good"), System(2, TRUE, "unbound"), System(3, TRUE, "good")>>,
    gates   |-> <<Gate(1, 3), Gate(3, 2)>>],
   [systems |-> <<System(1, TRUE, "good"), System(2, TRUE, "torn"), System(4, TRUE, "good")>>,
    gates   |-> <<Gate(4, 1)>>],
   [systems |-> <<System(1, TRUE, "good"), System(3, FALSE, "good")>>,
    gates   |-> <<Gate(1, 3)>>]}

Static == INSTANCE StaticData WITH
  Exports <- ThreeExports, BatchSize <- 2, MaxLoads <- 2, MaxStarts <- 2,
  disk <- x1, table <- x2, meta <- x3, load <- x4, line <- x5, batch <- x6,
  pending <- x7, loads <- x8, graph <- x9, graphMeta <- x10, service <- x11,
  starts <- x12, cache <- x13, fresh <- x14

MCInit ==
  /\ Init
  /\ \/ /\ chosen = "requests"
        /\ x1 = 0 /\ x2 = 0 /\ x3 = 0 /\ x4 = 0 /\ x5 = 0 /\ x6 = 0 /\ x7 = 0
        /\ x8 = 0 /\ x9 = 0 /\ x10 = 0 /\ x11 = 0 /\ x12 = 0 /\ x13 = 0 /\ x14 = 0
     \/ /\ chosen = "budgets" /\ Budget!Init
        /\ x5 = 0 /\ x6 = 0 /\ x7 = 0 /\ x8 = 0 /\ x9 = 0 /\ x10 = 0 /\ x11 = 0
        /\ x12 = 0 /\ x13 = 0 /\ x14 = 0
     \/ /\ chosen = "progress" /\ Shown!Init
        /\ x11 = 0 /\ x12 = 0 /\ x13 = 0 /\ x14 = 0
     \/ /\ chosen = "usage" /\ Usage!Init
        /\ x6 = 0 /\ x7 = 0 /\ x8 = 0 /\ x9 = 0 /\ x10 = 0 /\ x11 = 0 /\ x12 = 0
        /\ x13 = 0 /\ x14 = 0
     \/ /\ chosen = "older data" /\ Older!Init
        /\ x13 = 0 /\ x14 = 0
     \/ /\ chosen = "static data" /\ Static!Init

MCNext ==
  /\ UNCHANGED chosen
  /\ \/ chosen = "requests" /\ Next /\ UNCHANGED others
     \/ /\ chosen = "budgets" /\ Budget!Next
        /\ UNCHANGED <<vars, x5, x6, x7, x8, x9, x10, x11, x12, x13, x14>>
     \/ /\ chosen = "progress" /\ Shown!Next
        /\ UNCHANGED <<vars, x11, x12, x13, x14>>
     \/ /\ chosen = "usage" /\ Usage!Next
        /\ UNCHANGED <<vars, x6, x7, x8, x9, x10, x11, x12, x13, x14>>
     \/ /\ chosen = "older data" /\ Older!Next
        /\ UNCHANGED <<vars, x13, x14>>
     \/ /\ chosen = "static data" /\ Static!Next
        /\ UNCHANGED vars

MCSpec == MCInit /\ [][MCNext]_all

\* The requests alone, with their fairness.
RequestsInit == MCInit /\ chosen = "requests"
RequestsSpec == RequestsInit /\ [][MCNext]_all /\ Fairness

-----------------------------------------------------------------------------
\* What stands around the requests.  WebAdmission: no budget is overdrawn,
\* by pruning or by signing in.  RequestProgress: a tab shows what the row has,
\* and never goes back.  UsageAccounts: every use is in the report once, also
\* when its rows are pruned.  Migrations: a start loses nobody's data, and gives
\* it to nobody else.  StaticData: no table is partial, and the map is of the
\* tables.
ServiceSound ==
  /\ [](chosen = "budgets" => Budget!TypeOK /\ Budget!AdmissionState)
  /\ [][chosen = "budgets" => Budget!AdmissionStep]_all
  /\ [](chosen = "progress" => Shown!TypeOK /\ Shown!ProgressState)
  /\ [][chosen = "progress" => Shown!ProgressStep]_all
  /\ [](chosen = "usage" => Usage!TypeOK /\ Usage!UsageState)
  /\ [][chosen = "usage" => Usage!UsageStep]_all
  /\ [](chosen = "older data" => Older!TypeOK /\ Older!Settled)
  /\ [][chosen = "older data" => Older!NothingIsLost]_all
  /\ [](chosen = "static data" => Static!TypeOK /\ Static!StaticDataSound)
=============================================================================
