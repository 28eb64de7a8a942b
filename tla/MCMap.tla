------------------------------- MODULE MCMap -------------------------------
(***************************************************************************)
(* An instance for TLC of the live map and of what the model reads:        *)
(* components that share no state.  The first state chooses the            *)
(* one that steps; ResponseAdmission stays where it starts unless it is    *)
(* the one, and x1, x2, ... stand for the variables of any other, in the   *)
(* order in which its module declares them.                                *)
(*   - ResponseAdmission: five calls, two slots, a queue of two, and one   *)
(*     signal shared by two of the calls;                                  *)
(*   - LiveSessions: two accounts, one character, three streams;           *)
(*   - KillIndex: a kill at a gate and one elsewhere, two viewers;         *)
(*   - LiveStream: two systems that do not see each other, a kill in each; *)
(*   - PerimeterAdvisor, twice: two tabs of one radius and a level rule;   *)
(*     two tabs of one or two radii and a kill;                            *)
(*   - CharacterSync: two characters, a dataset, two calls of one user;    *)
(*   - ReadSubagents: three tasks, two workers, a budget that runs out;    *)
(*   - ProgramCalls: two programs, two tools with windows and shapes;      *)
(*   - KillSearch: four killmails, two of them late, in two windows;       *)
(*   - SystemMetrics: one system, four hours in weeks of two, two ticks;   *)
(*   - StarRoutes: every map of four systems, with what a search may ask;  *)
(*   - ResponseStream: a text and two calls in four events.                *)
(***************************************************************************)
EXTENDS ResponseAdmission, TLC

CONSTANTS
  Systems, Streams, Pilots, Accounts, AccountOf,                \* of LiveSessions
  MaxSessions, MaxPerUser, MaxFailures, MaxMade,
  Near, Kills, SystemOf, Routes, MaxPlans,                      \* of LiveStream
  Mails, Regarded, WhereOf, GateMails, Viewers, Retention,      \* of KillIndex
  GateRetention, Ttl, FillTime, MaxRows, Redelivery, MaxHours,
  Workers, MaxTasks, MaxIterations, MaxModelCalls, MaxLeaves, MaxCalls,  \* of ReadSubagents
  Owners, Characters, Datasets, Retained, Syncs, OwnerOf,           \* of CharacterSync
  MaxVersion, MaxMoves,
  Nothing

VARIABLES chosen, x1, x2, x3, x4, x5, x6, x7, x8, x9, x10, x11, x12, x13,
          x14, x15, x16, x17, x18, x19

others == <<x1, x2, x3, x4, x5, x6, x7, x8, x9, x10, x11, x12, x13, x14, x15,
            x16, x17, x18, x19>>
all == <<chosen, vars, others>>

Sessions == INSTANCE LiveSessions WITH
  Chars <- Pilots, Users <- Accounts, UserOf <- AccountOf,
  owner <- x1, system <- x2, sessions <- x3, made <- x4, charOf <- x5,
  userOf <- x6, timer <- x7, subs <- x8, last <- x9, fails <- x10,
  resting <- x11, leased <- x12, poll <- x13, open <- x14, leaked <- x15

\* There is somebody to watch, a stream has an account, a session may fail once,
\* and the stages of a poll are not names of systems.
ASSUME SessionsAssumption ==
  /\ Pilots # {} /\ Accounts # {}
  /\ AccountOf \in [Streams -> Accounts] /\ MaxMade \in Nat /\ MaxFailures \in Nat \ {0}
  /\ Nothing \notin 0..MaxMade /\ Nothing \notin Systems
  /\ {"no", "online", "location"} \cap Systems = {}

Index == INSTANCE KillIndex WITH
  Kills <- Mails, Systems <- Regarded, SystemOf <- WhereOf, GateKills <- GateMails,
  MaxTime <- MaxHours,
  now <- x1, when <- x2, attached <- x3, rows <- x4, camp <- x5, marks <- x6,
  fill <- x7, told <- x8, evicted <- x9, filled <- x10, asked <- x11

\* The hours are numbers.  What happens at a gate is kept for longer than
\* anything else and than it may be handed to the index again, by the feed or
\* by a search; and the cap of the rows leaves it alone.
ASSUME IndexAssumption ==
  /\ Retention \in Nat /\ GateRetention \in Nat /\ Ttl \in Nat /\ MaxRows \in Nat
  /\ FillTime \in Nat /\ Redelivery \in Nat /\ MaxHours \in Nat
  /\ Retention + FillTime <= GateRetention /\ Redelivery <= GateRetention
  /\ IsFiniteSet(Mails) /\ GateMails \subseteq Mails /\ Cardinality(GateMails) <= MaxRows
  /\ WhereOf \in [Mails -> Regarded]
  /\ Nothing \notin 0..MaxHours /\ Nothing \notin Index!Fills

Stream == INSTANCE LiveStream WITH
  current <- x1, bubble <- x2, backfilled <- x3, pending <- x4, build <- x5,
  queued <- x6, timer <- x7, closed <- x8, indexed <- x9, announced <- x10,
  judged <- x11, passed <- x12, failed <- x13, route <- x14, stale <- x15,
  plans <- x16, drawn <- x17

\* The bound is a number, and nothing is no system, no route, no rebuild and no
\* reason of one.
ASSUME StreamAssumption ==
  /\ MaxPlans \in Nat
  /\ Nothing \notin Systems /\ Nothing \notin Routes /\ Nothing \notin Stream!Builds
  /\ Nothing \notin {"jump", "tick"}

Agents == INSTANCE ReadSubagents WITH
  next <- x1, worker <- x2, over <- x3, asks <- x4, reads <- x5,
  iteration <- x6, good <- x7, bad <- x8, gaps <- x9, results <- x10,
  omitted <- x11, modelCalls <- x12, toolLeaves <- x13, aborted <- x14,
  returned <- x15, sent <- x16

\* There are workers, finitely many, and the budgets are numbers.
ASSUME AgentsAssumption ==
  /\ Workers # {} /\ IsFiniteSet(Workers) /\ MaxTasks \in Nat /\ MaxIterations \in Nat /\ MaxModelCalls \in Nat
  /\ MaxLeaves \in Nat /\ MaxCalls \in Nat /\ Nothing \notin Agents!Statuses

Profile == INSTANCE CharacterSync WITH
  Users <- Owners, Chars <- Characters, Calls <- Syncs, UserOf <- OwnerOf,
  Kept <- Retained,
  owner <- x1, active <- x2, scopes <- x3, version <- x4, moves <- x5,
  rows <- x6, state <- x7, flight <- x8, call <- x9

\* What is kept is a dataset, and nothing is none of the values it stands for.
ASSUME ProfileAssumption ==
  /\ Retained \subseteq Datasets /\ "capabilities" \notin Datasets
  /\ MaxVersion \in Nat /\ MaxMoves \in Nat /\ OwnerOf \in [Syncs -> Owners]
  /\ Nothing \notin Datasets /\ Nothing \notin Owners /\ Nothing \notin Characters
  /\ Nothing \notin Profile!Flights /\ Nothing \notin Profile!Working

-----------------------------------------------------------------------------
\* The constants TLC takes, and the components it has for its own.
CONSTANTS c1, c2, c3, c4, c5, sa, sb

Shared == [c \in {c1, c2, c3, c4, c5} |-> IF c \in {c3, c4} THEN sa ELSE sb]
StreamAccounts == [s1 |-> "u", s2 |-> "u", s3 |-> "v"]
OnePlace == [m \in Mails |-> "y"]
Apart == [s \in Systems |-> {s}]
OneEach == [k |-> "y", l |-> "z"]
OneOwner == [s \in Syncs |-> "u"]

Level == INSTANCE PerimeterAdvisor WITH
  Tabs <- {"t1", "t2"}, Radii <- {1}, Facts <- {"f"}, Kills <- {},
  Rearm <- 1, Grace <- 2, Quiet <- 2, Bands <- {0, 2}, Prose <- 2,
  MaxTime <- 4, MaxStates <- 2,
  now <- x1, fact <- x2, band <- x3, tab <- x4, pending <- x5, pushed <- x6,
  made <- x7, refs <- x8, idle <- x9, held <- x10, lastBand <- x11,
  seen <- x12, quietSince <- x13, modelAt <- x14, said <- x15, noisy <- x16,
  risen <- x17, counted <- x18, prosed <- x19

Edges == INSTANCE PerimeterAdvisor WITH
  Tabs <- {"t1", "t2"}, Radii <- {1, 2}, Facts <- {}, Kills <- {"k"},
  Rearm <- 1, Grace <- 1, Quiet <- 1, Bands <- {0, 2}, Prose <- 2,
  MaxTime <- 2, MaxStates <- 2,
  now <- x1, fact <- x2, band <- x3, tab <- x4, pending <- x5, pushed <- x6,
  made <- x7, refs <- x8, idle <- x9, held <- x10, lastBand <- x11,
  seen <- x12, quietSince <- x13, modelAt <- x14, said <- x15, noisy <- x16,
  risen <- x17, counted <- x18, prosed <- x19

\* Nothing is no number, and none of the records of the advisor.
ASSUME AdvisorAssumption == Level!Sane /\ Edges!Sane

\* Three windows of kills, two of which overlap the third, and three prices.
ProgramRequests ==
  {[tool |-> "kills", key |-> <<"k", n>>, shape |-> Nothing, target |-> "a", from |-> n,
    to |-> n + 2, units |-> 1] : n \in 0..2}
  \cup {[tool |-> "prices", key |-> <<"p", n>>, shape |-> IF n < 2 THEN "s" ELSE "t",
         target |-> Nothing, from |-> 0, to |-> 0, units |-> IF n = 0 THEN 2 ELSE 1] : n \in 0..2}

Program == INSTANCE ProgramCalls WITH
  Programs <- {"p", "q"}, Requests <- ProgramRequests,
  MaxCalls <- [kills |-> 4, prices |-> 4],
  MaxUnits <- [kills |-> 4, prices |-> 2],
  MinCalls <- [kills |-> 2, prices |-> 2], MaxOfTurn <- 3, MaxBatches <- 3,
  known <- x1, refused <- x2, states <- x3, executed <- x4, inFlight <- x5,
  nudges <- x6, outcome <- x7, batches <- x8, admitted <- x9

Killmails == INSTANCE KillSearch WITH
  Kills <- 1..4, Late <- {2, 4}, TimeOf <- <<0, 1, 1, 3>>,
  Ids <- <<{"x"}, {"x", "y"}, {"y"}, {"x"}>>, Wanted <- <<"x", "y">>,
  Sides <- <<{"kills"}, {"losses"}, {"kills", "losses"}, {"losses"}>>,
  Spans <- {<<0, 3>>, <<1, 3>>}, Limits <- {2, 4}, MaxWindow <- 2,
  MaxIds <- 1, MaxRequests <- 5, PageSize <- 2, Ttl <- 1, MaxNow <- 1,
  MaxSearches <- 2,
  now <- x1, published <- x2, cache <- x3, search <- x4, list <- x5,
  searches <- x6, answer <- x7

Metrics == INSTANCE SystemMetrics WITH
  Systems <- {"y"}, WeekHours <- 2, Retention <- 2, Lag <- 1,
  Numbers <- {0, 1}, MaxHour <- 3, MaxTicks <- 2,
  now <- x1, published <- x2, tick <- x3, ticks <- x4, hourly <- x5,
  profile <- x6, sampled <- x7, counted <- x8

Stars == INSTANCE StarRoutes WITH
  Systems <- 1..4, Origin <- 1, Target <- 4, Dangerous <- {{}, {2}},
  Avoids <- {{}, {3}}, Wormholes <- {{}, {<<1, 3>>}}, RiskWeight <- 2,
  ModePenalty <- 5, Caps <- {2, 3}, MaxJumps <- 3,
  gates <- x1, high <- x2, query <- x3, best <- x4, previous <- x5,
  queue <- x6, settled <- x7, distance <- x8, frontier <- x9, depth <- x10,
  result <- x11

Responses == INSTANCE ResponseStream WITH
  Calls <- <<"a", "b">>, Tokens <- 1, MaxSent <- 4,
  indexed <- x1, told <- x2, tokens <- x3, terminal <- x4, pipe <- x5,
  frame <- x6, name <- x7, data <- x8, events <- x9, useful <- x10,
  shown <- x11, outcome <- x12, sent <- x13

MCInit ==
  /\ Init
  /\ \/ /\ chosen = "admission"
        /\ x1 = 0 /\ x2 = 0 /\ x3 = 0 /\ x4 = 0 /\ x5 = 0 /\ x6 = 0 /\ x7 = 0
        /\ x8 = 0 /\ x9 = 0 /\ x10 = 0 /\ x11 = 0 /\ x12 = 0 /\ x13 = 0 /\ x14 = 0
        /\ x15 = 0 /\ x16 = 0 /\ x17 = 0 /\ x18 = 0 /\ x19 = 0
     \/ /\ chosen = "sessions" /\ Sessions!Init
        /\ x16 = 0 /\ x17 = 0 /\ x18 = 0 /\ x19 = 0
     \/ /\ chosen = "index" /\ Index!Init
        /\ x12 = 0 /\ x13 = 0 /\ x14 = 0 /\ x15 = 0 /\ x16 = 0 /\ x17 = 0
        /\ x18 = 0 /\ x19 = 0
     \/ /\ chosen = "stream" /\ Stream!Init
        /\ x18 = 0 /\ x19 = 0
     \/ /\ chosen = "level" /\ Level!Init
     \/ /\ chosen = "edges" /\ Edges!Init
     \/ /\ chosen = "profile" /\ Profile!Init
        /\ x10 = 0 /\ x11 = 0 /\ x12 = 0 /\ x13 = 0 /\ x14 = 0 /\ x15 = 0
        /\ x16 = 0 /\ x17 = 0 /\ x18 = 0 /\ x19 = 0
     \/ /\ chosen = "agents" /\ Agents!Init
        /\ x17 = 0 /\ x18 = 0 /\ x19 = 0
     \/ /\ chosen = "programs" /\ Program!Init
        /\ x10 = 0 /\ x11 = 0 /\ x12 = 0 /\ x13 = 0 /\ x14 = 0 /\ x15 = 0
        /\ x16 = 0 /\ x17 = 0 /\ x18 = 0 /\ x19 = 0
     \/ /\ chosen = "search" /\ Killmails!Init
        /\ x8 = 0 /\ x9 = 0 /\ x10 = 0 /\ x11 = 0 /\ x12 = 0 /\ x13 = 0 /\ x14 = 0
        /\ x15 = 0 /\ x16 = 0 /\ x17 = 0 /\ x18 = 0 /\ x19 = 0
     \/ /\ chosen = "metrics" /\ Metrics!Init
        /\ x9 = 0 /\ x10 = 0 /\ x11 = 0 /\ x12 = 0 /\ x13 = 0 /\ x14 = 0 /\ x15 = 0
        /\ x16 = 0 /\ x17 = 0 /\ x18 = 0 /\ x19 = 0
     \/ /\ chosen = "stars" /\ Stars!Init
        /\ x12 = 0 /\ x13 = 0 /\ x14 = 0 /\ x15 = 0 /\ x16 = 0 /\ x17 = 0
        /\ x18 = 0 /\ x19 = 0
     \/ /\ chosen = "responses" /\ Responses!Init
        /\ x14 = 0 /\ x15 = 0 /\ x16 = 0 /\ x17 = 0 /\ x18 = 0 /\ x19 = 0

MCNext ==
  /\ UNCHANGED chosen
  /\ \/ chosen = "admission" /\ Next /\ UNCHANGED others
     \/ /\ chosen = "sessions" /\ Sessions!Next
        /\ UNCHANGED <<vars, x16, x17, x18, x19>>
     \/ /\ chosen = "index" /\ Index!Next
        /\ UNCHANGED <<vars, x12, x13, x14, x15, x16, x17, x18, x19>>
     \/ /\ chosen = "stream" /\ Stream!Next
        /\ UNCHANGED <<vars, x18, x19>>
     \/ /\ chosen = "level" /\ Level!Next
        /\ UNCHANGED vars
     \/ /\ chosen = "edges" /\ Edges!Next
        /\ UNCHANGED vars
     \/ /\ chosen = "profile" /\ Profile!Next
        /\ UNCHANGED <<vars, x10, x11, x12, x13, x14, x15, x16, x17, x18, x19>>
     \/ /\ chosen = "agents" /\ Agents!Next
        /\ UNCHANGED <<vars, x17, x18, x19>>
     \/ /\ chosen = "programs" /\ Program!Next
        /\ UNCHANGED <<vars, x10, x11, x12, x13, x14, x15, x16, x17, x18, x19>>
     \/ /\ chosen = "search" /\ Killmails!Next
        /\ UNCHANGED <<vars, x8, x9, x10, x11, x12, x13, x14, x15, x16, x17,
                         x18, x19>>
     \/ /\ chosen = "metrics" /\ Metrics!Next
        /\ UNCHANGED <<vars, x9, x10, x11, x12, x13, x14, x15, x16, x17, x18,
                         x19>>
     \/ /\ chosen = "stars" /\ Stars!Next
        /\ UNCHANGED <<vars, x12, x13, x14, x15, x16, x17, x18, x19>>
     \/ /\ chosen = "responses" /\ Responses!Next
        /\ UNCHANGED <<vars, x14, x15, x16, x17, x18, x19>>

MCSpec == MCInit /\ [][MCNext]_all

-----------------------------------------------------------------------------
\* The variables of every component have their types.
TypesOK ==
  /\ TypeOK
  /\ chosen = "sessions" => Sessions!TypeOK
  /\ chosen = "index" => Index!TypeOK
  /\ chosen = "stream" => Stream!TypeOK
  /\ chosen = "level" => Level!TypeOK
  /\ chosen = "edges" => Edges!TypeOK
  /\ chosen = "profile" => Profile!TypeOK
  /\ chosen = "agents" => Agents!TypeOK
  /\ chosen = "programs" => Program!TypeOK
  /\ chosen = "search" => Killmails!TypeOK
  /\ chosen = "metrics" => Metrics!TypeOK
  /\ chosen = "stars" => Stars!TypeOK
  /\ chosen = "responses" => Responses!TypeOK

\* What streams, viewers and workers share.  LiveSessions: nobody is polled
\* unwatched, and nobody watches a session that does not poll or belongs to
\* another.  KillIndex: the counts are complete and the backfill restrained.
\* LiveStream: no kill and no jump is lost in a rebuild.  ReadSubagents: a batch
\* of sub-agents stays within the budget of the turn and calls complete only
\* what is.
SharedSound ==
  /\ chosen = "sessions" => Sessions!LiveSessionsSound
  /\ chosen = "index" => Index!KillIndexSound
  /\ chosen = "stream" => Stream!StreamSound
  /\ chosen = "agents" => Agents!SubagentsSound

\* What a pilot is told and what is kept of him.  PerimeterAdvisor: he is told
\* what is news, is true, and no more often, however many tabs he has and
\* however often they reconnect.  CharacterSync: a refresh writes a character's
\* data under that character, ends for everybody who waits for it, and keeps
\* what was there.
PilotSound ==
  /\ [][chosen = "level" => Level!AdvisorStep]_all
  /\ [](chosen = "level" => Level!AdvisorState)
  /\ [][chosen = "edges" => Edges!AdvisorStep]_all
  /\ [](chosen = "edges" => Edges!AdvisorState)
  /\ [](chosen = "profile" => Profile!ProfileState)
  /\ [][chosen = "profile" => Profile!ProfileStep]_all

\* What is computed from what was read.  SystemMetrics: a sum is of the hours
\* that were published, however often.  StarRoutes: a route costs least, a bubble
\* is whole.  ProgramCalls: programs are charged what was admitted, compare like
\* with like, and end whole.  KillSearch: an answer is complete or says that it
\* is not.  ResponseStream: the calls of the model are dispatched whole, in its
\* order, or not at all.
AnswersSound ==
  /\ chosen = "metrics" => Metrics!MetricsSound
  /\ chosen = "stars" => Stars!RoutesSound
  /\ chosen = "programs" => Program!ProgramsSound
  /\ chosen = "search" => Killmails!SearchSound
  /\ chosen = "responses" => Responses!StreamsSound
=============================================================================
