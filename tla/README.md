# EVE AI, specified in TLA+

A verification development for the EVE AI service: a Node.js process that
answers EVE Online pilots in a browser, in Telegram, in Discord and on the
command line. It keeps its state in one SQLite file, calls a language model and
the EVE APIs, and follows the EVE-KILL feed. Source paths below are relative to
the repository's `src/`. `PROJECT.json` maps every definition to the lines it
models, names the code of every component, and lists the hazards.

- [What the system consists of](#what-the-system-consists-of)
- [How the code becomes a model](#how-the-code-becomes-a-model)
- [The modules](#the-modules)
- [What the runs check](#what-the-runs-check)
- [Fairness](#fairness)
- [What is proved](#what-is-proved)
- [What is only model-checked](#what-is-only-model-checked)
- [Where the code and its documents disagree](#where-the-code-and-its-documents-disagree)
- [Observations without a run](#observations-without-a-run)
- [What is not modelled](#what-is-not-modelled)
- [Plan](#plan)

## What the system consists of

One process owns the database (the runtime lock sees to it). In it run an HTTP
server, the bots, one poller and several workers, as callbacks of one event
loop: code between two `await`s is never interrupted, everything else
interleaves.

| Component | State | Operations | What is hard |
|---|---|---|---|
| Durable web queue (`web/agent-requests.ts`, `chat-routes.ts`) | rows of `web_agent_requests` and their messages; running map, abort controllers, drain flag; buffers and streams | enqueue, cancel, drain/claim, execute, finish, logout, purge, close, recover; stream, poll | a row can become terminal while its turn still runs; a restart finds rows without turns; cancel, deadline and answer race; snapshots reach a tab in any order |
| Admission controllers (`agent/response-admission.ts`) | slot counter, array of waiters, timers | acquire, release, queue timeout, abort | a release that hands over while a timer or signal removes the waiter |
| Turn loop (`agent/executor.ts`, `native-responses.ts`, `compact.ts`, `planner.ts`) | transcript, chain of responses, plans, budgets, remembered side effects | call the model, call tools, compact, retry, recover | a lost chain, a retry and a compaction must leave the model a whole conversation; nothing twice |
| Tools of a turn (`agent/executor.ts`, `read-subagents.ts`) | permits, budgets, programs | call, batch, cancel, fan out | nested permits; one budget shared across awaits; batches refused as a whole |
| Runtime lock (`runtime/process-lock.ts`) | a directory with `owner.json` | acquire, take over a stale lock, release | several processes, crashes, reused PIDs |
| EVE-KILL feed poller (`eve-kill/feed-poll.ts`, `watch.ts`, `messaging/outbound.ts`) | durable cursor, watches, delivery records; listeners, observers | bootstrap, fetch, match, listen, deliver, observe ahead, advance | partial delivery, crash between send and record, platform outage, one cursor for all |
| Route monitor (`eve-board/monitor.ts`, `eve/route-planner.ts`) | one row per chat, dedup rows, counters; instance, job queue, capture | plan, start, baseline, feed event, polls, alert, commit, stop, restore | snapshot-to-live hand-over without a gap; transaction and memory; stop racing every await |
| Browser sessions and lanes (`web/web-session.ts`, `web-lane-lock.ts`) | `web_sessions`, lanes, conversations; lane and character locks | create, expire, logout, cleanup, purge | decisions read before a lock is awaited |
| EVE sign-in (`web/auth-routes.ts`, `eve/eve-login.ts`) | accounts, links, pending logins | consent, callback, adopt, merge, transfer, unlink | plan made before the locks, remade after; foreign keys; a sold character |
| EVE tokens (`eve/sso.ts`) | tokens, refresh in flight, back-off | serve, refresh, store | single flight, compare-and-set against a concurrent sign-in |
| Web admission (`web/web-admission.ts`) | rate windows | admit, prune, merge | limits at a window's edge |
| Bots (`chat/shared.ts`, `telegram/`, `discord/`) | turn in flight per chat, update claims | message, clear, duplicate update | clear racing a turn, at-most-once updates |
| ESI client, kill searches (`eve/esi-client.ts`, `eve-kill/client.ts`) | response cache | call, revalidate, page, retry; search by windows, chunks and pages | pages of two rotations, answers cut at a limit |
| Live map (`eve-map/`, `web/map-routes.ts`) | live sessions, kill index, advisor state, hourly metrics | watch, poll, rebuild, advise, index, backfill, sum | restart and backfill overlap; kills and jumps during a rebuild; several tabs over one state |
| Star map (`eve/map-graph.ts`, `eve/sde-*.ts`) | tables of the static data, cached graph | load, build, route, bubble | a load that dies; routes that are not the cheapest |
| Market (`eve/market-*.ts`) | copy of the order book, alerts and events, histories | sweep, swap, fire, push, sync | half-loaded books, fire once, a rebuild missed |
| Workers (`scheduled/`, `usage/`, `eve/character-sync.ts`) | heartbeat rows, usage rows and sums, private data | tick, send, save; roll up, prune; refresh | a crash between send and save; a character that changes under an await |
| Start and stop (`app.ts`, `app-shutdown.ts`, `db/migrations.ts`) | one deadline; data of older versions | migrate, close in order | a step that blocks the others; data given to the wrong user |

How they meet: the chat routes submit to the queue, whose turns call the tool
executor, which waits at admission controllers; sign-in and logout move,
cancel or delete the rows of the queue under lane locks; the route planner is a
tool of a turn, listens to the poller and starts the monitor; the poller awaits
monitors and senders and only informs the kill index, which the live map reads;
ESI calls take their token from the one refresh of the character; a restart
migrates old data, recovers the queue, restores the monitors and resumes the
feed at its cursor.

The status of every component (modelled, partly, not modelled) with what is left
out of it stands in `PROJECT.json`. "Partly" means that the protocol is there
and single-step parts (formatting, summaries, pure reads) are not.

## How the code becomes a model

- **An action is a synchronous block**: what one handler, continuation or timer
  does between two `await`s, with every call it makes. A SQLite transaction
  (better-sqlite3 is synchronous) is inside one action. Only `ProcessLock` is
  about several operating-system processes; there an action is a system call.
- **Rows survive a crash, memory does not.** The database's rows are variables
  that `Crash` or `Restart` leaves alone; timers, maps, queues, locks and
  subscriptions are reset. A crash may come between any two actions.
- **Timers are nondeterministic**: a deadline or timeout may fire whenever it is
  armed. Where order against a clock matters (shutdown, Telegram's dates, caches,
  rebuilds, budgets) time is a counter. Names, texts, tokens and amounts are
  model values or left out.
- **Bounds** are constants named `Max...` in the guards of the actions that
  count (requests accepted, process starts, events published, user ids issued).
  A run ends when they are used up, hence `CHECK_DEADLOCK FALSE` in the
  configurations; being stuck is caught by the liveness properties.
- Definitions marked `\* a bug` are the wrong variants that show what each
  property detects (`PROJECT.json`, "mutants"); no specification uses them.

**Several components in one run.** Components that share no state are checked
side by side by a harness, one run for all of them. `chosen` is picked by the
first state and never changes; only the chosen component steps, with its own
`Init`, `Next` and properties, so the state graph is the disjoint union of
those of the components. To have few variables, most components of `MCMap`,
`MCWork` and `MCWebRequests` share `x1`, `x2`, ..., which stand for their
variables in the order of declaration; unused ones are 0. `MCWork` EXTENDS
`Heartbeat`, `MCProcess` `ProcessLock`, `MCFeed` `KillFeed`, `MCMap`
`ResponseAdmission` and `MCWebRequests` `WebAgentRequests`, whose variables stay
at their initial values while another component is the chosen one: the
assumptions of those modules are evaluated, and what the runs check of them is
literally what is proved of them. `MCRouteMonitor` and `MCBrowserSignIn` have one
component each. A property `...Sound` of a harness is the conjunction of a
component's properties, each named and explained in its module.

## The modules

### Requests of the browser

**`RequestLifecycle`** is the abstract promise about a request: submitted,
withdrawn, begun once, ended once; a recorded cancellation excludes completion;
what ran is never run again.

**`WebAgentRequests`** is the coordinator with everything that changes its rows.
`Enqueue` and `Cancel` are the routes; `Drain` is the microtask that claims
(`claimNext`) and refuses turns whose character changed; `Deadline`,
`RunnerStores`, `RunnerAnswers`, `RunnerFails` are the turn, `Settle` its
`finally`; `LogoutBegin/Drained/Forced` are `cancelLaneAndWait`, `Revoke...` the
purge after it, `SignIn` the adoption of a lane whose data was kept;
`CloseIngress`, `Close`, `Exit`, `Crash`, `Start` the process. It implements
`RequestLifecycle` (property `LifecycleKept`, theorem `LifecycleImplemented`).
Left out: stream text and activity (`RequestProgress`), cost, the thirty-day
pruning of dedup keys, session expiry as such (a logout covers it), SQL
statements that fail.

**`RequestProgress`** follows one request to a tab: the buffered text and its
flushes, the event streams with their limit per lane, snapshots and deltas that
share one sequence, the polls whose answers arrive in any order, the merge in
the client. **`WebAdmission`** has the budgets per user and for all in a window
and a day, their pruning at a start and the merge of a guest.

### Turns and tools

**`AgentTurn`** runs turns of a conversation in server mode (the provider keeps
the chain of responses) and stateless mode: iterations, batches with reads and
writes, nudges, retries, recoveries from a lost chain, compaction, plans,
cancellation and crashes. A view is the set of messages, calls and outputs that
a request shows the model. **`ResponseStream`** is one call of the model: frames
cut anywhere, the parser, the collected calls, attempts that break.
**`ResponseAdmission`** is the slot controller: `Acquire`, `Release` (with its
hand-over), `TimedOut`, `Abort`; the array of waiters is the set of waiting calls
with their tickets. **`ToolCalls`** holds two instances of it, for tool calls and
for ESI operations, and adds nested batches, workers and cancellation.
**`ReadSubagents`** has the workers, the tasks and the budget they share with the
root; **`ProgramCalls`** validates and charges the batches of a program.
**`ChatTurns`** has the turns of the bots in flight, `/clear` and the closing
ingress; **`TelegramUpdates`** the fetching, claims and stale keyboards.

### Feed, monitor, map

**`KillFeed`** is the poller: pages, listeners, matching, sends, records, the
cursor and the observers that may run ahead of it. A chat's platform may be
absent in this process, refuse permanently, fail, or take a message and lose its
answer. `base`, `owed` and `heard` are history variables. Left out: back-off
delays, digests, the age limit of delivery records, a server whose sequence goes
back.

**`RouteMonitor`** is one chat's monitor with the planner that starts it and the
feed that reaches it. A run is one `MonitorInstance`. Left out: the route and
its danger, wording, alert cooldown and the ageing of events (all are on the
route and recent); several chats and planners (so at most one event is
captured); the online poll, which stops a monitor as the location poll does;
every counter but `killsSeen`. A new monitor's server baseline is taken to hold
every kill up to the feed's head; `KillFeed` covers absent platforms.

**`KillIndex`** records kills, counts gate kills in the camp memory, sweeps under
its row cap and backfills on demand. **`LiveSessions`** polls ESI once per
character for all streams that watch it; **`LiveStream`** is one stream with its
awaited rebuilds and the drawn route; **`PerimeterAdvisor`** is what a pilot is
told unasked, over one state for all his tabs. **`SystemMetrics`** folds two
endpoints into hours and sums. It assumes that an endpoint is never behind by
more than the hours kept; one that were would add an hour again that was pruned.
A number that falls to zero keeps its old value in the hour, averages of jumps
divide by hours that only kills had, and undated responses are left out.
**`StarRoutes`** runs Dijkstra with modes, risks and avoidance, the bubble and
the jump count, against the paths of the graph, over every map of four systems.
**`StaticData`** unpacks, loads in batches and builds the map. A load that dies
before the build number leaves tables newer than the noted build, and after a
failed rebuild the old map is served while `mapGraphReady` is false: both are in
the model and no property excludes them.

### Identities and EVE

**`BrowserSignIn`** has the tables as one record `db` and the handlers around
it: `CreateSession`, `Expire`, `Talk`, `Submit`, `Finish`; `Logout`,
`Cleanup`/`CleanupNext` and `PurgeGranted`; `Callback`, `Exchange`,
`ExchangeFails`, `LockGranted`, `Commit`; the unlink in its two writes; `Sell`,
which changes EVE's owner hash; `AuthAges`. Locks are queues of handlers. A
transaction that would break a foreign key is rolled back, as SQLite does. Left
out: one request per conversation; consent and token formats (folded into
`Callback`); identities of other channels; tables that follow the user without
condition; profile files; the active character (an action of
`WebAgentRequests`); a login row that expires while its handler is under way.

**`EveTokens`** is `getAccessToken` of one character: the stored token, the
shared refresh with its retry, rejection and back-off, verification, and the
compare-and-set on the grant it started from, while the character is signed in
again, sold or unlinked. A grant carries the sign-in it descends from. A token
does not expire while a refresh is in flight: it lives twenty minutes, a refresh
two requests of eight seconds.

**`EsiClient`** is a call through access check, cache, revalidation, retries and
pages. **`CharacterSync`** refreshes private datasets in single flight while
characters switch, unlink and move. **`KillSearch`** searches by windows, chunks
and pages with a limit.

### Markets, workers, start and stop

**`MarketSnapshots`** (sweep, staging table and swap), **`MarketAlerts`** (tick,
claim, push, redelivery), **`MarketHistory`** (daily rebuild, top list, pruning;
the response cache of the history endpoint is abstracted). **`Heartbeat`**: a
tick takes what is due, polls lists and sets against the row it read, sends, and
saves after the send. **`UsageAccounts`**: events, daily sums, retention and the
report; a partly pruned day that gets as many late rows as it lost would be
rebuilt from its leftovers, and is excluded. **`Migrations`**: what each start
does to older data (the backfill of `thread_characters` runs every time; the
users of Discord lanes are not modelled). **`ProcessLock`** is
`acquireRuntimeLock` and the release at system-call grain, for any number of
processes, whose PIDs may be used again. **`Shutdown`** is the ladder of awaits
under one deadline.

## What the runs check

All passing runs explore their whole state space.

| Run | Components and bounds | Shows |
|---|---|---|
| `requests_crash` | `WebAgentRequests`: 1 lane, 2 conversations, 2 keys, 2 slots, 2 requests, 1 character switch, 2 starts; `WebAdmission`: a guest and an account, 4 events in 5 hours; `RequestProgress`: a tab, one stream, a draft and a tool; `UsageAccounts`: 5 events in 5 days; `Migrations`: any of four chats, 2 starts; `StaticData`: 3 exports, 2 loads, 2 starts | `OneRunningPerThread`; `CancelledTurnLeavesNothing`: a cancelled turn leaves nothing in the transcript; `LifecycleKept`: the refinement of `RequestLifecycle`; `ServiceSound`: no budget overdrawn or given back, a tab shows what the row has and never goes back, every use reported once, no data of an older version lost or given to another, no partial table and no map of another one |
| `requests_lanes` | `WebAgentRequests`: 2 lanes of a user, 1 slot, 1 request per lane, one key, one character switch, 2 starts, fairness | `ConcurrencyBounded`: never more turns than slots although rows and turns differ; `RequestsResolve`: every accepted request ends or is deleted |
| `process` | `ProcessLock`: 4 processes, 3 PIDs, one used again, one contender at a time; `Shutdown`: 2 turns, with and without drain; `TelegramUpdates`: a message and a press, 3 processes; `MarketAlerts`: 2 alerts, one attempt, a crash; fairness | `OwnerKeepsLock`, `StaleLockReclaimed`; `StopsSound`: gone before the supervisor kills, no turn cut while drain time is left; `UpdatesSound`: no handler twice, what came while the bot was down is answered; `AlertsSound`: an alert fires once and its event settles |
| `feed` | `KillFeed`: 1 chat, 1 topic, 3 events of which the third repeats a killmail, pages of 1, 1 page ahead, 2 starts; `ToolCalls`: a batch of two calls, one with an ESI operation, beside a call with two, 1 + 1 permits, queues of 1; `EveTokens`: 3 callers of 2 users, 2 sign-ins, 2 grants; fairness | `CursorAfterDelivery`: nothing matched is behind the cursor undelivered; `MonitorsListen`; `NeverSentAgain`; `IndexFollows`: the index follows through outages; `CursorFollows`: the cursor follows when they end; `ToolsSound`: permits come back, a refused call did nothing, nested permits do not deadlock; `TokensSound`: the newest sign-in is kept, tokens are the caller's own, every caller is answered |
| `monitor` | `RouteMonitor`: 1 killmail that comes through capture, baseline and feed, 2 monitors, both polls, 2 starts, fairness | `MonitorIsTrue`: nothing missed in the hand-over, nothing counted twice, stopped monitors stay stopped; `AlertedOnce`; `FeedGoesOn`: the hand-over does not hold the feed |
| `signin` | `BrowserSignIn`: 2 users, 2 lanes, 1 character that may be sold, 2 conversations, 2 handlers at once, restarts | `GuestsAndLinksSound`: links agree with the owner, purges do not break foreign keys; `NobodyLoses`: owned conversations and requests under way survive, the seller's identity is not granted, a sign-in touches only lanes it holds |
| `map` | `ResponseAdmission`: 5 calls, 2 slots, a queue of 2, a shared signal; and eleven others, bounds in `MCMap` | `SlotsAreHeld`, `NoOvertaking`; `MapSound`: sessions, index, stream, sums, routes; `PilotSound`: the advisor says what is news and true, private data are the character's own; `ModelReadsSound`: budgets of sub-agents and programs, complete or flagged searches, whole and ordered calls |
| `work` | `AgentTurn`: 2 turns of 3 requests; `ChatTurns`: 3 chats of 2 users; `EsiClient`: 2 calls, 2 characters, 2 pages; `MarketSnapshots`: 2 regions; `MarketHistory`: one pair, 2 rebuilds; `Heartbeat`: a list and a set, ids to 2, 2 ticks, a crash | `TurnsSafe`: the model sees the whole conversation, no side effect twice, every step brings the end nearer; `BotTurnsSafe`; `EsiAnswersSound`; `BookSound`; `HistorySound`; `PilotHears`: no id of a list is passed over unsaid, none said twice without a crash |
| `requests_twoturns`, `lock_race`, `signin_staying`, `retry_refused` | the harness of the passing run; two contenders in `lock_race`, three users, lanes and two characters in `signin_staying` | the disagreements described below |

Each harness also has a type invariant (`TypesOK`, `TypeOK`). What each conjunct
of a `...Sound` says in full is the comment of its definition.

Why these bounds: two of everything that must interleave and one more where a
third party makes the difference (the third process of the lock race, the event
that repeats a killmail, the third user of `signin_staying`, the caller of
another user in `EveTokens`). Two starts give one crash with a recovery after
it, and recovery depends on nothing but the rows. The two request runs split one
large state space: the crash run has two keys and room for both requests to run
side by side; the lane run makes them compete and has fairness. `signin` uses
symmetry over conversations and characters, which its properties do not
distinguish, and no liveness property rests on it. The branch of `PurgeGranted`
that waits for several character locks needs two characters and is exercised in
the bounds of `signin_staying` only. Where two chats would matter in `KillFeed`,
where several killmails would in `RouteMonitor`, and where a new grant and a
third sign-in meet in `EveTokens`, the theorems hold for any number.

## Fairness

- `WebAgentRequests`: the drain microtask, `finally`, the end of a turn (its
  deadline and its abort see to it), the five-second logout wait, the exit of a
  closed process and the supervisor's restart. Nobody must act, no timer must
  fire, no crash must come.
- `ToolCalls`: promise continuations run, holders release and ESI requests end
  (they have timeouts). Queue timers are not needed.
- `ProcessLock`: a running process goes on to its next system call.
- `KillFeed`: the process is restarted, the loop runs, pages come at last, each
  listener and send ends somehow. Strong fairness on pages and matching says
  that requests do not fail for ever and that users do not keep changing
  monitors in between. `IndexFollows` asks no more; `CursorFollows` is
  conditional on `OutagesEnd`, that no send fails for ever.
- `RouteMonitor`: the loop runs; planner, baseline and jobs end (timeouts);
  listeners are called (strongly: in the order they came, others may come and
  go) and a transaction does not fail for ever.
- `EveTokens`: a refresh goes on; each attempt has a timeout and the
  verification ends either way.
- `Shutdown`: timers fire and promise reactions run. `TelegramUpdates`: the
  process is started again, polls, and handles what it fetched. `MarketAlerts`:
  the schedule ticks, a send ends by its deadline, a back-off ends.
- The other components have safety properties only. That an agent turn ends is
  shown without fairness: each step uses up a part of a bounded budget
  (`TurnsRunOut`).

## What is proved

TLAPS checks the following for every value of the constants. Proofs are in a
`..._proofs` module that EXTENDS the component, for `ProcessLock`, `Heartbeat`
and `EveTokens` at the end of the module itself. The assumptions are the named
`ASSUME`s of the components: maps have their domains, limits are naturals (the
number of slots and the page size are positive), sets of calls and processes are
finite, a null is none of the values it stands beside. `EveTokens` is used
through INSTANCE, so there the same is the hypothesis `Sane` of the theorems,
and the harness of its run assumes it of its instance (`TokensSane`).

The argument is the same everywhere: an inductive invariant `IInv` (or `Inv`)
as a conjunction of named parts, one lemma per action that it is
kept, and the property as a consequence; action properties follow from the
invariant before and after the step. What each invariant adds:

- **`WebAgentRequests_proofs`**: `TypeCorrect`, `ThreadsSerialised`,
  `NoOrphanedRunning`, `CancelledPromptGone`, `SubmittedOnce`,
  `ConcurrencyLimited`, `CancelledTurnsClean`, `LifecycleImplemented`. That a
  drain may start a queued row needs that the row has no turn, no signal and no
  recorded cancellation (`FreshUntilClaimed`), that ids are the number of
  submissions (`RowsNumbered`), and that nothing is in memory while the process
  is down (`MemoryGone`). The refinement shows each step to be a step of
  `RequestLifecycle` or a stutter.
- **`ResponseAdmission_proofs`**: `AdmissionTypes`, `SlotsConserved`,
  `SlotsLimited`, `SlotsUsed`, `FirstComeFirstServed`. Waiters hold distinct
  tickets among those drawn, which makes the head of the queue unique.
- **`ProcessLock`**: `LockKept` and `MutualExclusion` under `MaxContenders = 1`,
  because without it they are false (`lock_race`). The invariant says what a
  contender has learnt: it saw the owner, or the lock is nobody's.
- **`KillFeed_proofs`**: `TypeCorrect`, `CursorAfterDeliveryHolds`,
  `IndexHasNoGapHolds`, `MonitorsListenHolds`, `NeverSentAgainHolds`. The
  invariant describes the loop at each await: what is stopped is forgotten
  (`Stopped`), the event in work is the one after the cursor or behind in its
  page (`InPage`), observed events are indexed (`ObservedIndexed`), recipients
  found are delivered, to do or held for (`InWork`, `Unaccepted`), and older
  events owe nothing (`Behind`).
- **`RouteMonitor_proofs`**: `TypeCorrect`, `MonitorTrue`, `NoSecondAlert`, for
  any number of events, killmails and monitors. `Polled`: the poller works on a
  published event and only once the monitors are restored. `Started`: a monitor
  that was not started is nowhere. `Queues`: a job of the feed is of the event
  in work, and only the first job is past its queue, with no dedup row yet.
  `Counts`: counters, counted killmails and dedup rows agree. `HandedOver`:
  while the planner works the cursor waits behind its snapshot, and so does a
  monitor that has not drained the captured event (`Draining`). `Heard`: a
  monitor whose listener has returned knows the event. With them `RowIsActive`
  and `NothingMissed` are inductive.
- **`BrowserSignIn_proofs`**: `Invariant`, `TypeCorrect`, `GuestsAreSound`,
  `NobodyIsRobbed`, for any number of users, lanes, characters and handlers.
  `Sound` is of the database: foreign keys hold, links match the owner
  (`LinksMatch`), a lane holds something of one user and otherwise of users who
  are gone (`OneLiving`; `Gone`: without character and living session, and so
  for ever), and a request is where its conversation is or on a lane that was
  given up (`Together`). The rest is of the handlers: what locks a sign-in, a
  purge and an unlink hold or await at each stage (`LoginsOK`, `PurgesOK`,
  `UnlinkOK`), and that the guest of a purge that waits for characters is gone
  (`PurgedIsGone`), because the lane has a link and a link's owner is living.
  `Becomes` is what every transaction, rolled back or not, does to the database
  as far as other handlers can tell; each is shown to be such a step once.
- **`Heartbeat`**: `TypeCorrect`, `PilotIsTold`. `ReadIsCurrent` says that
  a row that waits in a tick is as it was read, `Based` that a check with a saved
  id has a baseline, that the id was published, and that who is not in the
  saved set has left; `InProgress` and `BetweenRows` describe a tick at each
  await, `NothingSkipped`, `ToldOnce` and `ToldBefore` what the pilot has heard.
- **`EveTokens`**: `Invariant`, `NewestKept`, `OwnServed`, for any number of
  callers, users, sign-ins and grants. `RowIsNewest`: the stored grant is of the
  newest sign-in and its user's. `OneFlight`: who refreshes is the one in flight.
  `FlightIsOwn`: a refresh started from a row of its caller's user, its reply
  goes on with that line, and a row with the same grant is of that line, so the
  compare-and-set stores only where it started; an expired row met during a
  flight is of its user, so `JoinedIsOwn`: who joins is of the same user.

What the proof attempts taught:

- `Heartbeat`: the invariant was not inductive without the last part of `Based`.
- `BrowserSignIn`: a purge may break a foreign key for ever after a history that
  the bounds of the run do not reach (observation 1 below); the property and the
  theorem speak of a guest who is alone on the lane.
- `EveTokens`: `OwnTokenServed` needs that a token does not expire while a
  refresh is in flight. Without that: `u1` signs in, its token expires and a
  refresh starts; the character is sold, `u2` signs in, that token expires too,
  a call of `u2` joins the refresh; it is sold back, `u1` signs in; the
  compare-and-set fails and both callers get `u1`'s stored token. A token lives
  far longer than a refresh, so the guard of `Expire` says so; the code has no
  check of its own, since `refreshInFlight` is keyed by character only.

## What is only model-checked

- All liveness, since fairness and ENABLED are beyond this prover:
  `RequestsResolve`, `CallsReturn` (in `ToolsSound`), `CallsAnswered` (in
  `TokensSound`), `StaleLockReclaimed`, `StopEnds`, `MessagesAnswered`,
  `EventsSettle`, `IndexFollows`, `CursorFollows`, `FeedGoesOn`.
- The properties of components that share a harness and have no proofs: the
  other parts of `StopsSound`, `UpdatesSound`, `AlertsSound`, `ToolsSound`,
  `ServiceSound`, `MapSound`, `PilotSound`, `ModelReadsSound`, `TurnsSafe`,
  `BotTurnsSafe`, `EsiAnswersSound`, `BookSound` and `HistorySound`, and the
  harnesses' `TypesOK`. What folds and recursive functions compute for every
  input (`StarRoutes`, `KillSearch`, `UsageAccounts`, `ProgramCalls`) would need
  induction over data, which the prover cannot instantiate.
- A specification with fairness (`FairSpec`, `OutageSpec`, the harnesses' `MCSpec`)
  implies the one without, so the theorems hold for it as well.

Proved and repeated by no run: `RunningHasTurn`, `WithinLimit`, `OneOwner`,
`IndexHasNoGap` and the other theorems without a "property" in `PROJECT.json`.

## Where the code and its documents disagree

1. `requests_twoturns`: a forced logout makes a row terminal after five seconds
   while its turn runs on; after the next sign-in the conversation's next turn
   runs beside it. The tests and a comment speak of one running turn per
   conversation; the code guarantees one running *row* (`ThreadsSerialised`).
2. `lock_race`: taking over a stale lock by renaming its directory does not
   protect a lock that a third process acquired between the read and the rename.
3. `signin_staying`: conversations of another lane of a fresh user stay with
   the user row that a merge deletes, where a comment says that nothing does.
4. `retry_refused`: a write that admission refused is remembered as done, and the
   model that is told to retry gets the refusal from memory.

## Observations without a run

Met while modelling or proving; each is about an order of events that the model
has (or, where said, a part it leaves out), and none is checked by a run.

1. **A purge that fails for ever** (`web/web-session.ts:289`; four users, four
   lanes, two characters). B signs `c2` on lane 2, which has a conversation of
   B. Guest C on lane 3 signs `c2` and is merged into B; lane 2's session ends.
   B on lane 3 signs `c1`, whose owner is A: B is folded into A and deleted,
   lane 2's links go to A, its conversation stays B's. Guest D on lane 4 signs
   `c1`, is merged into A and adopts lane 2: the conversation of B is now on
   lane 4. A unlinks both and logs out: the threads are deleted by lane and
   user, B's stays, and deleting the lane breaks the foreign key each time.
2. **No second adoption** (`web/auth-routes.ts:670-675`): a comment says that the
   next adoption retries the teardown of an old lane once its requests finish;
   after the first the lane has no threads or links, so it is never selected.
3. `eve/sso.ts:124`: a caller of another user could join a refresh (above).
4. `eve-map/live-session.ts:184`: the late failure of an older session deletes
   the entry of a newer one (`LiveSessions.OnePollPerCharacter`, three sessions).
5. `web/web-session.ts:245`: lane ids are used again, so a cleanup may end a
   session that got the id of the lane it had selected.
6. `eve/sso.ts:410`, `eve/character-sync.ts:800`: a refresh that ends after the
   unlink writes rows that nobody deletes (`CharacterSync.RowsGoWithTheirAccount`).
7. `eve-map/advisor.ts:95-103`: two tabs of different radii make the shared
   level rule flap.
8. `web/agent-requests.ts:456`: a turn whose deadline fired but whose runner
   still resolves is recorded as cancelled; `tests/unit/web-agent-requests.test.ts:144`
   says deadlines are recorded as failed, which holds when the runner throws.
9. `chat/shared.ts:76-92`: in Discord a message may start a turn while a clear
   waits, and the clear deletes its thread (`ChatTurns.ThreadUnderTurn`).
10. `eve/market-alerts-worker.ts:263-264`: a push whose answer was late is sent
    again (`MarketAlerts.PushedOnce`): delivery is at least once.
11. `app.ts:176-178, 250-251`: the sweep has a budget of its own, so a stop may
    outlast the drain deadline (`Shutdown.StopInsideDrain`), though not the
    supervisor's patience.
12. `eve-map/thread.ts:90`: an advisory written into a conversation between two
    turns is not in the provider's chain and so not seen by the next turn in
    server mode (`AgentTurn` with `Unprompted = TRUE`).
13. In the browser, a merge may drop an activity entry, a reset with an empty
    text leaves the old draft, and a late answer of `recoverActiveRequest` may
    come after a newer one (the last is not modelled).
14. Parts not modelled: `eve-board/monitor.ts` reads the digest's counters after
    the await, so a kill or jump during the model's call counts as told; a newer
    kill may shift the cluster window of `scoreThreat` and lower HIGH to MEDIUM;
    in the briefing "HIGH and window open" is reached at equality only, the text
    of an open window may stand beside a closed one, and a nearer MEDIUM system
    hides a farther HIGH one.

## What is not modelled

Every component is in `PROJECT.json` with its status and note. Not modelled at
all: the command line front end, the catalogue of tools and the prompts, the
board's advisor, threat and briefing, the intelligence tools, configuration and
operations, the sandboxed SQL tools, scripts and deployment. They are tables,
parsing, scoring, wording, rendering, or read-only analyses of data fetched in
one call, without a protocol. The map of definitions covers about an eighth of
the implementation's lines; most of the rest is of these kinds, also inside
components that are modelled (summaries of ESI answers, the React client, SQL
text, formatting).

Whether a cancellation that meets a restart should end as failed or cancelled is
said nowhere; the model has the code's answer. A kill message whose answer was
lost is sent again: delivery is promised at least once only.

## Plan

Done: the modules above with their runs; proofs of the queue, the admission
controller, the lock, the feed, the route monitor, the browser sign-in, the
heartbeat and the tokens.

Left: proofs of `MarketAlerts` (`FiresOnce`) and `TelegramUpdates` (at most
once), whose safety parts are small; `ToolCalls` over the theorems of
`ResponseAdmission`; the circuit breaker of the EVE-KILL client and the
error-limit window of ESI as components; the operators of `static-aggregate.ts`
as a pure module.
