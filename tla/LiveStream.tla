----------------------------- MODULE LiveStream -----------------------------
(***************************************************************************)
(* A live stream of the map: the route GET /map/live of web/map-routes.ts  *)
(* with the drawn route of eve-map/active-route.ts.  The pilot's position  *)
(* and new kills arrive at any time; a rebuild of the bubble around the    *)
(* pilot is awaited meanwhile; what it judges must be what the pilot needs *)
(* to hear where he is now.                                                *)
(*                                                                         *)
(* The bound on kills held for one evaluation is never reached.            *)
(***************************************************************************)
EXTENDS Integers, FiniteSets

CONSTANTS
  Systems,
  Near,      \* of each system: the systems of the bubble around it
  Kills, SystemOf,
  Routes,    \* the routes that may be planned
  MaxPlans,  \* bound on the changes of the active route
  Nothing

VARIABLES
  current,     \* currentSystemId
  bubble,      \* bubbleOriginId, which gives bubbleSystemIds
  backfilled,  \* backfilledOriginId
  pending,     \* pendingKills: pairs of a kill and whether it was announced
  build,       \* the rebuild in flight: its origin, batch and skipBackfill
  queued,      \* refreshQueued
  timer,       \* killRefreshTimer is set
  closed,
  indexed,     \* kills the index has told the stream of
  announced,   \* kills of which the client got a frame
  judged,      \* kills an evaluation has seen
  passed,      \* kills that were outside the bubble, with the origin and where the pilot was
  failed,      \* whether the last rebuild failed
  route,       \* the lane's active route
  stale,       \* its time has run out
  plans,       \* changes of it
  drawn        \* the line on the client's map

work == <<build, queued, failed>>
line == <<route, stale, plans, drawn>>
heard == <<announced, judged, passed>>
vars == <<current, bubble, backfilled, pending, work, timer, closed, indexed, heard, line>>

Held == Kills \X BOOLEAN
Builds == [origin : Systems, batch : SUBSET Held, skip : BOOLEAN]

TypeOK ==
  /\ current \in Systems \cup {Nothing} /\ bubble \in Systems \cup {Nothing}
  /\ backfilled \in Systems \cup {Nothing}
  /\ pending \subseteq Held /\ build \in Builds \cup {Nothing}
  /\ queued \in {"jump", "tick", Nothing}
  /\ timer \in BOOLEAN /\ closed \in BOOLEAN /\ failed \in BOOLEAN
  /\ indexed \subseteq Kills /\ announced \subseteq Kills /\ judged \subseteq Kills
  /\ passed \subseteq Kills \X Systems \X Systems
  /\ route \in Routes \cup {Nothing} /\ drawn \in Routes \cup {Nothing}
  /\ stale \in BOOLEAN /\ plans \in 0..MaxPlans

Init ==
  /\ current = Nothing /\ bubble = Nothing /\ backfilled = Nothing
  /\ pending = {} /\ build = Nothing /\ queued = Nothing
  /\ timer = FALSE /\ closed = FALSE /\ failed = FALSE
  /\ indexed = {} /\ announced = {} /\ judged = {} /\ passed = {}
  /\ route \in Routes \cup {Nothing} /\ stale \in {b \in BOOLEAN : b => route # Nothing}
  /\ plans = 0
  /\ drawn = IF stale THEN Nothing ELSE route

-----------------------------------------------------------------------------
(* refresh(reason): starts a rebuild, or is queued behind the one in       *)
(* flight.  A queued jump wins over a queued tick.                         *)

AnyTick(reason, at, done) == reason = "tick"                       \* a bug
SkipsBackfill(reason, at, done) == reason = "tick" /\ done = at

NotQueued(reason) == queued                                        \* a bug
Queued(reason) == IF reason = "jump" \/ queued = Nothing THEN reason ELSE queued

Started(reason, at, K) ==
  /\ build' = [origin |-> at, batch |-> K, skip |-> SkipsBackfill(reason, at, backfilled)]
  /\ pending' = {}

\* In a handler that leaves the pilot at "at" and K pending.
Refresh(reason, at, K) ==
  IF at = Nothing THEN pending' = K /\ UNCHANGED <<build, queued>>
  ELSE IF build # Nothing
       THEN queued' = Queued(reason) /\ pending' = K /\ UNCHANGED build
       ELSE Started(reason, at, K) /\ UNCHANGED queued

\* A position of the live session, which is a jump when it is news.
Located(s) ==
  /\ ~closed /\ current' = s
  /\ IF s # current THEN Refresh("jump", s, pending)
     ELSE UNCHANGED <<pending, build, queued>>
  /\ UNCHANGED <<bubble, backfilled, timer, closed, indexed, heard, failed, line>>

-----------------------------------------------------------------------------
(* Kills.                                                                  *)

Inside(k, origin) == SystemOf[k] \in Near[origin]

JudgedAtOnce == bubble # Nothing                                   \* a bug
BubbleIsCurrent == bubble # Nothing /\ bubble = current

Indexed(k) ==
  /\ ~closed /\ k \notin indexed /\ indexed' = indexed \cup {k}
  /\ IF ~BubbleIsCurrent
     THEN pending' = pending \cup {<<k, FALSE>>} /\ UNCHANGED <<timer, heard>>
     ELSE IF Inside(k, bubble)
          THEN /\ pending' = pending \cup {<<k, TRUE>>}
               /\ announced' = announced \cup {k}
               /\ timer' = TRUE
               /\ UNCHANGED <<judged, passed>>
          ELSE /\ passed' = passed \cup {<<k, bubble, current>>}
               /\ UNCHANGED <<pending, announced, judged, timer>>
  /\ UNCHANGED <<current, bubble, backfilled, work, closed, line>>

KillTimer ==
  /\ timer /\ timer' = FALSE
  /\ Refresh("tick", current, pending)
  /\ UNCHANGED <<current, bubble, backfilled, closed, indexed, heard, failed, line>>

-----------------------------------------------------------------------------
(* The end of a rebuild.  Its finally block starts the queued one.         *)

\* With K pending, and the bubble's origins as they become.
Finish(K) ==
  /\ queued' = Nothing
  /\ IF queued = Nothing THEN build' = Nothing /\ pending' = K
     ELSE /\ build' = [origin |-> current, batch |-> K,
                       skip |-> SkipsBackfill(queued, current, backfilled')]
          /\ pending' = {}

\* The pilot left while this was building: the kills go to the jump's rebuild.
Overtaken ==
  /\ build # Nothing /\ ~closed /\ build.origin # current
  /\ UNCHANGED <<bubble, backfilled>>
  /\ Finish(build.batch \cup pending)
  /\ failed' = FALSE
  /\ UNCHANGED <<current, timer, closed, indexed, heard, line>>

Ids(K) == {p[1] : p \in K}

\* The kills on hold in K and in work in b.
InHand(K, b) == Ids(K) \cup (IF b = Nothing THEN {} ELSE Ids(b.batch))

\* The bubble is sent; its kills are sorted, announced and judged.
Published ==
  LET o == build.origin
      in == {k \in Ids(build.batch) : Inside(k, o)}
  IN /\ bubble' = o
     /\ backfilled' = IF build.skip THEN backfilled ELSE o
     /\ announced' = announced \cup in
     /\ judged' = judged \cup in
     /\ passed' = passed \cup {<<k, o, current>> : k \in Ids(build.batch) \ in}

ForgetsBatch == pending                                            \* a bug
KeepsBatch == build.batch \cup pending

Built ==
  /\ build # Nothing /\ ~closed /\ build.origin = current
  /\ Published /\ Finish(pending)
  /\ failed' = FALSE
  /\ UNCHANGED <<current, timer, closed, indexed, line>>

\* buildBubble throws, and the batch is judged again later.
BuildFails ==
  /\ build # Nothing /\ ~closed
  /\ UNCHANGED <<bubble, backfilled>>
  /\ Finish(KeepsBatch)
  /\ failed' = TRUE
  /\ UNCHANGED <<current, timer, closed, indexed, heard, line>>

-----------------------------------------------------------------------------
(* The active route of the lane, and the tick of the stream.               *)

\* rememberRoute by the planner, a tool or a route of the map; and the
\* explicit clearing.  Both publish.
Plan(r) ==
  /\ plans < MaxPlans /\ plans' = plans + 1
  /\ route' = r /\ stale' = FALSE
  /\ drawn' = IF closed THEN drawn ELSE r
  /\ UNCHANGED <<current, bubble, backfilled, pending, work, timer, closed, indexed, heard>>

TimeRunsOut ==
  /\ route # Nothing /\ ~stale /\ stale' = TRUE
  /\ UNCHANGED <<current, bubble, backfilled, pending, work, timer, closed, indexed, heard,
                 route, plans, drawn>>

\* getActiveRoute, by any reader.
ForgetsIt == stale' = FALSE /\ route' = IF stale THEN Nothing ELSE route    \* a bug
KeepsIt == UNCHANGED <<route, stale>>

ReadRoute ==
  /\ route # Nothing /\ stale
  /\ KeepsIt
  /\ UNCHANGED <<current, bubble, backfilled, pending, work, timer, closed, indexed, heard,
                 plans, drawn>>

\* expireStaleRoutes by any stream.
Swept ==
  IF stale THEN route' = Nothing /\ stale' = FALSE /\ drawn' = IF closed THEN drawn ELSE Nothing
  ELSE UNCHANGED <<route, stale, drawn>>

IntelTick ==
  /\ ~closed
  /\ Swept /\ Refresh("tick", current, pending)
  /\ UNCHANGED <<current, bubble, backfilled, timer, closed, indexed, heard, failed, plans>>

OthersTick ==
  /\ stale /\ Swept
  /\ UNCHANGED <<current, bubble, backfilled, pending, work, timer, closed, indexed, heard, plans>>

Close ==
  /\ ~closed /\ closed' = TRUE /\ timer' = FALSE
  /\ UNCHANGED <<current, bubble, backfilled, pending, work, indexed, heard, line>>

Next ==
  \/ \E s \in Systems : Located(s)
  \/ \E k \in Kills : Indexed(k)
  \/ KillTimer \/ Overtaken \/ Built \/ BuildFails
  \/ \E r \in Routes \cup {Nothing} : Plan(r)
  \/ TimeRunsOut \/ ReadRoute \/ IntelTick \/ OthersTick \/ Close

Spec == Init /\ [][Next]_vars

-----------------------------------------------------------------------------
\* No kill is lost in a rebuild: what the index told is on hold, in work,
\* judged, or was outside the bubble of the very system the pilot was in.
\* What is judged was announced.
KillsAccounted ==
  ~closed =>
    /\ indexed = InHand(pending, build) \cup judged \cup Ids(passed)
    /\ \A p \in passed : p[2] = p[3]
    /\ judged \subseteq announced

\* The map stays on a system the pilot left only while a rebuild is on its
\* way, or after one that failed.
MapFollowsPilot ==
  ~closed /\ build = Nothing => bubble = current \/ failed

\* New space is backfilled when it is shown, also if the first try failed.
ShownIsBackfilled == bubble # Nothing => backfilled = bubble

\* The client's line is the active route: a reader who finds it out of time
\* does not silently take it away.
LineIsRoute == ~closed => drawn = route \/ (stale /\ drawn = Nothing)

StreamSound == KillsAccounted /\ MapFollowsPilot /\ ShownIsBackfilled /\ LineIsRoute

-----------------------------------------------------------------------------
(* What every step keeps.                                                  *)

\* A rebuild is of a pilot who was somewhere; once he has left, the jump is
\* queued; and one that skips the backfill is of the system backfilled last.
Rebuilding ==
  build # Nothing =>
    /\ current # Nothing
    /\ ~closed /\ build.origin # current => queued # Nothing
    /\ build.skip => backfilled = build.origin

IInv == TypeOK /\ StreamSound /\ Rebuilding
==============================================================================
