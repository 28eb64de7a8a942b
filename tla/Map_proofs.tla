------------------------------ MODULE Map_proofs ------------------------------
(***************************************************************************)
(* Proofs about the components of MCMap: ResponseAdmission for any calls,  *)
(* signals and slots, LiveSessions for any characters, accounts, streams   *)
(* and limits, LiveStream for any systems, bubbles, kills and routes,      *)
(* ReadSubagents for any workers, tasks and budgets, and KillIndex for any *)
(* kills, systems and viewers.                                             *)
(***************************************************************************)
EXTENDS MCMap, FiniteSetTheorems, WellFoundedInduction, TLAPS

-----------------------------------------------------------------------------
(* LiveSessions.  Its variables are x1, ..., x15: x3 the sessions, x5 and  *)
(* x6 the character and account of each, x7 who has a timer, x8 the        *)
(* subscribers, x14 the session of each stream.                            *)

LEMMA SessionsInit == Sessions!Init => Sessions!IInv
<1>. SUFFICES ASSUME Sessions!Init PROVE Sessions!IInv  OBVIOUS
<1>. USE SessionsAssumption DEF Sessions!Init, Sessions!Made
<1>1. Sessions!TypeOK  BY DEF Sessions!TypeOK, Sessions!Polls
<1>2. Sessions!WatchedWhilePolled  BY DEF Sessions!WatchedWhilePolled
<1>3. Sessions!EntriesPoll /\ Sessions!OwnAccounts /\ Sessions!MayFail
  BY DEF Sessions!EntriesPoll, Sessions!OwnAccounts, Sessions!MayFail
<1>. QED  BY <1>1, <1>2, <1>3 DEF Sessions!IInv

\* Attaching, leaving, stopping.
LEMMA SessionsJoin ==
  ASSUME Sessions!IInv, NEW s \in Streams, NEW c \in Pilots, Sessions!Join(s, c)
  PROVE  Sessions!IInv'
<1>. USE SessionsAssumption DEF Sessions!IInv, Sessions!Join, Sessions!eve, Sessions!session
<1>1. Sessions!TypeOK'
  <2>. USE DEF Sessions!TypeOK
  <2>1. x3[c] \in Sessions!Made  OBVIOUS
  <2>2. /\ x8' \in [Sessions!Made -> SUBSET Streams] /\ x14' \in [Streams -> Sessions!Made \cup {Nothing}]
        /\ x12' \subseteq Sessions!Made
    BY <2>1
  <2>3. x15' \subseteq Streams  BY DEF Sessions!Sent
  <2>4. UNCHANGED <<x1, x2, x3, x4, x5, x6, x7, x9, x10, x11, x13>>  OBVIOUS
  <2>5. Sessions!TypeOK  OBVIOUS
  <2>. HIDE DEF Sessions!Join, Sessions!IInv
  <2>. QED  BY <2>2, <2>3, <2>4, <2>5
<1>2. Sessions!WatchedWhilePolled'
  BY DEF Sessions!TypeOK, Sessions!WatchedWhilePolled, Sessions!EntriesPoll, Sessions!Made
<1>3. Sessions!EntriesPoll'  BY DEF Sessions!EntriesPoll
<1>4. Sessions!OwnAccounts' /\ x15' = {}
  BY DEF Sessions!TypeOK, Sessions!OwnAccounts, Sessions!SameAccount, Sessions!Sent
<1>5. Sessions!MayFail'  BY DEF Sessions!MayFail
<1>. QED  BY <1>1, <1>2, <1>3, <1>4, <1>5

LEMMA SessionsAttach ==
  ASSUME Sessions!IInv, NEW s \in Streams, NEW c \in Pilots, Sessions!Attach(s, c)
  PROVE  Sessions!IInv'
<1>. USE SessionsAssumption
     DEF Sessions!IInv, Sessions!Attach, Sessions!eve, Sessions!Made, Sessions!TypeOK
<1>1. x4 + 1 \in Sessions!Made /\ x4 + 1 \notin x7
  BY DEF Sessions!EntriesPoll
<1>2. Sessions!TypeOK'  BY <1>1 DEF Sessions!Polls
<1>3. Sessions!WatchedWhilePolled'  BY <1>1 DEF Sessions!WatchedWhilePolled
<1>4. Sessions!EntriesPoll'  BY <1>1 DEF Sessions!EntriesPoll
<1>5. Sessions!OwnAccounts'
  BY <1>1 DEF Sessions!OwnAccounts, Sessions!WatchedWhilePolled
<1>6. Sessions!MayFail'  BY <1>1 DEF Sessions!MayFail
<1>. QED  BY <1>2, <1>3, <1>4, <1>5, <1>6

\* A session stops when the streams that watch it go, and its poll goes on, or
\* fails.
LEMMA SessionsStop ==
  ASSUME Sessions!IInv, NEW m \in Sessions!Made, Sessions!Stop(m, x8[m]),
         UNCHANGED <<Sessions!eve, Sessions!session, x9, x12, x15>>,
         x11' = x11,
         \/ UNCHANGED <<x10, x13>>
         \/ /\ x13[m] # "no" /\ x13' = [x13 EXCEPT ![m] = "no"]
            /\ x10' = [x10 EXCEPT ![m] = @ + 1]
  PROVE  Sessions!IInv'
<1>. USE SessionsAssumption
     DEF Sessions!IInv, Sessions!Stop, Sessions!EntryDeleted, Sessions!eve, Sessions!session,
         Sessions!Made, Sessions!TypeOK
<1>1. Sessions!TypeOK'
  <2>1. x10' \in [Sessions!Made -> 0..MaxFailures]  BY DEF Sessions!MayFail
  <2>2. x13' \in [Sessions!Made -> Sessions!Polls]  BY DEF Sessions!Polls
  <2>. QED  BY <2>1, <2>2
<1>2. Sessions!WatchedWhilePolled'  BY DEF Sessions!WatchedWhilePolled
<1>3. Sessions!EntriesPoll'  BY DEF Sessions!EntriesPoll
<1>4. Sessions!OwnAccounts'  BY DEF Sessions!OwnAccounts
<1>5. Sessions!MayFail'  BY DEF Sessions!MayFail
<1>. QED  BY <1>1, <1>2, <1>3, <1>4, <1>5

LEMMA SessionsLeave ==
  ASSUME Sessions!IInv, NEW s \in Streams, Sessions!Leave(s)
  PROVE  Sessions!IInv'
<1>. USE SessionsAssumption DEF Sessions!Leave, Sessions!eve, Sessions!session
<1>. DEFINE m == x14[s]
<1>1. m \in Sessions!Made
  BY DEF Sessions!IInv, Sessions!TypeOK
<1>2. CASE x8[m] = {s}
  BY <1>1, <1>2, SessionsStop
<1>3. CASE x8[m] # {s}
  <2>. DEFINE rest == <<x1, x2, x3, x4, x5, x6, x7, x9, x10, x11, x12, x13, x15>>
  <2>0. /\ UNCHANGED rest
        /\ x8' = [x8 EXCEPT ![m] = @ \ {s}] /\ x14' = [x14 EXCEPT ![s] = Nothing]
    BY <1>3
  <2>. HIDE DEF m, Sessions!Leave
  <2>. USE <1>1, <1>3, <2>0 DEF Sessions!IInv, Sessions!TypeOK
  <2>1. Sessions!TypeOK'  OBVIOUS
  <2>2. Sessions!WatchedWhilePolled'
    <3>. USE DEF m, Sessions!WatchedWhilePolled
    <3>1. \A n \in x7 : x8'[n] # {}  BY DEF Sessions!Made
    <3>2. \A n \in Sessions!Made : \A r \in x8'[n] : x14'[r] = n  BY DEF Sessions!Made
    <3>3. \A r \in Streams : x14'[r] # Nothing => x14'[r] \in x7 /\ r \in x8'[x14'[r]]
      BY DEF Sessions!Made
    <3>. QED  BY <3>1, <3>2, <3>3
  <2>3. Sessions!EntriesPoll'  BY DEF Sessions!EntriesPoll
  <2>4. Sessions!OwnAccounts'  BY DEF Sessions!OwnAccounts
  <2>5. Sessions!MayFail'  BY DEF Sessions!MayFail
  <2>. QED  BY <2>1, <2>2, <2>3, <2>4, <2>5
<1>. QED  BY <1>2, <1>3

LEMMA SessionsStopAll == ASSUME Sessions!IInv, Sessions!StopAll PROVE Sessions!IInv'
<1>. USE SessionsAssumption
     DEF Sessions!IInv, Sessions!StopAll, Sessions!eve, Sessions!session, Sessions!Made,
         Sessions!TypeOK, Sessions!Live
<1>1. Sessions!TypeOK'  OBVIOUS
<1>2. Sessions!WatchedWhilePolled'  BY DEF Sessions!WatchedWhilePolled
<1>3. Sessions!EntriesPoll'  BY DEF Sessions!EntriesPoll
<1>4. Sessions!OwnAccounts'  BY DEF Sessions!OwnAccounts
<1>5. Sessions!MayFail'  BY DEF Sessions!MayFail
<1>. QED  BY <1>1, <1>2, <1>3, <1>4, <1>5

\* Polling.
LEMMA SessionsPoll ==
  ASSUME Sessions!IInv, NEW m \in Sessions!Made,
         Sessions!Tick(m) \/ Sessions!Online(m) \/ Sessions!Located(m) \/ Sessions!Emitted(m)
         \/ Sessions!Fails(m)
  PROVE  Sessions!IInv'
<1>. USE SessionsAssumption DEF Sessions!eve, Sessions!session
<1>1. CASE Sessions!Tick(m) /\ m \notin x12
  BY <1>1, SessionsStop DEF Sessions!Tick, Sessions!Fatal
<1>2. CASE Sessions!Fails(m) /\ Sessions!LastFailure(m)
  BY <1>2, SessionsStop DEF Sessions!Fails, Sessions!Fatal
<1>3. CASE \/ Sessions!Tick(m) /\ m \in x12
           \/ Sessions!Online(m) \/ Sessions!Located(m)
           \/ Sessions!Fails(m) /\ ~Sessions!LastFailure(m)
  <2>. USE DEF Sessions!IInv
  <2>0. /\ UNCHANGED <<x1, x2, x3, x4, x5, x6, x7, x8, x9, x12, x14, x15>>
        /\ x13' \in [Sessions!Made -> Sessions!Polls] /\ x11' \subseteq Sessions!Made
        /\ \A n \in Sessions!Made : n # m => x13'[n] = x13[n] /\ x10'[n] = x10[n]
        /\ x10' \in [Sessions!Made -> 0..MaxFailures]
        /\ x10'[m] < MaxFailures /\ (m \in x7 \/ x13[m] # "no")
    <3>1. CASE Sessions!Tick(m) /\ m \in x12
      BY <3>1 DEF Sessions!Tick, Sessions!TypeOK, Sessions!Polls, Sessions!MayFail
    <3>2. CASE Sessions!Online(m)
      BY <3>2 DEF Sessions!Online, Sessions!TypeOK, Sessions!Polls, Sessions!MayFail
    <3>3. CASE Sessions!Located(m)
      BY <3>3 DEF Sessions!Located, Sessions!TypeOK, Sessions!Polls, Sessions!MayFail
    <3>4. CASE Sessions!Fails(m) /\ ~Sessions!LastFailure(m)
      BY <3>4 DEF Sessions!Fails, Sessions!LastFailure, Sessions!TypeOK, Sessions!Polls,
                  Sessions!MayFail
    <3>. QED  BY <1>3, <3>1, <3>2, <3>3, <3>4
  <2>1. Sessions!TypeOK'  BY <2>0 DEF Sessions!TypeOK
  <2>2. Sessions!WatchedWhilePolled'  BY <2>0 DEF Sessions!WatchedWhilePolled
  <2>3. Sessions!EntriesPoll'  BY <2>0 DEF Sessions!EntriesPoll
  <2>4. Sessions!OwnAccounts' /\ x15' = {}  BY <2>0 DEF Sessions!OwnAccounts
  <2>5. Sessions!MayFail'
    <3>1. m <= x4
      BY <2>0 DEF Sessions!MayFail, Sessions!EntriesPoll, Sessions!TypeOK, Sessions!Made
    <3>2. ASSUME NEW n \in Sessions!Made
          PROVE  /\ n \in x7' \/ x13'[n] # "no" => x10'[n] < MaxFailures
                 /\ n > x4' => x13'[n] = "no" /\ x10'[n] = 0
      <4>1. /\ n \in x7 \/ x13[n] # "no" => x10[n] < MaxFailures
            /\ n > x4 => x13[n] = "no" /\ x10[n] = 0
        BY DEF Sessions!MayFail
      <4>2. CASE n # m  BY <2>0, <4>1, <4>2
      <4>3. CASE n = m
        <5>1. m \in Nat /\ x4 \in Nat  BY DEF Sessions!TypeOK, Sessions!Made
        <5>. QED  BY <2>0, <3>1, <4>3, <5>1
      <4>. QED  BY <4>2, <4>3
    <3>. QED  BY <3>2 DEF Sessions!MayFail
  <2>. QED  BY <2>1, <2>2, <2>3, <2>4, <2>5
<1>4. CASE Sessions!Emitted(m)
  <2>. USE <1>4 DEF Sessions!IInv, Sessions!Emitted
  <2>1. Sessions!TypeOK'  BY DEF Sessions!TypeOK, Sessions!Polls, Sessions!Sent, Sessions!Made
  <2>2. Sessions!WatchedWhilePolled'  BY DEF Sessions!WatchedWhilePolled
  <2>3. Sessions!EntriesPoll'  BY DEF Sessions!EntriesPoll
  <2>4. Sessions!OwnAccounts' /\ x15' = {}
    BY DEF Sessions!OwnAccounts, Sessions!Sent, Sessions!TypeOK
  <2>5. Sessions!MayFail'  BY DEF Sessions!MayFail, Sessions!TypeOK
  <2>. QED  BY <2>1, <2>2, <2>3, <2>4, <2>5
<1>. QED  BY <1>1, <1>2, <1>3, <1>4

LEMMA SessionsStep ==
  Sessions!IInv /\ (Sessions!Next \/ UNCHANGED Sessions!vars) => Sessions!IInv'
<1>. SUFFICES ASSUME Sessions!IInv, Sessions!Next \/ UNCHANGED Sessions!vars
              PROVE  Sessions!IInv'
  OBVIOUS
<1>1. CASE \/ \E s \in Streams : Sessions!Touch(s)
           \/ \E m \in Sessions!Made : Sessions!RestEnds(m) \/ Sessions!LeaseEnds(m)
           \/ \E c \in Pilots, s \in Systems : Sessions!Jump(c, s)
           \/ \E c \in Pilots, u \in Accounts : Sessions!Transfer(c, u)
           \/ UNCHANGED Sessions!vars
  <2>. USE DEF Sessions!IInv, Sessions!eve, Sessions!session
  <2>0. UNCHANGED <<x3, x4, x5, x6, x7, x8, x9, x10, x13, x14, x15>>
    BY <1>1 DEF Sessions!vars, Sessions!Touch, Sessions!RestEnds, Sessions!LeaseEnds,
                Sessions!Jump, Sessions!Transfer
  <2>1. Sessions!TypeOK'
    <3>1. /\ x1' \in [Pilots -> Accounts] /\ x2' \in [Pilots -> Systems]
          /\ x11' \subseteq Sessions!Made /\ x12' \subseteq Sessions!Made
      <4>1. CASE \E s \in Streams : Sessions!Touch(s)
        BY <4>1 DEF Sessions!Touch, Sessions!TypeOK
      <4>2. CASE \E m \in Sessions!Made : Sessions!RestEnds(m) \/ Sessions!LeaseEnds(m)
        BY <4>2 DEF Sessions!RestEnds, Sessions!LeaseEnds, Sessions!TypeOK
      <4>3. CASE \E c \in Pilots, s \in Systems : Sessions!Jump(c, s)
        BY <4>3 DEF Sessions!Jump, Sessions!TypeOK
      <4>4. CASE \E c \in Pilots, u \in Accounts : Sessions!Transfer(c, u)
        BY <4>4 DEF Sessions!Transfer, Sessions!TypeOK
      <4>5. CASE UNCHANGED Sessions!vars
        BY <4>5 DEF Sessions!vars, Sessions!TypeOK
      <4>. QED  BY <1>1, <4>1, <4>2, <4>3, <4>4, <4>5
    <3>. QED  BY <2>0, <3>1 DEF Sessions!TypeOK
  <2>2. Sessions!WatchedWhilePolled'  BY <2>0 DEF Sessions!WatchedWhilePolled
  <2>3. Sessions!EntriesPoll'  BY <2>0 DEF Sessions!EntriesPoll
  <2>4. Sessions!OwnAccounts' /\ x15' = {}  BY <2>0 DEF Sessions!OwnAccounts
  <2>5. Sessions!MayFail'  BY <2>0 DEF Sessions!MayFail
  <2>. QED  BY <2>1, <2>2, <2>3, <2>4, <2>5
<1>. QED
  BY <1>1, SessionsJoin, SessionsAttach, SessionsLeave, SessionsStopAll, SessionsPoll
  DEF Sessions!Next

-----------------------------------------------------------------------------
(* LiveStream.  Its variables are x1, ..., x17: x1 where the pilot is, x2  *)
(* the origin of the bubble, x3 what was backfilled, x4 the pending kills, *)
(* x5 the rebuild, x6 what is queued behind it, x8 whether it is closed.   *)

LEMMA StreamInit == Stream!Init => Stream!IInv
<1>. SUFFICES ASSUME Stream!Init PROVE Stream!IInv  OBVIOUS
<1>. USE StreamAssumption DEF Stream!Init
<1>1. Stream!TypeOK
  <2>1. x15 \in BOOLEAN /\ x17 \in Routes \cup {Nothing}  OBVIOUS
  <2>2. x16 \in 0..MaxPlans  OBVIOUS
  <2>3. x12 \subseteq Kills \X Systems \X Systems  OBVIOUS
  <2>4. x4 \subseteq Stream!Held /\ x9 \subseteq Kills /\ x10 \subseteq Kills /\ x11 \subseteq Kills
    OBVIOUS
  <2>5. x1 = Nothing /\ x2 = Nothing /\ x3 = Nothing /\ x5 = Nothing /\ x6 = Nothing  OBVIOUS
  <2>6. x7 \in BOOLEAN /\ x8 \in BOOLEAN /\ x13 \in BOOLEAN /\ x14 \in Routes \cup {Nothing}
    OBVIOUS
  <2>. HIDE DEF Stream!Init
  <2>. QED  BY <2>1, <2>2, <2>3, <2>4, <2>5, <2>6 DEF Stream!TypeOK
<1>2. Stream!KillsAccounted  BY DEF Stream!KillsAccounted, Stream!Ids, Stream!InHand
<1>3. Stream!MapFollowsPilot /\ Stream!ShownIsBackfilled /\ Stream!LineIsRoute
  BY DEF Stream!MapFollowsPilot, Stream!ShownIsBackfilled, Stream!LineIsRoute
<1>. QED  BY <1>1, <1>2, <1>3 DEF Stream!IInv, Stream!StreamSound, Stream!Rebuilding

\* A refresh that finds the pilot at "at" holds the kills it had, has a rebuild
\* for a jump under way or queued, and leaves the rest alone.
LEMMA StreamRefresh ==
  ASSUME Stream!TypeOK, Stream!Rebuilding, NEW reason \in {"jump", "tick"},
         NEW at \in Systems \cup {Nothing}, Stream!Refresh(reason, at, x4), x1' = at,
         x3' = x3, x8' = x8,
         at = x1 \/ (reason = "jump" /\ at # Nothing)
  PROVE  /\ x4' \in SUBSET Stream!Held /\ x5' \in Stream!Builds \cup {Nothing}
         /\ x6' \in {"jump", "tick", Nothing}
         /\ Stream!InHand(x4', x5') = Stream!InHand(x4, x5)
         /\ Stream!Rebuilding'
         /\ x5' = Nothing => x5 = Nothing /\ at = Nothing
<1>. USE StreamAssumption DEF Stream!TypeOK, Stream!Rebuilding, Stream!Refresh
<1>1. CASE at = Nothing
  BY <1>1
<1>2. CASE at # Nothing /\ x5 # Nothing
  BY <1>2 DEF Stream!Queued
<1>3. CASE at # Nothing /\ x5 = Nothing
  <2>. DEFINE b == [origin |-> at, batch |-> x4, skip |-> Stream!SkipsBackfill(reason, at, x3)]
  <2>1. x5' = b /\ x4' = {} /\ x6' = x6
    BY <1>3 DEF Stream!Started
  <2>2. b \in Stream!Builds
    BY <1>3 DEF Stream!Builds, Stream!SkipsBackfill
  <2>3. Stream!InHand(x4', x5') = Stream!InHand(x4, x5)
    BY <1>3, <2>1, <2>2 DEF Stream!InHand, Stream!Ids
  <2>4. Stream!Rebuilding'
    BY <1>3, <2>1, <2>2 DEF Stream!SkipsBackfill
  <2>. QED  BY <2>1, <2>2, <2>3, <2>4
<1>. QED  BY <1>1, <1>2, <1>3

\* The end of a rebuild holds the kills K, and starts the one that was queued.
LEMMA StreamFinish ==
  ASSUME Stream!TypeOK, x5 # Nothing, x1 \in Systems, NEW K \in SUBSET Stream!Held,
         Stream!Finish(K), x1' = x1
  PROVE  /\ x4' \in SUBSET Stream!Held /\ x5' \in Stream!Builds \cup {Nothing}
         /\ x6' = Nothing
         /\ Stream!InHand(x4', x5') = Stream!Ids(K)
         /\ Stream!Rebuilding'
         /\ x5' = Nothing => x6 = Nothing
<1>. USE StreamAssumption DEF Stream!TypeOK, Stream!Finish
<1>1. CASE x6 = Nothing
  BY <1>1 DEF Stream!InHand, Stream!Rebuilding
<1>2. CASE x6 # Nothing
  <2>. DEFINE b == [origin |-> x1, batch |-> K, skip |-> Stream!SkipsBackfill(x6, x1, x3')]
  <2>1. x5' = b /\ x4' = {} /\ x6' = Nothing
    BY <1>2
  <2>2. b \in Stream!Builds
    BY <1>2 DEF Stream!Builds, Stream!SkipsBackfill
  <2>3. Stream!InHand(x4', x5') = Stream!Ids(K)
    BY <1>2, <2>1, <2>2 DEF Stream!InHand, Stream!Ids
  <2>4. Stream!Rebuilding'
    BY <1>2, <2>1, <2>2 DEF Stream!SkipsBackfill, Stream!Rebuilding
  <2>. QED  BY <2>1, <2>2, <2>3, <2>4, <1>2
<1>. QED  BY <1>1, <1>2

\* The kills of what was put together.
LEMMA IdsOfBoth == ASSUME NEW P, NEW Q PROVE Stream!Ids(P \cup Q) = Stream!Ids(P) \cup Stream!Ids(Q)
  BY DEF Stream!Ids

LEMMA IdsWithOne ==
  ASSUME NEW P, NEW Q, NEW k, NEW r, Q = P \cup {<<k, r>>}
  PROVE  Stream!Ids(Q) = Stream!Ids(P) \cup {k}
<1>1. Stream!Ids({<<k, r>>}) = {k}  BY DEF Stream!Ids
<1>2. Stream!Ids(P \cup {<<k, r>>}) = Stream!Ids(P) \cup Stream!Ids({<<k, r>>})  BY IdsOfBoth
<1>. QED  BY <1>1, <1>2

LEMMA PendingWithOne ==
  ASSUME NEW k, NEW r, x4' = x4 \cup {<<k, r>>}
  PROVE  Stream!Ids(x4') = Stream!Ids(x4) \cup {k}
  BY IdsWithOne

LEMMA IdsOfPassed == ASSUME NEW S, NEW s PROVE Stream!Ids({<<k, s, s>> : k \in S}) = S
<1>. DEFINE P == {<<k, s, s>> : k \in S}
<1>1. ASSUME NEW k \in S PROVE k \in Stream!Ids(P)
  <2>1. <<k, s, s>> \in P /\ <<k, s, s>>[1] = k  OBVIOUS
  <2>. QED  BY <2>1 DEF Stream!Ids
<1>2. ASSUME NEW k \in Stream!Ids(P) PROVE k \in S
  <2>1. PICK p \in P : k = p[1]  BY <1>2 DEF Stream!Ids
  <2>2. PICK l \in S : p = <<l, s, s>>  OBVIOUS
  <2>. QED  BY <2>1, <2>2
<1>. QED  BY <1>1, <1>2

LEMMA PassedWith ==
  ASSUME NEW S, NEW s, x12' = x12 \cup {<<k, s, s>> : k \in S}
  PROVE  Stream!Ids(x12') = Stream!Ids(x12) \cup S
<1>. DEFINE P == {<<k, s, s>> : k \in S}
<1>1. Stream!Ids(P) = S  BY IdsOfPassed
<1>2. x12' = x12 \cup P  OBVIOUS
<1>. HIDE DEF P
<1>3. Stream!Ids(x12 \cup P) = Stream!Ids(x12) \cup Stream!Ids(P)
  BY IdsOfBoth
<1>. QED  BY <1>1, <1>2, <1>3

LEMMA PassedWithOne ==
  ASSUME NEW k, NEW s, x12' = x12 \cup {<<k, s, s>>}
  PROVE  Stream!Ids(x12') = Stream!Ids(x12) \cup {k}
<1>1. Stream!Ids({<<k, s, s>>}) = {k}  BY DEF Stream!Ids
<1>. QED  BY <1>1, IdsOfBoth

\* A handler that refreshes, and hears of no kill.
LEMMA StreamRefreshed ==
  ASSUME Stream!IInv, NEW reason \in {"jump", "tick"}, NEW at \in Systems \cup {Nothing},
         Stream!Refresh(reason, at, x4), x1' = at,
         UNCHANGED <<x2, x3, x8, x9, x10, x11, x12, x13, x16>>,
         x7' \in BOOLEAN, x14' \in Routes \cup {Nothing}, x15' \in BOOLEAN,
         x17' \in Routes \cup {Nothing}, Stream!LineIsRoute',
         at = x1 \/ (reason = "jump" /\ at # Nothing)
  PROVE  Stream!IInv'
<1>. USE DEF Stream!IInv, Stream!StreamSound
<1>1. /\ x4' \in SUBSET Stream!Held /\ x5' \in Stream!Builds \cup {Nothing}
      /\ x6' \in {"jump", "tick", Nothing}
      /\ Stream!InHand(x4', x5') = Stream!InHand(x4, x5)
      /\ Stream!Rebuilding'
      /\ x5' = Nothing => x5 = Nothing /\ at = Nothing
  BY StreamRefresh
<1>2. Stream!TypeOK'  BY <1>1 DEF Stream!TypeOK
<1>3. Stream!KillsAccounted'
  <2>1. x9 = x9' /\ x10 = x10' /\ x11 = x11' /\ x12 = x12' /\ x8 = x8'  OBVIOUS
  <2>. QED  BY <1>1, <2>1 DEF Stream!KillsAccounted, Stream!InHand
<1>4. Stream!MapFollowsPilot'  BY <1>1 DEF Stream!MapFollowsPilot
<1>5. Stream!ShownIsBackfilled'  BY DEF Stream!ShownIsBackfilled
<1>. QED  BY <1>1, <1>2, <1>3, <1>4, <1>5

LEMMA StreamLocated ==
  ASSUME Stream!IInv, NEW s \in Systems, Stream!Located(s)
  PROVE  Stream!IInv'
<1>. USE StreamAssumption DEF Stream!Located, Stream!line
<1>1. CASE s # x1
  <2>1. Stream!LineIsRoute'  BY DEF Stream!IInv, Stream!StreamSound, Stream!LineIsRoute
  <2>. QED  BY <1>1, <2>1, StreamRefreshed DEF Stream!IInv, Stream!TypeOK, Stream!heard
<1>2. CASE s = x1
  <2>1. UNCHANGED Stream!vars
    BY <1>2 DEF Stream!vars, Stream!work, Stream!heard
  <2>. QED
    BY <2>1 DEF Stream!vars, Stream!work, Stream!heard, Stream!line, Stream!IInv,
      Stream!StreamSound, Stream!TypeOK, Stream!KillsAccounted, Stream!MapFollowsPilot,
      Stream!ShownIsBackfilled, Stream!LineIsRoute, Stream!Rebuilding
<1>. QED  BY <1>1, <1>2

\* The ticks.
LEMMA StreamTicks ==
  ASSUME Stream!IInv, Stream!KillTimer \/ Stream!IntelTick
  PROVE  Stream!IInv'
<1>. USE StreamAssumption DEF Stream!line, Stream!heard
<1>1. CASE Stream!KillTimer
  <2>1. Stream!LineIsRoute'
    BY <1>1 DEF Stream!KillTimer, Stream!IInv, Stream!StreamSound, Stream!LineIsRoute
  <2>. QED
    BY <1>1, <2>1, StreamRefreshed DEF Stream!KillTimer, Stream!IInv, Stream!TypeOK
<1>2. CASE Stream!IntelTick
  <2>1. /\ x14' \in Routes \cup {Nothing} /\ x15' \in BOOLEAN /\ x17' \in Routes \cup {Nothing}
        /\ Stream!LineIsRoute'
    BY <1>2 DEF Stream!IntelTick, Stream!Swept, Stream!IInv, Stream!StreamSound, Stream!TypeOK,
                Stream!LineIsRoute
  <2>. QED
    BY <1>2, <2>1, StreamRefreshed DEF Stream!IntelTick, Stream!IInv, Stream!TypeOK
<1>. QED  BY <1>1, <1>2

\* News of a kill.
LEMMA StreamIndexed ==
  ASSUME Stream!IInv, NEW k \in Kills, Stream!Indexed(k)
  PROVE  Stream!IInv'
<1>. USE StreamAssumption
     DEF Stream!IInv, Stream!StreamSound, Stream!Indexed, Stream!heard, Stream!work, Stream!line
<1>1. CASE ~Stream!BubbleIsCurrent
  <2>. USE <1>1
  <2>0. x4' = x4 \cup {<<k, FALSE>>}  OBVIOUS
  <2>1. Stream!TypeOK'
    <3>1. <<k, FALSE>> \in Stream!Held  BY DEF Stream!Held
    <3>. QED  BY <2>0, <3>1 DEF Stream!TypeOK
  <2>2. Stream!KillsAccounted'
    <3>0. x5' = x5 /\ x8' = x8 /\ x9' = x9 \cup {k} /\ x11' = x11 /\ x12' = x12 /\ x10 \subseteq x10'
      OBVIOUS
    <3>. HIDE DEF Stream!Indexed
    <3>1. Stream!InHand(x4', x5') = Stream!InHand(x4, x5) \cup {k}
      <4>1. Stream!Ids(x4') = Stream!Ids(x4) \cup {k}  BY <2>0, PendingWithOne
      <4>. QED  BY <3>0, <4>1 DEF Stream!InHand
    <3>2. Stream!Ids(x12') = Stream!Ids(x12)  BY <3>0
    <3>. QED  BY <3>0, <3>1, <3>2 DEF Stream!KillsAccounted
  <2>. QED
    BY <2>1, <2>2 DEF Stream!MapFollowsPilot, Stream!ShownIsBackfilled, Stream!LineIsRoute,
                      Stream!Rebuilding
<1>2. CASE Stream!BubbleIsCurrent /\ Stream!Inside(k, x2)
  <2>. USE <1>2
  <2>0. x4' = x4 \cup {<<k, TRUE>>}  OBVIOUS
  <2>1. Stream!TypeOK'
    <3>1. <<k, TRUE>> \in Stream!Held  BY DEF Stream!Held
    <3>. QED  BY <2>0, <3>1 DEF Stream!TypeOK
  <2>2. Stream!KillsAccounted'
    <3>0. x5' = x5 /\ x8' = x8 /\ x9' = x9 \cup {k} /\ x11' = x11 /\ x12' = x12 /\ x10 \subseteq x10'
      OBVIOUS
    <3>. HIDE DEF Stream!Indexed
    <3>1. Stream!InHand(x4', x5') = Stream!InHand(x4, x5) \cup {k}
      <4>1. Stream!Ids(x4') = Stream!Ids(x4) \cup {k}  BY <2>0, PendingWithOne
      <4>. QED  BY <3>0, <4>1 DEF Stream!InHand
    <3>2. Stream!Ids(x12') = Stream!Ids(x12)  BY <3>0
    <3>. QED  BY <3>0, <3>1, <3>2 DEF Stream!KillsAccounted
  <2>. QED
    BY <2>1, <2>2 DEF Stream!MapFollowsPilot, Stream!ShownIsBackfilled, Stream!LineIsRoute,
                      Stream!Rebuilding
<1>3. CASE Stream!BubbleIsCurrent /\ ~Stream!Inside(k, x2)
  <2>. USE <1>3
  <2>0. x12' = x12 \cup {<<k, x2, x1>>} /\ x2 = x1 /\ x2 \in Systems
    BY DEF Stream!BubbleIsCurrent, Stream!TypeOK
  <2>1. Stream!TypeOK'  BY <2>0 DEF Stream!TypeOK
  <2>2. Stream!KillsAccounted'
    <3>1. Stream!Ids(x12') = Stream!Ids(x12) \cup {k}
      <4>1. x12' = x12 \cup {<<k, x1, x1>>}  BY <2>0
      <4>. QED  BY <4>1, PassedWithOne
    <3>2. Stream!InHand(x4', x5') = Stream!InHand(x4, x5)  OBVIOUS
    <3>3. x8' = x8 /\ x9' = x9 \cup {k} /\ x11' = x11 /\ x10' = x10  OBVIOUS
    <3>. HIDE DEF Stream!Indexed
    <3>. QED  BY <2>0, <3>1, <3>2, <3>3 DEF Stream!KillsAccounted
  <2>. QED
    BY <2>1, <2>2 DEF Stream!MapFollowsPilot, Stream!ShownIsBackfilled, Stream!LineIsRoute,
                      Stream!Rebuilding
<1>. QED  BY <1>1, <1>2, <1>3

\* The ends of a rebuild.
LEMMA StreamFinished ==
  ASSUME Stream!IInv, Stream!Overtaken \/ Stream!Built \/ Stream!BuildFails
  PROVE  Stream!IInv'
<1>. USE StreamAssumption DEF Stream!IInv, Stream!StreamSound, Stream!line, Stream!heard
<1>0. /\ x5 \in Stream!Builds /\ x5.batch \in SUBSET Stream!Held /\ x5.origin \in Systems
      /\ x5.skip \in BOOLEAN /\ x1 \in Systems /\ x4 \in SUBSET Stream!Held /\ ~x8
  BY DEF Stream!TypeOK, Stream!Builds, Stream!Overtaken, Stream!Built, Stream!BuildFails,
         Stream!Rebuilding
<1>1. CASE Stream!Overtaken \/ Stream!BuildFails
  <2>1. /\ UNCHANGED <<x1, x2, x3, x7, x8, x9, x10, x11, x12, x14, x15, x16, x17>>
        /\ x13' = Stream!BuildFails \/ x13' \in BOOLEAN
        /\ Stream!Finish(x5.batch \cup x4)
    BY <1>1 DEF Stream!Overtaken, Stream!BuildFails, Stream!KeepsBatch
  <2>2. /\ x4' \in SUBSET Stream!Held /\ x5' \in Stream!Builds \cup {Nothing}
        /\ x6' = Nothing
        /\ Stream!InHand(x4', x5') = Stream!Ids(x5.batch \cup x4)
        /\ Stream!Rebuilding'
        /\ x5' = Nothing => x6 = Nothing
    BY <1>0, <2>1, StreamFinish
  <2>3. Stream!Ids(x5.batch \cup x4) = Stream!InHand(x4, x5)
    BY <1>0 DEF Stream!Ids, Stream!InHand
  <2>4. Stream!TypeOK'
    BY <1>1, <2>1, <2>2 DEF Stream!TypeOK, Stream!Overtaken, Stream!BuildFails
  <2>5. Stream!KillsAccounted'
    BY <2>1, <2>2, <2>3 DEF Stream!KillsAccounted, Stream!InHand
  <2>6. Stream!MapFollowsPilot'
    BY <1>1, <1>0, <2>1, <2>2
    DEF Stream!MapFollowsPilot, Stream!Overtaken, Stream!BuildFails, Stream!Rebuilding
  <2>7. Stream!ShownIsBackfilled' /\ Stream!LineIsRoute'
    BY <2>1 DEF Stream!ShownIsBackfilled, Stream!LineIsRoute
  <2>. QED  BY <2>2, <2>4, <2>5, <2>6, <2>7
<1>2. CASE Stream!Built
  <2>. DEFINE in == {k \in Stream!Ids(x5.batch) : Stream!Inside(k, x5.origin)}
              out == Stream!Ids(x5.batch) \ in
  <2>1. /\ UNCHANGED <<x1, x7, x8, x9, x14, x15, x16, x17>>
        /\ x5.origin = x1 /\ x2' = x1 /\ x13' = FALSE
        /\ x3' = IF x5.skip THEN x3 ELSE x1
        /\ x10' = x10 \cup in /\ x11' = x11 \cup in
        /\ x12' = x12 \cup {<<k, x1, x1>> : k \in out}
        /\ Stream!Finish(x4)
    BY <1>2 DEF Stream!Built, Stream!Published
  <2>2. /\ x4' \in SUBSET Stream!Held /\ x5' \in Stream!Builds \cup {Nothing}
        /\ x6' = Nothing
        /\ Stream!InHand(x4', x5') = Stream!Ids(x4)
        /\ Stream!Rebuilding'
    BY <1>0, <2>1, StreamFinish
  <2>3. Stream!Ids(x5.batch) \in SUBSET Kills
    BY <1>0 DEF Stream!Ids, Stream!Held
  <2>4. Stream!InHand(x4, x5) = Stream!Ids(x4) \cup in \cup out /\ in \subseteq Kills /\ out \subseteq Kills
    BY <1>0, <2>3 DEF Stream!InHand
  <2>5. x3' = x1
    BY <2>1, <1>0 DEF Stream!Rebuilding
  <2>. HIDE DEF in, out
  <2>6. Stream!TypeOK'
    <3>1. x2' \in Systems \cup {Nothing} /\ x3' \in Systems \cup {Nothing}  BY <1>0, <2>1, <2>5
    <3>2. x10' \subseteq Kills /\ x11' \subseteq Kills  BY <2>1, <2>4 DEF Stream!TypeOK
    <3>3. x12' \subseteq Kills \X Systems \X Systems  BY <1>0, <2>1, <2>4 DEF Stream!TypeOK
    <3>4. x13' \in BOOLEAN  BY <2>1
    <3>. QED  BY <2>1, <2>2, <3>1, <3>2, <3>3, <3>4 DEF Stream!TypeOK
  <2>7. Stream!KillsAccounted'
    <3>1. Stream!Ids(x12') = Stream!Ids(x12) \cup out
      <4>1. x12' = x12 \cup {<<k, x1, x1>> : k \in out}  BY <2>1
      <4>. QED  BY <4>1, PassedWith
    <3>2. \A p \in x12' : p[2] = p[3]  BY <1>0, <2>1 DEF Stream!KillsAccounted
    <3>. QED  BY <1>0, <2>1, <2>2, <2>4, <3>1, <3>2 DEF Stream!KillsAccounted
  <2>8. Stream!MapFollowsPilot' /\ Stream!ShownIsBackfilled' /\ Stream!LineIsRoute'
    BY <2>1, <2>5 DEF Stream!MapFollowsPilot, Stream!ShownIsBackfilled, Stream!LineIsRoute
  <2>. QED  BY <2>2, <2>6, <2>7, <2>8
<1>. QED  BY <1>1, <1>2

LEMMA StreamStep == Stream!IInv /\ (Stream!Next \/ UNCHANGED Stream!vars) => Stream!IInv'
<1>. SUFFICES ASSUME Stream!IInv, Stream!Next \/ UNCHANGED Stream!vars PROVE Stream!IInv'
  OBVIOUS
<1>1. ASSUME \/ \E r \in Routes \cup {Nothing} : Stream!Plan(r)
             \/ Stream!TimeRunsOut \/ Stream!ReadRoute \/ Stream!OthersTick \/ Stream!Close
             \/ UNCHANGED Stream!vars
      PROVE  Stream!IInv'
  <2>. USE StreamAssumption DEF Stream!IInv, Stream!StreamSound, Stream!line, Stream!work, Stream!heard
  <2>. HIDE DEF Stream!IInv, Stream!StreamSound
  <2>0. Stream!TypeOK /\ Stream!LineIsRoute  BY DEF Stream!IInv, Stream!StreamSound
  <2>1. /\ UNCHANGED <<x1, x2, x3, x4, x5, x6, x9, x10, x11, x12, x13>>
        /\ x8 => x8'
        /\ x7' \in BOOLEAN /\ x8' \in BOOLEAN /\ x14' \in Routes \cup {Nothing}
        /\ x15' \in BOOLEAN /\ x16' \in 0..MaxPlans /\ x17' \in Routes \cup {Nothing}
        /\ Stream!LineIsRoute'
    <3>1. ASSUME NEW r \in Routes \cup {Nothing}, Stream!Plan(r) PROVE <2>1!:
      <4>. USE <2>0, <3>1 DEF Stream!Plan, Stream!TypeOK
      <4>1. x16' \in 0..MaxPlans  OBVIOUS
      <4>2. /\ x14' \in Routes \cup {Nothing} /\ x15' = FALSE /\ x17' \in Routes \cup {Nothing}
            /\ UNCHANGED <<x1, x2, x3, x4, x5, x6, x7, x8, x9, x10, x11, x12, x13>>
        OBVIOUS
      <4>3. Stream!LineIsRoute'  BY DEF Stream!LineIsRoute
      <4>4. x7' \in BOOLEAN /\ x8' \in BOOLEAN /\ x15' \in BOOLEAN  BY <4>2
      <4>. HIDE DEF Stream!Plan, Stream!TypeOK
      <4>. QED  BY <4>1, <4>2, <4>3, <4>4
    <3>2. CASE Stream!TimeRunsOut
      BY <2>0, <3>2 DEF Stream!TimeRunsOut, Stream!TypeOK, Stream!LineIsRoute
    <3>3. CASE Stream!ReadRoute
      BY <2>0, <3>3 DEF Stream!ReadRoute, Stream!KeepsIt, Stream!TypeOK, Stream!LineIsRoute
    <3>4. CASE Stream!OthersTick
      BY <2>0, <3>4 DEF Stream!OthersTick, Stream!Swept, Stream!TypeOK, Stream!LineIsRoute
    <3>5. CASE Stream!Close
      BY <2>0, <3>5 DEF Stream!Close, Stream!TypeOK, Stream!LineIsRoute
    <3>6. CASE UNCHANGED Stream!vars
      BY <2>0, <3>6 DEF Stream!vars, Stream!TypeOK, Stream!LineIsRoute
    <3>. QED  BY <1>1, <3>1, <3>2, <3>3, <3>4, <3>5, <3>6
  <2>. USE DEF Stream!IInv, Stream!StreamSound
  <2>2. Stream!TypeOK'  BY <2>1 DEF Stream!TypeOK
  <2>3. Stream!KillsAccounted'  BY <2>1 DEF Stream!KillsAccounted
  <2>. QED
    BY <2>1, <2>2, <2>3 DEF Stream!MapFollowsPilot, Stream!ShownIsBackfilled, Stream!Rebuilding
<1>. QED
  BY <1>1, StreamLocated, StreamTicks, StreamIndexed, StreamFinished DEF Stream!Next

-----------------------------------------------------------------------------
(* ReadSubagents: a batch of sub-agents stays within the budget of the     *)
(* turn and calls complete only what is.                                   *)

LEMMA AgentsCardinality == \A S : Agents!Cardinality(S) = Cardinality(S)
  BY DEF Agents!Cardinality, Cardinality

LEMMA AgentsInit == Agents!Init => Agents!IInv
<1>. SUFFICES ASSUME Agents!Init PROVE Agents!IInv
  OBVIOUS
<1>. USE AgentsAssumption DEF Agents!Init, Agents!Tasks
<1>1. Cardinality(Workers) \in Nat /\ Cardinality(x3) = 0
  BY FS_CardinalityType, FS_EmptySet
<1>2. Agents!TypeOK
  <2>1. x1 \in 1..(MaxTasks + Agents!Cardinality(Workers) + 1)  BY <1>1, AgentsCardinality
  <2>2. x9 \in [Agents!Tasks -> BOOLEAN] /\ x14 \in BOOLEAN /\ x15 \in BOOLEAN  OBVIOUS
  <2>3. /\ x2 \in [Workers -> 0..MaxTasks] /\ x6 \in [Agents!Tasks -> 0..MaxIterations]
        /\ x5 \in [Agents!Tasks -> 0..MaxCalls]
    OBVIOUS
  <2>4. /\ x7 \in [Agents!Tasks -> Nat] /\ x8 \in [Agents!Tasks -> Nat]
        /\ x10 \in [Agents!Tasks -> Agents!Statuses \cup {Nothing}]
        /\ x3 \subseteq Workers /\ x4 \subseteq Agents!Tasks /\ x11 \subseteq Agents!Tasks
        /\ x12 \in Nat /\ x13 \in Nat /\ x16 \in Nat
    OBVIOUS
  <2>. HIDE DEF Agents!Init
  <2>. QED  BY <2>1, <2>2, <2>3, <2>4 DEF Agents!TypeOK
<1>3. Agents!BudgetHeld /\ Agents!CompletedIsGrounded
  BY DEF Agents!BudgetHeld, Agents!CompletedIsGrounded, Agents!Statuses
<1>4. Agents!WorkersApart /\ Agents!Counted
  BY <1>1, AgentsCardinality DEF Agents!WorkersApart, Agents!Counted
<1>5. \A t \in Agents!Tasks : Agents!Attended(t) /\ Agents!Evidence(t)
  BY DEF Agents!Attended, Agents!Evidence
<1>. QED  BY <1>2, <1>3, <1>4, <1>5 DEF Agents!IInv

\* The worker w takes the task t, or goes on with the one it has.
AgentsHas(w, t) ==
  \/ x2[w] = t /\ x1' = x1
  \/ x2[w] = 0 /\ w \notin x3 /\ t = x1 /\ x1' = x1 + 1

\* Afterwards it awaits the model or reads for it, or has ended it.
AgentsKeeps(w, t) ==
  /\ x2' = [x2 EXCEPT ![w] = t] /\ x10'[t] = x10[t]
  /\ t \in x4' => x5'[t] = 0
AgentsEnds(w, t) ==
  /\ x2' = [x2 EXCEPT ![w] = 0] /\ x10'[t] # Nothing
  /\ t \notin x4' /\ x5'[t] = 0

\* Whoever has a task has it before the batch returns, and alone.
LEMMA AgentsHolder ==
  ASSUME Agents!IInv, NEW w \in Workers, NEW t \in Agents!Tasks, AgentsHas(w, t)
  PROVE  /\ ~x15 /\ x11 = {} /\ w \notin x3 /\ x10[t] = Nothing
         /\ t < x1' /\ x1 <= x1' /\ x1 \in Nat /\ x1' \in Nat
         /\ \A v \in Workers \ {w} : x2[v] # t
<1>. USE AgentsAssumption
<1>1. /\ \A v \in Workers : x2[v] # 0 => x2[v] < x1 /\ x10[x2[v]] = Nothing
      /\ \A u \in Workers, v \in Workers : x2[u] # 0 /\ x2[u] = x2[v] => u = v
      /\ \A v \in x3 : x2[v] = 0
  BY DEF Agents!IInv, Agents!WorkersApart
<1>2. x1 \in Nat /\ t \in Nat /\ t # 0
  BY DEF Agents!IInv, Agents!TypeOK, Agents!Tasks
<1>3. x1' = x1 \/ x1' = x1 + 1  BY DEF AgentsHas
<1>4. w \notin x3  BY <1>1, <1>2 DEF AgentsHas
<1>5. x10[t] = Nothing
  BY <1>1, <1>2 DEF AgentsHas, Agents!IInv, Agents!Evidence
<1>6. t < x1'  BY <1>1, <1>2 DEF AgentsHas
<1>7. \A v \in Workers \ {w} : x2[v] # t  BY <1>1, <1>2 DEF AgentsHas
<1>8. ~x15 /\ x11 = {}  BY <1>4 DEF Agents!IInv, Agents!Counted
<1>. QED  BY <1>2, <1>3, <1>4, <1>5, <1>6, <1>7, <1>8

\* What a step of a worker with its task keeps.
LEMMA AgentsMove ==
  ASSUME Agents!IInv, NEW w \in Workers, NEW t \in Agents!Tasks, AgentsHas(w, t),
         AgentsKeeps(w, t) \/ AgentsEnds(w, t),
         UNCHANGED <<x3, x11, x15>>, x16' = x13',
         \A u \in Agents!Tasks \ {t} :
           /\ u \in x4' <=> u \in x4
           /\ x5'[u] = x5[u] /\ x7'[u] = x7[u] /\ x8'[u] = x8[u] /\ x9'[u] = x9[u]
           /\ x10'[u] = x10[u],
         ~x9'[t] => x8'[t] = 0
  PROVE  /\ Agents!WorkersApart' /\ Agents!Counted'
         /\ \A u \in Agents!Tasks : Agents!Attended(u)' /\ Agents!Evidence(u)'
<1>. USE AgentsAssumption DEF Agents!Tasks
<1>0. /\ ~x15 /\ x11 = {} /\ w \notin x3 /\ x10[t] = Nothing
      /\ t < x1' /\ x1 <= x1' /\ x1 \in Nat /\ x1' \in Nat
      /\ \A v \in Workers \ {w} : x2[v] # t
  BY AgentsHolder
<1>1. /\ x2 \in [Workers -> 0..MaxTasks] /\ \A v \in Workers : x2[v] \in 0..MaxTasks
      /\ x3 \subseteq Workers
  BY DEF Agents!IInv, Agents!TypeOK
<1>2. \A v \in Workers \ {w} : x2'[v] = x2[v]
  BY <1>1 DEF AgentsKeeps, AgentsEnds
<1>3. \/ x2'[w] = t /\ x10'[t] = Nothing
      \/ x2'[w] = 0
  BY <1>0, <1>1 DEF AgentsKeeps, AgentsEnds
<1>4. Agents!WorkersApart'
  <2>1. ASSUME NEW v \in Workers, x2'[v] # 0
        PROVE  x2'[v] < x1' /\ x10'[x2'[v]] = Nothing
    BY <1>0, <1>1, <1>2, <1>3, <2>1 DEF Agents!IInv, Agents!WorkersApart
  <2>2. ASSUME NEW v \in Workers, NEW u \in Workers, x2'[v] # 0, x2'[v] = x2'[u]
        PROVE  v = u
    BY <1>0, <1>1, <1>2, <1>3, <2>2 DEF Agents!IInv, Agents!WorkersApart
  <2>3. ASSUME NEW v \in x3' PROVE x2'[v] = 0 /\ x1' > MaxTasks
    BY <1>0, <1>1, <1>2, <2>3 DEF Agents!IInv, Agents!WorkersApart
  <2>. QED  BY <2>1, <2>2, <2>3 DEF Agents!WorkersApart
<1>5. Agents!Counted'
  <2>1. Cardinality(x3) \in Nat  BY FS_CardinalityType, FS_Subset, <1>1
  <2>2. x1 <= MaxTasks + 1 + Cardinality(x3)
    BY AgentsCardinality DEF Agents!IInv, Agents!Counted
  <2>3. x1' <= MaxTasks + 1 + Cardinality(x3')  BY <2>1, <2>2, <1>0 DEF AgentsHas
  <2>4. Agents!Cardinality(x3') = Cardinality(x3')  BY AgentsCardinality
  <2>. QED  BY <1>0, <2>3, <2>4 DEF Agents!Counted
<1>6. ASSUME NEW u \in Agents!Tasks PROVE Agents!Attended(u)'
  <2>1. CASE u # t
    <3>. DEFINE B == u \in x4 \/ x5[u] # 0 \/ (u < x1 /\ x10[u] = Nothing)
    <3>1. u \in x4' \/ x5'[u] # 0 \/ (u < x1' /\ x10'[u] = Nothing) => B
      BY <2>1, <1>0 DEF AgentsHas
    <3>2. B => \E v \in Workers : x2[v] = u
      BY DEF Agents!IInv, Agents!Attended
    <3>. HIDE DEF B
    <3>3. ASSUME NEW v \in Workers, x2[v] = u PROVE x2'[v] = u
      <4>1. v # w  BY <3>3, <2>1 DEF AgentsHas
      <4>. QED  BY <4>1, <3>3, <1>2
    <3>4. u \in x4' => x5'[u] = 0  BY <2>1 DEF Agents!IInv, Agents!Attended
    <3>. QED  BY <3>1, <3>2, <3>3, <3>4 DEF Agents!Attended
  <2>2. CASE u = t /\ AgentsKeeps(w, t)
    BY <2>2, <1>1 DEF Agents!Attended, AgentsKeeps
  <2>3. CASE u = t /\ AgentsEnds(w, t)
    BY <2>3, <1>1 DEF Agents!Attended, AgentsEnds
  <2>. QED  BY <2>1, <2>2, <2>3
<1>7. ASSUME NEW u \in Agents!Tasks PROVE Agents!Evidence(u)'
  <2>1. CASE u # t
    BY <2>1, <1>0 DEF Agents!IInv, Agents!Evidence
  <2>2. CASE u = t
    BY <2>2, <1>0 DEF Agents!Evidence
  <2>. QED  BY <2>1, <2>2
<1>. QED  BY <1>4, <1>5, <1>6, <1>7

\* The whole of it, when the task's answer is grounded and the budget held.
LEMMA AgentsOne ==
  ASSUME Agents!IInv, NEW w \in Workers, NEW t \in Agents!Tasks, AgentsHas(w, t),
         AgentsKeeps(w, t) \/ AgentsEnds(w, t),
         UNCHANGED <<x3, x11, x14, x15>>, x16' = x13',
         x13' \in Nat, x13' <= MaxLeaves, x12' \in Nat, x12' <= MaxModelCalls,
         \A u \in Agents!Tasks \ {t} :
           /\ u \in x4' <=> u \in x4
           /\ x5'[u] = x5[u] /\ x7'[u] = x7[u] /\ x8'[u] = x8[u] /\ x9'[u] = x9[u]
           /\ x10'[u] = x10[u],
         x4' \subseteq Agents!Tasks, x5' \in [Agents!Tasks -> 0..MaxCalls],
         x6' \in [Agents!Tasks -> 0..MaxIterations], x7' \in [Agents!Tasks -> Nat],
         x8' \in [Agents!Tasks -> Nat], x9' \in [Agents!Tasks -> BOOLEAN],
         x10' \in [Agents!Tasks -> Agents!Statuses \cup {Nothing}],
         ~x9'[t] => x8'[t] = 0,
         x10'[t] = "completed" => x7'[t] > 0 /\ x8'[t] = 0,
         x10'[t] = "failed" => x7'[t] = 0
  PROVE  Agents!IInv'
<1>. USE AgentsAssumption
<1>1. /\ Agents!WorkersApart' /\ Agents!Counted'
      /\ \A u \in Agents!Tasks : Agents!Attended(u)' /\ Agents!Evidence(u)'
  BY AgentsMove
<1>2. Agents!TypeOK'
  <2>1. x3 \subseteq Workers /\ x2 \in [Workers -> 0..MaxTasks] /\ x11 \subseteq Agents!Tasks
        /\ x14 \in BOOLEAN /\ x15 \in BOOLEAN /\ x1 \in Nat \ {0}
    BY DEF Agents!IInv, Agents!TypeOK
  <2>2. x1' \in 1..(MaxTasks + Agents!Cardinality(Workers) + 1)
    <3>1. x1' \in Nat \ {0}  BY <2>1 DEF AgentsHas
    <3>2. Cardinality(x3) <= Cardinality(Workers) /\ Cardinality(x3) \in Nat /\ Cardinality(Workers) \in Nat
      BY <2>1, FS_Subset, FS_CardinalityType
    <3>3. Agents!Cardinality(x3') = Cardinality(x3) /\ Agents!Cardinality(Workers) = Cardinality(Workers)
      BY AgentsCardinality
    <3>4. x1' <= MaxTasks + 1 + Cardinality(x3)  BY <1>1, <3>3 DEF Agents!Counted
    <3>. QED  BY <3>1, <3>2, <3>3, <3>4
  <2>3. x2' \in [Workers -> 0..MaxTasks]
    <3>1. x2' = [x2 EXCEPT ![w] = t] \/ x2' = [x2 EXCEPT ![w] = 0]  BY DEF AgentsKeeps, AgentsEnds
    <3>2. t \in 0..MaxTasks /\ 0 \in 0..MaxTasks  BY DEF Agents!Tasks
    <3>. QED  BY <2>1, <3>1, <3>2
  <2>4. x3' \subseteq Workers /\ x11' \subseteq Agents!Tasks /\ x16' \in Nat  BY <2>1
  <2>5. x14' \in BOOLEAN /\ x15' \in BOOLEAN  BY <2>1
  <2>. QED  BY <2>2, <2>3, <2>4, <2>5 DEF Agents!TypeOK
<1>3. Agents!BudgetHeld'  BY DEF Agents!BudgetHeld
<1>4. Agents!CompletedIsGrounded'
  <2>1. x11 = {}  BY AgentsHolder
  <2>2. ASSUME NEW u \in Agents!Tasks
        PROVE  /\ x10'[u] = "completed" => x7'[u] > 0 /\ x8'[u] = 0 /\ u \notin x11'
               /\ x10'[u] = "failed" => x7'[u] = 0
    BY <2>1 DEF Agents!IInv, Agents!CompletedIsGrounded
  <2>. QED  BY <2>2 DEF Agents!CompletedIsGrounded
<1>. QED  BY <1>1, <1>2, <1>3, <1>4 DEF Agents!IInv

\* The task ends with a status that its evidence allows.
LEMMA AgentsEndsAs ==
  ASSUME Agents!IInv, NEW w \in Workers, NEW t \in Agents!Tasks, AgentsHas(w, t),
         NEW status \in Agents!Statuses, Agents!EndsAs(w, t, status),
         UNCHANGED <<x3, x11, x14, x15>>, x16' = x16, x13' = x13, x12' = x12, x6' = x6,
         \A u \in Agents!Tasks \ {t} :
           x5'[u] = x5[u] /\ x7'[u] = x7[u] /\ x8'[u] = x8[u] /\ x9'[u] = x9[u],
         x5' \in [Agents!Tasks -> 0..MaxCalls], x5'[t] = 0,
         x7' \in [Agents!Tasks -> Nat],
         x8' \in [Agents!Tasks -> Nat], x9' \in [Agents!Tasks -> BOOLEAN],
         ~x9'[t] => x8'[t] = 0,
         status = "completed" => x7'[t] > 0 /\ x8'[t] = 0,
         status = "failed" => x7'[t] = 0
  PROVE  Agents!IInv'
<1>. USE AgentsAssumption DEF Agents!EndsAs
<1>1. /\ x4 \subseteq Agents!Tasks /\ x6 \in [Agents!Tasks -> 0..MaxIterations]
      /\ x10 \in [Agents!Tasks -> Agents!Statuses \cup {Nothing}]
      /\ x12 \in Nat /\ x13 \in Nat /\ x16 = x13 /\ x13 <= MaxLeaves /\ x12 <= MaxModelCalls
  BY DEF Agents!IInv, Agents!TypeOK, Agents!BudgetHeld, Agents!Counted
<1>2. AgentsEnds(w, t)  BY <1>1 DEF AgentsEnds
<1>3. x10'[t] = status  BY <1>1
<1>4. \A u \in Agents!Tasks \ {t} : (u \in x4' <=> u \in x4) /\ x10'[u] = x10[u]  BY <1>1
<1>5. x4' \subseteq Agents!Tasks /\ x10' \in [Agents!Tasks -> Agents!Statuses \cup {Nothing}]  BY <1>1
<1>6. x13' \in Nat /\ x13' <= MaxLeaves /\ x12' \in Nat /\ x12' <= MaxModelCalls /\ x16' = x13'
      /\ x6' \in [Agents!Tasks -> 0..MaxIterations]
  BY <1>1
<1>. HIDE DEF Agents!EndsAs
<1>. QED  BY <1>2, <1>3, <1>4, <1>5, <1>6, AgentsOne

\* The same, for the status that any ending without a summary has.
LEMMA AgentsPartialOrFailed ==
  ASSUME Agents!IInv, NEW w \in Workers, NEW t \in Agents!Tasks, AgentsHas(w, t),
         Agents!PartialOrFailed(w, t),
         UNCHANGED <<x3, x11, x14, x15>>, x16' = x16, x13' = x13, x12' = x12, x6' = x6,
         \A u \in Agents!Tasks \ {t} :
           x5'[u] = x5[u] /\ x7'[u] = x7[u] /\ x8'[u] = x8[u] /\ x9'[u] = x9[u],
         x5' \in [Agents!Tasks -> 0..MaxCalls], x5'[t] = 0,
         x7' \in [Agents!Tasks -> Nat],
         x8' \in [Agents!Tasks -> Nat], x9' \in [Agents!Tasks -> BOOLEAN],
         ~x9'[t] => x8'[t] = 0
  PROVE  Agents!IInv'
<1>. DEFINE status == IF x7'[t] + x8'[t] > 0 THEN "partial" ELSE "failed"
<1>1. Agents!EndsAs(w, t, status)  BY DEF Agents!PartialOrFailed
<1>2. status \in Agents!Statuses  BY DEF Agents!Statuses
<1>3. status # "completed"  OBVIOUS
<1>4. status = "failed" => x7'[t] = 0  OBVIOUS
<1>. HIDE DEF status
<1>. QED  BY <1>1, <1>2, <1>3, <1>4, AgentsEndsAs

\* A loop that goes on or gives up.
LEMMA AgentsIterate ==
  ASSUME Agents!IInv, NEW w \in Workers, NEW t \in Agents!Tasks, AgentsHas(w, t),
         NEW i \in 0..MaxIterations, Agents!Iterate(w, t, i),
         UNCHANGED <<x3, x11, x14, x15>>, x16' = x16, x13' = x13,
         \A u \in Agents!Tasks \ {t} :
           x5'[u] = x5[u] /\ x7'[u] = x7[u] /\ x8'[u] = x8[u] /\ x9'[u] = x9[u],
         x5' \in [Agents!Tasks -> 0..MaxCalls], x5'[t] = 0,
         x7' \in [Agents!Tasks -> Nat],
         x8' \in [Agents!Tasks -> Nat], x9' \in [Agents!Tasks -> BOOLEAN],
         ~x9'[t] => x8'[t] = 0
  PROVE  Agents!IInv'
<1>. USE AgentsAssumption
<1>1. CASE i < MaxIterations /\ ~x14 /\ Agents!ModelCallLeft(t)
  <2>1. /\ x12' = x12 + 1 /\ x12 < MaxModelCalls /\ x4' = x4 \cup {t}
        /\ x6' = [x6 EXCEPT ![t] = i + 1] /\ x2' = [x2 EXCEPT ![w] = t] /\ x10' = x10
    BY <1>1 DEF Agents!Iterate, Agents!ModelCallLeft
  <2>2. /\ x4 \subseteq Agents!Tasks /\ x6 \in [Agents!Tasks -> 0..MaxIterations]
        /\ x10 \in [Agents!Tasks -> Agents!Statuses \cup {Nothing}]
        /\ x12 \in Nat /\ x13 \in Nat /\ x16 = x13 /\ x13 <= MaxLeaves
    BY DEF Agents!IInv, Agents!TypeOK, Agents!BudgetHeld, Agents!Counted
  <2>3. AgentsKeeps(w, t)  BY <2>1 DEF AgentsKeeps
  <2>4. x10[t] = Nothing  BY AgentsHolder
  <2>5. x10'[t] # "completed" /\ x10'[t] # "failed"
    BY <2>1, <2>4 DEF Agents!Statuses
  <2>6. x6' \in [Agents!Tasks -> 0..MaxIterations]  BY <1>1, <2>1, <2>2
  <2>7. /\ x12' \in Nat /\ x12' <= MaxModelCalls /\ x13' \in Nat /\ x13' <= MaxLeaves /\ x16' = x13'
        /\ x4' \subseteq Agents!Tasks /\ x10' \in [Agents!Tasks -> Agents!Statuses \cup {Nothing}]
    BY <2>1, <2>2
  <2>8. \A u \in Agents!Tasks \ {t} : (u \in x4' <=> u \in x4) /\ x10'[u] = x10[u]  BY <2>1
  <2>. QED  BY <2>3, <2>5, <2>6, <2>7, <2>8, AgentsOne
<1>2. CASE ~(i < MaxIterations /\ ~x14 /\ Agents!ModelCallLeft(t))
  BY <1>2, AgentsPartialOrFailed DEF Agents!Iterate
<1>. QED  BY <1>1, <1>2

\* What a worker that awaits the model has.
LEMMA AgentsAsks ==
  ASSUME Agents!IInv, NEW w \in Workers, Agents!Asks(w), x1' = x1
  PROVE  x2[w] \in Agents!Tasks /\ AgentsHas(w, x2[w]) /\ x5[x2[w]] = 0
  BY DEF Agents!IInv, Agents!TypeOK, Agents!Asks, Agents!Attended, AgentsHas

\* The types and what else the steps below need.
LEMMA AgentsTypes ==
  ASSUME Agents!IInv
  PROVE  /\ x4 \subseteq Agents!Tasks /\ x5 \in [Agents!Tasks -> 0..MaxCalls]
         /\ x6 \in [Agents!Tasks -> 0..MaxIterations]
         /\ x7 \in [Agents!Tasks -> Nat] /\ x8 \in [Agents!Tasks -> Nat]
         /\ x9 \in [Agents!Tasks -> BOOLEAN]
         /\ x10 \in [Agents!Tasks -> Agents!Statuses \cup {Nothing}]
         /\ x12 \in Nat /\ x13 \in Nat /\ x16 = x13 /\ x13 <= MaxLeaves /\ x12 <= MaxModelCalls
         /\ \A t \in Agents!Tasks : ~x9[t] => x8[t] = 0
  BY DEF Agents!IInv, Agents!TypeOK, Agents!BudgetHeld, Agents!Counted, Agents!Evidence

LEMMA AgentsTake ==
  ASSUME Agents!IInv, NEW w \in Workers, Agents!Take(w)
  PROVE  Agents!IInv'
<1>. USE AgentsAssumption
<1>1. CASE x1 > MaxTasks
  <2>1. /\ x2[w] = 0 /\ w \notin x3 /\ x1' = x1 + 1 /\ x3' = x3 \cup {w}
        /\ UNCHANGED <<x2, x4, x5, x6, x7, x8, x9, x10, x11, x12, x13, x14, x15, x16>>
    BY <1>1 DEF Agents!Take
  <2>2. x1 \in Nat \ {0} /\ x3 \subseteq Workers /\ x2 \in [Workers -> 0..MaxTasks]
    BY DEF Agents!IInv, Agents!TypeOK
  <2>3. ~x15  BY <2>1 DEF Agents!IInv, Agents!Counted
  <2>4. x1' <= MaxTasks + 1 + Agents!Cardinality(x3')
    <3>1. IsFiniteSet(x3)  BY <2>2, FS_Subset
    <3>2. Cardinality(x3') = Cardinality(x3) + 1 /\ Cardinality(x3) \in Nat
      BY <2>1, <3>1, FS_AddElement, FS_CardinalityType
    <3>3. x1 <= MaxTasks + 1 + Cardinality(x3)
      BY AgentsCardinality DEF Agents!IInv, Agents!Counted
    <3>4. Agents!Cardinality(x3') = Cardinality(x3')  BY AgentsCardinality
    <3>. QED  BY <2>1, <2>2, <3>2, <3>3, <3>4
  <2>5. Agents!Counted'
    BY <2>1, <2>3, <2>4 DEF Agents!IInv, Agents!Counted
  <2>6. Agents!TypeOK'
    <3>1. Cardinality(x3') <= Cardinality(Workers) /\ Cardinality(x3') \in Nat
          /\ Cardinality(Workers) \in Nat
      BY <2>1, <2>2, FS_Subset, FS_CardinalityType
    <3>2. Agents!Cardinality(x3') = Cardinality(x3')
          /\ Agents!Cardinality(Workers) = Cardinality(Workers)
      BY AgentsCardinality
    <3>3. x1' \in 1..(MaxTasks + Agents!Cardinality(Workers) + 1)
      BY <2>1, <2>2, <2>4, <3>1, <3>2
    <3>4. x3' \subseteq Workers  BY <2>1, <2>2
    <3>. QED  BY <2>1, <3>3, <3>4 DEF Agents!IInv, Agents!TypeOK
  <2>7. Agents!BudgetHeld' /\ Agents!CompletedIsGrounded'
    BY <2>1 DEF Agents!IInv, Agents!BudgetHeld, Agents!CompletedIsGrounded
  <2>8. Agents!WorkersApart'
    BY <1>1, <2>1, <2>2 DEF Agents!IInv, Agents!WorkersApart
  <2>9. ASSUME NEW t \in Agents!Tasks PROVE Agents!Attended(t)' /\ Agents!Evidence(t)'
    <3>1. t < x1 /\ t < x1'  BY <1>1, <2>1, <2>2 DEF Agents!Tasks
    <3>. QED  BY <2>1, <2>2, <3>1 DEF Agents!IInv, Agents!Attended, Agents!Evidence, Agents!Tasks
  <2>. QED  BY <2>5, <2>6, <2>7, <2>8, <2>9 DEF Agents!IInv
<1>2. CASE x1 <= MaxTasks
  <2>1. x1 \in Agents!Tasks  BY <1>2 DEF Agents!IInv, Agents!TypeOK, Agents!Tasks
  <2>2. /\ x2[w] = 0 /\ w \notin x3 /\ x1' = x1 + 1 /\ Agents!Iterate(w, x1, 0)
        /\ UNCHANGED <<x3, x5, x7, x8, x9, x11, x13, x14, x15, x16>>
    BY <1>2, <2>1 DEF Agents!Take, Agents!Tasks
  <2>3. AgentsHas(w, x1)  BY <2>2 DEF AgentsHas
  <2>4. x5[x1] = 0
    <3>1. \A v \in Workers : x2[v] # x1
      BY <2>1 DEF Agents!IInv, Agents!WorkersApart, Agents!Tasks
    <3>. QED  BY <2>1, <3>1 DEF Agents!IInv, Agents!Attended
  <2>5. x5' \in [Agents!Tasks -> 0..MaxCalls] /\ x5'[x1] = 0 /\ x7' \in [Agents!Tasks -> Nat]
        /\ x8' \in [Agents!Tasks -> Nat] /\ x9' \in [Agents!Tasks -> BOOLEAN]
        /\ (~x9'[x1] => x8'[x1] = 0)
    BY <2>1, <2>2, <2>4, AgentsTypes
  <2>6. \A u \in Agents!Tasks \ {x1} :
           x5'[u] = x5[u] /\ x7'[u] = x7[u] /\ x8'[u] = x8[u] /\ x9'[u] = x9[u]
    BY <2>2
  <2>7. 0 \in 0..MaxIterations  OBVIOUS
  <2>. QED  BY <2>1, <2>2, <2>3, <2>5, <2>6, <2>7, AgentsIterate
<1>3. x1 \in Nat  BY DEF Agents!IInv, Agents!TypeOK
<1>. QED  BY <1>1, <1>2, <1>3

LEMMA AgentsUnavailable ==
  ASSUME Agents!IInv, NEW w \in Workers, Agents!Unavailable(w)
  PROVE  Agents!IInv'
<1>. USE AgentsAssumption
<1>1. x1 \in Agents!Tasks
  BY DEF Agents!IInv, Agents!TypeOK, Agents!Tasks, Agents!Unavailable
<1>2. w \notin x3  BY <1>1 DEF Agents!IInv, Agents!WorkersApart, Agents!Tasks, Agents!Unavailable
<1>3. /\ x2[w] = 0 /\ x1' = x1 + 1 /\ x10' = [x10 EXCEPT ![x1] = "failed"]
      /\ UNCHANGED <<x2, x3, x4, x5, x6, x7, x8, x9, x11, x12, x13, x14, x15, x16>>
  BY DEF Agents!Unavailable, Agents!budget
<1>4. AgentsHas(w, x1)  BY <1>2, <1>3 DEF AgentsHas
<1>5. /\ x2 \in [Workers -> 0..MaxTasks] /\ x1 \notin x4 /\ x5[x1] = 0 /\ x7[x1] = 0
  <2>1. \A v \in Workers : x2[v] # x1
    BY <1>1 DEF Agents!IInv, Agents!WorkersApart, Agents!Tasks
  <2>2. x7[x1] = 0  BY <1>1 DEF Agents!IInv, Agents!Evidence, Agents!Tasks
  <2>. QED  BY <1>1, <2>1, <2>2 DEF Agents!IInv, Agents!Attended, Agents!TypeOK
<1>6. AgentsEnds(w, x1)
  <2>1. x2' = [x2 EXCEPT ![w] = 0]  BY <1>3, <1>5
  <2>2. x10'[x1] = "failed"  BY <1>1, <1>3, AgentsTypes
  <2>. QED  BY <1>3, <1>5, <2>1, <2>2 DEF AgentsEnds, Agents!Statuses
<1>7. /\ x10' \in [Agents!Tasks -> Agents!Statuses \cup {Nothing}] /\ x10'[x1] = "failed"
      /\ \A u \in Agents!Tasks \ {x1} : x10'[u] = x10[u]
  BY <1>1, <1>3, AgentsTypes DEF Agents!Statuses
<1>8. /\ x4' \subseteq Agents!Tasks /\ x5' \in [Agents!Tasks -> 0..MaxCalls]
      /\ x6' \in [Agents!Tasks -> 0..MaxIterations]
      /\ x7' \in [Agents!Tasks -> Nat] /\ x8' \in [Agents!Tasks -> Nat]
      /\ x9' \in [Agents!Tasks -> BOOLEAN] /\ (~x9'[x1] => x8'[x1] = 0)
      /\ x12' \in Nat /\ x13' \in Nat /\ x16' = x13' /\ x13' <= MaxLeaves /\ x12' <= MaxModelCalls
      /\ x7'[x1] = 0
  BY <1>1, <1>3, <1>5, AgentsTypes
<1>9. \A u \in Agents!Tasks \ {x1} :
        /\ u \in x4' <=> u \in x4
        /\ x5'[u] = x5[u] /\ x7'[u] = x7[u] /\ x8'[u] = x8[u] /\ x9'[u] = x9[u]
        /\ x10'[u] = x10[u]
  BY <1>3, <1>7
<1>. QED  BY <1>1, <1>3, <1>4, <1>6, <1>7, <1>8, <1>9, AgentsOne

LEMMA AgentsModelFails ==
  ASSUME Agents!IInv, NEW w \in Workers, Agents!ModelFails(w)
  PROVE  Agents!IInv'
<1>. DEFINE t == x2[w]
<1>1. /\ Agents!Asks(w) /\ Agents!PartialOrFailed(w, t)
      /\ UNCHANGED <<x1, x3, x5, x6, x7, x8, x9, x11, x12, x13, x14, x15, x16>>
  BY DEF Agents!ModelFails, Agents!budget
<1>2. t \in Agents!Tasks /\ AgentsHas(w, t) /\ x5[t] = 0  BY <1>1, AgentsAsks
<1>. HIDE DEF t
<1>3. /\ x5' \in [Agents!Tasks -> 0..MaxCalls] /\ x5'[t] = 0
      /\ x7' \in [Agents!Tasks -> Nat] /\ x8' \in [Agents!Tasks -> Nat]
      /\ x9' \in [Agents!Tasks -> BOOLEAN] /\ (~x9'[t] => x8'[t] = 0)
  BY <1>1, <1>2, AgentsTypes
<1>4. \A u \in Agents!Tasks \ {t} :
         x5'[u] = x5[u] /\ x7'[u] = x7[u] /\ x8'[u] = x8[u] /\ x9'[u] = x9[u]
  BY <1>1
<1>. QED  BY <1>1, <1>2, <1>3, <1>4, AgentsPartialOrFailed

LEMMA AgentsSummarises ==
  ASSUME Agents!IInv, NEW w \in Workers, Agents!Summarises(w)
  PROVE  Agents!IInv'
<1>. DEFINE t == x2[w]
<1>1. /\ Agents!Asks(w) /\ x7[t] + x8[t] > 0 /\ Agents!EndsAs(w, t, Agents!Status(t))
      /\ UNCHANGED <<x1, x3, x5, x6, x7, x8, x9, x11, x12, x13, x14, x15, x16>>
  BY DEF Agents!Summarises, Agents!budget
<1>2. t \in Agents!Tasks /\ AgentsHas(w, t) /\ x5[t] = 0  BY <1>1, AgentsAsks
<1>. HIDE DEF t
<1>3. /\ x5' \in [Agents!Tasks -> 0..MaxCalls] /\ x5'[t] = 0
      /\ x7' \in [Agents!Tasks -> Nat] /\ x8' \in [Agents!Tasks -> Nat]
      /\ x9' \in [Agents!Tasks -> BOOLEAN] /\ (~x9'[t] => x8'[t] = 0)
  BY <1>1, <1>2, AgentsTypes
<1>4. \A u \in Agents!Tasks \ {t} :
         x5'[u] = x5[u] /\ x7'[u] = x7[u] /\ x8'[u] = x8[u] /\ x9'[u] = x9[u]
  BY <1>1
<1>5. /\ Agents!Status(t) \in Agents!Statuses /\ Agents!Status(t) # "failed"
      /\ Agents!Status(t) = "completed" => ~x9[t]
  BY DEF Agents!Status, Agents!Statuses
<1>6. Agents!Status(t) = "completed" => x7'[t] > 0 /\ x8'[t] = 0
  <2>1. x7[t] \in Nat /\ x8[t] \in Nat /\ (~x9[t] => x8[t] = 0)  BY <1>2, AgentsTypes
  <2>. QED  BY <1>1, <1>5, <2>1
<1>. QED  BY <1>1, <1>2, <1>3, <1>4, <1>5, <1>6, AgentsEndsAs

LEMMA AgentsRejected ==
  ASSUME Agents!IInv, NEW w \in Workers, Agents!Rejected(w)
  PROVE  Agents!IInv'
<1>. DEFINE t == x2[w]
<1>1. /\ Agents!Asks(w) /\ Agents!Iterate(w, t, x6[t]) /\ x9' = [x9 EXCEPT ![t] = TRUE]
      /\ UNCHANGED <<x1, x3, x5, x7, x8, x11, x13, x14, x15, x16>>
  BY DEF Agents!Rejected
<1>2. t \in Agents!Tasks /\ AgentsHas(w, t) /\ x5[t] = 0  BY <1>1, AgentsAsks
<1>. HIDE DEF t
<1>3. /\ x5' \in [Agents!Tasks -> 0..MaxCalls] /\ x5'[t] = 0
      /\ x7' \in [Agents!Tasks -> Nat] /\ x8' \in [Agents!Tasks -> Nat]
      /\ x6[t] \in 0..MaxIterations
  BY <1>1, <1>2, AgentsTypes
<1>4. x9' \in [Agents!Tasks -> BOOLEAN] /\ x9'[t]  BY <1>1, <1>2, AgentsTypes
<1>5. \A u \in Agents!Tasks \ {t} :
         x5'[u] = x5[u] /\ x7'[u] = x7[u] /\ x8'[u] = x8[u] /\ x9'[u] = x9[u]
  BY <1>1, <1>2, AgentsTypes
<1>. QED  BY <1>1, <1>2, <1>3, <1>4, <1>5, AgentsIterate

LEMMA AgentsAsksTools ==
  ASSUME Agents!IInv, NEW w \in Workers, NEW n \in 1..MaxCalls, Agents!AsksTools(w, n)
  PROVE  Agents!IInv'
<1>. USE AgentsAssumption
<1>. DEFINE t == x2[w]
<1>0. /\ Agents!Asks(w)
      /\ UNCHANGED <<x1, x3, x6, x7, x8, x9, x11, x12, x14, x15>>
  BY DEF Agents!AsksTools
<1>1. t \in Agents!Tasks /\ AgentsHas(w, t) /\ x5[t] = 0  BY <1>0, AgentsAsks
<1>2. CASE x13 + n > MaxLeaves
  <2>1. Agents!PartialOrFailed(w, t) /\ UNCHANGED <<x5, x13, x16>>
    BY <1>2 DEF Agents!AsksTools
  <2>. HIDE DEF t
  <2>2. /\ x5' \in [Agents!Tasks -> 0..MaxCalls] /\ x5'[t] = 0
        /\ x7' \in [Agents!Tasks -> Nat] /\ x8' \in [Agents!Tasks -> Nat]
        /\ x9' \in [Agents!Tasks -> BOOLEAN] /\ (~x9'[t] => x8'[t] = 0)
    BY <1>0, <1>1, <2>1, AgentsTypes
  <2>3. \A u \in Agents!Tasks \ {t} :
           x5'[u] = x5[u] /\ x7'[u] = x7[u] /\ x8'[u] = x8[u] /\ x9'[u] = x9[u]
    BY <1>0, <2>1
  <2>. QED  BY <1>0, <1>1, <2>1, <2>2, <2>3, AgentsPartialOrFailed
<1>3. CASE ~(x13 + n > MaxLeaves)
  <2>1. /\ x13' = x13 + n /\ x16' = x16 + n /\ x4' = x4 \ {t} /\ x5' = [x5 EXCEPT ![t] = n]
        /\ x2' = x2 /\ x10' = x10
    BY <1>3 DEF Agents!AsksTools, Agents!Reserved
  <2>2. x2' = [x2 EXCEPT ![w] = t]  BY <2>1 DEF Agents!IInv, Agents!TypeOK
  <2>. HIDE DEF t
  <2>3. AgentsKeeps(w, t)  BY <1>1, <2>1, <2>2 DEF AgentsKeeps
  <2>4. x10[t] = Nothing  BY <1>1, AgentsHolder
  <2>5. x10'[t] # "completed" /\ x10'[t] # "failed"  BY <2>1, <2>4 DEF Agents!Statuses
  <2>6. /\ x4' \subseteq Agents!Tasks /\ x5' \in [Agents!Tasks -> 0..MaxCalls]
        /\ x6' \in [Agents!Tasks -> 0..MaxIterations]
        /\ x7' \in [Agents!Tasks -> Nat] /\ x8' \in [Agents!Tasks -> Nat]
        /\ x9' \in [Agents!Tasks -> BOOLEAN] /\ (~x9'[t] => x8'[t] = 0)
        /\ x10' \in [Agents!Tasks -> Agents!Statuses \cup {Nothing}]
        /\ x12' \in Nat /\ x12' <= MaxModelCalls
    BY <1>0, <1>1, <2>1, AgentsTypes
  <2>7. x13' \in Nat /\ x13' <= MaxLeaves /\ x16' = x13'  BY <1>3, <2>1, AgentsTypes
  <2>8. \A u \in Agents!Tasks \ {t} :
          /\ u \in x4' <=> u \in x4
          /\ x5'[u] = x5[u] /\ x7'[u] = x7[u] /\ x8'[u] = x8[u] /\ x9'[u] = x9[u]
          /\ x10'[u] = x10[u]
    BY <1>0, <1>1, <2>1, AgentsTypes
  <2>. QED  BY <1>0, <1>1, <2>3, <2>5, <2>6, <2>7, <2>8, AgentsOne
<1>. QED  BY <1>2, <1>3

LEMMA AgentsToolsSettle ==
  ASSUME Agents!IInv, NEW w \in Workers, NEW k \in 0..MaxCalls, Agents!ToolsSettle(w, k)
  PROVE  Agents!IInv'
<1>. USE AgentsAssumption
<1>. DEFINE t == x2[w]
<1>1. /\ t # 0 /\ x5[t] # 0 /\ k <= x5[t]
      /\ x7' = [x7 EXCEPT ![t] = x7[t] + k] /\ x8' = [x8 EXCEPT ![t] = x8[t] + x5[t] - k]
      /\ x9' = [x9 EXCEPT ![t] = x9[t] \/ k < x5[t]]
      /\ x5' = [x5 EXCEPT ![t] = 0]
      /\ UNCHANGED <<x1, x3, x11, x13, x14, x15, x16>>
      /\ Agents!Iterate(w, t, x6[t])
  BY DEF Agents!ToolsSettle
<1>2. t \in Agents!Tasks
  <2>1. t \in 0..MaxTasks  BY DEF Agents!IInv, Agents!TypeOK
  <2>. QED  BY <1>1, <2>1 DEF Agents!Tasks
<1>3. AgentsHas(w, t)  BY <1>1 DEF AgentsHas
<1>. HIDE DEF t
<1>4. /\ x5[t] \in 0..MaxCalls /\ x6[t] \in 0..MaxIterations /\ x7[t] \in Nat /\ x8[t] \in Nat
      /\ ~x9[t] => x8[t] = 0
  BY <1>2, AgentsTypes
<1>5. /\ x5' \in [Agents!Tasks -> 0..MaxCalls] /\ x5'[t] = 0
      /\ x7' \in [Agents!Tasks -> Nat] /\ x8' \in [Agents!Tasks -> Nat]
      /\ x8'[t] = x8[t] + x5[t] - k
  BY <1>1, <1>2, <1>4, AgentsTypes
<1>6. x9' \in [Agents!Tasks -> BOOLEAN] /\ (x9'[t] <=> (x9[t] \/ k < x5[t]))
  <2>1. x9 \in [Agents!Tasks -> BOOLEAN]  BY AgentsTypes
  <2>2. (x9[t] \/ k < x5[t]) \in BOOLEAN  OBVIOUS
  <2>. QED  BY <1>1, <1>2, <2>1, <2>2, Zenon
<1>7. ~x9'[t] => x8'[t] = 0  BY <1>1, <1>4, <1>5, <1>6
<1>8. \A u \in Agents!Tasks \ {t} :
         x5'[u] = x5[u] /\ x7'[u] = x7[u] /\ x8'[u] = x8[u] /\ x9'[u] = x9[u]
  <2>1. \A u \in Agents!Tasks \ {t} : x9'[u] = x9[u]
    BY <1>1, AgentsTypes, Zenon
  <2>. QED  BY <1>1, <2>1, AgentsTypes
<1>. QED  BY <1>1, <1>2, <1>3, <1>4, <1>5, <1>6, <1>7, <1>8, AgentsIterate

\* A step that moves no worker.
LEMMA AgentsBeside ==
  ASSUME Agents!IInv, (\E n \in 1..MaxCalls : Agents!RootReads(n)) \/ Agents!Abort \/ UNCHANGED Agents!vars
  PROVE  Agents!IInv'
<1>. USE AgentsAssumption
<1>1. /\ UNCHANGED <<x1, x2, x3, x4, x5, x6, x7, x8, x9, x10, x11, x12, x15>>
      /\ x14' \in BOOLEAN
      /\ x13' \in Nat /\ x13' <= MaxLeaves /\ x16' = x13'
  <2>1. x13 \in Nat /\ x13 <= MaxLeaves /\ x16 = x13  BY AgentsTypes
  <2>2. x14 \in BOOLEAN  BY DEF Agents!IInv, Agents!TypeOK
  <2>3. ASSUME NEW n \in 1..MaxCalls, Agents!RootReads(n) PROVE <1>1!:
    BY <2>1, <2>2, <2>3 DEF Agents!RootReads, Agents!task
  <2>4. CASE Agents!Abort
    BY <2>1, <2>4 DEF Agents!Abort, Agents!task, Agents!budget
  <2>5. CASE UNCHANGED Agents!vars
    BY <2>1, <2>2, <2>5 DEF Agents!vars, Agents!task, Agents!budget
  <2>. QED  BY <2>3, <2>4, <2>5
<1>2. Agents!TypeOK'
  <2>1. x16' \in Nat  BY <1>1
  <2>. QED  BY <1>1, <2>1 DEF Agents!IInv, Agents!TypeOK
<1>3. Agents!BudgetHeld'  BY <1>1, AgentsTypes DEF Agents!BudgetHeld
<1>4. Agents!CompletedIsGrounded' /\ Agents!WorkersApart'
  BY <1>1 DEF Agents!IInv, Agents!CompletedIsGrounded, Agents!WorkersApart
<1>5. Agents!Counted'  BY <1>1 DEF Agents!IInv, Agents!Counted
<1>6. \A t \in Agents!Tasks : Agents!Attended(t)' /\ Agents!Evidence(t)'
  BY <1>1 DEF Agents!IInv, Agents!Attended, Agents!Evidence
<1>. QED  BY <1>2, <1>3, <1>4, <1>5, <1>6 DEF Agents!IInv

\* When every worker is done, every task is.
LEMMA AgentsDone ==
  ASSUME Agents!IInv, x3 = Workers
  PROVE  /\ x1 > MaxTasks /\ \A w \in Workers : x2[w] = 0
         /\ \A t \in Agents!Tasks : x10[t] # Nothing /\ t \notin x4 /\ x5[t] = 0
<1>. USE AgentsAssumption
<1>1. x1 > MaxTasks /\ \A w \in Workers : x2[w] = 0
  BY DEF Agents!IInv, Agents!WorkersApart
<1>2. x1 \in Nat  BY DEF Agents!IInv, Agents!TypeOK
<1>3. ASSUME NEW t \in Agents!Tasks PROVE x10[t] # Nothing /\ t \notin x4 /\ x5[t] = 0
  <2>1. t < x1 /\ t # 0  BY <1>1, <1>2 DEF Agents!Tasks
  <2>2. ~\E w \in Workers : x2[w] = t  BY <1>1, <2>1
  <2>. QED  BY <2>1, <2>2 DEF Agents!IInv, Agents!Attended
<1>. QED  BY <1>1, <1>3

LEMMA AgentsReturn ==
  ASSUME Agents!IInv, Agents!Return
  PROVE  Agents!IInv'
<1>. USE AgentsAssumption
<1>1. PICK O \in SUBSET {t \in Agents!Tasks : x7[t] + x8[t] > 0} :
        x11' = O /\ x10' = Agents!Downgraded(O)
  BY DEF Agents!Return
<1>2. /\ x3 = Workers /\ x15' = TRUE
      /\ UNCHANGED <<x1, x2, x3, x4, x5, x6, x7, x8, x9, x12, x13, x14, x16>>
  BY DEF Agents!Return, Agents!budget
<1>3. /\ x1 > MaxTasks /\ \A w \in Workers : x2[w] = 0
      /\ \A t \in Agents!Tasks : x10[t] # Nothing /\ t \notin x4 /\ x5[t] = 0
  BY <1>2, AgentsDone
<1>4. \A t \in Agents!Tasks : x10'[t] = IF t \in O /\ x10[t] # "failed" THEN "partial" ELSE x10[t]
  BY <1>1 DEF Agents!Downgraded
<1>5. x10' \in [Agents!Tasks -> Agents!Statuses \cup {Nothing}]
  BY <1>1, AgentsTypes DEF Agents!Downgraded, Agents!Statuses
<1>6. Agents!TypeOK'
  <2>1. x11' \subseteq Agents!Tasks  BY <1>1
  <2>2. x15' \in BOOLEAN  BY <1>2
  <2>. QED  BY <1>2, <1>5, <2>1, <2>2 DEF Agents!IInv, Agents!TypeOK
<1>7. Agents!BudgetHeld'  BY <1>2 DEF Agents!IInv, Agents!BudgetHeld
<1>8. Agents!CompletedIsGrounded'
  <2>1. ASSUME NEW t \in Agents!Tasks
        PROVE  /\ x10'[t] = "completed" => x7'[t] > 0 /\ x8'[t] = 0 /\ t \notin x11'
               /\ x10'[t] = "failed" => x7'[t] = 0
    BY <1>1, <1>2, <1>4 DEF Agents!IInv, Agents!CompletedIsGrounded
  <2>. QED  BY <2>1 DEF Agents!CompletedIsGrounded
<1>9. Agents!WorkersApart'
  BY <1>2, <1>3 DEF Agents!WorkersApart
<1>10. Agents!Counted'  BY <1>2 DEF Agents!IInv, Agents!Counted
<1>11. ASSUME NEW t \in Agents!Tasks PROVE Agents!Attended(t)' /\ Agents!Evidence(t)'
  <2>1. x10'[t] # Nothing  BY <1>3, <1>4 DEF Agents!Statuses
  <2>2. t < x1' /\ x1' \in Nat  BY <1>2, <1>3 DEF Agents!Tasks, Agents!IInv, Agents!TypeOK
  <2>. QED  BY <1>2, <1>3, <2>1, <2>2 DEF Agents!IInv, Agents!Attended, Agents!Evidence, Agents!Tasks
<1>. QED  BY <1>6, <1>7, <1>8, <1>9, <1>10, <1>11 DEF Agents!IInv

LEMMA AgentsStep == Agents!IInv /\ (Agents!Next \/ UNCHANGED Agents!vars) => Agents!IInv'
  BY AgentsTake, AgentsUnavailable, AgentsModelFails, AgentsSummarises, AgentsRejected,
     AgentsAsksTools, AgentsToolsSettle, AgentsBeside, AgentsReturn DEF Agents!Next

LEMMA AgentsSafe == Agents!IInv => Agents!SubagentsSound
<1>1. Agents!IInv => Agents!AllAnswered
  BY AgentsDone DEF Agents!IInv, Agents!Counted, Agents!AllAnswered
<1>. QED  BY <1>1 DEF Agents!IInv, Agents!SubagentsSound

-----------------------------------------------------------------------------
(* KillIndex.  What the row cap keeps: its definition chooses the rows, so *)
(* that there are such rows has to be shown.                               *)

LEMMA IndexCardinality == \A S : Index!Cardinality(S) = Cardinality(S)
  BY DEF Index!Cardinality, Cardinality

\* A set of numbers has a least one.
LEMMA LeastNumber ==
  ASSUME NEW S \in SUBSET Nat, S # {}
  PROVE  \E n \in S : \A m \in S : n <= m
<1>1. IsWellFoundedOn(OpToRel(<, Nat), Nat)
  BY NatLessThanWellFounded
<1>2. PICK n \in S : \A m \in S : <<m, n>> \notin OpToRel(<, Nat)
  BY <1>1, WFMin
<1>3. ASSUME NEW m \in S PROVE ~(m < n)
  BY <1>2 DEF OpToRel
<1>. QED  BY <1>3

\* Of the youngest of some numbers.
LEMMA LatestOf ==
  ASSUME NEW T, T # {}, NEW f, NEW M \in Nat, \A k \in T : f[k] \in 0..M
  PROVE  \E k \in T : \A l \in T : f[l] <= f[k]
<1>. DEFINE S == {M - f[k] : k \in T}
<1>1. S \in SUBSET Nat /\ S # {}  OBVIOUS
<1>2. PICK n \in S : \A m \in S : n <= m  BY <1>1, LeastNumber
<1>3. PICK k \in T : n = M - f[k]  BY <1>2
<1>4. ASSUME NEW l \in T PROVE f[l] <= f[k]
  <2>1. M - f[l] \in S  OBVIOUS
  <2>2. M - f[k] <= M - f[l]  BY <1>2, <1>3, <2>1
  <2>. QED  BY <2>2
<1>. QED  BY <1>4

\* Of the rows that have happened, one goes before no other.
LEMMA IndexLast ==
  ASSUME NEW T, T # {}, T \subseteq Mails, \A k \in T : x2[k] \in 0..MaxHours
  PROVE  \E k \in T : \A l \in T : ~Index!Before(k, l)
<1>. USE IndexAssumption
<1>1. CASE T \cap GateMails # {}
  <2>1. PICK k \in T \cap GateMails : \A l \in T \cap GateMails : x2[l] <= x2[k]
    BY <1>1, LatestOf
  <2>2. ASSUME NEW l \in T PROVE ~Index!Before(k, l)
    <3>1. CASE l \in GateMails  BY <2>1, <3>1 DEF Index!Before
    <3>2. CASE l \notin GateMails  BY <2>1, <3>2 DEF Index!Before
    <3>. QED  BY <3>1, <3>2
  <2>. QED  BY <2>2
<1>2. CASE T \cap GateMails = {}
  <2>1. PICK k \in T : \A l \in T : x2[l] <= x2[k]
    BY LatestOf
  <2>2. ASSUME NEW l \in T PROVE ~Index!Before(k, l)
    BY <1>2, <2>1 DEF Index!Before
  <2>. QED  BY <2>2
<1>. QED  BY <1>1, <1>2

\* As many rows as there are may be kept so that none goes before a removed one.
Keeps(R, n) ==
  \E K \in SUBSET R : Cardinality(K) = n /\ \A k \in K, l \in R \ K : ~Index!Before(k, l)

LEMMA IndexKeepsOneMore ==
  ASSUME NEW R, R \subseteq Mails, \A k \in R : x2[k] \in 0..MaxHours,
         NEW n \in Nat, n < Cardinality(R), Keeps(R, n)
  PROVE  Keeps(R, n + 1)
<1>. USE IndexAssumption
<1>1. PICK K \in SUBSET R : Cardinality(K) = n /\ \A k \in K, l \in R \ K : ~Index!Before(k, l)
  BY DEF Keeps
<1>2. IsFiniteSet(R) /\ IsFiniteSet(K)  BY FS_Subset
<1>3. R \ K # {}
  <2>1. SUFFICES ASSUME R \ K = {} PROVE FALSE  OBVIOUS
  <2>2. R = K  BY <2>1
  <2>. QED  BY <1>1, <2>2, <1>2, FS_CardinalityType
<1>4. PICK k \in R \ K : \A l \in R \ K : ~Index!Before(k, l)
  BY <1>3, IndexLast
<1>. DEFINE L == K \cup {k}
<1>5. Cardinality(L) = n + 1  BY <1>1, <1>2, <1>4, FS_AddElement
<1>6. \A j \in L, l \in R \ L : ~Index!Before(j, l)  BY <1>1, <1>4
<1>. QED  BY <1>5, <1>6 DEF Keeps

LEMMA IndexKeeps ==
  ASSUME NEW R, R \subseteq Mails, \A k \in R : x2[k] \in 0..MaxHours,
         NEW n \in Nat, n <= Cardinality(R)
  PROVE  Keeps(R, n)
<1>. USE IndexAssumption
<1>. DEFINE S == {m \in Nat : m <= Cardinality(R) /\ ~Keeps(R, m)}
<1>0. IsFiniteSet(R) /\ Cardinality(R) \in Nat  BY FS_Subset, FS_CardinalityType
<1>1. SUFFICES ASSUME S # {} PROVE FALSE  OBVIOUS
<1>2. PICK m \in S : \A l \in S : m <= l  BY <1>1, LeastNumber
<1>3. m # 0
  <2>1. Keeps(R, 0)  BY FS_EmptySet DEF Keeps
  <2>. QED  BY <1>2, <2>1
<1>4. m - 1 \in Nat /\ m - 1 < Cardinality(R)  BY <1>0, <1>2, <1>3
<1>5. Keeps(R, m - 1)
  <2>1. SUFFICES ASSUME ~Keeps(R, m - 1) PROVE FALSE  OBVIOUS
  <2>2. m - 1 \in S  BY <1>0, <1>4, <2>1
  <2>3. m <= m - 1  BY <1>2, <2>2
  <2>4. m \in Nat  BY <1>2
  <2>. QED  BY <2>3, <2>4
<1>6. Keeps(R, (m - 1) + 1)  BY <1>4, <1>5, IndexKeepsOneMore
<1>. QED  BY <1>2, <1>6

\* The row cap keeps rows that were there, and every row of a kill at a gate.
LEMMA IndexKept ==
  ASSUME NEW R, R \subseteq Mails, \A k \in R : x2[k] \in 0..MaxHours
  PROVE  Index!Kept(R) \subseteq R /\ R \cap GateMails \subseteq Index!Kept(R)
<1>. USE IndexAssumption
<1>. DEFINE n == IF Cardinality(R) > MaxRows THEN MaxRows ELSE Cardinality(R)
<1>1. IsFiniteSet(R) /\ Cardinality(R) \in Nat  BY FS_Subset, FS_CardinalityType
<1>2. n \in Nat /\ n <= Cardinality(R)  BY <1>1
<1>3. Keeps(R, n)  BY <1>2, IndexKeeps
<1>. DEFINE P(K) == /\ Index!Cardinality(K) = (IF Index!Cardinality(R) > MaxRows THEN MaxRows
                                               ELSE Index!Cardinality(R))
                    /\ \A k \in K, l \in R \ K : ~Index!Before(k, l)
<1>4. \E K \in SUBSET R : P(K)
  <2>1. PICK K \in SUBSET R : Cardinality(K) = n /\ \A k \in K, l \in R \ K : ~Index!Before(k, l)
    BY <1>3 DEF Keeps
  <2>2. Index!Cardinality(K) = Cardinality(K) /\ Index!Cardinality(R) = Cardinality(R)
    BY IndexCardinality
  <2>. QED  BY <2>1, <2>2
<1>5. Index!Kept(R) = CHOOSE K \in SUBSET R : P(K)  BY DEF Index!Kept
<1>. DEFINE K == Index!Kept(R)
<1>6. K \in SUBSET R /\ P(K)
  <2>. HIDE DEF P
  <2>. QED  BY <1>4, <1>5
<1>. HIDE DEF K
<1>7. Cardinality(K) = n /\ \A k \in K, l \in R \ K : ~Index!Before(k, l)
  BY <1>6, IndexCardinality
<1>8. ASSUME NEW l \in R \cap GateMails, l \notin K PROVE FALSE
  <2>1. ASSUME NEW k \in K PROVE k \in GateMails
    <3>1. ~Index!Before(k, l)  BY <1>7, <1>8
    <3>. QED  BY <1>8, <3>1 DEF Index!Before
  <2>2. K \subseteq GateMails \ {l}  BY <1>8, <2>1
  <2>3. IsFiniteSet(GateMails) /\ IsFiniteSet(K)  BY <1>1, <1>6, FS_Subset
  <2>4. IsFiniteSet(GateMails \ {l}) /\ Cardinality(GateMails \ {l}) = Cardinality(GateMails) - 1
    BY <1>8, <2>3, FS_RemoveElement
  <2>5. Cardinality(K) <= Cardinality(GateMails) - 1
    BY <2>2, <2>4, FS_Subset
  <2>6. Cardinality(GateMails) \in Nat  BY <2>3, FS_CardinalityType
  <2>7. n < MaxRows  BY <1>7, <2>5, <2>6, <1>1
  <2>8. Cardinality(K) = Cardinality(R)  BY <1>1, <1>7, <2>7
  <2>9. K = R  BY <1>1, <1>6, <2>8, FS_Subset
  <2>. QED  BY <1>8, <2>9
<1>. QED  BY <1>6, <1>8 DEF K

\* What the proofs below use of the invariant.
LEMMA IndexInit == Index!Init => Index!IInv
<1>. SUFFICES ASSUME Index!Init PROVE Index!IInv
  OBVIOUS
<1>. USE IndexAssumption DEF Index!Init
<1>1. Index!TypeOK
  <2>1. x3 \in BOOLEAN  OBVIOUS
  <2>2. /\ x1 \in 0..MaxHours /\ x2 \in [Mails -> (0..MaxHours) \cup {Nothing}]
        /\ x4 \subseteq Mails /\ x5 \in [GateMails -> Nat]
        /\ x6 \in [Regarded -> (0..MaxHours) \cup {Nothing}]
        /\ x7 \in [Viewers -> Index!Fills \cup {Nothing}]
        /\ x8 \subseteq Mails /\ x9 \subseteq Mails
        /\ x10 \in [Regarded -> (0..MaxHours) \cup {Nothing}]
        /\ x11 \in [Regarded -> SUBSET (0..MaxHours)]
    OBVIOUS
  <2>. HIDE DEF Index!Init
  <2>. QED  BY <2>1, <2>2 DEF Index!TypeOK, Index!Times
<1>2. Index!Happened = {}  BY DEF Index!Happened
<1>3. Index!KillIndexSound
  BY <1>2 DEF Index!KillIndexSound, Index!RollupComplete, Index!BackfillHeals, Index!CountedOnce,
              Index!AskedRarely
<1>4. Index!Known /\ Index!GatesKept /\ Index!MarksHold
  BY <1>2 DEF Index!Known, Index!GatesKept, Index!MarksHold
<1>. QED  BY <1>1, <1>3, <1>4 DEF Index!IInv

LEMMA IndexTypes ==
  ASSUME Index!IInv
  PROVE  /\ x1 \in 0..MaxHours /\ x1 \in Nat
         /\ \A k \in Index!Happened : k \in Mails /\ x2[k] \in 0..MaxHours /\ x2[k] \in Nat /\ x2[k] <= x1
         /\ x4 \subseteq x8 /\ x8 \subseteq Index!Happened /\ Index!Happened \subseteq Mails
         /\ \A v \in Viewers : x7[v] # Nothing =>
              /\ x7[v] \in Index!Fills /\ x7[v].at \in Nat /\ x7[v].at <= x1 /\ x7[v].at \in 0..MaxHours
              /\ x1 - x7[v].at <= FillTime
<1>. USE IndexAssumption DEF Index!IInv, Index!TypeOK, Index!Times, Index!Known
<1>1. x1 \in 0..MaxHours /\ x1 \in Nat  OBVIOUS
<1>2. ASSUME NEW k \in Index!Happened
      PROVE  k \in Mails /\ x2[k] \in 0..MaxHours /\ x2[k] \in Nat /\ x2[k] <= x1
  <2>1. k \in Mails /\ x2[k] # Nothing  BY <1>2 DEF Index!Happened
  <2>2. x2[k] \in 0..MaxHours  BY <2>1
  <2>3. x2[k] <= x1  BY <1>2
  <2>. QED  BY <2>1, <2>2, <2>3
<1>3. x4 \subseteq x8 /\ x8 \subseteq Index!Happened /\ Index!Happened \subseteq Mails
  BY DEF Index!Happened
<1>4. ASSUME NEW v \in Viewers, x7[v] # Nothing
      PROVE  /\ x7[v] \in Index!Fills /\ x7[v].at \in Nat /\ x7[v].at <= x1 /\ x7[v].at \in 0..MaxHours
             /\ x1 - x7[v].at <= FillTime
  <2>1. x7[v] \in Index!Fills  BY <1>4
  <2>2. x7[v].at \in 0..MaxHours  BY <2>1 DEF Index!Fills
  <2>3. x7[v].at <= x1 /\ x1 - x7[v].at <= FillTime  BY <1>4
  <2>. QED  BY <2>1, <2>2, <2>3
<1>. QED  BY <1>1, <1>2, <1>3, <1>4

\* Kills that are recorded: those that happened, unless a kill at a gate was
\* told and lost its row.
LEMMA IndexRecord ==
  ASSUME Index!IInv, NEW K \in SUBSET Index!Happened, Index!Record(K),
         \A k \in K \cap GateMails : x1 - x2[k] <= GateRetention,
         UNCHANGED <<x1, x2, x3, x6, x11>>, x7' \in [Viewers -> Index!Fills \cup {Nothing}],
         \A v \in Viewers : x7'[v] = x7[v] \/ x7'[v] = Nothing,
         x10' \in [Regarded -> (0..MaxHours) \cup {Nothing}],
         \A s \in Regarded : x10'[s] # Nothing => x10'[s] <= x1,
         Index!BackfillHeals'
  PROVE  Index!IInv'
<1>. USE IndexAssumption
<1>1. /\ x4' = x4 \cup K /\ x8' = x8 \cup K /\ x9' = x9 \ K
      /\ x5' = [k \in GateMails |-> IF k \in K \ x4 THEN x5[k] + 1 ELSE x5[k]]
  BY DEF Index!Record, Index!NewRows
<1>2. Index!Happened' = Index!Happened  BY DEF Index!Happened
<1>3. Index!TypeOK'
  <2>1. x4' \subseteq Mails /\ x8' \subseteq Mails /\ x9' \subseteq Mails
    BY <1>1, IndexTypes DEF Index!IInv, Index!TypeOK
  <2>2. x5' \in [GateMails -> Nat]
    BY <1>1 DEF Index!IInv, Index!TypeOK
  <2>. QED  BY <2>1, <2>2 DEF Index!IInv, Index!TypeOK, Index!Times
<1>4. Index!RollupComplete'
  BY <1>1 DEF Index!IInv, Index!KillIndexSound, Index!RollupComplete, Index!Window
<1>5. Index!CountedOnce'
  <2>1. ASSUME NEW k \in GateMails PROVE x5'[k] = IF k \in x8' THEN 1 ELSE 0
    <3>1. x5[k] = IF k \in x8 THEN 1 ELSE 0
      BY DEF Index!IInv, Index!KillIndexSound, Index!CountedOnce
    <3>2. CASE k \in K
      <4>1. x1 - x2[k] <= GateRetention /\ x2[k] \in Nat /\ x1 \in Nat  BY <3>2, IndexTypes
      <4>2. k \in x8 <=> k \in x4
        <5>1. k \in x4 => k \in x8  BY IndexTypes
        <5>2. k \in x8 => k \in x4 \/ x1 - x2[k] > GateRetention
          BY DEF Index!IInv, Index!GatesKept
        <5>. QED  BY <4>1, <5>1, <5>2
      <4>. QED  BY <1>1, <3>1, <3>2, <4>2
    <3>3. CASE k \notin K  BY <1>1, <3>1, <3>3
    <3>. QED  BY <3>2, <3>3
  <2>. QED  BY <2>1 DEF Index!CountedOnce
<1>6. Index!AskedRarely' /\ Index!MarksHold'
  BY DEF Index!IInv, Index!KillIndexSound, Index!AskedRarely, Index!MarksHold
<1>7. Index!Known'
  <2>1. x4' \subseteq x8' /\ x8' \subseteq Index!Happened'  BY <1>1, <1>2, IndexTypes
  <2>2. \A k \in Index!Happened' : x2'[k] <= x1'  BY <1>2, IndexTypes
  <2>3. \A v \in Viewers : x7'[v] # Nothing => x7'[v].at <= x1' /\ x1' - x7'[v].at <= FillTime
    BY IndexTypes
  <2>. QED  BY <2>1, <2>2, <2>3 DEF Index!Known
<1>8. Index!GatesKept'  BY <1>1 DEF Index!IInv, Index!GatesKept
<1>. QED  BY <1>3, <1>4, <1>5, <1>6, <1>7, <1>8 DEF Index!IInv, Index!KillIndexSound

LEMMA IndexObserve ==
  ASSUME Index!IInv, NEW k \in Mails, Index!Observe(k)
  PROVE  Index!IInv'
<1>. USE IndexAssumption DEF Index!Observe
<1>1. {k} \in SUBSET Index!Happened  OBVIOUS
<1>2. \A j \in {k} \cap GateMails : x1 - x2[j] <= GateRetention
  BY IndexTypes
<1>3. Index!BackfillHeals'
  <2>1. x8 \subseteq x8'  BY DEF Index!Record
  <2>. QED
    BY <2>1 DEF Index!IInv, Index!KillIndexSound, Index!BackfillHeals, Index!Happened
<1>4. /\ x7' \in [Viewers -> Index!Fills \cup {Nothing}]
      /\ \A v \in Viewers : x7'[v] = x7[v] \/ x7'[v] = Nothing
      /\ x10' \in [Regarded -> (0..MaxHours) \cup {Nothing}]
      /\ \A s \in Regarded : x10'[s] # Nothing => x10'[s] <= x1
  BY DEF Index!IInv, Index!TypeOK, Index!Times, Index!Known
<1>. QED  BY <1>1, <1>2, <1>3, <1>4, IndexRecord

LEMMA IndexFilled ==
  ASSUME Index!IInv, NEW v \in Viewers, Index!Filled(v)
  PROVE  Index!IInv'
<1>. USE IndexAssumption
<1>. DEFINE f == x7[v]
            K == Index!Found(f)
<1>1. /\ f # Nothing /\ Index!Record(K) /\ UNCHANGED <<x1, x2, x3, x6, x11>>
      /\ x10' = [s \in Regarded |-> IF s \in f.systems THEN f.at ELSE x10[s]]
      /\ x7' = [x7 EXCEPT ![v] = Nothing]
  BY DEF Index!Filled
<1>2. /\ f \in Index!Fills /\ f.at \in Nat /\ f.at <= x1 /\ f.at \in 0..MaxHours
      /\ x1 - f.at <= FillTime /\ x1 \in Nat
  BY <1>1, IndexTypes
<1>3. /\ K \in SUBSET Index!Happened
      /\ \A k \in K : x2[k] \in (f.at - Retention)..f.at
      /\ \A k \in Index!Happened : WhereOf[k] \in f.systems /\ x2[k] \in (f.at - Retention)..f.at
           => k \in K
  BY DEF Index!Found
<1>. HIDE DEF f, K
<1>4. \A k \in K \cap GateMails : x1 - x2[k] <= GateRetention
  <2>1. ASSUME NEW k \in K PROVE x1 - x2[k] <= GateRetention
    <3>1. x2[k] \in Nat  BY <1>3, IndexTypes
    <3>2. x2[k] >= f.at - Retention  BY <1>2, <1>3, <3>1
    <3>. QED  BY <1>2, <3>1, <3>2
  <2>. QED  BY <2>1
<1>5. x7 \in [Viewers -> Index!Fills \cup {Nothing}]
      /\ x10 \in [Regarded -> (0..MaxHours) \cup {Nothing}]
  BY DEF Index!IInv, Index!TypeOK, Index!Times
<1>6. /\ x7' \in [Viewers -> Index!Fills \cup {Nothing}]
      /\ \A u \in Viewers : x7'[u] = x7[u] \/ x7'[u] = Nothing
  BY <1>1, <1>5
<1>7. /\ x10' \in [Regarded -> (0..MaxHours) \cup {Nothing}]
      /\ \A s \in Regarded : x10'[s] # Nothing => x10'[s] <= x1
  BY <1>1, <1>2, <1>5 DEF Index!IInv, Index!Known
<1>8. Index!BackfillHeals'
  <2>1. ASSUME NEW k \in Index!Happened, x10'[WhereOf[k]] # Nothing,
               x2[k] \in (x10'[WhereOf[k]] - Retention)..(x10'[WhereOf[k]] - 1)
        PROVE  k \in x8'
    <3>1. WhereOf[k] \in Regarded /\ x2[k] \in Nat  BY IndexTypes
    <3>2. CASE WhereOf[k] \in f.systems
      <4>1. x10'[WhereOf[k]] = f.at  BY <1>1, <3>1, <3>2
      <4>2. k \in K  BY <1>2, <1>3, <2>1, <3>1, <3>2, <4>1
      <4>. QED  BY <1>1, <4>2 DEF Index!Record
    <3>3. CASE WhereOf[k] \notin f.systems
      <4>1. x10'[WhereOf[k]] = x10[WhereOf[k]]  BY <1>1, <3>1, <3>3
      <4>2. k \in x8
        BY <2>1, <4>1 DEF Index!IInv, Index!KillIndexSound, Index!BackfillHeals
      <4>. QED  BY <1>1, <4>2 DEF Index!Record
    <3>. QED  BY <3>2, <3>3
  <2>2. Index!Happened' = Index!Happened  BY <1>1 DEF Index!Happened
  <2>. QED  BY <1>1, <2>1, <2>2 DEF Index!BackfillHeals
<1>. QED  BY <1>1, <1>3, <1>4, <1>6, <1>7, <1>8, IndexRecord

\* A sweep.
LEMMA IndexSwept ==
  ASSUME Index!IInv, Index!Swept, UNCHANGED <<x1, x2, x5, x7, x8, x10, x11>>, x3' \in BOOLEAN
  PROVE  Index!IInv'
<1>. USE IndexAssumption
<1>. DEFINE fresh == {k \in x4 : ~Index!Outdated(k)}
            kept == Index!Kept(fresh)
<1>1. /\ x4' = kept /\ x9' = x9 \cup (fresh \ kept)
      /\ x6' = [s \in Regarded |-> IF x6[s] # Nothing /\ x6[s] < x1 - Ttl THEN Nothing ELSE x6[s]]
  BY DEF Index!Swept
<1>2. fresh \subseteq x4 /\ fresh \subseteq Mails /\ \A k \in fresh : x2[k] \in 0..MaxHours
  BY IndexTypes
<1>3. kept \subseteq fresh /\ fresh \cap GateMails \subseteq kept
  <2>. HIDE DEF fresh
  <2>. QED  BY <1>2, IndexKept
<1>4. \A k \in x4 : k \in fresh \/ x1 - x2[k] > (IF k \in GateMails THEN GateRetention ELSE Retention)
  BY DEF Index!Outdated
<1>. HIDE DEF fresh, kept
<1>5. Index!TypeOK'
  <2>1. x4' \subseteq Mails /\ x9' \subseteq Mails
    BY <1>1, <1>2, <1>3 DEF Index!IInv, Index!TypeOK
  <2>2. x6' \in [Regarded -> (0..MaxHours) \cup {Nothing}]
    BY <1>1 DEF Index!IInv, Index!TypeOK, Index!Times
  <2>. QED  BY <2>1, <2>2 DEF Index!IInv, Index!TypeOK, Index!Times
<1>6. Index!RollupComplete'
  <2>1. ASSUME NEW k \in x8, x2[k] >= x1 - Retention PROVE k \in x4' \/ k \in x9'
    <3>1. k \in x4 \/ k \in x9
      BY <2>1 DEF Index!IInv, Index!KillIndexSound, Index!RollupComplete, Index!Window
    <3>2. x2[k] \in Nat /\ x1 \in Nat  BY <2>1, IndexTypes
    <3>3. k \in x4 => k \in fresh  BY <1>4, <2>1, <3>2
    <3>. QED  BY <1>1, <3>1, <3>3
  <2>. QED  BY <2>1 DEF Index!RollupComplete, Index!Window
<1>7. Index!BackfillHeals' /\ Index!CountedOnce'
  BY DEF Index!IInv, Index!KillIndexSound, Index!BackfillHeals, Index!CountedOnce, Index!Happened
<1>8. Index!AskedRarely'
  BY DEF Index!IInv, Index!KillIndexSound, Index!AskedRarely
<1>9. Index!Known'
  <2>1. Index!Happened' = Index!Happened  BY DEF Index!Happened
  <2>2. x4' \subseteq x8'  BY <1>1, <1>2, <1>3, IndexTypes
  <2>. QED  BY <2>1, <2>2 DEF Index!IInv, Index!Known
<1>10. Index!GatesKept'
  <2>1. ASSUME NEW k \in x8 \cap GateMails PROVE k \in x4' \/ x1 - x2[k] > GateRetention
    <3>1. k \in x4 \/ x1 - x2[k] > GateRetention  BY DEF Index!IInv, Index!GatesKept
    <3>2. k \in x4 => k \in fresh \/ x1 - x2[k] > GateRetention  BY <1>4
    <3>. QED  BY <1>1, <1>3, <3>1, <3>2
  <2>. QED  BY <2>1 DEF Index!GatesKept
<1>11. Index!MarksHold'
  <2>1. ASSUME NEW s \in Regarded
        PROVE  /\ x6'[s] # Nothing => x6'[s] <= x1
               /\ \A t \in x11[s] : t < x1 - Ttl \/ (x6'[s] # Nothing /\ t <= x6'[s])
    <3>1. /\ x6[s] # Nothing => x6[s] <= x1
          /\ \A t \in x11[s] : t < x1 - Ttl \/ (x6[s] # Nothing /\ t <= x6[s])
      BY DEF Index!IInv, Index!MarksHold
    <3>2. /\ x6[s] \in (0..MaxHours) \cup {Nothing} /\ \A t \in x11[s] : t \in 0..MaxHours
          /\ x1 \in Nat
      BY IndexTypes DEF Index!IInv, Index!TypeOK, Index!Times
    <3>3. x6'[s] = IF x6[s] # Nothing /\ x6[s] < x1 - Ttl THEN Nothing ELSE x6[s]  BY <1>1
    <3>. QED  BY <3>1, <3>2, <3>3
  <2>. QED  BY <2>1 DEF Index!MarksHold
<1>. QED  BY <1>5, <1>6, <1>7, <1>8, <1>9, <1>10, <1>11 DEF Index!IInv, Index!KillIndexSound

\* A search that begins.
LEMMA IndexBackfill ==
  ASSUME Index!IInv, NEW v \in Viewers, NEW S \in SUBSET Regarded, Index!Backfill(v, S)
  PROVE  Index!IInv'
<1>. USE IndexAssumption
<1>. DEFINE P == Index!Pending(S)
<1>1. /\ x6' = [s \in Regarded |-> IF s \in P THEN x1 ELSE x6[s]]
      /\ x7' = [x7 EXCEPT ![v] = [at |-> x1, systems |-> P]]
      /\ x11' = [s \in Regarded |-> IF s \in P THEN x11[s] \cup {x1} ELSE x11[s]]
      /\ UNCHANGED <<x1, x2, x3, x4, x5, x8, x9, x10>>
  BY DEF Index!Backfill, Index!Marked
<1>2. P \subseteq Regarded /\ \A s \in P : x6[s] = Nothing \/ x6[s] < x1 - Ttl
  BY DEF Index!Pending
<1>. HIDE DEF P
<1>3. x1 \in 0..MaxHours /\ x1 \in Nat  BY IndexTypes
<1>4. /\ x6 \in [Regarded -> (0..MaxHours) \cup {Nothing}]
      /\ x7 \in [Viewers -> Index!Fills \cup {Nothing}] /\ x11 \in [Regarded -> SUBSET (0..MaxHours)]
  BY DEF Index!IInv, Index!TypeOK, Index!Times
<1>5. Index!TypeOK'
  <2>1. [at |-> x1, systems |-> P] \in Index!Fills  BY <1>2, <1>3 DEF Index!Fills, Index!Times
  <2>2. x7' \in [Viewers -> Index!Fills \cup {Nothing}]  BY <1>1, <1>4, <2>1
  <2>3. x6' \in [Regarded -> (0..MaxHours) \cup {Nothing}] /\ x11' \in [Regarded -> SUBSET (0..MaxHours)]
    BY <1>1, <1>3, <1>4
  <2>. QED  BY <1>1, <2>2, <2>3 DEF Index!IInv, Index!TypeOK, Index!Times
<1>6. Index!RollupComplete' /\ Index!BackfillHeals' /\ Index!CountedOnce' /\ Index!GatesKept'
  BY <1>1 DEF Index!IInv, Index!KillIndexSound, Index!RollupComplete, Index!Window, Index!BackfillHeals,
              Index!CountedOnce, Index!Happened, Index!GatesKept
<1>7. ASSUME NEW s \in P, NEW t \in x11[s] PROVE t \in Nat /\ t < x1 - Ttl
  <2>1. t \in Nat /\ x6[s] \in (0..MaxHours) \cup {Nothing}  BY <1>2, <1>4
  <2>2. t < x1 - Ttl \/ (x6[s] # Nothing /\ t <= x6[s])
    BY <1>2 DEF Index!IInv, Index!MarksHold
  <2>3. x6[s] = Nothing \/ x6[s] < x1 - Ttl  BY <1>2
  <2>. QED  BY <1>3, <2>1, <2>2, <2>3
<1>8. Index!AskedRarely'
  <2>1. ASSUME NEW s \in Regarded, NEW t \in x11'[s], NEW u \in x11'[s], t < u PROVE u - t > Ttl
    <3>1. CASE s \notin P
      BY <1>1, <2>1, <3>1 DEF Index!IInv, Index!KillIndexSound, Index!AskedRarely
    <3>2. CASE s \in P
      <4>1. x11'[s] = x11[s] \cup {x1}  BY <1>1, <3>2
      <4>2. CASE u = x1
        <5>1. t \in x11[s]  BY <1>3, <2>1, <4>1, <4>2
        <5>. QED  BY <1>3, <1>7, <3>2, <4>2, <5>1
      <4>3. CASE u # x1
        <5>1. u \in x11[s] /\ u < x1 - Ttl /\ u \in Nat  BY <1>7, <3>2, <4>1, <4>3
        <5>2. t # x1  BY <1>3, <2>1, <5>1
        <5>3. t \in x11[s]  BY <4>1, <5>2
        <5>. QED  BY <2>1, <5>1, <5>3 DEF Index!IInv, Index!KillIndexSound, Index!AskedRarely
      <4>. QED  BY <4>2, <4>3
    <3>. QED  BY <3>1, <3>2
  <2>. QED  BY <2>1 DEF Index!AskedRarely
<1>9. Index!Known'
  <2>1. Index!Happened' = Index!Happened  BY <1>1 DEF Index!Happened
  <2>2. ASSUME NEW u \in Viewers, x7'[u] # Nothing
        PROVE  x7'[u].at <= x1' /\ x1' - x7'[u].at <= FillTime
    <3>1. CASE u = v
      <4>1. x7'[u] = [at |-> x1, systems |-> P]  BY <1>1, <1>4, <3>1
      <4>. QED  BY <1>1, <1>3, <4>1
    <3>2. CASE u # v
      <4>1. x7'[u] = x7[u]  BY <1>1, <1>4, <3>2
      <4>. QED  BY <1>1, <2>2, <4>1, IndexTypes
    <3>. QED  BY <3>1, <3>2
  <2>. QED  BY <1>1, <2>1, <2>2 DEF Index!IInv, Index!Known
<1>10. Index!MarksHold'
  <2>1. ASSUME NEW s \in Regarded
        PROVE  /\ x6'[s] # Nothing => x6'[s] <= x1
               /\ \A t \in x11'[s] : t < x1 - Ttl \/ (x6'[s] # Nothing /\ t <= x6'[s])
    <3>1. CASE s \in P
      <4>1. x6'[s] = x1 /\ x11'[s] = x11[s] \cup {x1}  BY <1>1, <3>1
      <4>2. x1 # Nothing  BY <1>3
      <4>. QED  BY <1>3, <1>7, <3>1, <4>1, <4>2
    <3>2. CASE s \notin P
      BY <1>1, <3>2 DEF Index!IInv, Index!MarksHold
    <3>. QED  BY <3>1, <3>2
  <2>. QED  BY <1>1, <2>1 DEF Index!MarksHold
<1>. QED  BY <1>5, <1>6, <1>8, <1>9, <1>10 DEF Index!IInv, Index!KillIndexSound

LEMMA IndexTick ==
  ASSUME Index!IInv, Index!Tick
  PROVE  Index!IInv'
<1>. USE IndexAssumption
<1>1. /\ x1 < MaxHours /\ x1' = x1 + 1 /\ \A v \in Viewers : x7[v] # Nothing => x1 - x7[v].at < FillTime
      /\ UNCHANGED <<x2, x3, x4, x5, x6, x7, x8, x9, x10, x11>>
  BY DEF Index!Tick, Index!db, Index!past
<1>2. x1 \in Nat /\ x1' \in 0..MaxHours  BY <1>1, IndexTypes
<1>3. Index!Happened' = Index!Happened  BY <1>1 DEF Index!Happened
<1>4. Index!TypeOK'  BY <1>1, <1>2 DEF Index!IInv, Index!TypeOK, Index!Times
<1>5. Index!RollupComplete'
  <2>1. ASSUME NEW k \in x8, x2[k] >= x1' - Retention PROVE k \in x4 \/ k \in x9
    <3>1. x2[k] \in Nat  BY IndexTypes
    <3>2. x2[k] >= x1 - Retention  BY <1>1, <1>2, <2>1, <3>1
    <3>. QED  BY <3>2 DEF Index!IInv, Index!KillIndexSound, Index!RollupComplete, Index!Window
  <2>. QED  BY <1>1, <2>1 DEF Index!RollupComplete, Index!Window
<1>6. Index!BackfillHeals' /\ Index!CountedOnce' /\ Index!AskedRarely'
  BY <1>1, <1>3 DEF Index!IInv, Index!KillIndexSound, Index!BackfillHeals, Index!CountedOnce,
                    Index!AskedRarely
<1>7. Index!Known'
  <2>1. \A k \in Index!Happened : x2[k] <= x1'  BY <1>1, IndexTypes
  <2>2. ASSUME NEW v \in Viewers, x7[v] # Nothing PROVE x7[v].at <= x1' /\ x1' - x7[v].at <= FillTime
    <3>1. x7[v].at \in Nat /\ x7[v].at <= x1 /\ x1 - x7[v].at < FillTime  BY <1>1, <2>2, IndexTypes
    <3>. QED  BY <1>1, <1>2, <3>1
  <2>3. ASSUME NEW s \in Regarded, x10[s] # Nothing PROVE x10[s] <= x1'
    <3>1. x10[s] <= x1 /\ x10[s] \in Nat
      BY <2>3 DEF Index!IInv, Index!Known, Index!TypeOK, Index!Times
    <3>. QED  BY <1>1, <1>2, <3>1
  <2>. QED  BY <1>1, <1>3, <2>1, <2>2, <2>3, IndexTypes DEF Index!Known
<1>8. Index!GatesKept'
  <2>1. ASSUME NEW k \in x8 \cap GateMails PROVE k \in x4 \/ x1' - x2[k] > GateRetention
    <3>1. x2[k] \in Nat  BY IndexTypes
    <3>. QED  BY <1>1, <1>2, <3>1 DEF Index!IInv, Index!GatesKept
  <2>. QED  BY <1>1, <2>1 DEF Index!GatesKept
<1>9. Index!MarksHold'
  <2>1. ASSUME NEW s \in Regarded
        PROVE  /\ x6[s] # Nothing => x6[s] <= x1'
               /\ \A t \in x11[s] : t < x1' - Ttl \/ (x6[s] # Nothing /\ t <= x6[s])
    <3>1. x6[s] \in (0..MaxHours) \cup {Nothing} /\ \A t \in x11[s] : t \in 0..MaxHours
      BY DEF Index!IInv, Index!TypeOK, Index!Times
    <3>2. /\ x6[s] # Nothing => x6[s] <= x1
          /\ \A t \in x11[s] : t < x1 - Ttl \/ (x6[s] # Nothing /\ t <= x6[s])
      BY DEF Index!IInv, Index!MarksHold
    <3>. QED  BY <1>1, <1>2, <3>1, <3>2
  <2>. QED  BY <1>1, <2>1 DEF Index!MarksHold
<1>. QED  BY <1>4, <1>5, <1>6, <1>7, <1>8, <1>9 DEF Index!IInv, Index!KillIndexSound

LEMMA IndexHappen ==
  ASSUME Index!IInv, NEW k \in Mails, Index!Happen(k)
  PROVE  Index!IInv'
<1>. USE IndexAssumption
<1>1. /\ x2[k] = Nothing /\ x2' = [x2 EXCEPT ![k] = x1]
      /\ UNCHANGED <<x1, x3, x4, x5, x6, x7, x8, x9, x10, x11>>
  BY DEF Index!Happen, Index!db, Index!past
<1>2. x1 \in 0..MaxHours /\ x1 \in Nat /\ x1 # Nothing /\ x2 \in [Mails -> (0..MaxHours) \cup {Nothing}]
  BY IndexTypes DEF Index!IInv, Index!TypeOK, Index!Times
<1>3. Index!Happened' = Index!Happened \cup {k} /\ k \notin Index!Happened
  BY <1>1, <1>2 DEF Index!Happened
<1>4. \A j \in Index!Happened : x2'[j] = x2[j]  BY <1>1, <1>2, <1>3, IndexTypes
<1>5. x2'[k] = x1  BY <1>1, <1>2
<1>6. k \notin x8 /\ k \notin x4 /\ x8 \subseteq Index!Happened /\ x4 \subseteq x8  BY <1>3, IndexTypes
<1>7. Index!TypeOK'
  <2>1. x2' \in [Mails -> (0..MaxHours) \cup {Nothing}]  BY <1>1, <1>2
  <2>. QED  BY <1>1, <2>1 DEF Index!IInv, Index!TypeOK, Index!Times
<1>8. Index!RollupComplete'
  BY <1>1, <1>4, <1>6 DEF Index!IInv, Index!KillIndexSound, Index!RollupComplete, Index!Window
<1>9. Index!BackfillHeals'
  <2>1. ASSUME NEW j \in Index!Happened', x10[WhereOf[j]] # Nothing,
               x2'[j] \in (x10[WhereOf[j]] - Retention)..(x10[WhereOf[j]] - 1)
        PROVE  j \in x8
    <3>1. CASE j = k
      <4>1. x10[WhereOf[k]] <= x1 /\ x10[WhereOf[k]] \in Nat
        BY <2>1, <3>1 DEF Index!IInv, Index!Known, Index!TypeOK, Index!Times
      <4>. QED  BY <1>2, <1>5, <2>1, <3>1, <4>1
    <3>2. CASE j # k
      BY <1>3, <1>4, <2>1, <3>2 DEF Index!IInv, Index!KillIndexSound, Index!BackfillHeals
    <3>. QED  BY <3>1, <3>2
  <2>. QED  BY <1>1, <2>1 DEF Index!BackfillHeals
<1>10. Index!CountedOnce' /\ Index!AskedRarely' /\ Index!MarksHold'
  BY <1>1 DEF Index!IInv, Index!KillIndexSound, Index!CountedOnce, Index!AskedRarely, Index!MarksHold
<1>11. Index!Known'
  <2>1. \A j \in Index!Happened' : x2'[j] <= x1  BY <1>2, <1>3, <1>4, <1>5, IndexTypes
  <2>2. x8' \subseteq Index!Happened' /\ x4' \subseteq x8'  BY <1>1, <1>3, <1>6
  <2>. QED  BY <1>1, <2>1, <2>2 DEF Index!IInv, Index!Known
<1>12. Index!GatesKept'
  BY <1>1, <1>4, <1>6 DEF Index!IInv, Index!GatesKept
<1>. QED  BY <1>7, <1>8, <1>9, <1>10, <1>11, <1>12 DEF Index!IInv, Index!KillIndexSound

\* Searches that end without an answer, and steps that do nothing.
LEMMA IndexForgets ==
  ASSUME Index!IInv, UNCHANGED <<x1, x2, x4, x5, x6, x8, x9, x10, x11>>, x3' \in BOOLEAN,
         x7' \in [Viewers -> Index!Fills \cup {Nothing}],
         \A v \in Viewers : x7'[v] = x7[v] \/ x7'[v] = Nothing
  PROVE  Index!IInv'
<1>1. Index!TypeOK'  BY DEF Index!IInv, Index!TypeOK
<1>2. Index!KillIndexSound' /\ Index!GatesKept' /\ Index!MarksHold'
  BY DEF Index!IInv, Index!KillIndexSound, Index!RollupComplete, Index!Window, Index!BackfillHeals,
         Index!Happened, Index!CountedOnce, Index!AskedRarely, Index!GatesKept, Index!MarksHold
<1>3. Index!Known'
  <2>1. Index!Happened' = Index!Happened  BY DEF Index!Happened
  <2>2. \A v \in Viewers : x7'[v] # Nothing => x7'[v].at <= x1' /\ x1' - x7'[v].at <= FillTime
    BY IndexTypes
  <2>. QED  BY <2>1, <2>2 DEF Index!IInv, Index!Known
<1>. QED  BY <1>1, <1>2, <1>3 DEF Index!IInv

LEMMA IndexStep == Index!IInv /\ (Index!Next \/ UNCHANGED Index!vars) => Index!IInv'
<1>. SUFFICES ASSUME Index!IInv, Index!Next \/ UNCHANGED Index!vars PROVE Index!IInv'
  OBVIOUS
<1>1. CASE Index!Sweep \/ Index!Attach
  BY <1>1, IndexSwept DEF Index!Sweep, Index!Attach, Index!IInv, Index!TypeOK
<1>2. ASSUME NEW v \in Viewers, Index!SearchFails(v) PROVE Index!IInv'
  BY <1>2, IndexForgets DEF Index!SearchFails, Index!db, Index!past, Index!IInv, Index!TypeOK
<1>3. CASE Index!Restart
  BY <1>3, IndexForgets DEF Index!Restart, Index!db, Index!past
<1>4. CASE UNCHANGED Index!vars
  BY <1>4, IndexForgets DEF Index!vars, Index!db, Index!past, Index!IInv, Index!TypeOK
<1>. QED
  BY <1>1, <1>2, <1>3, <1>4, IndexHappen, IndexObserve, IndexBackfill, IndexFilled, IndexTick
  DEF Index!Next

-----------------------------------------------------------------------------
(* The components as MCMap runs them.                                      *)

SharedInv ==
  /\ chosen = "sessions" => Sessions!IInv
  /\ chosen = "index" => Index!IInv
  /\ chosen = "stream" => Stream!IInv
  /\ chosen = "agents" => Agents!IInv

LEMMA SharedStep == SharedInv /\ [MCNext]_all => SharedInv'
<1>. SUFFICES ASSUME SharedInv, [MCNext]_all PROVE SharedInv'
  OBVIOUS
<1>0. chosen' = chosen  BY DEF MCNext, all
<1>1. ASSUME chosen = "sessions" PROVE Sessions!IInv'
  <2>1. Sessions!Next \/ UNCHANGED Sessions!vars
    BY <1>1 DEF MCNext, all, others, Sessions!vars, Sessions!eve, Sessions!session
  <2>. QED  BY <1>1, <2>1, SessionsStep DEF SharedInv
<1>2. ASSUME chosen = "index" PROVE Index!IInv'
  <2>1. Index!Next \/ UNCHANGED Index!vars
    BY <1>2 DEF MCNext, all, others, Index!vars, Index!db, Index!past
  <2>. QED  BY <1>2, <2>1, IndexStep DEF SharedInv
<1>3. ASSUME chosen = "stream" PROVE Stream!IInv'
  <2>1. Stream!Next \/ UNCHANGED Stream!vars
    BY <1>3 DEF MCNext, all, others, Stream!vars, Stream!work, Stream!heard, Stream!line
  <2>. QED  BY <1>3, <2>1, StreamStep DEF SharedInv
<1>4. ASSUME chosen = "agents" PROVE Agents!IInv'
  <2>1. Agents!Next \/ UNCHANGED Agents!vars
    BY <1>4 DEF MCNext, all, others, Agents!vars, Agents!task, Agents!budget
  <2>. QED  BY <1>4, <2>1, AgentsStep DEF SharedInv
<1>. QED  BY <1>0, <1>1, <1>2, <1>3, <1>4 DEF SharedInv

\* For any accounts, streams, kills, systems, workers and budgets: nobody is
\* polled unwatched or as another; the counts of kills are complete and the
\* searches restrained; no kill and no jump is lost in a rebuild; and
\* sub-agents stay within the turn's budget and answer every task.
THEOREM SharedSafe == MCSpec => []SharedSound
<1>1. MCInit => SharedInv
  BY SessionsInit, IndexInit, StreamInit, AgentsInit DEF MCInit, SharedInv
<1>2. SharedInv /\ [MCNext]_all => SharedInv'
  BY SharedStep
<1>3. SharedInv => SharedSound
  <2>1. Sessions!IInv => Sessions!LiveSessionsSound
    BY DEF Sessions!IInv, Sessions!LiveSessionsSound, Sessions!OwnPositionOnly
  <2>2. Index!IInv => Index!KillIndexSound  BY DEF Index!IInv
  <2>3. Stream!IInv => Stream!StreamSound  BY DEF Stream!IInv
  <2>. QED  BY <2>1, <2>2, <2>3, AgentsSafe DEF SharedInv, SharedSound
<1>. QED  BY <1>1, <1>2, <1>3, PTL DEF MCSpec

-----------------------------------------------------------------------------
(* CharacterSync.  Its variables are x1, ..., x9: x5 the moves, x6 the     *)
(* rows, x7 the states, x8 the refreshes under way, x9 the calls.          *)

LEMMA ProfileInit == Profile!Init => Profile!IInv
<1>. SUFFICES ASSUME Profile!Init PROVE Profile!IInv
  OBVIOUS
<1>1. /\ x2 \in [Owners -> Profile!OrNothing(Characters)] /\ x3 \in [Characters -> SUBSET Datasets]
      /\ x1 \in [Characters -> Profile!OrNothing(Owners)]
  BY DEF Profile!Init, Profile!OrNothing
<1>2. /\ x4 = [c \in Characters |-> 0] /\ x5 = 0
      /\ x6 = [p \in Characters \X Datasets |-> {}]
      /\ x7 = [p \in Characters \X Datasets |-> Profile!Fresh0]
      /\ x8 = [p \in Characters \X Datasets |-> Nothing] /\ x9 = [k \in Syncs |-> Nothing]
  BY DEF Profile!Init
<1>3. Profile!Fresh0 \in Profile!States /\ Profile!Fresh0.fresh = FALSE /\ Profile!Fresh0.synced = FALSE
  BY DEF Profile!Fresh0, Profile!States, Profile!Statuses
<1>. HIDE DEF Profile!Fresh0
<1>4. Profile!TypeOK
  BY <1>1, <1>2, <1>3, ProfileAssumption DEF Profile!TypeOK, Profile!Versions, Profile!OrNothing
<1>5. \A c \in Characters, d \in Datasets : x6[<<c, d>>] = {} /\ x7[<<c, d>>] = Profile!Fresh0
  BY <1>2
<1>6. Profile!OwnRows /\ Profile!NobodyHangs /\ Profile!DoneHasOutcome
  BY <1>2, <1>5 DEF Profile!OwnRows, Profile!NobodyHangs, Profile!DoneHasOutcome
<1>7. Profile!StateIsTrue /\ Profile!FreshHasOutcome
  BY <1>3, <1>5 DEF Profile!StateIsTrue, Profile!FreshHasOutcome
<1>. QED  BY <1>4, <1>6, <1>7 DEF Profile!IInv

\* A step that changes the account, what ESI has, calls and refreshes.
LEMMA ProfileCalls ==
  ASSUME Profile!IInv, UNCHANGED <<x6, x7>>,
         x1' \in [Characters -> Profile!OrNothing(Owners)],
         x2' \in [Owners -> Profile!OrNothing(Characters)],
         x3' \in [Characters -> SUBSET Datasets], x4' \in [Characters -> Profile!Versions],
         x5' \in 0..MaxMoves,
         x8' \in [Characters \X Datasets -> Profile!OrNothing(Profile!Flights)],
         x9' \in [Syncs -> Profile!OrNothing(Profile!Working)],
         Profile!NobodyHangs', Profile!DoneHasOutcome'
  PROVE  Profile!IInv'
<1>1. Profile!TypeOK'
  BY DEF Profile!IInv, Profile!TypeOK
<1>2. Profile!OwnRows' /\ Profile!StateIsTrue' /\ Profile!FreshHasOutcome'
  BY DEF Profile!IInv, Profile!OwnRows, Profile!StateIsTrue, Profile!FreshHasOutcome
<1>. QED  BY <1>1, <1>2 DEF Profile!IInv

LEMMA ProfileAround ==
  ASSUME Profile!IInv, NEW c \in Characters,
         Profile!DataChanges(c) \/ (\E u \in Owners : Profile!Switch(u, c)) \/ Profile!Restart
  PROVE  Profile!IInv'
<1>1. Profile!TypeOK /\ UNCHANGED <<x6, x7>>
  BY DEF Profile!IInv, Profile!DataChanges, Profile!Switch, Profile!Restart, Profile!eve
<1>2. CASE Profile!DataChanges(c)
  <2>1. /\ x4[c] < MaxVersion /\ x4' = [x4 EXCEPT ![c] = @ + 1]
        /\ UNCHANGED <<x1, x2, x3, x5, x8, x9>>
    BY <1>2 DEF Profile!DataChanges
  <2>2. x4' \in [Characters -> Profile!Versions]
    <3>1. x4[c] + 1 \in 0..MaxVersion
      BY <1>1, <2>1, ProfileAssumption DEF Profile!TypeOK, Profile!Versions
    <3>. QED  BY <1>1, <2>1, <3>1 DEF Profile!TypeOK, Profile!Versions
  <2>3. Profile!NobodyHangs' /\ Profile!DoneHasOutcome'
    BY <1>1, <2>1 DEF Profile!IInv, Profile!NobodyHangs, Profile!DoneHasOutcome
  <2>. QED  BY <1>1, <2>1, <2>2, <2>3, ProfileCalls DEF Profile!TypeOK
<1>3. ASSUME NEW u \in Owners, Profile!Switch(u, c) PROVE Profile!IInv'
  <2>1. x2' = [x2 EXCEPT ![u] = c] /\ UNCHANGED <<x1, x3, x4, x5, x8, x9>>
    BY <1>3 DEF Profile!Switch
  <2>2. x2' \in [Owners -> Profile!OrNothing(Characters)]
    BY <1>1, <2>1 DEF Profile!TypeOK, Profile!OrNothing
  <2>3. Profile!NobodyHangs' /\ Profile!DoneHasOutcome'
    BY <1>1, <2>1 DEF Profile!IInv, Profile!NobodyHangs, Profile!DoneHasOutcome
  <2>. QED  BY <1>1, <2>1, <2>2, <2>3, ProfileCalls DEF Profile!TypeOK
<1>4. CASE Profile!Restart
  <2>1. /\ x8' = [p \in Characters \X Datasets |-> Nothing] /\ x9' = [k \in Syncs |-> Nothing]
        /\ UNCHANGED <<x1, x2, x3, x4, x5>>
    BY <1>4 DEF Profile!Restart, Profile!eve
  <2>2. /\ x8' \in [Characters \X Datasets -> Profile!OrNothing(Profile!Flights)]
        /\ x9' \in [Syncs -> Profile!OrNothing(Profile!Working)]
    BY <2>1 DEF Profile!OrNothing
  <2>3. Profile!NobodyHangs' /\ Profile!DoneHasOutcome'
    BY <2>1 DEF Profile!NobodyHangs, Profile!DoneHasOutcome
  <2>. QED  BY <1>1, <2>1, <2>2, <2>3, ProfileCalls DEF Profile!TypeOK
<1>. QED  BY <1>2, <1>3, <1>4

\* A character that leaves takes its rows along.
LEMMA ProfileMove ==
  ASSUME Profile!IInv, NEW c \in Characters, NEW u \in Profile!OrNothing(Owners),
         Profile!Move(c, u)
  PROVE  Profile!IInv' /\ x5' # x5
<1>1. /\ x5 < MaxMoves /\ x5' = x5 + 1 /\ x1' = [x1 EXCEPT ![c] = u]
      /\ x2' = [v \in Owners |-> IF v = u THEN c ELSE IF x2[v] = c THEN Nothing ELSE x2[v]]
      /\ x6' = [p \in Characters \X Datasets |-> IF p[1] = c THEN {} ELSE x6[p]]
      /\ x7' = [p \in Characters \X Datasets |-> IF p[1] = c THEN Profile!Fresh0 ELSE x7[p]]
      /\ UNCHANGED <<x4, x8, x9>> /\ \E S \in SUBSET Datasets : x3' = [x3 EXCEPT ![c] = S]
  BY DEF Profile!Move, Profile!StateGone
<1>2. Profile!TypeOK
  BY DEF Profile!IInv
<1>3. Profile!Fresh0 \in Profile!States /\ Profile!Fresh0.fresh = FALSE /\ Profile!Fresh0.synced = FALSE
  BY DEF Profile!Fresh0, Profile!States, Profile!Statuses
<1>. HIDE DEF Profile!Fresh0
<1>4. x5 \in Nat /\ x5' \in 0..MaxMoves /\ x5' # 0 /\ x5' # x5
  BY <1>1, <1>2, ProfileAssumption DEF Profile!TypeOK
<1>5. Profile!TypeOK'
  <2>1. /\ x1' \in [Characters -> Profile!OrNothing(Owners)]
        /\ x2' \in [Owners -> Profile!OrNothing(Characters)]
        /\ x3' \in [Characters -> SUBSET Datasets]
    BY <1>1, <1>2 DEF Profile!TypeOK, Profile!OrNothing
  <2>2. x6' \in [Characters \X Datasets -> SUBSET (Characters \X Profile!Versions)]
    BY <1>1, <1>2 DEF Profile!TypeOK
  <2>3. x7' \in [Characters \X Datasets -> Profile!States]
    BY <1>1, <1>2, <1>3 DEF Profile!TypeOK
  <2>. QED  BY <1>1, <1>2, <1>4, <2>1, <2>2, <2>3 DEF Profile!TypeOK
<1>6. \A e \in Characters, d \in Datasets :
        /\ e = c => x6'[<<e, d>>] = {} /\ x7'[<<e, d>>] = Profile!Fresh0
        /\ e # c => x6'[<<e, d>>] = x6[<<e, d>>] /\ x7'[<<e, d>>] = x7[<<e, d>>]
  BY <1>1
<1>7. Profile!OwnRows' /\ Profile!StateIsTrue' /\ Profile!FreshHasOutcome'
  BY <1>3, <1>6 DEF Profile!IInv, Profile!OwnRows, Profile!StateIsTrue, Profile!FreshHasOutcome
<1>8. Profile!NobodyHangs' /\ Profile!DoneHasOutcome'
  BY <1>1, <1>4 DEF Profile!IInv, Profile!NobodyHangs, Profile!DoneHasOutcome
<1>. QED  BY <1>4, <1>5, <1>7, <1>8 DEF Profile!IInv

\* A step that gives one dataset the state s and the rows R.
OnePair(c, d, s, R) ==
  /\ s \in Profile!States /\ x7' = [x7 EXCEPT ![<<c, d>>] = s]
  /\ s.fresh => s.status # "pending"
  /\ x7[<<c, d>>].status # "pending" => s.status # "pending"
  /\ R \in SUBSET (Characters \X Profile!Versions) /\ x6' = [x6 EXCEPT ![<<c, d>>] = R]
  /\ (\A r \in R : r[1] = c) /\ (s.synced => R # {})
  /\ UNCHANGED <<x1, x2, x3, x4, x5>>
  /\ x8' \in [Characters \X Datasets -> Profile!OrNothing(Profile!Flights)]
  /\ x9' \in [Syncs -> Profile!OrNothing(Profile!Working)]
  /\ Profile!NobodyHangs'
  /\ \A k \in Syncs : x9'[k] # Nothing =>
       /\ x9[k] # Nothing /\ x9'[k].char = x9[k].char /\ x9'[k].all = x9[k].all
       /\ \/ x9'[k].todo = x9[k].todo
          \/ /\ x9[k].char = c /\ x9'[k].todo = x9[k].todo \ {d} /\ s.status # "pending"

LEMMA ProfilePair ==
  ASSUME Profile!IInv, NEW c \in Characters, NEW d \in Datasets, NEW s, NEW R, OnePair(c, d, s, R)
  PROVE  Profile!IInv'
<1>0. /\ s \in Profile!States /\ x7' = [x7 EXCEPT ![<<c, d>>] = s]
      /\ s.fresh => s.status # "pending"
      /\ x7[<<c, d>>].status # "pending" => s.status # "pending"
      /\ R \in SUBSET (Characters \X Profile!Versions) /\ x6' = [x6 EXCEPT ![<<c, d>>] = R]
      /\ (\A r \in R : r[1] = c) /\ (s.synced => R # {})
      /\ UNCHANGED <<x1, x2, x3, x4, x5>>
      /\ x8' \in [Characters \X Datasets -> Profile!OrNothing(Profile!Flights)]
      /\ x9' \in [Syncs -> Profile!OrNothing(Profile!Working)]
      /\ Profile!NobodyHangs'
      /\ \A k \in Syncs : x9'[k] # Nothing =>
           /\ x9[k] # Nothing /\ x9'[k].char = x9[k].char /\ x9'[k].all = x9[k].all
           /\ \/ x9'[k].todo = x9[k].todo
              \/ /\ x9[k].char = c /\ x9'[k].todo = x9[k].todo \ {d} /\ s.status # "pending"
  BY DEF OnePair
<1>1. Profile!TypeOK /\ <<c, d>> \in Characters \X Datasets
  BY DEF Profile!IInv
<1>2. Profile!TypeOK'
  BY <1>0, <1>1 DEF Profile!TypeOK
<1>3. \A e \in Characters, f \in Datasets :
        /\ e = c /\ f = d => x6'[<<e, f>>] = R /\ x7'[<<e, f>>] = s
        /\ e # c \/ f # d => x6'[<<e, f>>] = x6[<<e, f>>] /\ x7'[<<e, f>>] = x7[<<e, f>>]
  BY <1>0, <1>1 DEF Profile!TypeOK
<1>4. Profile!OwnRows'
  BY <1>0, <1>3 DEF Profile!IInv, Profile!OwnRows
<1>5. Profile!StateIsTrue'
  <2>. SUFFICES ASSUME NEW e \in Characters, NEW f \in Datasets, x7'[<<e, f>>].synced
                PROVE  x6'[<<e, f>>] # {}
    BY DEF Profile!StateIsTrue
  <2>1. CASE e = c /\ f = d
    <3>1. x6'[<<e, f>>] = R /\ s.synced
      BY <1>3, <2>1
    <3>. QED  BY <1>0, <3>1
  <2>2. CASE e # c \/ f # d
    <3>1. x6'[<<e, f>>] = x6[<<e, f>>] /\ x7[<<e, f>>].synced
      BY <1>3, <2>2
    <3>. QED  BY <3>1 DEF Profile!IInv, Profile!StateIsTrue
  <2>. QED  BY <2>1, <2>2
<1>6. Profile!FreshHasOutcome'
  BY <1>0, <1>3 DEF Profile!IInv, Profile!FreshHasOutcome
<1>7. \A e \in Characters, f \in Datasets : x7[<<e, f>>].status # "pending" => x7'[<<e, f>>].status # "pending"
  BY <1>0, <1>3
<1>8. Profile!DoneHasOutcome'
  <2>. SUFFICES ASSUME x5 = 0, NEW k \in Syncs, x9'[k] # Nothing,
                       NEW f \in x9'[k].all \ x9'[k].todo
                PROVE  x7'[<<x9'[k].char, f>>].status # "pending"
    BY <1>0 DEF Profile!DoneHasOutcome
  <2>1. /\ x9[k] # Nothing /\ x9'[k].char = x9[k].char /\ x9'[k].all = x9[k].all
        /\ \/ x9'[k].todo = x9[k].todo
           \/ /\ x9[k].char = c /\ x9'[k].todo = x9[k].todo \ {d} /\ s.status # "pending"
    BY <1>0
  <2>2. x9[k].char \in Characters /\ f \in Datasets
    BY <1>1, <2>1 DEF Profile!TypeOK, Profile!OrNothing, Profile!Working
  <2>3. CASE f \notin x9[k].todo
    <3>1. x7[<<x9[k].char, f>>].status # "pending"
      BY <2>1, <2>3 DEF Profile!IInv, Profile!DoneHasOutcome
    <3>. QED  BY <1>7, <2>1, <2>2, <3>1
  <2>4. CASE f \in x9[k].todo
    <3>1. f = d /\ x9[k].char = c /\ s.status # "pending"
      BY <2>1, <2>4
    <3>. QED  BY <1>3, <2>1, <3>1
  <2>. QED  BY <2>3, <2>4
<1>. QED  BY <1>0, <1>2, <1>4, <1>5, <1>6, <1>8 DEF Profile!IInv

LEMMA ProfileExpire ==
  ASSUME Profile!IInv, NEW c \in Characters, NEW d \in Datasets, Profile!Expire(c, d)
  PROVE  Profile!IInv' /\ x6' = x6
<1>. DEFINE p == <<c, d>>
            s == [x7[p] EXCEPT !.fresh = FALSE]
<1>1. x7' = [x7 EXCEPT ![p].fresh = FALSE] /\ UNCHANGED <<x1, x2, x3, x4, x5, x6, x8, x9>>
  BY DEF Profile!Expire, Profile!eve
<1>2. Profile!TypeOK /\ p \in Characters \X Datasets
  BY DEF Profile!IInv
<1>3. x7' = [x7 EXCEPT ![p] = s]
  BY <1>1, <1>2 DEF Profile!TypeOK
<1>4. s \in Profile!States /\ s.fresh = FALSE /\ s.status = x7[p].status /\ s.synced = x7[p].synced
  BY <1>2 DEF Profile!TypeOK, Profile!States
<1>. HIDE DEF s
<1>5. x6' = [x6 EXCEPT ![p] = x6[p]] /\ x6[p] \in SUBSET (Characters \X Profile!Versions)
  BY <1>1, <1>2 DEF Profile!TypeOK
<1>6. (\A r \in x6[p] : r[1] = c) /\ (s.synced => x6[p] # {})
  BY <1>4 DEF Profile!IInv, Profile!OwnRows, Profile!StateIsTrue
<1>7. Profile!NobodyHangs'
  BY <1>1 DEF Profile!IInv, Profile!NobodyHangs
<1>8. OnePair(c, d, s, x6[p])
  <2>1. s.fresh => s.status # "pending"
    BY <1>4
  <2>2. /\ x8' \in [Characters \X Datasets -> Profile!OrNothing(Profile!Flights)]
        /\ x9' \in [Syncs -> Profile!OrNothing(Profile!Working)]
    BY <1>1, <1>2 DEF Profile!TypeOK
  <2>. QED  BY <1>1, <1>3, <1>4, <1>5, <1>6, <1>7, <2>1, <2>2 DEF OnePair
<1>. HIDE DEF p
<1>. QED  BY <1>1, <1>8, ProfilePair

\* The end of a refresh: whoever awaits it goes on.
LEMMA ProfileResumes ==
  ASSUME Profile!IInv, NEW c \in Characters, NEW d \in Datasets, Profile!Resume(c, d),
         x8' = [x8 EXCEPT ![<<c, d>>] = Nothing]
  PROVE  /\ x8' \in [Characters \X Datasets -> Profile!OrNothing(Profile!Flights)]
         /\ x9' \in [Syncs -> Profile!OrNothing(Profile!Working)]
         /\ Profile!NobodyHangs'
         /\ \A k \in Syncs : x9'[k] # Nothing =>
              /\ x9[k] # Nothing /\ x9'[k].char = x9[k].char /\ x9'[k].all = x9[k].all
              /\ \/ x9'[k].todo = x9[k].todo
                 \/ x9[k].char = c /\ x9'[k].todo = x9[k].todo \ {d}
<1>1. Profile!TypeOK /\ <<c, d>> \in Characters \X Datasets
  BY DEF Profile!IInv
<1>2. x8' \in [Characters \X Datasets -> Profile!OrNothing(Profile!Flights)]
  BY <1>1 DEF Profile!TypeOK, Profile!OrNothing
<1>. DEFINE waits(k) == x9[k] # Nothing /\ x9[k].char = c /\ x9[k].waits = d
<1>3. ASSUME NEW k \in Syncs, waits(k)
      PROVE  /\ x9'[k] \in Profile!Working /\ x9'[k].char = c /\ x9'[k].all = x9[k].all
             /\ x9'[k].todo = x9[k].todo \ {d} /\ x9'[k].waits = Nothing
  <2>1. x9'[k] = [x9[k] EXCEPT !.todo = @ \ {d}, !.waits = Nothing]
    BY <1>3 DEF Profile!Resume, Profile!Ends
  <2>2. x9[k] \in Profile!Working
    BY <1>1, <1>3 DEF Profile!TypeOK, Profile!OrNothing
  <2>. QED  BY <1>3, <2>1, <2>2 DEF Profile!Working
<1>4. \A k \in Syncs : ~waits(k) => x9'[k] = x9[k]
  BY DEF Profile!Resume
<1>5. x9' \in [Syncs -> Profile!OrNothing(Profile!Working)]
  <2>1. \A k \in Syncs : x9'[k] \in Profile!OrNothing(Profile!Working)
    BY <1>1, <1>3, <1>4 DEF Profile!TypeOK, Profile!OrNothing
  <2>2. x9' = [k \in Syncs |-> x9'[k]]
    BY DEF Profile!Resume
  <2>. QED  BY <2>1, <2>2
<1>6. Profile!NobodyHangs'
  <2>. SUFFICES ASSUME NEW k \in Syncs, x9'[k] # Nothing, x9'[k].waits \in Datasets
                PROVE  x8'[<<x9'[k].char, x9'[k].waits>>] # Nothing
    BY DEF Profile!NobodyHangs
  <2>1. ~waits(k) /\ x9'[k] = x9[k]
    BY <1>3, <1>4, ProfileAssumption
  <2>2. x9[k].char \in Characters /\ x8[<<x9[k].char, x9[k].waits>>] # Nothing
    BY <1>1, <2>1 DEF Profile!IInv, Profile!NobodyHangs, Profile!TypeOK, Profile!OrNothing, Profile!Working
  <2>3. <<x9[k].char, x9[k].waits>> # <<c, d>>
    BY <2>1
  <2>. QED  BY <1>1, <2>1, <2>2, <2>3 DEF Profile!TypeOK
<1>. QED  BY <1>2, <1>3, <1>4, <1>5, <1>6

LEMMA ProfileArrive ==
  ASSUME Profile!IInv, NEW c \in Characters, NEW d \in Datasets, Profile!Arrive(c, d)
  PROVE  Profile!IInv' /\ (d \in Retained => x6[<<c, d>>] \subseteq x6'[<<c, d>>])
         /\ \A e \in Characters, f \in Datasets : e # c \/ f # d => x6'[<<e, f>>] = x6[<<e, f>>]
<1>. DEFINE p == <<c, d>>
            s == [status |-> "ok", fresh |-> TRUE, synced |-> TRUE]
<1>1. PICK v \in 0..x4[c] : x6' = [x6 EXCEPT ![p] = Profile!Written(c, d, <<c, v>>)]
  BY DEF Profile!Arrive, Profile!Pinned
<1>2. /\ x7' = [x7 EXCEPT ![p] = s] /\ x8' = [x8 EXCEPT ![p] = Nothing]
      /\ Profile!Resume(c, d) /\ UNCHANGED <<x1, x2, x3, x4, x5>>
  BY DEF Profile!Arrive, Profile!eve
<1>3. Profile!TypeOK /\ p \in Characters \X Datasets
  BY DEF Profile!IInv
<1>. DEFINE R == Profile!Written(c, d, <<c, v>>)
<1>4. R = (IF d \in Retained THEN x6[p] \cup {<<c, v>>} ELSE {<<c, v>>})
  BY DEF Profile!Written
<1>5. R \in SUBSET (Characters \X Profile!Versions)
  <2>1. <<c, v>> \in Characters \X Profile!Versions
    BY <1>3, ProfileAssumption DEF Profile!TypeOK, Profile!Versions
  <2>. QED  BY <1>3, <1>4, <2>1 DEF Profile!TypeOK
<1>6. (\A r \in R : r[1] = c) /\ R # {}
  BY <1>4 DEF Profile!IInv, Profile!OwnRows
<1>7. s \in Profile!States /\ s.status # "pending"
  BY DEF Profile!States, Profile!Statuses
<1>. HIDE DEF s, R
<1>8. x6'[p] = R /\ \A e \in Characters, f \in Datasets : e # c \/ f # d => x6'[<<e, f>>] = x6[<<e, f>>]
  BY <1>1, <1>3 DEF Profile!TypeOK, R
<1>9. OnePair(c, d, s, R)
  <2>1. x6' = [x6 EXCEPT ![p] = R]
    BY <1>1 DEF R
  <2>2. /\ x8' \in [Characters \X Datasets -> Profile!OrNothing(Profile!Flights)]
        /\ x9' \in [Syncs -> Profile!OrNothing(Profile!Working)]
        /\ Profile!NobodyHangs'
        /\ \A k \in Syncs : x9'[k] # Nothing =>
             /\ x9[k] # Nothing /\ x9'[k].char = x9[k].char /\ x9'[k].all = x9[k].all
             /\ \/ x9'[k].todo = x9[k].todo
                \/ x9[k].char = c /\ x9'[k].todo = x9[k].todo \ {d}
    BY <1>2, ProfileResumes
  <2>. QED  BY <1>2, <1>5, <1>6, <1>7, <2>1, <2>2 DEF OnePair
<1>10. Profile!IInv'
  BY <1>9, ProfilePair
<1>. QED  BY <1>4, <1>8, <1>10

LEMMA ProfileFail ==
  ASSUME Profile!IInv, NEW c \in Characters, NEW d \in Datasets, Profile!Fail(c, d)
  PROVE  Profile!IInv' /\ x6' = x6
<1>. DEFINE p == <<c, d>>
            s == [x7[p] EXCEPT !.status = "error", !.fresh = TRUE]
<1>1. /\ x6' = x6 /\ x7' = [x7 EXCEPT ![p].status = "error", ![p].fresh = TRUE]
      /\ x8' = [x8 EXCEPT ![p] = Nothing]
      /\ Profile!Resume(c, d) /\ UNCHANGED <<x1, x2, x3, x4, x5>>
  BY DEF Profile!Fail, Profile!RowsStay, Profile!eve
<1>2. Profile!TypeOK /\ p \in Characters \X Datasets
  BY DEF Profile!IInv
<1>3. x7' = [x7 EXCEPT ![p] = s]
  BY <1>1, <1>2 DEF Profile!TypeOK
<1>4. s \in Profile!States /\ s.status # "pending" /\ s.synced = x7[p].synced
  <2>1. x7[p] \in Profile!States
    BY <1>2 DEF Profile!TypeOK
  <2>2. s.status = "error" /\ s.synced = x7[p].synced
    BY <2>1 DEF Profile!States
  <2>3. s \in Profile!States
    BY <2>1 DEF Profile!States, Profile!Statuses
  <2>. QED  BY <2>2, <2>3
<1>. HIDE DEF s
<1>5. x6' = [x6 EXCEPT ![p] = x6[p]] /\ x6[p] \in SUBSET (Characters \X Profile!Versions)
  BY <1>1, <1>2 DEF Profile!TypeOK
<1>6. (\A r \in x6[p] : r[1] = c) /\ (s.synced => x6[p] # {})
  BY <1>4 DEF Profile!IInv, Profile!OwnRows, Profile!StateIsTrue
<1>7. OnePair(c, d, s, x6[p])
  BY <1>1, <1>3, <1>4, <1>5, <1>6, ProfileResumes DEF OnePair
<1>. QED  BY <1>1, <1>7, ProfilePair

LEMMA ProfileAsk ==
  ASSUME Profile!IInv, NEW k \in Syncs, NEW D \in SUBSET Datasets, NEW forced \in BOOLEAN,
         Profile!Ask(k, D, forced)
  PROVE  Profile!IInv' /\ x6' = x6
<1>. DEFINE c == x2[OwnerOf[k]]
            todo == Profile!Pending(c, D, forced)
            w == [char |-> c, scopes |-> x3[c], todo |-> todo, waits |-> "capabilities", all |-> D]
<1>1. /\ c # Nothing /\ x9' = [x9 EXCEPT ![k] = w]
      /\ UNCHANGED <<x1, x2, x3, x4, x5, x6, x7, x8>>
  BY DEF Profile!Ask, Profile!Active, Profile!eve
<1>2. Profile!TypeOK
  BY DEF Profile!IInv
<1>3. c \in Characters /\ x3[c] \in SUBSET Datasets
  BY <1>1, <1>2, ProfileAssumption DEF Profile!TypeOK, Profile!OrNothing
<1>4. todo \subseteq D
  BY DEF Profile!Pending
<1>5. ASSUME NEW d \in D \ todo PROVE x7[<<c, d>>].status # "pending"
  <2>1. ~Profile!ShouldSync(x7[<<c, d>>], d \in x3[c])
    BY DEF Profile!Pending
  <2>2. x7[<<c, d>>].fresh \/ x7[<<c, d>>].status = "no_scope"
    BY <2>1 DEF Profile!ShouldSync
  <2>3. x7[<<c, d>>].fresh => x7[<<c, d>>].status # "pending"
    BY <1>3 DEF Profile!IInv, Profile!FreshHasOutcome
  <2>. QED  BY <2>2, <2>3
<1>. HIDE DEF c, todo
<1>6. w \in Profile!Working /\ w.char = c /\ w.todo = todo /\ w.all = D /\ w.waits = "capabilities"
  BY <1>3, <1>4 DEF Profile!Working
<1>. HIDE DEF w
<1>7. /\ x9' \in [Syncs -> Profile!OrNothing(Profile!Working)] /\ x9'[k] = w
      /\ \A l \in Syncs : l # k => x9'[l] = x9[l]
  BY <1>1, <1>2, <1>6 DEF Profile!TypeOK, Profile!OrNothing
<1>8. Profile!NobodyHangs'
  BY <1>1, <1>6, <1>7, ProfileAssumption DEF Profile!IInv, Profile!NobodyHangs
<1>9. Profile!DoneHasOutcome'
  <2>1. \A d \in D \ todo : x7[<<c, d>>].status # "pending"
    BY <1>5
  <2>. QED  BY <1>1, <1>6, <1>7, <2>1 DEF Profile!IInv, Profile!DoneHasOutcome
<1>. QED  BY <1>1, <1>2, <1>7, <1>8, <1>9, ProfileCalls DEF Profile!TypeOK

\* A call that joins or starts a refresh, or that has nothing to refresh.
LEMMA ProfileProceed ==
  ASSUME Profile!IInv, NEW k \in Syncs, NEW d \in Datasets, Profile!Proceed(k, d)
  PROVE  Profile!IInv' /\ x6' = x6
<1>. DEFINE c == x9[k].char
            p == <<c, d>>
<1>1. /\ x9[k] # Nothing /\ x9[k].waits = Nothing /\ d \in x9[k].todo
      /\ UNCHANGED <<x1, x2, x3, x4, x5, x6>>
  BY DEF Profile!Proceed, Profile!eve
<1>2. Profile!TypeOK /\ x9[k] \in Profile!Working /\ c \in Characters /\ p \in Characters \X Datasets
  BY <1>1 DEF Profile!IInv, Profile!TypeOK, Profile!OrNothing, Profile!Working
<1>3. ASSUME x9' = [x9 EXCEPT ![k].waits = d], UNCHANGED x7,
             x8' \in [Characters \X Datasets -> Profile!OrNothing(Profile!Flights)],
             x8'[p] # Nothing, \A q \in Characters \X Datasets : x8[q] # Nothing => x8'[q] # Nothing
      PROVE  Profile!IInv'
  <2>. DEFINE w == [x9[k] EXCEPT !.waits = d]
  <2>1. x9' = [x9 EXCEPT ![k] = w]
    BY <1>2, <1>3 DEF Profile!TypeOK
  <2>2. w \in Profile!Working /\ w.char = c /\ w.waits = d /\ w.todo = x9[k].todo /\ w.all = x9[k].all
    BY <1>2 DEF Profile!Working
  <2>. HIDE DEF w
  <2>3. /\ x9' \in [Syncs -> Profile!OrNothing(Profile!Working)] /\ x9'[k] = w
        /\ \A l \in Syncs : l # k => x9'[l] = x9[l]
    BY <1>2, <2>1, <2>2 DEF Profile!TypeOK, Profile!OrNothing
  <2>4. Profile!NobodyHangs'
    <3>. SUFFICES ASSUME NEW l \in Syncs, x9'[l] # Nothing, x9'[l].waits \in Datasets
                  PROVE  x8'[<<x9'[l].char, x9'[l].waits>>] # Nothing
      BY DEF Profile!NobodyHangs
    <3>1. CASE l = k
      BY <1>3, <2>2, <2>3, <3>1
    <3>2. CASE l # k
      <4>1. x9'[l] = x9[l] /\ x8[<<x9[l].char, x9[l].waits>>] # Nothing /\ x9[l].char \in Characters
        BY <1>2, <2>3, <3>2 DEF Profile!IInv, Profile!NobodyHangs, Profile!TypeOK, Profile!OrNothing,
                                Profile!Working
      <4>. QED  BY <1>3, <4>1
    <3>. QED  BY <3>1, <3>2
  <2>5. Profile!DoneHasOutcome'
    BY <1>1, <1>3, <2>2, <2>3 DEF Profile!IInv, Profile!DoneHasOutcome
  <2>. QED  BY <1>1, <1>2, <1>3, <2>3, <2>4, <2>5, ProfileCalls DEF Profile!TypeOK
<1>4. CASE Profile!Joined(c, d)
  <2>1. x9' = [x9 EXCEPT ![k].waits = d] /\ UNCHANGED <<x7, x8>> /\ x8[p] # Nothing
    BY <1>4 DEF Profile!Proceed, Profile!Joined
  <2>. QED  BY <1>1, <1>2, <1>3, <2>1 DEF Profile!TypeOK
<1>5. CASE ~Profile!Joined(c, d) /\ d \in x9[k].scopes
  <2>. DEFINE g == [user |-> OwnerOf[k], sent |-> FALSE]
  <2>1. /\ x9' = [x9 EXCEPT ![k].waits = d] /\ UNCHANGED x7 /\ x8' = [x8 EXCEPT ![p] = g]
    BY <1>5 DEF Profile!Proceed
  <2>2. g \in Profile!Flights
    BY ProfileAssumption DEF Profile!Flights
  <2>. HIDE DEF g
  <2>4. g # Nothing
    BY <2>2, ProfileAssumption
  <2>3. /\ x8' \in [Characters \X Datasets -> Profile!OrNothing(Profile!Flights)] /\ x8'[p] = g
        /\ \A q \in Characters \X Datasets : q # p => x8'[q] = x8[q]
    BY <1>2, <2>1, <2>2 DEF Profile!TypeOK, Profile!OrNothing
  <2>. QED  BY <1>1, <1>3, <2>1, <2>3, <2>4
<1>6. CASE ~Profile!Joined(c, d) /\ d \notin x9[k].scopes
  <2>. DEFINE s == [x7[p] EXCEPT !.status = "no_scope", !.fresh = FALSE]
              w == [x9[k] EXCEPT !.todo = @ \ {d}, !.waits = Nothing]
  <2>1. /\ x7' = [x7 EXCEPT ![p].status = "no_scope", ![p].fresh = FALSE]
        /\ x9' = [x9 EXCEPT ![k] = w] /\ UNCHANGED x8
    BY <1>6 DEF Profile!Proceed, Profile!Ends
  <2>2. x7' = [x7 EXCEPT ![p] = s]
    BY <1>2, <2>1 DEF Profile!TypeOK
  <2>3. s \in Profile!States /\ s.status = "no_scope" /\ s.synced = x7[p].synced
    BY <1>2 DEF Profile!TypeOK, Profile!States, Profile!Statuses
  <2>4. /\ w \in Profile!Working /\ w.char = c /\ w.waits = Nothing /\ w.todo = x9[k].todo \ {d}
        /\ w.all = x9[k].all
    BY <1>2 DEF Profile!Working
  <2>. HIDE DEF s, w
  <2>5. /\ x9' \in [Syncs -> Profile!OrNothing(Profile!Working)] /\ x9'[k] = w
        /\ \A l \in Syncs : l # k => x9'[l] = x9[l]
    BY <1>2, <2>1, <2>4 DEF Profile!TypeOK, Profile!OrNothing
  <2>6. x6' = [x6 EXCEPT ![p] = x6[p]] /\ x6[p] \in SUBSET (Characters \X Profile!Versions)
    BY <1>1, <1>2 DEF Profile!TypeOK
  <2>7. (\A r \in x6[p] : r[1] = c) /\ (s.synced => x6[p] # {})
    BY <1>2, <2>3 DEF Profile!IInv, Profile!OwnRows, Profile!StateIsTrue
  <2>8. Profile!NobodyHangs'
    BY <2>1, <2>4, <2>5, ProfileAssumption DEF Profile!IInv, Profile!NobodyHangs
  <2>9. \A l \in Syncs : x9'[l] # Nothing =>
          /\ x9[l] # Nothing /\ x9'[l].char = x9[l].char /\ x9'[l].all = x9[l].all
          /\ \/ x9'[l].todo = x9[l].todo
             \/ x9[l].char = c /\ x9'[l].todo = x9[l].todo \ {d} /\ s.status # "pending"
    BY <1>1, <2>3, <2>4, <2>5
  <2>10. x8' \in [Characters \X Datasets -> Profile!OrNothing(Profile!Flights)]
    BY <1>2, <2>1 DEF Profile!TypeOK
  <2>11. OnePair(c, d, s, x6[p])
    BY <1>1, <2>2, <2>3, <2>5, <2>6, <2>7, <2>8, <2>9, <2>10 DEF OnePair
  <2>. HIDE DEF c
  <2>. QED  BY <1>1, <1>2, <2>11, ProfilePair
<1>. QED  BY <1>1, <1>4, <1>5, <1>6

LEMMA ProfileGoesOn ==
  ASSUME Profile!IInv, NEW k \in Syncs, Profile!Capable(k) \/ Profile!Return(k)
  PROVE  Profile!IInv' /\ x6' = x6
<1>1. x9[k] # Nothing /\ UNCHANGED <<x1, x2, x3, x4, x5, x6, x7, x8>>
  BY DEF Profile!Capable, Profile!Return, Profile!eve
<1>2. Profile!TypeOK /\ x9[k] \in Profile!Working
  BY <1>1 DEF Profile!IInv, Profile!TypeOK, Profile!OrNothing
<1>3. CASE Profile!Capable(k)
  <2>. DEFINE w == [x9[k] EXCEPT !.waits = Nothing]
  <2>1. x9' = [x9 EXCEPT ![k] = w]
    BY <1>2, <1>3 DEF Profile!Capable, Profile!TypeOK
  <2>2. /\ w \in Profile!Working /\ w.char = x9[k].char /\ w.waits = Nothing
        /\ w.todo = x9[k].todo /\ w.all = x9[k].all
    BY <1>2 DEF Profile!Working
  <2>. HIDE DEF w
  <2>3. /\ x9' \in [Syncs -> Profile!OrNothing(Profile!Working)] /\ x9'[k] = w
        /\ \A l \in Syncs : l # k => x9'[l] = x9[l]
    BY <1>2, <2>1, <2>2 DEF Profile!TypeOK, Profile!OrNothing
  <2>4. Profile!NobodyHangs'
    BY <1>1, <2>2, <2>3, ProfileAssumption DEF Profile!IInv, Profile!NobodyHangs
  <2>5. Profile!DoneHasOutcome'
    BY <1>1, <2>2, <2>3 DEF Profile!IInv, Profile!DoneHasOutcome
  <2>. QED  BY <1>1, <1>2, <2>3, <2>4, <2>5, ProfileCalls DEF Profile!TypeOK
<1>4. CASE Profile!Return(k)
  <2>1. x9' = [x9 EXCEPT ![k] = Nothing]
    BY <1>4 DEF Profile!Return
  <2>2. /\ x9' \in [Syncs -> Profile!OrNothing(Profile!Working)] /\ x9'[k] = Nothing
        /\ \A l \in Syncs : l # k => x9'[l] = x9[l]
    BY <1>2, <2>1 DEF Profile!TypeOK, Profile!OrNothing
  <2>3. Profile!NobodyHangs' /\ Profile!DoneHasOutcome'
    BY <1>1, <2>2 DEF Profile!IInv, Profile!NobodyHangs, Profile!DoneHasOutcome
  <2>. QED  BY <1>1, <1>2, <2>2, <2>3, ProfileCalls DEF Profile!TypeOK
<1>. QED  BY <1>1, <1>3, <1>4

LEMMA ProfileSend ==
  ASSUME Profile!IInv, NEW c \in Characters, NEW d \in Datasets, Profile!Send(c, d)
  PROVE  Profile!IInv' /\ x6' = x6
<1>. DEFINE p == <<c, d>>
            g == [x8[p] EXCEPT !.sent = TRUE]
<1>1. /\ x8[p] # Nothing /\ x8' = [x8 EXCEPT ![p].sent = TRUE]
      /\ UNCHANGED <<x1, x2, x3, x4, x5, x6, x7, x9>>
  BY DEF Profile!Send, Profile!eve
<1>2. Profile!TypeOK /\ p \in Characters \X Datasets /\ x8[p] \in Profile!Flights
  BY <1>1 DEF Profile!IInv, Profile!TypeOK, Profile!OrNothing
<1>3. x8' = [x8 EXCEPT ![p] = g] /\ g \in Profile!Flights /\ g # Nothing
  <2>1. x8' = [x8 EXCEPT ![p] = g]
    BY <1>1, <1>2 DEF Profile!TypeOK
  <2>2. g \in Profile!Flights
    BY <1>2 DEF Profile!Flights
  <2>. QED  BY <2>1, <2>2, ProfileAssumption
<1>. HIDE DEF g
<1>4. /\ x8' \in [Characters \X Datasets -> Profile!OrNothing(Profile!Flights)]
      /\ \A q \in Characters \X Datasets : x8[q] # Nothing => x8'[q] # Nothing
  BY <1>2, <1>3 DEF Profile!TypeOK, Profile!OrNothing
<1>5. Profile!NobodyHangs'
  <2>. SUFFICES ASSUME NEW k \in Syncs, x9[k] # Nothing, x9[k].waits \in Datasets
                PROVE  x8'[<<x9[k].char, x9[k].waits>>] # Nothing
    BY <1>1 DEF Profile!NobodyHangs
  <2>1. x8[<<x9[k].char, x9[k].waits>>] # Nothing /\ x9[k].char \in Characters
    BY <1>2 DEF Profile!IInv, Profile!NobodyHangs, Profile!TypeOK, Profile!OrNothing, Profile!Working
  <2>. QED  BY <1>4, <2>1
<1>6. Profile!DoneHasOutcome'
  BY <1>1 DEF Profile!IInv, Profile!DoneHasOutcome
<1>. QED  BY <1>1, <1>2, <1>4, <1>5, <1>6, ProfileCalls DEF Profile!TypeOK

LEMMA ProfileNext ==
  ASSUME Profile!IInv, Profile!Next PROVE Profile!IInv' /\ Profile!ProfileStep
<1>0. \A c \in Characters, d \in Retained : d \in Datasets
  BY ProfileAssumption
<1>1. Profile!IInv' /\ Profile!HistoryKept
  <2>1. ASSUME Profile!IInv', x6' = x6 PROVE Profile!IInv' /\ Profile!HistoryKept
    BY <2>1 DEF Profile!HistoryKept
  <2>2. ASSUME NEW c \in Characters,
               Profile!DataChanges(c) \/ (\E u \in Owners : Profile!Switch(u, c))
        PROVE  Profile!IInv' /\ Profile!HistoryKept
    <3>1. x6' = x6
      BY <2>2 DEF Profile!DataChanges, Profile!Switch
    <3>. QED  BY <2>1, <2>2, <3>1, ProfileAround
  <2>3. CASE Profile!Restart
    <3>1. x6' = x6
      BY <2>3 DEF Profile!Restart
    <3>2. Profile!IInv'
      <4>1. CASE Characters = {}
        <5>1. /\ x8' = [p \in Characters \X Datasets |-> Nothing] /\ x9' = [k \in Syncs |-> Nothing]
              /\ UNCHANGED <<x1, x2, x3, x4, x5, x6, x7>>
          BY <2>3 DEF Profile!Restart, Profile!eve
        <5>2. /\ x8' \in [Characters \X Datasets -> Profile!OrNothing(Profile!Flights)]
              /\ x9' \in [Syncs -> Profile!OrNothing(Profile!Working)]
          BY <5>1 DEF Profile!OrNothing
        <5>3. Profile!NobodyHangs' /\ Profile!DoneHasOutcome'
          BY <5>1 DEF Profile!NobodyHangs, Profile!DoneHasOutcome
        <5>. QED  BY <5>1, <5>2, <5>3, ProfileCalls DEF Profile!IInv, Profile!TypeOK
      <4>2. CASE Characters # {}
        BY <2>3, <4>2, ProfileAround
      <4>. QED  BY <4>1, <4>2
    <3>. QED  BY <2>1, <3>1, <3>2
  <2>4. ASSUME NEW c \in Characters, NEW u \in Profile!OrNothing(Owners), Profile!Move(c, u)
        PROVE  Profile!IInv' /\ Profile!HistoryKept
    BY <2>4, ProfileMove DEF Profile!HistoryKept
  <2>5. ASSUME NEW c \in Characters, NEW d \in Datasets,
               Profile!Expire(c, d) \/ Profile!Send(c, d) \/ Profile!Fail(c, d)
        PROVE  Profile!IInv' /\ Profile!HistoryKept
    BY <2>1, <2>5, ProfileExpire, ProfileSend, ProfileFail
  <2>6. ASSUME NEW c \in Characters, NEW d \in Datasets, Profile!Arrive(c, d)
        PROVE  Profile!IInv' /\ Profile!HistoryKept
    <3>1. /\ Profile!IInv' /\ (d \in Retained => x6[<<c, d>>] \subseteq x6'[<<c, d>>])
          /\ \A e \in Characters, f \in Datasets : e # c \/ f # d => x6'[<<e, f>>] = x6[<<e, f>>]
      BY <2>6, ProfileArrive
    <3>2. \A e \in Characters, f \in Retained : x6[<<e, f>>] \subseteq x6'[<<e, f>>]
      BY <1>0, <3>1
    <3>. QED  BY <3>1, <3>2 DEF Profile!HistoryKept
  <2>7. ASSUME NEW k \in Syncs,
               \/ \E D \in SUBSET Datasets, forced \in BOOLEAN : Profile!Ask(k, D, forced)
               \/ \E d \in Datasets : Profile!Proceed(k, d)
               \/ Profile!Capable(k) \/ Profile!Return(k)
        PROVE  Profile!IInv' /\ Profile!HistoryKept
    BY <2>1, <2>7, ProfileAsk, ProfileProceed, ProfileGoesOn
  <2>. QED  BY <2>2, <2>3, <2>4, <2>5, <2>6, <2>7 DEF Profile!Next
<1>2. Profile!EveryDatasetEnds
  BY DEF Profile!IInv, Profile!DoneHasOutcome, Profile!EveryDatasetEnds, Profile!Return
<1>. QED  BY <1>1, <1>2 DEF Profile!ProfileStep

LEMMA ProfileStays == ASSUME Profile!IInv, UNCHANGED Profile!vars PROVE Profile!IInv'
<1>1. UNCHANGED <<x1, x2, x3, x4, x5, x6, x7, x8, x9>>
  BY DEF Profile!vars, Profile!eve
<1>2. Profile!NobodyHangs' /\ Profile!DoneHasOutcome'
  BY <1>1 DEF Profile!IInv, Profile!NobodyHangs, Profile!DoneHasOutcome
<1>. QED  BY <1>1, <1>2, ProfileCalls DEF Profile!IInv, Profile!TypeOK

PilotInv ==
  /\ chosen = "level" => Level!Inv
  /\ chosen = "edges" => Edges!Inv
  /\ chosen = "profile" => Profile!IInv

LEMMA PilotNext == PilotInv /\ [MCNext]_all => PilotInv'
<1>. SUFFICES ASSUME PilotInv, [MCNext]_all PROVE PilotInv'
  OBVIOUS
<1>0. chosen' = chosen /\ Level!Sane /\ Edges!Sane  BY AdvisorAssumption DEF MCNext, all
<1>1. ASSUME chosen = "level" PROVE Level!Inv'
  <2>1. [Level!Next]_(Level!vars)
    BY <1>1 DEF MCNext, all, others, Level!vars, Level!entry, Level!rules, Level!history
  <2>. QED  BY <1>0, <1>1, <2>1, Level!InvStep DEF PilotInv
<1>2. ASSUME chosen = "edges" PROVE Edges!Inv'
  <2>1. [Edges!Next]_(Edges!vars)
    BY <1>2 DEF MCNext, all, others, Edges!vars, Edges!entry, Edges!rules, Edges!history
  <2>. QED  BY <1>0, <1>2, <2>1, Edges!InvStep DEF PilotInv
<1>3. ASSUME chosen = "profile" PROVE Profile!IInv'
  <2>1. Profile!Next \/ UNCHANGED Profile!vars
    BY <1>3 DEF MCNext, all, others, Profile!vars, Profile!eve
  <2>. QED  BY <1>3, <2>1, ProfileNext, ProfileStays DEF PilotInv
<1>. QED  BY <1>0, <1>1, <1>2, <1>3 DEF PilotInv

\* A pilot is told what is news and true, and each thing once; and of his
\* private data, for any users, characters and datasets, rows are of their
\* character, what was synced stays until the character goes, a kept history
\* only grows, nobody waits for a refresh that is over, and every dataset asked
\* for has an outcome.
THEOREM PilotSafe == MCSpec => PilotSound
<1>1. MCInit => PilotInv
  BY AdvisorAssumption, Level!InvInit, Edges!InvInit, ProfileInit DEF MCInit, PilotInv
<1>2. PilotInv /\ [MCNext]_all => PilotInv'
  BY PilotNext
<1>3. PilotInv => /\ chosen = "level" => Level!AdvisorState
                  /\ chosen = "edges" => Edges!AdvisorState
                  /\ chosen = "profile" => Profile!ProfileState
  BY DEF PilotInv, Level!Inv, Level!AdvisorState, Edges!Inv, Edges!AdvisorState, Profile!IInv,
         Profile!ProfileState
<1>4. PilotInv /\ [MCNext]_all => [chosen = "level" => Level!AdvisorStep]_all
  BY AdvisorAssumption, Level!StepSafe DEF PilotInv
<1>5. PilotInv /\ [MCNext]_all => [chosen = "edges" => Edges!AdvisorStep]_all
  BY AdvisorAssumption, Edges!StepSafe DEF PilotInv
<1>6. PilotInv /\ [MCNext]_all => [chosen = "profile" => Profile!ProfileStep]_all
  <2>1. chosen = "profile" /\ MCNext => Profile!Next
    BY DEF MCNext
  <2>. QED  BY <2>1, ProfileNext DEF PilotInv
<1>. QED  BY <1>1, <1>2, <1>3, <1>4, <1>5, <1>6, PTL DEF MCSpec, PilotSound

-----------------------------------------------------------------------------
(* ResponseAdmission.  The slot counter is the number of holders and stays *)
(* within the limit, waiters only exist while every slot is taken, and no  *)
(* two waiters have the same ticket.                                       *)

TicketsDrawn == \A c \in Calls : ticket[c] <= drawn
TicketsDiffer == \A c, d \in Waiting : c # d => ticket[c] # ticket[d]

IInv == /\ TypeOK
        /\ SlotsAreHeld /\ active <= MaxConcurrent /\ NoIdleSlot
        /\ TicketsDrawn /\ TicketsDiffer

USE CallsAssumption, OptionsAssumption

\* Taking a slot and giving it up change the number of holders by one, and
\* handing it over leaves it as it is.
LEMMA HoldersFinite == IsFiniteSet(Holders) /\ IsFiniteSet(Waiting)
  BY FS_Subset DEF Holders, Waiting

LEMMA Taken ==
  ASSUME TypeOK, NEW c \in Calls, call[c] # "granted", Becomes(c, "granted")
  PROVE  Cardinality(Holders') = Cardinality(Holders) + 1
<1>1. Holders' = Holders \cup {c} /\ c \notin Holders
  BY DEF Holders, Becomes, TypeOK
<1>. QED  BY <1>1, HoldersFinite, FS_AddElement

LEMMA GivenUp ==
  ASSUME TypeOK, NEW c \in Calls, call[c] = "granted", Becomes(c, "released")
  PROVE  Cardinality(Holders') = Cardinality(Holders) - 1
<1>1. Holders' = Holders \ {c} /\ c \in Holders
  BY DEF Holders, Becomes, TypeOK
<1>. QED  BY <1>1, HoldersFinite, FS_RemoveElement

LEMMA HandedOver ==
  ASSUME TypeOK, NEW c \in Calls, NEW d \in Waiting, call[c] = "granted",
         call' = [call EXCEPT ![c] = "released", ![d] = "granted"]
  PROVE  Cardinality(Holders') = Cardinality(Holders)
<1>1. /\ Holders' = (Holders \ {c}) \cup {d}
      /\ c \in Holders /\ d \notin Holders /\ c # d
  BY DEF Holders, Waiting, TypeOK
<1>2. /\ IsFiniteSet(Holders \ {c})
      /\ Cardinality(Holders \ {c}) = Cardinality(Holders) - 1
  BY <1>1, HoldersFinite, FS_RemoveElement
<1>3. Cardinality((Holders \ {c}) \cup {d}) = Cardinality(Holders \ {c}) + 1
  BY <1>1, <1>2, FS_AddElement
<1>4. Cardinality(Holders) \in Nat  BY HoldersFinite, FS_CardinalityType
<1>. QED  BY <1>1, <1>2, <1>3, <1>4

\* A step that grants nothing and takes no slot away leaves the holders alone.
LEMMA HoldersKept ==
  ASSUME \A c \in Calls : call'[c] = "granted" <=> call[c] = "granted"
  PROVE  Holders' = Holders
  BY DEF Holders

-----------------------------------------------------------------------------
LEMMA InitIInv == Init => IInv
<1>. SUFFICES ASSUME Init PROVE IInv  OBVIOUS
<1>1. Holders = {} /\ Waiting = {}  BY DEF Init, Holders, Waiting
<1>2. Cardinality(Holders) = 0  BY <1>1, FS_EmptySet
<1>. QED
  BY <1>1, <1>2 DEF Init, IInv, TypeOK, States, SlotsAreHeld, NoIdleSlot,
                    TicketsDrawn, TicketsDiffer

LEMMA AcquireStep == ASSUME IInv, NEW c \in Calls, Acquire(c) PROVE IInv'
<1>. USE DEF IInv, TypeOK, States, SlotsAreHeld, NoIdleSlot, TicketsDrawn, TicketsDiffer
<1>. call[c] = "idle" /\ cut' = cut  BY DEF Acquire
<1>1. CASE Becomes(c, "refused") /\ UNCHANGED <<active, ticket, drawn>>
  <2>1. Holders' = Holders /\ Waiting' = Waiting
    BY <1>1 DEF Becomes, Holders, Waiting
  <2>. QED  BY <1>1, <2>1 DEF Becomes
<1>2. CASE /\ SlotFree(c) /\ Becomes(c, "granted") /\ active' = active + 1
           /\ UNCHANGED <<ticket, drawn>>
  <2>1. Waiting' = Waiting /\ Waiting = {}  BY <1>2 DEF Becomes, Waiting, SlotFree
  <2>2. Cardinality(Holders') = Cardinality(Holders) + 1  BY <1>2, Taken
  <2>. QED  BY <1>2, <2>1, <2>2 DEF Becomes, SlotFree
<1>3. CASE /\ ~SlotFree(c) /\ Becomes(c, "waiting") /\ drawn' = drawn + 1
           /\ ticket' = [ticket EXCEPT ![c] = drawn + 1] /\ UNCHANGED active
  <2>1. Holders' = Holders /\ Waiting' = Waiting \cup {c} /\ c \notin Waiting
    BY <1>3 DEF Becomes, Holders, Waiting
  <2>2. active' = MaxConcurrent  BY <1>3 DEF SlotFree
  <2>3. TypeOK' /\ TicketsDrawn'  BY <1>3 DEF Becomes
  <2>4. \A d \in Waiting : d # c /\ d \in Calls /\ ticket'[d] = ticket[d] /\ ticket[d] <= drawn
    BY <1>3, <2>1 DEF Waiting
  <2>5. TicketsDiffer'  BY <1>3, <2>1, <2>4
  <2>. QED  BY <1>3, <2>1, <2>2, <2>3, <2>5
<1>. QED  BY <1>1, <1>2, <1>3 DEF Acquire

LEMMA ReleaseStep == ASSUME IInv, NEW c \in Calls, Release(c) PROVE IInv'
<1>. USE DEF IInv, TypeOK, States, SlotsAreHeld, NoIdleSlot, TicketsDrawn, TicketsDiffer
<1>. UNCHANGED <<ticket, drawn, cut>>  BY DEF Release
<1>1. ASSUME Releasable(c), NEW d \in Waiting, active' = active,
             call' = [call EXCEPT ![c] = "released", ![d] = "granted"]
      PROVE  IInv'
  <2>1. call[c] = "granted" /\ call[d] = "waiting"  BY <1>1 DEF Releasable, Waiting
  <2>2. Waiting' = Waiting \ {d}  BY <1>1, <2>1 DEF Waiting
  <2>3. Cardinality(Holders') = Cardinality(Holders)  BY <1>1, <2>1, HandedOver
  <2>. QED  BY <1>1, <2>1, <2>2, <2>3
<1>2. CASE /\ Releasable(c) /\ Waiting = {} /\ Becomes(c, "released")
           /\ active' = IF active > 0 THEN active - 1 ELSE 0
  <2>1. Cardinality(Holders') = Cardinality(Holders) - 1  BY <1>2, GivenUp DEF Releasable
  <2>2. Waiting' = {}  BY <1>2 DEF Waiting, Becomes
  <2>3. active > 0
    <3>1. Cardinality(Holders) # 0
      BY <1>2, HoldersFinite, FS_EmptySet DEF Releasable, Holders
    <3>. QED  BY <3>1
  <2>. QED  BY <1>2, <2>1, <2>2, <2>3 DEF Becomes
<1>3. CASE UNCHANGED <<active, call>>
  BY <1>3 DEF Holders, Waiting
<1>. QED  BY <1>1, <1>2, <1>3 DEF Release, Served, NextIs, SlotKept

LEMMA RefuseStep ==
  ASSUME IInv, UNCHANGED <<active, ticket, drawn>>,
         cut' \subseteq Signals, call' \in [Calls -> States],
         \A c \in Calls : call'[c] = call[c] \/ (call[c] = "waiting" /\ call'[c] = "refused")
  PROVE  IInv'
<1>1. Holders' = Holders  BY HoldersKept
<1>2. Waiting' \subseteq Waiting  BY DEF Waiting
<1>. QED
  BY <1>1, <1>2 DEF IInv, TypeOK, SlotsAreHeld, NoIdleSlot, TicketsDrawn, TicketsDiffer

LEMMA IInvStep == IInv /\ [Next]_vars => IInv'
<1>. SUFFICES ASSUME IInv, [Next]_vars PROVE IInv'  OBVIOUS
<1>1. ASSUME NEW c \in Calls, Acquire(c) PROVE IInv'  BY <1>1, AcquireStep
<1>2. ASSUME NEW c \in Calls, Release(c) PROVE IInv'  BY <1>2, ReleaseStep
<1>3. ASSUME NEW c \in Calls, TimedOut(c) PROVE IInv'
  BY <1>3, RefuseStep DEF TimedOut, Becomes, IInv, TypeOK, States
<1>4. ASSUME NEW s \in Signals, Abort(s) PROVE IInv'
  BY <1>4, RefuseStep DEF Abort, IInv, TypeOK, States
<1>5. CASE UNCHANGED vars
  BY <1>5, RefuseStep DEF vars, IInv, TypeOK
<1>. QED  BY <1>1, <1>2, <1>3, <1>4, <1>5 DEF Next

-----------------------------------------------------------------------------
\* The inductive invariant holds in every reachable state.
THEOREM SlotInvariant == Spec => []IInv
  BY InitIInv, IInvStep, PTL DEF Spec

\* Type correctness.
THEOREM AdmissionTypes == Spec => []TypeOK
<1>1. IInv => TypeOK  BY DEF IInv
<1>. QED  BY <1>1, SlotInvariant, PTL

\* The counter is the number of holders: no release, timeout or abort loses a
\* slot or hands one out twice.
THEOREM SlotsConserved == Spec => []SlotsAreHeld
<1>1. IInv => SlotsAreHeld  BY DEF IInv
<1>. QED  BY <1>1, SlotInvariant, PTL

\* At most MaxConcurrent calls hold a slot at any time.
THEOREM SlotsLimited == Spec => []WithinLimit
<1>1. IInv => WithinLimit  BY DEF IInv, SlotsAreHeld, WithinLimit
<1>. QED  BY <1>1, SlotInvariant, PTL

\* No call waits while a slot is free.
THEOREM SlotsUsed == Spec => []NoIdleSlot
<1>1. IInv => NoIdleSlot  BY DEF IInv
<1>. QED  BY <1>1, SlotInvariant, PTL

\* Slots are granted in the order of arrival.
THEOREM FirstComeFirstServed == Spec => NoOvertaking
<1>. DEFINE Ordered ==
       \A c, d \in Calls :
         /\ call[c] = "waiting" /\ call'[c] = "waiting"
         /\ call[d] # "granted" /\ call'[d] = "granted"
         => call[d] = "waiting" /\ ticket[d] < ticket[c]
<1>1. IInv /\ [Next]_vars => Ordered
  <2>. SUFFICES ASSUME IInv, [Next]_vars, NEW c \in Calls, NEW d \in Calls,
                       call[c] = "waiting", call'[c] = "waiting",
                       call[d] # "granted", call'[d] = "granted"
                PROVE  call[d] = "waiting" /\ ticket[d] < ticket[c]
    OBVIOUS
  <2>. USE DEF IInv, TypeOK
  <2>1. c \in Waiting /\ c # d  BY DEF Waiting
  <2>2. ASSUME NEW e \in Calls, Acquire(e) PROVE FALSE
    <3>1. active = MaxConcurrent  BY <2>1 DEF NoIdleSlot
    <3>2. ~SlotFree(e)  BY <3>1 DEF SlotFree
    <3>. QED  BY <2>2, <3>2 DEF Acquire, Becomes
  <2>3. ASSUME NEW e \in Calls, Release(e)
        PROVE  call[d] = "waiting" /\ ticket[d] < ticket[c]
    <3>1. Waiting # {}  BY <2>1
    <3>2. PICK n \in Waiting :
            NextIs(n) /\ call' = [call EXCEPT ![e] = "released", ![n] = "granted"]
      BY <2>3, <3>1 DEF Release, Served
    <3>3. d = n  BY <3>2
    <3>4. ticket[d] <= ticket[c]  BY <2>1, <3>2, <3>3 DEF NextIs
    <3>5. ticket[d] # ticket[c]  BY <2>1, <3>3 DEF TicketsDiffer
    <3>. QED  BY <3>3, <3>4, <3>5 DEF Waiting
  <2>4. ASSUME NEW e \in Calls, TimedOut(e) PROVE FALSE
    BY <2>4 DEF TimedOut, Becomes
  <2>5. ASSUME NEW s \in Signals, Abort(s) PROVE FALSE
    BY <2>5 DEF Abort
  <2>6. CASE UNCHANGED vars  BY <2>6 DEF vars
  <2>. QED  BY <2>2, <2>3, <2>4, <2>5, <2>6 DEF Next
<1>. QED  BY <1>1, SlotInvariant, PTL DEF Spec, NoOvertaking
=============================================================================
