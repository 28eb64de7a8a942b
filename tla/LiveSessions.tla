---------------------------- MODULE LiveSessions ----------------------------
(***************************************************************************)
(* The live sessions of the map (eve-map/live-session.ts): one poller of   *)
(* ESI per character, shared by the browser streams that watch it.  A      *)
(* session has a timer; a poll of it spans several awaits, during which    *)
(* streams come and go, the session is stopped, and another may be made    *)
(* for the same character.                                                 *)
(***************************************************************************)
EXTENDS Integers, FiniteSets

CONSTANTS Chars, Users, Systems,
          Streams,      \* connections of the route GET /map/live
          UserOf,       \* of each stream: the account of its browser session
          MaxSessions,  \* config.map.maxLiveSessions
          MaxPerUser,   \* config.map.maxLiveSessionsPerUser
          MaxFailures,  \* config.map.liveSessionMaxFailures
          MaxMade,      \* bound on the sessions made
          Nothing

Made == 1..MaxMade

VARIABLES
  owner,    \* of each character: the account it is linked to
  system,   \* of each character: where it is
  sessions, \* of each character: its entry in the map of sessions
  made,     \* sessions so far
  charOf, userOf,  \* of each session: who is polled, for which account
  timer,    \* sessions with a timer
  subs,     \* of each session: its subscribers
  last,     \* of each session: lastLocation
  fails,    \* of each session: consecutiveFailures
  resting,  \* sessions before their backoffUntilMs
  leased,   \* sessions active within the idle time
  poll,     \* of each session: what its poll awaits
  open,     \* of each stream: the session it is attached to, Nothing if closed
  leaked    \* streams that were sent a position read for another account

session == <<charOf, userOf, made>>
eve == <<owner, system>>
vars == <<eve, sessions, session, timer, subs, last, fails, resting, leased, poll, open, leaked>>

\* Before its last await, a poll holds the system it read.
Polls == {"no", "online", "location"} \cup Systems

TypeOK ==
  /\ owner \in [Chars -> Users] /\ system \in [Chars -> Systems]
  /\ sessions \in [Chars -> Made \cup {Nothing}]
  /\ made \in 0..MaxMade
  /\ charOf \in [Made -> Chars] /\ userOf \in [Made -> Users]
  /\ timer \subseteq Made /\ subs \in [Made -> SUBSET Streams]
  /\ last \in [Made -> Systems \cup {Nothing}] /\ fails \in [Made -> 0..MaxFailures]
  /\ resting \subseteq Made /\ leased \subseteq Made
  /\ poll \in [Made -> Polls]
  /\ open \in [Streams -> Made \cup {Nothing}]
  /\ leaked \subseteq Streams

Init ==
  /\ \E u \in Users, s \in Systems :
       owner = [c \in Chars |-> u] /\ system = [c \in Chars |-> s]
  /\ charOf = [m \in Made |-> CHOOSE c \in Chars : TRUE]
  /\ userOf = [m \in Made |-> CHOOSE u \in Users : TRUE]
  /\ sessions = [c \in Chars |-> Nothing]
  /\ made = 0
  /\ timer = {} /\ subs = [m \in Made |-> {}]
  /\ last = [m \in Made |-> Nothing] /\ fails = [m \in Made |-> 0]
  /\ resting = {} /\ leased = {}
  /\ poll = [m \in Made |-> "no"]
  /\ open = [s \in Streams |-> Nothing] /\ leaked = {}

\* The streams in S are sent a position that was read for userOf[m].
Sent(S, m) == leaked \cup {s \in S : UserOf[s] # userOf[m]}

-----------------------------------------------------------------------------
(* stop(session): whatever entry the character has is deleted.             *)

EntryLeft(c) == sessions                                           \* a bug
EntryDeleted(c) == [sessions EXCEPT ![c] = Nothing]

\* The session stops, and the streams in S are gone.
Stop(m, S) ==
  /\ timer' = timer \ {m}
  /\ sessions' = EntryDeleted(charOf[m])
  /\ subs' = [subs EXCEPT ![m] = @ \ S]
  /\ open' = [s \in Streams |-> IF s \in S THEN Nothing ELSE open[s]]

\* A fatal error is emitted: every subscriber closes its stream, whose close
\* handler detaches it; then the session is stopped.
Fatal(m) == Stop(m, subs[m])

-----------------------------------------------------------------------------
(* Streams.                                                                *)

PerUser(u) == Cardinality({c \in Chars : sessions[c] # Nothing /\ userOf[sessions[c]] = u})
Live == {c \in Chars : sessions[c] # Nothing}

AnyAccount(m, s) == TRUE                                           \* a bug
SameAccount(m, s) == userOf[m] = UserOf[s]

\* attachLiveSession finds a session: refused for another account.
Join(s, c) ==
  LET m == sessions[c]
  IN /\ open[s] = Nothing /\ owner[c] = UserOf[s] /\ m # Nothing
     /\ SameAccount(m, s)
     /\ subs' = [subs EXCEPT ![m] = @ \cup {s}]
     /\ open' = [open EXCEPT ![s] = m]
     /\ leased' = leased \cup {m}
     /\ leaked' = IF last[m] = Nothing THEN leaked ELSE Sent({s}, m)
     /\ UNCHANGED <<eve, sessions, session, timer, last, fails, resting, poll>>

\* It makes one, within the caps, and polls at once.
Attach(s, c) ==
  LET m == made + 1
  IN /\ open[s] = Nothing /\ owner[c] = UserOf[s] /\ sessions[c] = Nothing
     /\ m <= MaxMade
     /\ Cardinality(Live) < MaxSessions /\ PerUser(UserOf[s]) < MaxPerUser
     /\ made' = m
     /\ charOf' = [charOf EXCEPT ![m] = c] /\ userOf' = [userOf EXCEPT ![m] = UserOf[s]]
     /\ sessions' = [sessions EXCEPT ![c] = m]
     /\ timer' = timer \cup {m}
     /\ subs' = [subs EXCEPT ![m] = {s}]
     /\ open' = [open EXCEPT ![s] = m]
     /\ leased' = leased \cup {m}
     /\ poll' = [poll EXCEPT ![m] = "online"]
     /\ UNCHANGED <<eve, last, fails, resting, leaked>>

\* The browser leaves: detach, which stops a session nobody watches.
Leave(s) ==
  LET m == open[s]
  IN /\ m # Nothing
     /\ IF subs[m] = {s} THEN Stop(m, {s})
        ELSE /\ subs' = [subs EXCEPT ![m] = @ \ {s}]
             /\ open' = [open EXCEPT ![s] = Nothing]
             /\ UNCHANGED <<timer, sessions>>
     /\ UNCHANGED <<eve, session, last, fails, resting, leased, poll, leaked>>

\* POST /map/live/touch, while the tab is visible.
Touch(s) ==
  /\ open[s] # Nothing
  /\ \E c \in Chars :
       /\ owner[c] = UserOf[s] /\ sessions[c] # Nothing
       /\ userOf[sessions[c]] = UserOf[s]
       /\ leased' = leased \cup {sessions[c]}
  /\ UNCHANGED <<eve, sessions, session, timer, subs, last, fails, resting, poll, open, leaked>>

LeaseEnds(m) ==
  /\ m \in timer \cap leased /\ leased' = leased \ {m}
  /\ UNCHANGED <<eve, sessions, session, timer, subs, last, fails, resting, poll, open, leaked>>

\* stopAllLiveSessions, at shutdown.
StopAll ==
  /\ LET S == {sessions[c] : c \in Live}
     IN /\ timer' = timer \ S
        /\ open' = [s \in Streams |-> IF open[s] \in S THEN Nothing ELSE open[s]]
        /\ subs' = [m \in Made |-> IF m \in S THEN {} ELSE subs[m]]
  /\ sessions' = [c \in Chars |-> Nothing]
  /\ UNCHANGED <<eve, session, last, fails, resting, leased, poll, leaked>>

-----------------------------------------------------------------------------
(* Polls.                                                                  *)

\* The timer ticks: unless a poll is under way or the session rests.
Tick(m) ==
  /\ m \in timer /\ poll[m] = "no" /\ m \notin resting
  /\ IF m \in leased
     THEN /\ poll' = [poll EXCEPT ![m] = "online"]
          /\ UNCHANGED <<timer, sessions, subs, open>>
     ELSE Fatal(m) /\ UNCHANGED poll
  /\ UNCHANGED <<eve, session, last, fails, resting, leased, leaked>>

\* ESI answers for a character only while it is linked to the account.
Granted(m) == owner[charOf[m]] = userOf[m]

\* Capabilities and the online check, whose failure is no failure.
Online(m) ==
  /\ poll[m] = "online" /\ poll' = [poll EXCEPT ![m] = "location"]
  /\ UNCHANGED <<eve, sessions, session, timer, subs, last, fails, resting, leased, open, leaked>>

Located(m) ==
  /\ poll[m] = "location" /\ Granted(m)
  /\ poll' = [poll EXCEPT ![m] = system[charOf[m]]]
  /\ UNCHANGED <<eve, sessions, session, timer, subs, last, fails, resting, leased, open, leaked>>

\* The ship is known, or is not: the position is emitted.  Only a jump renews
\* the lease.
Emitted(m) ==
  /\ poll[m] \in Systems
  /\ poll' = [poll EXCEPT ![m] = "no"]
  /\ last' = [last EXCEPT ![m] = poll[m]]
  /\ leased' = IF last[m] \in {Nothing, poll[m]} THEN leased ELSE leased \cup {m}
  /\ fails' = [fails EXCEPT ![m] = 0] /\ resting' = resting \ {m}
  /\ leaked' = Sent(subs[m], m)
  /\ UNCHANGED <<eve, sessions, session, timer, subs, open>>

OneFailureMore(m) == fails[m] + 1 > MaxFailures                    \* a bug
LastFailure(m) == fails[m] + 1 >= MaxFailures

\* recordFailure, of a poll whose session may have been stopped meanwhile.
Fails(m) ==
  /\ poll[m] # "no"
  /\ poll' = [poll EXCEPT ![m] = "no"]
  /\ fails' = [fails EXCEPT ![m] = @ + 1]
  /\ IF LastFailure(m)
     THEN Fatal(m) /\ UNCHANGED resting
     ELSE /\ resting' = resting \cup {m}
          /\ UNCHANGED <<timer, sessions, subs, open>>
  /\ UNCHANGED <<eve, session, last, leased, leaked>>

RestEnds(m) ==
  /\ m \in timer \cap resting /\ resting' = resting \ {m}
  /\ UNCHANGED <<eve, sessions, session, timer, subs, last, fails, leased, poll, open, leaked>>

-----------------------------------------------------------------------------
(* The pilot.                                                              *)

Jump(c, s) ==
  /\ system' = [system EXCEPT ![c] = s]
  /\ UNCHANGED <<owner, sessions, session, timer, subs, last, fails, resting, leased, poll,
                 open, leaked>>

\* The character is linked to another account: EVE sign-in.
Transfer(c, u) ==
  /\ owner' = [owner EXCEPT ![c] = u]
  /\ UNCHANGED <<system, sessions, session, timer, subs, last, fails, resting, leased, poll,
                 open, leaked>>

Next ==
  \/ \E s \in Streams, c \in Chars : Join(s, c) \/ Attach(s, c)
  \/ \E s \in Streams : Leave(s) \/ Touch(s)
  \/ StopAll
  \/ \E m \in Made : \/ Tick(m) \/ Online(m) \/ Located(m) \/ Emitted(m) \/ Fails(m)
                     \/ RestEnds(m) \/ LeaseEnds(m)
  \/ \E c \in Chars, s \in Systems : Jump(c, s)
  \/ \E c \in Chars, u \in Users : Transfer(c, u)

Spec == Init /\ [][Next]_vars

-----------------------------------------------------------------------------
\* "A poll exists only while somebody is watching", and nobody watches a map
\* that is frozen: a session with a timer has subscribers, and a stream that
\* is open hangs on a session with a timer.
WatchedWhilePolled ==
  /\ \A m \in timer : subs[m] # {}
  /\ \A s \in Streams : open[s] # Nothing => open[s] \in timer /\ s \in subs[open[s]]
  /\ \A m \in Made : \A s \in subs[m] : open[s] = m

\* No account is sent a position that was read for another.
OwnPositionOnly == leaked = {}

LiveSessionsSound == WatchedWhilePolled /\ OwnPositionOnly

\* "One poll per character, however many tabs are attached."
OnePollPerCharacter == \A m, n \in timer : charOf[m] = charOf[n] => m = n

-----------------------------------------------------------------------------
(* What every step keeps.                                                  *)

\* An entry is a session of the character with a timer, and who has a timer was
\* made.
EntriesPoll ==
  /\ \A c \in Chars : sessions[c] # Nothing => sessions[c] \in timer /\ charOf[sessions[c]] = c
  /\ timer \subseteq 1..made

\* A stream subscribes to sessions of its account.
OwnAccounts == \A m \in Made : \A s \in subs[m] : UserOf[s] = userOf[m]

\* Who polls, or will, has a failure left; a session that is not made, all.
MayFail ==
  /\ \A m \in Made : m \in timer \/ poll[m] # "no" => fails[m] < MaxFailures
  /\ \A m \in Made : m > made => poll[m] = "no" /\ fails[m] = 0

IInv == TypeOK /\ WatchedWhilePolled /\ EntriesPoll /\ OwnAccounts /\ MayFail /\ leaked = {}
=============================================================================
