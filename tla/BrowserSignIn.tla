--------------------------- MODULE BrowserSignIn ---------------------------
(***************************************************************************)
(* Browser identities: guest sessions and their lanes (web/web-session.ts), *)
(* the locks that serialise what is done to a lane or to a character       *)
(* (web/web-lane-lock.ts, eve/user-profile-storage.ts), logout and the     *)
(* cleanup of expired sessions, and the EVE sign-in that links a character  *)
(* to the guest or folds the guest into the character's owner               *)
(* (web/auth-routes.ts).                                                   *)
(*                                                                         *)
(* db is the database; a transaction that would break a foreign key is     *)
(* rolled back.  Everything else is the memory of one process.  Lane n is  *)
(* chat id WEB_CHAT_ID_START - n: ascending chat ids are descending lanes. *)
(***************************************************************************)
EXTENDS Integers, FiniteSets, Sequences

CONSTANTS Characters, Threads,
          KeyOf,      \* the idempotency key of a thread's request
          Logins,     \* sign-ins that can be under way at once
          Purgers,    \* which of "logout" and "cleanup" happen
          Unlinkers,  \* {"unlink"}, or nobody unlinks
          ForSale,    \* the characters that may be sold
          MaxUsers,   \* bound: user ids issued (AUTOINCREMENT)
          MaxLanes,   \* bound: lanes that exist at once
          MaxActors   \* bound: handlers under way at once

ASSUME BoundsAssumption == MaxUsers \in Nat /\ MaxLanes \in Nat
\* Every handler has a name of its own.
ASSUME ActorsAssumption ==
  /\ Purgers \subseteq {"logout", "cleanup"} /\ Unlinkers \subseteq {"unlink"}
  /\ Logins \cap {"logout", "cleanup", "unlink"} = {}

Users == 1..MaxUsers
Lanes == 1..MaxLanes

VARIABLES
  db,         \* the tables
  owner,      \* EVE's CharacterOwnerHash of each character
  login,      \* the callback handlers
  purge,      \* the cleanup and the logout
  batch,      \* lanes the cleanup has selected
  unlink,     \* the unlink handler
  laneQ, characterQ   \* who holds (first) and waits for each lock

vars == <<db, owner, login, purge, batch, unlink, laneQ, characterQ>>
locks == <<laneQ, characterQ>>

Nobody   == 0
NoRow    == [user |-> Nobody, lane |-> 0]
NoSession  == [user |-> Nobody, live |-> FALSE]
NoRequest  == [user |-> Nobody, lane |-> 0, busy |-> FALSE]
NoAccount  == [user |-> Nobody, hash |-> 0]
NoPlan   == [kind |-> "none", heir |-> Nobody, orphans |-> {}]
NoLogin  == [step |-> "idle", user |-> Nobody, lane |-> 0, character |-> "none",
             hash |-> 0, plan |-> NoPlan, want |-> 0]
NoPurge  == [step |-> "idle", lane |-> 0, user |-> Nobody, want |-> {}]
NoUnlink == [step |-> "idle", user |-> Nobody, character |-> "none"]

EmptyDb == [issued   |-> 0,                                 \* users ever created
            users    |-> {},
            lanes    |-> {},                                \* telegram_sessions
            session  |-> [l \in Lanes |-> NoSession],       \* web_sessions
            thread   |-> [t \in Threads |-> NoRow],         \* agent_threads
            request  |-> [t \in Threads |-> NoRequest],     \* web_agent_requests
            account  |-> [c \in Characters |-> NoAccount],  \* eve_accounts
            link     |-> {},                                \* eve_character_links
            auth     |-> {}]                                \* auth_requests, used

\* The handlers under way, and whether another may begin.
Active == {i \in Logins : login[i].step # "idle"} \cup {p \in Purgers : purge[p].step # "idle"}
          \cup {n \in Unlinkers : unlink.step # "idle"}
Room == Cardinality(Active) < MaxActors

Init ==
  /\ db = EmptyDb /\ owner = [c \in Characters |-> 0]
  /\ login = [i \in Logins |-> NoLogin] /\ purge = [p \in Purgers |-> NoPurge]
  /\ batch = {} /\ unlink = NoUnlink
  /\ laneQ = [l \in Lanes |-> <<>>] /\ characterQ = [c \in Characters |-> <<>>]

\* The state is well formed, and a lock is held or awaited only by a handler
\* that is under way: whatever way a handler ends, it has let go.
TypeOK ==
  /\ db.issued \in 0..MaxUsers /\ db.users \subseteq 1..db.issued /\ db.lanes \subseteq Lanes
  /\ db.session \in [Lanes -> [user : {Nobody} \cup Users, live : BOOLEAN]]
  /\ db.thread \in [Threads -> [user : {Nobody} \cup Users, lane : 0..MaxLanes]]
  /\ db.request \in [Threads -> [user : {Nobody} \cup Users, lane : 0..MaxLanes, busy : BOOLEAN]]
  /\ db.account \in [Characters -> [user : {Nobody} \cup Users, hash : {0, 1}]]
  /\ db.link \subseteq Lanes \X Characters \X Users /\ db.auth \subseteq Lanes \X Users
  /\ batch \subseteq Lanes
  /\ \A l \in Lanes : \A j \in DOMAIN laneQ[l] : laneQ[l][j] \in Active
  /\ \A c \in Characters : \A j \in DOMAIN characterQ[c] : characterQ[c][j] \in Active

-----------------------------------------------------------------------------
(* The database.                                                           *)

\* PRAGMA foreign_keys = ON; agent_threads.user_id refers to nothing.
ForeignKeysHold(d) ==
  /\ \A l \in Lanes : d.session[l].user # Nobody => l \in d.lanes /\ d.session[l].user \in d.users
  /\ \A t \in Threads :
       /\ d.thread[t].user # Nobody => d.thread[t].lane \in d.lanes
       /\ d.request[t].user # Nobody =>
            /\ d.request[t].user \in d.users /\ d.request[t].lane \in d.lanes
            /\ d.thread[t].user # Nobody
  /\ \A k \in d.link : k[1] \in d.lanes /\ d.account[k[2]].user # Nobody
  /\ \A a \in d.auth : a[2] \in d.users

Live(d, l)   == d.session[l].user # Nobody /\ d.session[l].live
OwnsByLink(d, u) == \E k \in d.link : k[3] = u                       \* a bug
Owns(d, u)   == \/ \E c \in Characters : d.account[c].user = u
                \/ \E k \in d.link : k[3] = u
Busy(d, l)   == \E t \in Threads : /\ d.request[t].busy /\ d.request[t].lane = l
                                   /\ d.request[t].user = d.session[l].user

\* The transaction, or none of it.
Written(d) == db' = IF ForeignKeysHold(d) THEN d ELSE db

-----------------------------------------------------------------------------
(* Guests.                                                                 *)

\* createWebSession: a new user on the lane after the last.
CreateSession ==
  LET u == db.issued + 1
  IN \E n \in Lanes :
       /\ u \in Users
       /\ (\A m \in db.lanes : m < n) /\ (n = 1 \/ n - 1 \in db.lanes)
       /\ db' = [db EXCEPT !.issued = u, !.users = @ \cup {u}, !.lanes = @ \cup {n},
                           !.session[n] = [user |-> u, live |-> TRUE]]
       /\ UNCHANGED <<owner, login, purge, batch, unlink, locks>>

Expire(l) ==
  /\ Live(db, l) /\ db' = [db EXCEPT !.session[l].live = FALSE]
  /\ UNCHANGED <<owner, login, purge, batch, unlink, locks>>

Talk(l, t) ==
  /\ Live(db, l) /\ db.thread[t] = NoRow
  /\ db' = [db EXCEPT !.thread[t] = [user |-> db.session[l].user, lane |-> l]]
  /\ UNCHANGED <<owner, login, purge, batch, unlink, locks>>

SameKey(d, t, u, l) ==
  \E s \in Threads \ {t} : d.request[s].user = u /\ d.request[s].lane = l /\ KeyOf[s] = KeyOf[t]

Submit(l, t) ==
  LET u == db.session[l].user
  IN /\ Live(db, l) /\ db.thread[t] = [user |-> u, lane |-> l]
     /\ db.request[t] = NoRequest /\ ~SameKey(db, t, u, l)
     /\ db' = [db EXCEPT !.request[t] = [user |-> u, lane |-> l, busy |-> TRUE]]
     /\ UNCHANGED <<owner, login, purge, batch, unlink, locks>>

Finish(t) ==
  /\ db.request[t].busy /\ db' = [db EXCEPT !.request[t].busy = FALSE]
  /\ UNCHANGED <<owner, login, purge, batch, unlink, locks>>

\* EVE: the character is sold, and has another owner hash.
Sell(c) ==
  /\ c \in ForSale /\ owner[c] = 0 /\ owner' = [owner EXCEPT ![c] = 1]
  /\ UNCHANGED <<db, login, purge, batch, unlink, locks>>

\* cleanExpiredAuthRequests: an expired state goes when the next one is looked
\* up.  It lives longer than a handler runs: none expires meanwhile.
AuthAges(l, u) ==
  /\ Active = {} /\ <<l, u>> \in db.auth /\ db' = [db EXCEPT !.auth = @ \ {<<l, u>>}]
  /\ UNCHANGED <<owner, login, purge, batch, unlink, locks>>

\* The process is restarted: the locks, and what held them, are gone.
Crash ==
  /\ login' = [i \in Logins |-> NoLogin] /\ purge' = [p \in Purgers |-> NoPurge]
  /\ batch' = {} /\ unlink' = NoUnlink
  /\ laneQ' = [l \in Lanes |-> <<>>] /\ characterQ' = [c \in Characters |-> <<>>]
  /\ UNCHANGED <<db, owner>>

-----------------------------------------------------------------------------
(* Locks: a promise chain for each lane and each character.                *)

Has(q, a) == q # <<>> /\ Head(q) = a
Awaits(q, a) == \E j \in DOMAIN q : q[j] = a
LetsGo(q, a) == IF Has(q, a) THEN Tail(q) ELSE q

Waits(a, l)   == laneQ' = [laneQ EXCEPT ![l] = Append(@, a)] /\ UNCHANGED characterQ
WaitsFor(a, c) == characterQ' = [characterQ EXCEPT ![c] = Append(@, a)] /\ UNCHANGED laneQ
Releases(a) == /\ laneQ' = [l \in Lanes |-> LetsGo(laneQ[l], a)]
               /\ characterQ' = [c \in Characters |-> LetsGo(characterQ[c], a)]

-----------------------------------------------------------------------------
(* Logout and the cleanup of expired sessions: purgeBrowserLane.           *)

\* hasOtherIdentity: what still points at the user.
HasOtherIdentity(d, u) ==
  \/ \E l \in Lanes : d.session[l].user = u
  \/ \E t \in Threads : d.thread[t].user = u \/ d.request[t].user = u

\* DELETE FROM auth_requests WHERE user_id: on whatever lane they were begun.
AuthLeft(auth, u) == {a \in auth : a[2] # u}

\* A guest's lane with what is in it, and the guest if nothing is left.
Purged(d, l, u) ==
  LET gone == {t \in Threads : d.thread[t] = [user |-> u, lane |-> l]}
      e == [d EXCEPT !.thread  = [t \in Threads |-> IF t \in gone THEN NoRow ELSE @[t]],
                     !.request = [t \in Threads |-> IF t \in gone THEN NoRequest ELSE @[t]],
                     !.link = {k \in @ : k[1] # l}, !.auth = {a \in @ : a[1] # l},
                     !.session[l] = NoSession, !.lanes = @ \ {l}]
  IN IF HasOtherIdentity(e, u) THEN e
     ELSE [e EXCEPT !.auth = AuthLeft(@, u), !.link = {k \in @ : k[3] # u},
                    !.account = [c \in Characters |-> IF @[c].user = u THEN NoAccount ELSE @[c]],
                    !.users = @ \ {u}]

\* DELETE /api/web/session, when the lane's requests have ended: cancelled
\* first, and marked so after five seconds (a Finish of each).
Logout(l) ==
  /\ Room /\ "logout" \in Purgers /\ purge["logout"].step = "idle"
  /\ Live(db, l) /\ ~Busy(db, l)
  /\ purge' = [purge EXCEPT !["logout"] = [NoPurge EXCEPT !.step = "lane", !.lane = l]]
  /\ Waits("logout", l)
  /\ UNCHANGED <<db, owner, login, batch, unlink>>

\* One cleanup at a time; it purges the lanes it found one after the other.
Cleanup ==
  /\ "cleanup" \in Purgers /\ purge["cleanup"].step = "idle" /\ batch = {}
  /\ batch' = {l \in Lanes : db.session[l].user # Nobody /\ ~db.session[l].live /\ ~Busy(db, l)}
  /\ batch' # {}
  /\ UNCHANGED <<db, owner, login, purge, unlink, locks>>

CleanupNext(l) ==
  /\ Room /\ l \in batch /\ purge["cleanup"].step = "idle" /\ batch' = batch \ {l}
  /\ purge' = [purge EXCEPT !["cleanup"] = [NoPurge EXCEPT !.step = "lane", !.lane = l]]
  /\ Waits("cleanup", l)
  /\ UNCHANGED <<db, owner, login, unlink>>

\* Under the lane's lock the session is read again.  A user who owns a
\* character loses the session only.  A guest loses the lane, once every
\* character anybody linked there is locked too, one after the other.
PurgeGranted(p) ==
  LET l == purge[p].lane
      u == db.session[l].user
      linked == {c \in Characters : \E k \in db.link : k[1] = l /\ k[2] = c}
      ends == purge' = [purge EXCEPT ![p] = NoPurge] /\ Releases(p)
      left == {c \in purge[p].want : ~Has(characterQ[c], p)}
  IN /\ \/ /\ purge[p].step = "lane" /\ Has(laneQ[l], p)
           /\ IF u # Nobody /\ ~Owns(db, u) /\ linked # {}
              THEN /\ purge' = [purge EXCEPT ![p].step = "characters", ![p].user = u, ![p].want = linked]
                   /\ \E c \in linked : WaitsFor(p, c)
                   /\ UNCHANGED db
              ELSE /\ CASE u = Nobody  -> UNCHANGED db
                        [] Owns(db, u) -> db' = [db EXCEPT !.session[l] = NoSession]
                        [] OTHER       -> Written(Purged(db, l, u))
                   /\ ends
        \/ /\ purge[p].step = "characters"
           /\ \A c \in left : ~Awaits(characterQ[c], p)
           /\ IF left # {} THEN (\E c \in left : WaitsFor(p, c)) /\ UNCHANGED <<db, purge>>
              ELSE Written(Purged(db, l, purge[p].user)) /\ ends
     /\ UNCHANGED <<owner, login, batch, unlink>>

-----------------------------------------------------------------------------
(* The user unlinks a character, under the character's lock.               *)

UnlinkBegin(l, c) ==
  /\ Room /\ Unlinkers # {} /\ unlink.step = "idle" /\ Live(db, l)
  /\ unlink' = [step |-> "waiting", user |-> db.session[l].user, character |-> c]
  /\ WaitsFor("unlink", c)
  /\ UNCHANGED <<db, owner, login, purge, batch>>

\* The links go at once, the account after the profile files.
UnlinkRows ==
  LET mine == {k \in db.link : k[2] = unlink.character /\ k[3] = unlink.user}
  IN /\ unlink.step = "waiting" /\ Has(characterQ[unlink.character], "unlink")
     /\ db' = [db EXCEPT !.link = @ \ mine]
     /\ IF mine = {} THEN unlink' = NoUnlink /\ Releases("unlink")
        ELSE unlink' = [unlink EXCEPT !.step = "files"] /\ UNCHANGED locks
     /\ UNCHANGED <<owner, login, purge, batch>>

\* cleanupDetachedCharacter.
UnlinkEnd ==
  LET c == unlink.character
  IN /\ unlink.step = "files" /\ unlink' = NoUnlink /\ Releases("unlink")
     /\ db' = IF \E k \in db.link : k[2] = c THEN db
              ELSE [db EXCEPT !.account[c] = NoAccount]
     /\ UNCHANGED <<owner, login, purge, batch>>

-----------------------------------------------------------------------------
(* The sign-in's plan: whose the browser lane will be.                     *)

\* isFreshBrowserGuest: no other live session.
Fresh(d, u, l) == \A m \in Lanes \ {l} : d.session[m].user = u => ~d.session[m].live

\* listOrphanedWebLaneIds: the user's lanes without a live session.
Orphans(d, u, l) ==
  {m \in d.lanes \ {l} : /\ ~Live(d, m)
                         /\ \/ \E t \in Threads : d.thread[t] = [user |-> u, lane |-> m]
                            \/ \E k \in d.link : k[1] = m /\ k[3] = u}

\* planBrowserSsoOwner.
Plan(d, s) ==
  LET heir == d.account[s.character].user
  IN IF d.session[s.lane] # [user |-> s.user, live |-> TRUE]
     THEN [NoPlan EXCEPT !.kind = "refused"]
     ELSE IF \/ heir \in {Nobody, s.user}
             \/ d.account[s.character].hash # s.hash
             \/ ~Fresh(d, s.user, s.lane)
     THEN [NoPlan EXCEPT !.kind = "keep", !.heir = s.user]
     ELSE [kind |-> "merge", heir |-> heir, orphans |-> Orphans(d, heir, s.lane)]

-----------------------------------------------------------------------------
(* What the sign-in writes: applyBrowserSsoOwnerPlan and what follows it.   *)

\* UPDATE OR IGNORE of the requests of the given threads: one that another
\* request of its new lane and user collides with stays where it is.  Terminal
\* requests that stay are deleted.
LeftBehind(r) == IF r.busy THEN r ELSE NoRequest

Moved(d, moving, blocked, to, l) ==
  [t \in Threads |->
     IF t \notin moving THEN d.request[t]
     ELSE IF t \in blocked THEN LeftBehind(d.request[t])
     ELSE [d.request[t] EXCEPT !.user = to[t], !.lane = l]]

\* adoptOrphanedWebLanes, in ascending chat ids.
Adopted(d, orphans, l) ==
  LET moving == {t \in Threads : d.request[t].user # Nobody /\ d.request[t].lane \in orphans}
      same == [t \in Threads |-> d.request[t].user]
      taken == {t \in moving : \/ SameKey(d, t, same[t], l)
                               \/ \E m \in orphans : m > d.request[t].lane /\ SameKey(d, t, same[t], m)}
      requests == Moved(d, moving, taken, same, l)
      kept == {m \in orphans : \E t \in Threads : requests[t].user # Nobody /\ requests[t].lane = m}
  IN [d EXCEPT !.session = [m \in Lanes |-> IF m \in orphans THEN NoSession ELSE @[m]],
               !.thread  = [t \in Threads |-> IF @[t].lane \in orphans THEN [@[t] EXCEPT !.lane = l] ELSE @[t]],
               !.request = requests,
               !.link = {k \in @ : k[1] \notin orphans} \cup
                        {<<l, k[2], k[3]>> : k \in {j \in @ : /\ j[1] \in orphans
                                                            /\ \A i \in @ : <<i[1], i[2]>> # <<l, j[2]>>}},
               !.auth = {a \in @ : a[1] \notin orphans},
               !.lanes = @ \ (orphans \ kept)]

\* The guest's rows on the lane, and its characters, go to the heir; the
\* guest is deleted when no request is left.
Merged(d, guest, heir, l) ==
  LET a == Adopted(d, Orphans(d, heir, l), l)
      moving == {t \in Threads : a.request[t].user = guest /\ a.request[t].lane = l}
      taken == {t \in moving : SameKey(a, t, heir, l)}
      requests == Moved(a, moving, taken, [t \in Threads |-> heir], l)
      left == \E t \in Threads : requests[t].user = guest
      Mine(row) == row.user = guest /\ row.lane = l
  IN [a EXCEPT !.session[l].user = heir,
               !.thread  = [t \in Threads |-> IF Mine(@[t]) THEN [@[t] EXCEPT !.user = heir] ELSE @[t]],
               !.request = requests,
               !.auth = {IF s = <<l, guest>> THEN <<l, heir>> ELSE s : s \in @},
               !.account = [c \in Characters |-> IF @[c].user = guest THEN [@[c] EXCEPT !.user = heir] ELSE @[c]],
               !.link = {IF k[3] = guest THEN <<k[1], k[2], heir>> ELSE k : k \in @},
               !.users = IF left THEN @ ELSE @ \ {guest}]

\* The account, reassignCharacterOwnership and linkCharacterToChat.
KeepsLinks(links, c, u) == links                                    \* a bug
Reassigned(links, c, u) == {k \in links : k[2] = c => k[3] = u}

Linked(d, s, u) ==
  [d EXCEPT !.account[s.character] = [user |-> u, hash |-> s.hash],
            !.link = Reassigned(@, s.character, u) \cup {<<s.lane, s.character, u>>}]

SignedIn(d, s, plan) ==
  IF plan.kind = "merge" THEN Linked(Merged(d, s.user, plan.heir, s.lane), s, plan.heir)
  ELSE Linked(d, s, s.user)

-----------------------------------------------------------------------------
(* The sign-in.                                                            *)

\* GET /auth/eve/callback: the state is marked used, the code is exchanged.
Callback(i, l) ==
  /\ Room /\ login[i].step = "idle" /\ Live(db, l)
  /\ login' = [login EXCEPT ![i] = [NoLogin EXCEPT !.step = "exchanging", !.lane = l,
                                                  !.user = db.session[l].user]]
  /\ db' = [db EXCEPT !.auth = @ \cup {<<l, db.session[l].user>>}]
  /\ UNCHANGED <<owner, purge, batch, unlink, locks>>

ExchangeFails(i) ==
  /\ login[i].step = "exchanging" /\ login' = [login EXCEPT ![i] = NoLogin]
  /\ UNCHANGED <<db, owner, purge, batch, unlink, locks>>

\* lockedChatIds
LanesToLock(s) == {s.lane} \cup s.plan.orphans
Last(l, lanes) == l \in lanes /\ \A m \in lanes : m <= l

\* EVE names the character and its owner; a preliminary plan says which lanes
\* to lock, the lowest chat id first.
Exchange(i, c) ==
  LET s == [login[i] EXCEPT !.character = c, !.hash = owner[c], !.step = "lanes"]
      planned == [s EXCEPT !.plan = Plan(db, s)]
  IN /\ login[i].step = "exchanging"
     /\ IF planned.plan.kind = "refused"
        THEN login' = [login EXCEPT ![i] = NoLogin] /\ UNCHANGED locks
        ELSE \E l \in Lanes : /\ Last(l, LanesToLock(planned)) /\ Waits(i, l)
                              /\ login' = [login EXCEPT ![i] = [planned EXCEPT !.want = l]]
     /\ UNCHANGED <<db, owner, purge, batch, unlink>>

\* One lane after the other, the character last.
LockGranted(i) ==
  LET s == login[i]
      left == {l \in LanesToLock(s) : l < s.want}
  IN /\ s.step = "lanes" /\ Has(laneQ[s.want], i)
     /\ IF left = {} THEN /\ login' = [login EXCEPT ![i].step = "character"]
                         /\ WaitsFor(i, s.character)
        ELSE \E l \in left : /\ Last(l, left) /\ Waits(i, l)
                             /\ login' = [login EXCEPT ![i].want = l]
     /\ UNCHANGED <<db, owner, purge, batch, unlink>>

\* The plan is made again in the transaction; a merge may touch the locked
\* lanes only.
FinalPlan(s) == Plan(db, s)

Allowed(s, plan) == /\ plan.kind # "refused"
                    /\ plan.kind = "merge" => plan.orphans \subseteq LanesToLock(s)

ReleasesOnSuccess(i, ok) == IF ok THEN Releases(i) ELSE UNCHANGED locks   \* a bug
ReleasesAll(i, ok) == Releases(i)

Commit(i) ==
  LET s == login[i]
      plan == FinalPlan(s)
  IN /\ s.step = "character" /\ Has(characterQ[s.character], i)
     /\ IF Allowed(s, plan) THEN Written(SignedIn(db, s, plan)) ELSE UNCHANGED db
     /\ login' = [login EXCEPT ![i] = NoLogin] /\ ReleasesAll(i, Allowed(s, plan))
     /\ UNCHANGED <<owner, purge, batch, unlink>>

-----------------------------------------------------------------------------
Next ==
  \/ CreateSession \/ Crash \/ Cleanup \/ UnlinkRows \/ UnlinkEnd
  \/ \E l \in Lanes : Expire(l) \/ Logout(l) \/ CleanupNext(l)
  \/ \E l \in Lanes, t \in Threads : Talk(l, t) \/ Submit(l, t)
  \/ \E t \in Threads : Finish(t)
  \/ \E c \in Characters : Sell(c)
  \/ \E l \in Lanes, u \in Users : AuthAges(l, u)
  \/ \E l \in Lanes, c \in Characters : UnlinkBegin(l, c)
  \/ \E p \in Purgers : PurgeGranted(p)
  \/ \E i \in Logins : \/ ExchangeFails(i) \/ LockGranted(i) \/ Commit(i)
                        \/ \E l \in Lanes : Callback(i, l)
                        \/ \E c \in Characters : Exchange(i, c)

Spec == Init /\ [][Next]_vars

-----------------------------------------------------------------------------
\* Whoever owns a character's account owns all its links: through merges,
\* transfers, purges and unlinks that overlap.
LinksMatchOwner == \A k \in db.link : db.account[k[2]].user = k[3]

\* Logout and expiry drop only the session of a user with a character: no
\* conversation of such a user is ever deleted, though the character may be
\* sold, unlinked or signed in elsewhere while the purge waits for its lock.
OwnedDataKept ==
  [][\A t \in Threads : db.thread[t].user # Nobody /\ (\E c \in Characters : db.account[c].user = db.thread[t].user)
       => db'.thread[t] # NoRow]_vars

\* "in-flight rows are never deleted": adopting and merging may move a request
\* that is queued or running, or leave it where it collides, but not drop it.
InFlightKept ==
  [][\A i \in Logins : Commit(i) =>
       \A t \in Threads : db.request[t].busy => db'.request[t].busy]_vars

\* "it must never grant the previous owner's identity": the sign-in's lane
\* changes hands only to the character's owner of that moment, and under the
\* owner hash EVE named, whatever happened while it waited for its locks.
SellerKeepsIdentity ==
  [][\A i \in Logins : Commit(i) =>
       LET s == login[i]
       IN db'.session[s.lane].user # db.session[s.lane].user
            => db.account[s.character] = [user |-> db'.session[s.lane].user, hash |-> s.hash]]_vars

\* The purge of a guest never breaks a foreign key, whatever sign-ins and
\* unlinks left behind of the guest on other lanes, as long as nobody else's
\* conversation was left on this one.
PurgeSucceeds ==
  \A p \in Purgers, l \in Lanes :
    LET u == db.session[l].user
        granted == purge[p].step = "lane" /\ purge[p].lane = l /\ Has(laneQ[l], p)
        alone == \A t \in Threads : db.thread[t].lane = l => db.thread[t].user = u
    IN granted /\ u # Nobody /\ ~Owns(db, u) /\ alone
         => ForeignKeysHold(Purged(db, l, u))

\* A sign-in rewrites no lane but those whose locks it holds: what it merges
\* or adopts, a logout or a cleanup cannot be purging.
HeldLanesOnly ==
  [][\A i \in Logins, l \in Lanes : Commit(i) /\ ~Has(laneQ[l], i) =>
       /\ db'.session[l] = db.session[l]
       /\ \A t \in Threads : db.thread[t].lane = l => db'.thread[t] = db.thread[t]]_vars

\* What is true of the links and of the guests at any time, and what no
\* handler may take from anybody, however the handlers overlap.
GuestsAndLinksSound == LinksMatchOwner /\ PurgeSucceeds

NobodyLoses == OwnedDataKept /\ InFlightKept /\ SellerKeepsIdentity /\ HeldLanesOnly

-----------------------------------------------------------------------------
\* "nothing stays behind on the deleted user": every conversation belongs to a
\* user who exists.  The code moves the guest's conversations of one lane.
NothingStaysBehind == \A t \in Threads : db.thread[t] # NoRow => db.thread[t].user \in db.users
=============================================================================
