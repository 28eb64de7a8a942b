------------------------- MODULE BrowserSignIn_proofs -------------------------
(***************************************************************************)
(* Proofs about BrowserSignIn, for all characters, conversations, handlers *)
(* and bounds: who owns the links, what a purge and a sign-in may touch,   *)
(* and that no handler that has ended holds a lock.                        *)
(***************************************************************************)
EXTENDS BrowserSignIn, TLC, TLAPS, SequenceTheorems

Actors == Logins \cup Purgers \cup Unlinkers
Somebody == {Nobody} \cup Users

Dbs == [issued : 0..MaxUsers, users : SUBSET Users, lanes : SUBSET Lanes,
        session : [Lanes -> [user : Somebody, live : BOOLEAN]],
        thread : [Threads -> [user : Somebody, lane : 0..MaxLanes]],
        request : [Threads -> [user : Somebody, lane : 0..MaxLanes, busy : BOOLEAN]],
        account : [Characters -> [user : Somebody, hash : {0, 1}]],
        link : SUBSET (Lanes \X Characters \X Users), auth : SUBSET (Lanes \X Users)]

DbTyped(d) ==
  /\ d \in Dbs /\ d.users \subseteq 1..d.issued
  /\ \A t \in Threads : d.thread[t].user <= d.issued
  /\ \A c \in Characters : d.account[c].user <= d.issued

\* A user who owns no character, and whose sessions are over: such a user gets
\* neither a session nor a character again.
Gone(d, u) ==
  /\ \A c \in Characters : d.account[c].user # u
  /\ \A l \in Lanes : d.session[l].user = u => ~d.session[l].live

\* What a lane holds of a user.
On(d, m, u) ==
  \/ d.session[m].user = u
  \/ \E t \in Threads : d.thread[t].user = u /\ d.thread[t].lane = m
  \/ \E k \in d.link : k[1] = m /\ k[3] = u

\* A lane holds something of one user, and of users who are gone.
OneLiving(d) ==
  \A m \in Lanes : \A u, w \in Users :
    On(d, m, u) /\ On(d, m, w) => u = w \/ Gone(d, u) \/ Gone(d, w)

LinksMatch(d) == \A k \in d.link : d.account[k[2]].user = k[3]

\* A request is where its conversation is, or on a lane that was given up.
Together(d) ==
  \A t \in Threads :
    LET m == d.request[t].lane
    IN d.request[t].user # Nobody /\ d.thread[t].lane # m =>
         /\ d.session[m].user = Nobody
         /\ \A s \in Threads : d.thread[s].lane # m
         /\ \A k \in d.link : k[1] # m

Related(d) == LinksMatch(d) /\ OneLiving(d) /\ Together(d)

\* What a transaction makes of the database d, and that it gives nothing to
\* those who are gone.
Becomes(d, e) ==
  /\ DbTyped(e) /\ Related(e) /\ d.issued <= e.issued
  /\ \A u \in Users : u <= d.issued /\ Gone(d, u) => Gone(e, u)

-----------------------------------------------------------------------------
(* The database, one statement or transaction at a time.                    *)

\* The fields of a database.
LEMMA Fields ==
  ASSUME NEW d, DbTyped(d)
  PROVE  /\ d.issued \in 0..MaxUsers /\ d.users \subseteq Users /\ d.lanes \subseteq Lanes
         /\ d.session \in [Lanes -> [user : Somebody, live : BOOLEAN]]
         /\ d.thread \in [Threads -> [user : Somebody, lane : 0..MaxLanes]]
         /\ d.request \in [Threads -> [user : Somebody, lane : 0..MaxLanes, busy : BOOLEAN]]
         /\ d.account \in [Characters -> [user : Somebody, hash : {0, 1}]]
         /\ d.link \subseteq Lanes \X Characters \X Users /\ d.auth \subseteq Lanes \X Users
         /\ d.users \subseteq 1..d.issued
         /\ \A t \in Threads : d.thread[t].user <= d.issued
         /\ \A c \in Characters : d.account[c].user <= d.issued
BY DEF DbTyped, Dbs

\* Nobody is no user, and no lane has number 0.
LEMMA Numbers == /\ Nobody \notin Users /\ Users \subseteq Nat /\ 0 \notin Lanes
                 /\ Lanes \subseteq 0..MaxLanes /\ Somebody \subseteq Nat
BY BoundsAssumption DEF Nobody, Users, Lanes, Somebody

\* A new guest, on a lane that held nothing.
LEMMA CreateDb ==
  ASSUME NEW d, DbTyped(d), ForeignKeysHold(d), Related(d), NEW n \in Lanes,
         d.issued + 1 \in Users, \A m \in d.lanes : m < n,
         NEW e, e = [d EXCEPT !.issued = d.issued + 1, !.users = @ \cup {d.issued + 1},
                              !.lanes = @ \cup {n},
                              !.session[n] = [user |-> d.issued + 1, live |-> TRUE]]
  PROVE  Becomes(d, e) /\ ForeignKeysHold(e)
<1> DEFINE u == d.issued + 1
<1>0. d.session \in [Lanes -> [user : Somebody, live : BOOLEAN]]
  BY Fields
<1>1. /\ e.issued = u /\ e.users = d.users \cup {u} /\ e.lanes = d.lanes \cup {n}
      /\ e.session = [d.session EXCEPT ![n] = [user |-> u, live |-> TRUE]]
      /\ e.thread = d.thread /\ e.request = d.request /\ e.account = d.account
      /\ e.link = d.link /\ e.auth = d.auth
  BY DEF DbTyped, Dbs
<1>2. DbTyped(e)
  <2>1. /\ u \in 0..MaxUsers /\ d.users \cup {u} \subseteq Users /\ d.lanes \cup {n} \subseteq Lanes
        /\ e.session \in [Lanes -> [user : Somebody, live : BOOLEAN]]
    BY <1>1, Fields, Numbers, BoundsAssumption DEF Users, Somebody
  <2>2. e \in Dbs
    BY <1>1, <2>1 DEF DbTyped, Dbs
  <2>3. /\ e.users \subseteq 1..e.issued /\ \A t \in Threads : e.thread[t].user <= e.issued
        /\ \A c \in Characters : e.account[c].user <= e.issued
    <3>1. d.issued \in Nat /\ e.issued = d.issued + 1
      BY <1>1, Fields
    <3>2. \A t \in Threads : d.thread[t].user \in Nat /\ d.thread[t].user <= d.issued
      BY Fields, Numbers
    <3>3. \A c \in Characters : d.account[c].user \in Nat /\ d.account[c].user <= d.issued
      BY Fields, Numbers
    <3> QED BY <1>1, <3>1, <3>2, <3>3, Fields
  <2> QED BY <2>2, <2>3 DEF DbTyped
<1> HIDE DEF u
<1>3. ForeignKeysHold(e)
  BY <1>1, <1>2, Fields DEF ForeignKeysHold
<1>4. ASSUME NEW w \in Users, w <= d.issued, Gone(d, w) PROVE Gone(e, w)
  BY <1>1, <1>2, <1>4, Fields DEF Gone, u
<1>5. ASSUME NEW m \in Lanes, NEW w \in Users, On(e, m, w)
      PROVE  (m # n /\ On(d, m, w)) \/ (m = n /\ w = u)
  <2>1. n \notin d.lanes
    BY Fields, Numbers
  <2>2. ~On(d, n, w)
    <3>1. d.session[n].user # w
      BY <2>1, Numbers DEF ForeignKeysHold
    <3>2. \A t \in Threads : ~(d.thread[t].user = w /\ d.thread[t].lane = n)
      BY <2>1, Numbers DEF ForeignKeysHold
    <3>3. \A k \in d.link : k[1] # n
      BY <2>1 DEF ForeignKeysHold
    <3> QED BY <3>1, <3>2, <3>3 DEF On
  <2>3. e.session = [d.session EXCEPT ![n] = [user |-> u, live |-> TRUE]]
    BY <1>1
  <2>4. CASE m = n
    <3>1. e.session[n] = [user |-> u, live |-> TRUE]
      BY <1>0, <2>3
    <3> QED BY <1>1, <1>5, <2>2, <2>4, <3>1 DEF On
  <2>5. CASE m # n
    <3>1. e.session[m] = d.session[m]
      BY <1>0, <2>3, <2>5
    <3> QED BY <1>1, <1>5, <2>5, <3>1 DEF On
  <2> QED BY <2>4, <2>5
<1>6. ASSUME NEW m \in Lanes, NEW w \in Users, On(d, m, w), Gone(d, w) PROVE Gone(e, w)
  <2>1. w <= d.issued
    BY <1>6, Fields, Numbers DEF On, ForeignKeysHold, Related, LinksMatch, Gone
  <2> QED BY <2>1, <1>4, <1>6
<1>7. OneLiving(e)
  BY <1>5, <1>6 DEF OneLiving, Related
<1>8. LinksMatch(e)
  BY <1>1 DEF Related, LinksMatch
<1>9. Together(e)
  BY <1>1, <1>2, Fields, Numbers DEF Related, Together, ForeignKeysHold
<1> QED
  BY <1>1, <1>2, <1>3, <1>4, <1>7, <1>8, <1>9, Fields DEF Becomes, Related, u

\* Who is gone stays gone, and no lane gets what it had nothing of.
LEMMA LessIsRelated ==
  ASSUME NEW d, NEW e, DbTyped(d), Related(d), DbTyped(e), LinksMatch(e), Together(e),
         e.issued = d.issued,
         \A u \in Users : Gone(d, u) => Gone(e, u),
         \A m \in Lanes : \A u \in Users : On(e, m, u) => On(d, m, u)
  PROVE  Becomes(d, e)
<1>1. d.issued <= e.issued
  BY Fields
<1> QED BY <1>1 DEF Becomes, Related, OneLiving

\* A session expires.
LEMMA ExpireDb ==
  ASSUME NEW d, DbTyped(d), ForeignKeysHold(d), Related(d), NEW l \in Lanes,
         NEW e, e = [d EXCEPT !.session[l].live = FALSE]
  PROVE  Becomes(d, e) /\ ForeignKeysHold(e)
<1>0. d.session \in [Lanes -> [user : Somebody, live : BOOLEAN]]
  BY Fields
<1>1. /\ e.issued = d.issued /\ e.users = d.users /\ e.lanes = d.lanes
      /\ e.thread = d.thread /\ e.request = d.request /\ e.account = d.account
      /\ e.link = d.link /\ e.auth = d.auth
  BY DEF DbTyped, Dbs
<1>2. e.session = [d.session EXCEPT ![l].live = FALSE]
  BY DEF DbTyped, Dbs
<1>3. \A m \in Lanes : /\ e.session[m].user = d.session[m].user
                       /\ e.session[m].live => d.session[m].live
  BY <1>0, <1>2
<1>4. DbTyped(e)
  <2>1. e.session \in [Lanes -> [user : Somebody, live : BOOLEAN]]
    <3>1. [d.session[l] EXCEPT !.live = FALSE] \in [user : Somebody, live : BOOLEAN]
      BY <1>0
    <3> QED BY <1>0, <1>2, <3>1
  <2> QED BY <1>1, <2>1 DEF DbTyped, Dbs
<1>5. ForeignKeysHold(e)
  BY <1>1, <1>3 DEF ForeignKeysHold
<1>6. LinksMatch(e)
  BY <1>1 DEF Related, LinksMatch
<1>7. Together(e)
  <2>1. \A t \in Threads : d.request[t].user # Nobody => d.request[t].lane \in Lanes
    BY Fields DEF ForeignKeysHold
  <2> QED BY <1>1, <1>3, <2>1 DEF Related, Together
<1>8. \A u \in Users : Gone(d, u) => Gone(e, u)
  BY <1>1, <1>3 DEF Gone
<1>9. \A m \in Lanes : \A u \in Users : On(e, m, u) => On(d, m, u)
  BY <1>1, <1>3 DEF On
<1> QED
  BY <1>1, <1>4, <1>5, <1>6, <1>7, <1>8, <1>9, LessIsRelated

\* A session is dropped, the lane stays.
LEMMA DropDb ==
  ASSUME NEW d, DbTyped(d), ForeignKeysHold(d), Related(d), NEW l \in Lanes,
         NEW e, e = [d EXCEPT !.session[l] = NoSession]
  PROVE  Becomes(d, e) /\ ForeignKeysHold(e)
<1>0. d.session \in [Lanes -> [user : Somebody, live : BOOLEAN]]
  BY Fields
<1>1. /\ e.issued = d.issued /\ e.users = d.users /\ e.lanes = d.lanes
      /\ e.thread = d.thread /\ e.request = d.request /\ e.account = d.account
      /\ e.link = d.link /\ e.auth = d.auth
  BY DEF DbTyped, Dbs
<1>2. e.session = [d.session EXCEPT ![l] = NoSession]
  BY DEF DbTyped, Dbs
<1>3. \A m \in Lanes : e.session[m] = d.session[m] \/ e.session[m] = [user |-> Nobody, live |-> FALSE]
  BY <1>0, <1>2 DEF NoSession
<1>4. DbTyped(e)
  <2>1. e.session \in [Lanes -> [user : Somebody, live : BOOLEAN]]
    BY <1>0, <1>2 DEF NoSession, Somebody
  <2> QED BY <1>1, <2>1 DEF DbTyped, Dbs
<1>5. ForeignKeysHold(e)
  BY <1>1, <1>3 DEF ForeignKeysHold
<1>6. LinksMatch(e)
  BY <1>1 DEF Related, LinksMatch
<1>7. Together(e)
  <2>1. \A t \in Threads : d.request[t].user # Nobody => d.request[t].lane \in Lanes
    BY Fields DEF ForeignKeysHold
  <2> QED BY <1>1, <1>3, <2>1 DEF Related, Together
<1>8. \A u \in Users : Gone(d, u) => Gone(e, u)
  BY <1>1, <1>3 DEF Gone
<1>9. \A m \in Lanes : \A u \in Users : On(e, m, u) => On(d, m, u)
  BY <1>1, <1>3, Numbers DEF On
<1> QED
  BY <1>1, <1>4, <1>5, <1>6, <1>7, <1>8, <1>9, LessIsRelated

\* A conversation begins, on the lane of a live session.
LEMMA TalkDb ==
  ASSUME NEW d, DbTyped(d), ForeignKeysHold(d), Related(d), NEW l \in Lanes, NEW t \in Threads,
         Live(d, l), d.thread[t] = NoRow,
         NEW e, e = [d EXCEPT !.thread[t] = [user |-> d.session[l].user, lane |-> l]]
  PROVE  Becomes(d, e) /\ ForeignKeysHold(e)
<1>0. /\ d.thread \in [Threads -> [user : Somebody, lane : 0..MaxLanes]]
      /\ d.session \in [Lanes -> [user : Somebody, live : BOOLEAN]]
  BY Fields
<1>1. /\ e.issued = d.issued /\ e.users = d.users /\ e.lanes = d.lanes
      /\ e.session = d.session /\ e.request = d.request /\ e.account = d.account
      /\ e.link = d.link /\ e.auth = d.auth
  BY DEF DbTyped, Dbs
<1>2. e.thread = [d.thread EXCEPT ![t] = [user |-> d.session[l].user, lane |-> l]]
  BY DEF DbTyped, Dbs
<1>3. e.thread[t] = [user |-> d.session[l].user, lane |-> l]
  BY <1>0, <1>2
<1>4. \A s \in Threads : s # t => e.thread[s] = d.thread[s]
  BY <1>0, <1>2
<1>5. /\ d.session[l].user \in d.users /\ l \in d.lanes /\ d.session[l].user # Nobody
      /\ d.session[l].user \in Users
  BY Fields DEF Live, ForeignKeysHold
<1>6. DbTyped(e)
  <2>1. e.thread \in [Threads -> [user : Somebody, lane : 0..MaxLanes]]
    BY <1>0, <1>2, <1>5, Numbers DEF Somebody
  <2>2. e \in Dbs
    BY <1>1, <2>1 DEF DbTyped, Dbs
  <2>3. d.session[l].user <= d.issued
    BY <1>5, Fields
  <2>4. \A s \in Threads : e.thread[s].user <= e.issued
    BY <1>1, <1>3, <1>4, <2>3, Fields
  <2> QED BY <1>1, <2>2, <2>4, Fields DEF DbTyped
<1>7. ForeignKeysHold(e)
  BY <1>1, <1>3, <1>4, <1>5 DEF ForeignKeysHold
<1>8. LinksMatch(e)
  BY <1>1 DEF Related, LinksMatch
<1>9. Together(e)
  <2>1. d.request[t].user = Nobody
    BY DEF ForeignKeysHold, NoRow
  <2> SUFFICES ASSUME NEW s \in Threads, e.request[s].user # Nobody,
                      e.thread[s].lane # e.request[s].lane
               PROVE  /\ e.session[e.request[s].lane].user = Nobody
                      /\ \A r \in Threads : e.thread[r].lane # e.request[s].lane
                      /\ \A k \in e.link : k[1] # e.request[s].lane
    BY DEF Together
  <2>2. s # t /\ e.thread[s] = d.thread[s]
    BY <1>1, <1>4, <2>1
  <2>3. /\ d.session[d.request[s].lane].user = Nobody
        /\ \A r \in Threads : d.thread[r].lane # d.request[s].lane
        /\ \A k \in d.link : k[1] # d.request[s].lane
    BY <1>1, <2>2 DEF Related, Together
  <2>4. l # d.request[s].lane
    BY <1>5, <2>3
  <2> QED BY <1>1, <1>3, <1>4, <2>3, <2>4
<1>10. \A u \in Users : Gone(d, u) => Gone(e, u)
  BY <1>1 DEF Gone
<1>11. \A m \in Lanes : \A u \in Users : On(e, m, u) => On(d, m, u)
  BY <1>1, <1>3, <1>4 DEF On
<1> QED
  BY <1>1, <1>6, <1>7, <1>8, <1>9, <1>10, <1>11, LessIsRelated

\* A request is written, or deleted.
LEMMA RequestDb ==
  ASSUME NEW d, DbTyped(d), ForeignKeysHold(d), Related(d), NEW t \in Threads,
         NEW r \in [user : Somebody, lane : 0..MaxLanes, busy : BOOLEAN],
         r.user # Nobody => /\ r.user \in d.users /\ r.lane \in d.lanes
                            /\ d.thread[t].user # Nobody /\ d.thread[t].lane = r.lane,
         NEW e, e = [d EXCEPT !.request[t] = r]
  PROVE  Becomes(d, e) /\ ForeignKeysHold(e)
<1>0. d.request \in [Threads -> [user : Somebody, lane : 0..MaxLanes, busy : BOOLEAN]]
  BY Fields
<1>1. /\ e.issued = d.issued /\ e.users = d.users /\ e.lanes = d.lanes
      /\ e.session = d.session /\ e.thread = d.thread /\ e.account = d.account
      /\ e.link = d.link /\ e.auth = d.auth
  BY DEF DbTyped, Dbs
<1>2. e.request = [d.request EXCEPT ![t] = r]
  BY DEF DbTyped, Dbs
<1>3. e.request[t] = r
  BY <1>0, <1>2
<1>4. \A s \in Threads : s # t => e.request[s] = d.request[s]
  BY <1>0, <1>2
<1>5. DbTyped(e)
  <2>1. e.request \in [Threads -> [user : Somebody, lane : 0..MaxLanes, busy : BOOLEAN]]
    BY <1>0, <1>2
  <2> QED BY <1>1, <2>1 DEF DbTyped, Dbs
<1>6. ForeignKeysHold(e)
  BY <1>1, <1>3, <1>4 DEF ForeignKeysHold
<1>7. LinksMatch(e)
  BY <1>1 DEF Related, LinksMatch
<1>8. Together(e)
  BY <1>1, <1>3, <1>4 DEF Related, Together
<1>9. \A u \in Users : Gone(d, u) => Gone(e, u)
  BY <1>1 DEF Gone
<1>10. \A m \in Lanes : \A u \in Users : On(e, m, u) => On(d, m, u)
  BY <1>1 DEF On
<1> QED
  BY <1>1, <1>5, <1>6, <1>7, <1>8, <1>9, <1>10, LessIsRelated

\* A request ends where it is.
LEMMA FinishDb ==
  ASSUME NEW d, DbTyped(d), ForeignKeysHold(d), Related(d), NEW t \in Threads,
         NEW e, e = [d EXCEPT !.request[t].busy = FALSE]
  PROVE  Becomes(d, e) /\ ForeignKeysHold(e)
<1>0. d.request \in [Threads -> [user : Somebody, lane : 0..MaxLanes, busy : BOOLEAN]]
  BY Fields
<1>1. /\ e.issued = d.issued /\ e.users = d.users /\ e.lanes = d.lanes
      /\ e.session = d.session /\ e.thread = d.thread /\ e.account = d.account
      /\ e.link = d.link /\ e.auth = d.auth
  BY DEF DbTyped, Dbs
<1>2. e.request = [d.request EXCEPT ![t].busy = FALSE]
  BY DEF DbTyped, Dbs
<1>3. \A s \in Threads : /\ e.request[s].user = d.request[s].user
                         /\ e.request[s].lane = d.request[s].lane
  BY <1>0, <1>2
<1>4. DbTyped(e)
  <2>1. [d.request[t] EXCEPT !.busy = FALSE] \in [user : Somebody, lane : 0..MaxLanes, busy : BOOLEAN]
    BY <1>0
  <2>2. e.request \in [Threads -> [user : Somebody, lane : 0..MaxLanes, busy : BOOLEAN]]
    BY <1>0, <1>2, <2>1
  <2> QED BY <1>1, <2>2 DEF DbTyped, Dbs
<1>5. ForeignKeysHold(e)
  BY <1>1, <1>3 DEF ForeignKeysHold
<1>6. LinksMatch(e)
  BY <1>1 DEF Related, LinksMatch
<1>7. Together(e)
  BY <1>1, <1>3 DEF Related, Together
<1>8. \A u \in Users : Gone(d, u) => Gone(e, u)
  BY <1>1 DEF Gone
<1>9. \A m \in Lanes : \A u \in Users : On(e, m, u) => On(d, m, u)
  BY <1>1 DEF On
<1> QED
  BY <1>1, <1>4, <1>5, <1>6, <1>7, <1>8, <1>9, LessIsRelated

\* The sign-ins' states come and go.
LEMMA AuthDb ==
  ASSUME NEW d, DbTyped(d), ForeignKeysHold(d), Related(d), NEW auth,
         auth \subseteq Lanes \X Users, \A a \in auth : a[2] \in d.users,
         NEW e, e = [d EXCEPT !.auth = auth]
  PROVE  Becomes(d, e) /\ ForeignKeysHold(e)
<1>1. /\ e.issued = d.issued /\ e.users = d.users /\ e.lanes = d.lanes
      /\ e.session = d.session /\ e.thread = d.thread /\ e.account = d.account
      /\ e.link = d.link /\ e.request = d.request /\ e.auth = auth
  BY DEF DbTyped, Dbs
<1>2. DbTyped(e)
  BY <1>1 DEF DbTyped, Dbs
<1>3. ForeignKeysHold(e)
  BY <1>1 DEF ForeignKeysHold
<1>4. LinksMatch(e) /\ Together(e)
  BY <1>1 DEF Related, LinksMatch, Together
<1>5. \A u \in Users : Gone(d, u) => Gone(e, u)
  BY <1>1 DEF Gone
<1>6. \A m \in Lanes : \A u \in Users : On(e, m, u) => On(d, m, u)
  BY <1>1 DEF On
<1> QED
  BY <1>1, <1>2, <1>3, <1>4, <1>5, <1>6, LessIsRelated

\* Links are deleted.
LEMMA UnlinkDb ==
  ASSUME NEW d, DbTyped(d), ForeignKeysHold(d), Related(d), NEW link \in SUBSET d.link,
         NEW e, e = [d EXCEPT !.link = link]
  PROVE  Becomes(d, e) /\ ForeignKeysHold(e)
<1>1. /\ e.issued = d.issued /\ e.users = d.users /\ e.lanes = d.lanes
      /\ e.session = d.session /\ e.thread = d.thread /\ e.account = d.account
      /\ e.link = link /\ e.request = d.request /\ e.auth = d.auth
  BY DEF DbTyped, Dbs
<1>2. DbTyped(e)
  <2>1. e.link \subseteq Lanes \X Characters \X Users
    BY <1>1, Fields
  <2> QED BY <1>1, <2>1 DEF DbTyped, Dbs
<1>3. ForeignKeysHold(e)
  BY <1>1 DEF ForeignKeysHold
<1>4. LinksMatch(e) /\ Together(e)
  BY <1>1 DEF Related, LinksMatch, Together
<1>5. \A u \in Users : Gone(d, u) => Gone(e, u)
  BY <1>1 DEF Gone
<1>6. \A m \in Lanes : \A u \in Users : On(e, m, u) => On(d, m, u)
  BY <1>1 DEF On
<1> QED
  BY <1>1, <1>2, <1>3, <1>4, <1>5, <1>6, LessIsRelated

\* The account of a character that nobody has a link to is deleted.
LEMMA DetachDb ==
  ASSUME NEW d, DbTyped(d), ForeignKeysHold(d), Related(d), NEW c \in Characters,
         \A k \in d.link : k[2] # c,
         NEW e, e = [d EXCEPT !.account[c] = NoAccount]
  PROVE  Becomes(d, e) /\ ForeignKeysHold(e)
<1>0. d.account \in [Characters -> [user : Somebody, hash : {0, 1}]]
  BY Fields
<1>1. /\ e.issued = d.issued /\ e.users = d.users /\ e.lanes = d.lanes
      /\ e.session = d.session /\ e.thread = d.thread /\ e.request = d.request
      /\ e.link = d.link /\ e.auth = d.auth
  BY DEF DbTyped, Dbs
<1>2. e.account = [d.account EXCEPT ![c] = NoAccount]
  BY DEF DbTyped, Dbs
<1>3. e.account[c].user = Nobody
  BY <1>0, <1>2 DEF NoAccount
<1>4. \A b \in Characters : b # c => e.account[b] = d.account[b]
  BY <1>0, <1>2
<1>5. DbTyped(e)
  <2>1. NoAccount \in [user : Somebody, hash : {0, 1}]
    BY DEF NoAccount, Somebody
  <2>2. e.account \in [Characters -> [user : Somebody, hash : {0, 1}]]
    BY <1>0, <1>2, <2>1
  <2>3. \A b \in Characters : e.account[b].user <= e.issued
    BY <1>1, <1>3, <1>4, Fields DEF Nobody
  <2> QED BY <1>1, <2>2, <2>3 DEF DbTyped, Dbs
<1>6. \A k \in d.link : k[2] \in Characters /\ k[2] # c
  BY Fields
<1>7. ForeignKeysHold(e)
  BY <1>1, <1>4, <1>6 DEF ForeignKeysHold
<1>8. LinksMatch(e) /\ Together(e)
  BY <1>1, <1>4, <1>6 DEF Related, LinksMatch, Together
<1>9. \A u \in Users : Gone(d, u) => Gone(e, u)
  BY <1>1, <1>3, <1>4, Numbers DEF Gone
<1>10. \A m \in Lanes : \A u \in Users : On(e, m, u) => On(d, m, u)
  BY <1>1 DEF On
<1> QED
  BY <1>1, <1>5, <1>7, <1>8, <1>9, <1>10, LessIsRelated

-----------------------------------------------------------------------------
(* A purge.                                                                 *)

\* The lane is gone with the guest's conversations on it.
WithoutLane(d, l, u) ==
  LET gone == {t \in Threads : d.thread[t] = [user |-> u, lane |-> l]}
  IN [d EXCEPT !.thread  = [t \in Threads |-> IF t \in gone THEN NoRow ELSE @[t]],
               !.request = [t \in Threads |-> IF t \in gone THEN NoRequest ELSE @[t]],
               !.link = {k \in @ : k[1] # l}, !.auth = {a \in @ : a[1] # l},
               !.session[l] = NoSession, !.lanes = @ \ {l}]

\* And so is the guest.
WithoutGuest(d, u) ==
  [d EXCEPT !.auth = AuthLeft(@, u), !.link = {k \in @ : k[3] # u},
            !.account = [c \in Characters |-> IF @[c].user = u THEN NoAccount ELSE @[c]],
            !.users = @ \ {u}]

\* A purge is the one, or both.
LEMMA PurgedIs ==
  ASSUME NEW d, NEW l, NEW u
  PROVE  Purged(d, l, u) = IF HasOtherIdentity(WithoutLane(d, l, u), u) THEN WithoutLane(d, l, u)
                           ELSE WithoutGuest(WithoutLane(d, l, u), u)
BY DEF Purged, WithoutLane, WithoutGuest

\* The tables without the lane, and without the guest.
LEMMA WithoutLaneFields ==
  ASSUME NEW d, DbTyped(d), NEW l \in Lanes, NEW u \in Users, NEW e, e = WithoutLane(d, l, u)
  PROVE  /\ e.issued = d.issued /\ e.users = d.users /\ e.account = d.account
         /\ e.lanes = d.lanes \ {l} /\ e.link = {k \in d.link : k[1] # l}
         /\ e.auth = {a \in d.auth : a[1] # l}
         /\ \A m \in Lanes : e.session[m] = IF m = l THEN NoSession ELSE d.session[m]
         /\ \A t \in Threads :
              /\ e.thread[t] = IF d.thread[t] = [user |-> u, lane |-> l] THEN NoRow ELSE d.thread[t]
              /\ e.request[t] = IF d.thread[t] = [user |-> u, lane |-> l] THEN NoRequest
                                ELSE d.request[t]
         /\ e \in Dbs
<1> DEFINE gone == {t \in Threads : d.thread[t] = [user |-> u, lane |-> l]}
<1>1. e = [d EXCEPT !.thread  = [t \in Threads |-> IF t \in gone THEN NoRow ELSE @[t]],
               !.request = [t \in Threads |-> IF t \in gone THEN NoRequest ELSE @[t]],
               !.link = {k \in @ : k[1] # l}, !.auth = {a \in @ : a[1] # l},
               !.session[l] = NoSession, !.lanes = @ \ {l}]
  BY DEF WithoutLane
<1>2. \A t \in Threads : t \in gone <=> d.thread[t] = [user |-> u, lane |-> l]
  OBVIOUS
<1> HIDE DEF gone
<1>3. /\ e.issued = d.issued /\ e.users = d.users /\ e.account = d.account
      /\ e.lanes = d.lanes \ {l} /\ e.link = {k \in d.link : k[1] # l}
      /\ e.auth = {a \in d.auth : a[1] # l}
  BY <1>1 DEF DbTyped, Dbs
<1>4. e.session = [d.session EXCEPT ![l] = NoSession]
  BY <1>1 DEF DbTyped, Dbs
<1>5. e.thread = [t \in Threads |-> IF t \in gone THEN NoRow ELSE d.thread[t]]
  BY <1>1 DEF DbTyped, Dbs
<1>6. e.request = [t \in Threads |-> IF t \in gone THEN NoRequest ELSE d.request[t]]
  BY <1>1 DEF DbTyped, Dbs
<1>7. \A m \in Lanes : e.session[m] = IF m = l THEN NoSession ELSE d.session[m]
  <2>1. d.session \in [Lanes -> [user : Somebody, live : BOOLEAN]]
    BY Fields
  <2> QED BY <1>4, <2>1
<1>8. e \in Dbs
  <2>1. /\ NoSession \in [user : Somebody, live : BOOLEAN]
        /\ NoRow \in [user : Somebody, lane : 0..MaxLanes]
        /\ NoRequest \in [user : Somebody, lane : 0..MaxLanes, busy : BOOLEAN]
    BY BoundsAssumption DEF NoSession, NoRow, NoRequest, Somebody
  <2>2. /\ d.session \in [Lanes -> [user : Somebody, live : BOOLEAN]]
        /\ d.thread \in [Threads -> [user : Somebody, lane : 0..MaxLanes]]
        /\ d.request \in [Threads -> [user : Somebody, lane : 0..MaxLanes, busy : BOOLEAN]]
    BY Fields
  <2>3. e.session \in [Lanes -> [user : Somebody, live : BOOLEAN]]
    BY <1>4, <2>1, <2>2
  <2>4. e.thread \in [Threads -> [user : Somebody, lane : 0..MaxLanes]]
    BY <1>5, <2>1, <2>2
  <2>5. e.request \in [Threads -> [user : Somebody, lane : 0..MaxLanes, busy : BOOLEAN]]
    BY <1>6, <2>1, <2>2
  <2>6. /\ e.lanes \subseteq Lanes /\ e.link \subseteq Lanes \X Characters \X Users
        /\ e.auth \subseteq Lanes \X Users
    BY <1>3, Fields
  <2> QED BY <1>1, <1>3, <2>3, <2>4, <2>5, <2>6 DEF DbTyped, Dbs
<1> QED
  BY <1>2, <1>3, <1>5, <1>6, <1>7, <1>8

\* The lane's conversations go with their requests and links.
LEMMA WithoutLaneDb ==
  ASSUME NEW d, DbTyped(d), ForeignKeysHold(d), Related(d), NEW l \in Lanes, NEW u \in Users,
         NEW e, e = WithoutLane(d, l, u)
  PROVE  Becomes(d, e)
<1>1. /\ e.issued = d.issued /\ e.users = d.users /\ e.account = d.account
      /\ e.lanes = d.lanes \ {l} /\ e.link = {k \in d.link : k[1] # l}
      /\ \A m \in Lanes : e.session[m] = IF m = l THEN NoSession ELSE d.session[m]
      /\ \A t \in Threads :
           /\ e.thread[t] = IF d.thread[t] = [user |-> u, lane |-> l] THEN NoRow ELSE d.thread[t]
           /\ e.request[t] = IF d.thread[t] = [user |-> u, lane |-> l] THEN NoRequest
                             ELSE d.request[t]
      /\ e \in Dbs
  BY WithoutLaneFields
<1>2. \A t \in Threads : \/ e.thread[t] = d.thread[t] /\ e.request[t] = d.request[t]
                         \/ /\ e.thread[t].user = Nobody /\ e.thread[t].lane = 0
                            /\ e.request[t].user = Nobody
  BY <1>1 DEF NoRow, NoRequest
<1>3. \A m \in Lanes : \/ e.session[m] = d.session[m]
                       \/ e.session[m].user = Nobody
  BY <1>1 DEF NoSession
<1>4. DbTyped(e)
  <2>1. d.issued \in Nat
    BY Fields
  <2> QED BY <1>1, <1>2, <2>1, Fields DEF DbTyped, Nobody
<1>5. LinksMatch(e)
  BY <1>1 DEF Related, LinksMatch
<1>6. Together(e)
  <2>1. \A t \in Threads : d.request[t].user # Nobody => d.request[t].lane \in Lanes
    BY Fields DEF ForeignKeysHold
  <2> SUFFICES ASSUME NEW t \in Threads, e.request[t].user # Nobody,
                      e.thread[t].lane # e.request[t].lane
               PROVE  /\ e.session[e.request[t].lane].user = Nobody
                      /\ \A r \in Threads : e.thread[r].lane # e.request[t].lane
                      /\ \A k \in e.link : k[1] # e.request[t].lane
    BY DEF Together
  <2>2. e.thread[t] = d.thread[t] /\ e.request[t] = d.request[t]
    BY <1>2
  <2>3. /\ d.session[d.request[t].lane].user = Nobody
        /\ \A r \in Threads : d.thread[r].lane # d.request[t].lane
        /\ \A k \in d.link : k[1] # d.request[t].lane
    BY <2>2 DEF Related, Together
  <2>4. e.request[t].lane \in Lanes /\ e.request[t].lane # 0
    BY <2>1, <2>2, Numbers
  <2> QED BY <1>1, <1>2, <1>3, <2>2, <2>3, <2>4
<1>7. \A w \in Users : Gone(d, w) => Gone(e, w)
  BY <1>1, <1>3, Numbers DEF Gone
<1>8. \A m \in Lanes : \A w \in Users : On(e, m, w) => On(d, m, w)
  BY <1>1, <1>2, <1>3, Numbers DEF On
<1> QED
  BY <1>1, <1>4, <1>5, <1>6, <1>7, <1>8, LessIsRelated

\* What is left of the database when a guest's rows are deleted, table by table.
LEMMA WithoutGuestFields ==
  ASSUME NEW d, d \in Dbs, NEW u \in Users, NEW e, e = WithoutGuest(d, u)
  PROVE  /\ e.issued = d.issued /\ e.users = d.users \ {u} /\ e.lanes = d.lanes
         /\ e.session = d.session /\ e.thread = d.thread /\ e.request = d.request
         /\ e.link = {k \in d.link : k[3] # u} /\ e.auth = {a \in d.auth : a[2] # u}
         /\ \A c \in Characters :
              e.account[c] = IF d.account[c].user = u THEN NoAccount ELSE d.account[c]
         /\ e \in Dbs
<1>1. e = [d EXCEPT !.auth = {a \in @ : a[2] # u}, !.link = {k \in @ : k[3] # u},
            !.account = [c \in Characters |-> IF @[c].user = u THEN NoAccount ELSE @[c]],
            !.users = @ \ {u}]
  BY DEF WithoutGuest, AuthLeft
<1>2. /\ e.issued = d.issued /\ e.users = d.users \ {u} /\ e.lanes = d.lanes
      /\ e.session = d.session /\ e.thread = d.thread /\ e.request = d.request
      /\ e.link = {k \in d.link : k[3] # u} /\ e.auth = {a \in d.auth : a[2] # u}
  BY <1>1 DEF Dbs
<1>3. e.account = [c \in Characters |-> IF d.account[c].user = u THEN NoAccount ELSE d.account[c]]
  BY <1>1 DEF Dbs
<1>4. NoAccount \in [user : Somebody, hash : {0, 1}]
  BY DEF NoAccount, Somebody
<1>5. d.account \in [Characters -> [user : Somebody, hash : {0, 1}]]
  BY DEF Dbs
<1>6. e.account \in [Characters -> [user : Somebody, hash : {0, 1}]]
  BY <1>3, <1>4, <1>5
<1>7. e \in Dbs
  BY <1>1, <1>2, <1>6 DEF Dbs
<1> QED
  BY <1>2, <1>3, <1>7

\* A guest who is deleted leaves no link and no account.
LEMMA WithoutGuestDb ==
  ASSUME NEW d, DbTyped(d), Related(d), NEW u \in Users, NEW e, e = WithoutGuest(d, u)
  PROVE  Becomes(d, e)
<1>1. /\ e.issued = d.issued /\ e.users = d.users \ {u} /\ e.lanes = d.lanes
      /\ e.session = d.session /\ e.thread = d.thread /\ e.request = d.request
      /\ e.link = {k \in d.link : k[3] # u}
      /\ \A c \in Characters :
           e.account[c] = IF d.account[c].user = u THEN NoAccount ELSE d.account[c]
      /\ e \in Dbs
  BY WithoutGuestFields DEF DbTyped
<1>2. \A c \in Characters : \/ e.account[c] = d.account[c]
                            \/ e.account[c].user = Nobody /\ d.account[c].user = u
  BY <1>1 DEF NoAccount
<1>3. DbTyped(e)
  <2>1. \A c \in Characters : e.account[c].user <= e.issued
    BY <1>1, <1>2, Fields DEF Nobody
  <2> QED BY <1>1, <2>1 DEF DbTyped
<1>4. LinksMatch(e)
  <2>1. \A k \in d.link : k[2] \in Characters
    BY Fields
  <2> QED BY <1>1, <1>2, <2>1 DEF Related, LinksMatch
<1>5. Together(e)
  BY <1>1 DEF Related, Together
<1>6. \A w \in Users : Gone(d, w) => Gone(e, w)
  BY <1>1, <1>2, Numbers DEF Gone
<1>7. \A m \in Lanes : \A w \in Users : On(e, m, w) => On(d, m, w)
  BY <1>1 DEF On
<1> QED
  BY <1>1, <1>3, <1>4, <1>5, <1>6, <1>7, LessIsRelated

\* A purge touches the conversations of its guest only.
LEMMA PurgedDb ==
  ASSUME NEW d, DbTyped(d), ForeignKeysHold(d), Related(d), NEW l \in Lanes, NEW u \in Users
  PROVE  /\ Becomes(d, Purged(d, l, u))
         /\ \A t \in Threads : \/ Purged(d, l, u).thread[t] = d.thread[t]
                               \/ d.thread[t].user = u
<1>0. PICK e : e = WithoutLane(d, l, u)
  OBVIOUS
<1>1. Becomes(d, e)
  BY <1>0, WithoutLaneDb
<1>2. \A t \in Threads : \/ e.thread[t] = d.thread[t]
                         \/ d.thread[t] = [user |-> u, lane |-> l]
  BY <1>0, WithoutLaneFields
<1>3. PICK f : f = WithoutGuest(e, u)
  OBVIOUS
<1>4. DbTyped(e) /\ Related(e) /\ e \in Dbs
  BY <1>1 DEF Becomes, DbTyped
<1>5. Becomes(e, f)
  BY <1>3, <1>4, WithoutGuestDb
<1>6. f.thread = e.thread
  BY <1>3, <1>4, WithoutGuestFields
<1>7. Becomes(d, f)
  <2>1. d.issued \in Nat /\ e.issued \in Nat /\ f.issued \in Nat
    BY <1>1, <1>5, Fields DEF Becomes
  <2> QED BY <1>1, <1>5, <2>1, Numbers DEF Becomes
<1>8. Purged(d, l, u) \in {e, f}
  BY <1>0, <1>3, PurgedIs
<1> QED
  BY <1>1, <1>2, <1>6, <1>7, <1>8

\* The purge of a guest who is alone on the lane breaks no foreign key.
LEMMA PurgeKeepsKeys ==
  ASSUME NEW d, DbTyped(d), ForeignKeysHold(d), Related(d), NEW l \in Lanes, NEW u \in Users,
         u = d.session[l].user, ~Owns(d, u),
         \A t \in Threads : d.thread[t].lane = l => d.thread[t].user = u
  PROVE  ForeignKeysHold(Purged(d, l, u))
<1>0. PICK e : e = WithoutLane(d, l, u)
  OBVIOUS
<1>1. /\ e.issued = d.issued /\ e.users = d.users /\ e.account = d.account
      /\ e.lanes = d.lanes \ {l} /\ e.link = {k \in d.link : k[1] # l}
      /\ e.auth = {a \in d.auth : a[1] # l}
      /\ \A m \in Lanes : e.session[m] = IF m = l THEN NoSession ELSE d.session[m]
      /\ \A t \in Threads :
           /\ e.thread[t] = IF d.thread[t] = [user |-> u, lane |-> l] THEN NoRow ELSE d.thread[t]
           /\ e.request[t] = IF d.thread[t] = [user |-> u, lane |-> l] THEN NoRequest
                             ELSE d.request[t]
      /\ e \in Dbs
  BY <1>0, WithoutLaneFields
<1>2. ASSUME NEW t \in Threads
      PROVE  \/ /\ e.thread[t] = d.thread[t] /\ e.request[t] = d.request[t]
                /\ d.thread[t].lane # l
             \/ e.thread[t].user = Nobody /\ e.request[t].user = Nobody
  <2>1. CASE d.thread[t] = [user |-> u, lane |-> l]
    BY <1>1, <2>1 DEF NoRow, NoRequest
  <2>2. CASE d.thread[t] # [user |-> u, lane |-> l]
    <3>1. d.thread \in [Threads -> [user : Somebody, lane : 0..MaxLanes]]
      BY Fields
    <3>2. d.thread[t] \in [user : Somebody, lane : 0..MaxLanes]
      BY <3>1
    <3>3. d.thread[t].lane # l
      BY <2>2, <3>2
    <3> QED BY <1>1, <2>2, <3>3
  <2> QED BY <2>1, <2>2
<1>3. ASSUME NEW t \in Threads, e.request[t].user # Nobody
      PROVE  e.request[t].lane # l /\ e.request[t].lane \in d.lanes
  <2>1. e.request[t] = d.request[t] /\ d.thread[t].lane # l
    BY <1>2, <1>3
  <2>2. d.request[t].lane # d.thread[t].lane => d.session[d.request[t].lane].user = Nobody
    BY <1>3, <2>1 DEF Related, Together
  <2>3. d.request[t].lane # l
    BY <2>1, <2>2, Numbers
  <2> QED BY <1>3, <2>1, <2>3 DEF ForeignKeysHold
<1>4. ForeignKeysHold(e)
  <2>1. \A m \in Lanes : e.session[m].user # Nobody => m \in e.lanes /\ e.session[m].user \in e.users
    BY <1>1 DEF ForeignKeysHold, NoSession
  <2>2. \A t \in Threads : e.thread[t].user # Nobody => e.thread[t].lane \in e.lanes
    BY <1>1, <1>2 DEF ForeignKeysHold
  <2>3. \A t \in Threads : e.request[t].user # Nobody =>
            e.request[t].user \in e.users /\ e.request[t].lane \in e.lanes /\ e.thread[t].user # Nobody
    BY <1>1, <1>2, <1>3 DEF ForeignKeysHold
  <2>4. \A k \in e.link : k[1] \in e.lanes /\ e.account[k[2]].user # Nobody
    BY <1>1 DEF ForeignKeysHold
  <2>5. \A a \in e.auth : a[2] \in e.users
    BY <1>1 DEF ForeignKeysHold
  <2> QED BY <2>1, <2>2, <2>3, <2>4, <2>5 DEF ForeignKeysHold
<1>5. ASSUME ~HasOtherIdentity(e, u), NEW f, f = WithoutGuest(e, u)
      PROVE  ForeignKeysHold(f)
  <2>1. /\ f.issued = e.issued /\ f.users = e.users \ {u} /\ f.lanes = e.lanes
        /\ f.session = e.session /\ f.thread = e.thread /\ f.request = e.request
        /\ f.link = {k \in e.link : k[3] # u} /\ f.auth = {a \in e.auth : a[2] # u}
        /\ \A c \in Characters :
             f.account[c] = IF e.account[c].user = u THEN NoAccount ELSE e.account[c]
    BY <1>1, <1>5, WithoutGuestFields
  <2>2. /\ \A m \in Lanes : e.session[m].user # u
        /\ \A t \in Threads : e.request[t].user # u
    BY <1>5 DEF HasOtherIdentity
  <2>3. \A k \in f.link : f.account[k[2]].user # Nobody
    <3>1. \A k \in f.link : k \in e.link /\ k[2] \in Characters
      BY <1>1, <2>1, Fields
    <3>2. \A c \in Characters : e.account[c].user # u
      BY <1>1 DEF Owns
    <3> QED BY <1>4, <2>1, <3>1, <3>2 DEF ForeignKeysHold
  <2> QED BY <1>4, <2>1, <2>2, <2>3 DEF ForeignKeysHold
<1> QED
  BY <1>0, <1>4, <1>5, PurgedIs

-----------------------------------------------------------------------------
(* What a sign-in writes.                                                   *)

\* The requests q become r: those of the moving threads are moved as a whole or
\* stay, and only one that has ended is deleted.
MovedWhole(q, r, moving, to, l) ==
  /\ r \in [Threads -> [user : Somebody, lane : 0..MaxLanes, busy : BOOLEAN]]
  /\ \A t \in Threads :
       \/ r[t] = q[t] /\ t \notin moving
       \/ r[t] = q[t] /\ t \in moving /\ q[t].busy
       \/ /\ t \in moving /\ ~q[t].busy
          /\ r[t] = [user |-> Nobody, lane |-> 0, busy |-> FALSE]
       \/ /\ t \in moving /\ r[t].user = to[t] /\ r[t].lane = l
          /\ r[t].busy = q[t].busy

\* A request is moved with its conversation, or left on the lane.
LEMMA MovedIs ==
  ASSUME NEW d, DbTyped(d), NEW moving, NEW blocked, NEW to \in [Threads -> Somebody],
         NEW l \in Lanes
  PROVE  MovedWhole(d.request, Moved(d, moving, blocked, to, l), moving, to, l)
<1>0. PICK q : q = Moved(d, moving, blocked, to, l)
  OBVIOUS
<1>1. d.request \in [Threads -> [user : Somebody, lane : 0..MaxLanes, busy : BOOLEAN]]
  BY Fields
<1>2. q = [t \in Threads |->
             IF t \notin moving THEN d.request[t]
             ELSE IF t \in blocked THEN LeftBehind(d.request[t])
             ELSE [d.request[t] EXCEPT !.user = to[t], !.lane = l]]
  BY <1>0 DEF Moved
<1>3. ASSUME NEW t \in Threads
      PROVE  /\ q[t] \in [user : Somebody, lane : 0..MaxLanes, busy : BOOLEAN]
             /\ \/ q[t] = d.request[t] /\ t \notin moving
                \/ q[t] = d.request[t] /\ t \in moving /\ d.request[t].busy
                \/ /\ t \in moving /\ ~d.request[t].busy
                   /\ q[t] = [user |-> Nobody, lane |-> 0, busy |-> FALSE]
                \/ /\ t \in moving /\ q[t].user = to[t] /\ q[t].lane = l
                   /\ q[t].busy = d.request[t].busy
  <2>1. d.request[t] \in [user : Somebody, lane : 0..MaxLanes, busy : BOOLEAN]
    BY <1>1
  <2>2. CASE t \notin moving
    BY <1>2, <2>1, <2>2
  <2>3. CASE t \in moving /\ t \in blocked
    <3>1. q[t] = IF d.request[t].busy THEN d.request[t] ELSE [user |-> Nobody, lane |-> 0, busy |-> FALSE]
      BY <1>2, <2>3 DEF LeftBehind, NoRequest
    <3>2. [user |-> Nobody, lane |-> 0, busy |-> FALSE] \in [user : Somebody, lane : 0..MaxLanes, busy : BOOLEAN]
      BY BoundsAssumption DEF Somebody
    <3> QED BY <2>1, <2>3, <3>1, <3>2
  <2>4. CASE t \in moving /\ t \notin blocked
    <3>1. q[t] = [d.request[t] EXCEPT !.user = to[t], !.lane = l]
      BY <1>2, <2>4
    <3> QED BY <2>1, <2>4, <3>1, Numbers
  <2> QED BY <2>2, <2>3, <2>4
<1> QED
  BY <1>0, <1>2, <1>3 DEF MovedWhole

\* Adopting turns the database d into a: it empties the orphaned lanes.
AdoptsLanes(d, a, orphans, l) ==
  /\ a \in Dbs /\ a.issued = d.issued /\ a.users = d.users /\ a.account = d.account
  /\ \A m \in Lanes : a.session[m] = IF m \in orphans THEN NoSession ELSE d.session[m]
  /\ \A t \in Threads :
       /\ a.thread[t].user = d.thread[t].user
       /\ a.thread[t].lane = IF d.thread[t].lane \in orphans THEN l ELSE d.thread[t].lane
       /\ d.thread[t].lane \notin orphans => a.thread[t] = d.thread[t]
  /\ \A t \in Threads :
       LET moving == d.request[t].user # Nobody /\ d.request[t].lane \in orphans
       IN \/ a.request[t] = d.request[t] /\ ~moving
          \/ a.request[t] = d.request[t] /\ moving /\ d.request[t].busy
          \/ /\ moving /\ ~d.request[t].busy
             /\ a.request[t] = [user |-> Nobody, lane |-> 0, busy |-> FALSE]
          \/ /\ moving /\ a.request[t].user = d.request[t].user
             /\ a.request[t].lane = l /\ a.request[t].busy = d.request[t].busy
  /\ \A k \in a.link :
       \/ k \in d.link /\ k[1] \notin orphans
       \/ k[1] = l /\ \E j \in d.link : j[1] \in orphans /\ j[2] = k[2] /\ j[3] = k[3]

\* What the adoption of the orphaned lanes makes of the tables.
LEMMA AdoptedFields ==
  ASSUME NEW d, DbTyped(d), NEW orphans \in SUBSET Lanes, NEW l \in Lanes,
         NEW a, a = Adopted(d, orphans, l)
  PROVE  AdoptsLanes(d, a, orphans, l)
<1> DEFINE moving == {t \in Threads : d.request[t].user # Nobody /\ d.request[t].lane \in orphans}
           same == [t \in Threads |-> d.request[t].user]
           taken == {t \in moving :
                       \/ SameKey(d, t, same[t], l)
                       \/ \E m \in orphans : m > d.request[t].lane /\ SameKey(d, t, same[t], m)}
           requests == Moved(d, moving, taken, same, l)
           kept == {m \in orphans : \E t \in Threads : requests[t].user # Nobody /\ requests[t].lane = m}
           links == {k \in d.link : k[1] \notin orphans} \cup
                    {<<l, k[2], k[3]>> : k \in {j \in d.link : /\ j[1] \in orphans
                                                            /\ \A i \in d.link : <<i[1], i[2]>> # <<l, j[2]>>}}
<1>1. a = [d EXCEPT !.session = [m \in Lanes |-> IF m \in orphans THEN NoSession ELSE @[m]],
               !.thread  = [t \in Threads |-> IF @[t].lane \in orphans THEN [@[t] EXCEPT !.lane = l] ELSE @[t]],
               !.request = requests,
               !.link = links,
               !.auth = {x \in @ : x[1] \notin orphans},
               !.lanes = @ \ (orphans \ kept)]
  BY DEF Adopted
<1>2. /\ d.session \in [Lanes -> [user : Somebody, live : BOOLEAN]]
      /\ d.thread \in [Threads -> [user : Somebody, lane : 0..MaxLanes]]
      /\ d.request \in [Threads -> [user : Somebody, lane : 0..MaxLanes, busy : BOOLEAN]]
      /\ d.link \subseteq Lanes \X Characters \X Users
      /\ d.lanes \subseteq Lanes /\ d.auth \subseteq Lanes \X Users
  BY Fields
<1>3. same \in [Threads -> Somebody] /\ \A t \in Threads : same[t] = d.request[t].user
  BY <1>2
<1>4. \A t \in Threads : t \in moving <=> d.request[t].user # Nobody /\ d.request[t].lane \in orphans
  OBVIOUS
<1>5. \A k \in links :
        \/ k \in d.link /\ k[1] \notin orphans
        \/ k[1] = l /\ \E j \in d.link : j[1] \in orphans /\ j[2] = k[2] /\ j[3] = k[3]
  OBVIOUS
<1>6. links \subseteq Lanes \X Characters \X Users
  BY <1>2
<1> HIDE DEF moving, same, taken, kept, links
<1>7. requests = Moved(d, moving, taken, same, l)
  OBVIOUS
<1> HIDE DEF requests
<1>8. MovedWhole(d.request, requests, moving, same, l)
  BY <1>3, <1>7, MovedIs
<1>9. /\ a.issued = d.issued /\ a.users = d.users /\ a.account = d.account
      /\ a.request = requests /\ a.link = links
      /\ a.auth = {x \in d.auth : x[1] \notin orphans} /\ a.lanes = d.lanes \ (orphans \ kept)
  BY <1>1 DEF DbTyped, Dbs
<1>10. a.session = [m \in Lanes |-> IF m \in orphans THEN NoSession ELSE d.session[m]]
  BY <1>1 DEF DbTyped, Dbs
<1>11. a.thread = [t \in Threads |-> IF d.thread[t].lane \in orphans
                                     THEN [d.thread[t] EXCEPT !.lane = l] ELSE d.thread[t]]
  BY <1>1 DEF DbTyped, Dbs
<1>12. a.session \in [Lanes -> [user : Somebody, live : BOOLEAN]]
  <2>1. NoSession \in [user : Somebody, live : BOOLEAN]
    BY DEF NoSession, Somebody
  <2> QED BY <1>2, <1>10, <2>1
<1>13. ASSUME NEW t \in Threads
       PROVE  /\ a.thread[t] \in [user : Somebody, lane : 0..MaxLanes]
              /\ a.thread[t].user = d.thread[t].user
              /\ a.thread[t].lane = IF d.thread[t].lane \in orphans THEN l ELSE d.thread[t].lane
              /\ d.thread[t].lane \notin orphans => a.thread[t] = d.thread[t]
  <2>1. d.thread[t] \in [user : Somebody, lane : 0..MaxLanes]
    BY <1>2
  <2>2. CASE d.thread[t].lane \in orphans
    <3>1. a.thread[t] = [d.thread[t] EXCEPT !.lane = l]
      BY <1>11, <2>2
    <3> QED BY <2>1, <2>2, <3>1, Numbers
  <2>3. CASE d.thread[t].lane \notin orphans
    BY <1>11, <2>1, <2>3
  <2> QED BY <2>2, <2>3
<1>14. a.thread \in [Threads -> [user : Somebody, lane : 0..MaxLanes]]
  BY <1>11, <1>13
<1>15. a \in Dbs
  <2>1. a.auth \subseteq Lanes \X Users /\ a.lanes \subseteq Lanes
    BY <1>2, <1>9
  <2> QED BY <1>1, <1>6, <1>8, <1>9, <1>12, <1>14, <2>1 DEF DbTyped, Dbs, MovedWhole
<1>16. ASSUME NEW t \in Threads
       PROVE  LET moves == d.request[t].user # Nobody /\ d.request[t].lane \in orphans
              IN \/ a.request[t] = d.request[t] /\ ~moves
                 \/ a.request[t] = d.request[t] /\ moves /\ d.request[t].busy
                 \/ /\ moves /\ ~d.request[t].busy
                    /\ a.request[t] = [user |-> Nobody, lane |-> 0, busy |-> FALSE]
                 \/ /\ moves /\ a.request[t].user = d.request[t].user
                    /\ a.request[t].lane = l /\ a.request[t].busy = d.request[t].busy
  BY <1>3, <1>4, <1>8, <1>9 DEF MovedWhole
<1>17. \A m \in Lanes : a.session[m] = IF m \in orphans THEN NoSession ELSE d.session[m]
  BY <1>10
<1>18. \A k \in a.link :
         \/ k \in d.link /\ k[1] \notin orphans
         \/ k[1] = l /\ \E j \in d.link : j[1] \in orphans /\ j[2] = k[2] /\ j[3] = k[3]
  BY <1>5, <1>9
<1>19. a.issued = d.issued /\ a.users = d.users /\ a.account = d.account
  BY <1>9
<1> QED
  BY <1>13, <1>15, <1>16, <1>17, <1>18, <1>19 DEF AdoptsLanes

\* Merging turns the database a into b: the heir gets what the guest has on the
\* lane, and its characters.
MergesGuest(a, b, guest, heir, l) ==
  /\ b \in Dbs /\ b.issued = a.issued /\ b.users \subseteq a.users
  /\ b.session[l].user = heir /\ b.session[l].live = a.session[l].live
  /\ \A m \in Lanes : m # l => b.session[m] = a.session[m]
  /\ \A t \in Threads :
       /\ b.thread[t].lane = a.thread[t].lane
       /\ b.thread[t].user = IF a.thread[t].user = guest /\ a.thread[t].lane = l THEN heir
                             ELSE a.thread[t].user
       /\ a.thread[t].lane # l => b.thread[t] = a.thread[t]
  /\ \A t \in Threads :
       LET moving == a.request[t].user = guest /\ a.request[t].lane = l
       IN \/ b.request[t] = a.request[t]
          \/ /\ moving /\ ~a.request[t].busy
             /\ b.request[t] = [user |-> Nobody, lane |-> 0, busy |-> FALSE]
          \/ /\ moving /\ b.request[t].user = heir
             /\ b.request[t].lane = l /\ b.request[t].busy = a.request[t].busy
  /\ \A c \in Characters :
       b.account[c].user = IF a.account[c].user = guest THEN heir ELSE a.account[c].user
  /\ \A k \in b.link : \E j \in a.link : /\ k[1] = j[1] /\ k[2] = j[2]
                                        /\ k[3] = IF j[3] = guest THEN heir ELSE j[3]

\* What the merge makes of the tables after the adoption.
LEMMA MergedFields ==
  ASSUME NEW d, NEW guest \in Users, NEW heir \in Users, NEW l \in Lanes,
         NEW a, a = Adopted(d, Orphans(d, heir, l), l), DbTyped(a),
         NEW b, b = Merged(d, guest, heir, l)
  PROVE  MergesGuest(a, b, guest, heir, l)
<1> DEFINE moving == {t \in Threads : a.request[t].user = guest /\ a.request[t].lane = l}
           taken == {t \in moving : SameKey(a, t, heir, l)}
           heirs == [t \in Threads |-> heir]
           requests == Moved(a, moving, taken, heirs, l)
           left == \E t \in Threads : requests[t].user = guest
           Mine(row) == row.user = guest /\ row.lane = l
           links == {IF k[3] = guest THEN <<k[1], k[2], heir>> ELSE k : k \in a.link}
           auth == {IF s = <<l, guest>> THEN <<l, heir>> ELSE s : s \in a.auth}
<1>1. b = [a EXCEPT !.session[l].user = heir,
               !.thread  = [t \in Threads |-> IF Mine(@[t]) THEN [@[t] EXCEPT !.user = heir] ELSE @[t]],
               !.request = requests,
               !.auth = auth,
               !.account = [c \in Characters |-> IF @[c].user = guest THEN [@[c] EXCEPT !.user = heir] ELSE @[c]],
               !.link = links,
               !.users = IF left THEN @ ELSE @ \ {guest}]
  BY DEF Merged
<1>2. /\ a.session \in [Lanes -> [user : Somebody, live : BOOLEAN]]
      /\ a.thread \in [Threads -> [user : Somebody, lane : 0..MaxLanes]]
      /\ a.request \in [Threads -> [user : Somebody, lane : 0..MaxLanes, busy : BOOLEAN]]
      /\ a.account \in [Characters -> [user : Somebody, hash : {0, 1}]]
      /\ a.link \subseteq Lanes \X Characters \X Users
      /\ a.users \subseteq Users /\ a.auth \subseteq Lanes \X Users
  BY Fields
<1>3. heir \in Somebody
  BY DEF Somebody
<1>4. heirs \in [Threads -> Somebody] /\ \A t \in Threads : heirs[t] = heir
  BY <1>3
<1>5. \A t \in Threads : t \in moving <=> a.request[t].user = guest /\ a.request[t].lane = l
  OBVIOUS
<1>6. \A k \in links : \E j \in a.link : /\ k[1] = j[1] /\ k[2] = j[2]
                                         /\ k[3] = IF j[3] = guest THEN heir ELSE j[3]
  OBVIOUS
<1>7. links \subseteq Lanes \X Characters \X Users
  BY <1>2
<1>8. auth \subseteq Lanes \X Users
  BY <1>2
<1>9. requests = Moved(a, moving, taken, heirs, l)
  OBVIOUS
<1> HIDE DEF moving, taken, heirs, requests, left, links, auth
<1>10. MovedWhole(a.request, requests, moving, heirs, l)
  BY <1>4, <1>9, MovedIs
<1>11. /\ b.issued = a.issued /\ b.lanes = a.lanes /\ b.request = requests
       /\ b.auth = auth /\ b.link = links
       /\ b.users = IF left THEN a.users ELSE a.users \ {guest}
  BY <1>1 DEF DbTyped, Dbs
<1>12. b.session = [a.session EXCEPT ![l].user = heir]
  BY <1>1 DEF DbTyped, Dbs
<1>13. b.thread = [t \in Threads |-> IF Mine(a.thread[t]) THEN [a.thread[t] EXCEPT !.user = heir]
                                     ELSE a.thread[t]]
  BY <1>1 DEF DbTyped, Dbs
<1>14. b.account = [c \in Characters |-> IF a.account[c].user = guest
                                         THEN [a.account[c] EXCEPT !.user = heir] ELSE a.account[c]]
  BY <1>1 DEF DbTyped, Dbs
<1>15. /\ b.session \in [Lanes -> [user : Somebody, live : BOOLEAN]]
       /\ b.session[l].user = heir /\ b.session[l].live = a.session[l].live
       /\ \A m \in Lanes : m # l => b.session[m] = a.session[m]
  <2>1. a.session[l] \in [user : Somebody, live : BOOLEAN]
    BY <1>2
  <2>2. b.session[l] = [a.session[l] EXCEPT !.user = heir]
    BY <1>2, <1>12
  <2>3. [a.session[l] EXCEPT !.user = heir] \in [user : Somebody, live : BOOLEAN]
    BY <1>3, <2>1
  <2>4. b.session \in [Lanes -> [user : Somebody, live : BOOLEAN]]
    BY <1>2, <1>12, <2>3
  <2>5. b.session[l].user = heir /\ b.session[l].live = a.session[l].live
    BY <2>1, <2>2
  <2>6. \A m \in Lanes : m # l => b.session[m] = a.session[m]
    BY <1>2, <1>12
  <2> QED BY <2>4, <2>5, <2>6
<1>16. ASSUME NEW t \in Threads
       PROVE  /\ b.thread[t] \in [user : Somebody, lane : 0..MaxLanes]
              /\ b.thread[t].lane = a.thread[t].lane
              /\ b.thread[t].user = IF a.thread[t].user = guest /\ a.thread[t].lane = l THEN heir
                                    ELSE a.thread[t].user
              /\ a.thread[t].lane # l => b.thread[t] = a.thread[t]
  <2>1. a.thread[t] \in [user : Somebody, lane : 0..MaxLanes]
    BY <1>2
  <2>2. CASE a.thread[t].user = guest /\ a.thread[t].lane = l
    <3>1. b.thread[t] = [a.thread[t] EXCEPT !.user = heir]
      BY <1>13, <2>2
    <3> QED BY <1>3, <2>1, <2>2, <3>1
  <2>3. CASE ~(a.thread[t].user = guest /\ a.thread[t].lane = l)
    <3>1. b.thread[t] = a.thread[t]
      BY <1>13, <2>3
    <3> QED BY <2>1, <2>3, <3>1
  <2> QED BY <2>2, <2>3
<1>17. ASSUME NEW c \in Characters
       PROVE  /\ b.account[c] \in [user : Somebody, hash : {0, 1}]
              /\ b.account[c].user = IF a.account[c].user = guest THEN heir ELSE a.account[c].user
  <2>1. a.account[c] \in [user : Somebody, hash : {0, 1}]
    BY <1>2
  <2>2. CASE a.account[c].user = guest
    <3>1. b.account[c] = [a.account[c] EXCEPT !.user = heir]
      BY <1>14, <2>2
    <3> QED BY <1>3, <2>1, <2>2, <3>1
  <2>3. CASE a.account[c].user # guest
    BY <1>14, <2>1, <2>3
  <2> QED BY <2>2, <2>3
<1>18. b \in Dbs
  <2>1. b.thread \in [Threads -> [user : Somebody, lane : 0..MaxLanes]]
    BY <1>13, <1>16
  <2>2. b.account \in [Characters -> [user : Somebody, hash : {0, 1}]]
    BY <1>14, <1>17
  <2>3. b.users \subseteq a.users
    BY <1>11
  <2> QED BY <1>1, <1>2, <1>7, <1>8, <1>10, <1>11, <1>15, <2>1, <2>2, <2>3 DEF DbTyped, Dbs, MovedWhole
<1>19. ASSUME NEW t \in Threads
       PROVE  LET moves == a.request[t].user = guest /\ a.request[t].lane = l
              IN \/ b.request[t] = a.request[t]
                 \/ /\ moves /\ ~a.request[t].busy
                    /\ b.request[t] = [user |-> Nobody, lane |-> 0, busy |-> FALSE]
                 \/ /\ moves /\ b.request[t].user = heir
                    /\ b.request[t].lane = l /\ b.request[t].busy = a.request[t].busy
  BY <1>4, <1>5, <1>10, <1>11 DEF MovedWhole
<1>20. \A k \in b.link : \E j \in a.link : /\ k[1] = j[1] /\ k[2] = j[2]
                                           /\ k[3] = IF j[3] = guest THEN heir ELSE j[3]
  BY <1>6, <1>11
<1>21. b.issued = a.issued /\ b.users \subseteq a.users
  BY <1>11
<1> QED
  BY <1>15, <1>16, <1>17, <1>18, <1>19, <1>20, <1>21 DEF MergesGuest

\* An orphaned lane is another lane, with something of the heir's.
LEMMA OrphansAre ==
  ASSUME NEW d, DbTyped(d), NEW u \in Users, NEW l \in Lanes, NEW m \in Orphans(d, u, l)
  PROVE  m \in Lanes /\ m # l /\ ~Live(d, m) /\ On(d, m, u)
<1>1. d.lanes \subseteq Lanes
  BY Fields
<1> QED
  BY <1>1 DEF Orphans, On

\* Adopting keeps requests with their conversations.
LEMMA AdoptedDb ==
  ASSUME NEW d, DbTyped(d), ForeignKeysHold(d), Related(d), NEW heir \in Users, NEW l \in Lanes,
         d.session[l].user # Nobody, NEW a, a = Adopted(d, Orphans(d, heir, l), l)
  PROVE  DbTyped(a) /\ LinksMatch(a) /\ Together(a)
<1>0. PICK orphans : orphans = Orphans(d, heir, l)
  OBVIOUS
<1>1. \A m \in orphans : m \in Lanes /\ m # l /\ On(d, m, heir)
  BY <1>0, OrphansAre
<1>2. orphans \in SUBSET Lanes
  BY <1>1
<1>3. /\ a \in Dbs /\ a.issued = d.issued /\ a.users = d.users /\ a.account = d.account
      /\ \A m \in Lanes : a.session[m] = IF m \in orphans THEN NoSession ELSE d.session[m]
      /\ \A t \in Threads :
           /\ a.thread[t].user = d.thread[t].user
           /\ a.thread[t].lane = IF d.thread[t].lane \in orphans THEN l ELSE d.thread[t].lane
      /\ \A k \in a.link :
           \/ k \in d.link /\ k[1] \notin orphans
           \/ k[1] = l /\ \E j \in d.link : j[1] \in orphans /\ j[2] = k[2] /\ j[3] = k[3]
  <2>1. AdoptsLanes(d, a, orphans, l)
    BY <1>0, <1>2, AdoptedFields
  <2> QED BY <2>1 DEF AdoptsLanes
<1>4. DbTyped(a)
  BY <1>3, Fields DEF DbTyped
<1>5. LinksMatch(a)
  BY <1>3 DEF Related, LinksMatch
<1>6. ASSUME NEW t \in Threads, a.request[t].user # Nobody, a.thread[t].lane # a.request[t].lane
      PROVE  /\ a.session[a.request[t].lane].user = Nobody
             /\ \A s \in Threads : a.thread[s].lane # a.request[t].lane
             /\ \A k \in a.link : k[1] # a.request[t].lane
  <2> DEFINE moving == d.request[t].user # Nobody /\ d.request[t].lane \in orphans
  <2>1. \/ a.request[t] = d.request[t] /\ ~moving
        \/ a.request[t] = d.request[t] /\ moving /\ d.request[t].busy
        \/ /\ moving /\ ~d.request[t].busy
           /\ a.request[t] = [user |-> Nobody, lane |-> 0, busy |-> FALSE]
        \/ /\ moving /\ a.request[t].user = d.request[t].user
           /\ a.request[t].lane = l /\ a.request[t].busy = d.request[t].busy
    <3>1. AdoptsLanes(d, a, orphans, l)
      BY <1>0, <1>2, AdoptedFields
    <3> QED BY <3>1 DEF AdoptsLanes
  <2>2. d.request[t].user # Nobody => d.request[t].lane \in Lanes
    BY Fields DEF ForeignKeysHold
  <2>3. d.request[t].user # Nobody /\ d.thread[t].lane # d.request[t].lane =>
          /\ d.session[d.request[t].lane].user = Nobody
          /\ \A s \in Threads : d.thread[s].lane # d.request[t].lane
          /\ \A k \in d.link : k[1] # d.request[t].lane
    BY DEF Related, Together
  <2>4. CASE a.request[t] = d.request[t] /\ ~moving
    <3>1. d.request[t].user # Nobody /\ d.request[t].lane \notin orphans
      BY <1>6, <2>4
    <3>2. d.thread[t].lane # d.request[t].lane
      BY <1>3, <1>6, <2>4, <3>1
    <3>3. d.request[t].lane # l
      BY <2>3, <3>1, <3>2
    <3> QED BY <1>3, <2>2, <2>3, <2>4, <3>1, <3>2, <3>3
  <2>5. CASE a.request[t] = d.request[t] /\ moving
    BY <1>1, <1>3, <2>2, <2>5 DEF NoSession
  <2>6. CASE moving /\ a.request[t].lane = l
    <3>1. d.thread[t].lane \notin orphans
      BY <1>3, <1>6, <2>6
    <3>2. ~On(d, d.request[t].lane, heir)
      BY <2>2, <2>3, <2>6, <3>1, Numbers DEF On
    <3> QED BY <1>1, <2>6, <3>2
  <2> QED BY <1>6, <2>1, <2>4, <2>5, <2>6
<1> QED
  BY <1>4, <1>5, <1>6 DEF Together

\* The guest, who has no other session, is gone when the heir has what was his:
\* the lane holds nothing of anybody else who is not gone.
LEMMA MergedDb ==
  ASSUME NEW d, DbTyped(d), ForeignKeysHold(d), Related(d), NEW guest \in Users, NEW heir \in Users,
         NEW l \in Lanes, guest # heir, d.session[l].user = guest, d.session[l].live,
         Fresh(d, guest, l), \E c \in Characters : d.account[c].user = heir,
         NEW b, b = Merged(d, guest, heir, l)
  PROVE  /\ Becomes(d, b) /\ b.session[l].user = heir /\ b.session[l].live
         /\ \A m \in Lanes : m # l /\ m \notin Orphans(d, heir, l) => b.session[m] = d.session[m]
         /\ \A t \in Threads : d.thread[t].lane \notin {l} \cup Orphans(d, heir, l) =>
              b.thread[t] = d.thread[t]
         /\ \A t \in Threads : d.thread[t].user # Nobody => b.thread[t].user # Nobody
         /\ \A t \in Threads : d.request[t].busy => b.request[t].busy
<1>0. PICK orphans : orphans = Orphans(d, heir, l)
  OBVIOUS
<1>1. PICK a : a = Adopted(d, orphans, l)
  OBVIOUS
<1>2. \A m \in orphans : m \in Lanes /\ m # l /\ On(d, m, heir)
  BY <1>0, OrphansAre
<1>3. AdoptsLanes(d, a, orphans, l)
  BY <1>1, <1>2, AdoptedFields
<1>4. DbTyped(a) /\ LinksMatch(a) /\ Together(a)
  BY <1>0, <1>1, AdoptedDb, Numbers
<1>5. MergesGuest(a, b, guest, heir, l)
  BY <1>0, <1>1, <1>4, MergedFields
<1>6. ~Gone(d, guest) /\ ~Gone(d, heir)
  BY DEF Gone
<1>7. /\ a.issued = d.issued /\ b.issued = d.issued /\ b \in Dbs /\ b.users \subseteq d.users
  BY <1>3, <1>5 DEF AdoptsLanes, MergesGuest
<1>8. /\ b.session[l].user = heir /\ b.session[l].live
      /\ \A m \in Lanes : m # l => b.session[m] = IF m \in orphans THEN NoSession ELSE d.session[m]
  BY <1>2, <1>3, <1>5 DEF AdoptsLanes, MergesGuest
<1>9. ASSUME NEW t \in Threads
      PROVE  /\ b.thread[t].lane = IF d.thread[t].lane \in orphans THEN l ELSE d.thread[t].lane
             /\ b.thread[t].user = IF d.thread[t].user = guest /\ b.thread[t].lane = l THEN heir
                                   ELSE d.thread[t].user
             /\ d.thread[t].lane \notin {l} \cup orphans => b.thread[t] = d.thread[t]
  BY <1>3, <1>5 DEF AdoptsLanes, MergesGuest
<1>10. \A c \in Characters :
         b.account[c].user = IF d.account[c].user = guest THEN heir ELSE d.account[c].user
  BY <1>3, <1>5 DEF AdoptsLanes, MergesGuest
<1>11. ASSUME NEW k \in b.link
       PROVE  \E j \in d.link : /\ k[1] = IF j[1] \in orphans THEN l ELSE j[1]
                                /\ k[2] = j[2] /\ k[3] = IF j[3] = guest THEN heir ELSE j[3]
  <2>1. PICK i \in a.link : /\ k[1] = i[1] /\ k[2] = i[2]
                            /\ k[3] = IF i[3] = guest THEN heir ELSE i[3]
    BY <1>5 DEF MergesGuest
  <2>2. \/ i \in d.link /\ i[1] \notin orphans
        \/ i[1] = l /\ \E j \in d.link : j[1] \in orphans /\ j[2] = i[2] /\ j[3] = i[3]
    BY <1>3 DEF AdoptsLanes
  <2> QED BY <2>1, <2>2
<1>12. ASSUME NEW t \in Threads
       PROVE  /\ b.request[t].user # Nobody =>
                    /\ b.request[t].lane = a.request[t].lane /\ a.request[t].user # Nobody
                    /\ a.request[t].lane \in Lanes
              /\ d.request[t].busy => b.request[t].busy
  <2>1. d.request[t].user # Nobody => d.request[t].lane \in Lanes
    BY Fields DEF ForeignKeysHold
  <2>2. a.request[t].user # Nobody => a.request[t].lane \in Lanes
    BY <1>3, <2>1 DEF AdoptsLanes
  <2>3. /\ b.request[t].user # Nobody =>
             b.request[t].lane = a.request[t].lane /\ a.request[t].user # Nobody
        /\ d.request[t].busy => b.request[t].busy
    BY <1>3, <1>5, Numbers DEF AdoptsLanes, MergesGuest
  <2> QED BY <2>2, <2>3
<1>13. DbTyped(b)
  <2>1. d.account \in [Characters -> [user : Somebody, hash : {0, 1}]]
    BY Fields
  <2>2. heir <= d.issued
    BY Fields
  <2>3. \A t \in Threads : b.thread[t].user <= b.issued
    BY <1>7, <1>9, <2>2, Fields
  <2>4. \A c \in Characters : b.account[c].user <= b.issued
    BY <1>7, <1>10, <2>2, Fields
  <2> QED BY <1>7, <2>3, <2>4, Fields DEF DbTyped
<1>14. LinksMatch(b)
  <2> SUFFICES ASSUME NEW k \in b.link PROVE b.account[k[2]].user = k[3]
    BY DEF LinksMatch
  <2>1. PICK j \in d.link : k[2] = j[2] /\ k[3] = IF j[3] = guest THEN heir ELSE j[3]
    BY <1>11
  <2>2. j[2] \in Characters /\ d.account[j[2]].user = j[3]
    BY Fields DEF Related, LinksMatch
  <2> QED BY <1>10, <2>1, <2>2
<1>15. Together(b)
  <2> SUFFICES ASSUME NEW t \in Threads, b.request[t].user # Nobody,
                      b.thread[t].lane # b.request[t].lane
               PROVE  /\ b.session[b.request[t].lane].user = Nobody
                      /\ \A s \in Threads : b.thread[s].lane # b.request[t].lane
                      /\ \A k \in b.link : k[1] # b.request[t].lane
    BY DEF Together
  <2>1. \A s \in Threads : b.thread[s].lane = a.thread[s].lane
    BY <1>5 DEF MergesGuest
  <2>2. b.request[t].lane = a.request[t].lane /\ a.request[t].user # Nobody
    BY <1>12
  <2>3. /\ a.session[b.request[t].lane].user = Nobody
        /\ \A s \in Threads : a.thread[s].lane # b.request[t].lane
        /\ \A k \in a.link : k[1] # b.request[t].lane
    BY <1>4, <2>1, <2>2 DEF Together
  <2>4. a.session[l].user = guest
    BY <1>2, <1>3 DEF AdoptsLanes
  <2>5. b.request[t].lane # l
    BY <2>3, <2>4, Numbers
  <2>6. \A k \in b.link : \E j \in a.link : k[1] = j[1]
    BY <1>5 DEF MergesGuest
  <2>7. b.session[b.request[t].lane] = a.session[b.request[t].lane]
    <3>1. a.request[t].lane \in 0..MaxLanes
      BY <1>4, Fields
    <3>2. a.request[t].lane \in Lanes
      BY <1>12
    <3> QED BY <1>5, <2>2, <2>5, <3>2 DEF MergesGuest
  <2> QED BY <2>1, <2>3, <2>6, <2>7
<1>16. ASSUME NEW w \in Users, Gone(d, w) PROVE Gone(b, w)
  <2>1. w # heir /\ w # guest
    BY <1>6, <1>16
  <2> QED BY <1>8, <1>10, <1>16, <2>1, Numbers DEF Gone, NoSession
<1>17. Gone(b, guest)
  BY <1>8, <1>10, Numbers DEF Gone, NoSession, Fresh
<1>18. ASSUME NEW w \in Users, On(b, l, w) PROVE w = heir \/ Gone(b, w)
  <2>1. CASE b.session[l].user = w
    BY <1>8, <2>1
  <2>2. ASSUME NEW m \in {l} \cup orphans, On(d, m, w) PROVE w = heir \/ Gone(b, w)
    <3>1. CASE m = l
      BY <1>6, <1>16, <1>17, <2>2, <3>1 DEF Related, OneLiving, On
    <3>2. CASE m \in orphans
      BY <1>2, <1>6, <1>16, <2>2, <3>2 DEF Related, OneLiving
    <3> QED BY <3>1, <3>2
  <2>3. ASSUME NEW t \in Threads, b.thread[t].user = w, b.thread[t].lane = l
        PROVE  w = heir \/ Gone(b, w)
    BY <1>9, <2>2, <2>3 DEF On
  <2>4. ASSUME NEW k \in b.link, k[1] = l, k[3] = w
        PROVE  w = heir \/ Gone(b, w)
    BY <1>11, <2>2, <2>4 DEF On
  <2> QED BY <1>18, <2>1, <2>3, <2>4 DEF On
<1>19. ASSUME NEW m \in Lanes, m # l, NEW w \in Users, On(b, m, w)
       PROVE  On(d, m, w) \/ (w = heir /\ On(d, m, guest))
  <2>1. CASE b.session[m].user = w
    BY <1>8, <1>19, <2>1, Numbers DEF On, NoSession
  <2>2. ASSUME NEW t \in Threads, b.thread[t].user = w, b.thread[t].lane = m
        PROVE  On(d, m, w)
    BY <1>9, <1>19, <2>2 DEF On
  <2>3. ASSUME NEW k \in b.link, k[1] = m, k[3] = w
        PROVE  On(d, m, w) \/ (w = heir /\ On(d, m, guest))
    BY <1>11, <1>19, <2>3 DEF On
  <2> QED BY <1>19, <2>1, <2>2, <2>3 DEF On
<1>20. OneLiving(b)
  <2> SUFFICES ASSUME NEW m \in Lanes, NEW u \in Users, NEW w \in Users,
                      On(b, m, u), On(b, m, w)
               PROVE  u = w \/ Gone(b, u) \/ Gone(b, w)
    BY DEF OneLiving
  <2>1. CASE m = l
    BY <1>18, <2>1
  <2>2. CASE m # l
    BY <1>6, <1>16, <1>17, <1>19, <2>2 DEF Related, OneLiving
  <2> QED BY <2>1, <2>2
<1>21. Becomes(d, b)
  <2>1. d.issued <= b.issued
    BY <1>7, Fields
  <2> QED BY <1>13, <1>14, <1>15, <1>16, <1>20, <2>1 DEF Becomes, Related
<1>22. \A t \in Threads : d.thread[t].user # Nobody => b.thread[t].user # Nobody
  BY <1>9, Numbers
<1> QED
  BY <1>0, <1>8, <1>9, <1>12, <1>21, <1>22

\* The character goes to the user of the sign-in's lane.
LEMMA LinkedDb ==
  ASSUME NEW d, DbTyped(d), Related(d), NEW s, NEW u \in Users, u <= d.issued,
         s.lane \in Lanes, s.character \in Characters, s.hash \in {0, 1},
         d.session[s.lane].user = u, d.session[s.lane].live,
         NEW e, e = Linked(d, s, u)
  PROVE  /\ Becomes(d, e) /\ e.session = d.session /\ e.thread = d.thread /\ e.request = d.request
<1> DEFINE l == s.lane
           c == s.character
           mine == [user |-> u, hash |-> s.hash]
<1>0. d.account \in [Characters -> [user : Somebody, hash : {0, 1}]]
  BY Fields
<1>1. /\ e.issued = d.issued /\ e.users = d.users /\ e.lanes = d.lanes
      /\ e.session = d.session /\ e.thread = d.thread /\ e.request = d.request
      /\ e.link = Reassigned(d.link, c, u) \cup {<<l, c, u>>} /\ e.auth = d.auth
  BY DEF DbTyped, Dbs, Linked
<1>2. e.account = [d.account EXCEPT ![c] = mine]
  BY DEF DbTyped, Dbs, Linked
<1>3. e.account[c].user = u
  BY <1>0, <1>2
<1>4. \A b \in Characters : b # c => e.account[b] = d.account[b]
  BY <1>0, <1>2
<1>5. \A k \in e.link : \/ k \in d.link /\ (k[2] = c => k[3] = u)
                        \/ k = <<l, c, u>>
  BY <1>1 DEF Reassigned
<1>6. DbTyped(e)
  <2>1. mine \in [user : Somebody, hash : {0, 1}]
    BY DEF Somebody
  <2>2. e.account \in [Characters -> [user : Somebody, hash : {0, 1}]]
    BY <1>0, <1>2, <2>1
  <2>3. e.link \subseteq Lanes \X Characters \X Users
    <3>1. d.link \subseteq Lanes \X Characters \X Users
      BY Fields
    <3> QED BY <1>5, <3>1
  <2>4. e \in Dbs
    <3>1. DOMAIN e = DOMAIN d
      BY DEF Linked
    <3> QED BY <1>1, <2>2, <2>3, <3>1 DEF DbTyped, Dbs, Linked
  <2>5. \A b \in Characters : e.account[b].user <= e.issued
    BY <1>1, <1>3, <1>4, Fields
  <2> QED BY <1>1, <2>4, <2>5 DEF DbTyped
<1>7. LinksMatch(e)
  <2> SUFFICES ASSUME NEW k \in e.link PROVE e.account[k[2]].user = k[3]
    BY DEF LinksMatch
  <2>1. k[2] \in Characters
    BY <1>6, Fields
  <2> QED BY <1>3, <1>4, <1>5, <2>1 DEF Related, LinksMatch
<1>8. Together(e)
  <2> SUFFICES ASSUME NEW t \in Threads, e.request[t].user # Nobody,
                      e.thread[t].lane # e.request[t].lane
               PROVE  /\ e.session[e.request[t].lane].user = Nobody
                      /\ \A r \in Threads : e.thread[r].lane # e.request[t].lane
                      /\ \A k \in e.link : k[1] # e.request[t].lane
    BY DEF Together
  <2>1. /\ d.session[d.request[t].lane].user = Nobody
        /\ \A r \in Threads : d.thread[r].lane # d.request[t].lane
        /\ \A k \in d.link : k[1] # d.request[t].lane
    BY <1>1 DEF Related, Together
  <2>2. d.request[t].lane # l
    BY <2>1, Numbers
  <2> QED BY <1>1, <1>5, <2>1, <2>2
<1>9. \A w \in Users : Gone(d, w) => Gone(e, w)
  BY <1>1, <1>3, <1>4 DEF Gone
<1>10. \A m \in Lanes : \A w \in Users : On(e, m, w) => On(d, m, w)
  BY <1>1, <1>5 DEF On
<1> QED
  BY <1>1, <1>6, <1>7, <1>8, <1>9, <1>10, LessIsRelated

\* What a sign-in may make of the database d: nothing on a lane it does not
\* hold, no conversation and no request under way is dropped.
Commits(d, e, s, plan) ==
  /\ Becomes(d, e)
  /\ e.session[s.lane].user # d.session[s.lane].user =>
       d.account[s.character] = [user |-> e.session[s.lane].user, hash |-> s.hash]
  /\ \A m \in Lanes : m # s.lane /\ m \notin plan.orphans => e.session[m] = d.session[m]
  /\ \A m \in Lanes : m = s.lane /\ plan.kind # "merge" => e.session[m] = d.session[m]
  /\ \A t \in Threads : d.thread[t].lane \notin {s.lane} \cup plan.orphans => e.thread[t] = d.thread[t]
  /\ \A t \in Threads : d.thread[t].user # Nobody => e.thread[t].user # Nobody
  /\ \A t \in Threads : d.request[t].busy => e.request[t].busy

\* A sign-in as it waits for its locks.
Signing(s) == /\ s.lane \in Lanes /\ s.user \in Users
              /\ s.character \in Characters /\ s.hash \in {0, 1}

\* A plan, unless it refuses, is for the lane's session; only a plan to merge
\* has orphans.
Plans == [kind : {"none", "refused", "keep", "merge"}, heir : Somebody, orphans : SUBSET Lanes]

PlanFor(d, s, plan) ==
  /\ plan \in Plans /\ plan.kind # "none"
  /\ plan.kind # "refused" => d.session[s.lane] = [user |-> s.user, live |-> TRUE]
  /\ plan.kind # "merge" => plan.orphans = {}
  /\ plan.kind = "merge" =>
       /\ plan.heir \in Users /\ plan.heir # s.user /\ Fresh(d, s.user, s.lane)
       /\ d.account[s.character] = [user |-> plan.heir, hash |-> s.hash]
       /\ plan.orphans = Orphans(d, plan.heir, s.lane)

\* What a plan is made from.
LEMMA PlanIs ==
  ASSUME NEW d, DbTyped(d), NEW s, Signing(s), NEW plan, plan = Plan(d, s)
  PROVE  PlanFor(d, s, plan)
<1> USE DEF Signing
<1> DEFINE heir == d.account[s.character].user
           refused == d.session[s.lane] # [user |-> s.user, live |-> TRUE]
           keep == \/ heir \in {Nobody, s.user}
                   \/ d.account[s.character].hash # s.hash
                   \/ ~Fresh(d, s.user, s.lane)
<1>1. d.account[s.character] \in [user : Somebody, hash : {0, 1}]
  <2>1. d.account \in [Characters -> [user : Somebody, hash : {0, 1}]]
    BY Fields
  <2> QED BY <2>1
<1>2. CASE refused
  <2>1. plan = [kind |-> "refused", heir |-> Nobody, orphans |-> {}]
    BY <1>2 DEF Plan, NoPlan
  <2> QED BY <2>1 DEF Somebody, PlanFor, Plans
<1>3. CASE ~refused /\ keep
  <2>1. plan = [kind |-> "keep", heir |-> s.user, orphans |-> {}]
    BY <1>3 DEF Plan, NoPlan
  <2> QED BY <1>3, <2>1 DEF Somebody, PlanFor, Plans
<1>4. CASE ~refused /\ ~keep
  <2>1. plan = [kind |-> "merge", heir |-> heir, orphans |-> Orphans(d, heir, s.lane)]
    BY <1>4 DEF Plan, NoPlan
  <2>2. plan.kind = "merge" /\ plan.heir = heir /\ plan.orphans = Orphans(d, heir, s.lane)
    BY <2>1
  <2>3. d.account[s.character] = [user |-> heir, hash |-> s.hash]
    BY <1>1, <1>4
  <2>4. heir \in Users /\ heir # s.user /\ Fresh(d, s.user, s.lane)
    BY <1>1, <1>4 DEF Somebody
  <2>5. Orphans(d, heir, s.lane) \subseteq Lanes
    BY Fields DEF Orphans
  <2>6. plan \in Plans
    BY <1>1, <2>1, <2>5 DEF Plans
  <2> QED BY <1>4, <2>2, <2>3, <2>4, <2>6 DEF PlanFor
<1> QED BY <1>2, <1>3, <1>4

\* What a sign-in writes by its plan.
LEMMA SignedInDb ==
  ASSUME NEW d, DbTyped(d), ForeignKeysHold(d), Related(d), NEW s, Signing(s),
         NEW plan, plan = Plan(d, s), plan.kind # "refused"
  PROVE  Commits(d, SignedIn(d, s, plan), s, plan)
<1>0. PlanFor(d, s, plan) /\ Signing(s)
  BY PlanIs
<1>1. /\ d.session[s.lane].user = s.user /\ d.session[s.lane].live
      /\ plan.kind \in {"keep", "merge"}
      /\ s.lane \in Lanes /\ s.user \in Users /\ s.character \in Characters /\ s.hash \in {0, 1}
  BY <1>0 DEF PlanFor, Plans, Signing
<1>2. s.user <= d.issued /\ d.issued \in Nat
  <2>1. s.user \in d.users
    BY <1>1, Numbers DEF ForeignKeysHold
  <2> QED BY <2>1, Fields
<1>3. CASE plan.kind = "keep"
  <2>1. PICK e : e = Linked(d, s, s.user)
    OBVIOUS
  <2>2. SignedIn(d, s, plan) = e
    BY <1>3, <2>1 DEF SignedIn
  <2>3. Becomes(d, e) /\ e.session = d.session /\ e.thread = d.thread /\ e.request = d.request
    BY <1>1, <1>2, <2>1, LinkedDb
  <2> QED BY <2>2, <2>3 DEF Commits
<1>4. CASE plan.kind = "merge"
  <2>1. /\ plan.heir \in Users /\ plan.heir # s.user /\ Fresh(d, s.user, s.lane)
        /\ d.account[s.character] = [user |-> plan.heir, hash |-> s.hash]
        /\ plan.orphans = Orphans(d, plan.heir, s.lane)
    BY <1>0, <1>4 DEF PlanFor
  <2>2. PICK b : b = Merged(d, s.user, plan.heir, s.lane)
    OBVIOUS
  <2>3. /\ Becomes(d, b) /\ b.session[s.lane].user = plan.heir /\ b.session[s.lane].live
        /\ \A m \in Lanes : m # s.lane /\ m \notin plan.orphans => b.session[m] = d.session[m]
        /\ \A t \in Threads : d.thread[t].lane \notin {s.lane} \cup plan.orphans =>
              b.thread[t] = d.thread[t]
        /\ \A t \in Threads : d.thread[t].user # Nobody => b.thread[t].user # Nobody
        /\ \A t \in Threads : d.request[t].busy => b.request[t].busy
    BY <1>1, <2>1, <2>2, MergedDb
  <2>4. PICK e : e = Linked(b, s, plan.heir)
    OBVIOUS
  <2>5. SignedIn(d, s, plan) = e
    BY <1>4, <2>2, <2>4 DEF SignedIn
  <2>6. DbTyped(b) /\ Related(b) /\ d.issued <= b.issued
    BY <2>3 DEF Becomes
  <2>7. plan.heir <= b.issued
    <3>1. plan.heir = d.account[s.character].user
      BY <2>1
    <3>2. plan.heir <= d.issued
      BY <1>1, <3>1, Fields
    <3>3. b.issued \in Nat
      BY <2>6, Fields
    <3>4. plan.heir \in Nat
      BY <2>1, Numbers
    <3> QED BY <1>2, <2>6, <3>2, <3>3, <3>4
  <2>8. Becomes(b, e) /\ e.session = b.session /\ e.thread = b.thread /\ e.request = b.request
    BY <1>1, <2>1, <2>3, <2>4, <2>6, <2>7, LinkedDb
  <2>9. Becomes(d, e)
    <3>1. b.issued \in Nat /\ e.issued \in Nat
      BY <2>6, <2>8, Fields DEF Becomes
    <3> QED BY <1>2, <2>3, <2>8, <3>1, Numbers DEF Becomes
  <2> QED BY <1>4, <2>1, <2>3, <2>5, <2>8, <2>9 DEF Commits
<1> QED BY <1>1, <1>3, <1>4

-----------------------------------------------------------------------------
(* The locks.                                                               *)

OnceIn(q) == \A j, k \in DOMAIN q : q[j] = q[k] => j = k

\* Whoever joins a queue is in it, after those who are.
LEMMA AppendQueue ==
  ASSUME NEW q \in Seq(Actors), NEW a \in Actors
  PROVE  /\ Append(q, a) \in Seq(Actors)
         /\ \A b : Awaits(Append(q, a), b) <=> (Awaits(q, b) \/ a = b)
         /\ \A b : Has(q, b) => Has(Append(q, a), b)
         /\ OnceIn(q) /\ ~Awaits(q, a) => OnceIn(Append(q, a))
<1> DEFINE r == Append(q, a)
<1>1. /\ r \in Seq(Actors) /\ Len(q) \in Nat /\ DOMAIN q = 1..Len(q)
      /\ DOMAIN r = 1..(Len(q) + 1) /\ r[Len(q) + 1] = a
      /\ \A j \in 1..Len(q) : r[j] = q[j]
  OBVIOUS
<1>2. ASSUME NEW b PROVE Awaits(r, b) <=> (Awaits(q, b) \/ a = b)
  <2>1. Awaits(q, b) => Awaits(r, b)
    BY <1>1 DEF Awaits
  <2>2. a = b => Awaits(r, b)
    BY <1>1 DEF Awaits
  <2>3. Awaits(r, b) => Awaits(q, b) \/ a = b
    <3> SUFFICES ASSUME NEW j \in DOMAIN r, r[j] = b PROVE Awaits(q, b) \/ a = b
      BY DEF Awaits
    <3>1. j \in 1..Len(q) \/ j = Len(q) + 1
      BY <1>1
    <3> QED BY <1>1, <3>1 DEF Awaits
  <2> QED BY <2>1, <2>2, <2>3
<1>3. ASSUME NEW b, Has(q, b) PROVE Has(r, b)
  <2>1. q # <<>> /\ Head(q) = b
    BY <1>3 DEF Has
  <2>2. Len(q) >= 1 /\ q[1] = b
    BY <1>1, <2>1
  <2>3. r # <<>> /\ Head(r) = r[1]
    BY <1>1
  <2> QED BY <1>1, <2>2, <2>3 DEF Has
<1>4. ASSUME OnceIn(q), ~Awaits(q, a) PROVE OnceIn(r)
  <2> SUFFICES ASSUME NEW j \in DOMAIN r, NEW k \in DOMAIN r, r[j] = r[k] PROVE j = k
    BY DEF OnceIn
  <2>1. /\ j \in 1..Len(q) \/ j = Len(q) + 1
        /\ k \in 1..Len(q) \/ k = Len(q) + 1
    BY <1>1
  <2>2. \A m \in 1..Len(q) : q[m] # a
    BY <1>1, <1>4 DEF Awaits
  <2> QED BY <1>1, <1>4, <2>1, <2>2 DEF OnceIn
<1> QED BY <1>1, <1>2, <1>3, <1>4

\* Whoever lets go of a lock it holds is out of the queue, and nobody else.
LEMMA LetsGoQueue ==
  ASSUME NEW q \in Seq(Actors), NEW a \in Actors
  PROVE  /\ LetsGo(q, a) \in Seq(Actors)
         /\ \A b : b # a => /\ Awaits(LetsGo(q, a), b) <=> Awaits(q, b)
                            /\ Has(q, b) => Has(LetsGo(q, a), b)
         /\ OnceIn(q) => /\ OnceIn(LetsGo(q, a))
                         /\ (Awaits(q, a) => Has(q, a)) => ~Awaits(LetsGo(q, a), a)
<1> DEFINE r == LetsGo(q, a)
<1>1. CASE ~Has(q, a)
  <2>1. r = q
    BY <1>1 DEF LetsGo
  <2> HIDE DEF r
  <2>2. Awaits(r, a) => Awaits(q, a)
    BY <2>1
  <2>3. \A b : Awaits(r, b) = Awaits(q, b) /\ Has(r, b) = Has(q, b) /\ OnceIn(r) = OnceIn(q)
    BY <2>1
  <2> QED BY <1>1, <2>1, <2>2, <2>3 DEF r
<1>2. CASE Has(q, a)
  <2>1. r = Tail(q) /\ q # <<>> /\ Head(q) = a
    BY <1>2 DEF LetsGo, Has
  <2> HIDE DEF r
  <2>2. /\ r \in Seq(Actors) /\ Len(q) \in Nat /\ Len(q) >= 1 /\ DOMAIN q = 1..Len(q)
        /\ DOMAIN r = 1..(Len(q) - 1) /\ q[1] = a
        /\ \A j \in 1..(Len(q) - 1) : r[j] = q[j + 1]
    BY <2>1
  <2>3. ASSUME NEW b, b # a PROVE Awaits(r, b) <=> Awaits(q, b)
    <3>1. ASSUME NEW j \in DOMAIN r, r[j] = b PROVE Awaits(q, b)
      <4>1. j + 1 \in DOMAIN q /\ q[j + 1] = b
        BY <2>2, <3>1
      <4> QED BY <4>1 DEF Awaits
    <3>2. ASSUME NEW j \in DOMAIN q, q[j] = b PROVE Awaits(r, b)
      <4>1. j # 1
        BY <2>2, <2>3, <3>2
      <4>2. j - 1 \in 1..(Len(q) - 1) /\ (j - 1) + 1 = j
        BY <2>2, <4>1
      <4>3. r[j - 1] = b
        BY <2>2, <3>2, <4>2
      <4> QED BY <2>2, <4>2, <4>3 DEF Awaits
    <3> QED BY <3>1, <3>2 DEF Awaits
  <2>4. ASSUME NEW b, b # a PROVE ~Has(q, b)
    BY <2>1, <2>4 DEF Has
  <2>5. ASSUME OnceIn(q) PROVE OnceIn(r) /\ ~Awaits(r, a)
    <3>1. \A j \in 1..(Len(q) - 1) : j + 1 \in DOMAIN q /\ j + 1 # 1
      BY <2>2
    <3>2. OnceIn(r)
      <4> SUFFICES ASSUME NEW j \in DOMAIN r, NEW k \in DOMAIN r, r[j] = r[k] PROVE j = k
        BY DEF OnceIn
      <4>1. q[j + 1] = q[k + 1] /\ j + 1 \in DOMAIN q /\ k + 1 \in DOMAIN q
        BY <2>2, <3>1
      <4>2. j + 1 = k + 1
        BY <2>5, <4>1 DEF OnceIn
      <4> QED BY <2>2, <4>2
    <3>3. ASSUME NEW j \in DOMAIN r, r[j] = a PROVE FALSE
      <4>1. q[j + 1] = q[1] /\ j + 1 \in DOMAIN q /\ 1 \in DOMAIN q /\ j + 1 # 1
        BY <2>2, <3>1, <3>3
      <4> QED BY <2>5, <4>1 DEF OnceIn
    <3> QED BY <3>2, <3>3 DEF Awaits
  <2> QED BY <1>2, <2>2, <2>3, <2>4, <2>5 DEF r
<1> QED BY <1>1, <1>2

Queues == laneQ \in [Lanes -> Seq(Actors)] /\ characterQ \in [Characters -> Seq(Actors)]

\* A handler waits once for a lock.
Once == /\ \A l \in Lanes : OnceIn(laneQ[l])
        /\ \A c \in Characters : OnceIn(characterQ[c])

\* What a step of a handler does to the locks: it begins to wait for one, or
\* lets go of all it holds.
Joins(a) == \/ \E l \in Lanes : Waits(a, l) /\ ~Awaits(laneQ[l], a)
            \/ \E c \in Characters : WaitsFor(a, c) /\ ~Awaits(characterQ[c], a)
Leaves(a) == /\ \A l \in Lanes : Awaits(laneQ[l], a) => Has(laneQ[l], a)
             /\ \A c \in Characters : Awaits(characterQ[c], a) => Has(characterQ[c], a)
             /\ Releases(a)
Touches(a) == Joins(a) \/ Leaves(a) \/ UNCHANGED locks

\* The other handlers hold what they held, and wait for what they waited for.
Keeps(b) ==
  /\ \A l \in Lanes : /\ Awaits(laneQ[l], b)' <=> Awaits(laneQ[l], b)
                      /\ Has(laneQ[l], b) => Has(laneQ[l], b)'
  /\ \A c \in Characters : /\ Awaits(characterQ[c], b)' <=> Awaits(characterQ[c], b)
                           /\ Has(characterQ[c], b) => Has(characterQ[c], b)'

\* Waiting for a lane.
LEMMA JoinsLane ==
  ASSUME Queues, Once, NEW a \in Actors, NEW l \in Lanes, Waits(a, l), ~Awaits(laneQ[l], a)
  PROVE  /\ Queues' /\ Once' /\ \A b : b # a => Keeps(b)
         /\ \A m \in Lanes : /\ Awaits(laneQ[m], a)' <=> (Awaits(laneQ[m], a) \/ m = l)
                             /\ Has(laneQ[m], a) => Has(laneQ[m], a)'
         /\ \A c \in Characters : /\ Awaits(characterQ[c], a)' <=> Awaits(characterQ[c], a)
                                  /\ Has(characterQ[c], a) => Has(characterQ[c], a)'
<1>1. /\ laneQ' = [laneQ EXCEPT ![l] = Append(laneQ[l], a)] /\ characterQ' = characterQ
      /\ laneQ \in [Lanes -> Seq(Actors)] /\ characterQ \in [Characters -> Seq(Actors)]
  BY DEF Waits, Queues
<1>2. laneQ'[l] = Append(laneQ[l], a) /\ \A m \in Lanes : m # l => laneQ'[m] = laneQ[m]
  BY <1>1
<1>3. PICK q \in Seq(Actors) : q = laneQ[l]
  BY <1>1
<1>4. /\ Append(q, a) \in Seq(Actors)
      /\ \A b : Awaits(Append(q, a), b) <=> (Awaits(q, b) \/ a = b)
      /\ \A b : Has(q, b) => Has(Append(q, a), b)
      /\ OnceIn(q) /\ ~Awaits(q, a) => OnceIn(Append(q, a))
  BY AppendQueue
<1>5. Queues'
  BY <1>1, <1>3, <1>4 DEF Queues
<1>6. Once'
  BY <1>1, <1>2, <1>3, <1>4 DEF Once
<1>7. ASSUME NEW b, NEW m \in Lanes
      PROVE  /\ Awaits(laneQ'[m], b) <=> (Awaits(laneQ[m], b) \/ (m = l /\ a = b))
             /\ Has(laneQ[m], b) => Has(laneQ'[m], b)
  <2>1. CASE m = l
    BY <1>2, <1>3, <1>4, <2>1
  <2>2. CASE m # l
    BY <1>2, <2>2
  <2> QED BY <2>1, <2>2
<1>8. ASSUME NEW b, NEW c \in Characters
      PROVE  /\ Awaits(characterQ'[c], b) <=> Awaits(characterQ[c], b)
             /\ Has(characterQ[c], b) => Has(characterQ'[c], b)
  BY <1>1
<1>9. \A b : b # a => Keeps(b)
  BY <1>7, <1>8 DEF Keeps
<1> QED BY <1>5, <1>6, <1>7, <1>8, <1>9

\* Waiting for a character.
LEMMA JoinsCharacter ==
  ASSUME Queues, Once, NEW a \in Actors, NEW c \in Characters, WaitsFor(a, c),
         ~Awaits(characterQ[c], a)
  PROVE  /\ Queues' /\ Once' /\ \A b : b # a => Keeps(b)
         /\ \A d \in Characters : /\ Awaits(characterQ[d], a)' <=> (Awaits(characterQ[d], a) \/ d = c)
                                  /\ Has(characterQ[d], a) => Has(characterQ[d], a)'
         /\ \A l \in Lanes : /\ Awaits(laneQ[l], a)' <=> Awaits(laneQ[l], a)
                             /\ Has(laneQ[l], a) => Has(laneQ[l], a)'
<1>1. /\ characterQ' = [characterQ EXCEPT ![c] = Append(characterQ[c], a)] /\ laneQ' = laneQ
      /\ laneQ \in [Lanes -> Seq(Actors)] /\ characterQ \in [Characters -> Seq(Actors)]
  BY DEF WaitsFor, Queues
<1>2. characterQ'[c] = Append(characterQ[c], a) /\ \A d \in Characters : d # c => characterQ'[d] = characterQ[d]
  BY <1>1
<1>3. PICK q \in Seq(Actors) : q = characterQ[c]
  BY <1>1
<1>4. /\ Append(q, a) \in Seq(Actors)
      /\ \A b : Awaits(Append(q, a), b) <=> (Awaits(q, b) \/ a = b)
      /\ \A b : Has(q, b) => Has(Append(q, a), b)
      /\ OnceIn(q) /\ ~Awaits(q, a) => OnceIn(Append(q, a))
  BY AppendQueue
<1>5. Queues'
  BY <1>1, <1>3, <1>4 DEF Queues
<1>6. Once'
  BY <1>1, <1>2, <1>3, <1>4 DEF Once
<1>7. ASSUME NEW b, NEW d \in Characters
      PROVE  /\ Awaits(characterQ'[d], b) <=> (Awaits(characterQ[d], b) \/ (d = c /\ a = b))
             /\ Has(characterQ[d], b) => Has(characterQ'[d], b)
  <2>1. CASE d = c
    BY <1>2, <1>3, <1>4, <2>1
  <2>2. CASE d # c
    BY <1>2, <2>2
  <2> QED BY <2>1, <2>2
<1>8. ASSUME NEW b, NEW l \in Lanes
      PROVE  /\ Awaits(laneQ'[l], b) <=> Awaits(laneQ[l], b)
             /\ Has(laneQ[l], b) => Has(laneQ'[l], b)
  BY <1>1
<1>9. \A b : b # a => Keeps(b)
  BY <1>7, <1>8 DEF Keeps
<1> QED BY <1>5, <1>6, <1>7, <1>8, <1>9

\* Letting go of everything held.
LEMMA LeavesAll ==
  ASSUME Queues, Once, NEW a \in Actors, Leaves(a)
  PROVE  /\ Queues' /\ Once' /\ \A b : b # a => Keeps(b)
         /\ \A l \in Lanes : ~Awaits(laneQ[l], a)'
         /\ \A c \in Characters : ~Awaits(characterQ[c], a)'
<1>1. /\ laneQ' = [l \in Lanes |-> LetsGo(laneQ[l], a)]
      /\ characterQ' = [c \in Characters |-> LetsGo(characterQ[c], a)]
      /\ laneQ \in [Lanes -> Seq(Actors)] /\ characterQ \in [Characters -> Seq(Actors)]
  BY DEF Leaves, Releases, Queues
<1>2. ASSUME NEW q \in Seq(Actors), OnceIn(q), Awaits(q, a) => Has(q, a)
      PROVE  /\ LetsGo(q, a) \in Seq(Actors) /\ OnceIn(LetsGo(q, a)) /\ ~Awaits(LetsGo(q, a), a)
             /\ \A b : b # a => /\ Awaits(LetsGo(q, a), b) <=> Awaits(q, b)
                                /\ Has(q, b) => Has(LetsGo(q, a), b)
  BY <1>2, LetsGoQueue
<1>3. ASSUME NEW l \in Lanes
      PROVE  /\ laneQ'[l] \in Seq(Actors) /\ OnceIn(laneQ'[l]) /\ ~Awaits(laneQ'[l], a)
             /\ \A b : b # a => /\ Awaits(laneQ'[l], b) <=> Awaits(laneQ[l], b)
                                /\ Has(laneQ[l], b) => Has(laneQ'[l], b)
  <2>1. /\ laneQ[l] \in Seq(Actors) /\ OnceIn(laneQ[l])
        /\ Awaits(laneQ[l], a) => Has(laneQ[l], a)
    BY <1>1 DEF Once, Leaves
  <2> QED BY <1>1, <1>2, <2>1
<1>4. ASSUME NEW c \in Characters
      PROVE  /\ characterQ'[c] \in Seq(Actors) /\ OnceIn(characterQ'[c]) /\ ~Awaits(characterQ'[c], a)
             /\ \A b : b # a => /\ Awaits(characterQ'[c], b) <=> Awaits(characterQ[c], b)
                                /\ Has(characterQ[c], b) => Has(characterQ'[c], b)
  <2>1. /\ characterQ[c] \in Seq(Actors) /\ OnceIn(characterQ[c])
        /\ Awaits(characterQ[c], a) => Has(characterQ[c], a)
    BY <1>1 DEF Once, Leaves
  <2> QED BY <1>1, <1>2, <2>1
<1>5. Queues'
  BY <1>1, <1>3, <1>4 DEF Queues
<1>6. Once'
  BY <1>3, <1>4 DEF Once
<1>7. \A b : b # a => Keeps(b)
  BY <1>3, <1>4 DEF Keeps
<1> QED BY <1>3, <1>4, <1>5, <1>6, <1>7

\* Whatever a handler does to the locks, it does to its own place only.
LEMMA TouchesOnly ==
  ASSUME Queues, Once, NEW a \in Actors, Touches(a)
  PROVE  Queues' /\ Once' /\ \A b : b # a => Keeps(b)
<1>1. CASE UNCHANGED locks
  BY <1>1 DEF Queues, Once, Keeps, locks
<1>2. CASE Joins(a)
  BY <1>2, JoinsLane, JoinsCharacter DEF Joins
<1>3. CASE Leaves(a)
  BY <1>3, LeavesAll
<1> QED BY <1>1, <1>2, <1>3 DEF Touches

-----------------------------------------------------------------------------
(* The inductive invariant.                                                 *)

Signs(i) == login[i].step \in {"lanes", "character"}

LoginTyped(i) ==
  /\ login[i] \in [step : {"idle", "exchanging", "lanes", "character"}, user : Somebody,
                   lane : 0..MaxLanes, character : Characters \cup {"none"}, hash : {0, 1},
                   plan : Plans, want : 0..MaxLanes]
  /\ login[i].step # "idle" => login[i].lane \in Lanes /\ login[i].user \in Users
  /\ Signs(i) => login[i].character \in Characters /\ login[i].want \in Lanes

\* A sign-in holds the lanes of its list from the last down to the one it
\* wants, which it waits for; the character comes when it has them all.
LoginLocks(i) ==
  /\ \A l \in Lanes :
       /\ Awaits(laneQ[l], i) => Signs(i) /\ l \in LanesToLock(login[i]) /\ l >= login[i].want
       /\ /\ Signs(i) /\ l \in LanesToLock(login[i])
          /\ l > login[i].want \/ login[i].step = "character"
          => Has(laneQ[l], i)
  /\ \A c \in Characters :
       Awaits(characterQ[c], i) => login[i].step = "character" /\ c = login[i].character

PurgeTyped(p) ==
  /\ purge[p] \in [step : {"idle", "lane", "characters"}, lane : 0..MaxLanes, user : Somebody,
                   want : SUBSET Characters]
  /\ purge[p].step # "idle" => purge[p].lane \in Lanes

\* A purge that waits for characters has the lane, and its guest is gone: the
\* lane has a link, hence holds something of somebody who is not.
PurgedIsGone(p) ==
  purge[p].step = "characters" =>
    purge[p].user \in Users /\ purge[p].user <= db.issued /\ Gone(db, purge[p].user)

PurgeLocks(p) ==
  /\ \A l \in Lanes : Awaits(laneQ[l], p) => purge[p].step # "idle" /\ l = purge[p].lane
  /\ purge[p].step = "characters" => Has(laneQ[purge[p].lane], p)
  /\ \A c \in Characters :
       Awaits(characterQ[c], p) => purge[p].step = "characters" /\ c \in purge[p].want

UnlinkTyped ==
  /\ unlink \in [step : {"idle", "waiting", "files"}, user : Somebody,
                 character : Characters \cup {"none"}]
  /\ unlink.step # "idle" => unlink.character \in Characters /\ "unlink" \in Unlinkers

UnlinkLocks(n) ==
  /\ \A l \in Lanes : ~Awaits(laneQ[l], n)
  /\ \A c \in Characters : Awaits(characterQ[c], n) => unlink.step # "idle" /\ c = unlink.character
  /\ unlink.step = "files" => Has(characterQ[unlink.character], n)

Sound(d) == DbTyped(d) /\ ForeignKeysHold(d) /\ Related(d)

LoginsOK == /\ DOMAIN login = Logins /\ login = [i \in Logins |-> login[i]]
            /\ \A i \in Logins : LoginTyped(i) /\ LoginLocks(i)
PurgesOK == /\ DOMAIN purge = Purgers /\ purge = [p \in Purgers |-> purge[p]]
            /\ \A p \in Purgers : PurgeTyped(p) /\ PurgedIsGone(p) /\ PurgeLocks(p)
UnlinkOK == UnlinkTyped /\ \A n \in Unlinkers : UnlinkLocks(n)
RestOK   == /\ owner \in [Characters -> {0, 1}] /\ Queues /\ Once
            /\ batch \subseteq Lanes /\ (batch # {} => "cleanup" \in Purgers)

IInv == Sound(db) /\ LoginsOK /\ PurgesOK /\ UnlinkOK /\ RestOK

\* A step of the database: a transaction that is written whole, or not at all.
DbSteps == Becomes(db, db') /\ ForeignKeysHold(db')

\* Nothing is written.
LEMMA NoDbStep ==
  ASSUME Sound(db), UNCHANGED db
  PROVE  DbSteps
<1>1. db.issued <= db.issued
  BY Fields DEF Sound
<1> QED BY <1>1 DEF DbSteps, Becomes, Sound

\* A transaction that may be rolled back.
LEMMA WrittenSteps ==
  ASSUME Sound(db), NEW d, Becomes(db, d), Written(d)
  PROVE  DbSteps /\ db' \in {db, d}
<1>1. CASE ForeignKeysHold(d)
  BY <1>1 DEF Written, DbSteps
<1>2. CASE ~ForeignKeysHold(d)
  <2>1. db' = db
    BY <1>2 DEF Written
  <2> QED BY <2>1, NoDbStep
<1> QED BY <1>1, <1>2

\* Each of these leaves the database sound.
LEMMA DbStepsSound ==
  ASSUME DbSteps
  PROVE  Sound(db)'
BY DEF DbSteps, Becomes, Sound

\* A handler that does nothing keeps what is true of it.
LEMMA LoginKept ==
  ASSUME NEW i, LoginTyped(i), LoginLocks(i), login'[i] = login[i], Keeps(i)
  PROVE  LoginTyped(i)' /\ LoginLocks(i)'
BY DEF LoginTyped, LoginLocks, Signs, Keeps

\* So does a purge: who is gone stays gone.
LEMMA PurgeKept ==
  ASSUME NEW p, Sound(db), PurgeTyped(p), PurgeLocks(p), PurgedIsGone(p), purge'[p] = purge[p], Keeps(p),
         DbSteps
  PROVE  PurgeTyped(p)' /\ PurgeLocks(p)' /\ PurgedIsGone(p)'
<1>1. PurgeTyped(p)'
  BY DEF PurgeTyped
<1>2. PurgeLocks(p)'
  BY DEF PurgeTyped, PurgeLocks, Keeps
<1>3. PurgedIsGone(p)'
  <2> SUFFICES ASSUME purge[p].step = "characters"
               PROVE  /\ purge[p].user \in Users /\ purge[p].user <= db'.issued
                      /\ Gone(db', purge[p].user)
    BY DEF PurgedIsGone
  <2>1. purge[p].user \in Users /\ purge[p].user <= db.issued /\ Gone(db, purge[p].user)
    BY DEF PurgedIsGone
  <2>2. db.issued <= db'.issued /\ Gone(db', purge[p].user)
    BY <2>1 DEF DbSteps, Becomes
  <2>3. db.issued \in Nat /\ db'.issued \in Nat /\ purge[p].user \in Nat
    <3>1. DbTyped(db) /\ DbTyped(db')
      BY DEF Sound, DbSteps, Becomes
    <3>2. db.issued \in Nat
      BY <3>1, Fields
    <3>3. db'.issued \in Nat
      BY <3>1, Fields
    <3> QED BY <2>1, <3>2, <3>3, Numbers
  <2> QED BY <2>1, <2>2, <2>3
<1> QED BY <1>1, <1>2, <1>3

\* So does the unlink.
LEMMA UnlinkKept ==
  ASSUME NEW n, UnlinkTyped, UnlinkLocks(n), UNCHANGED unlink, Keeps(n)
  PROVE  UnlinkLocks(n)'
BY DEF UnlinkTyped, UnlinkLocks, Keeps

\* No two handlers have one name.
LEMMA ActorsDiffer ==
  /\ \A i \in Logins : i \in Actors /\ \A p \in Purgers \cup Unlinkers : p # i
  /\ \A p \in Purgers : p \in Actors /\ \A n \in Unlinkers : n # p
  /\ \A n \in Unlinkers : n \in Actors
BY ActorsAssumption DEF Actors

\* A step of the database leaves every handler where it is.
LEMMA DbFrame ==
  ASSUME IInv, DbSteps, owner' \in [Characters -> {0, 1}],
         UNCHANGED <<login, purge, batch, unlink, locks>>
  PROVE  IInv'
<1>1. \A b : Keeps(b)
  BY DEF Keeps, locks
<1>2. Sound(db)'
  BY DbStepsSound
<1>3. LoginsOK'
  <2>1. ASSUME NEW i \in Logins PROVE LoginTyped(i)' /\ LoginLocks(i)'
    BY <1>1, LoginKept DEF IInv, LoginsOK
  <2> QED BY <2>1 DEF IInv, LoginsOK
<1>4. PurgesOK'
  <2>1. ASSUME NEW p \in Purgers PROVE PurgeTyped(p)' /\ PurgedIsGone(p)' /\ PurgeLocks(p)'
    BY <1>1, PurgeKept DEF IInv, PurgesOK
  <2> QED BY <2>1 DEF IInv, PurgesOK
<1>5. UnlinkOK'
  <2>1. UnlinkTyped'
    BY DEF IInv, UnlinkOK, UnlinkTyped
  <2>2. ASSUME NEW n \in Unlinkers PROVE UnlinkLocks(n)'
    BY <1>1, UnlinkKept DEF IInv, UnlinkOK
  <2> QED BY <2>1, <2>2 DEF UnlinkOK
<1>6. RestOK'
  BY DEF IInv, RestOK, Queues, Once, locks
<1> QED BY <1>2, <1>3, <1>4, <1>5, <1>6 DEF IInv

\* A step of one sign-in.
LEMMA LoginFrame ==
  ASSUME IInv, DbSteps, NEW i \in Logins, NEW s, login' = [login EXCEPT ![i] = s],
         Touches(i), UNCHANGED <<owner, purge, batch, unlink>>,
         LoginTyped(i)', LoginLocks(i)'
  PROVE  IInv'
<1>1. Queues' /\ Once' /\ \A b : b # i => Keeps(b)
  BY ActorsDiffer, TouchesOnly DEF IInv, RestOK
<1>2. Sound(db)'
  BY DbStepsSound
<1>3. LoginsOK'
  <2>1. /\ DOMAIN login' = Logins /\ login' = [j \in Logins |-> login'[j]]
        /\ \A j \in Logins : j # i => login'[j] = login[j]
    BY DEF IInv, LoginsOK
  <2>2. ASSUME NEW j \in Logins, j # i PROVE LoginTyped(j)' /\ LoginLocks(j)'
    BY <1>1, <2>1, <2>2, LoginKept DEF IInv, LoginsOK
  <2> QED BY <2>1, <2>2 DEF LoginsOK
<1>4. PurgesOK'
  <2>1. ASSUME NEW p \in Purgers PROVE PurgeTyped(p)' /\ PurgedIsGone(p)' /\ PurgeLocks(p)'
    BY <1>1, ActorsDiffer, PurgeKept DEF IInv, PurgesOK
  <2> QED BY <2>1 DEF IInv, PurgesOK
<1>5. UnlinkOK'
  <2>1. UnlinkTyped'
    BY DEF IInv, UnlinkOK, UnlinkTyped
  <2>2. ASSUME NEW n \in Unlinkers PROVE UnlinkLocks(n)'
    BY <1>1, ActorsDiffer, UnlinkKept DEF IInv, UnlinkOK
  <2> QED BY <2>1, <2>2 DEF UnlinkOK
<1>6. RestOK'
  BY <1>1 DEF IInv, RestOK
<1> QED BY <1>2, <1>3, <1>4, <1>5, <1>6 DEF IInv

\* A step of one purge.
LEMMA PurgeFrame ==
  ASSUME IInv, DbSteps, NEW p \in Purgers, NEW s, purge' = [purge EXCEPT ![p] = s],
         Touches(p), UNCHANGED <<owner, login, unlink>>, batch' \subseteq batch,
         PurgeTyped(p)', PurgedIsGone(p)', PurgeLocks(p)'
  PROVE  IInv'
<1>1. Queues' /\ Once' /\ \A b : b # p => Keeps(b)
  BY ActorsDiffer, TouchesOnly DEF IInv, RestOK
<1>2. Sound(db)'
  BY DbStepsSound
<1>3. LoginsOK'
  <2>1. ASSUME NEW i \in Logins PROVE LoginTyped(i)' /\ LoginLocks(i)'
    BY <1>1, ActorsDiffer, LoginKept DEF IInv, LoginsOK
  <2> QED BY <2>1 DEF IInv, LoginsOK
<1>4. PurgesOK'
  <2>1. /\ DOMAIN purge' = Purgers /\ purge' = [q \in Purgers |-> purge'[q]]
        /\ \A q \in Purgers : q # p => purge'[q] = purge[q]
    BY DEF IInv, PurgesOK
  <2>2. ASSUME NEW q \in Purgers, q # p PROVE PurgeTyped(q)' /\ PurgedIsGone(q)' /\ PurgeLocks(q)'
    BY <1>1, <2>1, <2>2, PurgeKept DEF IInv, PurgesOK
  <2> QED BY <2>1, <2>2 DEF PurgesOK
<1>5. UnlinkOK'
  <2>1. UnlinkTyped'
    BY DEF IInv, UnlinkOK, UnlinkTyped
  <2>2. ASSUME NEW n \in Unlinkers PROVE UnlinkLocks(n)'
    BY <1>1, ActorsDiffer, UnlinkKept DEF IInv, UnlinkOK
  <2> QED BY <2>1, <2>2 DEF UnlinkOK
<1>6. RestOK'
  BY <1>1 DEF IInv, RestOK
<1> QED BY <1>2, <1>3, <1>4, <1>5, <1>6 DEF IInv

\* A step of the unlink.
LEMMA UnlinkFrame ==
  ASSUME IInv, DbSteps, "unlink" \in Unlinkers, Touches("unlink"),
         UNCHANGED <<owner, login, purge, batch>>,
         UnlinkTyped', UnlinkLocks("unlink")'
  PROVE  IInv'
<1>1. Queues' /\ Once' /\ \A b : b # "unlink" => Keeps(b)
  BY ActorsDiffer, TouchesOnly DEF IInv, RestOK
<1>2. Sound(db)'
  BY DbStepsSound
<1>3. LoginsOK'
  <2>1. ASSUME NEW i \in Logins PROVE LoginTyped(i)' /\ LoginLocks(i)'
    BY <1>1, ActorsDiffer, LoginKept DEF IInv, LoginsOK
  <2> QED BY <2>1 DEF IInv, LoginsOK
<1>4. PurgesOK'
  <2>1. ASSUME NEW p \in Purgers PROVE PurgeTyped(p)' /\ PurgedIsGone(p)' /\ PurgeLocks(p)'
    BY <1>1, ActorsDiffer, PurgeKept DEF IInv, PurgesOK
  <2> QED BY <2>1 DEF IInv, PurgesOK
<1>5. UnlinkOK'
  BY ActorsAssumption DEF UnlinkOK
<1>6. RestOK'
  BY <1>1 DEF IInv, RestOK
<1> QED BY <1>2, <1>3, <1>4, <1>5, <1>6 DEF IInv

-----------------------------------------------------------------------------
(* Every step preserves the invariant.                                      *)

\* At the start nobody owns, holds or awaits anything.
LEMMA Starts == Init => IInv
<1> SUFFICES ASSUME Init PROVE IInv
  OBVIOUS
<1>1. /\ db.issued = 0 /\ db.users = {} /\ db.lanes = {} /\ db.link = {} /\ db.auth = {}
      /\ db.session = [l \in Lanes |-> [user |-> Nobody, live |-> FALSE]]
      /\ db.thread = [t \in Threads |-> [user |-> Nobody, lane |-> 0]]
      /\ db.request = [t \in Threads |-> [user |-> Nobody, lane |-> 0, busy |-> FALSE]]
      /\ db.account = [c \in Characters |-> [user |-> Nobody, hash |-> 0]]
  BY DEF Init, EmptyDb, NoSession, NoRow, NoRequest, NoAccount
<1>2. DbTyped(db)
  <2>1. Nobody \in Somebody /\ 0 \in 0..MaxLanes /\ 0 \in 0..MaxUsers
    BY BoundsAssumption DEF Somebody
  <2>2. DOMAIN db = {"issued", "users", "lanes", "session", "thread", "request", "account", "link", "auth"}
    BY DEF Init, EmptyDb
  <2>3. db \in Dbs
    <3>1. db.session \in [Lanes -> [user : Somebody, live : BOOLEAN]]
      BY <1>1, <2>1
    <3>2. db.thread \in [Threads -> [user : Somebody, lane : 0..MaxLanes]]
      BY <1>1, <2>1
    <3>3. db.request \in [Threads -> [user : Somebody, lane : 0..MaxLanes, busy : BOOLEAN]]
      BY <1>1, <2>1
    <3>4. db.account \in [Characters -> [user : Somebody, hash : {0, 1}]]
      BY <1>1, <2>1
    <3> QED BY <1>1, <2>1, <3>1, <3>2, <3>3, <3>4 DEF Dbs, Init, EmptyDb
  <2> QED BY <1>1, <2>3 DEF DbTyped, Nobody
<1>3. ForeignKeysHold(db)
  BY <1>1 DEF ForeignKeysHold
<1>4. Related(db)
  <2>1. \A m \in Lanes : \A w \in Users : ~On(db, m, w)
    BY <1>1, Numbers DEF On
  <2> QED BY <1>1, <2>1 DEF Related, LinksMatch, OneLiving, Together
<1>5. \A b : (\A l \in Lanes : ~Awaits(laneQ[l], b)) /\ (\A c \in Characters : ~Awaits(characterQ[c], b))
  BY DEF Init, Awaits
<1>6. LoginsOK
  <2>1. ASSUME NEW i \in Logins PROVE LoginTyped(i) /\ LoginLocks(i)
    <3>1. login[i] = NoLogin
      BY DEF Init
    <3>2. NoPlan \in Plans
      BY DEF NoPlan, Plans, Somebody
    <3> QED BY <1>5, <3>1, <3>2, BoundsAssumption DEF LoginTyped, LoginLocks, Signs, NoLogin, Somebody
  <2> QED BY <2>1 DEF LoginsOK, Init
<1>7. PurgesOK
  <2>1. ASSUME NEW p \in Purgers PROVE PurgeTyped(p) /\ PurgedIsGone(p) /\ PurgeLocks(p)
    <3>1. purge[p] = NoPurge
      BY DEF Init
    <3> QED BY <1>5, <3>1, BoundsAssumption DEF PurgeTyped, PurgedIsGone, PurgeLocks, NoPurge, Somebody
  <2> QED BY <2>1 DEF PurgesOK, Init
<1>8. UnlinkOK
  BY <1>5 DEF UnlinkOK, UnlinkTyped, UnlinkLocks, Init, NoUnlink, Somebody
<1>9. RestOK
  BY DEF RestOK, Queues, Once, OnceIn, Init
<1> QED BY <1>2, <1>3, <1>4, <1>6, <1>7, <1>8, <1>9 DEF IInv, Sound

\* The steps of guests, and of EVE.
LEMMA CreateSessionKeeps == ASSUME IInv, CreateSession PROVE IInv'
<1>1. DbSteps
  <2>1. PICK n \in Lanes :
          /\ db.issued + 1 \in Users /\ \A m \in db.lanes : m < n
          /\ db' = [db EXCEPT !.issued = db.issued + 1, !.users = @ \cup {db.issued + 1},
                              !.lanes = @ \cup {n},
                              !.session[n] = [user |-> db.issued + 1, live |-> TRUE]]
    BY DEF CreateSession
  <2> QED BY <2>1, CreateDb DEF DbSteps, IInv, Sound
<1>2. UNCHANGED <<owner, login, purge, batch, unlink, locks>>
  BY DEF CreateSession
<1> QED BY <1>1, <1>2, DbFrame DEF IInv, RestOK

\* A session that expires takes nothing from anybody.
LEMMA ExpireKeeps == ASSUME IInv, NEW l \in Lanes, Expire(l) PROVE IInv'
<1>1. DbSteps
  BY ExpireDb DEF Expire, DbSteps, IInv, Sound
<1>2. UNCHANGED <<owner, login, purge, batch, unlink, locks>>
  BY DEF Expire
<1> QED BY <1>1, <1>2, DbFrame DEF IInv, RestOK

\* A new conversation belongs to the user of the session and of the lane.
LEMMA TalkKeeps == ASSUME IInv, NEW l \in Lanes, NEW t \in Threads, Talk(l, t) PROVE IInv'
<1>1. DbSteps
  BY TalkDb DEF Talk, DbSteps, IInv, Sound
<1>2. UNCHANGED <<owner, login, purge, batch, unlink, locks>>
  BY DEF Talk
<1> QED BY <1>1, <1>2, DbFrame DEF IInv, RestOK

\* A new request belongs to the user, lane and conversation it is made in.
LEMMA SubmitKeeps == ASSUME IInv, NEW l \in Lanes, NEW t \in Threads, Submit(l, t) PROVE IInv'
<1>1. DbSteps
  <2> DEFINE u == db.session[l].user
             r == [user |-> u, lane |-> l, busy |-> TRUE]
  <2>1. db' = [db EXCEPT !.request[t] = r] /\ Live(db, l) /\ db.thread[t] = [user |-> u, lane |-> l]
    BY DEF Submit
  <2>2. DbTyped(db) /\ ForeignKeysHold(db) /\ Related(db)
    BY DEF IInv, Sound
  <2>3. u # Nobody /\ u \in db.users /\ l \in db.lanes
    BY <2>1, <2>2 DEF Live, ForeignKeysHold
  <2>4. r \in [user : Somebody, lane : 0..MaxLanes, busy : BOOLEAN]
    BY <2>2, <2>3, Fields, Numbers DEF Somebody
  <2> HIDE DEF r
  <2>5. r.user = u /\ r.lane = l
    BY DEF r
  <2>6. r.user # Nobody => /\ r.user \in db.users /\ r.lane \in db.lanes
                            /\ db.thread[t].user # Nobody /\ db.thread[t].lane = r.lane
    BY <2>1, <2>3, <2>5
  <2> QED BY <2>1, <2>2, <2>4, <2>6, RequestDb DEF DbSteps
<1>2. UNCHANGED <<owner, login, purge, batch, unlink, locks>>
  BY DEF Submit
<1> QED BY <1>1, <1>2, DbFrame DEF IInv, RestOK

\* A request that ends stays where it is.
LEMMA FinishKeeps == ASSUME IInv, NEW t \in Threads, Finish(t) PROVE IInv'
<1>1. DbSteps
  BY FinishDb DEF Finish, DbSteps, IInv, Sound
<1>2. UNCHANGED <<owner, login, purge, batch, unlink, locks>>
  BY DEF Finish
<1> QED BY <1>1, <1>2, DbFrame DEF IInv, RestOK

\* A sale changes nothing here until the new owner signs in.
LEMMA SellKeeps == ASSUME IInv, NEW c \in Characters, Sell(c) PROVE IInv'
<1>1. DbSteps
  BY NoDbStep DEF Sell, IInv
<1>2. UNCHANGED <<login, purge, batch, unlink, locks>> /\ owner' \in [Characters -> {0, 1}]
  BY DEF Sell, IInv, RestOK
<1> QED BY <1>1, <1>2, DbFrame

\* A pending sign-in that expires is only deleted.
LEMMA AuthAgesKeeps == ASSUME IInv, NEW l \in Lanes, NEW u \in Users, AuthAges(l, u) PROVE IInv'
<1>1. DbSteps
  <2>1. db' = [db EXCEPT !.auth = db.auth \ {<<l, u>>}]
    BY DEF AuthAges
  <2>2. /\ db.auth \ {<<l, u>>} \subseteq Lanes \X Users
        /\ \A a \in db.auth \ {<<l, u>>} : a[2] \in db.users
    BY Fields DEF IInv, Sound, ForeignKeysHold
  <2> QED BY <2>1, <2>2, AuthDb DEF DbSteps, IInv, Sound
<1>2. UNCHANGED <<owner, login, purge, batch, unlink, locks>>
  BY DEF AuthAges
<1> QED BY <1>1, <1>2, DbFrame DEF IInv, RestOK

\* A restart lets go of every lock, and forgets who held it.
LEMMA CrashKeeps == ASSUME IInv, Crash PROVE IInv'
<1>1. \A b : /\ \A l \in Lanes : ~Awaits(laneQ'[l], b)
             /\ \A c \in Characters : ~Awaits(characterQ'[c], b)
  BY DEF Crash, Awaits
<1>2. LoginsOK'
  <2>1. ASSUME NEW i \in Logins PROVE LoginTyped(i)' /\ LoginLocks(i)'
    <3>1. login'[i] = NoLogin
      BY DEF Crash
    <3>2. NoPlan \in Plans
      BY DEF NoPlan, Plans, Somebody
    <3> QED BY <1>1, <3>1, <3>2, BoundsAssumption DEF LoginTyped, LoginLocks, Signs, NoLogin, Somebody
  <2> QED BY <2>1 DEF LoginsOK, Crash
<1>3. PurgesOK'
  <2>1. ASSUME NEW p \in Purgers PROVE PurgeTyped(p)' /\ PurgedIsGone(p)' /\ PurgeLocks(p)'
    <3>1. purge'[p] = NoPurge
      BY DEF Crash
    <3> QED BY <1>1, <3>1, BoundsAssumption DEF PurgeTyped, PurgedIsGone, PurgeLocks, NoPurge, Somebody
  <2> QED BY <2>1 DEF PurgesOK, Crash
<1>4. UnlinkOK'
  BY <1>1 DEF UnlinkOK, UnlinkTyped, UnlinkLocks, Crash, NoUnlink, Somebody
<1>5. RestOK'
  BY DEF IInv, RestOK, Queues, Once, OnceIn, Crash
<1>6. Sound(db)'
  BY DEF Crash, IInv
<1> QED BY <1>2, <1>3, <1>4, <1>5, <1>6 DEF IInv

\* The cleanup selects lanes, and locks none.
LEMMA CleanupKeeps == ASSUME IInv, Cleanup PROVE IInv'
<1>1. /\ batch' \subseteq Lanes /\ "cleanup" \in Purgers
      /\ UNCHANGED <<db, owner, login, purge, unlink, laneQ, characterQ>>
  BY DEF Cleanup, locks
<1>2. LoginsOK' /\ PurgesOK' /\ UnlinkOK'
  BY <1>1 DEF IInv, LoginsOK, LoginTyped, LoginLocks, Signs, PurgesOK, PurgeTyped, PurgedIsGone,
              PurgeLocks, UnlinkOK, UnlinkTyped, UnlinkLocks
<1>3. RestOK' /\ Sound(db)'
  BY <1>1 DEF IInv, RestOK, Queues, Once
<1> QED BY <1>2, <1>3 DEF IInv

\* The unlink.
LEMMA UnlinkBeginKeeps ==
  ASSUME IInv, NEW l \in Lanes, NEW c \in Characters, UnlinkBegin(l, c) PROVE IInv'
<1>0. "unlink" \in Unlinkers /\ "unlink" \in Actors
  BY ActorsAssumption DEF UnlinkBegin, Actors
<1>1. Queues /\ Once /\ WaitsFor("unlink", c) /\ ~Awaits(characterQ[c], "unlink")
  BY <1>0 DEF UnlinkBegin, IInv, RestOK, UnlinkOK, UnlinkLocks
<1>2. Touches("unlink")
  BY <1>1 DEF Touches, Joins
<1>3. /\ \A d \in Characters : Awaits(characterQ[d], "unlink")' <=> (Awaits(characterQ[d], "unlink") \/ d = c)
      /\ \A m \in Lanes : Awaits(laneQ[m], "unlink")' <=> Awaits(laneQ[m], "unlink")
  BY <1>0, <1>1, JoinsCharacter
<1>4. /\ unlink.step = "idle"
      /\ unlink' = [step |-> "waiting", user |-> db.session[l].user, character |-> c]
      /\ UNCHANGED <<db, owner, login, purge, batch>>
  BY DEF UnlinkBegin
<1>5. UnlinkTyped'
  <2>1. db.session \in [Lanes -> [user : Somebody, live : BOOLEAN]]
    BY Fields DEF IInv, Sound
  <2> QED BY <1>0, <1>4, <2>1 DEF UnlinkTyped
<1>6. UnlinkLocks("unlink")'
  BY <1>0, <1>3, <1>4 DEF IInv, UnlinkOK, UnlinkLocks
<1>7. DbSteps
  BY <1>4, NoDbStep DEF IInv
<1> QED BY <1>0, <1>2, <1>4, <1>5, <1>6, <1>7, UnlinkFrame

\* Unlinking deletes links of the user and leaves the character's lock held.
LEMMA UnlinkRowsKeeps == ASSUME IInv, UnlinkRows PROVE IInv'
<1> DEFINE mine == {k \in db.link : k[2] = unlink.character /\ k[3] = unlink.user}
<1>1. /\ unlink.step = "waiting" /\ Has(characterQ[unlink.character], "unlink")
      /\ db' = [db EXCEPT !.link = db.link \ mine] /\ UNCHANGED <<owner, login, purge, batch>>
      /\ \/ unlink' = NoUnlink /\ Releases("unlink")
         \/ unlink' = [unlink EXCEPT !.step = "files"] /\ UNCHANGED locks
  BY DEF UnlinkRows
<1>2. DbSteps
  <2>1. db.link \ mine \in SUBSET db.link
    OBVIOUS
  <2> HIDE DEF mine
  <2> QED BY <1>1, <2>1, UnlinkDb DEF DbSteps, IInv, Sound
<1> HIDE DEF mine
<1>3. UnlinkTyped /\ unlink.character \in Characters /\ "unlink" \in Unlinkers
  BY <1>1 DEF IInv, UnlinkOK, UnlinkTyped
<1>4. CASE "unlink" \in Unlinkers
  <2>0. "unlink" \in Actors /\ Queues /\ Once /\ UnlinkLocks("unlink")
    BY <1>4, ActorsDiffer DEF IInv, RestOK, UnlinkOK
  <2>1. CASE unlink' = NoUnlink /\ Releases("unlink")
    <3>1. Leaves("unlink")
      BY <1>1, <2>0, <2>1 DEF Leaves, UnlinkLocks
    <3>2. /\ \A l \in Lanes : ~Awaits(laneQ[l], "unlink")'
          /\ \A c \in Characters : ~Awaits(characterQ[c], "unlink")'
      BY <2>0, <3>1, LeavesAll
    <3>3. UnlinkTyped' /\ UnlinkLocks("unlink")'
      BY <2>1, <3>2 DEF UnlinkTyped, UnlinkLocks, NoUnlink, Somebody
    <3> QED BY <1>1, <1>2, <1>4, <3>1, <3>3, UnlinkFrame DEF Touches
  <2>2. CASE unlink' = [unlink EXCEPT !.step = "files"] /\ UNCHANGED locks
    <3>1. /\ unlink'.step = "files" /\ unlink'.character = unlink.character
          /\ UNCHANGED <<laneQ, characterQ>>
      BY <1>3, <2>2 DEF UnlinkTyped, locks
    <3>2. UnlinkTyped'
      BY <1>3, <2>2 DEF UnlinkTyped
    <3>3. UnlinkLocks("unlink")'
      BY <1>1, <2>0, <3>1 DEF UnlinkLocks
    <3> QED BY <1>1, <1>2, <1>4, <2>2, <3>2, <3>3, UnlinkFrame DEF Touches
  <2> QED BY <1>1, <2>1, <2>2
<1> QED BY <1>3, <1>4

\* The end of unlinking deletes the account of a character no link names.
LEMMA UnlinkEndKeeps == ASSUME IInv, UnlinkEnd PROVE IInv'
<1>1. /\ unlink.step = "files" /\ unlink' = NoUnlink /\ Releases("unlink")
      /\ UNCHANGED <<owner, login, purge, batch>>
      /\ db' = IF \E k \in db.link : k[2] = unlink.character THEN db
               ELSE [db EXCEPT !.account[unlink.character] = NoAccount]
  BY DEF UnlinkEnd
<1>2. UnlinkTyped /\ unlink.character \in Characters /\ "unlink" \in Unlinkers
  BY <1>1 DEF IInv, UnlinkOK, UnlinkTyped
<1>3. DbSteps
  <2>1. CASE \E k \in db.link : k[2] = unlink.character
    BY <1>1, <2>1, NoDbStep DEF IInv
  <2>2. CASE ~ \E k \in db.link : k[2] = unlink.character
    BY <1>1, <1>2, <2>2, DetachDb DEF DbSteps, IInv, Sound
  <2> QED BY <2>1, <2>2
<1>4. CASE "unlink" \in Unlinkers
  <2>0. "unlink" \in Actors /\ Queues /\ Once /\ UnlinkLocks("unlink")
    BY <1>4, ActorsDiffer DEF IInv, RestOK, UnlinkOK
  <2>1. Leaves("unlink")
    BY <1>1, <2>0 DEF Leaves, UnlinkLocks
  <2>2. /\ \A l \in Lanes : ~Awaits(laneQ[l], "unlink")'
        /\ \A c \in Characters : ~Awaits(characterQ[c], "unlink")'
    BY <2>0, <2>1, LeavesAll
  <2>3. UnlinkTyped' /\ UnlinkLocks("unlink")'
    BY <1>1, <2>2 DEF UnlinkTyped, UnlinkLocks, NoUnlink, Somebody
  <2> QED BY <1>1, <1>3, <1>4, <2>1, <2>3, UnlinkFrame DEF Touches
<1> QED BY <1>2, <1>4

\* A logout or a cleanup begins.
LEMMA PurgeBegins ==
  ASSUME IInv, NEW p \in Purgers, NEW l \in Lanes, purge[p].step = "idle",
         purge' = [purge EXCEPT ![p] = [NoPurge EXCEPT !.step = "lane", !.lane = l]],
         Waits(p, l), UNCHANGED <<db, owner, login, unlink>>, batch' \subseteq batch
  PROVE  IInv'
<1>1. p \in Actors /\ Queues /\ Once /\ PurgeLocks(p) /\ DOMAIN purge = Purgers
  BY ActorsDiffer DEF IInv, RestOK, PurgesOK
<1>2. /\ \A m \in Lanes : ~Awaits(laneQ[m], p)
      /\ \A c \in Characters : ~Awaits(characterQ[c], p)
  BY <1>1 DEF PurgeLocks
<1>3. /\ \A m \in Lanes : Awaits(laneQ[m], p)' <=> (Awaits(laneQ[m], p) \/ m = l)
      /\ \A c \in Characters : Awaits(characterQ[c], p)' <=> Awaits(characterQ[c], p)
  BY <1>1, <1>2, JoinsLane
<1>4. purge'[p] = [step |-> "lane", lane |-> l, user |-> Nobody, want |-> {}]
  BY <1>1 DEF NoPurge
<1>5. PurgeTyped(p)' /\ PurgedIsGone(p)'
  <2>1. Nobody \in Somebody /\ l \in 0..MaxLanes
    BY Numbers DEF Somebody
  <2>2. purge'[p] \in [step : {"idle", "lane", "characters"}, lane : 0..MaxLanes, user : Somebody,
                      want : SUBSET Characters]
    <3>1. {} \in SUBSET Characters
      OBVIOUS
    <3>2. [step |-> "lane", lane |-> l, user |-> Nobody, want |-> {}]
            \in [step : {"idle", "lane", "characters"}, lane : 0..MaxLanes, user : Somebody,
                 want : SUBSET Characters]
      BY <2>1, <3>1
    <3> QED BY <1>4, <3>2
  <2>3. purge'[p].step = "lane" /\ purge'[p].lane = l
    BY <1>4
  <2>4. PurgeTyped(p)'
    BY <2>2, <2>3 DEF PurgeTyped
  <2> QED BY <2>3, <2>4 DEF PurgedIsGone
<1>6. PurgeLocks(p)'
  BY <1>2, <1>3, <1>4 DEF PurgeLocks
<1>7. DbSteps /\ Touches(p)
  BY <1>2, NoDbStep DEF IInv, Touches, Joins
<1> QED BY <1>5, <1>6, <1>7, PurgeFrame

\* Logout begins a purge that waits for the lane.
LEMMA LogoutKeeps == ASSUME IInv, NEW l \in Lanes, Logout(l) PROVE IInv'
BY PurgeBegins DEF Logout

\* The cleanup begins the purge of its next lane.
LEMMA CleanupNextKeeps == ASSUME IInv, NEW l \in Lanes, CleanupNext(l) PROVE IInv'
<1>1. "cleanup" \in Purgers
  BY DEF IInv, RestOK, CleanupNext
<1> QED BY <1>1, PurgeBegins DEF CleanupNext

\* No conversation of anybody with a character is touched.
SparesOwners ==
  \A t \in Threads : \/ db'.thread[t] = db.thread[t]
                     \/ \A c \in Characters : db.account[c].user # db.thread[t].user

\* The purge of a user without a character.
LEMMA PurgeWrites ==
  ASSUME IInv, NEW l \in Lanes, NEW u \in Users, Written(Purged(db, l, u)),
         \A c \in Characters : db.account[c].user # u
  PROVE  DbSteps /\ SparesOwners
<1>0. PICK d : d = Purged(db, l, u)
  OBVIOUS
<1>1. /\ Becomes(db, d)
      /\ \A t \in Threads : d.thread[t] = db.thread[t] \/ db.thread[t].user = u
  BY <1>0, PurgedDb DEF IInv, Sound
<1>2. DbSteps /\ db' \in {db, d}
  BY <1>0, <1>1, WrittenSteps DEF IInv
<1>3. SparesOwners
  BY <1>1, <1>2 DEF SparesOwners
<1> QED BY <1>2, <1>3

\* A purge that has ended holds nothing.
LEMMA PurgeEnds ==
  ASSUME IInv, NEW p \in Purgers, DbSteps, purge' = [purge EXCEPT ![p] = NoPurge], Leaves(p),
         UNCHANGED <<owner, login, batch, unlink>>
  PROVE  IInv'
<1>1. p \in Actors /\ Queues /\ Once /\ DOMAIN purge = Purgers
  BY ActorsDiffer DEF IInv, RestOK, PurgesOK
<1>2. /\ \A m \in Lanes : ~Awaits(laneQ[m], p)'
      /\ \A c \in Characters : ~Awaits(characterQ[c], p)'
  BY <1>1, LeavesAll
<1>3. purge'[p] = NoPurge
  BY <1>1
<1>4. PurgeTyped(p)' /\ PurgedIsGone(p)' /\ PurgeLocks(p)'
  BY <1>2, <1>3, BoundsAssumption DEF PurgeTyped, PurgedIsGone, PurgeLocks, NoPurge, Somebody
<1> QED BY <1>4, PurgeFrame DEF Touches

\* A purge that has its locks, or the next of them.
LEMMA PurgeGrantedKeeps ==
  ASSUME IInv, NEW p \in Purgers, PurgeGranted(p)
  PROVE  IInv' /\ SparesOwners
<1> DEFINE l == purge[p].lane
           u == db.session[l].user
           linked == {c \in Characters : \E k \in db.link : k[1] = l /\ k[2] = c}
           left == {c \in purge[p].want : ~Has(characterQ[c], p)}
<1>0. /\ PurgeTyped(p) /\ PurgedIsGone(p) /\ PurgeLocks(p) /\ DOMAIN purge = Purgers
      /\ p \in Actors /\ Queues /\ Once /\ DbTyped(db) /\ ForeignKeysHold(db) /\ Related(db)
      /\ Sound(db)
  BY ActorsDiffer DEF IInv, PurgesOK, RestOK, Sound
<1>1. UNCHANGED <<owner, login, batch, unlink>>
  BY DEF PurgeGranted
<1>2. purge[p].step # "idle" => l \in Lanes
  BY <1>0 DEF PurgeTyped
<1>3. CASE /\ purge[p].step = "lane" /\ Has(laneQ[l], p)
           /\ u # Nobody /\ ~Owns(db, u) /\ linked # {}
           /\ purge' = [purge EXCEPT ![p].step = "characters", ![p].user = u, ![p].want = linked]
           /\ \E c \in linked : WaitsFor(p, c)
           /\ UNCHANGED db
  <2>1. PICK c \in linked : WaitsFor(p, c)
    BY <1>3
  <2>2. u \in Users /\ u \in db.users /\ u <= db.issued
    <3>1. u \in db.users
      BY <1>0, <1>2, <1>3 DEF ForeignKeysHold
    <3>2. db.users \subseteq Users /\ db.users \subseteq 1..db.issued
      BY <1>0, Fields
    <3> QED BY <3>1, <3>2
  <2>3. Gone(db, u)
    <3>1. PICK k \in db.link : k[1] = l
      BY <1>3
    <3>2. k[3] \in Users /\ k[2] \in Characters /\ db.account[k[2]].user = k[3]
      BY <1>0, Fields DEF Related, LinksMatch
    <3>3. ~Gone(db, k[3]) /\ k[3] # u
      BY <1>3, <3>2 DEF Gone, Owns
    <3>4. On(db, l, u) /\ On(db, l, k[3])
      BY <3>1 DEF On
    <3> QED BY <1>0, <1>2, <1>3, <2>2, <3>2, <3>3, <3>4 DEF Related, OneLiving
  <2>4. /\ purge'[p].step = "characters" /\ purge'[p].lane = l /\ purge'[p].user = u
        /\ purge'[p].want = linked /\ PurgeTyped(p)'
    <3>1. linked \in SUBSET Characters
      OBVIOUS
    <3> HIDE DEF linked
    <3>2. purge'[p] = [purge[p] EXCEPT !.step = "characters", !.user = u, !.want = linked]
      BY <1>0, <1>3
    <3>3. u \in Somebody
      BY <2>2 DEF Somebody
    <3> HIDE DEF u
    <3>4. /\ purge'[p].step = "characters" /\ purge'[p].lane = l /\ purge'[p].user = u
          /\ purge'[p].want = linked
      BY <1>0, <3>2 DEF PurgeTyped
    <3>5. PurgeTyped(p)'
      BY <1>0, <1>2, <1>3, <3>1, <3>2, <3>3, <3>4 DEF PurgeTyped
    <3> QED BY <3>4, <3>5
  <2>5. ~Awaits(characterQ[c], p)
    BY <1>0, <1>3 DEF PurgeLocks
  <2>6. /\ \A d \in Characters : Awaits(characterQ[d], p)' <=> (Awaits(characterQ[d], p) \/ d = c)
        /\ \A m \in Lanes : /\ Awaits(laneQ[m], p)' <=> Awaits(laneQ[m], p)
                            /\ Has(laneQ[m], p) => Has(laneQ[m], p)'
    BY <1>0, <2>1, <2>5, JoinsCharacter
  <2>7. PurgeLocks(p)'
    BY <1>0, <1>2, <1>3, <2>4, <2>6 DEF PurgeLocks
  <2>8. PurgedIsGone(p)'
    BY <1>3, <2>2, <2>3, <2>4 DEF PurgedIsGone
  <2>9. DbSteps /\ Touches(p) /\ SparesOwners
    BY <1>0, <1>3, <2>1, <2>5, NoDbStep DEF Touches, Joins, SparesOwners
  <2>10. purge' = [purge EXCEPT ![p] = [purge[p] EXCEPT !.step = "characters", !.user = u, !.want = linked]]
    BY <1>3
  <2> QED BY <1>1, <2>4, <2>7, <2>8, <2>9, <2>10, PurgeFrame
<1>4. CASE /\ purge[p].step = "lane" /\ Has(laneQ[l], p)
           /\ CASE u = Nobody  -> UNCHANGED db
                [] Owns(db, u) -> db' = [db EXCEPT !.session[l] = NoSession]
                [] OTHER       -> Written(Purged(db, l, u))
           /\ purge' = [purge EXCEPT ![p] = NoPurge] /\ Releases(p)
  <2>1. DbSteps /\ SparesOwners
    <3>1. CASE UNCHANGED db
      BY <1>0, <3>1, NoDbStep DEF SparesOwners
    <3>2. CASE db' = [db EXCEPT !.session[l] = NoSession]
      <4>1. DbSteps
        BY <1>0, <1>2, <1>4, <3>2, DropDb DEF DbSteps
      <4>2. db'.thread = db.thread
        BY <1>0, <3>2 DEF DbTyped, Dbs
      <4> QED BY <4>1, <4>2 DEF SparesOwners
    <3>3. CASE u # Nobody /\ ~Owns(db, u) /\ Written(Purged(db, l, u))
      <4>1. l \in Lanes
        BY <1>2, <1>4
      <4>2. u \in Users
        <5>1. u \in db.users
          BY <1>0, <3>3, <4>1 DEF ForeignKeysHold
        <5> QED BY <1>0, <5>1, Fields
      <4>3. \A c \in Characters : db.account[c].user # u
        BY <3>3 DEF Owns
      <4> QED BY <3>3, <4>1, <4>2, <4>3, PurgeWrites
    <3> QED BY <1>4, <3>1, <3>2, <3>3
  <2>2. Leaves(p)
    BY <1>0, <1>4 DEF Leaves, PurgeLocks
  <2> QED BY <1>1, <1>4, <2>1, <2>2, PurgeEnds
<1>5. CASE /\ purge[p].step = "characters" /\ left # {}
           /\ \A c \in left : ~Awaits(characterQ[c], p)
           /\ \E c \in left : WaitsFor(p, c)
           /\ UNCHANGED <<db, purge>>
  <2>1. PICK c \in left : WaitsFor(p, c)
    BY <1>5
  <2>2. c \in Characters /\ c \in purge[p].want /\ ~Awaits(characterQ[c], p)
    BY <1>0, <1>5 DEF PurgeTyped
  <2>3. /\ \A d \in Characters : Awaits(characterQ[d], p)' <=> (Awaits(characterQ[d], p) \/ d = c)
        /\ \A m \in Lanes : /\ Awaits(laneQ[m], p)' <=> Awaits(laneQ[m], p)
                            /\ Has(laneQ[m], p) => Has(laneQ[m], p)'
    BY <1>0, <2>1, <2>2, JoinsCharacter
  <2>4. PurgeLocks(p)'
    BY <1>0, <1>2, <1>5, <2>2, <2>3 DEF PurgeLocks
  <2>5. PurgeTyped(p)' /\ PurgedIsGone(p)'
    BY <1>0, <1>5 DEF PurgeTyped, PurgedIsGone
  <2>6. DbSteps /\ Touches(p) /\ SparesOwners
    BY <1>0, <1>5, <2>1, <2>2, NoDbStep DEF Touches, Joins, SparesOwners
  <2>7. purge' = [purge EXCEPT ![p] = purge[p]]
    BY <1>0, <1>5 DEF IInv, PurgesOK
  <2> QED BY <1>1, <2>4, <2>5, <2>6, <2>7, PurgeFrame
<1>6. CASE /\ purge[p].step = "characters" /\ left = {}
           /\ Written(Purged(db, l, purge[p].user))
           /\ purge' = [purge EXCEPT ![p] = NoPurge] /\ Releases(p)
  <2>1. DbSteps /\ SparesOwners
    BY <1>0, <1>2, <1>6, PurgeWrites DEF PurgedIsGone, Gone
  <2>2. Leaves(p)
    BY <1>0, <1>6 DEF Leaves, PurgeLocks
  <2> QED BY <1>1, <1>6, <2>1, <2>2, PurgeEnds
<1> QED
  BY <1>3, <1>4, <1>5, <1>6 DEF PurgeGranted

\* A sign-in that has ended waits for nothing.
LEMMA LoginEnds ==
  ASSUME IInv, NEW i \in Logins, DbSteps, login' = [login EXCEPT ![i] = NoLogin],
         Leaves(i), UNCHANGED <<owner, purge, batch, unlink>>
  PROVE  IInv'
<1>1. i \in Actors /\ Queues /\ Once /\ DOMAIN login = Logins
  BY ActorsDiffer DEF IInv, RestOK, LoginsOK
<1>2. /\ \A m \in Lanes : ~Awaits(laneQ[m], i)'
      /\ \A c \in Characters : ~Awaits(characterQ[c], i)'
  BY <1>1, LeavesAll
<1>3. login'[i] = NoLogin
  BY <1>1
<1>4. NoPlan \in Plans
  BY DEF NoPlan, Plans, Somebody
<1>5. LoginTyped(i)' /\ LoginLocks(i)'
  BY <1>2, <1>3, <1>4, BoundsAssumption DEF LoginTyped, LoginLocks, Signs, NoLogin, Somebody
<1> QED BY <1>5, LoginFrame DEF Touches

\* A sign-in that has no lane yet waits for nothing.
LEMMA LoginFree ==
  ASSUME IInv, NEW i \in Logins, ~Signs(i)
  PROVE  /\ \A m \in Lanes : ~Awaits(laneQ[m], i)
         /\ \A c \in Characters : ~Awaits(characterQ[c], i)
BY DEF IInv, LoginsOK, LoginLocks, Signs

\* A sign-in before it locks, or that gives up there.
LEMMA LoginStepsAlone ==
  ASSUME IInv, NEW i \in Logins, ~Signs(i), DbSteps, NEW s, login' = [login EXCEPT ![i] = s],
         s.step \in {"idle", "exchanging"}, UNCHANGED <<owner, purge, batch, unlink, locks>>,
         LoginTyped(i)'
  PROVE  IInv'
<1>1. DOMAIN login = Logins
  BY DEF IInv, LoginsOK
<1>2. login'[i] = s
  BY <1>1
<1>3. LoginLocks(i)'
  BY <1>2, LoginFree DEF LoginLocks, Signs, locks
<1> QED BY <1>3, LoginFrame DEF Touches

\* The steps of a sign-in.
LEMMA CallbackKeeps ==
  ASSUME IInv, NEW i \in Logins, NEW l \in Lanes, Callback(i, l) PROVE IInv'
<1> DEFINE u == db.session[l].user
           s == [NoLogin EXCEPT !.step = "exchanging", !.lane = l, !.user = u]
<1>1. /\ login[i].step = "idle" /\ Live(db, l) /\ login' = [login EXCEPT ![i] = s]
      /\ db' = [db EXCEPT !.auth = db.auth \cup {<<l, u>>}]
      /\ UNCHANGED <<owner, purge, batch, unlink, locks>>
  BY DEF Callback
<1>2. u \in db.users /\ u \in Users
  BY <1>1, Fields DEF Live, IInv, Sound, ForeignKeysHold
<1>3. DbSteps
  <2>1. /\ db.auth \cup {<<l, u>>} \subseteq Lanes \X Users
        /\ \A a \in db.auth \cup {<<l, u>>} : a[2] \in db.users
    BY <1>2, Fields DEF IInv, Sound, ForeignKeysHold
  <2> QED BY <1>1, <2>1, AuthDb DEF DbSteps, IInv, Sound
<1>4. PICK n : n = NoLogin
  OBVIOUS
<1> DEFINE States == [step : {"idle", "exchanging", "lanes", "character"}, user : Somebody,
                      lane : 0..MaxLanes, character : Characters \cup {"none"}, hash : {0, 1},
                      plan : Plans, want : 0..MaxLanes]
<1>5. /\ s \in States /\ s.step = "exchanging" /\ s.lane = l /\ s.user = u
  <2>1. NoPlan \in Plans /\ 0 \in 0..MaxLanes /\ Nobody \in Somebody
    BY BoundsAssumption DEF NoPlan, Plans, Somebody
  <2>2. n \in States
    BY <1>4, <2>1 DEF NoLogin
  <2>3. s = [n EXCEPT !.step = "exchanging", !.lane = l, !.user = u]
    BY <1>4
  <2>4. l \in 0..MaxLanes /\ u \in Somebody
    BY <1>2, Numbers DEF Somebody
  <2> QED BY <2>2, <2>3, <2>4
<1> HIDE DEF s, u
<1>6. LoginTyped(i)'
  <2>1. login'[i] = s
    BY <1>1 DEF IInv, LoginsOK
  <2> QED BY <1>2, <1>5, <2>1 DEF LoginTyped, Signs
<1> QED BY <1>1, <1>3, <1>5, <1>6, LoginStepsAlone DEF Signs

\* A sign-in that EVE refuses ends before it asks for any lock.
LEMMA ExchangeFailsKeeps ==
  ASSUME IInv, NEW i \in Logins, ExchangeFails(i) PROVE IInv'
<1>1. /\ login[i].step = "exchanging" /\ login' = [login EXCEPT ![i] = NoLogin]
      /\ UNCHANGED <<db, owner, purge, batch, unlink, locks>>
  BY DEF ExchangeFails
<1>2. LoginTyped(i)'
  <2>1. NoPlan \in Plans /\ login'[i] = NoLogin
    BY <1>1 DEF NoPlan, Plans, Somebody, IInv, LoginsOK
  <2> QED BY <2>1, BoundsAssumption DEF LoginTyped, NoLogin, Signs, Somebody
<1>3. DbSteps /\ NoLogin.step = "idle" /\ ~Signs(i)
  BY <1>1, NoDbStep DEF IInv, NoLogin, Signs
<1> QED BY <1>1, <1>2, <1>3, LoginStepsAlone

\* The preliminary plan names the lanes to lock, from the last.
LEMMA ExchangeKeeps ==
  ASSUME IInv, NEW i \in Logins, NEW c \in Characters, Exchange(i, c) PROVE IInv'
<1> DEFINE s == [login[i] EXCEPT !.character = c, !.hash = owner[c], !.step = "lanes"]
           planned == [s EXCEPT !.plan = Plan(db, s)]
<1>0. /\ login[i].step = "exchanging" /\ UNCHANGED <<db, owner, purge, batch, unlink>>
      /\ DOMAIN login = Logins /\ LoginTyped(i) /\ i \in Actors /\ Queues /\ Once
      /\ Sound(db) /\ DbTyped(db) /\ owner[c] \in {0, 1} /\ DbSteps
  BY ActorsDiffer, NoDbStep DEF Exchange, IInv, LoginsOK, RestOK, Sound
<1>1. /\ \A m \in Lanes : ~Awaits(laneQ[m], i)
      /\ \A d \in Characters : ~Awaits(characterQ[d], i)
  BY <1>0, LoginFree DEF Signs
<1>2. CASE login' = [login EXCEPT ![i] = NoLogin] /\ UNCHANGED locks
  <2>1. LoginTyped(i)'
    <3>1. NoPlan \in Plans /\ login'[i] = NoLogin
      BY <1>0, <1>2 DEF NoPlan, Plans, Somebody
    <3> QED BY <3>1, BoundsAssumption DEF LoginTyped, NoLogin, Signs, Somebody
  <2>2. NoLogin.step = "idle" /\ ~Signs(i)
    BY <1>0 DEF NoLogin, Signs
  <2> QED BY <1>0, <1>2, <2>1, <2>2, LoginStepsAlone
<1>3. CASE \E l \in Lanes : /\ Last(l, LanesToLock(planned)) /\ Waits(i, l)
                            /\ login' = [login EXCEPT ![i] = [planned EXCEPT !.want = l]]
  <2>1. PICK l \in Lanes : /\ Last(l, LanesToLock(planned)) /\ Waits(i, l)
                           /\ login' = [login EXCEPT ![i] = [planned EXCEPT !.want = l]]
    BY <1>3
  <2>2. login[i] \in [step : {"idle", "exchanging", "lanes", "character"}, user : Somebody,
                      lane : 0..MaxLanes, character : Characters \cup {"none"}, hash : {0, 1},
                      plan : Plans, want : 0..MaxLanes]
        /\ login[i].lane \in Lanes /\ login[i].user \in Users
    BY <1>0 DEF LoginTyped
  <2>3. /\ s \in [step : {"idle", "exchanging", "lanes", "character"}, user : Somebody,
                  lane : 0..MaxLanes, character : Characters \cup {"none"}, hash : {0, 1},
                  plan : Plans, want : 0..MaxLanes]
        /\ s.lane = login[i].lane /\ s.user = login[i].user /\ s.character = c /\ s.step = "lanes"
        /\ Signing(s)
    BY <1>0, <2>2 DEF Signing
  <2> HIDE DEF s
  <2>4. PICK plan : plan = Plan(db, s)
    OBVIOUS
  <2>5. plan \in Plans
    BY <1>0, <2>3, <2>4, PlanIs DEF PlanFor
  <2>6. PICK r : r = [planned EXCEPT !.want = l]
    OBVIOUS
  <2>7. l \in 0..MaxLanes
    BY Numbers
  <2>8. /\ r \in [step : {"idle", "exchanging", "lanes", "character"}, user : Somebody,
                  lane : 0..MaxLanes, character : Characters \cup {"none"}, hash : {0, 1},
                  plan : Plans, want : 0..MaxLanes]
        /\ r.lane = s.lane /\ r.user = s.user /\ r.character = c /\ r.step = "lanes" /\ r.want = l
        /\ r.plan = planned.plan /\ planned.lane = s.lane
    BY <2>3, <2>4, <2>5, <2>6, <2>7
  <2> HIDE DEF planned
  <2>9. login'[i] = r
    BY <1>0, <2>1, <2>6
  <2>10. LoginTyped(i)'
    BY <2>2, <2>3, <2>8, <2>9 DEF LoginTyped, Signs
  <2>11. LanesToLock(r) = LanesToLock(planned)
    BY <2>8 DEF LanesToLock
  <2>12. /\ \A m \in Lanes : Awaits(laneQ[m], i)' <=> (Awaits(laneQ[m], i) \/ m = l)
         /\ \A d \in Characters : Awaits(characterQ[d], i)' <=> Awaits(characterQ[d], i)
    BY <1>0, <1>1, <2>1, JoinsLane
  <2>13. l \in LanesToLock(r) /\ \A m \in LanesToLock(r) : m <= l
    BY <2>1, <2>11 DEF Last
  <2>14. LoginLocks(i)'
    <3>1. ASSUME NEW m \in Lanes, Awaits(laneQ[m], i)' PROVE m = l
      BY <1>1, <2>12, <3>1
    <3>2. ASSUME NEW m \in Lanes, m \in LanesToLock(r) PROVE ~(m > r.want)
      BY <2>8, <2>13, <3>2, Numbers
    <3>3. \A d \in Characters : ~Awaits(characterQ[d], i)'
      BY <1>1, <2>12
    <3>4. l >= l
      BY Numbers
    <3>5. login[i]' = r
      BY <2>9
    <3> QED BY <2>8, <2>13, <3>1, <3>2, <3>3, <3>4, <3>5 DEF LoginLocks, Signs
  <2>15. Touches(i)
    BY <1>1, <2>1 DEF Touches, Joins
  <2> QED BY <1>0, <2>1, <2>10, <2>14, <2>15, LoginFrame
<1> QED BY <1>2, <1>3 DEF Exchange

\* The next lock: all lanes above the wanted one are held.
LEMMA LockGrantedKeeps ==
  ASSUME IInv, NEW i \in Logins, LockGranted(i) PROVE IInv'
<1> DEFINE s == login[i]
           left == {l \in LanesToLock(s) : l < s.want}
<1>0. /\ s.step = "lanes" /\ Has(laneQ[s.want], i) /\ UNCHANGED <<db, owner, purge, batch, unlink>>
      /\ DOMAIN login = Logins /\ LoginTyped(i) /\ LoginLocks(i) /\ i \in Actors /\ Queues /\ Once
      /\ DbSteps
  BY ActorsDiffer, NoDbStep DEF LockGranted, IInv, LoginsOK, RestOK
<1>1. /\ s \in [step : {"idle", "exchanging", "lanes", "character"}, user : Somebody,
                lane : 0..MaxLanes, character : Characters \cup {"none"}, hash : {0, 1},
                plan : Plans, want : 0..MaxLanes]
      /\ s.lane \in Lanes /\ s.user \in Users /\ s.character \in Characters /\ s.want \in Lanes
  BY <1>0 DEF LoginTyped, Signs
<1>2. LanesToLock(s) \subseteq Lanes
  BY <1>1 DEF LanesToLock, Plans
<1>3. ASSUME NEW m \in LanesToLock(s), m >= s.want PROVE Has(laneQ[m], i)
  <2>0. m \in Int /\ s.want \in Int
    BY <1>1, <1>2 DEF Lanes
  <2>1. m = s.want \/ m > s.want
    BY <1>3, <2>0
  <2> QED BY <1>0, <1>2, <2>1 DEF LoginLocks, Signs
<1>4. \A d \in Characters : ~Awaits(characterQ[d], i)
  BY <1>0 DEF LoginLocks
<1>5. CASE left = {} /\ login' = [login EXCEPT ![i].step = "character"] /\ WaitsFor(i, s.character)
  <2>1. PICK r : r = [s EXCEPT !.step = "character"]
    OBVIOUS
  <2>2. /\ r \in [step : {"idle", "exchanging", "lanes", "character"}, user : Somebody,
                  lane : 0..MaxLanes, character : Characters \cup {"none"}, hash : {0, 1},
                  plan : Plans, want : 0..MaxLanes]
        /\ r.lane = s.lane /\ r.user = s.user /\ r.character = s.character
        /\ r.step = "character" /\ r.want = s.want /\ r.plan = s.plan
    BY <1>1, <2>1
  <2>3. login' = [login EXCEPT ![i] = r] /\ login'[i] = r
    BY <1>0, <1>5, <2>1
  <2>4. LanesToLock(r) = LanesToLock(s)
    BY <2>2 DEF LanesToLock
  <2>5. LoginTyped(i)'
    BY <1>1, <2>2, <2>3 DEF LoginTyped, Signs
  <2>6. /\ \A d \in Characters : Awaits(characterQ[d], i)' <=> (Awaits(characterQ[d], i) \/ d = s.character)
        /\ \A m \in Lanes : /\ Awaits(laneQ[m], i)' <=> Awaits(laneQ[m], i)
                            /\ Has(laneQ[m], i) => Has(laneQ[m], i)'
    BY <1>0, <1>1, <1>4, <1>5, JoinsCharacter
  <2>7. LoginLocks(i)'
    <3>1. ASSUME NEW m \in Lanes, Awaits(laneQ[m], i)' PROVE m \in LanesToLock(r) /\ m >= r.want
      <4>1. Awaits(laneQ[m], i)
        BY <2>6, <3>1
      <4> QED BY <1>0, <2>2, <2>4, <4>1 DEF LoginLocks
    <3>2. ASSUME NEW m \in Lanes, m \in LanesToLock(r) PROVE Has(laneQ[m], i)'
      <4>1. m >= s.want
        BY <1>1, <1>2, <1>5, <2>4, <3>2, Numbers
      <4> QED BY <1>3, <2>4, <2>6, <3>2, <4>1
    <3>3. \A d \in Characters : Awaits(characterQ[d], i)' => d = r.character
      BY <1>4, <2>2, <2>6
    <3>4. login[i]' = r
      BY <2>3
    <3> QED BY <2>2, <3>1, <3>2, <3>3, <3>4 DEF LoginLocks, Signs
  <2>8. Touches(i)
    BY <1>1, <1>4, <1>5 DEF Touches, Joins
  <2> QED BY <1>0, <2>3, <2>5, <2>7, <2>8, LoginFrame
<1>6. CASE \E l \in left : /\ Last(l, left) /\ Waits(i, l)
                           /\ login' = [login EXCEPT ![i].want = l]
  <2>0. PICK l \in left : /\ Last(l, left) /\ Waits(i, l)
                          /\ login' = [login EXCEPT ![i].want = l]
    BY <1>6
  <2>1. PICK r : r = [s EXCEPT !.want = l]
    OBVIOUS
  <2>2. l \in LanesToLock(s) /\ l \in Lanes /\ l < s.want /\ l \in 0..MaxLanes
    BY <1>2, Numbers
  <2>3. /\ r \in [step : {"idle", "exchanging", "lanes", "character"}, user : Somebody,
                  lane : 0..MaxLanes, character : Characters \cup {"none"}, hash : {0, 1},
                  plan : Plans, want : 0..MaxLanes]
        /\ r.lane = s.lane /\ r.user = s.user /\ r.character = s.character
        /\ r.step = "lanes" /\ r.want = l /\ r.plan = s.plan
    BY <1>0, <1>1, <2>1, <2>2
  <2>4. login' = [login EXCEPT ![i] = r] /\ login'[i] = r
    BY <1>0, <2>0, <2>1
  <2>5. LanesToLock(r) = LanesToLock(s)
    BY <2>3 DEF LanesToLock
  <2>6. LoginTyped(i)'
    BY <1>1, <2>2, <2>3, <2>4 DEF LoginTyped, Signs
  <2>7. ~Awaits(laneQ[l], i)
    <3>1. ~(l >= s.want)
      BY <1>1, <2>2, Numbers
    <3> QED BY <1>0, <2>2, <3>1 DEF LoginLocks
  <2>8. /\ \A m \in Lanes : /\ Awaits(laneQ[m], i)' <=> (Awaits(laneQ[m], i) \/ m = l)
                            /\ Has(laneQ[m], i) => Has(laneQ[m], i)'
        /\ \A d \in Characters : Awaits(characterQ[d], i)' <=> Awaits(characterQ[d], i)
    BY <1>0, <2>0, <2>2, <2>7, JoinsLane
  <2>9. LoginLocks(i)'
    <3>1. ASSUME NEW m \in Lanes, Awaits(laneQ[m], i)' PROVE m \in LanesToLock(r) /\ m >= r.want
      <4>1. CASE m = l
        BY <2>2, <2>3, <2>5, <4>1, Numbers
      <4>2. CASE Awaits(laneQ[m], i)
        <5>1. m \in LanesToLock(s) /\ m >= s.want
          BY <1>0, <4>2 DEF LoginLocks
        <5>2. m >= l
          BY <1>1, <2>2, <5>1, Numbers
        <5> QED BY <2>3, <2>5, <5>1, <5>2
      <4> QED BY <2>8, <3>1, <4>1, <4>2
    <3>2. ASSUME NEW m \in Lanes, m \in LanesToLock(r), m > r.want PROVE Has(laneQ[m], i)'
      <4>1. m > l /\ m \in LanesToLock(s)
        BY <2>3, <2>5, <3>2
      <4>2. m \notin left
        BY <2>0, <2>2, <4>1, Numbers DEF Last
      <4>3. m >= s.want
        BY <1>1, <4>1, <4>2, Numbers
      <4> QED BY <1>3, <2>8, <4>1, <4>3
    <3>3. \A d \in Characters : ~Awaits(characterQ[d], i)'
      BY <1>4, <2>8
    <3>4. login[i]' = r
      BY <2>4
    <3> QED BY <2>3, <3>1, <3>2, <3>3, <3>4 DEF LoginLocks, Signs
  <2>10. Touches(i)
    BY <2>0, <2>2, <2>7 DEF Touches, Joins
  <2> QED BY <1>0, <2>4, <2>6, <2>9, <2>10, LoginFrame
<1> QED BY <1>5, <1>6 DEF LockGranted

\* What a sign-in writes it writes on lanes it holds.
CommitsHeld(i) ==
  /\ \A t \in Threads : db.thread[t].user # Nobody => db'.thread[t].user # Nobody
  /\ \A t \in Threads : db.request[t].busy => db'.request[t].busy
  /\ LET s == login[i]
     IN db'.session[s.lane].user # db.session[s.lane].user
          => db.account[s.character] = [user |-> db'.session[s.lane].user, hash |-> s.hash]
  /\ \A l \in Lanes : ~Has(laneQ[l], i) =>
       /\ db'.session[l] = db.session[l]
       /\ \A t \in Threads : db.thread[t].lane = l => db'.thread[t] = db.thread[t]

\* The commit: the lanes of the plan are all held, so none is anybody else's.
LEMMA CommitKeeps ==
  ASSUME IInv, NEW i \in Logins, Commit(i)
  PROVE  IInv' /\ CommitsHeld(i)
<1> DEFINE s == login[i]
<1>0. /\ s.step = "character" /\ Has(characterQ[s.character], i)
      /\ login' = [login EXCEPT ![i] = NoLogin] /\ Releases(i)
      /\ UNCHANGED <<owner, purge, batch, unlink>>
      /\ LoginTyped(i) /\ LoginLocks(i) /\ Sound(db)
      /\ DbTyped(db) /\ ForeignKeysHold(db) /\ Related(db)
  BY DEF Commit, ReleasesAll, IInv, LoginsOK, Sound
<1>1. PICK plan : plan = Plan(db, s)
  OBVIOUS
<1>2. db' = db \/ (Allowed(s, plan) /\ Written(SignedIn(db, s, plan)))
  BY <1>1 DEF Commit, FinalPlan
<1>3. Signing(s) /\ s.lane \in Lanes /\ s.plan.orphans \in SUBSET Lanes
  BY <1>0 DEF LoginTyped, Signs, Signing, Plans
<1>4. PlanFor(db, s, plan)
  BY <1>0, <1>1, <1>3, PlanIs
<1>5. Leaves(i)
  BY <1>0 DEF Leaves, LoginLocks, Signs
<1>6. \A l \in Lanes : l \in LanesToLock(s) => Has(laneQ[l], i)
  BY <1>0 DEF LoginLocks, Signs
<1>7. DbSteps /\ CommitsHeld(i)
  <2>1. CASE db' = db
    BY <1>0, <2>1, NoDbStep DEF CommitsHeld
  <2>2. CASE db' # db /\ Allowed(s, plan) /\ Written(SignedIn(db, s, plan))
    <3>1. PICK d : d = SignedIn(db, s, plan)
      OBVIOUS
    <3>2. Commits(db, d, s, plan)
      BY <1>0, <1>1, <1>3, <2>2, <3>1, SignedInDb DEF Allowed
    <3>3. Becomes(db, d)
      BY <3>2 DEF Commits
    <3>4. DbSteps /\ db' = d
      BY <1>0, <2>2, <3>1, <3>3, WrittenSteps
    <3>5. plan.orphans \subseteq LanesToLock(s) /\ s.lane \in LanesToLock(s)
      BY <1>4, <2>2 DEF PlanFor, Allowed, LanesToLock
    <3>6. ASSUME NEW l \in Lanes, ~Has(laneQ[l], i)
          PROVE  /\ d.session[l] = db.session[l]
                 /\ \A t \in Threads : db.thread[t].lane = l => d.thread[t] = db.thread[t]
      <4>1. l \notin plan.orphans /\ l # s.lane
        BY <1>6, <3>5, <3>6
      <4> QED BY <3>2, <4>1 DEF Commits
    <3>7. CommitsHeld(i)
      BY <3>2, <3>4, <3>6 DEF Commits, CommitsHeld
    <3> QED BY <3>4, <3>7
  <2> QED BY <1>2, <2>1, <2>2
<1> QED BY <1>0, <1>5, <1>7, LoginEnds

-----------------------------------------------------------------------------
(* The theorems.                                                            *)

\* The invariant is inductive.
LEMMA NextKeeps == ASSUME IInv, [Next]_vars PROVE IInv'
<1>1. CASE UNCHANGED vars
  <2>1. UNCHANGED <<login, purge, batch, unlink, locks>> /\ UNCHANGED db /\ UNCHANGED owner
    BY <1>1 DEF vars, locks
  <2>2. DbSteps /\ owner' \in [Characters -> {0, 1}]
    BY <2>1, NoDbStep DEF IInv, RestOK
  <2> QED BY <2>1, <2>2, DbFrame
<1>2. CASE CreateSession \/ Crash \/ Cleanup \/ UnlinkRows \/ UnlinkEnd
  BY <1>2, CreateSessionKeeps, CrashKeeps, CleanupKeeps, UnlinkRowsKeeps, UnlinkEndKeeps
<1>3. CASE \E l \in Lanes : Expire(l) \/ Logout(l) \/ CleanupNext(l)
  BY <1>3, ExpireKeeps, LogoutKeeps, CleanupNextKeeps
<1>4. CASE \E l \in Lanes, t \in Threads : Talk(l, t) \/ Submit(l, t)
  BY <1>4, TalkKeeps, SubmitKeeps
<1>5. CASE \E t \in Threads : Finish(t)
  BY <1>5, FinishKeeps
<1>6. CASE \E c \in Characters : Sell(c)
  BY <1>6, SellKeeps
<1>7. CASE \E l \in Lanes, u \in Users : AuthAges(l, u)
  BY <1>7, AuthAgesKeeps
<1>8. CASE \E l \in Lanes, c \in Characters : UnlinkBegin(l, c)
  BY <1>8, UnlinkBeginKeeps
<1>9. CASE \E p \in Purgers : PurgeGranted(p)
  BY <1>9, PurgeGrantedKeeps
<1>10. CASE \E i \in Logins : \/ ExchangeFails(i) \/ LockGranted(i) \/ Commit(i)
                              \/ \E l \in Lanes : Callback(i, l)
                              \/ \E c \in Characters : Exchange(i, c)
  BY <1>10, ExchangeFailsKeeps, LockGrantedKeeps, CommitKeeps, CallbackKeeps, ExchangeKeeps
<1> QED BY <1>1, <1>2, <1>3, <1>4, <1>5, <1>6, <1>7, <1>8, <1>9, <1>10 DEF Next

\* The invariant holds in every state of every behaviour.
THEOREM Invariant == Spec => []IInv
<1>1. Init => IInv
  BY Starts
<1>2. IInv /\ [Next]_vars => IInv'
  BY NextKeeps
<1> QED BY <1>1, <1>2, PTL DEF Spec

\* The state is well formed, and no handler that has ended holds or awaits a
\* lock: however it ended, by success, refusal, failure or with nothing to do.
THEOREM TypeCorrect == Spec => []TypeOK
<1>1. IInv => TypeOK
  <2> SUFFICES ASSUME IInv PROVE TypeOK
    OBVIOUS
  <2>0. DbTyped(db) /\ Queues /\ batch \subseteq Lanes
    BY DEF IInv, Sound, RestOK
  <2>1. ASSUME NEW i \in Logins, Signs(i) PROVE i \in Active
    BY <2>1 DEF Active, Signs
  <2>2. ASSUME NEW p \in Purgers, purge[p].step # "idle" PROVE p \in Active
    BY <2>2 DEF Active
  <2>3. ASSUME NEW n \in Unlinkers, unlink.step # "idle" PROVE n \in Active
    BY <2>3 DEF Active
  <2>4. ASSUME NEW l \in Lanes, NEW j \in DOMAIN laneQ[l] PROVE laneQ[l][j] \in Active
    <3>1. PICK a \in Actors : a = laneQ[l][j]
      BY <2>0, <2>4 DEF Queues
    <3>2. Awaits(laneQ[l], a)
      BY <2>4, <3>1 DEF Awaits
    <3>3. CASE a \in Logins
      BY <2>1, <3>1, <3>2, <3>3 DEF IInv, LoginsOK, LoginLocks
    <3>4. CASE a \in Purgers
      BY <2>2, <3>1, <3>2, <3>4 DEF IInv, PurgesOK, PurgeLocks
    <3>5. CASE a \in Unlinkers
      BY <3>2, <3>5 DEF IInv, UnlinkOK, UnlinkLocks
    <3> QED BY <3>1, <3>3, <3>4, <3>5 DEF Actors
  <2>5. ASSUME NEW c \in Characters, NEW j \in DOMAIN characterQ[c] PROVE characterQ[c][j] \in Active
    <3>1. PICK a \in Actors : a = characterQ[c][j]
      BY <2>0, <2>5 DEF Queues
    <3>2. Awaits(characterQ[c], a)
      BY <2>5, <3>1 DEF Awaits
    <3>3. CASE a \in Logins
      BY <2>1, <3>1, <3>2, <3>3 DEF IInv, LoginsOK, LoginLocks, Signs
    <3>4. CASE a \in Purgers
      BY <2>2, <3>1, <3>2, <3>4 DEF IInv, PurgesOK, PurgeLocks
    <3>5. CASE a \in Unlinkers
      BY <2>3, <3>1, <3>2, <3>5 DEF IInv, UnlinkOK, UnlinkLocks
    <3> QED BY <3>1, <3>3, <3>4, <3>5 DEF Actors
  <2>6. /\ db.issued \in 0..MaxUsers /\ db.users \subseteq 1..db.issued /\ db.lanes \subseteq Lanes
        /\ db.session \in [Lanes -> [user : {Nobody} \cup Users, live : BOOLEAN]]
        /\ db.thread \in [Threads -> [user : {Nobody} \cup Users, lane : 0..MaxLanes]]
        /\ db.request \in [Threads -> [user : {Nobody} \cup Users, lane : 0..MaxLanes, busy : BOOLEAN]]
        /\ db.account \in [Characters -> [user : {Nobody} \cup Users, hash : {0, 1}]]
        /\ db.link \subseteq Lanes \X Characters \X Users /\ db.auth \subseteq Lanes \X Users
    BY <2>0 DEF DbTyped, Dbs, Somebody
  <2> QED BY <2>0, <2>4, <2>5, <2>6 DEF TypeOK
<1> QED BY <1>1, Invariant, PTL

\* A link is always its character's owner's, and the purge of a guest who is
\* alone on the lane breaks no foreign key, whatever happened before.
THEOREM GuestsAreSound == Spec => []GuestsAndLinksSound
<1>1. IInv => GuestsAndLinksSound
  <2> SUFFICES ASSUME IInv PROVE GuestsAndLinksSound
    OBVIOUS
  <2>0. DbTyped(db) /\ ForeignKeysHold(db) /\ Related(db)
    BY DEF IInv, Sound
  <2>1. LinksMatchOwner
    BY <2>0 DEF Related, LinksMatch, LinksMatchOwner
  <2>2. ASSUME NEW l \in Lanes, NEW u, u = db.session[l].user, u # Nobody, ~Owns(db, u),
               \A t \in Threads : db.thread[t].lane = l => db.thread[t].user = u
        PROVE  ForeignKeysHold(Purged(db, l, u))
    <3>1. u \in Users
      BY <2>0, <2>2, Fields DEF ForeignKeysHold
    <3> QED BY <2>0, <2>2, <3>1, PurgeKeepsKeys
  <2>3. PurgeSucceeds
    BY <2>2 DEF PurgeSucceeds
  <2> QED BY <2>1, <2>3 DEF GuestsAndLinksSound
<1> QED BY <1>1, Invariant, PTL

\* No step drops a conversation of the owner of a character.
LEMMA StepSparesOwners ==
  ASSUME IInv, Next, NEW t \in Threads, db.thread[t].user # Nobody,
         NEW c \in Characters, db.account[c].user = db.thread[t].user
  PROVE  db'.thread[t] # NoRow
<1>0. DbTyped(db) /\ db.thread[t] # NoRow
  BY DEF IInv, Sound, NoRow
<1>1. CASE db'.thread[t] = db.thread[t]
  BY <1>0, <1>1
<1>2. ASSUME NEW l \in Lanes, NEW s \in Threads, Talk(l, s) PROVE db'.thread[t] = db.thread[t]
  <2>1. db' = [db EXCEPT !.thread[s] = [user |-> db.session[l].user, lane |-> l]] /\ db.thread[s] = NoRow
    BY <1>2 DEF Talk
  <2>2. db'.thread = [db.thread EXCEPT ![s] = [user |-> db.session[l].user, lane |-> l]]
    BY <1>0, <2>1 DEF DbTyped, Dbs
  <2>3. t # s
    BY <1>0, <2>1
  <2> QED BY <1>0, <2>2, <2>3, Fields
<1>3. ASSUME NEW p \in Purgers, PurgeGranted(p) PROVE db'.thread[t] = db.thread[t]
  BY <1>3, PurgeGrantedKeeps DEF SparesOwners
<1>4. ASSUME NEW i \in Logins, Commit(i) PROVE db'.thread[t] # NoRow
  <2>1. db'.thread[t].user # Nobody
    BY <1>4, CommitKeeps DEF CommitsHeld
  <2> QED BY <2>1 DEF NoRow
<1>5. ASSUME CreateSession \/ UnlinkRows \/ UnlinkEnd PROVE db'.thread = db.thread
  BY <1>0, <1>5 DEF CreateSession, UnlinkRows, UnlinkEnd, DbTyped, Dbs
<1>6. ASSUME NEW l \in Lanes, Expire(l) PROVE db'.thread = db.thread
  BY <1>0, <1>6 DEF Expire, DbTyped, Dbs
<1>7. ASSUME NEW l \in Lanes, NEW s \in Threads, Submit(l, s) PROVE db'.thread = db.thread
  BY <1>0, <1>7 DEF Submit, DbTyped, Dbs
<1>8. ASSUME NEW s \in Threads, Finish(s) PROVE db'.thread = db.thread
  BY <1>0, <1>8 DEF Finish, DbTyped, Dbs
<1>9. ASSUME NEW l \in Lanes, NEW u \in Users, AuthAges(l, u) PROVE db'.thread = db.thread
  BY <1>0, <1>9 DEF AuthAges, DbTyped, Dbs
<1>10. ASSUME NEW i \in Logins, NEW l \in Lanes, Callback(i, l) PROVE db'.thread = db.thread
  BY <1>0, <1>10 DEF Callback, DbTyped, Dbs
<1>11. ASSUME \/ Crash \/ Cleanup
              \/ \E l \in Lanes : Logout(l) \/ CleanupNext(l)
              \/ \E b \in Characters : Sell(b)
              \/ \E l \in Lanes, b \in Characters : UnlinkBegin(l, b)
              \/ \E i \in Logins : \/ ExchangeFails(i) \/ LockGranted(i)
                                   \/ \E b \in Characters : Exchange(i, b)
       PROVE  db' = db
  BY <1>11 DEF Crash, Cleanup, Logout, CleanupNext, Sell, UnlinkBegin, ExchangeFails, LockGranted, Exchange
<1> QED BY <1>1, <1>2, <1>3, <1>4, <1>5, <1>6, <1>7, <1>8, <1>9, <1>10, <1>11 DEF Next

\* Nobody loses: not the owner of a character a conversation, not anybody a
\* request under way; the lane changes hands only to the character's owner, and
\* what a sign-in writes it writes on lanes whose locks it holds.
THEOREM NobodyIsRobbed == Spec => NobodyLoses
<1>1. IInv /\ [Next]_vars =>
        [\A t \in Threads :
           db.thread[t].user # Nobody /\ (\E c \in Characters : db.account[c].user = db.thread[t].user)
             => db'.thread[t] # NoRow]_vars
  BY StepSparesOwners
<1>2. IInv /\ [Next]_vars =>
        [\A i \in Logins : Commit(i) =>
           \A t \in Threads : db.request[t].busy => db'.request[t].busy]_vars
  BY CommitKeeps DEF CommitsHeld
<1>3. IInv /\ [Next]_vars =>
        [\A i \in Logins : Commit(i) =>
           LET s == login[i]
           IN db'.session[s.lane].user # db.session[s.lane].user
                => db.account[s.character] = [user |-> db'.session[s.lane].user, hash |-> s.hash]]_vars
  BY CommitKeeps DEF CommitsHeld
<1>4. IInv /\ [Next]_vars =>
        [\A i \in Logins, l \in Lanes : Commit(i) /\ ~Has(laneQ[l], i) =>
           /\ db'.session[l] = db.session[l]
           /\ \A t \in Threads : db.thread[t].lane = l => db'.thread[t] = db.thread[t]]_vars
  BY CommitKeeps DEF CommitsHeld
<1>5. Spec => OwnedDataKept
  BY <1>1, Invariant, PTL DEF Spec, OwnedDataKept
<1>6. Spec => InFlightKept
  BY <1>2, Invariant, PTL DEF Spec, InFlightKept
<1>7. Spec => SellerKeepsIdentity
  BY <1>3, Invariant, PTL DEF Spec, SellerKeepsIdentity
<1>8. Spec => HeldLanesOnly
  BY <1>4, Invariant, PTL DEF Spec, HeldLanesOnly
<1> QED BY <1>5, <1>6, <1>7, <1>8 DEF NobodyLoses

-----------------------------------------------------------------------------
\* The instances TLC checks: every request has the same idempotency key, and
\* the conversations are alike, and so are the characters.
OneKey == [t \in Threads |-> "key"]
Alike  == Permutations(Threads) \cup Permutations(Characters)
=============================================================================
