----------------------------- MODULE WebAdmission -----------------------------
(***************************************************************************)
(* The budgets of what browsers may ask of the model (web-admission.ts):   *)
(* requests and cost units, per user and for all, in a window and in a     *)
(* day; and the sessions that one address may open.  What was admitted is  *)
(* a table, which a start prunes and the merge of a guest into an account  *)
(* rewrites.  A check and its insert are one synchronous step.             *)
(***************************************************************************)
EXTENDS Integers, FiniteSetsExt

CONSTANTS
  Users, Ips,
  Cost,            \* of each kind of request: its cost units
  Window, Day,     \* requestWindowSeconds and a day
  SessionWindow,   \* sessionCreationWindowSeconds
  Retention,       \* requestRetentionDays
  MaxUserWindow, MaxGlobalWindow, MaxGlobalDay,
  MaxUserCost, MaxGlobalCost, MaxDayCost,
  MaxSessions,     \* maxSessionCreationsPerWindow
  MaxEvents, MaxTime  \* bounds on the events and on the clock

Kinds == DOMAIN Cost

VARIABLES
  now,
  events,    \* web_admission_events
  accepted,  \* all that was ever admitted, as it was then
  merged     \* guests that an account took in, and that account

vars == <<now, events, accepted, merged>>

Event == [id : 1..MaxEvents, kind : Kinds \cup {"session"}, user : Users, ip : Ips, cost : Nat,
          at : 0..MaxTime]

TypeOK ==
  /\ now \in 0..MaxTime
  /\ events \subseteq Event /\ accepted \subseteq Event
  /\ merged \in [Users -> Users]

Init == now = 0 /\ events = {} /\ accepted = {} /\ merged = [u \in Users |-> u]

-----------------------------------------------------------------------------
LaterStart(e, span) == e.at > now - span                           \* a bug
Since(e, span) == e.at >= now - span

Recent(kind, span) == {e \in events : e.kind = kind /\ Since(e, span)}

\* The pool of cost units is one for all kinds.
SpentOnKind(E, kind) == MapThenSumSet(LAMBDA e : e.cost, {e \in E : e.kind = kind})  \* a bug
Spent(E, kind) == MapThenSumSet(LAMBDA e : e.cost, E)

SpentSince(kind, span) == Spent({e \in events : Since(e, span)}, kind)
SpentBy(u, kind) == Spent({e \in events : e.user = u /\ Since(e, Window)}, kind)

InRequests(kind, u, ip) ==
  /\ Cardinality({e \in Recent(kind, Window) : e.user = u}) < MaxUserWindow
  /\ Cardinality(Recent(kind, Window)) < MaxGlobalWindow
  /\ Cardinality(Recent(kind, Day)) < MaxGlobalDay
  /\ Cardinality({e \in Recent(kind, Window) : e.ip = ip}) < MaxGlobalWindow

InCost(kind, u) ==
  /\ SpentBy(u, kind) + Cost[kind] <= MaxUserCost
  /\ SpentSince(kind, Window) + Cost[kind] <= MaxGlobalCost
  /\ SpentSince(kind, Day) + Cost[kind] <= MaxDayCost

\* The account a browser of u acts for.
Acts(u) == merged[u] = u

Insert(kind, u, ip, cost) ==
  LET e == [id |-> Cardinality(accepted) + 1, kind |-> kind, user |-> u, ip |-> ip, cost |-> cost,
            at |-> now]
  IN /\ Cardinality(accepted) < MaxEvents
     /\ events' = events \cup {e} /\ accepted' = accepted \cup {e}

\* A message of a chat, or a search by the model.
Admit(kind, u, ip) ==
  /\ Acts(u) /\ InRequests(kind, u, ip)
  /\ Cost[kind] > 0 => InCost(kind, u)
  /\ Insert(kind, u, ip, Cost[kind])
  /\ UNCHANGED <<now, merged>>

\* A new session, of a new guest.
CreateSession(u, ip) ==
  /\ Acts(u) /\ \A e \in accepted : e.user # u
  /\ Cardinality({e \in Recent("session", SessionWindow) : e.ip = ip}) < MaxSessions
  /\ Insert("session", u, ip, 0)
  /\ UNCHANGED <<now, merged>>

\* recoverAfterRestart
PrunedToWindow(e) == e.at < now - Window                           \* a bug
Outdated(e) == e.at < now - Max({1, Retention}) * Day

Restart ==
  /\ events' = {e \in events : ~Outdated(e)}
  /\ UNCHANGED <<now, accepted, merged>>

\* A guest signs in with a character of another user.
LeftBehind(guest, u) == events                                     \* a bug
Moved(guest, u) == {IF e.user = guest THEN [e EXCEPT !.user = u] ELSE e : e \in events}

Merge(guest, u) ==
  /\ guest # u /\ Acts(guest) /\ Acts(u)
  /\ events' = Moved(guest, u)
  /\ merged' = [v \in Users |-> IF merged[v] = guest THEN u ELSE merged[v]]
  /\ UNCHANGED <<now, accepted>>

Tick ==
  /\ now < MaxTime /\ now' = now + 1
  /\ UNCHANGED <<events, accepted, merged>>

Next ==
  \/ \E u \in Users, ip \in Ips :
       \/ CreateSession(u, ip)
       \/ \E kind \in Kinds : Admit(kind, u, ip)
  \/ Restart \/ Tick
  \/ \E guest, u \in Users : Merge(guest, u)

Spec == Init /\ [][Next]_vars

-----------------------------------------------------------------------------
(* Against all that was ever admitted, and who is whom.                    *)

Within(t, span) == {e \in accepted : e.at >= t - span /\ e.at <= t}
OfPerson(E, u) == {e \in E : merged[e.user] = u}
OfKind(E, kind) == {e \in E : e.kind = kind}
CostOf(E) == MapThenSumSet(LAMBDA e : e.cost, E)

\* What is admitted leaves every budget of all users together unbroken, at any
\* time, whatever a start has pruned; both kinds draw on one pool of cost.
GlobalBudgets ==
  /\ CostOf(Within(now, Window)) <= MaxGlobalCost /\ CostOf(Within(now, Day)) <= MaxDayCost
  /\ \A kind \in Kinds : /\ Cardinality(OfKind(Within(now, Window), kind)) <= MaxGlobalWindow
                         /\ Cardinality(OfKind(Within(now, Day), kind)) <= MaxGlobalDay
  /\ \A ip \in Ips :
       Cardinality({e \in OfKind(Within(now, SessionWindow), "session") : e.ip = ip}) <= MaxSessions

\* Nothing is admitted beyond the budgets of a user, to whom belongs what he
\* did as a guest: signing in frees nothing.
UserBudgets ==
  \A e \in accepted' \ accepted :
    LET mine == OfPerson(Within(now, Window), e.user)
    IN e.kind # "session" =>
         /\ CostOf(mine) + e.cost <= MaxUserCost
         /\ Cardinality(OfKind(mine, e.kind)) < MaxUserWindow

AdmissionState == GlobalBudgets
AdmissionStep == UserBudgets
=============================================================================
