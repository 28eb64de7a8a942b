----------------------------- MODULE EveTokens -----------------------------
(***************************************************************************)
(* The EVE access token of one character (eve/sso.ts).  getAccessToken     *)
(* serves the stored token while it lives and refreshes it otherwise: one  *)
(* refresh at a time per character, shared by every caller that comes      *)
(* while it is in flight.  Meanwhile the character may be signed in again, *)
(* sold to another account, unlinked, or the process may restart.          *)
(*                                                                         *)
(* A grant is the pair of tokens of one answer of EVE SSO.  Its line is    *)
(* the sign-in it descends from by refreshes.                              *)
(***************************************************************************)
EXTENDS Integers, Sequences

CONSTANTS Users, Callers,
          UserOf,       \* the user a caller acts for
          MaxSignIns,   \* bound on the sign-ins
          MaxGrants,    \* bound on the grants EVE SSO hands out
          Nothing       \* null, undefined or no row

Attempts == 2           \* maxAttempts of the refresh request
Lines == 1..MaxSignIns
Grants == [id : 1..MaxGrants, line : Lines, owner : Users]

VARIABLES
  account,   \* the eve_accounts row: its user, its grant, not yet expired
  signIns,   \* the sign-ins so far: the user of each line
  owner,     \* EVE: the account that owns the character
  live,      \* EVE SSO: ids of the grants whose refresh token it accepts
  minted,    \* EVE SSO: grants handed out
  inFlight,  \* refreshInFlight: the caller whose refresh it is
  backoff,   \* refreshBackoff: the rejected grant's id, still paused or not
  pc,        \* each caller: "idle", "joined", "asking" or "verifying"
  from,      \* of a refreshing caller: the row it read
  attempt,   \* of a refreshing caller: which attempt
  reply,     \* of a refreshing caller: the grant EVE SSO answered
  answer     \* each caller: what its last getAccessToken returned

db == <<account, signIns>>
eve == <<owner, live, minted>>
callers == <<pc, from, attempt, reply, answer>>
vars == <<db, eve, inFlight, backoff, callers>>

Pauses == [id : 1..MaxGrants, paused : BOOLEAN]
Accounts == [user : Users, grant : Grants, fresh : BOOLEAN]

TypeOK ==
  /\ account \in Accounts \cup {Nothing}
  /\ signIns \in Seq(Users) /\ Len(signIns) <= MaxSignIns
  /\ owner \in Users /\ live \subseteq 1..MaxGrants /\ minted \in 0..MaxGrants
  /\ inFlight \in Callers \cup {Nothing}
  /\ backoff \in Pauses \cup {Nothing}
  /\ pc \in [Callers -> {"idle", "joined", "asking", "verifying"}]
  /\ from \in [Callers -> Accounts \cup {Nothing}]
  /\ attempt \in [Callers -> 1..Attempts]
  /\ reply \in [Callers -> Grants \cup {Nothing}]
  /\ answer \in [Callers -> Grants \cup {Nothing}]

Init ==
  /\ account = Nothing /\ signIns = << >>
  /\ owner \in Users /\ live = {} /\ minted = 0
  /\ inFlight = Nothing /\ backoff = Nothing
  /\ pc = [c \in Callers |-> "idle"]
  /\ from = [c \in Callers |-> Nothing]
  /\ attempt = [c \in Callers |-> 1]
  /\ reply = [c \in Callers |-> Nothing]
  /\ answer = [c \in Callers |-> Nothing]

-----------------------------------------------------------------------------
(* EVE and the sign-in callback.                                           *)

\* The callback stores the grant of its token exchange for the signed-in user;
\* the character leaves its previous user with it.
SignIn(u) ==
  LET line  == Len(signIns) + 1
      grant == [id |-> minted + 1, line |-> line, owner |-> u]
  IN /\ line <= MaxSignIns /\ minted < MaxGrants
     /\ owner = u
     /\ signIns' = Append(signIns, u)
     /\ minted' = minted + 1 /\ live' = live \cup {grant.id}
     /\ account' = [user |-> u, grant |-> grant, fresh |-> TRUE]
     /\ UNCHANGED <<owner, inFlight, backoff, callers>>

\* The last link of the character goes, and its row with it.
Unlink ==
  /\ account # Nothing /\ account' = Nothing
  /\ UNCHANGED <<signIns, eve, inFlight, backoff, callers>>

\* The character moves to another EVE account; EVE may revoke its grants.
Sell(u) ==
  /\ owner # u /\ owner' = u
  /\ live' \in {live, {}}
  /\ UNCHANGED <<db, minted, inFlight, backoff, callers>>

\* A token lives for twenty minutes, a refresh for seconds: one that is signed
\* in while a refresh is in flight does not expire before it ends.
Expire ==
  /\ account # Nothing /\ account.fresh /\ inFlight = Nothing
  /\ account' = [account EXCEPT !.fresh = FALSE]
  /\ UNCHANGED <<signIns, eve, inFlight, backoff, callers>>

-----------------------------------------------------------------------------
(* getAccessToken.                                                         *)

\* getLinkedCharacter: the caller's user holds the character.
Linked(c) == account # Nothing /\ account.user = UserOf[c]

\* activeRefreshBackoff; a rejection of another refresh token is forgotten.
Paused(grant) == backoff # Nothing /\ backoff.id = grant.id /\ backoff.paused
Forgotten(grant) == IF backoff # Nothing /\ backoff.id # grant.id THEN Nothing ELSE backoff

Return(c, a) ==
  /\ answer' = [answer EXCEPT ![c] = a]
  /\ UNCHANGED <<pc, from, attempt, reply>>

\* No await up to here: the row, the backoff and the flight are read at once.
ServeStored(c) ==
  /\ pc[c] = "idle"
  /\ \/ ~Linked(c) /\ Return(c, Nothing) /\ UNCHANGED backoff
     \/ Linked(c) /\ account.fresh /\ Return(c, account.grant) /\ UNCHANGED backoff
     \/ /\ Linked(c) /\ ~account.fresh /\ Paused(account.grant)
        /\ Return(c, Nothing) /\ UNCHANGED backoff
  /\ UNCHANGED <<db, eve, inFlight>>

Join(c) ==
  /\ pc[c] = "idle" /\ Linked(c) /\ ~account.fresh /\ ~Paused(account.grant)
  /\ inFlight # Nothing
  /\ backoff' = Forgotten(account.grant)
  /\ pc' = [pc EXCEPT ![c] = "joined"]
  /\ UNCHANGED <<db, eve, inFlight, from, attempt, reply, answer>>

StartRefresh(c) ==
  /\ pc[c] = "idle" /\ Linked(c) /\ ~account.fresh /\ ~Paused(account.grant)
  /\ inFlight = Nothing
  /\ backoff' = Forgotten(account.grant)
  /\ inFlight' = c
  /\ pc' = [pc EXCEPT ![c] = "asking"]
  /\ from' = [from EXCEPT ![c] = account]
  /\ attempt' = [attempt EXCEPT ![c] = 1]
  /\ UNCHANGED <<db, eve, reply, answer>>

OnlyOwnResolved(c, a) ==                                           \* a bug
  /\ pc' = [pc EXCEPT ![c] = "idle"]
  /\ answer' = [answer EXCEPT ![c] = a]
  /\ from' = [from EXCEPT ![c] = Nothing]
  /\ reply' = [reply EXCEPT ![c] = Nothing]
  /\ attempt' = [attempt EXCEPT ![c] = 1]
  /\ inFlight' = Nothing

\* The refresh resolves: its caller and those that joined it go on with the
\* same value, and the finally block takes it out of refreshInFlight.
Resolve(c, a) ==
  LET done == {c} \cup {j \in Callers : pc[j] = "joined"}
  IN /\ pc' = [j \in Callers |-> IF j \in done THEN "idle" ELSE pc[j]]
     /\ answer' = [j \in Callers |-> IF j \in done THEN a ELSE answer[j]]
     /\ from' = [from EXCEPT ![c] = Nothing]
     /\ reply' = [reply EXCEPT ![c] = Nothing]
     /\ attempt' = [attempt EXCEPT ![c] = 1]
     /\ inFlight' = Nothing

-----------------------------------------------------------------------------
(* refreshAccessToken.                                                     *)

Accepts(c) == from[c].grant.id \in live

\* EVE SSO answers a refresh: the grant's line goes on, with the same refresh
\* token or with a new one that replaces it.
Refreshed(c, g) ==
  /\ pc[c] = "asking" /\ Accepts(c)
  /\ \/ /\ g = [from[c].grant EXCEPT !.owner = owner]
        /\ UNCHANGED <<live, minted>>
     \/ /\ minted < MaxGrants
        /\ g = [id |-> minted + 1, line |-> from[c].grant.line, owner |-> owner]
        /\ minted' = minted + 1
        /\ live' = (live \ {from[c].grant.id}) \cup {minted + 1}
  /\ UNCHANGED owner

\* A success ends the backoff; the token is then verified, which awaits.
Succeed(c) ==
  \E g \in Grants :
    /\ Refreshed(c, g)
    /\ backoff' = Nothing
    /\ pc' = [pc EXCEPT ![c] = "verifying"]
    /\ reply' = [reply EXCEPT ![c] = g]
    /\ UNCHANGED <<db, inFlight, from, attempt, answer>>

\* fetchRetrying: the answer is lost, or EVE SSO is busy, and the request is
\* sent once more with the same refresh token; then the refresh gives up.
Retry(c) ==
  /\ pc[c] = "asking"
  /\ UNCHANGED eve \/ \E g \in Grants : Refreshed(c, g)
  /\ IF attempt[c] < Attempts
     THEN /\ attempt' = [attempt EXCEPT ![c] = @ + 1]
          /\ UNCHANGED <<pc, from, reply, answer, inFlight>>
     ELSE Resolve(c, Nothing)
  /\ UNCHANGED <<db, backoff>>

\* 400 or 401: recordRefreshRejection.
Reject(c) ==
  /\ pc[c] = "asking" /\ ~Accepts(c)
  /\ backoff' = [id |-> from[c].grant.id, paused |-> TRUE]
  /\ Resolve(c, Nothing)
  /\ UNCHANGED <<db, eve>>

PauseEnds ==
  /\ backoff # Nothing /\ backoff.paused
  /\ backoff' = [backoff EXCEPT !.paused = FALSE]
  /\ UNCHANGED <<db, eve, inFlight, callers>>

\* The body or the JWT is invalid, or it is another character's or owner's.
Unverified(c) ==
  /\ pc[c] = "verifying"
  /\ Resolve(c, Nothing)
  /\ UNCHANGED <<db, eve, backoff>>

\* currentStoredToken: the row changed under the refresh.
AnyonesToken(c) ==                                                 \* a bug
  IF account # Nothing /\ account.fresh THEN account.grant ELSE Nothing
StoredToken(c) ==
  IF account # Nothing /\ account.fresh /\ account.user = from[c].user
  THEN account.grant ELSE Nothing

\* The compare-and-set on the refresh token the refresh started from.
Unchanged(c) == account # Nothing /\ account.grant.id = from[c].grant.id

\* A new access token for the owner the row was stored for.
Store(c) ==
  /\ pc[c] = "verifying" /\ reply[c].owner = from[c].grant.owner
  /\ IF Unchanged(c)
     THEN /\ account' = [account EXCEPT !.grant = reply[c], !.fresh = TRUE]
          /\ Resolve(c, reply[c])
     ELSE Resolve(c, StoredToken(c)) /\ UNCHANGED account
  /\ UNCHANGED <<signIns, eve, backoff>>

\* A restart: the row survives, the flight, the callers and the backoff do not.
Restart ==
  /\ inFlight' = Nothing /\ backoff' = Nothing
  /\ pc' = [c \in Callers |-> "idle"]
  /\ from' = [c \in Callers |-> Nothing]
  /\ attempt' = [c \in Callers |-> 1]
  /\ reply' = [c \in Callers |-> Nothing]
  /\ answer' = [c \in Callers |-> Nothing]
  /\ UNCHANGED <<db, eve>>

Next ==
  \/ \E u \in Users : SignIn(u) \/ Sell(u)
  \/ Unlink \/ Expire \/ PauseEnds \/ Restart
  \/ \E c \in Callers : \/ ServeStored(c) \/ Join(c) \/ StartRefresh(c)
                        \/ Succeed(c) \/ Retry(c) \/ Reject(c)
                        \/ Unverified(c) \/ Store(c)

\* The request has a timeout per attempt and verification ends either way.
Fairness ==
  \A c \in Callers : WF_vars(\/ Succeed(c) \/ Retry(c) \/ Reject(c)
                             \/ Unverified(c) \/ Store(c))

Spec == Init /\ [][Next]_vars /\ Fairness

-----------------------------------------------------------------------------
\* "An SSO re-login (or transfer) that stored new tokens while this request
\* was in flight must not be overwritten with the older grant": a row that
\* stays never goes back to an earlier sign-in, in whatever order the refresh,
\* the sign-in, the unlinking and the lost answers come.
NewestSignInKept ==
  account # Nothing => \A l \in Lines : l > account.grant.line => l \notin DOMAIN signIns

\* A caller gets a token of a sign-in of its own user, though a refresh is
\* shared by character and the character may be sold while it is in flight.
OwnTokenServed ==
  \A c \in Callers : answer[c] # Nothing => signIns[answer[c].line] = UserOf[c]

\* Every call that waits for a refresh, its own or a joined one, is answered.
CallsAnswered == \A c \in Callers : pc[c] # "idle" ~> pc[c] = "idle"
=============================================================================
