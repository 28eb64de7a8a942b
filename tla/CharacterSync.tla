---------------------------- MODULE CharacterSync ----------------------------
(***************************************************************************)
(* The mirror of a character's private ESI data (eve/character-sync.ts),   *)
(* refreshed when a query or a button asks for it.  A refresh captures the *)
(* active character and its scopes and then awaits one dataset after the   *)
(* other, while other refreshes run, the user switches characters, and a   *)
(* character is unlinked or moves to another user (db/                     *)
(* character-datastore.ts deletes its rows then).  Tables and states are   *)
(* in SQLite, the map of refreshes under way is in memory.                 *)
(***************************************************************************)
EXTENDS Integers, FiniteSets

CONSTANTS
  Users, Chars, Datasets,
  Kept,        \* the datasets whose rows are never deleted by a refresh
  Calls,       \* calls of ensureCharacterDatasetsFresh, refreshCharacterDatasets
  UserOf,      \* of each call
  MaxVersion,  \* bound: changes of a character's data at ESI
  MaxMoves,    \* bound: unlinked or moved characters
  Nothing

VARIABLES
  owner,    \* of each character: the user it is linked to
  active,   \* of each user: the active character
  scopes,   \* of each character: the datasets its token may read
  version,  \* of each character: how often its data changed
  moves,
  rows,     \* of each character and dataset: whose data, of which version
  state,    \* character_sync_state
  flight,   \* syncInFlight
  call      \* of each call: what it awaits

eve == <<owner, active, scopes, version, moves>>
vars == <<eve, rows, state, flight, call>>

Versions == 0..MaxVersion
OrNothing(S) == S \cup {Nothing}
Statuses == {"pending", "ok", "error", "no_scope"}
States == [status : Statuses, fresh : BOOLEAN, synced : BOOLEAN]
Flights == [user : Users, sent : BOOLEAN]
Working == [char : Chars, scopes : SUBSET Datasets, todo : SUBSET Datasets,
            waits : Datasets \cup {Nothing, "capabilities"}, all : SUBSET Datasets]

TypeOK ==
  /\ owner \in [Chars -> OrNothing(Users)] /\ active \in [Users -> OrNothing(Chars)]
  /\ scopes \in [Chars -> SUBSET Datasets] /\ version \in [Chars -> Versions]
  /\ moves \in 0..MaxMoves
  /\ rows \in [Chars \X Datasets -> SUBSET (Chars \X Versions)]
  /\ state \in [Chars \X Datasets -> States]
  /\ flight \in [Chars \X Datasets -> OrNothing(Flights)]
  /\ call \in [Calls -> OrNothing(Working)]

Fresh0 == [status |-> "pending", fresh |-> FALSE, synced |-> FALSE]

Init ==
  /\ \E u \in Users : owner = [c \in Chars |-> u]
  /\ active \in {f \in [Users -> OrNothing(Chars)] :
                  \A u \in Users : f[u] \in {c \in Chars : owner[c] = u} \cup {Nothing}}
  /\ \E S \in SUBSET Datasets : scopes = [c \in Chars |-> S]
  /\ version = [c \in Chars |-> 0] /\ moves = 0
  /\ rows = [p \in Chars \X Datasets |-> {}]
  /\ state = [p \in Chars \X Datasets |-> Fresh0]
  /\ flight = [p \in Chars \X Datasets |-> Nothing]
  /\ call = [k \in Calls |-> Nothing]

-----------------------------------------------------------------------------
(* ESI and the account.                                                    *)

DataChanges(c) ==
  /\ version[c] < MaxVersion /\ version' = [version EXCEPT ![c] = @ + 1]
  /\ UNCHANGED <<owner, active, scopes, moves, rows, state, flight, call>>

Switch(u, c) ==
  /\ owner[c] = u /\ active[u] # c /\ active' = [active EXCEPT ![u] = c]
  /\ UNCHANGED <<owner, scopes, version, moves, rows, state, flight, call>>

StateStays(c) == state                                             \* a bug
StateGone(c) == [p \in Chars \X Datasets |-> IF p[1] = c THEN Fresh0 ELSE state[p]]

\* An unlink, or the sign-in of the character by another user: the rows go.
Move(c, u) ==
  /\ owner[c] # Nothing /\ u # owner[c] /\ moves < MaxMoves /\ moves' = moves + 1
  /\ owner' = [owner EXCEPT ![c] = u]
  /\ active' = [v \in Users |-> IF v = u THEN c ELSE IF active[v] = c THEN Nothing ELSE active[v]]
  /\ \E S \in SUBSET Datasets : scopes' = [scopes EXCEPT ![c] = S]
  /\ rows' = [p \in Chars \X Datasets |-> IF p[1] = c THEN {} ELSE rows[p]]
  /\ state' = StateGone(c)
  /\ UNCHANGED <<version, flight, call>>

\* The time of a state runs out: an ESI Expires or a backoff after an error.
Expire(c, d) ==
  /\ state[<<c, d>>].fresh /\ state' = [state EXCEPT ![<<c, d>>].fresh = FALSE]
  /\ UNCHANGED <<eve, rows, flight, call>>

-----------------------------------------------------------------------------
(* syncCharacterDatasets                                                   *)

\* ensure: neither fresh nor backing off, nor still without its scope.
ShouldSync(s, granted) == ~s.fresh /\ (s.status = "no_scope" => granted)

Pending(c, D, forced) ==
  {d \in D : forced \/ ShouldSync(state[<<c, d>>], d \in scopes[c])}

Active(k) == active[UserOf[k]]

Ask(k, D, forced) ==
  /\ call[k] = Nothing /\ Active(k) # Nothing
  /\ LET c == Active(k)
         todo == Pending(c, D, forced)
     IN /\ todo # {}
        /\ call' = [call EXCEPT ![k] = [char |-> c, scopes |-> scopes[c], todo |-> todo,
                                        waits |-> "capabilities", all |-> D]]
  /\ UNCHANGED <<eve, rows, state, flight>>

\* The next dataset: joined, or started.  Without its scope it ends at once.
Joined(c, d) == flight[<<c, d>>] # Nothing

Ends(w, d) == [w EXCEPT !.todo = @ \ {d}, !.waits = Nothing]

Proceed(k, d) ==
  LET w == call[k]
      c == w.char
  IN /\ w # Nothing /\ w.waits = Nothing /\ d \in w.todo
     /\ IF Joined(c, d)
        THEN call' = [call EXCEPT ![k].waits = d] /\ UNCHANGED <<flight, state>>
        ELSE IF d \notin w.scopes
        THEN /\ state' = [state EXCEPT ![<<c, d>>].status = "no_scope", ![<<c, d>>].fresh = FALSE]
             /\ call' = [call EXCEPT ![k] = Ends(w, d)]
             /\ UNCHANGED flight
        ELSE /\ flight' = [flight EXCEPT ![<<c, d>>] =
                             [user |-> UserOf[k], sent |-> FALSE]]
             /\ call' = [call EXCEPT ![k].waits = d]
             /\ UNCHANGED state
  /\ UNCHANGED <<eve, rows>>

Capable(k) ==
  /\ call[k] # Nothing /\ call[k].waits = "capabilities"
  /\ call' = [call EXCEPT ![k].waits = Nothing]
  /\ UNCHANGED <<eve, rows, state, flight>>

Return(k) ==
  /\ call[k] # Nothing /\ call[k].waits = Nothing /\ call[k].todo = {}
  /\ call' = [call EXCEPT ![k] = Nothing]
  /\ UNCHANGED <<eve, rows, state, flight>>

\* Whoever awaits the refresh of c and d goes on.
Resume(c, d) ==
  call' = [k \in Calls |-> IF call[k] # Nothing /\ call[k].char = c /\ call[k].waits = d
                           THEN Ends(call[k], d) ELSE call[k]]

-----------------------------------------------------------------------------
(* refreshDataset                                                          *)

\* The call is for the pinned character, if its user still has it.
ActiveNow(u, c) == active[u]                                       \* a bug
Pinned(u, c) == IF owner[c] = u THEN c ELSE Nothing

Send(c, d) ==
  /\ flight[<<c, d>>] # Nothing /\ ~flight[<<c, d>>].sent
  /\ Pinned(flight[<<c, d>>].user, c) # Nothing
  /\ flight' = [flight EXCEPT ![<<c, d>>].sent = TRUE]
  /\ UNCHANGED <<eve, rows, state, call>>

\* The answer is written: all of it in one transaction, then the state.
Replaced(c, d, got) == {got}                                       \* a bug
Written(c, d, got) == IF d \in Kept THEN rows[<<c, d>>] \cup {got} ELSE {got}

Arrive(c, d) ==
  LET from == Pinned(flight[<<c, d>>].user, c)
  IN /\ flight[<<c, d>>] # Nothing /\ flight[<<c, d>>].sent
     /\ \E v \in 0..version[c] :
          rows' = [rows EXCEPT ![<<c, d>>] =
                     Written(c, d, <<IF from = Nothing THEN c ELSE from, v>>)]
     /\ state' = [state EXCEPT ![<<c, d>>] =
                    [status |-> "ok", fresh |-> TRUE, synced |-> TRUE]]
     /\ flight' = [flight EXCEPT ![<<c, d>>] = Nothing]
     /\ Resume(c, d)
     /\ UNCHANGED <<eve>>

\* Not linked, refused, failed: the rows stay, the retry backs off.
RowsGone(c, d) == [rows EXCEPT ![<<c, d>>] = {}]                       \* a bug
RowsStay(c, d) == rows

Fail(c, d) ==
  /\ flight[<<c, d>>] # Nothing
  /\ rows' = RowsStay(c, d)
  /\ state' = [state EXCEPT ![<<c, d>>].status = "error", ![<<c, d>>].fresh = TRUE]
  /\ flight' = [flight EXCEPT ![<<c, d>>] = Nothing]
  /\ Resume(c, d)
  /\ UNCHANGED <<eve>>

\* Calls and refreshes end with the process.
Restart ==
  /\ flight' = [p \in Chars \X Datasets |-> Nothing]
  /\ call' = [k \in Calls |-> Nothing]
  /\ UNCHANGED <<eve, rows, state>>

Next ==
  \/ \E c \in Chars : \/ DataChanges(c)
                      \/ \E u \in Users : Switch(u, c)
                      \/ \E u \in OrNothing(Users) : Move(c, u)
                      \/ \E d \in Datasets : \/ Expire(c, d) \/ Send(c, d)
                                             \/ Arrive(c, d) \/ Fail(c, d)
  \/ \E k \in Calls : \/ \E D \in SUBSET Datasets, forced \in BOOLEAN : Ask(k, D, forced)
                      \/ \E d \in Datasets : Proceed(k, d)
                      \/ Capable(k) \/ Return(k)
  \/ Restart

Spec == Init /\ [][Next]_vars

-----------------------------------------------------------------------------
\* "So a character switch mid-run cannot write B's data under A's id."
OwnRows == \A c \in Chars, d \in Datasets : \A r \in rows[<<c, d>>] : r[1] = c

\* What was synced once stays queryable, through failures and lost scopes,
\* until the rows go, and then nothing says that it was synced.
StateIsTrue ==
  \A c \in Chars, d \in Datasets : state[<<c, d>>].synced => rows[<<c, d>>] # {}

\* A waiting call is resumed: nobody awaits a refresh that is not under way.
NobodyHangs ==
  \A k \in Calls : call[k] # Nothing /\ call[k].waits \in Datasets
    => flight[<<call[k].char, call[k].waits>>] # Nothing

\* The history of a journal only grows while its character stays.
HistoryKept ==
  \A c \in Chars, d \in Kept : moves' = moves => rows[<<c, d>>] \subseteq rows'[<<c, d>>]

\* Every dataset of a call that returns is "ok", "no_scope" or "error", unless
\* its character was taken away meanwhile.
EveryDatasetEnds ==
  \A k \in Calls : Return(k) /\ moves = 0
       => \A d \in call[k].all : state[<<call[k].char, d>>].status # "pending"

ProfileState == OwnRows /\ StateIsTrue /\ NobodyHangs
ProfileStep == HistoryKept /\ EveryDatasetEnds

\* "Private profile rows must not outlive the account they were synced for."
RowsGoWithTheirAccount ==
  \A c \in Chars, d \in Datasets : owner[c] = Nothing => rows[<<c, d>>] = {}

-----------------------------------------------------------------------------
\* The inductive invariant: a state that is fresh or that a call is through
\* with has an outcome, but for the states that a move has made anew.
FreshHasOutcome ==
  \A c \in Chars, d \in Datasets : state[<<c, d>>].fresh => state[<<c, d>>].status # "pending"
DoneHasOutcome ==
  moves = 0 => \A k \in Calls : call[k] # Nothing =>
    \A d \in call[k].all \ call[k].todo : state[<<call[k].char, d>>].status # "pending"

IInv == TypeOK /\ OwnRows /\ StateIsTrue /\ NobodyHangs /\ FreshHasOutcome /\ DoneHasOutcome
=============================================================================
