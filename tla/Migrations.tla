----------------------------- MODULE Migrations -----------------------------
(***************************************************************************)
(* What a start does to the data of older versions (db/migrations.ts): one *)
(* transaction, run on every start, that gives every chat its account, its *)
(* talks and links their user, moves the chat of the old command line to a *)
(* lane of its own, and deletes the route watches of the old kind once.    *)
(* Between two starts the program is used.                                 *)
(*                                                                         *)
(* Chats are numbers, as in the code: 1 is the old command line if it bears*)
(* its mark, 0 the new one, Telegram is above, Discord below.  A user is   *)
(* the number of the account that was made for him.                        *)
(***************************************************************************)
EXTENDS Integers, FiniteSetsExt, SequencesExt

CONSTANTS
  Telegram, Discord,   \* chats
  Chars,
  MaxThreads, MaxUsers, MaxWatches, MaxStarts,   \* bounds
  Nothing

Chats == Telegram \cup Discord \cup {0, 1}

VARIABLES
  sessions,    \* telegram_sessions: the active character of a chat
  accounts,    \* telegram_accounts: the user of a chat
  marked,      \* whether the rows of chat 1 bear the mark of the old command line
  local,       \* cli_accounts: the user of the command line, or Nothing
  users,       \* how many there are
  threads,     \* agent_threads, in order: chat, user, character
  links,       \* eve_character_links
  owner,       \* user_id of eve_accounts
  watches,     \* kill_watches
  cleaned,     \* remove-legacy-route-watches-v1 is applied
  starts, ran  \* starts so far; nothing was done since the last one

db == [sessions |-> sessions, accounts |-> accounts, marked |-> marked, local |-> local, users |-> users,
       threads |-> threads, links |-> links, owner |-> owner, watches |-> watches, cleaned |-> cleaned]
tables == <<sessions, accounts, marked, local, users, threads, links, owner, watches, cleaned>>
vars == <<tables, starts, ran>>

Accounts == 1..MaxUsers
OrNothing(S) == S \cup {Nothing}

TypeOK ==
  /\ DOMAIN sessions \subseteq Chats /\ \A c \in DOMAIN sessions : sessions[c] \in OrNothing(Chars)
  /\ DOMAIN accounts \subseteq Chats /\ \A c \in DOMAIN accounts : accounts[c] \in Accounts
  /\ marked \in BOOLEAN /\ local \in OrNothing(Accounts) /\ users \in 0..MaxUsers
  /\ \A i \in 1..Len(threads) :
       threads[i] \in [chat : Chats, user : OrNothing(Accounts), char : OrNothing(Chars)]
  /\ links \subseteq [chat : Chats, char : Chars, user : OrNothing(Accounts)]
  /\ DOMAIN owner \subseteq Chars /\ \A ch \in DOMAIN owner : owner[ch] \in OrNothing(Accounts)
  /\ watches \subseteq [chat : Chats, old : BOOLEAN, id : 1..MaxWatches] /\ cleaned \in BOOLEAN

\* A database of a version before there were users, or of one that gave every
\* chat above 0 its account, the old command line among them: chats, each with
\* a talk, a link, and a watch.
Init ==
  /\ \E C \in SUBSET (Chats \ {0}) \ {{}}, given \in BOOLEAN, ch \in Chars :
       LET order == SetToSortSeq({c \in C : c > 0 /\ given}, <)
           user(c) == IF c > 0 /\ given THEN CHOOSE i \in 1..Len(order) : order[i] = c ELSE Nothing
       IN /\ 1 \in C => given
          /\ sessions = [c \in C |-> IF c = 1 THEN ch ELSE Nothing]
          /\ accounts = [c \in ToSet(order) |-> user(c)]
          /\ users = Len(order) /\ marked = (1 \in C)
          /\ threads = SetToSeq({[chat |-> c, user |-> user(c), char |-> Nothing] : c \in C})
          /\ links = {[chat |-> Max(C), char |-> ch, user |-> user(Max(C))]}
          /\ owner = [x \in {ch} |-> user(Max(C))]
          /\ watches = {[chat |-> Min(C), old |-> TRUE, id |-> 1]}
  /\ local = Nothing /\ cleaned = FALSE /\ starts = 0 /\ ran = FALSE

-----------------------------------------------------------------------------
(* runMigrations: each part makes a database of a database.                *)

Maps(f, c, x) == [y \in DOMAIN f \cup {c} |-> IF y = c THEN x ELSE f[y]]
Each(s, f(_)) == [i \in 1..Len(s) |-> f(s[i])]

\* backfillThreadCharacters
ActiveOf(d, c) == IF c \in DOMAIN d.sessions THEN d.sessions[c] ELSE Nothing
ThreadCharacters(d) ==
  [d EXCEPT !.threads =
     Each(@, LAMBDA t : [t EXCEPT !.char = IF @ = Nothing THEN ActiveOf(d, t.chat) ELSE @])]

\* backfillUsers: only chats above 0 are of Telegram.
EveryChat(d) == DOMAIN d.sessions \ DOMAIN d.accounts               \* a bug
WithoutAccount(d) == {c \in DOMAIN d.sessions : c > 0} \ DOMAIN d.accounts

GiveAccount(d, c) ==
  LET u == d.users + 1
      claim(r) == IF r.chat = c /\ r.user = Nothing THEN [r EXCEPT !.user = u] ELSE r
  IN [d EXCEPT !.users = u, !.accounts = Maps(@, c, u),
               !.links = {claim(l) : l \in @}, !.threads = Each(@, claim)]

OwnersFromLinks(d) ==
  LET known(ch) == {l \in d.links : l.char = ch /\ l.user # Nothing}
  IN [d EXCEPT !.owner = [ch \in DOMAIN @ |->
        IF @[ch] # Nothing \/ known(ch) = {} THEN @[ch] ELSE (CHOOSE l \in known(ch) : TRUE).user]]

BackfillUsers(d) ==
  OwnersFromLinks(FoldSeq(LAMBDA c, e : GiveAccount(e, c), d, SetToSortSeq(WithoutAccount(d), <)))

\* removeLegacyRouteWatchesOnce
EveryStart(d) == [d EXCEPT !.watches = {w \in @ : ~w.old}]          \* a bug
RemoveOldWatches(d) ==
  IF d.cleaned THEN d ELSE [d EXCEPT !.watches = {w \in @ : ~w.old}, !.cleaned = TRUE]

\* cutoverMarkedLegacyCliIdentity
Marked(d) == d.local = Nothing /\ d.marked /\ {1} \subseteq DOMAIN d.sessions \cap DOMAIN d.accounts
Without(f, c) == [y \in DOMAIN f \ {c} |-> f[y]]

Cutover(d) ==
  IF ~Marked(d) THEN d
  ELSE LET u == d.accounts[1]
           active == IF ActiveOf(d, 0) # Nothing THEN ActiveOf(d, 0) ELSE d.sessions[1]
           moved == {[l EXCEPT !.chat = 0, !.user = u] : l \in {l \in d.links : l.chat = 1}}
           taken == {l.char : l \in {l \in d.links : l.chat = 0}}
       IN [d EXCEPT
             !.sessions = Without(Maps(@, 0, active), 1),
             !.threads = Each(@, LAMBDA t : IF t.chat = 1 THEN [t EXCEPT !.chat = 0, !.user = u] ELSE t),
             !.links = {l \in @ : l.chat # 1} \cup {l \in moved : l.char \notin taken},
             !.watches = {w \in @ : w.chat # 1},
             !.accounts = Without(@, 1), !.local = u, !.marked = FALSE]

Migrated(d) == Cutover(RemoveOldWatches(BackfillUsers(ThreadCharacters(d))))

Becomes(d) ==
  /\ sessions' = d.sessions /\ accounts' = d.accounts /\ marked' = d.marked /\ local' = d.local
  /\ users' = d.users /\ threads' = d.threads /\ links' = d.links /\ owner' = d.owner
  /\ watches' = d.watches /\ cleaned' = d.cleaned

\* All of it commits, or the start fails and nothing of it happened.
Start ==
  /\ starts < MaxStarts /\ starts' = starts + 1 /\ ran' = TRUE
  /\ Becomes(Migrated(db))

-----------------------------------------------------------------------------
(* The program, between two starts.                                        *)

Used == starts > 0 /\ ran' = FALSE /\ UNCHANGED starts

\* Whose chat it is; a lane of Discord has its user elsewhere.
OwnerOf(c) == IF c = 0 THEN local ELSE IF c \in DOMAIN accounts THEN accounts[c] ELSE Nothing

NewChat(c) ==
  /\ Used /\ c \in Telegram \ DOMAIN sessions /\ users < MaxUsers
  /\ sessions' = Maps(sessions, c, Nothing) /\ accounts' = Maps(accounts, c, users + 1) /\ users' = users + 1
  /\ UNCHANGED <<marked, local, threads, links, owner, watches, cleaned>>

NewThread(c) ==
  /\ Used /\ c \in DOMAIN sessions /\ Len(threads) < MaxThreads
  /\ threads' = Append(threads, [chat |-> c, user |-> OwnerOf(c), char |-> sessions[c]])
  /\ UNCHANGED <<sessions, accounts, marked, local, users, links, owner, watches, cleaned>>

SignIn(c, ch) ==
  /\ Used /\ c \in DOMAIN sessions /\ ch \notin DOMAIN owner /\ OwnerOf(c) # Nothing
  /\ links' = links \cup {[chat |-> c, char |-> ch, user |-> OwnerOf(c)]}
  /\ owner' = Maps(owner, ch, OwnerOf(c)) /\ sessions' = Maps(sessions, c, ch)
  /\ UNCHANGED <<accounts, marked, local, users, threads, watches, cleaned>>

\* A watch, whose label may look like an old one of a route.
Watch(c) ==
  /\ Used /\ c \in DOMAIN sessions /\ Cardinality(watches) < MaxWatches
  /\ \E id \in 1..MaxWatches \ {w.id : w \in watches}, old \in BOOLEAN :
       watches' = watches \cup {[chat |-> c, old |-> old, id |-> id]}
  /\ UNCHANGED <<sessions, accounts, marked, local, users, threads, links, owner, cleaned>>

Next ==
  \/ Start
  \/ \E c \in Chats : NewChat(c) \/ NewThread(c) \/ Watch(c) \/ \E ch \in Chars : SignIn(c, ch)

Spec == Init /\ [][Next]_vars

-----------------------------------------------------------------------------
\* After a start every talk and link of a chat is of the chat's user, a chat of
\* the old command line is no more, nobody but a chat of Telegram has an account
\* there, no two chats have the same user, and a second start does nothing.
Settled ==
  ran =>
    /\ \A i \in 1..Len(threads) : threads[i].user = OwnerOf(threads[i].chat)
    /\ \A l \in links : l.user = OwnerOf(l.chat)
    /\ DOMAIN accounts \subseteq Telegram /\ 1 \notin DOMAIN sessions
    /\ \A c, e \in DOMAIN sessions : c # e /\ OwnerOf(c) = OwnerOf(e) => OwnerOf(c) = Nothing
    /\ Migrated(db) = db

Same(c) == {c} \cup (IF c = 1 THEN {0} ELSE {})

\* No talk is lost or moves to somebody else's chat or another character, no
\* link but a double is, and what is watched since the first start is kept.
NothingIsLost ==
  /\ Len(threads') >= Len(threads)
  /\ \A i \in 1..Len(threads) :
       /\ threads'[i].chat \in Same(threads[i].chat)
       /\ threads[i].char # Nothing => threads'[i].char = threads[i].char
       /\ threads[i].user # Nothing => threads'[i].user = threads[i].user
  /\ \A l \in links : \E m \in links' : m.chat \in Same(l.chat) /\ m.char = l.char
  /\ starts > 0 => watches \subseteq watches'

=============================================================================
