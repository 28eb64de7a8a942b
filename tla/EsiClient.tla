----------------------------- MODULE EsiClient -----------------------------
(***************************************************************************)
(* callEsiOperation (eve/esi-client.ts): access, response cache, request   *)
(* with retries, collection of pages.  Calls run concurrently; between     *)
(* their awaits ESI publishes new data, the user's character changes, a    *)
(* call is aborted, and other calls write the cache.                       *)
(*                                                                         *)
(* ESI's data are abstracted to the version it publishes, and a private    *)
(* answer also to the character whose token asked for it.                  *)
(***************************************************************************)
EXTENDS Integers, Sequences

CONSTANTS Calls, Chars,
          Nothing,      \* no character, no row, no answer
          MaxVersion,   \* bound on ESI's new data
          PagesAt,      \* x-pages of the paged operation, per version
          MaxPages,     \* config.esi.maxPages
          MaxAttempts   \* config.esi.retryMaxAttempts

Operations == {"public", "private", "paged", "post"}
Versions == 0..MaxVersion
NotModified == -1       \* the status 304
Data == [char : Chars \cup {Nothing}, pages : UNION {[1..n -> Versions] : n \in 0..MaxPages}]
Keys == [op : Operations \ {"post"}, char : Chars \cup {Nothing}]
Rows == [data : Data, fresh : BOOLEAN]
Waiting == {"resolving", "sending", "pausing", "pacing"}

VARIABLES
  version,   \* ESI: the data it publishes
  effects,   \* ESI: how often it processed the call's request
  linked,    \* the active character of the user, or Nothing
  cache,     \* the esi_cache table
  pc,        \* each call: "idle", one of Waiting, "reading" or "done"
  op,        \* its operation
  char,      \* the character of its token
  row,       \* the cache row it read
  attempt,   \* of the current request
  pages,     \* the pages it has collected
  response,  \* the version of the response it is reading, or NotModified
  aborted,   \* calls whose guard is aborted or has another identity
  answer     \* its data, "failed" or Nothing

esi == <<version, effects>>
call == <<op, char>>
vars == <<esi, linked, cache, pc, call, row, attempt, pages, response, aborted, answer>>

TypeOK ==
  /\ version \in Versions /\ effects \in [Calls -> 0..MaxAttempts]
  /\ linked \in Chars \cup {Nothing}
  /\ cache \in [Keys -> Rows \cup {Nothing}]
  /\ pc \in [Calls -> Waiting \cup {"idle", "reading", "done"}]
  /\ op \in [Calls -> Operations]
  /\ char \in [Calls -> Chars \cup {Nothing}]
  /\ row \in [Calls -> Rows \cup {Nothing}]
  /\ attempt \in [Calls -> 1..MaxAttempts]
  /\ \A c \in Calls : Len(pages[c]) < MaxPages
  /\ aborted \subseteq Calls

Init ==
  /\ version = 0 /\ effects = [c \in Calls |-> 0]
  /\ linked \in Chars
  /\ cache = [k \in Keys |-> Nothing]
  /\ pc = [c \in Calls |-> "idle"]
  /\ op \in [Calls -> Operations]
  /\ char = [c \in Calls |-> Nothing]
  /\ row = [c \in Calls |-> Nothing]
  /\ attempt = [c \in Calls |-> 1]
  /\ pages = [c \in Calls |-> << >>]
  /\ response = [c \in Calls |-> Nothing]
  /\ aborted = {}
  /\ answer = [c \in Calls |-> Nothing]

Answered(c, a) ==
  /\ pc' = [pc EXCEPT ![c] = "done"]
  /\ answer' = [answer EXCEPT ![c] = a]
Failed == [failed |-> TRUE]
Moves(c, to) == pc' = [pc EXCEPT ![c] = to] /\ UNCHANGED answer
Cacheable(c) == op[c] # "post"

-----------------------------------------------------------------------------
(* What happens around the calls.                                          *)

Publish ==
  /\ version < MaxVersion /\ version' = version + 1
  /\ UNCHANGED <<effects, linked, cache, pc, call, row, attempt, pages, response, aborted, answer>>

\* The user activates another character or unlinks the last one; the guards of
\* the calls in progress then see another identity.
Switch(k) ==
  /\ linked # k /\ linked' = k
  /\ aborted' = aborted \cup {c \in Calls : pc[c] \in Waiting \cup {"reading"}}
  /\ UNCHANGED <<esi, cache, pc, call, row, attempt, pages, response, answer>>

Abort(c) ==
  /\ pc[c] \in Waiting \cup {"reading"} /\ c \notin aborted
  /\ aborted' = aborted \cup {c}
  /\ UNCHANGED <<esi, linked, cache, pc, call, row, attempt, pages, response, answer>>

\* A row's expires_at passes; a day later the row is pruned.
Expire(k) ==
  /\ cache[k] # Nothing
  /\ cache' = [cache EXCEPT ![k] = IF @.fresh THEN [@ EXCEPT !.fresh = FALSE] ELSE Nothing]
  /\ UNCHANGED <<esi, linked, pc, call, row, attempt, pages, response, aborted, answer>>

-----------------------------------------------------------------------------
(* callEsiOperation up to the request.                                     *)

\* resolveAccess: a private operation needs a linked character, its scopes and
\* its token, which is awaited.
Begin(c) ==
  /\ pc[c] = "idle"
  /\ char' = [char EXCEPT ![c] = IF op[c] = "private" THEN linked ELSE Nothing]
  /\ IF op[c] = "private" /\ linked = Nothing
     THEN Answered(c, Failed)
     ELSE Moves(c, "resolving")
  /\ UNCHANGED <<esi, linked, cache, op, row, attempt, pages, response, aborted>>

\* No fresh capability check, a missing scope, no token, or a bad argument.
Denied(c) ==
  /\ pc[c] = "resolving"
  /\ Answered(c, Failed)
  /\ UNCHANGED <<esi, linked, cache, call, row, attempt, pages, response, aborted>>

\* buildCacheKey: private answers are kept per character.
SharedKey(c) == [op |-> op[c], char |-> Nothing]                   \* a bug
CacheKey(c) == [op |-> op[c], char |-> char[c]]

Look(c) ==
  /\ pc[c] = "resolving"
  /\ IF c \in aborted THEN Answered(c, Failed) /\ UNCHANGED row
     ELSE IF Cacheable(c) /\ cache[CacheKey(c)] # Nothing
     THEN /\ row' = [row EXCEPT ![c] = cache[CacheKey(c)]]
          /\ IF cache[CacheKey(c)].fresh
             THEN Answered(c, cache[CacheKey(c)].data)
             ELSE Moves(c, "sending")
     ELSE Moves(c, "sending") /\ UNCHANGED row
  /\ UNCHANGED <<esi, linked, cache, call, attempt, pages, response, aborted>>

-----------------------------------------------------------------------------
(* fetchEsiWithRetry.                                                      *)

\* isIdempotentMethod: what may be sent again after it may have been processed.
AnyMethod(c) == TRUE                                               \* a bug
Idempotent(c) == op[c] # "post"

\* ESI answers the current page.  Only an operation without pages sends the
\* row's validators, and only while the data are the row's does ESI say 304.
Receive(c) ==
  /\ pc[c] = "sending" /\ c \notin aborted
  /\ effects' = [effects EXCEPT ![c] = IF op[c] = "post" THEN @ + 1 ELSE @]
  /\ response' = [response EXCEPT ![c] =
       IF row[c] # Nothing /\ op[c] # "paged" /\ row[c].data.pages = <<version>>
       THEN NotModified ELSE version]
  /\ Moves(c, "reading")
  /\ UNCHANGED <<version, linked, cache, call, row, attempt, pages, aborted>>

Again(c) ==
  IF attempt[c] < MaxAttempts
  THEN /\ attempt' = [attempt EXCEPT ![c] = @ + 1]
       /\ Moves(c, "pausing")
  ELSE Answered(c, Failed) /\ UNCHANGED attempt

\* A timeout, a lost answer or a 5xx: ESI may have processed the request.
Lose(c) ==
  /\ pc[c] = "sending" /\ c \notin aborted
  /\ \/ UNCHANGED effects
     \/ op[c] = "post" /\ effects' = [effects EXCEPT ![c] = @ + 1]
  /\ IF Idempotent(c) THEN Again(c) ELSE Answered(c, Failed) /\ UNCHANGED attempt
  /\ UNCHANGED <<version, linked, cache, call, row, pages, response, aborted>>

\* 420 or 429: nothing was done, whatever the method.
Limited(c) ==
  /\ pc[c] = "sending" /\ c \notin aborted
  /\ Again(c)
  /\ UNCHANGED <<esi, linked, cache, call, row, pages, response, aborted>>

\* The guard is looked at before every attempt and page; it ends a backoff and,
\* through its signal, a request ESI may be processing.
Cancel(c) ==
  /\ pc[c] \in {"sending", "pausing", "pacing"} /\ c \in aborted
  /\ \/ UNCHANGED effects
     \/ /\ pc[c] = "sending" /\ op[c] = "post"
        /\ effects' = [effects EXCEPT ![c] = @ + 1]
  /\ Answered(c, Failed)
  /\ UNCHANGED <<version, linked, cache, call, row, attempt, pages, response, aborted>>

\* The backoff, or the pause of throttleIfNeeded between two pages, ends.
Resume(c) ==
  /\ pc[c] \in {"pausing", "pacing"} /\ c \notin aborted
  /\ Moves(c, "sending")
  /\ UNCHANGED <<esi, linked, cache, call, row, attempt, pages, response, aborted>>

-----------------------------------------------------------------------------
(* fetchEsi: what is done with a response.                                 *)

Write(c, data) ==
  cache' = IF Cacheable(c)
           THEN [cache EXCEPT ![CacheKey(c)] = [data |-> data, fresh |-> TRUE]]
           ELSE cache

\* revalidateCachedResponse: the row this call read is written again.
Revalidate(c) ==
  /\ pc[c] = "reading" /\ response[c] = NotModified
  /\ Write(c, row[c].data)
  /\ Answered(c, row[c].data)
  /\ UNCHANGED <<esi, linked, call, row, attempt, pages, response, aborted>>

Single(c) ==
  LET data == [char |-> char[c], pages |-> <<response[c]>>]
  IN /\ pc[c] = "reading" /\ response[c] # NotModified /\ op[c] # "paged"
     /\ Write(c, data)
     /\ Answered(c, data)
     /\ UNCHANGED <<esi, linked, call, row, attempt, pages, response, aborted>>

\* matchesSnapshot, by the last-modified headers.
AnySnapshot(c) == TRUE                                             \* a bug
MatchesSnapshot(c) == pages[c] = << >> \/ pages[c][1] = response[c]

\* A page: refused if the data changed or if there are too many pages, else the
\* last one, or one of which the next is asked after a pause.
Page(c) ==
  LET got == Append(pages[c], response[c])
  IN /\ pc[c] = "reading" /\ op[c] = "paged"
     /\ IF ~MatchesSnapshot(c) \/ PagesAt[response[c]] > MaxPages
        THEN Answered(c, Failed) /\ UNCHANGED <<cache, pages, attempt>>
        ELSE IF Len(got) >= PagesAt[response[c]]
        THEN /\ Write(c, [char |-> Nothing, pages |-> got])
             /\ Answered(c, [char |-> Nothing, pages |-> got])
             /\ UNCHANGED <<pages, attempt>>
        ELSE /\ pages' = [pages EXCEPT ![c] = got]
             /\ attempt' = [attempt EXCEPT ![c] = 1]
             /\ Moves(c, "pacing") /\ UNCHANGED cache
     /\ UNCHANGED <<esi, linked, call, row, response, aborted>>

Next ==
  \/ Publish
  \/ \E k \in Chars \cup {Nothing} : Switch(k)
  \/ \E k \in Keys : Expire(k)
  \/ \E c \in Calls : \/ Abort(c) \/ Begin(c) \/ Denied(c) \/ Look(c)
                      \/ Receive(c) \/ Lose(c) \/ Limited(c) \/ Cancel(c) \/ Resume(c)
                      \/ Revalidate(c) \/ Single(c) \/ Page(c)

Spec == Init /\ [][Next]_vars

-----------------------------------------------------------------------------
HasData(c) == answer[c] \notin {Nothing, Failed}

\* The pages of one answer, and of one row, are of one version of the data:
\* a list ESI changed during its collection is not returned as a whole one.
OneSnapshot ==
  LET whole(d) == \A i \in DOMAIN d.pages : d.pages[i] = d.pages[1]
  IN /\ \A c \in Calls : HasData(c) => whole(answer[c])
     /\ \A k \in Keys : cache[k] # Nothing => whole(cache[k].data)

\* Private data are those of the character whose token the call got, also when
\* they come from the cache another character's call filled.
OwnDataOnly ==
  \A c \in Calls : HasData(c) => answer[c].char = char[c]

\* A write that ESI may have processed is not sent again.
PostedOnce == \A c \in Calls : effects[c] <= 1

\* What an answer of callEsiOperation may be relied on for.
EsiAnswersSound == OneSnapshot /\ OwnDataOnly /\ PostedOnce
=============================================================================
