------------------------------ MODULE KillSearch ------------------------------
(***************************************************************************)
(* Searches of killmails at EVE-KILL (eve-kill/client.ts): a span is split *)
(* into windows, the identifiers of the filter into chunks, and each of    *)
(* them is read page by page, newest window first.  An entity's kills and  *)
(* losses are two lists, paged backwards at once and merged.  Pages pass   *)
(* through a cache, while kills are published.  One search or one pair of  *)
(* lists is under way at a time: they share no page.                       *)
(*                                                                         *)
(* A kill is its identifier; those of later kills are greater.             *)
(***************************************************************************)
EXTENDS Integers, Sequences, FiniteSetsExt, SequencesExt

CONSTANTS
  Kills, Late,  \* the identifiers; those that are published later
  TimeOf,       \* of each kill: its time, ascending with them
  Ids,          \* of each kill: what the filter may ask for
  Wanted,       \* the filter, a sequence of identifiers
  Sides,        \* of each kill: the entity's lists it is in
  Spans,        \* the spans <<from, to>> asked for
  Limits, MaxWindow, MaxIds, MaxRequests, PageSize,
  Ttl,          \* of a page in the cache
  MaxNow,       \* bound on the clock
  MaxSearches,  \* bound on the searches
  Nothing

Lists == {"kills", "losses"}

VARIABLES
  now,
  published, \* of each kill: when EVE-KILL had it, Nothing before
  cache,     \* of a request that was answered: its page, and when
  search,    \* searchKillmails under way
  list,      \* of each list: collectSummaryPages under way, or its result
  searches,  \* so far
  answer     \* the last result: what was asked, when, and the answer

vars == <<now, published, cache, search, list, searches, answer>>

TypeOK ==
  /\ now \in 0..MaxNow /\ searches \in 0..MaxSearches
  /\ published \in [Kills -> (0..MaxNow) \cup {Nothing}]
  /\ \A e \in cache : e.page.kills \subseteq Kills /\ e.at \in 0..now
  /\ search # Nothing => search.got \subseteq Kills /\ search.requests \in 0..MaxRequests
  /\ list # Nothing => \A a \in Lists : list[a].got \subseteq Kills
                                       /\ list[a].requests \in 0..MaxRequests
  /\ answer # Nothing => answer.kills \subseteq Kills

-----------------------------------------------------------------------------
(* The plan.                                                               *)

TouchingEnd(cursor) == cursor + MaxWindow - 2                      \* a bug
WindowEnd(cursor) == cursor + MaxWindow - 1

\* splitWindows: bounds are inclusive, and the last window takes the rest.
Windows(from, to) ==
  LET n == (to - from + MaxWindow - 1) \div MaxWindow
      start(i) == from + (i - 1) * MaxWindow
  IN [i \in 1..n |-> IF i < n THEN <<start(i), WindowEnd(start(i))>> ELSE <<start(i), to>>]

\* expandFilterChunks
Chunks == [i \in 1..((Len(Wanted) + MaxIds - 1) \div MaxIds) |->
             ToSet(SubSeq(Wanted, (i - 1) * MaxIds + 1, Min({i * MaxIds, Len(Wanted)})))]

\* validateSearchRequest: a plan beyond the budget of requests is refused.
Planned(span) ==
  span[1] < span[2] /\ Len(Windows(span[1], span[2])) * Len(Chunks) <= MaxRequests

-----------------------------------------------------------------------------
(* Pages: the first n of the matches M that follow the cursor.             *)

Published == {k \in Kills : published[k] # Nothing}
In(w) == {k \in Published : TimeOf[k] \in w[1]..w[2]}

First(M, n, forward) ==
  {k \in M : Cardinality({l \in M : IF forward THEN l < k ELSE l > k}) < n}

Served(r) ==
  LET M == IF r.list = Nothing
           THEN {k \in In(r.window) : k > r.cursor /\ Ids[k] \cap Chunks[r.chunk] # {}}
           ELSE {k \in Published : k < r.cursor /\ r.list \in Sides[k]}
  IN [kills |-> First(M, r.size, r.list = Nothing), hasMore |-> Cardinality(M) > r.size]

\* cachedParsed
Cached(r) == {e \in cache : e.request = r /\ now - e.at < Ttl}
Page(r) == IF Cached(r) = {} THEN Served(r) ELSE (CHOOSE e \in Cached(r) : TRUE).page
Stored(r) ==
  IF Cached(r) # {} THEN cache
  ELSE {e \in cache : e.request # r} \cup {[request |-> r, page |-> Page(r), at |-> now]}

Size(limit, got) == Min({PageSize, Max({1, limit - Cardinality(got)})})

Newest(K, n) == First(K, n, FALSE)

-----------------------------------------------------------------------------
(* searchKillmails                                                         *)

OldestFirst(span) == 1                                             \* a bug
StartWindow(span) == Len(Windows(span[1], span[2]))

Search(span, limit) ==
  /\ search = Nothing /\ list = Nothing /\ Planned(span)
  /\ search' = [span |-> span, limit |-> limit, began |-> now, window |-> StartWindow(span),
                chunk |-> 1, after |-> 0, got |-> {}, requests |-> 0]
  /\ answer' = Nothing
  /\ searches < MaxSearches /\ searches' = searches + 1
  /\ UNCHANGED <<now, published, cache, list>>

Request(s) ==
  [list |-> Nothing, window |-> Windows(s.span[1], s.span[2])[s.window], chunk |-> s.chunk,
   cursor |-> s.after, size |-> Size(s.limit, s.got)]

OtherWindow(s) == s.window > 1                                     \* a bug
Remaining(s) == s.window > 1 \/ s.chunk < Len(Chunks)

Answers(s, got, truncated) ==
  /\ search' = Nothing
  /\ answer' = [span |-> s.span, began |-> s.began, kills |-> Newest(got, s.limit),
                truncated |-> truncated, lists |-> FALSE]

SearchPage ==
  LET s == search
      page == Page(Request(s))
      got == s.got \cup page.kills
      t == [s EXCEPT !.got = got, !.requests = @ + 1]
  IN /\ s # Nothing
     /\ UNCHANGED <<now, published, list, searches>>
     /\ IF s.requests >= MaxRequests
        THEN Answers(s, s.got, TRUE) /\ UNCHANGED cache
        ELSE /\ cache' = Stored(Request(s))
             /\ IF Cardinality(got) >= s.limit
                THEN Answers(s, got, Cardinality(got) > s.limit \/ page.hasMore \/ Remaining(s))
                ELSE IF page.hasMore
                THEN search' = [t EXCEPT !.after = Max(page.kills)] /\ UNCHANGED answer
                ELSE IF s.chunk < Len(Chunks)
                THEN search' = [t EXCEPT !.chunk = @ + 1, !.after = 0] /\ UNCHANGED answer
                ELSE IF s.window > 1
                THEN search' = [t EXCEPT !.window = @ - 1, !.chunk = 1, !.after = 0]
                     /\ UNCHANGED answer
                ELSE Answers(s, got, FALSE)

\* A page fails: the whole search does.
SearchFails ==
  /\ search # Nothing /\ search' = Nothing
  /\ UNCHANGED <<now, published, cache, list, searches, answer>>

-----------------------------------------------------------------------------
(* listEntityActivity of both lists: collectSummaryPages, twice at once.   *)

ListBoth(span, limit) ==
  /\ list = Nothing /\ search = Nothing /\ span[1] <= span[2]
  /\ list' = [a \in Lists |-> [span |-> span, limit |-> limit, began |-> now, before |-> 99,
                               got |-> {}, requests |-> 0, done |-> FALSE, truncated |-> FALSE]]
  /\ answer' = Nothing
  /\ searches < MaxSearches /\ searches' = searches + 1
  /\ UNCHANGED <<now, published, cache, search>>

PageOf(a, s) == [list |-> a, window |-> Nothing, chunk |-> 0, cursor |-> s.before,
                 size |-> Size(s.limit, s.got)]

StopsAtTheEnd(s, page) == \E k \in page.kills : TimeOf[k] <= s.span[1]   \* a bug
Crossed(s, page) == \E k \in page.kills : TimeOf[k] < s.span[1]

ListPage(a) ==
  LET s == list[a]
      page == Page(PageOf(a, s))
      got == s.got \cup {k \in page.kills : TimeOf[k] \in s.span[1]..s.span[2]}
      t == [s EXCEPT !.got = got, !.requests = @ + 1]
      full == Cardinality(got) >= s.limit
  IN /\ list # Nothing /\ ~s.done
     /\ UNCHANGED <<now, published, search, searches, answer>>
     /\ IF s.requests >= MaxRequests
        THEN list' = [list EXCEPT ![a].done = TRUE, ![a].truncated = TRUE] /\ UNCHANGED cache
        ELSE /\ cache' = Stored(PageOf(a, s))
             /\ list' = [list EXCEPT ![a] =
                  IF full THEN [t EXCEPT !.done = TRUE,
                                         !.truncated = Cardinality(got) > s.limit \/ page.hasMore]
                  ELSE IF Crossed(s, page) \/ ~page.hasMore THEN [t EXCEPT !.done = TRUE]
                  ELSE [t EXCEPT !.before = Min(page.kills)]]

ListFails ==
  /\ list # Nothing /\ list' = Nothing
  /\ UNCHANGED <<now, published, cache, search, searches, answer>>

\* The merge: a kill may be in both lists.
CutSilently(K, n) == FALSE                                         \* a bug
Cut(K, n) == Cardinality(K) > n

ListsMerge ==
  /\ list # Nothing /\ \A a \in Lists : list[a].done
  /\ LET s == list["kills"]
         K == UNION {list[a].got : a \in Lists}
     IN answer' = [span |-> s.span, began |-> s.began, kills |-> Newest(K, s.limit),
                   truncated |-> (\E a \in Lists : list[a].truncated) \/ Cut(K, s.limit),
                   lists |-> TRUE]
  /\ list' = Nothing
  /\ UNCHANGED <<now, published, cache, search, searches>>

-----------------------------------------------------------------------------
Publish(k) ==
  /\ published[k] = Nothing /\ published' = [published EXCEPT ![k] = now]
  /\ UNCHANGED <<now, cache, search, list, searches, answer>>

\* Pages out of time are as good as gone.
Tick ==
  /\ now < MaxNow /\ now' = now + 1
  /\ cache' = {e \in cache : now' - e.at < Ttl}
  /\ UNCHANGED <<published, search, list, searches, answer>>

Init ==
  /\ now = 0 /\ published = [k \in Kills |-> IF k \in Late THEN Nothing ELSE 0]
  /\ cache = {} /\ search = Nothing /\ list = Nothing /\ answer = Nothing /\ searches = 0

Next ==
  \/ \E span \in Spans, n \in Limits : Search(span, n) \/ ListBoth(span, n)
  \/ SearchPage \/ SearchFails \/ ListFails \/ ListsMerge
  \/ \E a \in Lists : ListPage(a)
  \/ \E k \in Late : Publish(k)
  \/ Tick

Spec == Init /\ [][Next]_vars

-----------------------------------------------------------------------------
\* What a search is for: the kills of the span that match, of those that were
\* published when the oldest page in the cache may have been read.
Matches(a) ==
  {k \in Kills : /\ TimeOf[k] \in a.span[1]..a.span[2]
                 /\ IF a.lists THEN Sides[k] # {} ELSE Ids[k] \cap ToSet(Wanted) # {}}
Due(a) == {k \in Matches(a) : published[k] # Nothing /\ published[k] <= a.began - Ttl}

\* A result that does not say it is truncated is complete, whatever the
\* windows, the chunks, the pages and their age in the cache.
CompleteOrSaysSo ==
  answer # Nothing =>
    /\ answer.kills \subseteq Matches(answer) \cap Published
    /\ ~answer.truncated => Due(answer) \subseteq answer.kills

\* A truncated search has the newest: all of the windows after the oldest it
\* gives anything of.
NewestFirst ==
  answer # Nothing /\ ~answer.lists =>
    LET W == Windows(answer.span[1], answer.span[2])
    IN \A i, j \in 1..Len(W) :
         j > i /\ answer.kills \cap In(W[i]) # {} => Due(answer) \cap In(W[j]) \subseteq answer.kills

SearchSound == CompleteOrSaysSo /\ NewestFirst
=============================================================================
