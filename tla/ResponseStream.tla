--------------------------- MODULE ResponseStream ---------------------------
(***************************************************************************)
(* One call of the model (agent/native-responses.ts): the events of the    *)
(* provider come as frames of lines, cut anywhere; they are parsed as they *)
(* arrive, the text is shown at once, and when the stream has ended they   *)
(* are collected into the output.  A stream may end too early, break, time *)
(* out or be aborted, and the call may be made again.                      *)
(*                                                                         *)
(* Arguments are told apart by their length: 0, or Whole.  A frame is the  *)
(* line of its name, its data in two parts, and an empty line; data that   *)
(* is cut is not JSON.                                                     *)
(***************************************************************************)
EXTENDS Integers, Sequences, FiniteSetsExt, SequencesExt

CONSTANTS
  Calls,     \* what the provider may call, <<c1, c2, ...>> in its order
  Tokens,    \* bound: tokens of text
  MaxSent,   \* bound: events in all attempts
  Nothing

Whole == 1
Ids == ToSet(Calls)
PlaceOf(c) == CHOOSE i \in 1..Len(Calls) : Calls[i] = c

VARIABLES
  indexed,   \* calls whose events carry their output_index
  told,      \* of each call: the events of it that the provider sent
  tokens,    \* tokens it sent
  terminal,  \* its last event, Nothing before
  pipe,      \* what is on its way of the frame: 4 is all of it
  frame,     \* the event of that frame
  name,      \* currentEvent: whether it is the name of the frame
  data,      \* buffer and dataLines: Nothing, "torn" or "json"
  events,    \* parsed
  useful,    \* sawUsefulDeltas
  shown,     \* tokens that the activity sink holds
  outcome,   \* Nothing, an error thrown, or the result
  sent       \* events so far

provider == <<indexed, told, tokens, terminal, pipe, frame>>
parser == <<name, data, events, useful, shown>>
vars == <<provider, parser, outcome, sent>>

Kinds == {"added", "args", "done"}
Ends == {"completed", "incomplete", "failed"}

\* Of an event of a call: its arguments, and whether it has its name and index.
Event == [type : Kinds \cup Ends \cup {"text", "error"}, call : Ids \cup {Nothing},
          args : 0..Whole, named : BOOLEAN, index : 0..Len(Calls), full : BOOLEAN, torn : BOOLEAN]

TypeOK ==
  /\ indexed \subseteq Ids /\ told \in [Ids -> SUBSET Kinds] /\ tokens \in 0..Tokens
  /\ terminal \in Event \cup {Nothing} /\ frame \in Event \cup {Nothing}
  /\ \A i \in 1..Len(events) : events[i] \in Event
  /\ pipe \in 0..4 /\ name \in BOOLEAN /\ data \in {Nothing, "torn", "json"}
  /\ useful \in BOOLEAN /\ shown \in 0..Tokens /\ sent \in 0..MaxSent

Fresh ==
  /\ told' = [c \in Ids |-> {}] /\ tokens' = 0 /\ terminal' = Nothing /\ pipe' = 0
  /\ frame' = Nothing /\ name' = FALSE /\ data' = Nothing /\ events' = <<>>
  /\ useful' = FALSE /\ outcome' = Nothing

Init ==
  /\ indexed \in SUBSET Ids /\ told = [c \in Ids |-> {}] /\ tokens = 0 /\ terminal = Nothing
  /\ pipe = 0 /\ frame = Nothing /\ name = FALSE /\ data = Nothing
  /\ events = <<>> /\ useful = FALSE /\ shown = 0
  /\ outcome = Nothing /\ sent = 0

Open == outcome = Nothing

-----------------------------------------------------------------------------
(* The provider.                                                           *)

Plain(type) == [type |-> type, call |-> Nothing, args |-> 0, named |-> TRUE, index |-> 0,
                full |-> FALSE, torn |-> FALSE]
OfCall(type, c) == [Plain(type) EXCEPT !.call = c, !.index = IF c \in indexed THEN PlaceOf(c) ELSE 0]

Write(e) ==
  /\ Open /\ pipe = 0 /\ terminal = Nothing
  /\ frame' = e /\ pipe' = 4 /\ sent < MaxSent /\ sent' = sent + 1
  /\ UNCHANGED <<indexed, parser, outcome>>

Text ==
  /\ tokens < Tokens /\ tokens' = tokens + 1
  /\ Write(Plain("text")) /\ UNCHANGED <<told, terminal>>

Begun(c) == told[c] # {}
Finished(c) == told[c] \cap {"args", "done"} # {}

\* A call is announced or not, its arguments are done and then it is, or one
\* of the two; who was announced is not named again.
CallEvent(c) ==
  /\ \E k \in Kinds \ told[c] :
       /\ k = "added" => ~Begun(c)
       /\ "done" \notin told[c]
       /\ told' = [told EXCEPT ![c] = @ \cup {k}]
       /\ LET e == OfCall(k, c)
          IN CASE k = "added" -> Write(e)
               [] k = "args"  -> Write([e EXCEPT !.args = Whole, !.named = ~Begun(c), !.index = 0])
               [] k = "done"  -> \E a \in (IF "args" \in told[c] THEN {0, Whole} ELSE {Whole}) :
                                   Write([e EXCEPT !.args = a])
  /\ UNCHANGED <<tokens, terminal>>

\* The end: what completed has said all of its calls, and may list them.
End(type, full) ==
  /\ type = "completed" => \A c \in Ids : Begun(c) => Finished(c)
  /\ Write([Plain(type) EXCEPT !.full = full])
  /\ terminal' = frame' /\ UNCHANGED <<told, tokens>>

Error == Write(Plain("error")) /\ terminal' = frame' /\ UNCHANGED <<told, tokens>>

-----------------------------------------------------------------------------
(* The parser.                                                             *)

TextOnly(e) == e.type = "text"                                     \* a bug
Useful(e) == e.type \in {"text"} \cup Kinds

\* flush: an event, unless it is without data or without a name of ours.
Parsed(known, d) ==
  IF d = Nothing \/ ~known THEN UNCHANGED <<events, useful, shown>>
  ELSE LET e == [frame EXCEPT !.torn = (d = "torn")]
           usable == Useful(e) /\ (e.torn => e.type = "args")
       IN /\ events' = Append(events, e)
          /\ useful' = (useful \/ usable)
          /\ shown' = IF e.type = "text" /\ ~e.torn THEN shown + 1 ELSE shown

Feed ==
  /\ Open /\ pipe > 0 /\ pipe' = pipe - 1
  /\ name' = (pipe # 1)
  /\ data' = CASE pipe = 3 -> "torn" [] pipe = 2 -> "json" [] OTHER -> Nothing
  /\ IF pipe = 1 THEN Parsed(name, data) ELSE UNCHANGED <<events, useful, shown>>
  /\ UNCHANGED <<indexed, told, tokens, terminal, frame, outcome, sent>>

-----------------------------------------------------------------------------
(* The output: collectDoneItems.                                           *)

At(evs, c, types) == {i \in 1..Len(evs) : evs[i].call = c /\ evs[i].type \in types /\ ~evs[i].torn}

NamedOnly(evs, c) == {i \in At(evs, c, {"args", "done"}) : evs[i].named}   \* a bug
\* Arguments alone take the name from what was announced, before or after.
Collected(evs, c) ==
  {i \in At(evs, c, {"args", "done"}) : evs[i].named \/ At(evs, c, {"added", "done"}) # {}}

LastArguments(evs, c) == evs[Max(Collected(evs, c))].args          \* a bug
Arguments(evs, c) == Max({evs[i].args : i \in Collected(evs, c)})

IndexOf(evs, c) ==
  Max({evs[i].index : i \in At(evs, c, {"done"}) \cup
         (IF \E i \in Collected(evs, c) : evs[i].type = "args" THEN At(evs, c, {"added"}) ELSE {})}
      \cup {0})

InOrderSeen(evs, C) == SetToSortSeq(C, LAMBDA c, d : Min(Collected(evs, c)) < Min(Collected(evs, d)))
ByArrival(evs, C) == InOrderSeen(evs, C)                           \* a bug
InOrder(evs, C) ==
  IF \A c \in C : IndexOf(evs, c) > 0
  THEN SetToSortSeq(C, LAMBDA c, d : IndexOf(evs, c) < IndexOf(evs, d))
  ELSE InOrderSeen(evs, C)

DoneItems(evs) ==
  LET C == {c \in Ids : Collected(evs, c) # {}}
      order == InOrder(evs, C)
  IN [i \in 1..Len(order) |-> [call |-> order[i], args |-> Arguments(evs, order[i])]]

Began == SelectSeq(Calls, LAMBDA c : Begun(c))
Listed == [i \in 1..Len(Began) |-> [call |-> Began[i], args |-> Whole]]

NeverTorn(evs) == FALSE                                            \* a bug
Incomplete(evs) == \A i \in 1..Len(evs) : evs[i].type \notin Ends

\* The payload of the last event counts, its name does even when it is torn.
Payload(evs) == SelectSeq(evs, LAMBDA e : e.type \in Ends /\ ~e.torn)

Result(evs) ==
  LET ends == SelectSeq(evs, LAMBDA e : e.type \in Ends)
      failed == \E i \in 1..Len(evs) : evs[i].type \in {"error", "failed"}
      listed == Payload(evs) # <<>> /\ Last(Payload(evs)).full /\ Listed # <<>>
  IN [output |-> IF listed THEN Listed ELSE DoneItems(evs),
      status |-> IF ends = <<>> THEN Nothing ELSE Last(ends).type,
      error  |-> failed \/ Incomplete(evs)]

\* The body ends: what is left in the buffer is a line, and a frame.
BodyEnds ==
  /\ Open
  /\ Parsed(name, data)
  /\ outcome' = Result(events')
  /\ UNCHANGED <<provider, name, data, sent>>

-----------------------------------------------------------------------------
\* The connection breaks, the answer is an error, the time is over, or the
\* caller aborts.
Fails ==
  /\ Open /\ outcome' = [error |-> TRUE, status |-> Nothing, output |-> <<>>]
  /\ UNCHANGED <<provider, parser, sent>>

\* The executor makes the call again, the same one only before useful events.
Kept == shown                                                      \* a bug
Reset == 0

Again ==
  /\ outcome # Nothing /\ outcome.error
  /\ shown' = Reset /\ Fresh /\ UNCHANGED <<indexed, sent>>

Next ==
  \/ Text \/ Error \/ Feed \/ BodyEnds \/ Fails \/ Again
  \/ \E c \in Ids : CallEvent(c)
  \/ \E type \in Ends, full \in BOOLEAN : End(type, full)

Spec == Init /\ [][Next]_vars

-----------------------------------------------------------------------------
\* What the executor goes on with.
Completed == outcome # Nothing /\ ~outcome.error /\ outcome.status \in {Nothing, "completed"}

\* "Partial output is not safe to dispatch": what counts as completed the
\* provider had completed, and it is all of its calls, each once, with all of
\* its arguments.
CallsAreWhole ==
  Completed =>
    /\ terminal # Nothing /\ terminal.type = "completed"
    /\ Len(outcome.output) = Cardinality({c \in Ids : Begun(c)})
    /\ \A c \in Ids : Begun(c) =>
         \E i \in 1..Len(outcome.output) : outcome.output[i] = [call |-> c, args |-> Whole]

\* They are in the order of the provider whenever it says what that is.
CallsAreOrdered ==
  Completed /\ (\A c \in Ids : Begun(c) => c \in indexed /\ "done" \in told[c])
    => outcome.output = Listed

\* Whoever makes the call again knows whether a text or a call was on its way,
\* and what is shown is the text of this attempt.
ProgressIsKnown ==
  /\ ~useful => \A i \in 1..Len(events) : events[i].torn \/ events[i].type \notin {"text"} \cup Kinds
  /\ shown = Cardinality({i \in 1..Len(events) : events[i].type = "text" /\ ~events[i].torn})

StreamsSound == CallsAreWhole /\ CallsAreOrdered /\ ProgressIsKnown
=============================================================================
