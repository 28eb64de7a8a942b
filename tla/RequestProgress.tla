---------------------------- MODULE RequestProgress ----------------------------
(***************************************************************************)
(* How a browser tab follows the answer to its request: the coordinator    *)
(* buffers the text as it is written and flushes it to the row now and     *)
(* then; a stream of events, limited per lane, carries snapshots of the    *)
(* row; the tab merges them, polls when its stream is gone, and stops      *)
(* when the request is done.  Answers to polls arrive in any order.        *)
(*                                                                         *)
(* Texts are numbered as they are drafted, 0 is none; the cap on their     *)
(* length is left out.  A snapshot is the part of the row a tab sees.      *)
(***************************************************************************)
EXTENDS Integers, FiniteSets, Sequences

CONSTANTS
  MaxStreams,  \* MAX_EVENT_STREAMS_PER_LANE
  MaxDrafts, MaxTools, MaxOpens, MaxAnswers, \* bounds: drafts, tools, streams, polls at once
  Nothing

Streams == 1..MaxOpens
None == 0
Polling == MaxOpens + 1

VARIABLES
  row,       \* the snapshot of the row
  cancel,    \* cancel_requested
  runner,    \* "idle", "on", "closing", "over"
  buffer,    \* streamBuffers of the request: text and timer
  drafts,    \* texts so far
  streams,   \* of each open socket: what was sent last, frames on their way, closed
  lane,      \* openEventStreams of the lane
  view,      \* of the tab: the request, as it knows it
  source,    \* None, Polling, or its stream
  answers    \* to the tab's requests, on their way

server == <<row, cancel, runner, buffer, drafts>>
tab == <<view, source, answers>>
vars == <<server, streams, lane, tab>>

Final == {"completed", "failed", "cancelled"}
MaxSeq == MaxTools + 2 * MaxDrafts + 4
Snapshot == [status : {"queued", "running"} \cup Final, seq : 0..MaxSeq, text : 0..MaxDrafts,
             acts : 0..MaxTools]
Frame == [kind : {"delta", "request"}, snapshot : Snapshot]

TypeOK ==
  /\ row \in Snapshot /\ cancel \in BOOLEAN /\ runner \in {"idle", "on", "closing", "over"}
  /\ buffer \in [text : 0..MaxDrafts, timer : BOOLEAN] \cup {Nothing}
  /\ drafts \in 0..MaxDrafts
  /\ \A s \in Streams : streams[s] = Nothing \/ streams[s].frames \in Seq(Frame)
  /\ lane \in 0..MaxOpens
  /\ view \in Snapshot \cup {Nothing} /\ source \in None..Polling
  /\ \A a \in answers : a.snapshot \in Snapshot

Init ==
  /\ row = [status |-> "queued", seq |-> 0, text |-> 0, acts |-> 0]
  /\ cancel = FALSE /\ runner = "idle" /\ buffer = Nothing /\ drafts = 0
  /\ streams = [s \in Streams |-> Nothing] /\ lane = 0
  /\ view = Nothing /\ source = None /\ answers = {}

-----------------------------------------------------------------------------
(* The row.                                                                *)

SameNumber(r) == r.seq                                             \* a bug
NextNumber(r) == r.seq + 1

\* Every update that a tab sees takes the next number.
Updated(r) == [r EXCEPT !.seq = NextNumber(r)]

Claim ==
  /\ row.status = "queued" /\ runner = "idle" /\ ~cancel
  /\ row' = Updated([row EXCEPT !.status = "running"]) /\ runner' = "on"
  /\ UNCHANGED <<cancel, buffer, drafts, streams, lane, tab>>

CancelledKeepsNumber(r) == [r EXCEPT !.status = "cancelled"]       \* a bug
CancelledRow(r) == Updated([r EXCEPT !.status = "cancelled"])

\* The answer to it is a snapshot too.
Cancel ==
  /\ row.status \in {"queued", "running"} /\ ~cancel /\ cancel' = TRUE
  /\ IF row.status = "queued" THEN row' = CancelledRow(row) ELSE UNCHANGED row
  /\ view # Nothing /\ Cardinality(answers) < MaxAnswers
  /\ answers' = answers \cup {[snapshot |-> row', of |-> "poll"]}
  /\ UNCHANGED <<runner, buffer, drafts, streams, lane, view, source>>

ToolStart ==
  /\ runner # "idle" /\ row.status = "running" /\ row.acts < MaxTools
  /\ row' = Updated([row EXCEPT !.acts = @ + 1])
  /\ UNCHANGED <<cancel, runner, buffer, drafts, streams, lane, tab>>

-----------------------------------------------------------------------------
(* The text, buffered.                                                     *)

\* writeStreamText
AnyStatus(r) == ~cancel                                            \* a bug
Writable(r) == r.status = "running" /\ ~cancel

Written(r, text) == IF text # 0 /\ Writable(r) THEN Updated([r EXCEPT !.text = text]) ELSE r

\* More text, or a reset with or without any; the turn may outlive its row.
TextDelta(text) ==
  /\ runner # "idle"
  /\ \/ text = 0 /\ buffer # Nothing /\ UNCHANGED drafts
     \/ drafts < MaxDrafts /\ text = drafts + 1 /\ drafts' = text
  /\ buffer' = [text |-> text, timer |-> TRUE]
  /\ UNCHANGED <<row, cancel, runner, streams, lane, tab>>

Flush ==
  /\ buffer # Nothing /\ buffer.timer
  /\ buffer' = [buffer EXCEPT !.timer = FALSE]
  /\ row' = Written(row, buffer.text)
  /\ UNCHANGED <<cancel, runner, drafts, streams, lane, tab>>

Pending == IF buffer = Nothing THEN 0 ELSE buffer.text

\* finish: the last of the text, then the end; a cancel wins.
NoLastFlush(r) == r                                                \* a bug
LastFlush(r) == Written(r, Pending)

Finish(status) ==
  /\ runner \in {"on", "closing"} /\ runner' = "over" /\ buffer' = Nothing
  /\ LET r == LastFlush(row)
     IN IF r.status = "running"
        THEN row' = Updated([r EXCEPT !.status = IF cancel THEN "cancelled" ELSE status])
        ELSE row' = r
  /\ UNCHANGED <<cancel, drafts, streams, lane, tab>>

Close ==
  /\ runner = "on" /\ runner' = "closing"
  /\ row' = Written(row, Pending) /\ buffer' = Nothing
  /\ UNCHANGED <<cancel, drafts, streams, lane, tab>>

\* The process is gone, at any time: what ran has failed, streams break.
Restart ==
  /\ runner # "idle" /\ runner' = "idle"
  /\ row' = IF row.status = "running" THEN Updated([row EXCEPT !.status = "failed"]) ELSE row
  /\ buffer' = Nothing /\ lane' = 0
  /\ streams' = [s \in Streams |-> IF streams[s] = Nothing THEN Nothing
                                   ELSE [streams[s] EXCEPT !.closed = TRUE]]
  /\ UNCHANGED <<cancel, drafts, tab>>

-----------------------------------------------------------------------------
(* The stream of events, at the server.                                    *)

\* writeSnapshot: frames for what changed; the text goes first.
Sent(stream) ==
  IF row.seq = stream.last THEN stream
  ELSE [stream EXCEPT !.last = row.seq,
          !.frames = @ \o (IF row.text # 0 THEN <<[kind |-> "delta", snapshot |-> row]>> ELSE <<>>)
                       \o <<[kind |-> "request", snapshot |-> row]>>]

TwiceClosed(stream) == lane - 1                                    \* a bug
LaneAfter(stream) == IF stream.closed THEN lane ELSE lane - 1

Ends(s, stream) ==
  /\ streams' = [streams EXCEPT ![s] = [stream EXCEPT !.closed = TRUE]]
  /\ lane' = LaneAfter(stream)

OpenStream(s) == streams[s] # Nothing /\ ~streams[s].closed

\* What it writes to a tab that is gone is lost.
SnapshotTimer(s) ==
  /\ OpenStream(s)
  /\ LET stream == IF source = s THEN Sent(streams[s]) ELSE streams[s]
     IN IF row.status \in Final THEN Ends(s, stream)
        ELSE streams' = [streams EXCEPT ![s] = stream] /\ UNCHANGED lane
  /\ UNCHANGED <<server, tab>>

SnapshotFails(s) ==
  /\ OpenStream(s) /\ Ends(s, streams[s])
  /\ UNCHANGED <<server, tab>>

\* The socket is closed, by either side.
CloseEvent(s) ==
  /\ streams[s] # Nothing /\ source # s
  /\ streams' = [streams EXCEPT ![s] = Nothing] /\ lane' = LaneAfter(streams[s])
  /\ UNCHANGED <<server, tab>>

-----------------------------------------------------------------------------
(* The tab.                                                                *)

ActiveSnapshot(r) == r.status \in {"queued", "running"}
Watches == view # Nothing /\ ActiveSnapshot(view)

\* Sent, or recovered after a reload.
AskActive ==
  /\ view = Nothing /\ ActiveSnapshot(row) /\ Cardinality(answers) < MaxAnswers
  /\ answers' = answers \cup {[snapshot |-> row, of |-> "track"]}
  /\ UNCHANGED <<server, streams, lane, view, source>>

StrictlyNewer(v, r) == r.seq > v.seq                               \* a bug
Newer(v, r) == r.seq > v.seq \/ (r.seq = v.seq /\ r.status # v.status)

Snapshotted(v, r) == IF Newer(v, r) THEN r ELSE v

AnyDelta(v, r) == TRUE                                             \* a bug
NewerText(v, r) == r.seq > v.seq

\* mergeStreamDelta: the text and its number.
WithText(v, r) == IF NewerText(v, r) THEN [v EXCEPT !.text = r.text, !.seq = r.seq] ELSE v

Answered(a) ==
  /\ a \in answers /\ answers' = answers \ {a}
  /\ view' = IF view # Nothing THEN Snapshotted(view, a.snapshot)
             ELSE IF a.of = "track" THEN a.snapshot ELSE Nothing
  /\ UNCHANGED <<server, streams, lane, source>>

\* The observer opens its stream, the lane permitting.
Observe ==
  /\ Watches /\ source = None
  /\ \E s \in Streams :
       /\ streams[s] = Nothing /\ \A q \in 1..(s - 1) : streams[q] # Nothing
       /\ IF lane >= MaxStreams
          THEN source' = Polling /\ UNCHANGED <<streams, lane>>
          ELSE LET stream == Sent([last |-> -1, frames |-> <<>>, closed |-> FALSE])
                   over == row.status \in Final
               IN /\ source' = s
                  /\ streams' = [streams EXCEPT ![s] = [stream EXCEPT !.closed = over]]
                  /\ lane' = IF over THEN lane ELSE lane + 1
  /\ UNCHANGED <<server, view, answers>>

Receive(s) ==
  /\ source = s /\ streams[s].frames # <<>>
  /\ LET f == Head(streams[s].frames)
     IN view' = IF view = Nothing THEN Nothing
                ELSE IF f.kind = "delta" THEN WithText(view, f.snapshot)
                ELSE Snapshotted(view, f.snapshot)
  /\ streams' = [streams EXCEPT ![s].frames = Tail(@)]
  /\ UNCHANGED <<server, lane, source, answers>>

Abandon(s) ==
  streams' = [t \in Streams |-> IF t = s THEN [streams[s] EXCEPT !.frames = <<>>, !.last = 0]
                                ELSE streams[t]]

\* The stream ends or breaks, with what it had on its way.
StreamError(s) ==
  /\ source = s /\ source' = Polling /\ Abandon(s)
  /\ UNCHANGED <<server, lane, view, answers>>

Poll ==
  /\ source = Polling /\ Cardinality(answers) < MaxAnswers
  /\ answers' = answers \cup {[snapshot |-> row, of |-> "poll"]}
  /\ UNCHANGED <<server, streams, lane, view, source>>

AnswerLost(a) ==
  /\ a \in answers /\ answers' = answers \ {a}
  /\ UNCHANGED <<server, streams, lane, view, source>>

\* The request is done: its observer goes, then the request itself.
Unmount ==
  /\ view # Nothing /\ ~Watches /\ source # None /\ source' = None /\ Abandon(source)
  /\ answers' = {a \in answers : a.of # "poll"}
  /\ UNCHANGED <<server, lane, view>>

Untrack ==
  /\ view # Nothing /\ ~Watches /\ source = None /\ view' = Nothing
  /\ UNCHANGED <<server, streams, lane, source, answers>>

Reload ==
  /\ view # Nothing /\ view' = Nothing
  /\ source' = None /\ answers' = {} /\ Abandon(source)
  /\ UNCHANGED <<server, lane>>

Next ==
  \/ Claim \/ Cancel \/ ToolStart \/ Flush \/ Close \/ Restart
  \/ \E text \in 0..MaxDrafts : TextDelta(text)
  \/ \E status \in {"completed", "failed"} : Finish(status)
  \/ \E s \in Streams : \/ SnapshotTimer(s) \/ SnapshotFails(s) \/ CloseEvent(s)
                        \/ Receive(s) \/ StreamError(s)
  \/ \E a \in answers : Answered(a) \/ AnswerLost(a)
  \/ AskActive \/ Observe \/ Poll \/ Unmount \/ Untrack \/ Reload

Spec == Init /\ [][Next]_vars

-----------------------------------------------------------------------------
\* What a tab shows is true of the number it holds: when that is the row's, the
\* text is the row's, and an end is the end.
ViewIsTrue ==
  view # Nothing /\ view.seq = row.seq =>
    /\ view.text = row.text
    /\ view.status \in Final => view.status = row.status

\* A tab that got all its stream sent, and was sent the last of the row, shows
\* how the row stands.
CaughtUp ==
  \A s \in Streams :
    source = s /\ streams[s].frames = <<>> /\ streams[s].last = row.seq /\ view # Nothing
      => view.seq = row.seq /\ view.text = row.text /\ view.status = row.status

\* The streams counted for a lane are the open ones, within the limit.
LaneCounted ==
  /\ lane = Cardinality({s \in Streams : OpenStream(s)})
  /\ lane <= MaxStreams

ProgressState == ViewIsTrue /\ CaughtUp /\ LaneCounted

\* No change that a tab can see goes without a new number.  A finished row
\* stays as it is, and has the last of the text; what a tab shows never goes
\* back.
ProgressStep ==
  /\ row' # row => row'.seq > row.seq
  /\ row.status # row'.status /\ row'.status = "completed" /\ Pending # 0
       => row'.text = Pending
  /\ row.status \in Final => row' = row
  /\ view # Nothing /\ view' # Nothing => /\ view'.seq >= view.seq
                                          /\ view.status \in Final => view' = view
=============================================================================
