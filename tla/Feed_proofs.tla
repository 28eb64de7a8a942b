----------------------------- MODULE Feed_proofs -----------------------------
(***************************************************************************)
(* Proofs about the components of MCFeed: KillFeed for all chats, watches, *)
(* events and page sizes, ToolCalls for all calls, batches, operations and *)
(* limits, EveTokens for all callers, users, sign-ins and grants.          *)
(***************************************************************************)
EXTENDS MCFeed, Sequences, FiniteSetTheorems, TLAPS

(* KillFeed.                                                               *)
Processing == {"listening", "sending"}
Polling    == Processing \cup {"fetching", "ahead"}

\* A process that is down polls nothing and has restored nothing.
Stopped == ~up => step = "asleep" /\ ~ready

\* Before the bootstrap nothing was matched; after it the loop never returns.
Bootstrapped ==
  /\ cursor = NoCursor => base = NoCursor /\ owed = {} /\ step \in {"asleep", "bootstrapping"}
  /\ cursor # NoCursor => base \in 0..cursor /\ step # "bootstrapping"

\* The event in work is the one after the cursor, and the observers are ahead
\* of its whole page.
InPage == /\ step \in Processing => at = cursor + 1 /\ at <= last /\ last <= observed
          /\ step = "ahead" => observed # NoCursor

\* What this process handed to the observers is in the index.
ObservedIndexed ==
  base # NoCursor => \A s \in (base + 1)..observed : KillOf[s] \in indexed

\* The restored monitors listen from the first page on.
Restored == /\ step \in Polling => ready
            /\ ready => monitors \cap active \subseteq listeners

\* A chat owed the event in work is still to be sent to, or settled.
InWork ==
  step = "sending" =>
    /\ \A o \in owed : o[2] = at => o[1] \in todo \/ <<o[1], KillOf[at]>> \in delivered
    /\ \A c \in todo : <<c, KillOf[at]>> \notin delivered

\* Neither the cursor nor the observers pass the server.
Behind == cursor <= head /\ observed <= head

\* Messages are accepted only for the event that is being sent.
Unaccepted == step # "sending" => accepted = {}

Inv == /\ TypeOK /\ Stopped /\ Bootstrapped /\ InPage /\ ObservedIndexed /\ Restored
       /\ InWork /\ Unaccepted /\ Behind /\ IndexHasNoGap /\ CursorAfterDelivery
       /\ heard \subseteq delivered

USE DEF Events, NoCursor

LEMMA InitInv == Init => Inv
<1> SUFFICES ASSUME Init PROVE Inv
  OBVIOUS
<1> USE DEF Init
<1>1. up \in BOOLEAN /\ more \in BOOLEAN /\ ready \in BOOLEAN
  BY Zenon
<1>2. TypeOK
  BY <1>1, SizesAssumption DEF TypeOK, Steps
<1>3. Stopped /\ Restored
  <2>1. ~ready
    BY Zenon
  <2> QED BY <2>1 DEF Stopped, Restored, Polling, Processing
<1>4. Bootstrapped /\ InPage /\ ObservedIndexed
  BY DEF Bootstrapped, InPage, ObservedIndexed, Processing
<1>5. InWork /\ Unaccepted /\ Behind /\ IndexHasNoGap /\ CursorAfterDelivery
  BY DEF InWork, Unaccepted, Behind, IndexHasNoGap, CursorAfterDelivery
<1> QED BY <1>2, <1>3, <1>4, <1>5 DEF Inv

\* What the users and the server do changes nothing the poller relies on.
LEMMA Outside ==
  ASSUME Inv, TypeOK', head <= head',
         UNCHANGED <<cursor, delivered, indexed, up, active, ready, step, at, last, todo,
                     accepted, observed, history>>,
         (monitors' \cap active) \ listeners' \subseteq (monitors \cap active) \ listeners
  PROVE  Inv'
<1> USE DEF Inv, history
<1>1. Stopped' /\ Bootstrapped' /\ InPage' /\ ObservedIndexed' /\ Unaccepted'
  BY DEF Stopped, Bootstrapped, InPage, ObservedIndexed, Unaccepted, Processing
<1>2. Restored'
  BY DEF Restored
<1>3. InWork' /\ IndexHasNoGap' /\ CursorAfterDelivery' /\ heard' \subseteq delivered'
  BY DEF InWork, IndexHasNoGap, CursorAfterDelivery
<1>4. Behind'
  BY DEF Behind, TypeOK
<1> QED BY <1>1, <1>2, <1>3, <1>4

\* The poller goes to sleep, or looks ahead, without touching the database.
LEMMA Resting ==
  ASSUME Inv, TypeOK', up, step \in Polling \cup {"asleep", "bootstrapping"},
         UNCHANGED <<head, database, up, active, ready, listeners, observed, history>>,
         step' = "ahead" => step \in Polling /\ observed # NoCursor,
         step' \in {"asleep", "ahead"}, accepted' = {}
  PROVE  Inv'
<1> USE DEF Inv, database, history
<1>1. Stopped' /\ ObservedIndexed' /\ Unaccepted' /\ InWork' /\ Behind'
  BY DEF Stopped, ObservedIndexed, Unaccepted, InWork, Behind
<1>2. Bootstrapped' /\ InPage'
  BY DEF Bootstrapped, InPage, Processing, Polling
<1>3. Restored'
  BY DEF Restored, Processing, Polling
<1>4. IndexHasNoGap' /\ CursorAfterDelivery' /\ heard' \subseteq delivered'
  BY DEF IndexHasNoGap, CursorAfterDelivery
<1> QED BY <1>1, <1>2, <1>3, <1>4

\* What the poller leaves behind when it goes to sleep has its types.
PollerTypes ==
  /\ step \in Steps /\ at \in 0..MaxSeq /\ last \in 0..MaxSeq /\ more \in BOOLEAN
  /\ called \subseteq Chats /\ todo \subseteq Chats /\ accepted \subseteq todo
  /\ pages \in 0..AheadPages

LEMMA SleepTypes == ASSUME Sleep PROVE PollerTypes'
<1>1. more' \in BOOLEAN
  BY Zenon DEF Sleep
<1>2. step' \in Steps /\ called' \subseteq Chats /\ todo' \subseteq Chats /\ accepted' \subseteq todo'
  BY DEF Sleep, Steps
<1>3. at' \in 0..MaxSeq /\ last' \in 0..MaxSeq /\ pages' \in 0..AheadPages
  BY SizesAssumption DEF Sleep
<1> QED BY <1>1, <1>2, <1>3 DEF PollerTypes

LEMMA HoldTypes == ASSUME HeldOnFailure PROVE PollerTypes'
<1>1. CASE Sleep
  BY <1>1, SleepTypes
<1>2. CASE ~Sleep
  <2>1. more' = FALSE
    BY <1>2 DEF HeldOnFailure, Hold
  <2>2. more' \in BOOLEAN
    BY <2>1, Zenon
  <2>3. /\ step' \in Steps /\ called' \subseteq Chats /\ todo' \subseteq Chats
        /\ accepted' \subseteq todo'
    BY <1>2 DEF HeldOnFailure, Hold, Steps
  <2>4. at' \in 0..MaxSeq /\ last' \in 0..MaxSeq /\ pages' \in 0..AheadPages
    BY <1>2, SizesAssumption DEF HeldOnFailure, Hold
  <2> QED BY <2>2, <2>3, <2>4 DEF PollerTypes
<1> QED BY <1>1, <1>2

LEMMA TypeStep == Inv /\ [Next]_vars => TypeOK'
<1> SUFFICES ASSUME Inv, [Next]_vars PROVE TypeOK'
  OBVIOUS
<1> USE FeedAssumption, SizesAssumption DEF Inv, TypeOK, Steps
<1>1. CASE UNCHANGED vars
  BY <1>1 DEF vars, database, poller, history
<1>2. CASE Publish
  BY <1>2 DEF Publish, database, poller, history
<1>3. CASE Start
  BY <1>3 DEF Start, database, poller, history
<1>4. CASE Crash
  <2>1. ready' \in BOOLEAN /\ up' \in BOOLEAN
    BY <1>4, Zenon DEF Crash
  <2>2. PollerTypes'
    BY <1>4, SleepTypes DEF Crash, Sleep
  <2> QED BY <1>4, <2>1, <2>2 DEF Crash, database, history, PollerTypes
<1>5. CASE Restore
  BY <1>5 DEF Restore, database, poller, history
<1>6. CASE Poll
  BY <1>6 DEF Poll, database, history
<1>7. CASE PageFails
  BY <1>7, SleepTypes DEF PageFails, database, history, PollerTypes
<1>8. CASE Bootstrap
  BY <1>8, SleepTypes DEF Bootstrap, PollerTypes
<1>9. CASE PageArrives
  <2> DEFINE end == Min2(head, cursor + PageLimit)
  <2>1. cursor \in 0..MaxSeq /\ head \in 0..MaxSeq /\ cursor <= head
    BY <1>9 DEF PageArrives, Bootstrapped, Behind
  <2>2. end \in 0..MaxSeq /\ end <= head
    BY <2>1 DEF Min2
  <2>3. ObservedFrom \in 0..MaxSeq
    BY <2>1 DEF ObservedFrom
  <2>4. indexed' \subseteq Kills /\ observed' \in NoCursor..MaxSeq
    <3>1. {KillOf[s] : s \in (ObservedFrom + 1)..end} \subseteq Kills
      <4>1. \A s \in (ObservedFrom + 1)..end : KillOf[s] \in Kills
        BY <2>2, <2>3
      <4> QED BY <4>1, Zenon
    <3>2. indexed' = indexed \cup {KillOf[s] : s \in (ObservedFrom + 1)..end}
      BY <1>9, Zenon DEF PageArrives, Observe
    <3>3. indexed' \subseteq Kills
      BY <3>1, <3>2, Zenon
    <3>4. observed' = IF end > ObservedFrom THEN end ELSE ObservedFrom
      BY <1>9, Zenon DEF PageArrives, Observe
    <3> QED BY <2>2, <2>3, <3>3, <3>4
  <2>5. /\ step' \in Steps /\ at' \in 0..MaxSeq /\ last' \in 0..MaxSeq /\ more' \in BOOLEAN
        /\ called' \subseteq Chats /\ todo' \subseteq Chats /\ accepted' \subseteq todo'
        /\ pages' \in 0..AheadPages
    <3>0. cursor + PageLimit > cursor
      BY <2>1
    <3>1. CASE end = cursor
      BY <1>9, <3>1, SleepTypes DEF PageArrives, PollerTypes
    <3>2. CASE end # cursor
      <4>1. cursor + 1 \in 0..MaxSeq
        <5>1. cursor < end
          BY <2>1, <2>2, <3>0, <3>2 DEF Min2, PageArrives
        <5> QED BY <2>1, <2>2, <5>1
      <4>2. more' = (end < head)
        BY <1>9, <3>2 DEF PageArrives
      <4>3. more' \in BOOLEAN
        <5>1. (end < head) \in BOOLEAN
          BY <2>1, <2>2
        <5> QED BY <4>2, <5>1, Zenon
      <4>4. /\ step' = "listening" /\ at' = cursor + 1 /\ last' = end /\ called' = {}
            /\ todo' = todo /\ accepted' = accepted /\ pages' = pages
        BY <1>9, <3>2, Zenon DEF PageArrives
      <4> HIDE DEF end
      <4> QED BY <2>2, <4>1, <4>3, <4>4
    <3> QED BY <3>1, <3>2
  <2> QED BY <1>9, <2>4, <2>5 DEF PageArrives, history
<1>10. CASE AheadArrives
  <2> DEFINE end == Min2(head, observed + PageLimit)
  <2>1. observed \in 0..MaxSeq /\ head \in 0..MaxSeq
    BY <1>10 DEF AheadArrives, InPage
  <2>2. end \in 0..MaxSeq
    BY <2>1 DEF Min2
  <2>3. indexed' \subseteq Kills /\ observed' \in NoCursor..MaxSeq
    <3>1. {KillOf[s] : s \in (observed + 1)..end} \subseteq Kills
      <4>1. \A s \in (observed + 1)..end : KillOf[s] \in Kills
        BY <2>1, <2>2
      <4> QED BY <4>1, Zenon
    <3>2. indexed' = indexed \cup {KillOf[s] : s \in (observed + 1)..end}
      BY <1>10, Zenon DEF AheadArrives, Observe
    <3>3. indexed' \subseteq Kills
      BY <3>1, <3>2, Zenon
    <3> QED BY <1>10, <2>1, <2>2, <3>3 DEF AheadArrives, Observe
  <2>4. step' \in Steps /\ pages' \in 0..AheadPages
    BY <1>10 DEF AheadArrives
  <2> QED BY <1>10, <2>3, <2>4 DEF AheadArrives, history
<1>11. CASE Match
  <2>1. at \in Events
    BY <1>11 DEF Match, InPage, Bootstrapped, Processing
  <2>2. Watching(at) \cap Deliverable \subseteq Chats
    BY DEF Watching
  <2>3. owed' \subseteq Chats \X Events
    <3>1. (Watching(at) \cap Deliverable) \X {at} \subseteq Chats \X Events
      BY <2>1, <2>2
    <3> QED BY <1>11, <3>1 DEF Match
  <2>4. todo' \subseteq Chats /\ accepted' \subseteq todo'
    BY <1>11, <2>2 DEF Match, Unaccepted
  <2> QED BY <1>11, <2>3, <2>4 DEF Match, database
<1>12. CASE Advance
  <2>1. at \in 1..MaxSeq /\ at <= last
    BY <1>12 DEF Advance, InPage, Bootstrapped, Processing
  <2>2. CASE at = last
    BY <1>12, <2>1, <2>2, SleepTypes DEF Advance, history, PollerTypes
  <2>3. CASE at # last
    <3>1. at + 1 \in 0..MaxSeq
      BY <2>1, <2>3
    <3> QED BY <1>12, <2>1, <2>3, <3>1 DEF Advance, history
  <2> QED BY <2>2, <2>3
<1>13. ASSUME NEW c \in Chats, NEW t \in Topics, AddWatch(c, t) \/ RemoveWatch(c, t)
       PROVE  TypeOK'
  <2>1. watches' \subseteq Chats \X Topics
    BY <1>13 DEF AddWatch, RemoveWatch
  <2> QED BY <1>13, <2>1 DEF AddWatch, RemoveWatch, poller, history
<1>14. ASSUME NEW c \in Chats, StartMonitor(c) \/ StopMonitor(c)
       PROVE  TypeOK'
  BY <1>14 DEF StartMonitor, StopMonitor, poller, history
<1>15. ASSUME NEW c \in Chats, ListenerReturns(c)
       PROVE  TypeOK'
  BY <1>15 DEF ListenerReturns, database, history
<1>16. ASSUME NEW c \in Chats, ListenerFails(c) \/ SendFails(c)
       PROVE  TypeOK'
  <2>1. cursor' = cursor
    BY <1>16 DEF ListenerFails, SendFails, HeldOnFailure
  <2> QED BY <1>16, <2>1, HoldTypes DEF ListenerFails, SendFails, history, PollerTypes
<1>17. ASSUME NEW c \in Chats, Accept(c)
       PROVE  TypeOK'
  BY <1>17 DEF Accept, database, history
<1>18. ASSUME NEW c \in Chats, Resolve(c) \/ Refused(c)
       PROVE  TypeOK'
  <2>1. KillOf[at] \in Kills
    BY <1>18 DEF Resolve, Refused, InPage, Bootstrapped, Processing
  <2> QED BY <1>18, <2>1 DEF Resolve, Refused, Recorded, history
<1> QED
  BY <1>1, <1>2, <1>3, <1>4, <1>5, <1>6, <1>7, <1>8, <1>9, <1>10, <1>11, <1>12, <1>13,
     <1>14, <1>15, <1>16, <1>17, <1>18 DEF Next

-----------------------------------------------------------------------------
\* A page of observed events, that starts where the process has observed, leaves no gap.
LEMMA ObservingLeavesNoGap ==
  ASSUME NEW low \in Int, NEW upto \in Int, Observe(low, upto),
         Inv, low = observed \/ low = cursor, UNCHANGED <<base, cursor>>
  PROVE  ObservedIndexed' /\ IndexHasNoGap'
<1>1. indexed' = indexed \cup {KillOf[s] : s \in (low + 1)..upto}
  BY Zenon DEF Observe
<1>2. ASSUME NEW s \in (low + 1)..upto PROVE KillOf[s] \in indexed'
  BY <1>1, <1>2, Zenon
<1>3. indexed \subseteq indexed'
  BY <1>1, Zenon
<1>4. observed' = IF upto > low THEN upto ELSE low
  BY Zenon DEF Observe
<1>5. IndexHasNoGap'
  BY <1>3 DEF Inv, IndexHasNoGap
<1>6. ObservedIndexed'
  BY <1>2, <1>3, <1>4 DEF Inv, ObservedIndexed, IndexHasNoGap, TypeOK
<1> QED BY <1>5, <1>6

LEMMA HeldInv ==
  ASSUME Inv, TypeOK', up, step \in Processing, HeldOnFailure,
         UNCHANGED <<head, watches, delivered, monitors, indexed, up, starts, active,
                     ready, listeners, observed, history>>
  PROVE  Inv'
<1>1. UNCHANGED cursor /\ step' \in {"asleep", "ahead"} /\ accepted' = {}
  BY DEF HeldOnFailure, Hold, Sleep
<1>2. observed # NoCursor /\ step \in Polling
  BY DEF Inv, TypeOK, InPage, Bootstrapped, Processing, Polling
<1> QED BY <1>1, <1>2, Resting DEF database

LEMMA PageInv == ASSUME Inv, TypeOK', PageArrives PROVE Inv'
<1> DEFINE end == Min2(head, cursor + PageLimit)
<1> USE DEF Inv
<1>1. /\ cursor \in 0..MaxSeq /\ head \in 0..MaxSeq /\ cursor <= head
      /\ observed \in NoCursor..MaxSeq /\ base \in 0..cursor /\ observed <= head
  BY DEF PageArrives, Bootstrapped, Behind, TypeOK
<1>2. end \in Int /\ end <= head /\ cursor <= end
  BY <1>1, SizesAssumption DEF Min2
<1>3. ObservedFrom \in Int /\ cursor <= ObservedFrom /\ ObservedFrom <= head
      /\ (ObservedFrom = observed \/ ObservedFrom = cursor)
  BY <1>1 DEF ObservedFrom
<1>4. Observe(ObservedFrom, end) /\ up /\ step = "fetching"
  BY Zenon DEF PageArrives
<1>5. UNCHANGED <<head, cursor, delivered, monitors, up, active, ready, listeners, base, owed, heard>>
  BY DEF PageArrives, history
<1>6. observed' = IF end > ObservedFrom THEN end ELSE ObservedFrom
  BY <1>4, Zenon DEF Observe
<1>7. ObservedIndexed' /\ IndexHasNoGap'
  <2> HIDE DEF end, Inv
  <2> QED BY <1>2, <1>3, <1>4, <1>5, ObservingLeavesNoGap
<1>8. end <= observed' /\ observed' <= head
  <2> HIDE DEF end
  <2> QED BY <1>2, <1>3, <1>6
<1>9. Behind'
  BY <1>1, <1>5, <1>8 DEF Behind
<1>10. accepted = {}
  BY <1>4 DEF Unaccepted
<1>11. \/ step' = "asleep" /\ accepted' = {}
       \/ step' = "listening" /\ at' = cursor + 1 /\ last' = end /\ end # cursor /\ accepted' = accepted
  BY Zenon DEF PageArrives, Sleep
<1>12. InPage' /\ Bootstrapped' /\ InWork' /\ Unaccepted'
  <2> HIDE DEF end
  <2>1. CASE step' = "asleep" /\ accepted' = {}
    BY <1>1, <1>5, <2>1 DEF InPage, Bootstrapped, InWork, Unaccepted, Processing
  <2>2. CASE step' = "listening" /\ at' = cursor + 1 /\ last' = end /\ end # cursor /\ accepted' = accepted
    BY <1>1, <1>2, <1>5, <1>8, <1>10, <2>2 DEF InPage, Bootstrapped, InWork, Unaccepted, Processing
  <2> QED BY <1>11, <2>1, <2>2
<1>13. Stopped' /\ Restored' /\ CursorAfterDelivery' /\ heard' \subseteq delivered'
  BY <1>4, <1>5 DEF Stopped, Restored, CursorAfterDelivery, Polling
<1> QED BY <1>7, <1>9, <1>12, <1>13

LEMMA AheadInv == ASSUME Inv, TypeOK', AheadArrives PROVE Inv'
<1> DEFINE end == Min2(head, observed + PageLimit)
<1> USE DEF Inv
<1>1. /\ head \in 0..MaxSeq /\ observed \in 0..MaxSeq /\ observed <= head
      /\ cursor # NoCursor
  BY DEF AheadArrives, InPage, Bootstrapped, Behind, TypeOK
<1>2. end \in Int /\ end <= head
  BY <1>1, SizesAssumption DEF Min2
<1>3. Observe(observed, end) /\ up /\ step = "ahead"
  BY Zenon DEF AheadArrives
<1>4. UNCHANGED <<head, cursor, delivered, monitors, up, active, ready, listeners, accepted,
                  base, owed, heard>>
  BY DEF AheadArrives, history
<1>5. ObservedIndexed' /\ IndexHasNoGap'
  <2> HIDE DEF end, Inv
  <2> QED BY <1>1, <1>2, <1>3, <1>4, ObservingLeavesNoGap
<1>6. observed' = IF end > observed THEN end ELSE observed
  BY <1>3, Zenon DEF Observe
<1>7. Behind' /\ observed' # NoCursor
  <2> HIDE DEF end
  <2> QED BY <1>1, <1>2, <1>4, <1>6 DEF Behind
<1>8. step' \in {"asleep", "ahead"} /\ accepted' = {}
  BY DEF AheadArrives, Unaccepted
<1>9. InPage' /\ Bootstrapped' /\ InWork' /\ Unaccepted'
  BY <1>1, <1>4, <1>7, <1>8 DEF InPage, Bootstrapped, InWork, Unaccepted, Processing
<1>10. Stopped' /\ Restored' /\ CursorAfterDelivery' /\ heard' \subseteq delivered'
  BY <1>3, <1>4, <1>8 DEF Stopped, Restored, CursorAfterDelivery, Polling
<1> QED BY <1>5, <1>7, <1>9, <1>10

LEMMA BootstrapInv == ASSUME Inv, TypeOK', Bootstrap PROVE Inv'
<1> USE DEF Inv
<1>1. /\ cursor' = head /\ base' = head /\ observed' = head /\ step' = "asleep" /\ accepted' = {}
      /\ up /\ step = "bootstrapping" /\ head \in 0..MaxSeq
      /\ UNCHANGED <<head, delivered, monitors, indexed, up, active, ready, listeners, owed, heard>>
  BY DEF Bootstrap, Sleep, TypeOK
<1>2. owed = {}
  BY <1>1 DEF Bootstrapped
<1>3. Bootstrapped' /\ InPage' /\ InWork' /\ Unaccepted' /\ Behind'
  BY <1>1, <1>2 DEF Bootstrapped, InPage, InWork, Unaccepted, Behind, Processing
<1>4. ObservedIndexed' /\ IndexHasNoGap'
  BY <1>1 DEF ObservedIndexed, IndexHasNoGap
<1>5. Stopped' /\ Restored' /\ CursorAfterDelivery' /\ heard' \subseteq delivered'
  BY <1>1, <1>2 DEF Stopped, Restored, CursorAfterDelivery, Polling, Processing
<1> QED BY <1>3, <1>4, <1>5

LEMMA CrashInv == ASSUME Inv, TypeOK', Crash PROVE Inv'
<1> USE DEF Inv
<1>1. /\ step' = "asleep" /\ accepted' = {} /\ observed' = NoCursor
      /\ UNCHANGED <<head, cursor, delivered, indexed, base, owed, heard>>
  BY DEF Crash, database, history
<1>2. ~up' /\ ~ready'
  BY Zenon DEF Crash
<1>3. Stopped' /\ Restored'
  BY <1>1, <1>2 DEF Stopped, Restored, Polling, Processing
<1>4. Bootstrapped' /\ InPage' /\ InWork' /\ Unaccepted' /\ Behind'
  BY <1>1 DEF Bootstrapped, InPage, InWork, Unaccepted, Behind, Processing, TypeOK
<1>5. ObservedIndexed' /\ IndexHasNoGap' /\ CursorAfterDelivery' /\ heard' \subseteq delivered'
  BY <1>1 DEF ObservedIndexed, IndexHasNoGap, CursorAfterDelivery, TypeOK
<1> QED BY <1>3, <1>4, <1>5

LEMMA StartInv == ASSUME Inv, TypeOK', Start PROVE Inv'
<1> USE DEF Inv
<1>1. UNCHANGED <<head, cursor, delivered, monitors, indexed, ready, listeners, step, at, last, todo,
                  accepted, observed, base, owed, heard>>
  BY DEF Start, database, poller, history
<1>2. step = "asleep" /\ ~ready /\ up'
  BY Zenon DEF Start, Stopped
<1>3. Stopped' /\ Restored'
  BY <1>1, <1>2 DEF Stopped, Restored, Polling, Processing
<1>4. Bootstrapped' /\ InPage' /\ InWork' /\ Unaccepted' /\ Behind'
  BY <1>1 DEF Bootstrapped, InPage, InWork, Unaccepted, Behind
<1>5. ObservedIndexed' /\ IndexHasNoGap' /\ CursorAfterDelivery' /\ heard' \subseteq delivered'
  BY <1>1 DEF ObservedIndexed, IndexHasNoGap, CursorAfterDelivery
<1> QED BY <1>3, <1>4, <1>5

LEMMA RestoreInv == ASSUME Inv, TypeOK', Restore PROVE Inv'
<1> USE DEF Inv
<1>1. UNCHANGED <<head, cursor, delivered, monitors, indexed, up, active, step, at, last, todo,
                  accepted, observed, base, owed, heard>>
  BY DEF Restore, database, poller, history
<1>2. up /\ step = "asleep" /\ listeners' = listeners \cup (monitors \cap active)
  BY DEF Restore
<1>3. Stopped' /\ Restored'
  BY <1>1, <1>2 DEF Stopped, Restored, Polling, Processing
<1>4. Bootstrapped' /\ InPage' /\ InWork' /\ Unaccepted' /\ Behind'
  BY <1>1 DEF Bootstrapped, InPage, InWork, Unaccepted, Behind
<1>5. ObservedIndexed' /\ IndexHasNoGap' /\ CursorAfterDelivery' /\ heard' \subseteq delivered'
  BY <1>1 DEF ObservedIndexed, IndexHasNoGap, CursorAfterDelivery
<1> QED BY <1>3, <1>4, <1>5

LEMMA PollInv == ASSUME Inv, TypeOK', Poll PROVE Inv'
<1> USE DEF Inv
<1>1. UNCHANGED <<head, cursor, delivered, monitors, indexed, up, active, ready, listeners,
                  accepted, observed, base, owed, heard>>
  BY DEF Poll, database, history
<1>2. /\ up /\ step = "asleep"
      /\ \/ cursor = NoCursor /\ step' = "bootstrapping"
         \/ cursor # NoCursor /\ ready /\ step' = "fetching"
  BY DEF Poll, MayPoll
<1>3. Stopped' /\ Restored'
  BY <1>1, <1>2 DEF Stopped, Restored, Polling, Processing
<1>4. Bootstrapped' /\ InPage' /\ InWork' /\ Unaccepted' /\ Behind'
  BY <1>1, <1>2 DEF Bootstrapped, InPage, InWork, Unaccepted, Behind, Processing
<1>5. ObservedIndexed' /\ IndexHasNoGap' /\ CursorAfterDelivery' /\ heard' \subseteq delivered'
  BY <1>1 DEF ObservedIndexed, IndexHasNoGap, CursorAfterDelivery
<1> QED BY <1>3, <1>4, <1>5

\* Matching may rediscover an event behind a held cursor: only events after
\* the cursor enter owed.
LEMMA MatchInv == ASSUME Inv, TypeOK', Match PROVE Inv'
<1> DEFINE found == Watching(at) \cap Deliverable
<1> USE DEF Inv
<1>1. /\ UNCHANGED <<head, cursor, delivered, monitors, indexed, up, active, ready, listeners, at,
                     last, accepted, observed, base, heard>>
      /\ up /\ step = "listening" /\ step' = "sending"
  BY DEF Match, database
<1>2. todo' = {c \in found : <<c, KillOf[at]>> \notin delivered}
  BY DEF Match
<1>3. owed' = {o \in owed : o[2] # at} \cup (found \X {at})
  BY Zenon DEF Match
<1>4. at = cursor + 1 /\ cursor \in 0..MaxSeq
  BY <1>1 DEF InPage, Bootstrapped, TypeOK, Processing
<1> HIDE DEF found
<1>5. \A o \in owed' : (o \in owed /\ o[2] # at) \/ (o[1] \in found /\ o[2] = at)
  <2>1. \A o \in found \X {at} : o[1] \in found /\ o[2] = at
    OBVIOUS
  <2>2. ASSUME NEW o \in owed' PROVE o \in {p \in owed : p[2] # at} \/ o \in found \X {at}
    BY <1>3, <2>2, Zenon
  <2> QED BY <2>1, <2>2
<1>6. InWork'
  <2>1. \A o \in owed' : o[2] = at => o[1] \in todo' \/ <<o[1], KillOf[at]>> \in delivered
    BY <1>2, <1>5
  <2>2. \A c \in todo' : <<c, KillOf[at]>> \notin delivered
    BY <1>2
  <2> QED BY <1>1, <2>1, <2>2 DEF InWork
<1>7. CursorAfterDelivery'
  BY <1>1, <1>4, <1>5 DEF CursorAfterDelivery
<1>8. Bootstrapped' /\ InPage' /\ Unaccepted' /\ Behind'
  BY <1>1, <1>4 DEF Bootstrapped, InPage, Unaccepted, Behind, Processing
<1>9. Stopped' /\ Restored' /\ ObservedIndexed' /\ IndexHasNoGap' /\ heard' \subseteq delivered'
  BY <1>1 DEF Stopped, Restored, ObservedIndexed, IndexHasNoGap, Polling, Processing
<1> QED BY <1>6, <1>7, <1>8, <1>9

LEMMA AcceptInv == ASSUME Inv, TypeOK', NEW c \in Chats, Accept(c) PROVE Inv'
<1> USE DEF Inv
<1>1. /\ UNCHANGED <<head, cursor, delivered, monitors, indexed, up, active, ready, listeners, step, at,
                     last, todo, observed, base, owed, heard>>
      /\ step = "sending"
  BY DEF Accept, database, history
<1>2. Bootstrapped' /\ InPage' /\ Unaccepted' /\ Behind' /\ InWork' /\ CursorAfterDelivery'
  BY <1>1 DEF Bootstrapped, InPage, Unaccepted, Behind, InWork, CursorAfterDelivery
<1>3. Stopped' /\ Restored' /\ ObservedIndexed' /\ IndexHasNoGap' /\ heard' \subseteq delivered'
  BY <1>1 DEF Stopped, Restored, ObservedIndexed, IndexHasNoGap
<1> QED BY <1>2, <1>3

LEMMA SettledInv ==
  ASSUME Inv, TypeOK', NEW c \in Chats, Resolve(c) \/ Refused(c) PROVE Inv'
<1> USE DEF Inv
<1>1. /\ UNCHANGED <<head, cursor, monitors, indexed, up, active, ready, listeners, step, at,
                     last, observed, base, owed>>
      /\ step = "sending" /\ delivered' = delivered \cup {<<c, KillOf[at]>>} /\ todo' = todo \ {c}
  BY DEF Resolve, Refused, Recorded, history
<1>2. heard' \subseteq delivered'
  BY DEF Resolve, Refused, Recorded, history
<1>3. InWork'
  <2>1. \A o \in owed : o[2] = at => o[1] \in todo' \/ <<o[1], KillOf[at]>> \in delivered'
    BY <1>1 DEF InWork
  <2>2. ASSUME NEW d \in todo' PROVE <<d, KillOf[at]>> \notin delivered'
    BY <1>1, <2>2 DEF InWork
  <2> QED BY <1>1, <2>1, <2>2 DEF InWork
<1>4. CursorAfterDelivery'
  BY <1>1 DEF CursorAfterDelivery
<1>5. Bootstrapped' /\ InPage' /\ Unaccepted' /\ Behind'
  BY <1>1 DEF Bootstrapped, InPage, Unaccepted, Behind
<1>6. Stopped' /\ Restored' /\ ObservedIndexed' /\ IndexHasNoGap'
  BY <1>1 DEF Stopped, Restored, ObservedIndexed, IndexHasNoGap
<1> QED BY <1>2, <1>3, <1>4, <1>5, <1>6

\* The cursor moves over one event, whose chats are settled and whose page the
\* observers have seen.
LEMMA AdvanceInv == ASSUME Inv, TypeOK', Advance PROVE Inv'
<1> USE DEF Inv
<1>1. /\ UNCHANGED <<head, delivered, monitors, indexed, up, active, ready, listeners,
                     observed, base, owed, heard>>
      /\ up /\ step = "sending" /\ todo = {} /\ cursor' = at /\ ready
  BY DEF Advance, history, Restored, Polling, Processing
<1>2. /\ at = cursor + 1 /\ cursor \in 0..MaxSeq /\ base \in 0..cursor /\ at <= last /\ last <= observed
      /\ last \in 0..MaxSeq /\ observed <= head /\ observed \in NoCursor..MaxSeq /\ head \in 0..MaxSeq
  BY <1>1 DEF InPage, Bootstrapped, TypeOK, Processing, Behind
<1>3. accepted = {}
  BY <1>1 DEF TypeOK
<1>4. \/ step' = "asleep" /\ accepted' = {}
      \/ step' = "listening" /\ at' = at + 1 /\ at # last /\ last' = last /\ accepted' = accepted
  BY DEF Advance, Sleep
<1>5. InWork' /\ Unaccepted' /\ InPage'
  <2>1. InWork' /\ Unaccepted'
    BY <1>3, <1>4 DEF InWork, Unaccepted
  <2>2. InPage'
    BY <1>1, <1>2, <1>4 DEF InPage, Processing
  <2> QED BY <2>1, <2>2
<1>6. Bootstrapped' /\ Behind'
  BY <1>1, <1>2, <1>4 DEF Bootstrapped, Behind
<1>7. CursorAfterDelivery'
  <2> SUFFICES ASSUME NEW o \in owed, o[2] <= at PROVE <<o[1], KillOf[o[2]]>> \in delivered
    BY <1>1 DEF CursorAfterDelivery
  <2>1. o[2] \in 1..MaxSeq
    BY DEF TypeOK
  <2>2. CASE o[2] = at
    BY <1>1, <2>2 DEF InWork
  <2>3. CASE o[2] <= cursor
    BY <2>3 DEF CursorAfterDelivery
  <2> QED BY <1>2, <2>1, <2>2, <2>3
<1>8. ObservedIndexed' /\ IndexHasNoGap'
  BY <1>1, <1>2 DEF ObservedIndexed, IndexHasNoGap
<1>9. Stopped' /\ Restored' /\ heard' \subseteq delivered'
  BY <1>1 DEF Stopped, Restored
<1> QED BY <1>5, <1>6, <1>7, <1>8, <1>9

LEMMA StepInv == Inv /\ [Next]_vars => Inv'
<1> SUFFICES ASSUME Inv, [Next]_vars PROVE Inv'
  OBVIOUS
<1>0. TypeOK'
  BY TypeStep
<1> USE <1>0
<1>1. CASE UNCHANGED vars
  <2>1. head <= head'
    BY <1>1 DEF vars, Inv, TypeOK
  <2> QED BY <1>1, <2>1, Outside DEF vars, database, poller, history
<1>2. CASE Publish
  <2>1. head <= head'
    BY <1>2 DEF Publish, Inv, TypeOK
  <2> QED BY <1>2, <2>1, Outside DEF Publish, database, poller, history
<1>3. CASE Start
  BY <1>3, StartInv
<1>4. CASE Crash
  BY <1>4, CrashInv
<1>5. CASE Restore
  BY <1>5, RestoreInv
<1>6. CASE Poll
  BY <1>6, PollInv
<1>7. CASE PageFails
  <2>1. step \in Polling \cup {"asleep", "bootstrapping"}
    BY <1>7 DEF PageFails, Polling
  <2>2. step' = "asleep" /\ accepted' = {}
    BY <1>7 DEF PageFails, Sleep
  <2> QED BY <1>7, <2>1, <2>2, Resting DEF PageFails
<1>8. CASE Bootstrap
  BY <1>8, BootstrapInv
<1>9. CASE PageArrives
  BY <1>9, PageInv
<1>10. CASE AheadArrives
  BY <1>10, AheadInv
<1>11. CASE Match
  BY <1>11, MatchInv
<1>12. CASE Advance
  BY <1>12, AdvanceInv
<1>13. ASSUME NEW c \in Chats, NEW t \in Topics, AddWatch(c, t) \/ RemoveWatch(c, t)
       PROVE  Inv'
  <2>1. head <= head'
    BY <1>13 DEF AddWatch, RemoveWatch, Inv, TypeOK
  <2> QED BY <1>13, <2>1, Outside DEF AddWatch, RemoveWatch, poller, history
<1>14. ASSUME NEW c \in Chats, StartMonitor(c) \/ StopMonitor(c)
       PROVE  Inv'
  <2>1. head <= head'
    BY <1>14 DEF StartMonitor, StopMonitor, Inv, TypeOK
  <2> QED BY <1>14, <2>1, Outside DEF StartMonitor, StopMonitor, poller, history
<1>15. ASSUME NEW c \in Chats, ListenerReturns(c)
       PROVE  Inv'
  <2>1. head <= head'
    BY <1>15 DEF ListenerReturns, Inv, TypeOK
  <2> QED BY <1>15, <2>1, Outside DEF ListenerReturns, database, history
<1>16. ASSUME NEW c \in Chats, ListenerFails(c) \/ SendFails(c)
       PROVE  Inv'
  BY <1>16, HeldInv DEF ListenerFails, SendFails, Processing
<1>17. ASSUME NEW c \in Chats, Accept(c)
       PROVE  Inv'
  BY <1>17, AcceptInv
<1>18. ASSUME NEW c \in Chats, Resolve(c) \/ Refused(c)
       PROVE  Inv'
  BY <1>18, SettledInv
<1> QED
  BY <1>1, <1>2, <1>3, <1>4, <1>5, <1>6, <1>7, <1>8, <1>9, <1>10, <1>11, <1>12, <1>13,
     <1>14, <1>15, <1>16, <1>17, <1>18 DEF Next

LEMMA Invariance == Spec => []Inv
BY InitInv, StepInv, PTL DEF Spec

-----------------------------------------------------------------------------
\* The poller's state and the rows it keeps have their types in every state.
THEOREM TypeCorrect == Spec => []TypeOK
<1>1. Inv => TypeOK
  BY DEF Inv
<1> QED BY <1>1, Invariance, PTL

\* runFeedPollOnce writes the cursor after the sends: whatever fails, crashes or
\* is retried, a matched chat behind the cursor was sent its killmail or refused it.
THEOREM CursorAfterDeliveryHolds == Spec => []CursorAfterDelivery
<1>1. Inv => CursorAfterDelivery
  BY DEF Inv
<1> QED BY <1>1, Invariance, PTL

\* The kill index has no gap between the bootstrap and the cursor, though a
\* restart forgets how far the observers had come.
THEOREM IndexHasNoGapHolds == Spec => []IndexHasNoGap
<1>1. Inv => IndexHasNoGap
  BY DEF Inv
<1> QED BY <1>1, Invariance, PTL

\* The loop restores the route monitors before it polls: no event is processed
\* while a saved monitor of a served platform does not listen.
THEOREM MonitorsListenHolds == Spec => []MonitorsListen
<1>1. Inv => MonitorsListen
  BY DEF Inv, Restored, MonitorsListen, Polling, Processing
<1> QED BY <1>1, Invariance, PTL

\* A delivery that was recorded is never repeated to the chat: the records are
\* looked up in the same block that chooses whom to send to.
THEOREM NeverSentAgainHolds == Spec => NeverSentAgain
<1> DEFINE Fresh == \A c \in Chats : c \in accepted' /\ c \notin accepted
                      => <<c, KillOf[at]>> \notin heard
<1>1. Inv /\ [Next]_vars => [Fresh]_vars
  <2> SUFFICES ASSUME Inv, Next, NEW c \in Chats, c \in accepted', c \notin accepted
               PROVE  <<c, KillOf[at]>> \notin heard
    BY DEF vars
  <2>1. \E d \in Chats : Accept(d)
    BY DEF Next, Publish, Start, Crash, Restore, Poll, PageFails, Bootstrap, PageArrives,
           AheadArrives, Match, Advance, AddWatch, RemoveWatch, StartMonitor, StopMonitor,
           ListenerReturns, ListenerFails, Resolve, Refused, SendFails, Sleep, Hold,
           HeldOnFailure, poller
  <2>2. c \in todo /\ step = "sending"
    BY <2>1 DEF Accept
  <2> QED BY <2>2 DEF Inv, InWork
<1> QED BY <1>1, Invariance, PTL DEF Spec, NeverSentAgain
-----------------------------------------------------------------------------
(* ToolCalls.                                                              *)
\* The calls of a set that hold a slot.
Granted(S, calls) == {c \in S : calls[c] = "granted"}

\* The counter of each controller is the number of calls that hold a slot.
ReadSlots ==
  Tool!Read!TypeOK /\ readActive = Cardinality(Granted(Tools, readCall))
EsiSlots ==
  Tool!Esi!TypeOK /\ esiActive = Cardinality(Granted(Tool!Ops, esiCall))

\* What the promise of a call's permit may be at each of its stages.
ToolPermit(t) ==
  \/ tool[t] = "idle" /\ readCall[t] = "idle"
  \/ tool[t] \in {"running", "done"} /\ t \in Batches /\ readCall[t] = "idle"
  \/ tool[t] = "admitting" /\ t \notin Batches /\ readCall[t] \in {"waiting", "granted", "refused"}
  \/ tool[t] = "running" /\ t \notin Batches /\ readCall[t] = "granted"
  \/ tool[t] = "done" /\ t \notin Batches /\ readCall[t] \in {"released", "refused"}
LeafPermit(l) ==
  \/ leaf[l] = "idle" /\ esiCall[l] = "idle"
  \/ leaf[l] = "admitting" /\ esiCall[l] \in {"waiting", "granted", "refused"}
  \/ leaf[l] = "calling" /\ esiCall[l] = "granted"
  \/ leaf[l] = "done" /\ esiCall[l] \in {"released", "refused"}

\* Operations are started by calls that hold their permit, and only by those.
LeavesAdmitted ==
  \A l \in Tool!Ops : leaf[l] # "idle" => readCall[Tool!ToolOf(l)] \in {"granted", "released"}

ToolInv ==
  /\ ReadSlots /\ EsiSlots
  /\ tool \in [Tools -> {"idle", "admitting", "running", "done"}]
  /\ leaf \in [Tool!Ops -> {"idle", "admitting", "calling", "done"}]
  /\ threw \subseteq Tools /\ identity \in BOOLEAN
  /\ \A t \in Tools : ToolPermit(t)
  /\ \A l \in Tool!Ops : LeafPermit(l)
  /\ LeavesAdmitted

\* An operation has one call, which is no batch.
LEMMA OneTool ==
  ASSUME NEW t \in Tools, NEW l \in Leaves[t]
  PROVE  l \in Tool!Ops /\ Tool!ToolOf(l) = t /\ t \notin Batches
<1>1. l \in Tool!Ops
  BY DEF Tool!Ops
<1>2. \A s \in Tools : l \in Leaves[s] => s = t
  BY ToolsAssumption
<1>3. Tool!ToolOf(l) = t
  BY <1>2 DEF Tool!ToolOf
<1> QED BY <1>1, <1>3, ToolsAssumption

LEMMA ItsTool ==
  ASSUME NEW l \in Tool!Ops
  PROVE  /\ Tool!ToolOf(l) \in Tools /\ Tool!ToolOf(l) \notin Batches
         /\ l \in Leaves[Tool!ToolOf(l)]
<1>1. PICK t \in Tools : l \in Leaves[t]
  BY DEF Tool!Ops
<1> QED BY <1>1, OneTool

\* Taking a slot, handing it over and giving it up, for any set of calls.
LEMMA GrantedFinite ==
  ASSUME NEW S, IsFiniteSet(S), NEW f
  PROVE  /\ IsFiniteSet(Granted(S, f)) /\ Cardinality(Granted(S, f)) \in Nat
         /\ (\E c \in S : f[c] = "granted") => Cardinality(Granted(S, f)) > 0
<1>1. IsFiniteSet(Granted(S, f)) /\ Cardinality(Granted(S, f)) \in Nat
  BY FS_Subset, FS_CardinalityType DEF Granted
<1>2. (\E c \in S : f[c] = "granted") => Cardinality(Granted(S, f)) # 0
  BY <1>1, FS_EmptySet DEF Granted
<1> QED BY <1>1, <1>2

LEMMA SlotTaken ==
  ASSUME NEW S, IsFiniteSet(S), NEW f, DOMAIN f = S, NEW c \in S, f[c] # "granted",
         NEW g, g = [f EXCEPT ![c] = "granted"]
  PROVE  Cardinality(Granted(S, g)) = Cardinality(Granted(S, f)) + 1
<1>1. Granted(S, g) = Granted(S, f) \cup {c} /\ c \notin Granted(S, f)
  BY DEF Granted
<1> QED BY <1>1, GrantedFinite, FS_AddElement

LEMMA SlotGivenUp ==
  ASSUME NEW S, IsFiniteSet(S), NEW f, DOMAIN f = S, NEW c \in S, f[c] = "granted",
         NEW g, g = [f EXCEPT ![c] = "released"]
  PROVE  /\ Cardinality(Granted(S, g)) = Cardinality(Granted(S, f)) - 1
         /\ Cardinality(Granted(S, f)) > 0
<1>1. Granted(S, g) = Granted(S, f) \ {c} /\ c \in Granted(S, f)
  BY DEF Granted
<1>2. Cardinality(Granted(S, f)) > 0
  BY GrantedFinite
<1> QED BY <1>1, <1>2, GrantedFinite, FS_RemoveElement

LEMMA SlotPassedOn ==
  ASSUME NEW A, IsFiniteSet(A), NEW c \in A, NEW d, d \notin A
  PROVE  Cardinality((A \ {c}) \cup {d}) = Cardinality(A)
<1>1. IsFiniteSet(A \ {c}) /\ Cardinality(A \ {c}) = Cardinality(A) - 1
  BY FS_RemoveElement
<1>2. Cardinality((A \ {c}) \cup {d}) = Cardinality(A \ {c}) + 1
  BY <1>1, FS_AddElement
<1>3. Cardinality(A) \in Nat
  BY FS_CardinalityType
<1> QED BY <1>1, <1>2, <1>3

\* Waiting calls may be served or refused while others move.
Moves(S, f, g) ==
  \A d \in S : g[d] = f[d] \/ (f[d] = "waiting" /\ g[d] \in {"granted", "refused"})

-----------------------------------------------------------------------------
\* What the controller of the tool permits does to its calls.
LEMMA ReadAcquired ==
  ASSUME ToolInv, NEW t \in Tools, Tool!Read!Acquire(t)
  PROVE  /\ ReadSlots' /\ UNCHANGED toolCut
         /\ \E s \in {"waiting", "granted", "refused"} : readCall' = [readCall EXCEPT ![t] = s]
<1> USE DEF Tool!Read!TypeOK, Tool!Read!States, Tool!Read!Becomes
<1>1. /\ readCall[t] = "idle" /\ toolCut' = toolCut /\ readActive \in Nat
      /\ DOMAIN readCall = Tools /\ ReadSlots
  BY DEF Tool!Read!Acquire, ToolInv, ReadSlots
<1>2. CASE Tool!Read!Becomes(t, "refused") /\ UNCHANGED <<readActive, readTicket, readDrawn>>
  <2>1. Granted(Tools, readCall') = Granted(Tools, readCall)
    BY <1>1, <1>2 DEF Granted
  <2> QED BY <1>1, <1>2, <2>1 DEF ReadSlots
<1>3. CASE /\ Tool!Read!Becomes(t, "granted") /\ readActive' = readActive + 1
           /\ readActive < MaxReads /\ UNCHANGED <<readTicket, readDrawn>>
  <2>1. Cardinality(Granted(Tools, readCall')) = Cardinality(Granted(Tools, readCall)) + 1
    BY <1>1, <1>3, SlotTaken, ToolsAssumption
  <2> QED BY <1>1, <1>3, <2>1, ToolsAssumption DEF ReadSlots
<1>4. CASE /\ Tool!Read!Becomes(t, "waiting") /\ readDrawn' = readDrawn + 1
           /\ readTicket' = [readTicket EXCEPT ![t] = readDrawn + 1] /\ UNCHANGED readActive
  <2>1. Granted(Tools, readCall') = Granted(Tools, readCall)
    BY <1>1, <1>4 DEF Granted
  <2> QED BY <1>1, <1>4, <2>1 DEF ReadSlots
<1> QED BY <1>2, <1>3, <1>4 DEF Tool!Read!Acquire, Tool!Read!SlotFree

LEMMA ReadReleased ==
  ASSUME ToolInv, NEW t \in Tools, Tool!Read!Release(t), readCall[t] = "granted"
  PROVE  /\ ReadSlots' /\ UNCHANGED toolCut /\ readCall'[t] = "released"
         /\ Moves(Tools \ {t}, readCall, readCall')
<1> USE DEF Tool!Read!TypeOK, Tool!Read!States, Tool!Read!Becomes
<1>1. /\ UNCHANGED <<toolCut, readTicket, readDrawn>> /\ readActive \in Nat
      /\ DOMAIN readCall = Tools /\ ReadSlots
  BY DEF Tool!Read!Release, ToolInv, ReadSlots
<1>2. ASSUME NEW d \in Tools, readCall[d] = "waiting", readActive' = readActive,
             readCall' = [readCall EXCEPT ![t] = "released", ![d] = "granted"]
      PROVE  /\ ReadSlots' /\ readCall'[t] = "released"
             /\ Moves(Tools \ {t}, readCall, readCall')
  <2>1. Cardinality(Granted(Tools, readCall')) = Cardinality(Granted(Tools, readCall))
    <3>1. /\ Granted(Tools, readCall') = (Granted(Tools, readCall) \ {t}) \cup {d}
          /\ t \in Granted(Tools, readCall) /\ d \notin Granted(Tools, readCall)
      BY <1>1, <1>2 DEF Granted
    <3>2. IsFiniteSet(Granted(Tools, readCall))
      BY GrantedFinite, ToolsAssumption
    <3> QED BY <3>1, <3>2, SlotPassedOn
  <2> QED BY <1>1, <1>2, <2>1 DEF ReadSlots, Moves
<1>3. CASE /\ Tool!Read!Becomes(t, "released")
           /\ readActive' = IF readActive > 0 THEN readActive - 1 ELSE 0
  <2>1. /\ Cardinality(Granted(Tools, readCall')) = Cardinality(Granted(Tools, readCall)) - 1
        /\ Cardinality(Granted(Tools, readCall)) > 0
    BY <1>1, <1>3, SlotGivenUp, ToolsAssumption
  <2> QED BY <1>1, <1>3, <2>1, ToolsAssumption DEF ReadSlots, Moves
<1> QED
  BY <1>1, <1>2, <1>3 DEF Tool!Read!Release, Tool!Read!Releasable, Tool!Read!Served,
     Tool!Read!Waiting, Tool!Read!SlotKept

LEMMA ReadCutShort ==
  ASSUME ToolInv, \/ \E t \in Tools : Tool!Read!TimedOut(t)
                  \/ \E t \in Tool!Roots : Tool!Read!Abort(t)
                  \/ UNCHANGED Tool!read /\ toolCut' \subseteq Tool!Roots
  PROVE  ReadSlots' /\ Moves(Tools, readCall, readCall')
<1> USE DEF Tool!Read!TypeOK, Tool!Read!States, Tool!Read!Becomes, Tool!Read!Abort,
            Tool!Read!TimedOut, Tool!read
<1>1. Moves(Tools, readCall, readCall')
  BY DEF Moves, ToolInv, ReadSlots
<1>2. Granted(Tools, readCall') = Granted(Tools, readCall)
  BY DEF Granted, ToolInv, ReadSlots
<1> QED BY <1>1, <1>2 DEF ToolInv, ReadSlots
\* What the controller of the ESI permits does to its calls.
LEMMA EsiAcquired ==
  ASSUME ToolInv, NEW l \in Tool!Ops, Tool!Esi!Acquire(l)
  PROVE  /\ EsiSlots' /\ UNCHANGED toolCut
         /\ \E s \in {"waiting", "granted", "refused"} : esiCall' = [esiCall EXCEPT ![l] = s]
<1> USE DEF Tool!Esi!TypeOK, Tool!Esi!States, Tool!Esi!Becomes
<1>1. /\ esiCall[l] = "idle" /\ toolCut' = toolCut /\ esiActive \in Nat
      /\ DOMAIN esiCall = Tool!Ops /\ EsiSlots
  BY DEF Tool!Esi!Acquire, ToolInv, EsiSlots
<1>2. CASE Tool!Esi!Becomes(l, "refused") /\ UNCHANGED <<esiActive, esiTicket, esiDrawn>>
  <2>1. Granted(Tool!Ops, esiCall') = Granted(Tool!Ops, esiCall)
    BY <1>1, <1>2 DEF Granted
  <2> QED BY <1>1, <1>2, <2>1 DEF EsiSlots
<1>3. CASE /\ Tool!Esi!Becomes(l, "granted") /\ esiActive' = esiActive + 1
           /\ esiActive < MaxEsi /\ UNCHANGED <<esiTicket, esiDrawn>>
  <2>1. Cardinality(Granted(Tool!Ops, esiCall')) = Cardinality(Granted(Tool!Ops, esiCall)) + 1
    BY <1>1, <1>3, SlotTaken, ToolsAssumption
  <2> QED BY <1>1, <1>3, <2>1, ToolsAssumption DEF EsiSlots
<1>4. CASE /\ Tool!Esi!Becomes(l, "waiting") /\ esiDrawn' = esiDrawn + 1
           /\ esiTicket' = [esiTicket EXCEPT ![l] = esiDrawn + 1] /\ UNCHANGED esiActive
  <2>1. Granted(Tool!Ops, esiCall') = Granted(Tool!Ops, esiCall)
    BY <1>1, <1>4 DEF Granted
  <2> QED BY <1>1, <1>4, <2>1 DEF EsiSlots
<1> QED BY <1>2, <1>3, <1>4 DEF Tool!Esi!Acquire, Tool!Esi!SlotFree

LEMMA EsiReleased ==
  ASSUME ToolInv, NEW l \in Tool!Ops, Tool!Esi!Release(l), esiCall[l] = "granted"
  PROVE  /\ EsiSlots' /\ UNCHANGED toolCut /\ esiCall'[l] = "released"
         /\ Moves(Tool!Ops \ {l}, esiCall, esiCall')
<1> USE DEF Tool!Esi!TypeOK, Tool!Esi!States, Tool!Esi!Becomes
<1>1. /\ UNCHANGED <<toolCut, esiTicket, esiDrawn>> /\ esiActive \in Nat
      /\ DOMAIN esiCall = Tool!Ops /\ EsiSlots
  BY DEF Tool!Esi!Release, ToolInv, EsiSlots
<1>2. ASSUME NEW d \in Tool!Ops, esiCall[d] = "waiting", esiActive' = esiActive,
             esiCall' = [esiCall EXCEPT ![l] = "released", ![d] = "granted"]
      PROVE  /\ EsiSlots' /\ esiCall'[l] = "released"
             /\ Moves(Tool!Ops \ {l}, esiCall, esiCall')
  <2>1. Cardinality(Granted(Tool!Ops, esiCall')) = Cardinality(Granted(Tool!Ops, esiCall))
    <3>1. /\ Granted(Tool!Ops, esiCall') = (Granted(Tool!Ops, esiCall) \ {l}) \cup {d}
          /\ l \in Granted(Tool!Ops, esiCall) /\ d \notin Granted(Tool!Ops, esiCall)
      BY <1>1, <1>2 DEF Granted
    <3>2. IsFiniteSet(Granted(Tool!Ops, esiCall))
      BY GrantedFinite, ToolsAssumption
    <3> QED BY <3>1, <3>2, SlotPassedOn
  <2> QED BY <1>1, <1>2, <2>1 DEF EsiSlots, Moves
<1>3. CASE /\ Tool!Esi!Becomes(l, "released")
           /\ esiActive' = IF esiActive > 0 THEN esiActive - 1 ELSE 0
  <2>1. /\ Cardinality(Granted(Tool!Ops, esiCall')) = Cardinality(Granted(Tool!Ops, esiCall)) - 1
        /\ Cardinality(Granted(Tool!Ops, esiCall)) > 0
    BY <1>1, <1>3, SlotGivenUp, ToolsAssumption
  <2> QED BY <1>1, <1>3, <2>1, ToolsAssumption DEF EsiSlots, Moves
<1> QED
  BY <1>1, <1>2, <1>3 DEF Tool!Esi!Release, Tool!Esi!Releasable, Tool!Esi!Served,
     Tool!Esi!Waiting, Tool!Esi!SlotKept

LEMMA EsiCutShort ==
  ASSUME ToolInv, \/ \E l \in Tool!Ops : Tool!Esi!TimedOut(l)
                  \/ \E t \in Tool!Roots : Tool!Esi!Abort(t)
                  \/ UNCHANGED Tool!esi /\ toolCut' \subseteq Tool!Roots
  PROVE  EsiSlots' /\ Moves(Tool!Ops, esiCall, esiCall')
<1> USE DEF Tool!Esi!TypeOK, Tool!Esi!States, Tool!Esi!Becomes, Tool!Esi!Abort,
            Tool!Esi!TimedOut, Tool!esi
<1>1. Moves(Tool!Ops, esiCall, esiCall')
  BY DEF Moves, ToolInv, EsiSlots
<1>2. Granted(Tool!Ops, esiCall') = Granted(Tool!Ops, esiCall)
  BY DEF Granted, ToolInv, EsiSlots
<1> QED BY <1>1, <1>2 DEF ToolInv, EsiSlots
-----------------------------------------------------------------------------
Admitted(t) == readCall[t] \in {"granted", "released"}

\* A call that does not move itself keeps a fitting permit while others move.
LEMMA PermitFits ==
  ASSUME ToolInv, NEW t \in Tools, tool'[t] = tool[t],
         \/ readCall'[t] = readCall[t]
         \/ readCall[t] = "waiting" /\ readCall'[t] \in {"granted", "refused"}
  PROVE  ToolPermit(t)' /\ (Admitted(t) => Admitted(t)')
  BY DEF ToolInv, ToolPermit, Admitted

LEMMA LeafFits ==
  ASSUME ToolInv, NEW l \in Tool!Ops, leaf'[l] = leaf[l],
         \/ esiCall'[l] = esiCall[l]
         \/ esiCall[l] = "waiting" /\ esiCall'[l] \in {"granted", "refused"}
  PROVE  LeafPermit(l)'
  BY DEF ToolInv, LeafPermit

\* A step of tool calls, and one of operations.
LEMMA ToolFrame ==
  ASSUME ToolInv, ReadSlots', UNCHANGED <<leaf, esiActive, esiCall, esiTicket, esiDrawn>>,
         tool' \in [Tools -> {"idle", "admitting", "running", "done"}],
         threw' \subseteq Tools, identity' \in BOOLEAN,
         \A t \in Tools : ToolPermit(t)' /\ (Admitted(t) => Admitted(t)')
  PROVE  ToolInv'
<1>1. EsiSlots'
  <2>1. toolCut' \subseteq Tool!Roots
    BY DEF ReadSlots, Tool!Read!TypeOK
  <2>2. Granted(Tool!Ops, esiCall)' = Granted(Tool!Ops, esiCall)
    BY DEF Granted
  <2> QED BY <2>1, <2>2 DEF ToolInv, EsiSlots, Tool!Esi!TypeOK
<1>2. \A l \in Tool!Ops : LeafPermit(l)'
  BY DEF ToolInv, LeafPermit
<1>3. LeavesAdmitted'
  BY ItsTool DEF ToolInv, LeavesAdmitted, Admitted
<1> QED BY <1>1, <1>2, <1>3 DEF ToolInv

LEMMA LeafFrame ==
  ASSUME ToolInv, EsiSlots', UNCHANGED <<tool, identity, readActive, readCall, readTicket, readDrawn>>,
         leaf' \in [Tool!Ops -> {"idle", "admitting", "calling", "done"}],
         threw' \subseteq Tools,
         \A l \in Tool!Ops : LeafPermit(l)' /\ (leaf'[l] # "idle" => Admitted(Tool!ToolOf(l)))
  PROVE  ToolInv'
<1>1. ReadSlots'
  <2>1. toolCut' \subseteq Tool!Roots
    BY DEF EsiSlots, Tool!Esi!TypeOK
  <2>2. Granted(Tools, readCall)' = Granted(Tools, readCall)
    BY DEF Granted
  <2> QED BY <2>1, <2>2 DEF ToolInv, ReadSlots, Tool!Read!TypeOK
<1>2. \A t \in Tools : ToolPermit(t)'
  BY DEF ToolInv, ToolPermit
<1>3. LeavesAdmitted'
  BY DEF LeavesAdmitted, Admitted
<1> QED BY <1>1, <1>2, <1>3 DEF ToolInv

-----------------------------------------------------------------------------
\* A call starts, and asks for its permit unless it is a batch.
LEMMA ToolStarts == ASSUME ToolInv, NEW t \in Tools, Tool!Start(t) PROVE ToolInv'
<1>1. /\ tool[t] = "idle" /\ UNCHANGED <<leaf, threw, identity, esiActive, esiCall, esiTicket, esiDrawn>>
      /\ tool \in [Tools -> {"idle", "admitting", "running", "done"}]
      /\ threw \subseteq Tools /\ identity \in BOOLEAN /\ readCall[t] = "idle"
  BY DEF Tool!Start, Tool!esi, ToolInv, ToolPermit
<1>2. CASE t \notin Batches
  <2>1. Tool!Read!Acquire(t) /\ tool' = [tool EXCEPT ![t] = "admitting"]
    BY <1>2 DEF Tool!Start, Tool!NeedsPermit
  <2>2. ReadSlots' /\ \E s \in {"waiting", "granted", "refused"} : readCall' = [readCall EXCEPT ![t] = s]
    BY <2>1, ReadAcquired
  <2>3. DOMAIN readCall = Tools
    BY DEF ToolInv, ReadSlots, Tool!Read!TypeOK
  <2>4. ToolPermit(t)' /\ ~Admitted(t)
    BY <1>1, <1>2, <2>1, <2>2, <2>3 DEF ToolPermit, Admitted
  <2>5. \A s \in Tools \ {t} : tool'[s] = tool[s] /\ readCall'[s] = readCall[s]
    BY <2>1, <2>2
  <2>6. \A s \in Tools : ToolPermit(s)' /\ (Admitted(s) => Admitted(s)')
    BY <2>4, <2>5, PermitFits
  <2>7. tool' \in [Tools -> {"idle", "admitting", "running", "done"}]
    BY <1>1, <2>1
  <2> QED BY <1>1, <2>2, <2>6, <2>7, ToolFrame
<1>3. CASE t \in Batches
  <2>1. /\ UNCHANGED <<toolCut, readActive, readCall, readTicket, readDrawn>>
        /\ \E next \in {"running", "done"} : tool' = [tool EXCEPT ![t] = next]
    BY <1>3 DEF Tool!Start, Tool!NeedsPermit, Tool!read
  <2>2. ReadSlots'
    BY <2>1, ReadCutShort DEF Tool!read, ToolInv, ReadSlots, Tool!Read!TypeOK
  <2>3. ToolPermit(t)' /\ ~Admitted(t)
    BY <1>1, <1>3, <2>1 DEF ToolPermit, Admitted
  <2>4. \A s \in Tools : ToolPermit(s)' /\ (Admitted(s) => Admitted(s)')
    BY <1>1, <2>1, <2>3, PermitFits
  <2>5. tool' \in [Tools -> {"idle", "admitting", "running", "done"}]
    BY <1>1, <2>1
  <2> QED BY <1>1, <2>2, <2>4, <2>5, ToolFrame
<1> QED BY <1>2, <1>3

\* A call goes on with its permit, or is turned away without one.
LEMMA ToolGoesOn ==
  ASSUME ToolInv, NEW t \in Tools, Tool!Proceed(t) \/ Tool!TurnedAway(t) \/ Tool!WorkerStops(t)
  PROVE  ToolInv'
<1>1. /\ UNCHANGED <<leaf, identity, toolCut, readActive, readCall, readTicket, readDrawn,
                     esiActive, esiCall, esiTicket, esiDrawn>>
      /\ \A s \in Tools \ {t} : tool'[s] = tool[s]
      /\ tool' \in [Tools -> {"idle", "admitting", "running", "done"}]
      /\ threw' \subseteq Tools /\ identity' \in BOOLEAN
  BY DEF Tool!Proceed, Tool!TurnedAway, Tool!WorkerStops, Tool!read, Tool!esi, ToolInv,
         Tool!AfterRefusal
<1>2. ReadSlots'
  BY <1>1, ReadCutShort DEF Tool!read, ToolInv, ReadSlots, Tool!Read!TypeOK
<1>3. ToolPermit(t)'
  BY <1>1 DEF Tool!Proceed, Tool!TurnedAway, Tool!WorkerStops, ToolInv, ToolPermit,
              Tool!AfterRefusal
<1>4. \A s \in Tools : ToolPermit(s)' /\ (Admitted(s) => Admitted(s)')
  BY <1>1, <1>3, PermitFits DEF Admitted
<1> QED BY <1>1, <1>2, <1>4, ToolFrame

\* A call ends and gives its permit back.
LEMMA ToolEnds ==
  ASSUME ToolInv, NEW t \in Tools, Tool!Blocked(t) \/ Tool!Return(t) PROVE ToolInv'
<1>1. /\ UNCHANGED <<leaf, threw, identity, esiActive, esiCall, esiTicket, esiDrawn>>
      /\ tool' = [tool EXCEPT ![t] = "done"] /\ Tool!PermitBack(t)
      /\ tool \in [Tools -> {"idle", "admitting", "running", "done"}]
      /\ threw \subseteq Tools /\ identity \in BOOLEAN
  BY DEF Tool!Blocked, Tool!Return, Tool!esi, ToolInv
<1>2. tool' \in [Tools -> {"idle", "admitting", "running", "done"}]
  BY <1>1
<1>3. CASE t \notin Batches
  <2>1. Tool!Read!Release(t) /\ readCall[t] = "granted"
    BY <1>1, <1>3 DEF Tool!PermitBack, Tool!NeedsPermit, Tool!Blocked, Tool!Return, ToolInv,
                      ToolPermit
  <2>2. ReadSlots' /\ readCall'[t] = "released" /\ Moves(Tools \ {t}, readCall, readCall')
    BY <2>1, ReadReleased
  <2>3. ToolPermit(t)' /\ Admitted(t)'
    BY <1>1, <1>3, <2>2 DEF ToolPermit, Admitted
  <2>4. \A s \in Tools : ToolPermit(s)' /\ (Admitted(s) => Admitted(s)')
    BY <1>1, <2>2, <2>3, PermitFits DEF Moves
  <2> QED BY <1>1, <1>2, <2>2, <2>4, ToolFrame
<1>4. CASE t \in Batches
  <2>1. /\ UNCHANGED <<toolCut, readActive, readCall, readTicket, readDrawn>>
        /\ tool[t] = "running" /\ readCall[t] = "idle"
    BY <1>1, <1>4 DEF Tool!PermitBack, Tool!NeedsPermit, Tool!read, Tool!Blocked, Tool!Return,
                      ToolInv, ToolPermit
  <2>2. ReadSlots'
    BY <2>1, ReadCutShort DEF Tool!read, ToolInv, ReadSlots, Tool!Read!TypeOK
  <2>3. ToolPermit(t)' /\ ~Admitted(t)
    BY <1>1, <1>4, <2>1 DEF ToolPermit, Admitted
  <2>4. \A s \in Tools : ToolPermit(s)' /\ (Admitted(s) => Admitted(s)')
    BY <1>1, <2>1, <2>3, PermitFits
  <2> QED BY <1>1, <1>2, <2>2, <2>4, ToolFrame
<1> QED BY <1>3, <1>4

-----------------------------------------------------------------------------
\* A worker takes an operation of a call that holds its permit.
LEMMA LeafStarts == ASSUME ToolInv, NEW l \in Tool!Ops, Tool!CallLeaf(l) PROVE ToolInv'
<1> DEFINE t == Tool!ToolOf(l)
<1>1. /\ tool[t] = "running" /\ leaf' = [leaf EXCEPT ![l] = "admitting"] /\ Tool!Esi!Acquire(l)
      /\ UNCHANGED <<tool, threw, identity, readActive, readCall, readTicket, readDrawn>>
  BY DEF Tool!CallLeaf, Tool!read
<1>2. t \in Tools /\ t \notin Batches
  BY ItsTool
<1> HIDE DEF t
<1>3. Admitted(t)
  BY <1>1, <1>2 DEF ToolInv, ToolPermit, Admitted
<1>4. EsiSlots' /\ \E s \in {"waiting", "granted", "refused"} : esiCall' = [esiCall EXCEPT ![l] = s]
  BY <1>1, EsiAcquired
<1>5. /\ DOMAIN esiCall = Tool!Ops /\ threw \subseteq Tools
      /\ leaf \in [Tool!Ops -> {"idle", "admitting", "calling", "done"}]
  BY DEF ToolInv, EsiSlots, Tool!Esi!TypeOK
<1>6. LeafPermit(l)'
  BY <1>1, <1>4, <1>5 DEF LeafPermit
<1>7. \A k \in Tool!Ops : LeafPermit(k)' /\ (leaf'[k] # "idle" => Admitted(Tool!ToolOf(k)))
  <2> SUFFICES ASSUME NEW k \in Tool!Ops
               PROVE  LeafPermit(k)' /\ (leaf'[k] # "idle" => Admitted(Tool!ToolOf(k)))
    OBVIOUS
  <2>1. CASE k = l
    BY <1>3, <1>6, <2>1 DEF t
  <2>2. CASE k # l
    <3>1. leaf'[k] = leaf[k] /\ esiCall'[k] = esiCall[k]
      BY <1>1, <1>4, <2>2
    <3> QED BY <3>1, LeafFits DEF ToolInv, LeavesAdmitted, Admitted
  <2> QED BY <2>1, <2>2
<1>8. leaf' \in [Tool!Ops -> {"idle", "admitting", "calling", "done"}] /\ threw' \subseteq Tools
  BY <1>1, <1>5
<1> QED BY <1>1, <1>4, <1>7, <1>8, LeafFrame

\* An operation goes on with its permit, or is turned away without one.
LEMMA LeafGoesOn ==
  ASSUME ToolInv, NEW l \in Tool!Ops, Tool!LeafProceed(l) \/ Tool!LeafTurnedAway(l)
  PROVE  ToolInv'
<1>1. /\ UNCHANGED <<tool, identity, toolCut, readActive, readCall, readTicket, readDrawn,
                     esiActive, esiCall, esiTicket, esiDrawn>>
      /\ \E s \in {"calling", "done"} : leaf' = [leaf EXCEPT ![l] = s]
      /\ leaf \in [Tool!Ops -> {"idle", "admitting", "calling", "done"}]
      /\ leaf[l] # "idle"
  BY DEF Tool!LeafProceed, Tool!LeafTurnedAway, Tool!read, Tool!esi, ToolInv
<1>2. threw' \subseteq Tools
  BY ItsTool DEF Tool!LeafProceed, Tool!LeafTurnedAway, ToolInv
<1>3. EsiSlots'
  BY <1>1, EsiCutShort DEF Tool!esi, ToolInv, EsiSlots, Tool!Esi!TypeOK
<1>4. LeafPermit(l)'
  BY <1>1 DEF Tool!LeafProceed, Tool!LeafTurnedAway, ToolInv, LeafPermit
<1>5. \A k \in Tool!Ops : LeafPermit(k)' /\ (leaf'[k] # "idle" => Admitted(Tool!ToolOf(k)))
  BY <1>1, <1>4, LeafFits DEF ToolInv, LeavesAdmitted, Admitted
<1>6. leaf' \in [Tool!Ops -> {"idle", "admitting", "calling", "done"}]
  BY <1>1
<1> QED BY <1>1, <1>2, <1>3, <1>5, <1>6, LeafFrame

\* An operation ends and gives its permit back.
LEMMA LeafEnds ==
  ASSUME ToolInv, NEW l \in Tool!Ops, Tool!LeafBlocked(l) \/ Tool!LeafReturns(l)
  PROVE  ToolInv'
<1>1. /\ UNCHANGED <<tool, identity, readActive, readCall, readTicket, readDrawn>>
      /\ leaf' = [leaf EXCEPT ![l] = "done"] /\ Tool!Esi!Release(l)
      /\ leaf \in [Tool!Ops -> {"idle", "admitting", "calling", "done"}]
      /\ leaf[l] # "idle" /\ esiCall[l] = "granted"
  BY DEF Tool!LeafBlocked, Tool!LeafReturns, Tool!read, ToolInv, LeafPermit
<1>2. threw' \subseteq Tools
  BY ItsTool DEF Tool!LeafBlocked, Tool!LeafReturns, ToolInv
<1>3. EsiSlots' /\ esiCall'[l] = "released" /\ Moves(Tool!Ops \ {l}, esiCall, esiCall')
  BY <1>1, EsiReleased
<1>4. LeafPermit(l)'
  BY <1>1, <1>3 DEF LeafPermit
<1>5. \A k \in Tool!Ops : LeafPermit(k)' /\ (leaf'[k] # "idle" => Admitted(Tool!ToolOf(k)))
  BY <1>1, <1>3, <1>4, LeafFits DEF ToolInv, LeavesAdmitted, Admitted, Moves
<1>6. leaf' \in [Tool!Ops -> {"idle", "admitting", "calling", "done"}]
  BY <1>1
<1> QED BY <1>1, <1>2, <1>3, <1>5, <1>6, LeafFrame

\* An abort or a timer refuses calls that wait, and nothing else.
LEMMA ToolCutShort ==
  ASSUME ToolInv,
         \/ \E t \in Tools : Tool!Abort(t) \/ Tool!ReadTimesOut(t)
         \/ \E l \in Tool!Ops : Tool!EsiTimesOut(l)
         \/ Tool!IdentityChanges \/ UNCHANGED Tool!vars
  PROVE  ToolInv'
<1>1. /\ UNCHANGED <<tool, leaf, threw>> /\ identity' \in BOOLEAN
      /\ toolCut' \subseteq Tool!Roots
  BY DEF Tool!Abort, Tool!ReadTimesOut, Tool!EsiTimesOut, Tool!IdentityChanges, Tool!vars,
         Tool!read, Tool!esi, Tool!Read!Abort, Tool!Read!TimedOut, Tool!Esi!TimedOut,
         ToolInv, ReadSlots, Tool!Read!TypeOK
<1>2. ReadSlots' /\ Moves(Tools, readCall, readCall')
  BY <1>1, ReadCutShort DEF Tool!Abort, Tool!ReadTimesOut, Tool!EsiTimesOut,
                            Tool!IdentityChanges, Tool!vars
<1>3. EsiSlots' /\ Moves(Tool!Ops, esiCall, esiCall')
  BY <1>1, EsiCutShort DEF Tool!Abort, Tool!ReadTimesOut, Tool!EsiTimesOut,
                           Tool!IdentityChanges, Tool!vars
<1>4. \A t \in Tools : ToolPermit(t)' /\ (Admitted(t) => Admitted(t)')
  BY <1>1, <1>2, PermitFits DEF Moves
<1>5. \A l \in Tool!Ops : LeafPermit(l)'
  BY <1>1, <1>3, LeafFits DEF Moves
<1>6. LeavesAdmitted'
  BY <1>1, <1>4, ItsTool DEF ToolInv, LeavesAdmitted, Admitted
<1> QED BY <1>1, <1>2, <1>3, <1>4, <1>5, <1>6 DEF ToolInv

LEMMA ToolInit == Tool!Init => ToolInv
<1> SUFFICES ASSUME Tool!Init PROVE ToolInv
  OBVIOUS
<1> USE DEF Tool!Init, Tool!Read!Init, Tool!Esi!Init
<1>1. Granted(Tools, readCall) = {} /\ Granted(Tool!Ops, esiCall) = {}
  BY DEF Granted
<1>2. ReadSlots /\ EsiSlots
  BY <1>1, FS_EmptySet, ToolsAssumption
     DEF ReadSlots, EsiSlots, Tool!Read!TypeOK, Tool!Read!States, Tool!Esi!TypeOK, Tool!Esi!States
<1>3. /\ \A t \in Tools : ToolPermit(t)
      /\ \A l \in Tool!Ops : LeafPermit(l)
      /\ LeavesAdmitted
  BY DEF ToolPermit, LeafPermit, LeavesAdmitted
<1> QED BY <1>2, <1>3 DEF ToolInv

\* Every step keeps the invariant.
LEMMA ToolStep == ASSUME ToolInv, Tool!Next \/ UNCHANGED Tool!vars PROVE ToolInv'
  BY ToolStarts, ToolGoesOn, ToolEnds, LeafStarts, LeafGoesOn, LeafEnds, ToolCutShort
     DEF Tool!Next

\* Cardinality is the library's, seen through the instances.
LEMMA ToolCardinality == \A S : Tool!Cardinality(S) = Cardinality(S)
  BY DEF Tool!Cardinality, Cardinality

\* Who runs holds a permit, so no more run than there are permits.
LEMMA PermitsBound == ToolInv => ToolsSafe
<1> SUFFICES ASSUME ToolInv PROVE ToolsSafe
  OBVIOUS
<1>1. /\ \A t \in Tools : readCall[t] = "granted" => tool[t] \in {"admitting", "running"}
      /\ \A l \in Tool!Ops : esiCall[l] = "granted" => leaf[l] \in {"admitting", "calling"}
  BY DEF ToolInv, ToolPermit, LeafPermit
<1>2. Tool!Cardinality({t \in Tools \ Batches : tool[t] = "running"}) <= MaxReads
  <2>1. {t \in Tools \ Batches : tool[t] = "running"} \subseteq Granted(Tools, readCall)
    BY DEF ToolInv, ToolPermit, Granted
  <2>2. /\ Cardinality({t \in Tools \ Batches : tool[t] = "running"})
             <= Cardinality(Granted(Tools, readCall))
        /\ Cardinality({t \in Tools \ Batches : tool[t] = "running"}) \in Nat
    BY <2>1, GrantedFinite, FS_Subset, FS_CardinalityType, ToolsAssumption
  <2>3. Cardinality(Granted(Tools, readCall)) \in 0..MaxReads
    BY DEF ToolInv, ReadSlots, Tool!Read!TypeOK
  <2> QED BY <2>2, <2>3, ToolCardinality, ToolsAssumption
<1>3. Tool!Cardinality({l \in Tool!Ops : leaf[l] = "calling"}) <= MaxEsi
  <2>1. {l \in Tool!Ops : leaf[l] = "calling"} \subseteq Granted(Tool!Ops, esiCall)
    BY DEF ToolInv, LeafPermit, Granted
  <2>2. /\ Cardinality({l \in Tool!Ops : leaf[l] = "calling"})
             <= Cardinality(Granted(Tool!Ops, esiCall))
        /\ Cardinality({l \in Tool!Ops : leaf[l] = "calling"}) \in Nat
    BY <2>1, GrantedFinite, FS_Subset, FS_CardinalityType, ToolsAssumption
  <2>3. Cardinality(Granted(Tool!Ops, esiCall)) \in 0..MaxEsi
    BY DEF ToolInv, EsiSlots, Tool!Esi!TypeOK
  <2> QED BY <2>2, <2>3, ToolCardinality, ToolsAssumption
<1>4. Tool!RefusedDidNothing
  BY OneTool DEF Tool!RefusedDidNothing, ToolInv, LeavesAdmitted
<1> QED BY <1>1, <1>2, <1>3, <1>4 DEF ToolsSafe, Tool!NoPermitLeft

\* executor.ts and response-admission.ts: every way out of a tool call or ESI
\* operation gives its permit back, the two limits hold together, and a call
\* that was refused as saturated sent nothing.
THEOREM PermitsReturn == MCSpec => []ToolsSafe
<1>1. MCInit => ToolInv
  BY ToolInit DEF MCInit
<1>2. ToolInv /\ [MCNext]_allVars => ToolInv'
  BY ToolStep DEF MCNext, allVars, toolVars, Tool!vars, Tool!read, Tool!esi
<1> QED BY <1>1, <1>2, PermitsBound, PTL DEF MCSpec

-----------------------------------------------------------------------------
(* EveTokens.                                                              *)
Refreshing(c) == pc[c] \in {"asking", "verifying"}

\* The row is the newest sign-in's, and its user's.
RowIsNewest ==
  account # Nothing =>
    /\ account.grant.line = Len(signIns) /\ Len(signIns) > 0
    /\ signIns[account.grant.line] = account.user /\ account.grant.id <= minted

\* One refresh at a time, and whoever joined it waits for one in flight.
OneFlight ==
  \A c \in Callers : /\ Refreshing(c) => inFlight = c
                     /\ pc[c] = "joined" => inFlight # Nothing
                     /\ inFlight = c => Refreshing(c)

\* The refresh of a caller started from a row of its own user, and its reply
\* goes on with that row's line; a row with the same grant is of that line.
FlightOf(c) ==
  LET grant == from[c].grant IN
  /\ from[c] # Nothing /\ grant.line \in 1..Len(signIns) /\ grant.id <= minted
  /\ signIns[grant.line] = UserOf[c] /\ from[c].user = UserOf[c]
  /\ account # Nothing /\ account.grant.id = grant.id => account.grant.line = grant.line
  /\ account # Nothing /\ ~account.fresh => account.user = UserOf[c]
  /\ pc[c] = "verifying" =>
       reply[c] # Nothing /\ reply[c].line = grant.line /\ reply[c].id <= minted
FlightIsOwn == \A c \in Callers : Refreshing(c) => FlightOf(c)

\* Whoever joined a refresh is of the same user.
JoinedIsOwn ==
  \A c, j \in Callers : pc[j] = "joined" /\ inFlight = c => UserOf[j] = UserOf[c]

Answered ==
  \A c \in Callers : answer[c] # Nothing =>
    answer[c].line \in 1..Len(signIns) /\ signIns[answer[c].line] = UserOf[c]

TokenInv == Token!TypeOK /\ RowIsNewest /\ OneFlight /\ FlightIsOwn /\ JoinedIsOwn /\ Answered

LEMMA TokenInit == Token!Init => TokenInv
<1> SUFFICES ASSUME Token!Init PROVE TokenInv OBVIOUS
<1>1. Token!TypeOK
  BY TokensAssumption DEF Token!Init, Token!TypeOK, Token!Attempts
<1>2. RowIsNewest /\ OneFlight /\ FlightIsOwn /\ JoinedIsOwn /\ Answered
  BY TokensAssumption DEF Token!Init, RowIsNewest, OneFlight, FlightIsOwn, FlightOf, JoinedIsOwn, Answered, Refreshing
<1> QED BY <1>1, <1>2 DEF TokenInv

\* A new sign-in is the newest, and no refresh started from its grant.
LEMMA SignInStep == ASSUME TokenInv, NEW u \in Users, Token!SignIn(u) PROVE TokenInv'
<1> DEFINE line == Len(signIns) + 1
           grant == [id |-> minted + 1, line |-> line, owner |-> u]
           row == [user |-> u, grant |-> grant, fresh |-> TRUE]
<1>1. /\ line <= MaxSignIns /\ minted < MaxGrants /\ signIns' = Append(signIns, u)
      /\ minted' = minted + 1 /\ account' = row /\ live' = live \cup {minted + 1}
      /\ UNCHANGED <<owner, inFlight, backoff, Token!callers>>
  BY DEF Token!SignIn
<1>2. /\ signIns \in Seq(Users) /\ Len(signIns) \in Nat /\ minted \in Nat
      /\ MaxSignIns \in Nat /\ MaxGrants \in Nat
  BY TokensAssumption DEF TokenInv, Token!TypeOK
<1>3. /\ grant \in Token!Grants /\ row \in Token!Accounts
      /\ row.user = u /\ row.grant = grant /\ row.fresh /\ grant.id = minted + 1 /\ grant.line = line
  BY <1>1, <1>2 DEF Token!Grants, Token!Accounts, Token!Lines
<1>4. /\ signIns' \in Seq(Users) /\ Len(signIns') = line /\ signIns'[line] = u
      /\ \A l \in 1..Len(signIns) : l \in 1..Len(signIns') /\ signIns'[l] = signIns[l]
  BY <1>1, <1>2
<1> HIDE DEF row, grant
<1>5. Token!TypeOK'
  BY <1>1, <1>2, <1>3, <1>4 DEF TokenInv, Token!TypeOK, Token!callers
<1>6. RowIsNewest'
  BY <1>1, <1>2, <1>3, <1>4 DEF RowIsNewest
<1>7. OneFlight' /\ JoinedIsOwn'
  BY <1>1 DEF TokenInv, OneFlight, JoinedIsOwn, Refreshing, Token!callers
<1>8. FlightIsOwn'
  <2> SUFFICES ASSUME NEW c \in Callers, Refreshing(c)'
               PROVE  FlightOf(c)'
    BY DEF FlightIsOwn
  <2>1. Refreshing(c) /\ from'[c] = from[c] /\ reply'[c] = reply[c] /\ pc'[c] = pc[c]
    BY <1>1 DEF Refreshing, Token!callers
  <2>2. FlightOf(c) /\ from[c].grant.id # minted + 1
    <3>1. FlightOf(c) /\ from[c] \in Token!Accounts \cup {Nothing}
      BY <2>1 DEF TokenInv, FlightIsOwn, Token!TypeOK
    <3>2. from[c].grant.id \in Int
      BY <3>1 DEF FlightOf, Token!Accounts, Token!Grants
    <3> QED BY <1>2, <3>1, <3>2 DEF FlightOf
  <2>3. reply[c] # Nothing => reply[c].id \in Int
    BY DEF TokenInv, Token!TypeOK, Token!Grants
  <2>4. /\ from'[c] # Nothing /\ from'[c].grant.line \in 1..Len(signIns')
        /\ from'[c].grant.id <= minted' /\ signIns'[from'[c].grant.line] = UserOf[c]
        /\ from'[c].user = UserOf[c]
    <3>1. from[c].grant.id \in Int
      BY <2>1, <2>2 DEF TokenInv, Token!TypeOK, FlightOf, Token!Accounts, Token!Grants
    <3> QED BY <1>1, <1>2, <1>4, <2>1, <2>2, <3>1 DEF FlightOf
  <2>5. /\ account'.grant.id # from'[c].grant.id
        /\ account'.fresh
    BY <1>1, <1>3, <2>1, <2>2
  <2>6. pc'[c] = "verifying" => /\ reply'[c] # Nothing
                               /\ reply'[c].line = from'[c].grant.line /\ reply'[c].id <= minted'
    BY <1>1, <1>2, <2>1, <2>2, <2>3 DEF FlightOf
  <2> QED BY <2>4, <2>5, <2>6 DEF FlightOf
<1>9. Answered'
  BY <1>1, <1>4 DEF TokenInv, Answered, Token!callers
<1> QED BY <1>5, <1>6, <1>7, <1>8, <1>9 DEF TokenInv

\* What happens at EVE, to the backoff, or to a row that goes or expires.
LEMMA OutsideStep ==
  ASSUME TokenInv,
         \/ \E u \in Users : Token!Sell(u)
         \/ Token!Unlink \/ Token!Expire \/ Token!PauseEnds
  PROVE  TokenInv'
<1>1. Token!TypeOK' /\ RowIsNewest'
  <2>1. CASE \E u \in Users : Token!Sell(u)
    BY <2>1 DEF Token!Sell, TokenInv, Token!TypeOK, RowIsNewest, Token!db, Token!callers
  <2>2. CASE Token!Unlink
    BY <2>2 DEF Token!Unlink, TokenInv, Token!TypeOK, RowIsNewest, Token!eve, Token!callers
  <2>3. CASE Token!Expire
    BY <2>3 DEF Token!Expire, TokenInv, Token!TypeOK, RowIsNewest, Token!eve, Token!callers, Token!Accounts
  <2>4. CASE Token!PauseEnds
    BY <2>4 DEF Token!PauseEnds, TokenInv, Token!TypeOK, RowIsNewest, Token!db, Token!eve, Token!callers, Token!Pauses
  <2> QED BY <2>1, <2>2, <2>3, <2>4
<1>2. UNCHANGED <<signIns, minted, inFlight, pc, from, reply, answer>>
  BY DEF Token!Sell, Token!Unlink, Token!Expire, Token!PauseEnds, Token!db, Token!eve, Token!callers
<1>3. (OneFlight /\ JoinedIsOwn /\ Answered)'
  BY <1>2 DEF TokenInv, OneFlight, JoinedIsOwn, Answered, Refreshing
<1>4. FlightIsOwn'
  <2>1. CASE account' = Nothing
    BY <1>2, <2>1 DEF TokenInv, FlightIsOwn, FlightOf, Refreshing
  <2>2. CASE account' = account
    BY <1>2, <2>2 DEF TokenInv, FlightIsOwn, FlightOf, Refreshing
  <2>3. CASE Token!Expire
    BY <1>2, <2>3, TokensAssumption DEF TokenInv, FlightIsOwn, FlightOf, OneFlight, Refreshing, Token!Expire
  <2> QED BY <2>1, <2>2, <2>3 DEF Token!Sell, Token!Unlink, Token!PauseEnds, Token!db
<1> QED BY <1>1, <1>3, <1>4 DEF TokenInv

\* A call that is answered from the row gets its own user's token.
LEMMA ServeStep == ASSUME TokenInv, NEW c \in Callers, Token!ServeStored(c) PROVE TokenInv'
<1>1. PICK a \in Token!Grants \cup {Nothing} :
        /\ answer' = [answer EXCEPT ![c] = a]
        /\ a # Nothing => account # Nothing /\ a = account.grant /\ account.user = UserOf[c]
        /\ UNCHANGED <<pc, from, attempt, reply, Token!db, Token!eve, inFlight, backoff>>
  BY DEF Token!ServeStored, Token!Return, Token!Linked, TokenInv, Token!TypeOK, Token!Accounts
<1>2. (Token!TypeOK /\ RowIsNewest /\ OneFlight /\ FlightIsOwn /\ JoinedIsOwn)'
  BY <1>1 DEF TokenInv, Token!TypeOK, RowIsNewest, OneFlight, FlightIsOwn, FlightOf, JoinedIsOwn, Refreshing, Token!db, Token!eve
<1>3. Answered'
  BY <1>1 DEF TokenInv, Token!TypeOK, RowIsNewest, Answered, Token!db
<1> QED BY <1>2, <1>3 DEF TokenInv

\* Who joins a refresh finds an expired row: the one it started from.
LEMMA JoinStep == ASSUME TokenInv, NEW c \in Callers, Token!Join(c) PROVE TokenInv'
<1>1. /\ pc[c] = "idle" /\ account # Nothing /\ account.user = UserOf[c] /\ ~account.fresh
      /\ inFlight # Nothing /\ pc' = [pc EXCEPT ![c] = "joined"]
      /\ backoff' \in {backoff, Nothing}
      /\ UNCHANGED <<Token!db, Token!eve, inFlight, from, attempt, reply, answer>>
  BY DEF Token!Join, Token!Linked, Token!Forgotten
<1>2. Token!TypeOK' /\ RowIsNewest' /\ Answered'
  BY <1>1 DEF TokenInv, Token!TypeOK, RowIsNewest, Answered, Token!db, Token!eve
<1>3. \A d \in Callers : Refreshing(d)' <=> Refreshing(d)
  BY <1>1 DEF Refreshing, TokenInv, Token!TypeOK
<1>4. OneFlight' /\ FlightIsOwn'
  BY <1>1, <1>3 DEF TokenInv, Token!TypeOK, OneFlight, FlightIsOwn, FlightOf, Refreshing, Token!db, Token!eve
<1>5. JoinedIsOwn'
  BY <1>1 DEF TokenInv, Token!TypeOK, OneFlight, FlightIsOwn, FlightOf, JoinedIsOwn
<1> QED BY <1>2, <1>4, <1>5 DEF TokenInv

\* A refresh starts from the row, when none is in flight.
LEMMA StartStep == ASSUME TokenInv, NEW c \in Callers, Token!StartRefresh(c) PROVE TokenInv'
<1>1. /\ account # Nothing /\ account \in Token!Accounts /\ account.user = UserOf[c]
      /\ inFlight = Nothing /\ inFlight' = c /\ c # Nothing
      /\ pc' = [pc EXCEPT ![c] = "asking"] /\ from' = [from EXCEPT ![c] = account]
      /\ attempt' = [attempt EXCEPT ![c] = 1] /\ backoff' \in {backoff, Nothing}
      /\ UNCHANGED <<Token!db, Token!eve, reply, answer>>
  BY TokensAssumption DEF Token!StartRefresh, Token!Linked, Token!Forgotten, TokenInv, Token!TypeOK
<1>2. Token!TypeOK' /\ RowIsNewest' /\ Answered'
  BY <1>1 DEF TokenInv, Token!TypeOK, RowIsNewest, Answered, Token!Attempts, Token!db, Token!eve
<1>3. /\ \A d \in Callers : ~Refreshing(d) /\ pc[d] # "joined"
      /\ \A d \in Callers : (Refreshing(d)' <=> d = c) /\ pc'[d] # "joined"
  BY <1>1, TokensAssumption DEF TokenInv, Token!TypeOK, OneFlight, Refreshing
<1>4. OneFlight' /\ JoinedIsOwn'
  BY <1>1, <1>3 DEF OneFlight, JoinedIsOwn, Refreshing
<1>5. FlightIsOwn'
  BY <1>1, <1>3 DEF TokenInv, Token!TypeOK, RowIsNewest, FlightIsOwn, FlightOf, Refreshing, Token!Accounts, Token!Grants, Token!Lines, Token!db, Token!eve
<1> QED BY <1>2, <1>4, <1>5 DEF TokenInv

\* A refresh that resolves leaves nothing in flight and nobody waiting.
LEMMA Resolved ==
  ASSUME TokenInv, NEW c \in Callers, Refreshing(c),
         NEW a \in Token!Grants \cup {Nothing}, Token!Resolve(c, a)
  PROVE  /\ inFlight' = Nothing /\ pc' = [j \in Callers |-> "idle"]
         /\ from' \in [Callers -> Token!Accounts \cup {Nothing}]
         /\ attempt' \in [Callers -> 1..Token!Attempts]
         /\ reply' \in [Callers -> Token!Grants \cup {Nothing}]
         /\ answer' \in [Callers -> Token!Grants \cup {Nothing}]
         /\ \A j \in Callers : answer'[j] = answer[j] \/ (answer'[j] = a /\ UserOf[j] = UserOf[c])
<1>1. inFlight = c
  BY DEF TokenInv, OneFlight
<1>2. \A j \in Callers : pc[j] \in {"idle", "joined"} \/ j = c
  BY <1>1 DEF TokenInv, OneFlight, Token!TypeOK, Refreshing
<1>3. \A j \in Callers : pc[j] = "joined" => UserOf[j] = UserOf[c]
  BY <1>1 DEF TokenInv, JoinedIsOwn
<1>4. pc' = [j \in Callers |-> "idle"]
  <2>1. \A j \in Callers : pc'[j] = "idle"
    BY <1>2 DEF Token!Resolve
  <2> QED BY <2>1 DEF Token!Resolve
<1>5. /\ answer' \in [Callers -> Token!Grants \cup {Nothing}]
      /\ \A j \in Callers : answer'[j] = answer[j] \/ (answer'[j] = a /\ UserOf[j] = UserOf[c])
  BY <1>3 DEF Token!Resolve, TokenInv, Token!TypeOK
<1> QED BY <1>4, <1>5 DEF Token!Resolve, TokenInv, Token!TypeOK, Token!Attempts

\* A refresh that resolves with its user's token, or with nothing, keeps the
\* invariant when the row and EVE SSO are as before.
LEMMA ResolveStep ==
  ASSUME TokenInv, NEW c \in Callers, Refreshing(c),
         NEW a \in Token!Grants \cup {Nothing}, Token!Resolve(c, a),
         a # Nothing => a.line \in 1..Len(signIns) /\ signIns[a.line] = UserOf[c],
         backoff' \in Token!Pauses \cup {Nothing}, UNCHANGED <<signIns, owner>>,
         account' \in Token!Accounts \cup {Nothing}, RowIsNewest',
         live' \subseteq 1..MaxGrants, minted' \in 0..MaxGrants
  PROVE  TokenInv'
<1>1. /\ inFlight' = Nothing /\ pc' = [j \in Callers |-> "idle"]
      /\ from' \in [Callers -> Token!Accounts \cup {Nothing}]
      /\ attempt' \in [Callers -> 1..Token!Attempts]
      /\ reply' \in [Callers -> Token!Grants \cup {Nothing}]
      /\ answer' \in [Callers -> Token!Grants \cup {Nothing}]
      /\ \A j \in Callers : answer'[j] = answer[j] \/ (answer'[j] = a /\ UserOf[j] = UserOf[c])
  BY Resolved
<1>2. Token!TypeOK'
  BY <1>1 DEF TokenInv, Token!TypeOK
<1>3. OneFlight' /\ FlightIsOwn' /\ JoinedIsOwn'
  BY <1>1, TokensAssumption DEF OneFlight, FlightIsOwn, JoinedIsOwn, Refreshing
<1>4. Answered'
  BY <1>1 DEF TokenInv, Answered
<1> QED BY <1>2, <1>3, <1>4 DEF TokenInv

\* What EVE SSO answers goes on with the line of the grant it was asked with.
LEMMA RefreshedFacts ==
  ASSUME TokenInv, NEW c \in Callers, NEW g \in Token!Grants, Token!Refreshed(c, g)
  PROVE  /\ live' \subseteq 1..MaxGrants /\ minted' \in minted..MaxGrants
         /\ g.line = from[c].grant.line /\ g.id <= minted' /\ UNCHANGED owner
<1>1. FlightOf(c) /\ from[c] \in Token!Accounts /\ from[c].grant \in Token!Grants
  BY DEF Token!Refreshed, TokenInv, FlightIsOwn, FlightOf, Refreshing, Token!TypeOK, Token!Accounts
<1>2. minted \in 0..MaxGrants /\ MaxGrants \in Nat /\ live \subseteq 1..MaxGrants
  BY TokensAssumption DEF TokenInv, Token!TypeOK
<1> QED BY <1>1, <1>2 DEF Token!Refreshed, Token!Grants, FlightOf

\* A reply to be verified.
LEMMA SucceedStep == ASSUME TokenInv, NEW c \in Callers, Token!Succeed(c) PROVE TokenInv'
<1>1. PICK g \in Token!Grants :
        /\ Token!Refreshed(c, g) /\ backoff' = Nothing
        /\ pc' = [pc EXCEPT ![c] = "verifying"] /\ reply' = [reply EXCEPT ![c] = g]
        /\ UNCHANGED <<account, signIns, inFlight, from, attempt, answer>>
  BY DEF Token!Succeed, Token!db
<1>2. /\ live' \subseteq 1..MaxGrants /\ minted' \in minted..MaxGrants
      /\ g.line = from[c].grant.line /\ g.id <= minted' /\ UNCHANGED owner
  BY <1>1, RefreshedFacts
<1>3. pc[c] = "asking" /\ minted \in Nat /\ MaxGrants \in Nat /\ g # Nothing
  BY <1>1, TokensAssumption DEF Token!Refreshed, TokenInv, Token!TypeOK
<1>4. Token!TypeOK'
  BY <1>1, <1>2, <1>3 DEF TokenInv, Token!TypeOK
<1>5. RowIsNewest'
  BY <1>1, <1>2, <1>3 DEF TokenInv, Token!TypeOK, RowIsNewest, Token!Accounts, Token!Grants
<1>6. OneFlight' /\ JoinedIsOwn' /\ Answered'
  BY <1>1, <1>3 DEF TokenInv, Token!TypeOK, OneFlight, JoinedIsOwn, Answered, Refreshing
<1>7. FlightIsOwn'
  <2> SUFFICES ASSUME NEW d \in Callers, Refreshing(d)' PROVE FlightOf(d)'
    BY DEF FlightIsOwn
  <2>1. Refreshing(d) /\ inFlight = d /\ Refreshing(c) /\ inFlight = c
    BY <1>1, <1>3 DEF TokenInv, Token!TypeOK, OneFlight, Refreshing
  <2>2. d = c /\ FlightOf(c) /\ from[c].grant.id \in Int
    BY <2>1 DEF TokenInv, Token!TypeOK, FlightIsOwn, FlightOf, Token!Accounts, Token!Grants
  <2>3. reply'[c] = g
    BY <1>1 DEF TokenInv, Token!TypeOK
  <2> QED BY <1>1, <1>2, <1>3, <2>2, <2>3 DEF FlightOf
<1> QED BY <1>4, <1>5, <1>6, <1>7 DEF TokenInv

\* A lost answer may have moved EVE SSO on; the caller asks again or gives up.
LEMMA RetryStep == ASSUME TokenInv, NEW c \in Callers, Token!Retry(c) PROVE TokenInv'
<1>1. /\ pc[c] = "asking" /\ Refreshing(c) /\ UNCHANGED <<account, signIns, backoff>>
      /\ UNCHANGED Token!eve \/ \E g \in Token!Grants : Token!Refreshed(c, g)
  BY DEF Token!Retry, Refreshing, Token!db
<1>2. /\ live' \subseteq 1..MaxGrants /\ minted' \in minted..MaxGrants /\ UNCHANGED owner
      /\ minted \in Nat /\ MaxGrants \in Nat
  <2>1. /\ live \subseteq 1..MaxGrants /\ minted \in 0..MaxGrants /\ MaxGrants \in Nat
    BY TokensAssumption DEF TokenInv, Token!TypeOK
  <2>2. CASE UNCHANGED Token!eve
    BY <2>1, <2>2 DEF Token!eve
  <2>3. CASE \E g \in Token!Grants : Token!Refreshed(c, g)
    BY <2>1, <2>3, RefreshedFacts
  <2> QED BY <1>1, <2>2, <2>3
<1>3. RowIsNewest'
  BY <1>1, <1>2 DEF TokenInv, Token!TypeOK, RowIsNewest, Token!Accounts, Token!Grants
<1>4. CASE attempt[c] < Token!Attempts
  <2>1. attempt' = [attempt EXCEPT ![c] = @ + 1] /\ UNCHANGED <<pc, from, reply, answer, inFlight>>
    BY <1>4 DEF Token!Retry
  <2>2. Token!TypeOK'
    BY <1>1, <1>2, <1>4, <2>1 DEF TokenInv, Token!TypeOK, Token!Attempts
  <2>3. OneFlight' /\ JoinedIsOwn' /\ Answered'
    BY <1>1, <2>1 DEF TokenInv, OneFlight, JoinedIsOwn, Answered, Refreshing
  <2>4. FlightIsOwn'
    <3> SUFFICES ASSUME NEW d \in Callers, Refreshing(d)' PROVE FlightOf(d)'
      BY DEF FlightIsOwn
    <3>1. FlightOf(d) /\ from[d].grant.id \in Int
      BY <2>1 DEF TokenInv, Token!TypeOK, FlightIsOwn, FlightOf, Refreshing, Token!Accounts, Token!Grants
    <3>2. reply[d] # Nothing => reply[d].id \in Int
      BY DEF TokenInv, Token!TypeOK, Token!Grants
    <3> QED BY <1>1, <1>2, <2>1, <3>1, <3>2 DEF FlightOf
  <2> QED BY <1>3, <2>2, <2>3, <2>4 DEF TokenInv
<1>5. CASE ~(attempt[c] < Token!Attempts)
  <2>1. Token!Resolve(c, Nothing)
    BY <1>5 DEF Token!Retry
  <2>2. /\ backoff' \in Token!Pauses \cup {Nothing} /\ account' \in Token!Accounts \cup {Nothing}
        /\ live' \subseteq 1..MaxGrants /\ minted' \in 0..MaxGrants
    BY <1>1, <1>2 DEF TokenInv, Token!TypeOK
  <2> QED BY <1>1, <1>2, <1>3, <2>1, <2>2, ResolveStep
<1> QED BY <1>4, <1>5

\* EVE SSO refuses the refresh token, or the answer is nobody's it can store.
LEMMA RejectStep ==
  ASSUME TokenInv, NEW c \in Callers, Token!Reject(c) \/ Token!Unverified(c) PROVE TokenInv'
<1>1. /\ Refreshing(c) /\ Token!Resolve(c, Nothing)
      /\ UNCHANGED <<account, signIns, owner, live, minted>>
  BY DEF Token!Reject, Token!Unverified, Refreshing, Token!db, Token!eve
<1>2. backoff' \in Token!Pauses \cup {Nothing}
  <2>1. CASE Token!Reject(c)
    <3>1. FlightOf(c) /\ from[c] \in Token!Accounts
      BY <1>1 DEF TokenInv, Token!TypeOK, FlightIsOwn, FlightOf
    <3> QED BY <2>1, <3>1 DEF Token!Reject, Token!Pauses, Token!Accounts, Token!Grants
  <2>2. CASE Token!Unverified(c)
    BY <2>2 DEF Token!Unverified, TokenInv, Token!TypeOK
  <2> QED BY <2>1, <2>2
<1>3. RowIsNewest'
  BY <1>1 DEF TokenInv, RowIsNewest
<1>4. /\ account' \in Token!Accounts \cup {Nothing}
      /\ live' \subseteq 1..MaxGrants /\ minted' \in 0..MaxGrants
  BY <1>1 DEF TokenInv, Token!TypeOK
<1> QED BY <1>1, <1>2, <1>3, <1>4, ResolveStep

\* The reply is stored over the grant it was asked with and no other: one of
\* the row's own line, so of its user.  Else the row's token is served if the
\* row is still the user's.
LEMMA StoreStep == ASSUME TokenInv, NEW c \in Callers, Token!Store(c) PROVE TokenInv'
<1>1. /\ Refreshing(c) /\ pc[c] = "verifying" /\ UNCHANGED <<signIns, owner, live, minted, backoff>>
  BY DEF Token!Store, Refreshing, Token!eve
<1>2. /\ FlightOf(c) /\ reply[c] # Nothing /\ reply[c] \in Token!Grants
      /\ reply[c].line = from[c].grant.line /\ reply[c].id <= minted
  BY <1>1 DEF TokenInv, Token!TypeOK, FlightIsOwn, FlightOf
<1>3. /\ backoff' \in Token!Pauses \cup {Nothing} /\ live' \subseteq 1..MaxGrants
      /\ minted' \in 0..MaxGrants /\ Len(signIns) \in Nat
  BY <1>1 DEF TokenInv, Token!TypeOK
<1>4. CASE Token!Unchanged(c)
  <2>1. /\ account # Nothing /\ account \in Token!Accounts /\ account.grant.id = from[c].grant.id
        /\ account' = [account EXCEPT !.grant = reply[c], !.fresh = TRUE]
        /\ Token!Resolve(c, reply[c])
    BY <1>4 DEF Token!Unchanged, Token!Store, TokenInv, Token!TypeOK
  <2>2. account.grant.line = reply[c].line
    BY <1>2, <2>1 DEF FlightOf
  <2>3. /\ account' \in Token!Accounts /\ account'.user = account.user /\ account'.grant = reply[c]
    BY <1>2, <2>1 DEF Token!Accounts
  <2>4. RowIsNewest'
    BY <1>1, <1>2, <2>1, <2>2, <2>3 DEF TokenInv, RowIsNewest
  <2>5. reply[c].line \in 1..Len(signIns) /\ signIns[reply[c].line] = UserOf[c]
    BY <1>2 DEF FlightOf
  <2> QED BY <1>1, <1>2, <1>3, <2>1, <2>3, <2>4, <2>5, ResolveStep
<1>5. CASE ~Token!Unchanged(c)
  <2> DEFINE served == Token!StoredToken(c)
  <2>1. Token!Resolve(c, served) /\ account' = account
    BY <1>5 DEF Token!Store
  <2>2. /\ served \in Token!Grants \cup {Nothing}
        /\ served # Nothing =>
             served.line \in 1..Len(signIns) /\ signIns[served.line] = UserOf[c]
    BY <1>2, <1>3 DEF Token!StoredToken, TokenInv, Token!TypeOK, RowIsNewest, FlightOf, Token!Accounts
  <2>3. RowIsNewest' /\ account' \in Token!Accounts \cup {Nothing}
    BY <1>1, <2>1 DEF TokenInv, Token!TypeOK, RowIsNewest
  <2> HIDE DEF served
  <2> QED BY <1>1, <1>3, <2>1, <2>2, <2>3, ResolveStep
<1> QED BY <1>4, <1>5

\* After a restart nobody refreshes and nobody waits.
LEMMA RestartStep == ASSUME TokenInv, Token!Restart PROVE TokenInv'
<1>1. Token!TypeOK'
  BY DEF Token!Restart, TokenInv, Token!TypeOK, Token!Attempts, Token!db, Token!eve
<1>2. (RowIsNewest /\ OneFlight /\ FlightIsOwn /\ JoinedIsOwn /\ Answered)'
  BY TokensAssumption DEF Token!Restart, TokenInv, RowIsNewest, OneFlight, FlightIsOwn, JoinedIsOwn, Answered,
         Refreshing, Token!db, Token!eve
<1> QED BY <1>1, <1>2 DEF TokenInv

\* Every step keeps the invariant.
LEMMA TokenStep ==
  ASSUME TokenInv, Token!Next \/ UNCHANGED Token!vars PROVE TokenInv'
<1>1. ASSUME NEW u \in Users, Token!SignIn(u) PROVE TokenInv'
  BY <1>1, SignInStep
<1>2. ASSUME NEW u \in Users, Token!Sell(u) PROVE TokenInv'
  BY <1>2, OutsideStep
<1>3. CASE Token!Unlink \/ Token!Expire \/ Token!PauseEnds
  BY <1>3, OutsideStep
<1>4. CASE Token!Restart
  BY <1>4, RestartStep
<1>5. ASSUME NEW c \in Callers,
             \/ Token!ServeStored(c) \/ Token!Join(c) \/ Token!StartRefresh(c)
             \/ Token!Succeed(c) \/ Token!Retry(c) \/ Token!Reject(c)
             \/ Token!Unverified(c) \/ Token!Store(c)
      PROVE  TokenInv'
  BY <1>5, ServeStep, JoinStep, StartStep, SucceedStep, RetryStep, RejectStep, StoreStep
<1>6. CASE UNCHANGED Token!vars
  <2>1. Token!TypeOK'
    BY <1>6 DEF Token!vars, Token!db, Token!eve, Token!callers, TokenInv, Token!TypeOK
  <2>2. (RowIsNewest /\ OneFlight /\ FlightIsOwn /\ JoinedIsOwn /\ Answered)'
    BY <1>6 DEF Token!vars, Token!db, Token!eve, Token!callers, TokenInv, RowIsNewest, OneFlight, FlightIsOwn, FlightOf,
                JoinedIsOwn, Answered, Refreshing
  <2> QED BY <2>1, <2>2 DEF TokenInv
<1> QED BY <1>1, <1>2, <1>3, <1>4, <1>5, <1>6 DEF Token!Next

\* "An SSO re-login (or transfer) that stored new tokens while this request
\* was in flight must not be overwritten with the older grant" (eve/sso.ts);
\* and a shared refresh, a sale in the middle of it and a token stored
\* meanwhile never give a caller a token of another user's sign-in.
THEOREM TokensAreOwn == MCSpec => []TokensSafe
<1>1. MCInit => TokenInv
  BY TokenInit DEF MCInit
<1>2. TokenInv /\ [MCNext]_allVars => TokenInv'
  BY TokenStep DEF MCNext, allVars, tokenVars, Token!vars, Token!db, Token!eve, Token!callers
<1>3. TokenInv => TokensSafe
  BY DEF TokensSafe, TokenInv, RowIsNewest, Answered, Token!NewestSignInKept,
         Token!OwnTokenServed, Token!Lines, Token!TypeOK
<1> QED BY <1>1, <1>2, <1>3, PTL DEF MCSpec

-----------------------------------------------------------------------------
\* The rows, queues, permits, grants and flights of the three components have
\* their types in every state: no step, failure or restart takes a counter, a
\* ticket or a grant out of its range.
THEOREM FeedTypesOK == MCSpec => []TypesOK
<1> DEFINE All == Inv /\ ToolInv /\ TokenInv
<1>1. MCInit => All
  BY InitInv, ToolInit, TokenInit DEF MCInit
<1>2. All /\ [MCNext]_allVars => All'
  <2>1. Inv /\ [MCNext]_allVars => Inv'
    BY StepInv DEF MCNext, allVars
  <2>2. ToolInv /\ [MCNext]_allVars => ToolInv'
    BY ToolStep DEF MCNext, allVars, toolVars, Tool!vars, Tool!read, Tool!esi
  <2>3. TokenInv /\ [MCNext]_allVars => TokenInv'
    BY TokenStep DEF MCNext, allVars, tokenVars, Token!vars, Token!db, Token!eve, Token!callers
  <2> QED BY <2>1, <2>2, <2>3
<1>3. All => TypesOK
  BY DEF TypesOK, Inv, ToolInv, TokenInv, ReadSlots, EsiSlots, Tool!TypeOK
<1> QED BY <1>1, <1>2, <1>3, PTL DEF MCSpec
=============================================================================
