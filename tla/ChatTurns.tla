----------------------------- MODULE ChatTurns -----------------------------
(***************************************************************************)
(* Agent turns of the Telegram and Discord bots (chat/shared.ts and the    *)
(* message and /clear handlers of telegram/handlers.ts, discord/bot.ts).   *)
(* A message starts a turn unless its actor already runs one, the service  *)
(* is full or the actor wrote too often; /clear asks the running turn to   *)
(* stop, waits for it, and deletes the conversation.                       *)
(*                                                                         *)
(* Telegram's updates are handled one after another, so that no message is *)
(* taken while a /clear waits; Discord's events are not.                   *)
(***************************************************************************)
EXTENDS Integers, FiniteSets

CONSTANTS Chats,
          DiscordChats, \* the chats of the Discord bot
          UserOf,       \* the user who writes in a chat
          MaxActive,    \* config.telegram.maxActiveRequestsGlobal
          MaxPerWindow, \* config.telegram.maxRequestsPerWindow
          MaxTurns      \* bound on the turns

Turns == 1..MaxTurns
None == 0
Stages == {"none", "greeting", "running", "ended"}

VARIABLES
  started,    \* turns so far; a turn's number stands for its request token
  chatOf,     \* of each turn: its chat
  stage,      \* of each turn: where it is
  inFlight,   \* inFlightRequests: of each chat, its turn or None
  abort,      \* turns whose entry has abortRequested
  thread,     \* of each chat: the number of its thread, None if it has none
  turnThread, \* of each turn: the thread it was started for
  threads,    \* threads created so far
  clearing,   \* of each chat: the turn its /clear waits for, or None
  window,     \* recentRequestStarts: of each user, starts in the window
  closed      \* Discord: ingressClosed

turns == <<started, chatOf, stage, turnThread>>
vars == <<turns, inFlight, abort, thread, threads, clearing, window, closed>>

Users == {UserOf[c] : c \in Chats}
Active == {c \in Chats : inFlight[c] # None}
Running(t) == stage[t] \in {"greeting", "running"}

TypeOK ==
  /\ started \in 0..MaxTurns
  /\ chatOf \in [Turns -> Chats] /\ stage \in [Turns -> Stages]
  /\ inFlight \in [Chats -> Turns \cup {None}]
  /\ abort \subseteq Turns
  /\ threads \in 0..MaxTurns
  /\ thread \in [Chats -> 0..MaxTurns] /\ turnThread \in [Turns -> 0..MaxTurns]
  /\ clearing \in [Chats -> Turns \cup {None}]
  /\ window \in [Users -> 0..MaxPerWindow] /\ closed \in BOOLEAN

Init ==
  /\ started = 0
  /\ chatOf \in {f \in [Turns -> Chats] : \A t, u \in Turns : f[t] = f[u]}
  /\ stage = [t \in Turns |-> "none"]
  /\ inFlight = [c \in Chats |-> None]
  /\ abort = {}
  /\ thread = [c \in Chats |-> None] /\ turnThread = [t \in Turns |-> None]
  /\ threads = 0
  /\ clearing = [c \in Chats |-> None]
  /\ window = [u \in Users |-> 0]
  /\ closed = FALSE

-----------------------------------------------------------------------------
(* A message.                                                              *)

\* Telegram's long polling waits for the handler of the update before.
Delivered(c) ==
  IF c \in DiscordChats THEN ~closed
  ELSE \A d \in Chats \ DiscordChats : clearing[d] = None

\* hasInFlightRequestForActor: in this chat, or of this user in any chat.
BusyChat(c) == inFlight[c] # None                                  \* a bug
Busy(c) == \/ inFlight[c] # None
           \/ \E d \in Active : UserOf[d] = UserOf[c]

\* evaluateChatRequestAllowance
Allowed(c) ==
  /\ ~Busy(c) /\ Cardinality(Active) < MaxActive
  /\ window[UserOf[c]] < MaxPerWindow

\* The handler up to its first await: the checks, the thread, the entry.
Message(c) ==
  LET t == started + 1
      own == IF thread[c] = None THEN threads + 1 ELSE thread[c]
  IN /\ t <= MaxTurns /\ Delivered(c) /\ Allowed(c)
     /\ started' = t
     /\ chatOf' = [chatOf EXCEPT ![t] = c]
     /\ stage' = [stage EXCEPT ![t] = "greeting"]
     /\ thread' = [thread EXCEPT ![c] = own]
     /\ turnThread' = [turnThread EXCEPT ![t] = own]
     /\ threads' = IF thread[c] = None THEN threads + 1 ELSE threads
     /\ inFlight' = [inFlight EXCEPT ![c] = t]
     /\ window' = [window EXCEPT ![UserOf[c]] = @ + 1]
     /\ UNCHANGED <<abort, clearing, closed>>

WindowSlides(u) ==
  /\ window[u] > 0 /\ window' = [window EXCEPT ![u] = @ - 1]
  /\ UNCHANGED <<turns, inFlight, abort, thread, threads, clearing, closed>>

-----------------------------------------------------------------------------
(* The turn.                                                               *)

Goes(t, from, to) ==
  /\ stage[t] = from
  /\ stage' = [stage EXCEPT ![t] = to]
  /\ UNCHANGED <<started, chatOf, turnThread>>

\* The placeholder is sent, or fails, and the user's message is stored.
Greeted(t) ==
  /\ Goes(t, "greeting", "running")
  /\ UNCHANGED <<inFlight, abort, thread, threads, clearing, window, closed>>

\* clearInFlightRequest, in the finally block.
EntryTaken(t) ==
  LET c == chatOf[t]
  IN [inFlight EXCEPT ![c] = IF @ = t THEN None ELSE @]

\* The answer is sent, in chunks; sending it, or the turn itself, may fail.
Ended(t) ==
  /\ Goes(t, "running", "ended")
  /\ inFlight' = EntryTaken(t)
  /\ UNCHANGED <<abort, thread, threads, clearing, window, closed>>

\* runInFlightAgentTurn: an abort checkpoint of the turn finds that its own
\* entry asks it to stop.
IsAborted(t) == inFlight[chatOf[t]] = t /\ t \in abort
Stopped(t) == IsAborted(t) /\ Ended(t)

-----------------------------------------------------------------------------
(* /clear: clearChatConversationAfterInFlight.                             *)

\* clearChatConversation deletes the chat's thread with its messages.
Cleared(c) == thread' = [thread EXCEPT ![c] = None]

ClearCommand(c) ==
  /\ clearing[c] = None /\ Delivered(c)
  /\ IF inFlight[c] = None
     THEN Cleared(c) /\ UNCHANGED <<abort, clearing>>
     ELSE /\ abort' = abort \cup {inFlight[c]}
          /\ clearing' = [clearing EXCEPT ![c] = inFlight[c]]
          /\ UNCHANGED thread
  /\ UNCHANGED <<turns, inFlight, threads, window, closed>>

\* A poll finds another token, or none, in the chat's entry.
WaitOver(c) == inFlight[c] # clearing[c]

ClearAfter(c) ==
  /\ clearing[c] # None /\ WaitOver(c)
  /\ Cleared(c)
  /\ clearing' = [clearing EXCEPT ![c] = None]
  /\ UNCHANGED <<turns, inFlight, abort, threads, window, closed>>

\* The timeout: nothing is cleared, the user is asked to repeat the command.
ClearGivesUp(c) ==
  /\ clearing[c] # None /\ ~WaitOver(c)
  /\ clearing' = [clearing EXCEPT ![c] = None]
  /\ UNCHANGED <<turns, inFlight, abort, thread, threads, window, closed>>

\* stopDiscordIngress, at shutdown.
CloseIngress ==
  /\ ~closed /\ closed' = TRUE
  /\ UNCHANGED <<turns, inFlight, abort, thread, threads, clearing, window>>

Next ==
  \/ \E c \in Chats : \/ Message(c) \/ ClearCommand(c) \/ ClearAfter(c) \/ ClearGivesUp(c)
  \/ \E t \in Turns : Greeted(t) \/ Ended(t) \/ Stopped(t)
  \/ \E u \in Users : WindowSlides(u)
  \/ CloseIngress

Spec == Init /\ [][Next]_vars

-----------------------------------------------------------------------------
\* A chat runs one turn at a time, and so does a user over all chats; an entry
\* of inFlightRequests is there exactly while its turn runs, so that a chat is
\* neither wedged by a turn that is gone nor open beside one that runs.
OneTurnPerActor ==
  /\ \A t, u \in Turns : Running(t) /\ Running(u) /\ t # u =>
       UserOf[chatOf[t]] # UserOf[chatOf[u]]
  /\ \A t \in Turns : Running(t) <=> inFlight[chatOf[t]] = t
  /\ Cardinality({t \in Turns : Running(t)}) <= MaxActive

\* "Deleting the thread under it would make the turn's later message writes
\* fail on the thread foreign key": a running turn has its thread.
ThreadUnderTurn ==
  \A t \in Turns : Running(t) => thread[chatOf[t]] = turnThread[t]

\* The same for Telegram, whose updates wait for each other.
TelegramThreadUnderTurn ==
  \A t \in Turns : Running(t) /\ chatOf[t] \notin DiscordChats =>
    thread[chatOf[t]] = turnThread[t]

BotTurnsSafe == OneTurnPerActor /\ TelegramThreadUnderTurn
=============================================================================
