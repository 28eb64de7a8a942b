---------------------------- MODULE ProcessLock ----------------------------
(***************************************************************************)
(* The lock directory that lets one process at a time use the database:    *)
(* acquireRuntimeLock (runtime/process-lock.ts), called by the service,    *)
(* the CLI and the market snapshot loader.                                 *)
(*                                                                         *)
(* Processes interleave at their system calls: every rename, read of       *)
(* owner.json and probe of the owner is an action.  A process may crash    *)
(* between any two; its lock directory stays.  An element of Processes is  *)
(* one incarnation: the operating system may give its PID to a later one.  *)
(***************************************************************************)
EXTENDS Integers, FiniteSets

CONSTANTS Processes, Pids,
          PidOf,          \* the PID of a process
          StartedAt,      \* its start time in seconds
          NoOwner,        \* no lock directory, or no readable owner in it
          MaxContenders   \* bound: processes inside acquireRuntimeLock at once

ASSUME ProcessesAssumption == /\ IsFiniteSet(Processes)
                              /\ PidOf \in [Processes -> Pids]
                              /\ StartedAt \in [Processes -> Nat]
                              /\ NoOwner \notin Processes
                              /\ MaxContenders \in Nat

VARIABLES
  lock,  \* the process named by the lock directory, or NoOwner
  pc,    \* where each process is
  seen   \* the owner a contender read

vars == <<lock, pc, seen>>

Contending == {"renaming", "reading", "judging", "taking"}
Owning     == {"owning", "releasing"}
Living     == Contending \cup Owning \cup {"foreign"}

Alive(p)   == pc[p] \in Living
Contenders == {p \in Processes : pc[p] \in Contending}

TypeOK ==
  /\ lock \in Processes \cup {NoOwner}
  /\ pc \in [Processes -> Living \cup {"new", "refused", "left", "crashed"}]
  /\ seen \in [Processes -> Processes \cup {NoOwner}]

Init ==
  /\ lock = NoOwner
  /\ pc = [p \in Processes |-> "new"]
  /\ seen = [p \in Processes |-> NoOwner]

Goto(p, place) == pc' = [pc EXCEPT ![p] = place]

-----------------------------------------------------------------------------
PidFree(p) == \A q \in Processes : Alive(q) => PidOf[q] # PidOf[p]

\* The candidate directory with this process's owner.json is ready.
Start(p) ==
  /\ pc[p] = "new" /\ PidFree(p)
  /\ Cardinality(Contenders) < MaxContenders
  /\ Goto(p, "renaming")
  /\ UNCHANGED <<lock, seen>>

\* Some other program runs under this PID.
StartForeign(p) ==
  /\ pc[p] = "new" /\ PidFree(p)
  /\ Goto(p, "foreign")
  /\ UNCHANGED <<lock, seen>>

\* rename(candidate, lockPath) fails on a directory that is not empty.
Rename(p) ==
  /\ pc[p] = "renaming"
  /\ IF lock = NoOwner THEN lock' = p /\ Goto(p, "owning")
                       ELSE UNCHANGED lock /\ Goto(p, "reading")
  /\ UNCHANGED seen

\* readOwner: null when the directory is gone by now.
Read(p) ==
  /\ pc[p] = "reading"
  /\ seen' = [seen EXCEPT ![p] = lock]
  /\ Goto(p, "judging")
  /\ UNCHANGED lock

\* isProcessAlive and getProcessStartedAt.  A live PID that belongs to the
\* owner, or whose start time ps does not tell, refuses; a dead one, and one
\* that started at another time, leaves a stale lock.
PidAlive(q)      == \E r \in Processes : Alive(r) /\ PidOf[r] = PidOf[q]
PidAliveIsSame(q) == PidAlive(q)                                   \* a bug
SameProcess(q) ==
  \E r \in Processes : /\ Alive(r) /\ PidOf[r] = PidOf[q]
                       /\ StartedAt[r] - StartedAt[q] \in -2..2

Refuses(p) == seen[p] # NoOwner /\ SameProcess(seen[p])

Judge(p) ==
  /\ pc[p] = "judging"
  /\ \/ Refuses(p) /\ Goto(p, "refused")
     \/ ~Refuses(p) /\ Goto(p, "taking")
  /\ UNCHANGED <<lock, seen>>

\* ps fails for a live foreign PID.
Unverifiable(p) ==
  /\ pc[p] = "judging" /\ seen[p] # NoOwner
  /\ PidAlive(seen[p]) /\ PidOf[seen[p]] # PidOf[p]
  /\ Goto(p, "refused")
  /\ UNCHANGED <<lock, seen>>

\* rename(lockPath, stalePath): whatever is there is moved away and deleted.
TakesAndOwns(p) == Goto(p, "owning")                               \* a bug
TriesNoMore(p) == Goto(p, "taken")                                 \* a bug
TriesAgain(p) == Goto(p, "renaming")

Take(p) ==
  /\ pc[p] = "taking"
  /\ lock' = NoOwner
  /\ seen' = [seen EXCEPT ![p] = NoOwner]
  /\ TriesAgain(p)

\* release(), called once at shutdown or from the exit handler: the token is
\* read, then the directory is renamed.
ReadToken(p) ==
  /\ pc[p] = "owning"
  /\ Goto(p, IF lock = p THEN "releasing" ELSE "left")
  /\ UNCHANGED <<lock, seen>>

Release(p) ==
  /\ pc[p] = "releasing"
  /\ lock' = NoOwner
  /\ Goto(p, "left")
  /\ UNCHANGED seen

\* A process is killed without its exit handler.
Crash(p) ==
  /\ Alive(p)
  /\ Goto(p, "crashed")
  /\ UNCHANGED <<lock, seen>>

Next == \E p \in Processes :
          \/ Start(p) \/ StartForeign(p) \/ Rename(p) \/ Read(p) \/ Judge(p)
          \/ Unverifiable(p) \/ Take(p) \/ ReadToken(p) \/ Release(p) \/ Crash(p)

Spec == Init /\ [][Next]_vars

\* A process that runs goes on with its next system call.
Progress == \E p \in Processes : Rename(p) \/ Read(p) \/ Judge(p) \/ Take(p) \/ Release(p)

FairSpec == Spec /\ WF_vars(Progress)

-----------------------------------------------------------------------------
\* At most one process at a time uses the database: one that acquired the lock
\* and has not started to release it, whatever crashed before it and whoever
\* got a dead owner's PID.
OneOwner == \A p, q \in Processes :
              pc[p] = "owning" /\ pc[q] = "owning" => p = q

\* "Two reclaimers cannot delete a newly acquired lock": as long as a process
\* owns the lock, the directory names it.
OwnerKeepsLock == \A p \in Processes : pc[p] \in Owning => lock = p

\* A crashed owner never locks everybody out: a process that contends alone
\* gets the lock, unless it is killed, or another process comes, before that.
Alone(p) == \A q \in Processes \ {p} : ~Alive(q)
StaleLockReclaimed ==
  \A p \in Processes :
    pc[p] \in Contending /\ Alone(p) ~> pc[p] \in {"owning", "crashed"} \/ ~Alone(p)
=============================================================================
