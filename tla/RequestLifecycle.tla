-------------------------- MODULE RequestLifecycle --------------------------
(***************************************************************************)
(* What the durable web queue promises about ONE request, whatever the     *)
(* processes, sessions and turns around it do: a request that ran is never *)
(* run again, an outcome is final, and a request whose owner asked for     *)
(* cancellation can no longer complete.  Any number of requests may move   *)
(* in one step (a drain, a restart and a forced logout move several).      *)
(***************************************************************************)
CONSTANT Requests

VARIABLES status,   \* the status column of web_agent_requests
          asked     \* the requests with cancel_requested = 1

vars == <<status, asked>>

Outcomes == {"completed", "failed", "cancelled"}
Statuses == {"absent", "queued", "running", "gone"} \cup Outcomes

Init == /\ status = [r \in Requests |-> "absent"]
        /\ asked = {}

Becomes(r, from, to) == status[r] = from /\ status'[r] = to
AskedSame(r) == (r \in asked') <=> (r \in asked)

Submit(r)   == Becomes(r, "absent", "queued") /\ r \notin asked'
Withdraw(r) == Becomes(r, "queued", "cancelled") /\ r \in asked'
Begin(r)    == Becomes(r, "queued", "running") /\ r \notin asked'
Refuse(r)   == Becomes(r, "queued", "failed") /\ r \notin asked'
Ask(r)      == Becomes(r, "running", "running") /\ r \in asked'
Complete(r) == Becomes(r, "running", "completed") /\ r \notin asked /\ r \notin asked'
Fail(r)     == Becomes(r, "running", "failed") /\ AskedSame(r)
Abandon(r)  == Becomes(r, "running", "cancelled") /\ (r \in asked => r \in asked')
Drop(r)     == /\ status[r] # "absent" /\ status'[r] = "gone"
               /\ AskedSame(r)
Keep(r)     == status'[r] = status[r] /\ AskedSame(r)

Move(r) == \/ Submit(r) \/ Withdraw(r) \/ Begin(r) \/ Refuse(r) \/ Ask(r)
           \/ Complete(r) \/ Fail(r) \/ Abandon(r) \/ Drop(r) \/ Keep(r)

Next == /\ status' \in [Requests -> Statuses]
        /\ asked' \subseteq Requests
        /\ \A r \in Requests : Move(r)

Spec == Init /\ [][Next]_vars
=============================================================================
