------------------------------ MODULE JobQueue ------------------------------
(***************************************************************************)
(* What the outbox promises to the code that records a side effect, with   *)
(* no workers, clock or database in sight: a job is enqueued once, taken   *)
(* out of the queue to be tried, and from there it is either carried out   *)
(* (for good), put back for another try, or given up (for good).  A job is *)
(* never carried out twice, and one that was carried out is never given up *)
(* or queued again.                                                        *)
(***************************************************************************)
CONSTANT Jobs

VARIABLE job

States == {"absent", "queued", "held", "delivered", "dead"}

TypeOK == job \in [Jobs -> States]

Init == job = [j \in Jobs |-> "absent"]

Move(j, from, to) == job[j] = from /\ job' = [job EXCEPT ![j] = to]

Enqueue(j) == Move(j, "absent", "queued")
Take(j)    == Move(j, "queued", "held")
Deliver(j) == Move(j, "held", "delivered")
Return(j)  == Move(j, "held", "queued")
Bury(j)    == Move(j, "held", "dead")

Next == \E j \in Jobs : Enqueue(j) \/ Take(j) \/ Deliver(j) \/ Return(j) \/ Bury(j)

Spec == Init /\ [][Next]_job
=============================================================================
