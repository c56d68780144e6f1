----------------------------- MODULE ImageJobs -----------------------------
(***************************************************************************)
(* Image generation over sd-server: the route of image_generation_api.py,   *)
(* the bounds of image_generation_request.py, and the job that              *)
(* stable_diffusion_cpp_image_engine.py submits, polls and cancels.         *)
(* Several requests share one server, which works on one job at a time.     *)
(***************************************************************************)
EXTENDS Integers, Sequences, SequencesExt, FiniteSets, FiniteSetsExt

CONSTANTS
    Requests,
    Slots,      \* max_concurrent_requests of the runtime
    Sizes,      \* pixels of the images asked for; 0 leaves the size to the runtime
    Default, MaxPixels,
    MaxFaults   \* bound: calls to the server that fail

VARIABLES
    req,     \* req[r] = [pc, size, job, got, code]
    jobs,    \* jobs[i] = [owner, size, state]: the jobs sd-server knows
    queue,   \* those it has not finished, in order
    leases,  \* active_requests of the runtime
    unload,  \* the runtime has been taken out of service
    faults

vars == <<req, jobs, queue, leases, unload, faults>>

NoJob == 0
Done == {"done", "failed"}
Idle == [pc |-> "idle", size |-> 0, job |-> NoJob, got |-> NoJob, code |-> 0]

TypeOK ==
    /\ \A r \in Requests : req[r].job \in 0..Len(jobs) /\ req[r].got \in 0..Len(jobs)
    /\ \A i \in 1..Len(jobs) : jobs[i].state \in {"queued", "running", "completed", "failed",
                                                  "cancelled"}
    /\ leases \in 0..Cardinality(Requests)

Init ==
    /\ req = [r \in Requests |-> Idle] /\ jobs = <<>> /\ queue = <<>>
    /\ leases = 0 /\ unload = FALSE /\ faults = 0

Answer(r, code) == [req EXCEPT ![r].pc = IF code = 200 THEN "done" ELSE "failed", ![r].code = code]

-----------------------------------------------------------------------------
(* The request. *)

\* _parse_size compares only a size that was asked for.
Within(size) == size <= MaxPixels

\* The runtime is resolved and the request prepared.
Prepare(r) ==
    /\ req[r].pc = "idle"
    /\ \E size \in Sizes :
          req' = IF unload THEN Answer(r, 404)
                 ELSE IF ~Within(size) THEN Answer(r, 400)
                 ELSE [req EXCEPT ![r].pc = "prepared",
                                  ![r].size = IF size = 0 THEN Default ELSE size]
    /\ UNCHANGED <<jobs, queue, leases, unload, faults>>

\* lease_runtime, whose LookupError the route does not translate.
Lease(r) ==
    /\ req[r].pc = "prepared"
    /\ IF unload THEN req' = Answer(r, 500) /\ UNCHANGED leases
       ELSE leases' = leases + 1 /\ req' = [req EXCEPT ![r].pc = "admission"]
    /\ UNCHANGED <<jobs, queue, unload, faults>>

\* runtime.admission, the semaphore of the runtime.
Enter(r) ==
    /\ req[r].pc = "admission"
    /\ Cardinality({q \in Requests : req[q].pc \in {"submit", "poll", "cancel"}}) < Slots
    /\ req' = [req EXCEPT ![r].pc = "submit"]
    /\ UNCHANGED <<jobs, queue, leases, unload, faults>>

\* The call to the server fails: the exception leaves generate_image and the lease.
CallFails(r) ==
    /\ req[r].pc \in {"submit", "poll"} /\ faults < MaxFaults
    /\ faults' = faults + 1
    /\ req' = Answer(r, 500) /\ leases' = leases - 1
    /\ \/ UNCHANGED <<jobs, queue>>
       \/ \* the submission arrived and its answer did not
          /\ req[r].pc = "submit"
          /\ jobs' = Append(jobs, [owner |-> r, size |-> req[r].size, state |-> "queued"])
          /\ queue' = Append(queue, Len(jobs'))
    /\ UNCHANGED unload

Submit(r) ==
    /\ req[r].pc = "submit"
    /\ jobs' = Append(jobs, [owner |-> r, size |-> req[r].size, state |-> "queued"])
    /\ queue' = Append(queue, Len(jobs'))
    /\ req' = [req EXCEPT ![r].pc = "poll", ![r].job = Len(jobs')]
    /\ UNCHANGED <<leases, unload, faults>>

\* A poll that finds the job finished.
Poll(r) ==
    /\ req[r].pc = "poll"
    /\ LET i == req[r].job IN
       /\ jobs[i].state \in {"completed", "failed", "cancelled"}
       /\ req' = IF jobs[i].state = "completed" THEN [Answer(r, 200) EXCEPT ![r].got = i]
                 ELSE Answer(r, 500)
    /\ leases' = leases - 1
    /\ UNCHANGED <<jobs, queue, unload, faults>>

\* The deadline of _wait_for_job, after a poll that found the job unfinished.
TimeOut(r) ==
    /\ req[r].pc = "poll"
    /\ req' = [req EXCEPT ![r].pc = "cancel"]
    /\ UNCHANGED <<jobs, queue, leases, unload, faults>>

Withdraw(i) ==
    IF jobs[i].state \in {"queued", "running"}
    THEN /\ jobs' = [jobs EXCEPT ![i].state = "cancelled"]
         /\ queue' = Remove(queue, i)
    ELSE UNCHANGED <<jobs, queue>>

\* Mutant of Cancel: TimeoutError without a word to the server.
CancelNothing(r) ==
    /\ req[r].pc = "cancel"
    /\ req' = Answer(r, 500) /\ leases' = leases - 1
    /\ UNCHANGED <<jobs, queue, unload, faults>>

\* The server is asked to cancel; whether it could be reached is ignored.
Cancel(r) ==
    /\ req[r].pc = "cancel"
    /\ req' = Answer(r, 500) /\ leases' = leases - 1
    /\ \/ Withdraw(req[r].job) /\ UNCHANGED faults
       \/ /\ faults < MaxFaults
          /\ faults' = faults + 1
          /\ UNCHANGED <<jobs, queue>>
    /\ UNCHANGED unload

-----------------------------------------------------------------------------
(* The server, and the manager that stops it. *)

Work ==
    /\ queue # <<>>
    /\ LET i == Head(queue) IN
       IF jobs[i].state = "queued"
       THEN jobs' = [jobs EXCEPT ![i].state = "running"] /\ UNCHANGED queue
       ELSE /\ \E s \in {"completed", "failed"} : jobs' = [jobs EXCEPT ![i].state = s]
            /\ queue' = Tail(queue)
    /\ UNCHANGED <<req, leases, unload, faults>>

Unload ==
    /\ ~unload /\ leases = 0
    /\ unload' = TRUE
    /\ jobs' = [i \in 1..Len(jobs) |-> IF jobs[i].state \in {"queued", "running"}
                                       THEN [jobs[i] EXCEPT !.state = "failed"] ELSE jobs[i]]
    /\ queue' = <<>>
    /\ UNCHANGED <<req, leases, faults>>

Next ==
    \/ \E r \in Requests : Prepare(r) \/ Lease(r) \/ Enter(r) \/ CallFails(r) \/ Submit(r)
                           \/ Poll(r) \/ TimeOut(r) \/ Cancel(r)
    \/ Work \/ Unload

Spec == Init /\ [][Next]_vars

-----------------------------------------------------------------------------
(* Properties. *)

\* Jobs that nobody waits for any more.
Left == {i \in 1..Len(jobs) : /\ jobs[i].state \in {"queued", "running"}
                              /\ req[jobs[i].owner].pc \in Done}

\* Every request gets the image of its own job and of a size the runtime allows; and
\* the server works for nobody who has gone, except after a call to it has failed: a
\* poll that fails gives the job up without cancelling it.
JobsAreOwned ==
    /\ \A r \in Requests : req[r].got # NoJob =>
          /\ jobs[req[r].got].owner = r
          /\ jobs[req[r].got].size <= Max({MaxPixels, Default})
    /\ Cardinality(Left) <= faults

=============================================================================
