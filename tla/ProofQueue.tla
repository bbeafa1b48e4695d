-------------------------------- MODULE ProofQueue --------------------------------
(***************************************************************************)
(* The proof-job queue: table proof_jobs in the SQLite file the API and    *)
(* the prover-worker container share, and the provers that serve it.       *)
(*                                                                         *)
(* The worker's loop takes the oldest queued job, and so does an API       *)
(* request that needs a proof of its own (demo-flow.ts, runTargetProofJob):*)
(* it works the queue off until its own job has a verdict.  A process runs *)
(* its tasks on one event loop; two processes interleave statement by      *)
(* statement.  The circuit's Prover.toml and witness are files at a fixed  *)
(* path of the container, shared by all jobs proven there.                 *)
(***************************************************************************)
EXTENDS Integers, Sequences, FiniteSets

CONSTANTS
  Jobs,      \* proof jobs
  Requests,  \* those an API request creates and waits for, if no client came first
  Workers,   \* loops of the prover-worker service
  Hosts,     \* containers
  HostOf,    \* the container a request or a worker runs in
  Tries,     \* 10 in the code: rounds of runTargetProofJob
  None

Tasks == Requests \cup Workers

ASSUME QueueAssumption ==
  /\ Requests \subseteq Jobs /\ Workers \cap Jobs = {} /\ None \notin Jobs
  /\ HostOf \in [Tasks -> Hosts] /\ IsFiniteSet(Hosts)
  /\ Tries \in Nat

VARIABLES
  proof_jobs,   \* the table: a row per job, status "absent" before the INSERT
  created,      \* the jobs by created_at
  prover_toml,  \* per container, the job whose inputs Prover.toml holds
  witness,      \* per container, the job whose inputs the witness file is for
  task,         \* what each task is doing
  answer        \* how each request ended

vars == <<proof_jobs, created, prover_toml, witness, task, answer>>
files == <<prover_toml, witness>>

Row == [status : {"absent", "queued", "running", "succeeded", "failed"},
        attempts : Nat, result : Jobs \cup {None}]
Task == [at : {"rest", "loop", "selected", "claimed", "executed", "proved"},
         job : Jobs \cup {None}, tries : 0 .. Tries, about : Jobs \cup {None}]

\* How a request ended, and the job whose inputs the proof it was handed is for.
Answer == [end : {"none", "proved", "refused", "gave up", "lost"},
           about : Jobs \cup {None}]

Ended(end) == [end |-> end, about |-> None]

Rest == [at |-> "rest", job |-> None, tries |-> 0, about |-> None]

TypeOK ==
  /\ proof_jobs \in [Jobs -> Row]
  /\ created \in Seq(Jobs)
  /\ prover_toml \in [Hosts -> Jobs \cup {None}]
  /\ witness \in [Hosts -> Jobs \cup {None}]
  /\ task \in [Tasks -> Task]
  /\ answer \in [Requests -> Answer]

Init ==
  /\ proof_jobs = [j \in Jobs |-> [status |-> "absent", attempts |-> 0, result |-> None]]
  /\ created = <<>>
  /\ prover_toml = [h \in Hosts |-> None]
  /\ witness = [h \in Hosts |-> None]
  /\ task = [t \in Tasks |-> Rest]
  /\ answer = [r \in Requests |-> Ended("none")]

-------------------------------------------------------------------------------

\* A task between SELECT and UPDATE holds its process's event loop.
EventLoopFree(t) ==
  \A u \in Tasks \ {t} : HostOf[u] = HostOf[t] => task[u].at # "selected"

Queued == {i \in DOMAIN created : proof_jobs[created[i]].status = "queued"}

\* Variant with a plausible bug: while a job runs, no other is taken.
mut_next_queued_alone(i) ==
  /\ i \in Queued /\ \A k \in Queued : i <= k
  /\ \A j \in Jobs : proof_jobs[j].status # "running"

\* The oldest queued job is the i-th created.
next_queued(i) == i \in Queued /\ \A k \in Queued : i <= k

\* Variant with a plausible bug: an id is used again and its row replaced.
mut_insert_replaces(j) ==
  /\ proof_jobs' = [proof_jobs EXCEPT ![j].status = "queued"]
  /\ created' = Append(created, j)

\* insertProofJob(), for a client of POST /api/proof/... or for a request.
insert(j) ==
  /\ proof_jobs[j].status = "absent"
  /\ proof_jobs' = [proof_jobs EXCEPT ![j].status = "queued"]
  /\ created' = Append(created, j)

\* A client of POST /api/proof/... only creates the job.
createProofJob(j) ==
  /\ insert(j)
  /\ UNCHANGED <<files, task, answer>>

\* openDemoCredit / proveDemoRepaymentHistory create the job they wait for.
start_request(r) ==
  /\ EventLoopFree(r)
  /\ insert(r)
  /\ task' = [task EXCEPT ![r].at = "loop"]
  /\ UNCHANGED <<files, answer>>

\* Where a task goes when processNextProofJob returns.
Return(t) == [task[t] EXCEPT !.at = IF t \in Workers THEN "rest" ELSE "loop",
                             !.job = None, !.about = None]

\* A worker always looks for the next job, a request for Tries rounds, as long
\* as its own job has no verdict.
may_process(t) ==
  IF t \in Workers THEN task[t].at = "rest"
  ELSE /\ task[t].at = "loop" /\ task[t].tries < Tries
       /\ proof_jobs[t].status \notin {"succeeded", "failed"}

\* The round counter of a request.
Round(t) == IF t \in Workers \/ task[t].tries = Tries THEN task[t].tries
                                                      ELSE task[t].tries + 1

\* claimNextProofJob(), the SELECT.
select_job(t) ==
  /\ may_process(t) /\ EventLoopFree(t)
  /\ \/ \E i \in Queued :
          /\ next_queued(i)
          /\ task' = [task EXCEPT ![t].at = "selected", ![t].job = created[i],
                                  ![t].tries = Round(t)]
     \/ /\ \A i \in Queued : ~next_queued(i)
        /\ task' = [task EXCEPT ![t].tries = Round(t)]
  /\ UNCHANGED <<proof_jobs, created, files, answer>>

\* Variant with a plausible bug: the status is not set when a job is taken.
mut_claim_keeps_queued(t) ==
  LET j == task[t].job IN
  /\ task[t].at = "selected"
  /\ proof_jobs' = [proof_jobs EXCEPT ![j].attempts = @ + 1]
  /\ prover_toml' = [prover_toml EXCEPT ![HostOf[t]] = j]
  /\ task' = [task EXCEPT ![t].at = "claimed"]
  /\ UNCHANGED <<created, witness, answer>>

\* The UPDATE, which does not look at the status again, then writeProverToml().
claim_job(t) ==
  LET j == task[t].job IN
  /\ task[t].at = "selected"
  /\ proof_jobs' = [proof_jobs EXCEPT ![j].status = "running", ![j].attempts = @ + 1]
  /\ prover_toml' = [prover_toml EXCEPT ![HostOf[t]] = j]
  /\ task' = [task EXCEPT ![t].at = "claimed"]
  /\ UNCHANGED <<created, witness, answer>>

\* nargo compile and nargo execute: a child process reads the Prover.toml there is.
nargo_execute(t) ==
  /\ task[t].at = "claimed"
  /\ witness' = [witness EXCEPT ![HostOf[t]] = prover_toml[HostOf[t]]]
  /\ task' = [task EXCEPT ![t].at = "executed"]
  /\ UNCHANGED <<proof_jobs, created, prover_toml, answer>>

\* bb prove reads the witness there is and writes to the job's own directory.
bb_prove(t) ==
  /\ task[t].at = "executed"
  /\ task' = [task EXCEPT ![t].at = "proved", ![t].about = witness[HostOf[t]]]
  /\ UNCHANGED <<proof_jobs, created, files, answer>>

\* completeProofJob(succeeded).
complete_job(t) ==
  /\ task[t].at = "proved" /\ EventLoopFree(t)
  /\ proof_jobs' = [proof_jobs EXCEPT ![task[t].job].status = "succeeded",
                                      ![task[t].job].result = task[t].about]
  /\ task' = [task EXCEPT ![t] = Return(t)]
  /\ UNCHANGED <<created, files, answer>>

\* completeProofJob(failed): a tool failed, for whatever reason.
fail_job(t) ==
  /\ task[t].at \in {"claimed", "executed"} /\ EventLoopFree(t)
  /\ proof_jobs' = [proof_jobs EXCEPT ![task[t].job].status = "failed",
                                      ![task[t].job].result = None]
  /\ task' = [task EXCEPT ![t] = Return(t)]
  /\ UNCHANGED <<created, files, answer>>

\* Variant with a plausible bug: the proof's public inputs are not compared.
mut_takes_any_proof(r) == [end |-> "proved", about |-> proof_jobs[r].result]

\* The request compares the proof's public inputs with the ones it generated.
verdict(r) == [end |-> IF proof_jobs[r].result = r THEN "proved" ELSE "refused",
               about |-> proof_jobs[r].result]

\* Variant with a plausible bug: the request waits until its job has a verdict.
mut_end_on_verdict_only(r) ==
  /\ task[r].at = "loop" /\ EventLoopFree(r)
  /\ proof_jobs[r].status \in {"succeeded", "failed"}
  /\ answer' = [answer EXCEPT ![r] =
       IF proof_jobs[r].status = "succeeded" THEN verdict(r) ELSE Ended("gave up")]
  /\ task' = [task EXCEPT ![r] = Rest]
  /\ UNCHANGED <<proof_jobs, created, files>>

\* runTargetProofJob() returns the proof, or throws.
end_request(r) ==
  /\ task[r].at = "loop" /\ EventLoopFree(r)
  /\ answer' = [answer EXCEPT ![r] =
       IF task[r].tries < Tries /\ proof_jobs[r].status = "succeeded"
         THEN verdict(r) ELSE Ended("gave up")]
  /\ task[r].tries < Tries => proof_jobs[r].status \in {"succeeded", "failed"}
  /\ task' = [task EXCEPT ![r] = Rest]
  /\ UNCHANGED <<proof_jobs, created, files>>

\* A container dies and restarts: its tasks are gone, table and files stay.
crash(h) ==
  /\ \E t \in Tasks : HostOf[t] = h /\ task[t].at # "rest"
  /\ task' = [t \in Tasks |-> IF HostOf[t] = h THEN Rest ELSE task[t]]
  /\ answer' = [r \in Requests |->
       IF HostOf[r] = h /\ task[r].at # "rest" THEN Ended("lost") ELSE answer[r]]
  /\ UNCHANGED <<proof_jobs, created, files>>

TaskStep(t) ==
  \/ select_job(t)
  \/ claim_job(t)
  \/ nargo_execute(t)
  \/ bb_prove(t)
  \/ complete_job(t)
  \/ fail_job(t)

Next ==
  \/ \E j \in Jobs : createProofJob(j)
  \/ \E r \in Requests : start_request(r) \/ end_request(r)
  \/ \E t \in Tasks : TaskStep(t)
  \/ \E h \in Hosts : crash(h)

Spec == Init /\ [][Next]_vars

\* Event loops and child processes keep going while their container lives: the
\* worker's loop reschedules itself in a finally block, a request's awaits are
\* resumed.  Nothing is assumed of clients and new jobs.  Containers may die for
\* ever and anywhere, only not each time the worker is between SELECT and UPDATE.
Fairness ==
  /\ \A t \in Tasks : WF_vars(TaskStep(t))
  /\ \A t \in Workers : SF_vars(claim_job(t))
  /\ \A r \in Requests : WF_vars(end_request(r))

FairSpec == Spec /\ Fairness

-------------------------------------------------------------------------------
(* What makes the queue correct.                                           *)

\* A request goes ahead only with a proof of its own public inputs, although
\* all jobs of a container go through one Prover.toml and one witness file and
\* other tasks may have proven its job.
OwnProofOnly ==
  \A r \in Requests : answer[r].end = "proved" => answer[r].about = r

\* SELECT and UPDATE are two statements, so two processes may take one job; but
\* two tasks of one process never do, and no process takes a job twice, so a job
\* is proven once per container at most (and each in a directory of its own).
TakenOncePerHost ==
  /\ \A j \in Jobs : proof_jobs[j].attempts <= Cardinality(Hosts)
  /\ \A t, u \in Tasks :
       t # u /\ HostOf[t] = HostOf[u] /\ task[t].job # None => task[t].job # task[u].job

\* A verdict is final, unless two processes took the job: only then may a late
\* failure overwrite a proof, or a finished job be running again.
VerdictStands ==
  [][\A j \in Jobs :
       proof_jobs[j].status \in {"succeeded", "failed"} =>
         \/ proof_jobs'[j].status = proof_jobs[j].status
         \/ proof_jobs'[j].attempts > 1]_vars

\* Every job in the queue is taken in the end, whichever tasks die.
QueueDrains ==
  \A j \in Jobs : proof_jobs[j].status = "queued" ~> proof_jobs[j].status # "queued"

\* Every request is answered, although the job it waits for may have been left
\* behind as `running` by a worker that died: it gives up after its rounds.
RequestsEnd ==
  \A r \in Requests : task[r].at = "loop" ~> answer[r].end # "none"
=================================================================================
