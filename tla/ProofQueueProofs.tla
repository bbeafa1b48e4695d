----------------------------- MODULE ProofQueueProofs -----------------------------
(***************************************************************************)
(* The proof-job queue for any number of jobs, requests, worker loops and  *)
(* containers.                                                             *)
(*                                                                         *)
(* A job is taken by a SELECT and an UPDATE that does not look again, so   *)
(* what keeps it from being proven over and over is counted per container: *)
(* only a queued job is selected, only before its first attempt is it      *)
(* queued, and a container has one task at a time between the statements.  *)
(***************************************************************************)
EXTENDS ProofQueue, FiniteSetTheorems, TLAPS

Working == {"claimed", "executed", "proved"}
Verdict == {"succeeded", "failed"}

Works(t, j) == task[t].at \in Working /\ task[t].job = j
Chose(t, j) == task[t].at = "selected" /\ task[t].job = j

\* The containers in which a task is about to take the job.
ChoosingHosts(j) == {h \in Hosts : \E t \in Tasks : HostOf[t] = h /\ Chose(t, j)}

-------------------------------------------------------------------------------
(* The inductive invariant.                                                *)

\* A task has a job from its SELECT to its verdict.
JobHeld ==
  \A t \in Tasks : task[t].job # None <=> task[t].at \in {"selected"} \cup Working

\* A request runs only after it inserted its job, and what was selected is there.
Inserted ==
  /\ \A r \in Requests : proof_jobs[r].status = "absent" => task[r].at = "rest"
  /\ \A t \in Tasks, j \in Jobs : Chose(t, j) => proof_jobs[j].status # "absent"

\* A job leaves the queue with its first attempt and never comes back.
AttemptLeavesQueue ==
  \A j \in Jobs :
    /\ proof_jobs[j].attempts = 0 <=> proof_jobs[j].status \in {"absent", "queued"}
    /\ \A t \in Tasks : Works(t, j) => proof_jobs[j].attempts > 0

\* Of the tasks of one container one at most is between SELECT and UPDATE, and no
\* two have the same job.
HostSerial ==
  \A t, u \in Tasks : t # u /\ HostOf[t] = HostOf[u] =>
    /\ ~(task[t].at = "selected" /\ task[u].at = "selected")
    /\ task[t].job # None => task[t].job # task[u].job

\* Attempts made and attempts about to be made: one per container.
AttemptsBudgeted ==
  \A j \in Jobs :
    proof_jobs[j].attempts + Cardinality(ChoosingHosts(j)) <= Cardinality(Hosts)

\* As long as a job was taken once, one task at most works on it, and has not
\* finished.
FirstAttemptAlone ==
  \A j \in Jobs : proof_jobs[j].attempts <= 1 =>
    /\ \A t, u \in Tasks : Works(t, j) /\ Works(u, j) => t = u
    /\ \A t \in Tasks : Works(t, j) => proof_jobs[j].status = "running"

QueueInv ==
  /\ TypeOK
  /\ JobHeld
  /\ Inserted
  /\ AttemptLeavesQueue
  /\ HostSerial
  /\ AttemptsBudgeted
  /\ FirstAttemptAlone

LEMMA HostsCounted ==
  ASSUME NEW S, NEW T, S \subseteq T, T \subseteq Hosts
  PROVE  /\ IsFiniteSet(S) /\ Cardinality(S) \in Nat /\ Cardinality(T) \in Nat
         /\ Cardinality(S) <= Cardinality(T)
<1>1. IsFiniteSet(T)
  BY QueueAssumption, FS_Subset
<1> QED
  BY <1>1, FS_Subset, FS_CardinalityType

LEMMA QueueInit == Init => QueueInv
<1> SUFFICES ASSUME Init
             PROVE  QueueInv
  OBVIOUS
<1>1. Rest \in Task /\ Rest.at = "rest" /\ Rest.job = None
  BY QueueAssumption DEF Rest, Task
<1>2. \A t \in Tasks : task[t].at = "rest" /\ task[t].job = None
  BY <1>1 DEF Init
<1>3. \A j \in Jobs : proof_jobs[j].status = "absent" /\ proof_jobs[j].attempts = 0
  BY DEF Init
<1>4. TypeOK
  <2>1. [status |-> "absent", attempts |-> 0, result |-> None] \in Row
    BY DEF Row
  <2>2. Ended("none") \in Answer
    BY DEF Ended, Answer
  <2> QED
    BY <1>1, <2>1, <2>2 DEF Init, TypeOK
<1>5. \A j \in Jobs : ChoosingHosts(j) = {}
  BY <1>2 DEF ChoosingHosts, Chose
<1>6. AttemptsBudgeted
  <2>1. Cardinality(Hosts) \in Nat /\ Cardinality({}) = 0
    BY QueueAssumption, FS_CardinalityType, FS_EmptySet
  <2> QED
    BY <1>3, <1>5, <2>1 DEF AttemptsBudgeted
<1> QED
  BY <1>2, <1>3, <1>4, <1>6 DEF QueueInv, JobHeld, Inserted, AttemptLeavesQueue, HostSerial,
     FirstAttemptAlone, Works, Chose, Working, Tasks

-------------------------------------------------------------------------------
(* Type correctness.                                                       *)

LEMMA InsertTyped ==
  ASSUME TypeOK, NEW j \in Jobs, insert(j)
  PROVE  /\ proof_jobs' \in [Jobs -> Row] /\ created' \in Seq(Jobs)
         /\ \A k \in Jobs \ {j} : proof_jobs'[k] = proof_jobs[k]
         /\ proof_jobs[j].status = "absent" /\ proof_jobs'[j].status = "queued"
         /\ proof_jobs'[j].attempts = proof_jobs[j].attempts
<1>1. [proof_jobs[j] EXCEPT !.status = "queued"] \in Row
  BY DEF TypeOK, Row
<1>2. proof_jobs' = [proof_jobs EXCEPT ![j] = [proof_jobs[j] EXCEPT !.status = "queued"]]
  BY DEF insert
<1>3. created \in Seq(Jobs) /\ created' = Append(created, j)
  BY DEF insert, TypeOK
<1>4. created' \in Seq(Jobs)
  BY <1>3
<1>5. proof_jobs[j] \in Row
  BY DEF TypeOK
<1> QED
  BY <1>1, <1>2, <1>4, <1>5 DEF insert, TypeOK, Row

\* A step of one task that keeps the table and changes the task to c.
LEMMA TaskChangeTyped ==
  ASSUME TypeOK, NEW t \in Tasks, NEW c \in Task, task' = [task EXCEPT ![t] = c]
  PROVE  /\ task' \in [Tasks -> Task]
         /\ task'[t] = c /\ \A u \in Tasks \ {t} : task'[u] = task[u]
BY DEF TypeOK

\* The SELECT.
LEMMA SelectEffect ==
  ASSUME TypeOK, NEW t \in Tasks, select_job(t)
  PROVE  /\ task' \in [Tasks -> Task]
         /\ \A u \in Tasks \ {t} : task'[u] = task[u]
         /\ \/ /\ task'[t].at = "selected" /\ task'[t].job \in Jobs
               /\ proof_jobs[task'[t].job].status = "queued"
            \/ task'[t].at = task[t].at /\ task'[t].job = task[t].job
<1>1. Round(t) \in 0 .. Tries
  BY QueueAssumption DEF TypeOK, Task, Round
<1>2. task[t] \in Task
  BY DEF TypeOK
<1>3. ASSUME NEW i \in Queued,
             task' = [task EXCEPT ![t].at = "selected", ![t].job = created[i],
                                  ![t].tries = Round(t)]
      PROVE  /\ task' \in [Tasks -> Task]
             /\ \A u \in Tasks \ {t} : task'[u] = task[u]
             /\ task'[t].at = "selected" /\ task'[t].job \in Jobs
             /\ proof_jobs[task'[t].job].status = "queued"
  <2> DEFINE c == [task[t] EXCEPT !.at = "selected", !.job = created[i], !.tries = Round(t)]
  <2>1. created[i] \in Jobs /\ proof_jobs[created[i]].status = "queued"
    BY DEF Queued, TypeOK
  <2>2. c \in Task /\ c.at = "selected" /\ c.job = created[i]
    BY <1>1, <1>2, <2>1 DEF Task
  <2>3. task' = [task EXCEPT ![t] = c]
    BY <1>3
  <2> HIDE DEF c
  <2> QED
    BY <2>1, <2>2, <2>3, TaskChangeTyped
<1>4. ASSUME task' = [task EXCEPT ![t].tries = Round(t)]
      PROVE  /\ task' \in [Tasks -> Task]
             /\ \A u \in Tasks \ {t} : task'[u] = task[u]
             /\ task'[t].at = task[t].at /\ task'[t].job = task[t].job
  <2> DEFINE c == [task[t] EXCEPT !.tries = Round(t)]
  <2>1. c \in Task /\ c.at = task[t].at /\ c.job = task[t].job
    BY <1>1, <1>2 DEF Task
  <2>2. task' = [task EXCEPT ![t] = c]
    BY <1>4
  <2> HIDE DEF c
  <2> QED
    BY <2>1, <2>2, TaskChangeTyped
<1> QED
  BY <1>3, <1>4 DEF select_job

\* The steps in which a task only goes on: its row and its job stay as they are.
LEMMA AdvanceEffect ==
  ASSUME TypeOK, NEW t \in Tasks, nargo_execute(t) \/ bb_prove(t)
  PROVE  /\ TypeOK'
         /\ proof_jobs' = proof_jobs
         /\ \A u \in Tasks \ {t} : task'[u] = task[u]
         /\ task[t].at \in Working /\ task'[t].at \in Working
         /\ task'[t].job = task[t].job
<1>1. HostOf[t] \in Hosts
  BY QueueAssumption
<1>2. task[t] \in Task
  BY DEF TypeOK
<1>3. CASE nargo_execute(t)
  <2> DEFINE c == [task[t] EXCEPT !.at = "executed"]
  <2>1. c \in Task /\ c.at = "executed" /\ c.job = task[t].job
    BY <1>2 DEF Task
  <2>2. task' = [task EXCEPT ![t] = c]
    BY <1>3 DEF nargo_execute
  <2> HIDE DEF c
  <2>3. /\ task' \in [Tasks -> Task] /\ task'[t] = c
        /\ \A u \in Tasks \ {t} : task'[u] = task[u]
    BY <2>1, <2>2, TaskChangeTyped
  <2>4. witness' \in [Hosts -> Jobs \cup {None}]
    BY <1>1, <1>3 DEF nargo_execute, TypeOK
  <2> QED
    BY <1>3, <2>1, <2>3, <2>4 DEF nargo_execute, TypeOK, Working
<1>4. CASE bb_prove(t)
  <2> DEFINE c == [task[t] EXCEPT !.at = "proved", !.about = witness[HostOf[t]]]
  <2>1. c \in Task /\ c.at = "proved" /\ c.job = task[t].job
    BY <1>1, <1>2 DEF Task, TypeOK
  <2>2. task' = [task EXCEPT ![t] = c]
    BY <1>4 DEF bb_prove
  <2> HIDE DEF c
  <2>3. /\ task' \in [Tasks -> Task] /\ task'[t] = c
        /\ \A u \in Tasks \ {t} : task'[u] = task[u]
    BY <2>1, <2>2, TaskChangeTyped
  <2> QED
    BY <1>4, <2>1, <2>3 DEF bb_prove, files, TypeOK, Working
<1> QED
  BY <1>3, <1>4

\* The UPDATE.
LEMMA ClaimEffect ==
  ASSUME TypeOK, JobHeld, NEW t \in Tasks, claim_job(t)
  PROVE  /\ TypeOK'
         /\ \A u \in Tasks \ {t} : task'[u] = task[u]
         /\ task[t].at = "selected" /\ task'[t].at = "claimed"
         /\ task'[t].job = task[t].job
         /\ \E j \in Jobs :
              /\ j = task[t].job
              /\ \A k \in Jobs \ {j} : proof_jobs'[k] = proof_jobs[k]
              /\ proof_jobs'[j].status = "running"
              /\ proof_jobs'[j].attempts = proof_jobs[j].attempts + 1
<1>1. HostOf[t] \in Hosts
  BY QueueAssumption
<1>2. task[t] \in Task /\ task[t].at = "selected"
  BY DEF TypeOK, claim_job
<1>3. PICK j \in Jobs : j = task[t].job
  BY <1>2 DEF JobHeld, Task
<1>4. /\ proof_jobs'[j].status = "running"
      /\ proof_jobs'[j].attempts = proof_jobs[j].attempts + 1
      /\ \A k \in Jobs \ {j} : proof_jobs'[k] = proof_jobs[k]
      /\ proof_jobs' \in [Jobs -> Row]
  <2> DEFINE row == [proof_jobs[j] EXCEPT !.status = "running", !.attempts = @ + 1]
  <2>0. proof_jobs[j] \in Row /\ proof_jobs[j].attempts + 1 \in Nat
    BY DEF TypeOK, Row
  <2>1. /\ row \in Row /\ row.status = "running"
        /\ row.attempts = proof_jobs[j].attempts + 1
    BY <2>0 DEF Row
  <2>2. proof_jobs' = [proof_jobs EXCEPT ![j] = row]
    BY <1>3 DEF claim_job
  <2> HIDE DEF row
  <2> QED
    BY <2>1, <2>2 DEF TypeOK
<1>5. prover_toml' \in [Hosts -> Jobs \cup {None}]
  BY <1>1, <1>3 DEF claim_job, TypeOK
<1>6. /\ task' \in [Tasks -> Task] /\ task'[t].at = "claimed"
      /\ task'[t].job = task[t].job
      /\ \A u \in Tasks \ {t} : task'[u] = task[u]
  <2> DEFINE c == [task[t] EXCEPT !.at = "claimed"]
  <2>1. c \in Task /\ c.at = "claimed" /\ c.job = task[t].job
    BY <1>2 DEF Task
  <2>2. task' = [task EXCEPT ![t] = c]
    BY DEF claim_job
  <2> HIDE DEF c
  <2> QED
    BY <2>1, <2>2, TaskChangeTyped
<1> QED
  BY <1>2, <1>3, <1>4, <1>5, <1>6 DEF claim_job, TypeOK

\* A verdict is written.
LEMMA FinishEffect ==
  ASSUME TypeOK, JobHeld, NEW t \in Tasks, complete_job(t) \/ fail_job(t)
  PROVE  /\ TypeOK'
         /\ \A u \in Tasks \ {t} : task'[u] = task[u]
         /\ task[t].at \in Working
         /\ task'[t].at = IF t \in Workers THEN "rest" ELSE "loop"
         /\ task'[t].job = None
         /\ \E j \in Jobs :
              /\ j = task[t].job
              /\ \A k \in Jobs \ {j} : proof_jobs'[k] = proof_jobs[k]
              /\ proof_jobs'[j].status \in Verdict
              /\ proof_jobs'[j].attempts = proof_jobs[j].attempts
<1>1. task[t] \in Task /\ task[t].at \in Working
  BY DEF TypeOK, complete_job, fail_job, Working
<1>2. PICK j \in Jobs : j = task[t].job
  BY <1>1 DEF JobHeld, Task
<1>3. PICK st \in Verdict, res \in Jobs \cup {None} :
        proof_jobs' = [proof_jobs EXCEPT ![j].status = st, ![j].result = res]
  BY <1>1, <1>2 DEF complete_job, fail_job, Verdict, Task
<1>4. /\ proof_jobs' \in [Jobs -> Row] /\ proof_jobs'[j].status = st
      /\ proof_jobs'[j].attempts = proof_jobs[j].attempts
      /\ \A k \in Jobs \ {j} : proof_jobs'[k] = proof_jobs[k]
  <2> DEFINE row == [proof_jobs[j] EXCEPT !.status = st, !.result = res]
  <2>1. /\ row \in Row /\ row.status = st /\ row.attempts = proof_jobs[j].attempts
    BY DEF TypeOK, Row, Verdict
  <2>2. proof_jobs' = [proof_jobs EXCEPT ![j] = row]
    BY <1>3
  <2> HIDE DEF row
  <2> QED
    BY <2>1, <2>2 DEF TypeOK
<1>5. /\ Return(t) \in Task /\ Return(t).job = None
      /\ Return(t).at = IF t \in Workers THEN "rest" ELSE "loop"
  BY <1>1 DEF Return, Task
<1>6. /\ task' \in [Tasks -> Task] /\ task'[t] = Return(t)
      /\ \A u \in Tasks \ {t} : task'[u] = task[u]
  BY <1>5, TaskChangeTyped DEF complete_job, fail_job
<1> QED
  BY <1>1, <1>2, <1>4, <1>5, <1>6 DEF complete_job, fail_job, files, TypeOK

-------------------------------------------------------------------------------
(* Every step preserves the invariant.                                     *)

\* A job enters the queue; the request that inserted it starts its rounds.
LEMMA InsertStep ==
  ASSUME QueueInv,
         \/ \E j \in Jobs : createProofJob(j)
         \/ \E r \in Requests : start_request(r)
  PROVE  QueueInv'
<1>1. PICK j \in Jobs :
        /\ insert(j)
        /\ UNCHANGED files /\ UNCHANGED answer
        /\ \/ task' = task
           \/ j \in Requests /\ task' = [task EXCEPT ![j].at = "loop"]
  BY QueueAssumption DEF createProofJob, start_request
<1>2. /\ proof_jobs' \in [Jobs -> Row] /\ created' \in Seq(Jobs)
      /\ \A k \in Jobs \ {j} : proof_jobs'[k] = proof_jobs[k]
      /\ proof_jobs[j].status = "absent" /\ proof_jobs'[j].status = "queued"
      /\ proof_jobs'[j].attempts = proof_jobs[j].attempts
  BY <1>1, InsertTyped DEF QueueInv
<1>3. /\ task' \in [Tasks -> Task]
      /\ \A t \in Tasks :
           /\ task'[t].job = task[t].job
           /\ \/ task'[t].at = task[t].at
              \/ t = j /\ task[t].at = "rest" /\ task'[t].at = "loop"
  <2>1. CASE task' = task
    BY <2>1 DEF QueueInv, TypeOK
  <2>2. CASE j \in Requests /\ task' = [task EXCEPT ![j].at = "loop"]
    <3> DEFINE c == [task[j] EXCEPT !.at = "loop"]
    <3>1. j \in Tasks /\ task[j] \in Task /\ task[j].at = "rest"
      BY <1>2, <2>2 DEF QueueInv, TypeOK, Inserted, Tasks
    <3>2. c \in Task /\ c.at = "loop" /\ c.job = task[j].job
      BY <3>1 DEF Task
    <3>3. task' = [task EXCEPT ![j] = c]
      BY <2>2
    <3> HIDE DEF c
    <3> QED
      BY <3>1, <3>2, <3>3, TaskChangeTyped DEF QueueInv
  <2> QED
    BY <1>1, <2>1, <2>2
<1>4. TypeOK'
  BY <1>1, <1>2, <1>3 DEF QueueInv, TypeOK, files
<1>5. \A t \in Tasks, k \in Jobs : /\ Works(t, k)' <=> Works(t, k)
                                   /\ Chose(t, k)' <=> Chose(t, k)
  BY <1>3 DEF Works, Chose, Working
<1>6. JobHeld'
  BY <1>3 DEF QueueInv, JobHeld, Working
<1>7. Inserted'
  BY <1>2, <1>3, <1>5, QueueAssumption DEF QueueInv, Inserted, Tasks
<1>8. AttemptLeavesQueue'
  BY <1>2, <1>5 DEF QueueInv, AttemptLeavesQueue
<1>9. HostSerial'
  BY <1>3 DEF QueueInv, HostSerial
<1>10. AttemptsBudgeted'
  <2>1. \A k \in Jobs : ChoosingHosts(k)' = ChoosingHosts(k)
    BY <1>5 DEF ChoosingHosts
  <2>2. \A k \in Jobs : proof_jobs'[k].attempts = proof_jobs[k].attempts
    BY <1>2
  <2> QED
    BY <2>1, <2>2 DEF QueueInv, AttemptsBudgeted
<1>11. FirstAttemptAlone'
  BY <1>2, <1>5 DEF QueueInv, FirstAttemptAlone, AttemptLeavesQueue
<1> QED
  BY <1>4, <1>6, <1>7, <1>8, <1>9, <1>10, <1>11 DEF QueueInv

\* A task takes nothing and its row keeps: it goes on with the job it has, or
\* drops it and is idle.
Quiet(t) ==
  \/ task'[t].at = "rest" /\ task'[t].job = None
  \/ /\ task[t].at # "rest" /\ task'[t].job = task[t].job
     /\ task'[t].at = "selected" <=> task[t].at = "selected"
     /\ task'[t].at \in Working <=> task[t].at \in Working

LEMMA QuietStep ==
  ASSUME QueueInv, TypeOK', UNCHANGED proof_jobs, \A t \in Tasks : Quiet(t)
  PROVE  QueueInv'
<1>1. \A t \in Tasks, k \in Jobs : /\ Works(t, k)' => Works(t, k)
                                   /\ Chose(t, k)' => Chose(t, k)
  BY DEF Works, Chose, Working, Quiet
<1>2. JobHeld'
  BY DEF QueueInv, JobHeld, Working, Quiet
<1>3. Inserted'
  BY <1>1 DEF QueueInv, Inserted, Tasks, Quiet
<1>4. AttemptLeavesQueue'
  BY <1>1 DEF QueueInv, AttemptLeavesQueue
<1>5. HostSerial'
  BY DEF QueueInv, HostSerial, Quiet
<1>6. AttemptsBudgeted'
  <2> SUFFICES ASSUME NEW k \in Jobs
               PROVE  proof_jobs[k].attempts + Cardinality(ChoosingHosts(k)') <= Cardinality(Hosts)
    BY DEF AttemptsBudgeted
  <2>1. ChoosingHosts(k)' \subseteq ChoosingHosts(k) /\ ChoosingHosts(k) \subseteq Hosts
    BY <1>1 DEF ChoosingHosts
  <2>2. /\ Cardinality(ChoosingHosts(k)') \in Nat /\ Cardinality(ChoosingHosts(k)) \in Nat
        /\ Cardinality(ChoosingHosts(k)') <= Cardinality(ChoosingHosts(k))
        /\ Cardinality(Hosts) \in Nat
    BY <2>1, HostsCounted
  <2>3. proof_jobs[k].attempts \in Nat
    BY DEF QueueInv, TypeOK, Row
  <2> QED
    BY <2>2, <2>3 DEF QueueInv, AttemptsBudgeted
<1>7. FirstAttemptAlone'
  BY <1>1 DEF QueueInv, FirstAttemptAlone
<1> QED
  BY <1>2, <1>3, <1>4, <1>5, <1>6, <1>7 DEF QueueInv

\* The SELECT: a queued job has no attempt yet, so every container may choose it.
LEMMA SelectStep ==
  ASSUME QueueInv, NEW t \in Tasks, select_job(t)
  PROVE  QueueInv'
<1>1. /\ task' \in [Tasks -> Task]
      /\ \A u \in Tasks \ {t} : task'[u] = task[u]
      /\ \/ /\ task'[t].at = "selected" /\ task'[t].job \in Jobs
            /\ proof_jobs[task'[t].job].status = "queued"
         \/ task'[t].at = task[t].at /\ task'[t].job = task[t].job
  BY SelectEffect DEF QueueInv
<1>2. /\ UNCHANGED <<proof_jobs, created, files, answer>> /\ EventLoopFree(t)
      /\ task[t].at \in {"rest", "loop"}
  BY DEF select_job, may_process
<1>3. TypeOK'
  BY <1>1, <1>2 DEF QueueInv, TypeOK, files
<1>4. CASE task'[t].at = task[t].at /\ task'[t].job = task[t].job
  <2>1. \A u \in Tasks : task'[u].at = task[u].at /\ task'[u].job = task[u].job
    BY <1>1, <1>4
  <2>2. \A u \in Tasks : task[u].at = "rest" => task[u].job = None
    BY DEF QueueInv, JobHeld, Working
  <2> QED
    BY <1>2, <1>3, <2>1, <2>2, QuietStep DEF Quiet
<1>5. CASE /\ task'[t].at = "selected" /\ task'[t].job \in Jobs
           /\ proof_jobs[task'[t].job].status = "queued"
  <2> DEFINE j == task'[t].job
  <2>1. j # None
    BY <1>5, QueueAssumption
  <2>2. \A u \in Tasks, k \in Jobs : /\ Works(u, k)' => Works(u, k)
                                     /\ Chose(u, k)' => Chose(u, k) \/ (u = t /\ k = j)
    BY <1>1, <1>5 DEF Works, Chose, Working
  <2>3. proof_jobs[j].attempts = 0 /\ \A u \in Tasks : ~Works(u, j)
    BY <1>5 DEF QueueInv, AttemptLeavesQueue
  <2>4. \A u \in Tasks \ {t} : HostOf[u] = HostOf[t] => task[u].at # "selected" /\ task[u].job # j
    <3>1. \A u \in Tasks : task[u].job = j => task[u].at \in {"selected"} \cup Working
      BY <2>1 DEF QueueInv, JobHeld
    <3> QED
      BY <1>2, <2>3, <3>1 DEF EventLoopFree, Works
  <2>5. JobHeld'
    BY <1>1, <1>5, <2>1 DEF QueueInv, JobHeld
  <2>6. Inserted'
    <3>1. \A r \in Requests : proof_jobs[r].status = "absent" => r # t
      <4>1. t \in Workers \/ task[t].at = "loop"
        BY DEF select_job, may_process
      <4> QED
        BY <4>1, QueueAssumption DEF QueueInv, Inserted
    <3> QED
      BY <1>1, <1>2, <1>5, <2>2, <3>1 DEF QueueInv, Inserted, Tasks
  <2>7. AttemptLeavesQueue'
    BY <1>2, <2>2 DEF QueueInv, AttemptLeavesQueue
  <2>8. HostSerial'
    BY <1>1, <1>5, <2>4 DEF QueueInv, HostSerial
  <2>9. AttemptsBudgeted'
    <3> SUFFICES ASSUME NEW k \in Jobs
                 PROVE  proof_jobs[k].attempts + Cardinality(ChoosingHosts(k)') <= Cardinality(Hosts)
      BY <1>2 DEF AttemptsBudgeted
    <3>1. ChoosingHosts(k)' \subseteq Hosts
      BY DEF ChoosingHosts
    <3>2. /\ Cardinality(ChoosingHosts(k)') \in Nat /\ Cardinality(Hosts) \in Nat
          /\ Cardinality(ChoosingHosts(k)') <= Cardinality(Hosts)
      BY <3>1, HostsCounted
    <3>3. CASE k = j
      BY <2>3, <3>2, <3>3
    <3>4. CASE k # j
      <4>1. ChoosingHosts(k)' \subseteq ChoosingHosts(k) /\ ChoosingHosts(k) \subseteq Hosts
        BY <2>2, <3>4 DEF ChoosingHosts
      <4>2. /\ Cardinality(ChoosingHosts(k)) \in Nat
            /\ Cardinality(ChoosingHosts(k)') <= Cardinality(ChoosingHosts(k))
        BY <4>1, HostsCounted
      <4>3. proof_jobs[k].attempts \in Nat
        BY DEF QueueInv, TypeOK, Row
      <4> QED
        BY <3>2, <4>2, <4>3 DEF QueueInv, AttemptsBudgeted
    <3> QED
      BY <3>3, <3>4
  <2>10. FirstAttemptAlone'
    BY <1>2, <2>2 DEF QueueInv, FirstAttemptAlone
  <2> QED
    BY <1>3, <2>5, <2>6, <2>7, <2>8, <2>9, <2>10 DEF QueueInv
<1> QED
  BY <1>1, <1>4, <1>5

\* The UPDATE: an attempt about to be made becomes one made.
LEMMA ClaimStep ==
  ASSUME QueueInv, NEW t \in Tasks, claim_job(t)
  PROVE  QueueInv'
<1>1. /\ TypeOK'
      /\ \A u \in Tasks \ {t} : task'[u] = task[u]
      /\ task[t].at = "selected" /\ task'[t].at = "claimed"
      /\ task'[t].job = task[t].job
  BY ClaimEffect DEF QueueInv
<1>2. PICK j \in Jobs :
              /\ j = task[t].job
              /\ \A k \in Jobs \ {j} : proof_jobs'[k] = proof_jobs[k]
              /\ proof_jobs'[j].status = "running"
              /\ proof_jobs'[j].attempts = proof_jobs[j].attempts + 1
  BY ClaimEffect DEF QueueInv
<1>3. \A u \in Tasks, k \in Jobs : /\ Works(u, k)' <=> Works(u, k) \/ (u = t /\ k = j)
                                   /\ Chose(u, k)' <=> Chose(u, k) /\ u # t
  BY <1>1, <1>2 DEF Works, Chose, Working
<1>4. Chose(t, j) /\ \A k \in Jobs : Chose(t, k) => k = j
  BY <1>1, <1>2 DEF Chose
<1>5. \A k \in Jobs : proof_jobs[k].attempts \in Nat
  BY DEF QueueInv, TypeOK, Row
<1>6. JobHeld'
  BY <1>1 DEF QueueInv, JobHeld, Working
<1>7. Inserted'
  <2>1. \A r \in Requests : proof_jobs[r].status = "absent" => r # t
    BY <1>1 DEF QueueInv, Inserted
  <2>2. proof_jobs[j].status # "absent"
    BY <1>4 DEF QueueInv, Inserted
  <2> QED
    BY <1>1, <1>2, <1>3, <2>1, <2>2, QueueAssumption DEF QueueInv, Inserted, Tasks
<1>8. AttemptLeavesQueue'
  <2>1. proof_jobs'[j].attempts > 0
    BY <1>2, <1>5
  <2> QED
    BY <1>2, <1>3, <2>1 DEF QueueInv, AttemptLeavesQueue
<1>9. HostSerial'
  BY <1>1 DEF QueueInv, HostSerial
<1>10. AttemptsBudgeted'
  <2> SUFFICES ASSUME NEW k \in Jobs
               PROVE  proof_jobs'[k].attempts + Cardinality(ChoosingHosts(k)') <= Cardinality(Hosts)
    BY DEF AttemptsBudgeted
  <2>1. ChoosingHosts(k) \subseteq Hosts /\ IsFiniteSet(ChoosingHosts(k))
    <3>1. ChoosingHosts(k) \subseteq Hosts
      BY DEF ChoosingHosts
    <3> QED
      BY <3>1, HostsCounted
  <2>2. CASE k # j
    <3>1. ChoosingHosts(k)' = ChoosingHosts(k)
      BY <1>3, <1>4, <2>2 DEF ChoosingHosts
    <3> QED
      BY <1>2, <2>2, <3>1 DEF QueueInv, AttemptsBudgeted
  <2>3. CASE k = j
    <3>1. HostOf[t] \in ChoosingHosts(j)
      BY <1>4, QueueAssumption DEF ChoosingHosts
    <3>2. ChoosingHosts(j)' = ChoosingHosts(j) \ {HostOf[t]}
      <4>1. \A u \in Tasks \ {t} : HostOf[u] = HostOf[t] => ~Chose(u, j)
        BY <1>1 DEF QueueInv, HostSerial, Chose
      <4> QED
        BY <1>3, <4>1 DEF ChoosingHosts
    <3>3. Cardinality(ChoosingHosts(j)') = Cardinality(ChoosingHosts(j)) - 1
      BY <2>1, <2>3, <3>1, <3>2, FS_RemoveElement
    <3>4. Cardinality(ChoosingHosts(j)) \in Nat /\ Cardinality(Hosts) \in Nat
      BY <2>1, <2>3, HostsCounted
    <3> QED
      BY <1>2, <1>5, <2>3, <3>3, <3>4 DEF QueueInv, AttemptsBudgeted
  <2> QED
    BY <2>2, <2>3
<1>11. FirstAttemptAlone'
  <2>1. \A k \in Jobs \ {j} : \A u \in Tasks : Works(u, k)' <=> Works(u, k)
    BY <1>3
  <2>2. proof_jobs'[j].attempts <= 1 => proof_jobs[j].attempts = 0
    BY <1>2, <1>5
  <2>3. proof_jobs[j].attempts = 0 => \A u \in Tasks : ~Works(u, j)
    BY <1>5 DEF QueueInv, AttemptLeavesQueue
  <2> QED
    BY <1>2, <1>3, <2>1, <2>2, <2>3 DEF QueueInv, FirstAttemptAlone
<1> QED
  BY <1>1, <1>6, <1>7, <1>8, <1>9, <1>10, <1>11 DEF QueueInv

\* A verdict is written, of the job the task held and lets go.
LEMMA FinishStep ==
  ASSUME QueueInv, NEW t \in Tasks, complete_job(t) \/ fail_job(t)
  PROVE  QueueInv'
<1>1. /\ TypeOK'
      /\ \A u \in Tasks \ {t} : task'[u] = task[u]
      /\ task[t].at \in Working
      /\ task'[t].at \in {"rest", "loop"}
      /\ t \in Workers => task'[t].at = "rest"
      /\ task'[t].job = None
  BY FinishEffect DEF QueueInv
<1>2. PICK j \in Jobs :
              /\ j = task[t].job
              /\ \A k \in Jobs \ {j} : proof_jobs'[k] = proof_jobs[k]
              /\ proof_jobs'[j].status \in Verdict
              /\ proof_jobs'[j].attempts = proof_jobs[j].attempts
  BY FinishEffect DEF QueueInv
<1>3. \A u \in Tasks, k \in Jobs : /\ Works(u, k)' <=> Works(u, k) /\ u # t
                                   /\ Chose(u, k)' <=> Chose(u, k)
  BY <1>1 DEF Works, Chose, Working
<1>4. Works(t, j)
  BY <1>1, <1>2 DEF Works
<1>5. \A k \in Jobs : proof_jobs'[k].attempts = proof_jobs[k].attempts
  BY <1>2
<1>6. JobHeld'
  BY <1>1 DEF QueueInv, JobHeld, Working
<1>7. Inserted'
  <2>1. \A r \in Requests : proof_jobs[r].status = "absent" => r # t
    BY <1>1 DEF QueueInv, Inserted, Working
  <2> QED
    BY <1>1, <1>2, <1>3, <2>1, QueueAssumption DEF QueueInv, Inserted, Tasks, Verdict
<1>8. AttemptLeavesQueue'
  <2>1. proof_jobs[j].attempts > 0 /\ proof_jobs[j].attempts \in Nat
    BY <1>4 DEF QueueInv, AttemptLeavesQueue, TypeOK, Row
  <2> QED
    BY <1>2, <1>3, <1>5, <2>1 DEF QueueInv, AttemptLeavesQueue, Verdict
<1>9. HostSerial'
  BY <1>1 DEF QueueInv, HostSerial, Working
<1>10. AttemptsBudgeted'
  <2>1. \A k \in Jobs : ChoosingHosts(k)' = ChoosingHosts(k)
    BY <1>3 DEF ChoosingHosts
  <2> QED
    BY <1>5, <2>1 DEF QueueInv, AttemptsBudgeted
<1>11. FirstAttemptAlone'
  <2>1. proof_jobs[j].attempts <= 1 => \A u \in Tasks : ~Works(u, j)'
    BY <1>3, <1>4 DEF QueueInv, FirstAttemptAlone
  <2> QED
    BY <1>2, <1>3, <1>5, <2>1 DEF QueueInv, FirstAttemptAlone
<1> QED
  BY <1>1, <1>6, <1>7, <1>8, <1>9, <1>10, <1>11 DEF QueueInv

\* A request returns, or a container dies.
LEMMA LeaveStep ==
  ASSUME QueueInv,
         \/ \E r \in Requests : end_request(r)
         \/ \E h \in Hosts : crash(h)
  PROVE  QueueInv'
<1>1. Rest \in Task /\ Rest.at = "rest" /\ Rest.job = None
  BY QueueAssumption DEF Rest, Task
<1>2. \A t \in Tasks : task[t].at = "rest" => task[t].job = None
  BY DEF QueueInv, JobHeld, Working
<1>3. ASSUME NEW r \in Requests, end_request(r)
      PROVE  QueueInv'
  <2>1. r \in Tasks /\ task' = [task EXCEPT ![r] = Rest]
    BY <1>3 DEF end_request, Tasks
  <2>2. /\ task' \in [Tasks -> Task]
        /\ task'[r] = Rest /\ \A u \in Tasks \ {r} : task'[u] = task[u]
    BY <1>1, <2>1, TaskChangeTyped DEF QueueInv
  <2>3. answer' \in [Requests -> Answer]
    <3>1. r \in Jobs /\ proof_jobs[r].result \in Jobs \cup {None}
      BY QueueAssumption DEF QueueInv, TypeOK, Row
    <3>2. verdict(r) \in Answer /\ Ended("gave up") \in Answer
      BY <3>1 DEF verdict, Ended, Answer
    <3> QED
      BY <1>3, <3>2 DEF end_request, QueueInv, TypeOK
  <2>4. TypeOK' /\ UNCHANGED proof_jobs
    BY <1>3, <2>2, <2>3 DEF end_request, files, QueueInv, TypeOK
  <2>5. \A t \in Tasks : Quiet(t)
    BY <1>1, <1>2, <2>2 DEF Quiet
  <2> QED
    BY <2>4, <2>5, QuietStep
<1>4. ASSUME NEW h \in Hosts, crash(h)
      PROVE  QueueInv'
  <2>1. \A t \in Tasks : task'[t] = IF HostOf[t] = h THEN Rest ELSE task[t]
    BY <1>4 DEF crash
  <2>2. task' \in [Tasks -> Task]
    BY <1>1, <1>4 DEF crash, QueueInv, TypeOK
  <2>3. answer' \in [Requests -> Answer]
    <3>1. Ended("lost") \in Answer
      BY DEF Ended, Answer
    <3> QED
      BY <1>4, <3>1 DEF crash, QueueInv, TypeOK
  <2>4. TypeOK' /\ UNCHANGED proof_jobs
    BY <1>4, <2>2, <2>3 DEF crash, files, QueueInv, TypeOK
  <2>5. \A t \in Tasks : Quiet(t)
    BY <1>1, <1>2, <2>1 DEF Quiet
  <2> QED
    BY <2>4, <2>5, QuietStep
<1> QED
  BY <1>3, <1>4

LEMMA QueueStep == QueueInv /\ [Next]_vars => QueueInv'
<1> SUFFICES ASSUME QueueInv, [Next]_vars
             PROVE  QueueInv'
  OBVIOUS
<1>0. \A t \in Tasks : task[t].at = "rest" => task[t].job = None
  BY DEF QueueInv, JobHeld, Working
<1>1. CASE UNCHANGED vars
  <2>1. TypeOK' /\ UNCHANGED <<proof_jobs, task>>
    BY <1>1 DEF vars, files, QueueInv, TypeOK
  <2> QED
    BY <1>0, <2>1, QuietStep DEF Quiet
<1>2. ASSUME NEW t \in Tasks, nargo_execute(t) \/ bb_prove(t)
      PROVE  QueueInv'
  <2>1. /\ TypeOK'
        /\ proof_jobs' = proof_jobs
        /\ \A u \in Tasks \ {t} : task'[u] = task[u]
        /\ task[t].at \in Working /\ task'[t].at \in Working
        /\ task'[t].job = task[t].job
    BY <1>2, AdvanceEffect DEF QueueInv
  <2>2. \A u \in Tasks : Quiet(u)
    BY <1>0, <2>1 DEF Quiet, Working
  <2> QED
    BY <2>1, <2>2, QuietStep
<1> QED
  BY <1>1, <1>2, InsertStep, SelectStep, ClaimStep, FinishStep, LeaveStep DEF Next, TaskStep

LEMMA QueueAlways == Spec => []QueueInv
<1> QED
  BY QueueInit, QueueStep, PTL DEF Spec

-------------------------------------------------------------------------------
(* The theorems.                                                           *)

\* claimNextProofJob is two statements and two containers share the table: a job
\* is still proven at most once per container, and never by two tasks of one.
THEOREM ProvenOncePerContainer == Spec => []TakenOncePerHost
<1>1. QueueInv => TakenOncePerHost
  <2> SUFFICES ASSUME QueueInv
               PROVE  TakenOncePerHost
    OBVIOUS
  <2>1. ASSUME NEW j \in Jobs
        PROVE  proof_jobs[j].attempts <= Cardinality(Hosts)
    <3>1. ChoosingHosts(j) \subseteq Hosts
      BY DEF ChoosingHosts
    <3>2. Cardinality(ChoosingHosts(j)) \in Nat /\ Cardinality(Hosts) \in Nat
      BY <3>1, HostsCounted
    <3>3. proof_jobs[j].attempts \in Nat
      BY DEF QueueInv, TypeOK, Row
    <3> QED
      BY <3>2, <3>3 DEF QueueInv, AttemptsBudgeted
  <2> QED
    BY <2>1 DEF QueueInv, HostSerial, TakenOncePerHost
<1> QED
  BY <1>1, QueueAlways, PTL

\* completeProofJob writes whatever the row says: a verdict is still only ever
\* overwritten, or the job run again, when two containers took it.
THEOREM VerdictsStand == Spec => VerdictStands
<1>1. QueueInv /\ [Next]_vars =>
        \A j \in Jobs :
          proof_jobs[j].status \in {"succeeded", "failed"} =>
            \/ proof_jobs'[j].status = proof_jobs[j].status
            \/ proof_jobs'[j].attempts > 1
  <2> SUFFICES ASSUME QueueInv, [Next]_vars, NEW j \in Jobs,
                      proof_jobs[j].status \in Verdict,
                      proof_jobs'[j].status # proof_jobs[j].status
               PROVE  proof_jobs'[j].attempts > 1
    BY DEF Verdict
  <2>1. proof_jobs[j].attempts \in Nat /\ proof_jobs[j].attempts > 0
    <3>1. proof_jobs[j].attempts \in Nat
      BY DEF QueueInv, TypeOK, Row
    <3>2. proof_jobs[j].attempts # 0
      BY DEF QueueInv, AttemptLeavesQueue, Verdict
    <3> QED
      BY <3>1, <3>2
  <2>2. ASSUME NEW t \in Tasks, claim_job(t)
        PROVE  proof_jobs'[j].attempts > 1
    <3>1. proof_jobs'[j].attempts = proof_jobs[j].attempts + 1
      BY <2>2, ClaimEffect DEF QueueInv
    <3> QED
      BY <2>1, <3>1
  <2>3. ASSUME NEW t \in Tasks, complete_job(t) \/ fail_job(t)
        PROVE  proof_jobs'[j].attempts > 1
    <3>1. Works(t, j) /\ proof_jobs'[j].attempts = proof_jobs[j].attempts
      BY <2>3, FinishEffect DEF QueueInv, Works
    <3>2. ~(proof_jobs[j].attempts <= 1)
      BY <3>1 DEF QueueInv, FirstAttemptAlone, Verdict
    <3> QED
      BY <2>1, <3>1, <3>2
  <2>4. ASSUME NEW k \in Jobs, insert(k)
        PROVE  FALSE
    BY <2>4, InsertTyped DEF QueueInv, Verdict
  <2>5. \/ \E t \in Tasks : claim_job(t) \/ complete_job(t) \/ fail_job(t)
        \/ \E k \in Jobs : insert(k)
        \/ UNCHANGED proof_jobs
    BY QueueAssumption DEF Next, createProofJob, start_request, end_request, crash, TaskStep,
           select_job, nargo_execute, bb_prove, vars
  <2> QED
    BY <2>2, <2>3, <2>4, <2>5
<1> QED
  BY <1>1, QueueAlways, PTL DEF Spec, VerdictStands

\* One Prover.toml and one witness file serve every job of a container, so the
\* proof filed for a job may be about another: runTargetProofJob compares the
\* public inputs, and no request goes ahead with a proof of anything but its own.
THEOREM OwnProofsOnly == Spec => []OwnProofOnly
<1>1. Init => OwnProofOnly
  BY DEF Init, Ended, OwnProofOnly
<1>2. TypeOK /\ OwnProofOnly /\ [Next]_vars => OwnProofOnly'
  <2> SUFFICES ASSUME TypeOK, OwnProofOnly, [Next]_vars
               PROVE  OwnProofOnly'
    OBVIOUS
  <2>1. CASE UNCHANGED answer
    BY <2>1 DEF OwnProofOnly
  <2>2. ASSUME NEW r \in Requests, end_request(r)
        PROVE  OwnProofOnly'
    <3>1. verdict(r).end = "proved" => verdict(r).about = r
      BY DEF verdict
    <3>2. Ended("gave up").end # "proved"
      BY DEF Ended
    <3>3. /\ answer'[r] \in {verdict(r), Ended("gave up")}
          /\ \A q \in Requests \ {r} : answer'[q] = answer[q]
      BY <2>2 DEF end_request, TypeOK
    <3> QED
      BY <3>1, <3>2, <3>3 DEF OwnProofOnly
  <2>3. ASSUME NEW h \in Hosts, crash(h)
        PROVE  OwnProofOnly'
    <3>1. Ended("lost").end # "proved"
      BY DEF Ended
    <3>2. \A q \in Requests : answer'[q] \in {answer[q], Ended("lost")}
      BY <2>3 DEF crash
    <3> QED
      BY <3>1, <3>2 DEF OwnProofOnly
  <2>4. \/ UNCHANGED answer
        \/ \E r \in Requests : end_request(r)
        \/ \E h \in Hosts : crash(h)
    BY DEF Next, createProofJob, start_request, TaskStep, select_job, claim_job,
           nargo_execute, bb_prove, complete_job, fail_job, vars
  <2> QED
    BY <2>1, <2>2, <2>3, <2>4
<1>3. Spec => []TypeOK
  BY QueueAlways, PTL DEF QueueInv
<1> QED
  BY <1>1, <1>2, <1>3, PTL DEF Spec
===================================================================================
