------------------------------- MODULE Worker -------------------------------
(***************************************************************************)
(* The background job queue of src/worker/core.go: the rows of the jobs    *)
(* table, the LISTEN/NOTIFY channel job_insert that main.go connects to    *)
(* Kick, and in every server process a mutex around Kick and a fixed       *)
(* array of instances, each of which runs one job in a goroutine.          *)
(*                                                                         *)
(* A kick is split where other goroutines can get in between: taking the   *)
(* mutex and scanning the instances, claiming rows with one UPDATE, and    *)
(* starting the goroutines.  A job's goroutine is split into the job       *)
(* function, the status UPDATE and the closing kick.                       *)
(***************************************************************************)
EXTENDS Naturals, FiniteSets

CONSTANTS
    Servers,    \* server processes, each with its own Serv_name
    Instances,  \* indexes of instance_state (2 for s3_export)
    Jobs,       \* rows that may ever be inserted into jobs
    Users,
    Owner,      \* jobs.user_uid
    BadInput,   \* jobs whose input is not a JSON object
    Faults,     \* the faults that may happen, a subset of FaultKinds
    NoJob,      \* an instance's empty Job_uid
    NoServer    \* an empty locked_by

FaultKinds == {"crash", "claim", "record", "listen"}

ASSUME OwnerAssumption == Owner \in [Jobs -> Users]
ASSUME FaultsAssumption == Faults \subseteq FaultKinds
ASSUME NoJobAssumption == NoJob \notin Jobs
ASSUME NoServerAssumption == NoServer \notin Servers

VARIABLES
    status,     \* jobs.status; "absent" before the INSERT
    lockedBy,   \* jobs.locked_by
    earlier,    \* earlier[j]: jobs with a smaller created_at than j
    mode,       \* a process is down, in Worker.Init, or serving
    listening,  \* its LISTEN connection is up
    inbox,      \* notifications on their way to the listener goroutine
    stage,      \* where the kick that holds kickMutex is
    holder,     \* the goroutine that holds kickMutex
    idle,       \* the kick's empty_instance_indexes
    plan,       \* the kick's claimed jobs, by the instance they will get
    slot,       \* instance_state[i].Job_uid (Is_running iff not NoJob)
    task,       \* the goroutine of run_instance for a job
    runs,       \* history: how often Job_func was started for a job
    lost        \* history: jobs whose bookkeeping a fault cut short

table == <<status, lockedBy, earlier>>
kick == <<stage, holder, idle, plan>>
vars == <<status, lockedBy, earlier, mode, listening, inbox, stage, holder,
          idle, plan, slot, task, runs, lost>>

Active == {"queued", "running"}
Finished == {"succeeded", "failed"}
Nothing == [i \in Instances |-> NoJob]
NoTask == [j \in Jobs |-> "none"]

Queued == {j \in Jobs : status[j] = "queued"}
Planned(p) == {j \in Jobs : \E i \in Instances : p[i] = j}

TypeOK ==
    /\ status \in [Jobs -> {"absent"} \cup Active \cup Finished]
    /\ lockedBy \in [Jobs -> Servers \cup {NoServer}]
    /\ earlier \in [Jobs -> SUBSET Jobs]
    /\ mode \in [Servers -> {"down", "init", "up"}]
    /\ listening \in [Servers -> BOOLEAN]
    /\ inbox \in [Servers -> SUBSET Jobs]
    /\ stage \in [Servers -> {"free", "scanned", "claimed"}]
    /\ holder \in [Servers -> {"none", "init", "listener", "task"}]
    /\ idle \in [Servers -> SUBSET Instances]
    /\ plan \in [Servers -> [Instances -> Jobs \cup {NoJob}]]
    /\ slot \in [Servers -> [Instances -> Jobs \cup {NoJob}]]
    /\ task \in [Servers -> [Jobs -> {"none", "exec", "record", "kick"}]]
    /\ runs \in [Jobs -> Nat]
    /\ lost \in SUBSET Jobs

Init ==
    /\ status = [j \in Jobs |-> "absent"]
    /\ lockedBy = [j \in Jobs |-> NoServer]
    /\ earlier = [j \in Jobs |-> {}]
    /\ mode = [s \in Servers |-> "down"]
    /\ listening = [s \in Servers |-> FALSE]
    /\ inbox = [s \in Servers |-> {}]
    /\ stage = [s \in Servers |-> "free"]
    /\ holder = [s \in Servers |-> "none"]
    /\ idle = [s \in Servers |-> {}]
    /\ plan = [s \in Servers |-> Nothing]
    /\ slot = [s \in Servers |-> Nothing]
    /\ task = [s \in Servers |-> NoTask]
    /\ runs = [j \in Jobs |-> 0]
    /\ lost = {}

-----------------------------------------------------------------------------
(* The table: an INSERT that the partial unique index admits, and the      *)
(* trigger that notifies every process that is listening.                  *)

Insert(j) ==
    /\ status[j] = "absent"
    /\ \A k \in Jobs : Owner[k] = Owner[j] => status[k] \notin Active
    /\ status' = [status EXCEPT ![j] = "queued"]
    /\ earlier' = [earlier EXCEPT ![j] = {k \in Jobs : status[k] # "absent"}]
    /\ inbox' = [s \in Servers |->
                    IF listening[s] THEN inbox[s] \cup {j} ELSE inbox[s]]
    /\ UNCHANGED <<lockedBy, mode, listening, kick, slot, task, runs, lost>>

-----------------------------------------------------------------------------
(* Kick.  TryLock lets one kick in and turns the others away.  Is_running  *)
(* is read without the lock that would order it after run_instance's write *)
(* so a goroutine that has not reached the database yet may still look     *)
(* busy: the scan may miss one instance for each such goroutine.           *)

\* Mutant of Scan: an instance with a running job counts as empty.
ScanBusy(s, who) ==
    IF stage[s] # "free" THEN UNCHANGED kick
    ELSE /\ stage' = [stage EXCEPT ![s] = "scanned"]
         /\ holder' = [holder EXCEPT ![s] = who]
         /\ idle' = [idle EXCEPT ![s] = Instances]
         /\ UNCHANGED plan

Scan(s, who) ==
    IF stage[s] # "free" THEN UNCHANGED kick
    ELSE \E missed \in SUBSET {i \in Instances : slot[s][i] = NoJob} :
            /\ Cardinality(missed)
                 <= Cardinality({j \in Jobs : task[s][j] = "record"})
            /\ stage' = [stage EXCEPT ![s] = "scanned"]
            /\ holder' = [holder EXCEPT ![s] = who]
            /\ idle' = [idle EXCEPT ![s] =
                           {i \in Instances : slot[s][i] = NoJob} \ missed]
            /\ UNCHANGED plan

\* Mutant of Claimable: the UPDATE takes rows that are running.
ClaimableRunning(s, p) ==
    /\ \A i \in Instances :
          p[i] # NoJob => i \in idle[s] /\ status[p[i]] \in Active
    /\ \A i, k \in Instances : p[i] = p[k] /\ p[i] # NoJob => i = k

\* The rows the UPDATE may return for a server: the oldest queued jobs, one
\* for each idle instance as long as there are jobs.
Claimable(s, p) ==
    /\ \A i \in Instances : p[i] # NoJob => i \in idle[s] /\ p[i] \in Queued
    /\ \A i, k \in Instances : p[i] = p[k] /\ p[i] # NoJob => i = k
    /\ \A j \in Planned(p) : Queued \cap earlier[j] \subseteq Planned(p)
    /\ Queued \subseteq Planned(p) \/ \A i \in idle[s] : p[i] # NoJob

\* Mutant of GetJobs: the claim does not say who holds the rows.
GetJobsUnlocked(s) ==
    /\ stage[s] = "scanned"
    /\ \E p \in [Instances -> Jobs \cup {NoJob}] :
        /\ Claimable(s, p)
        /\ status' = [j \in Jobs |->
                        IF j \in Planned(p) THEN "running" ELSE status[j]]
        /\ plan' = [plan EXCEPT ![s] = p]
    /\ stage' = [stage EXCEPT ![s] = "claimed"]
    /\ UNCHANGED <<lockedBy, earlier, mode, listening, inbox, holder, idle, slot,
                   task, runs, lost>>

\* Get_jobs: the claim commits before the inputs are decoded, so one input
\* that does not decode drops the whole batch.
GetJobs(s) ==
    /\ stage[s] = "scanned"
    /\ idle[s] # {}
    /\ \E p \in [Instances -> Jobs \cup {NoJob}] :
        LET bad == Planned(p) \cap BadInput # {} IN
        /\ Claimable(s, p)
        /\ status' = [j \in Jobs |->
                        IF j \in Planned(p) THEN "running" ELSE status[j]]
        /\ lockedBy' = [j \in Jobs |->
                        IF j \in Planned(p) THEN s ELSE lockedBy[j]]
        /\ plan' = [plan EXCEPT ![s] = IF bad THEN Nothing ELSE p]
        /\ lost' = IF bad THEN lost \cup Planned(p) ELSE lost
    /\ stage' = [stage EXCEPT ![s] = "claimed"]
    /\ UNCHANGED <<earlier, mode, listening, inbox, holder, idle, slot, task,
                   runs>>

\* No empty instance, or the UPDATE failed: the kick has nothing to start.
GetNothing(s) ==
    /\ stage[s] = "scanned"
    /\ idle[s] = {} \/ "claim" \in Faults
    /\ stage' = [stage EXCEPT ![s] = "claimed"]
    /\ UNCHANGED <<table, mode, listening, inbox, holder, idle, plan, slot,
                   task, runs, lost>>

\* The rest of Kick: start a goroutine per claimed job and unlock.  When this
\* was the kick of Worker.Init, main goes on to serve requests.
Launch(s) ==
    /\ stage[s] = "claimed"
    /\ slot' = [slot EXCEPT ![s] =
                  [i \in Instances |-> IF plan[s][i] = NoJob THEN slot[s][i]
                                       ELSE plan[s][i]]]
    /\ task' = [task EXCEPT ![s] =
                  [j \in Jobs |-> IF j \in Planned(plan[s]) THEN "exec"
                                  ELSE task[s][j]]]
    /\ runs' = [j \in Jobs |-> IF j \in Planned(plan[s]) THEN runs[j] + 1
                               ELSE runs[j]]
    /\ plan' = [plan EXCEPT ![s] = Nothing]
    /\ stage' = [stage EXCEPT ![s] = "free"]
    /\ holder' = [holder EXCEPT ![s] = "none"]
    /\ idle' = [idle EXCEPT ![s] = {}]
    /\ mode' = IF holder[s] = "init" THEN [mode EXCEPT ![s] = "up"] ELSE mode
    /\ UNCHANGED <<table, listening, inbox, lost>>

-----------------------------------------------------------------------------
(* run_instance: Job_func returns, fails or panics, the instance is given  *)
(* back before the row is written, and only a written row leads to onDone. *)

JobReturns(s, j) ==
    /\ task[s][j] = "exec"
    /\ slot' = [slot EXCEPT ![s] =
                  [i \in Instances |-> IF slot[s][i] = j THEN NoJob
                                       ELSE slot[s][i]]]
    /\ task' = [task EXCEPT ![s][j] = "record"]
    /\ UNCHANGED <<table, mode, listening, inbox, kick, runs, lost>>

\* Mutant of Record: a failed job whose row is not written.
RecordSuccess(s, j) ==
    /\ task[s][j] = "record"
    /\ status' = [status EXCEPT ![j] = "succeeded"] \/ UNCHANGED status
    /\ task' = [task EXCEPT ![s][j] = "kick"]
    /\ UNCHANGED <<lockedBy, earlier, mode, listening, inbox, kick, slot, runs,
                   lost>>

Record(s, j) ==
    /\ task[s][j] = "record"
    /\ \E outcome \in Finished : status' = [status EXCEPT ![j] = outcome]
    /\ lockedBy' = [lockedBy EXCEPT ![j] = NoServer]
    /\ task' = [task EXCEPT ![s][j] = "kick"]
    /\ UNCHANGED <<earlier, mode, listening, inbox, kick, slot, runs, lost>>

RecordFails(s, j) ==
    /\ "record" \in Faults
    /\ task[s][j] = "record"
    /\ task' = [task EXCEPT ![s][j] = "none"]
    /\ lost' = lost \cup {j}
    /\ UNCHANGED <<table, mode, listening, inbox, kick, slot, runs>>

OnDone(s, j) ==
    /\ task[s][j] = "kick"
    /\ task' = [task EXCEPT ![s][j] = "none"]
    /\ Scan(s, "task")
    /\ UNCHANGED <<table, mode, listening, inbox, slot, runs, lost>>

-----------------------------------------------------------------------------
(* The process: Worker.Init releases the rows this Serv_name had locked,   *)
(* leaves their status alone and kicks; main then starts the listener.     *)

WorkerInit(s) ==
    /\ mode[s] = "down"
    /\ lockedBy' = [j \in Jobs |->
                      IF lockedBy[j] = s THEN NoServer ELSE lockedBy[j]]
    /\ mode' = [mode EXCEPT ![s] = "init"]
    /\ Scan(s, "init")
    /\ UNCHANGED <<status, earlier, listening, inbox, slot, task, runs, lost>>

Listen(s) ==
    /\ mode[s] = "up"
    /\ ~listening[s]
    /\ listening' = [listening EXCEPT ![s] = TRUE]
    /\ UNCHANGED <<table, mode, inbox, kick, slot, task, runs, lost>>

\* Mutant of Notified: the listener takes a notification for pq's nil.
NotifiedNil(s, j) ==
    /\ j \in inbox[s]
    /\ holder[s] # "listener"
    /\ inbox' = [inbox EXCEPT ![s] = @ \ {j}]
    /\ UNCHANGED <<table, mode, listening, kick, slot, task, runs, lost>>

\* The listener goroutine runs the callback itself, one at a time.
Notified(s, j) ==
    /\ j \in inbox[s]
    /\ holder[s] # "listener"
    /\ inbox' = [inbox EXCEPT ![s] = @ \ {j}]
    /\ Scan(s, "listener")
    /\ UNCHANGED <<table, mode, listening, slot, task, runs, lost>>

\* pq reconnects by itself; what was sent meanwhile is gone and the nil it
\* delivers after a reconnect is ignored.
ConnectionLost(s) ==
    /\ "listen" \in Faults
    /\ listening[s]
    /\ listening' = [listening EXCEPT ![s] = FALSE]
    /\ inbox' = [inbox EXCEPT ![s] = {}]
    /\ UNCHANGED <<table, mode, kick, slot, task, runs, lost>>

\* The process dies: its memory is gone, its rows stay as they are.
Crash(s) ==
    /\ "crash" \in Faults
    /\ mode[s] # "down"
    /\ mode' = [mode EXCEPT ![s] = "down"]
    /\ listening' = [listening EXCEPT ![s] = FALSE]
    /\ inbox' = [inbox EXCEPT ![s] = {}]
    /\ stage' = [stage EXCEPT ![s] = "free"]
    /\ holder' = [holder EXCEPT ![s] = "none"]
    /\ idle' = [idle EXCEPT ![s] = {}]
    /\ plan' = [plan EXCEPT ![s] = Nothing]
    /\ slot' = [slot EXCEPT ![s] = Nothing]
    /\ task' = [task EXCEPT ![s] = NoTask]
    /\ lost' = lost \cup {j \in Jobs : \/ j \in Planned(plan[s])
                                       \/ task[s][j] \in {"exec", "record"}}
    /\ UNCHANGED <<table, runs>>

-----------------------------------------------------------------------------

Server(s) ==
    \/ WorkerInit(s) \/ Listen(s)
    \/ GetJobs(s) \/ GetNothing(s) \/ Launch(s)
    \/ \E j \in Jobs : \/ JobReturns(s, j) \/ Record(s, j) \/ OnDone(s, j)
                       \/ Notified(s, j)

Fault(s) ==
    \/ ConnectionLost(s) \/ Crash(s)
    \/ \E j \in Jobs : RecordFails(s, j)

Next ==
    \/ \E j \in Jobs : Insert(j)
    \/ \E s \in Servers : Server(s) \/ Fault(s)

Spec == Init /\ [][Next]_vars

\* Goroutines are scheduled, the database answers and an export ends; nobody
\* has to insert a job.
Fairness ==
    \A s \in Servers :
        /\ WF_vars(WorkerInit(s)) /\ WF_vars(Listen(s))
        /\ WF_vars(GetJobs(s)) /\ WF_vars(GetNothing(s)) /\ WF_vars(Launch(s))
        /\ \A j \in Jobs : /\ WF_vars(JobReturns(s, j)) /\ WF_vars(Record(s, j))
                           /\ WF_vars(OnDone(s, j)) /\ WF_vars(Notified(s, j))

FairSpec == Spec /\ Fairness

-----------------------------------------------------------------------------
(* Properties.                                                             *)

\* The job function of a row is started at most once, whichever processes
\* compete for it and however often they restart ("FOR UPDATE SKIP LOCKED
\* prevents duplicate job processing").
AtMostOnce == \A j \in Jobs : runs[j] <= 1

\* Every goroutine inside Job_func has an instance to itself: the kicks that
\* notifications and finished jobs trigger at the same time never start two
\* jobs on one instance, nor more jobs than there are instances.
OwnInstance ==
    \A s \in Servers, j \in Jobs :
        task[s][j] = "exec" => \E i \in Instances : slot[s][i] = j

\* A row that says running is being worked on by the process it names, unless
\* a crash, a failed UPDATE or an undecodable batch cut its bookkeeping short.
RunningIsWorkedOn ==
    \A j \in Jobs : status[j] = "running" /\ j \notin lost =>
        \E s \in Servers : /\ lockedBy[j] = s
                           /\ \/ j \in Planned(plan[s])
                              \/ task[s][j] \in {"exec", "record"}

\* A finished row is never touched again: a late UPDATE, a restart or another
\* process cannot bring an exported job back.
FinishedStays ==
    [][\A j \in Jobs : status[j] \in Finished => status'[j] = status[j]]_vars

\* What a row is to JobQueue.
Stage(j) ==
    IF status[j] \in Finished THEN "finished"
    ELSE IF status[j] # "running" THEN status[j]
    ELSE IF \E s \in Servers : j \in Planned(plan[s]) THEN "held"
    ELSE IF \E s \in Servers : task[s][j] \in {"exec", "record"} THEN "working"
    ELSE "adrift"

Abstract == INSTANCE JobQueue WITH
    state <- [j \in Jobs |-> Stage(j)],
    by <- lockedBy

\* The processes, however they compete, crash and restart, run the queue as
\* JobQueue says: a row is claimed by one of them, started once and by that one.
\* A row whose process loses it is never run, and keeps its user's slot.
ImplementsJobQueue == Abstract!Spec

\* Without faults a claimed job ends as succeeded or failed, which is what
\* frees its user to queue the next export.
ClaimedEnds ==
    \A j \in Jobs : status[j] = "running" ~> status[j] \in Finished

\* A notification that reaches a process with no kick and no job in progress
\* gets its job claimed, when the instances suffice for what is queued.
Quiet(s) ==
    /\ stage[s] = "free"
    /\ \A j \in Jobs : task[s][j] = "none"
    /\ Cardinality(Queued) <= Cardinality(Instances)
QuietPickup ==
    \A s \in Servers, j \in Jobs :
        (j \in inbox[s] /\ j \in Queued /\ Quiet(s)) ~> j \notin Queued
=============================================================================
