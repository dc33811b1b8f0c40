---------------------------- MODULE Worker_proofs ----------------------------
(***************************************************************************)
(* Proofs about the job queue, for any number of processes, instances and  *)
(* jobs and every combination of faults.                                   *)
(***************************************************************************)
EXTENDS Worker, TLAPS

\* A job in a kick's hands is a claimed row that was never run, and only one
\* process holds it.
PlanInv ==
    /\ \A s \in Servers, j \in Jobs :
          j \in Planned(plan[s]) => status[j] = "running" /\ runs[j] = 0
    /\ \A s, t \in Servers, j \in Jobs :
          j \in Planned(plan[s]) /\ j \in Planned(plan[t]) => s = t

\* A job with a goroutine was started exactly once, by that goroutine.
TaskInv ==
    /\ \A s \in Servers, j \in Jobs :
          task[s][j] # "none" => runs[j] = 1 /\ status[j] \in Finished \cup {"running"}
    /\ \A s \in Servers, j \in Jobs :
          task[s][j] \in {"exec", "record"} => status[j] = "running"
    /\ \A s, t \in Servers, j \in Jobs :
          task[s][j] \in {"exec", "record"} /\ task[t][j] \in {"exec", "record"}
             => s = t

\* A row nobody claimed was never run.
RunsInv ==
    \A j \in Jobs : /\ runs[j] <= 1
                    /\ status[j] \in {"absent", "queued"} => runs[j] = 0

\* The kick that holds the mutex is the only one with a plan, and it plans
\* for instances that stay empty until it starts their jobs.
KickInv ==
    \A s \in Servers :
        /\ stage[s] # "claimed" => plan[s] = Nothing
        /\ mode[s] = "down" => /\ stage[s] = "free" /\ task[s] = NoTask
                            /\ ~listening[s] /\ inbox[s] = {}
        /\ \A i \in Instances :
              /\ plan[s][i] # NoJob => i \in idle[s]
              /\ i \in idle[s] => slot[s][i] = NoJob

IInv ==
    /\ TypeOK
    /\ PlanInv
    /\ TaskInv
    /\ RunsInv
    /\ KickInv
    /\ OwnInstance
    /\ RunningIsWorkedOn

-----------------------------------------------------------------------------

LEMMA PlannedNothing == Planned(Nothing) = {}
BY NoJobAssumption DEF Planned, Nothing

LEMMA InitTypeOK == Init => TypeOK
BY DEF Init, TypeOK, Nothing, NoTask, Active, Finished

LEMMA InitIInv == Init => IInv
<1> SUFFICES ASSUME Init PROVE IInv
  OBVIOUS
<1>1. TypeOK
  BY InitTypeOK
<1>2. \A s \in Servers : Planned(plan[s]) = {}
  BY PlannedNothing DEF Init
<1>3. PlanInv
  BY <1>2 DEF PlanInv
<1>4. TaskInv
  BY DEF Init, TaskInv, NoTask
<1>5. RunsInv
  BY DEF Init, RunsInv
<1>6. KickInv
  BY DEF Init, KickInv, Nothing
<1>7. OwnInstance
  BY DEF Init, OwnInstance, NoTask
<1>8. RunningIsWorkedOn
  BY DEF Init, RunningIsWorkedOn
<1> QED
  BY <1>1, <1>3, <1>4, <1>5, <1>6, <1>7, <1>8 DEF IInv

\* What a kick's scan may do to the kick variables of its server.
LEMMA ScanEffect ==
  ASSUME TypeOK, KickInv, NEW s \in Servers,
         NEW who \in {"init", "listener", "task"}, Scan(s, who)
  PROVE  /\ stage' \in [Servers -> {"free", "scanned", "claimed"}]
         /\ holder' \in [Servers -> {"none", "init", "listener", "task"}]
         /\ idle' \in [Servers -> SUBSET Instances]
         /\ plan' = plan
         /\ \A t \in Servers :
              /\ stage'[t] # "claimed" => plan[t] = Nothing
              /\ \A i \in Instances :
                    /\ plan[t][i] # NoJob => i \in idle'[t]
                    /\ i \in idle'[t] => slot[t][i] = NoJob
<1>1. CASE stage[s] # "free"
  BY <1>1 DEF Scan, kick, TypeOK, KickInv
<1>2. CASE stage[s] = "free"
  <2>1. PICK missed \in SUBSET {i \in Instances : slot[s][i] = NoJob} :
            /\ stage' = [stage EXCEPT ![s] = "scanned"]
            /\ holder' = [holder EXCEPT ![s] = who]
            /\ idle' = [idle EXCEPT ![s] =
                           {i \in Instances : slot[s][i] = NoJob} \ missed]
            /\ UNCHANGED plan
    BY <1>2 DEF Scan
  <2>2. plan[s] = Nothing
    BY <1>2 DEF KickInv
  <2>3. \A i \in Instances : plan[s][i] = NoJob
    BY <2>2 DEF Nothing
  <2> QED
    BY <2>1, <2>2, <2>3 DEF TypeOK, KickInv
<1> QED
  BY <1>1, <1>2

-----------------------------------------------------------------------------
(* One lemma for each action that disturbs the invariant.                  *)

LEMMA InsertIInv ==
  ASSUME IInv, NEW n \in Jobs, Insert(n)
  PROVE  IInv'
<1> USE DEF IInv
<1>1. /\ status' = [status EXCEPT ![n] = "queued"]
      /\ status[n] = "absent"
      /\ UNCHANGED <<lockedBy, mode, listening, stage, holder, idle, plan, slot,
                     task, runs, lost>>
  BY DEF Insert, kick
<1>2. \A p : Planned(p)' = Planned(p)
  BY DEF Planned
<1>3. TypeOK'
  BY DEF Insert, kick, TypeOK, Active
<1>4. PlanInv'
  BY <1>1, <1>2 DEF PlanInv, TypeOK
<1>5. TaskInv'
  BY <1>1 DEF TaskInv, TypeOK, Finished
<1>6. RunsInv'
  BY <1>1 DEF RunsInv, TypeOK
<1>7. KickInv'
  <2>1. \A t \in Servers : ~listening[t] => inbox'[t] = inbox[t]
    BY DEF Insert, TypeOK
  <2> QED
    BY <1>1, <2>1 DEF KickInv, Nothing, NoTask
<1>8. OwnInstance'
  BY <1>1 DEF OwnInstance
<1>9. RunningIsWorkedOn'
  BY <1>1, <1>2 DEF RunningIsWorkedOn, TypeOK
<1> QED
  BY <1>3, <1>4, <1>5, <1>6, <1>7, <1>8, <1>9

LEMMA GetJobsIInv ==
  ASSUME IInv, NEW s \in Servers, GetJobs(s)
  PROVE  IInv'
<1> USE DEF IInv
<1>1. PICK p \in [Instances -> Jobs \cup {NoJob}] :
         /\ Claimable(s, p)
         /\ status' = [j \in Jobs |->
                         IF j \in Planned(p) THEN "running" ELSE status[j]]
         /\ lockedBy' = [j \in Jobs |->
                         IF j \in Planned(p) THEN s ELSE lockedBy[j]]
         /\ \/ /\ plan' = [plan EXCEPT ![s] = Nothing]
               /\ lost' = lost \cup Planned(p)
            \/ /\ plan' = [plan EXCEPT ![s] = p]
               /\ lost' = lost
  BY DEF GetJobs
<1>2. /\ stage' = [stage EXCEPT ![s] = "claimed"]
      /\ UNCHANGED <<earlier, mode, listening, inbox, holder, idle, slot, task, runs>>
      /\ stage[s] = "scanned"
  BY DEF GetJobs
<1>3. \A j \in Jobs : j \in Planned(p) => status[j] = "queued" /\ runs[j] = 0
  BY <1>1, NoJobAssumption DEF Claimable, Planned, Queued, RunsInv
<1>4. /\ plan[s] = Nothing
      /\ mode[s] # "down"
      /\ plan' \in [Servers -> [Instances -> Jobs \cup {NoJob}]]
      /\ \A t \in Servers : t # s => plan'[t] = plan[t]
      /\ \/ plan'[s] = Nothing /\ lost' = lost \cup Planned(p)
         \/ plan'[s] = p /\ lost' = lost
  <2>1. plan[s] = Nothing /\ mode[s] # "down"
    BY <1>2 DEF KickInv
  <2>2. plan \in [Servers -> [Instances -> Jobs \cup {NoJob}]]
    BY DEF TypeOK
  <2>3. Nothing \in [Instances -> Jobs \cup {NoJob}]
    BY DEF Nothing
  <2>4. CASE plan' = [plan EXCEPT ![s] = Nothing] /\ lost' = lost \cup Planned(p)
    BY <2>1, <2>2, <2>3, <2>4
  <2>5. CASE plan' = [plan EXCEPT ![s] = p] /\ lost' = lost
    BY <2>1, <2>2, <2>5
  <2> QED
    BY <1>1, <2>4, <2>5
<1>5. \A t \in Servers, j \in Jobs :
         j \in Planned(plan'[t]) => \/ j \in Planned(plan[t]) /\ t # s
                                    \/ j \in Planned(p) /\ t = s
  BY <1>4, PlannedNothing
<1>6. TypeOK'
  <2>1. Planned(p) \subseteq Jobs
    BY DEF Planned
  <2> QED
    BY <1>1, <1>2, <1>4, <2>1 DEF TypeOK, Active
<1>7. PlanInv'
  <2>1. ASSUME NEW t \in Servers, NEW j \in Jobs, j \in Planned(plan'[t])
        PROVE  status'[j] = "running" /\ runs'[j] = 0
    BY <1>1, <1>2, <1>3, <1>5, <2>1 DEF PlanInv
  <2>2. ASSUME NEW t \in Servers, NEW u \in Servers, NEW j \in Jobs,
               j \in Planned(plan'[t]), j \in Planned(plan'[u])
        PROVE  t = u
    <3>1. j \in Planned(p) => \A v \in Servers : j \notin Planned(plan[v])
      BY <1>3 DEF PlanInv
    <3> QED
      BY <1>5, <2>2, <3>1 DEF PlanInv
  <2>3. \A t \in Servers : Planned(plan[t])' = Planned(plan'[t])
    BY DEF Planned
  <2> QED
    BY <2>1, <2>2, <2>3 DEF PlanInv
<1>8. TaskInv'
  BY <1>1, <1>2, <1>3 DEF TaskInv
<1>9. RunsInv'
  BY <1>1, <1>2, <1>3 DEF RunsInv
<1>10. KickInv'
  <2>1. \A i \in Instances : p[i] # NoJob => i \in idle[s]
    BY <1>1 DEF Claimable
  <2>2. \A i \in Instances : Nothing[i] = NoJob
    BY DEF Nothing
  <2>3. ASSUME NEW t \in Servers
        PROVE  /\ stage'[t] # "claimed" => plan'[t] = Nothing
               /\ mode'[t] = "down" => /\ stage'[t] = "free" /\ task'[t] = NoTask
                                       /\ ~listening'[t] /\ inbox'[t] = {}
    BY <1>2, <1>4 DEF KickInv, TypeOK
  <2>4. ASSUME NEW t \in Servers, NEW i \in Instances
        PROVE  /\ plan'[t][i] # NoJob => i \in idle'[t]
               /\ i \in idle'[t] => slot'[t][i] = NoJob
    BY <1>2, <1>4, <2>1, <2>2 DEF KickInv
  <2> QED
    BY <2>3, <2>4 DEF KickInv, Nothing, NoTask
<1>11. OwnInstance'
  BY <1>2 DEF OwnInstance
<1>12. RunningIsWorkedOn'
  <2> SUFFICES ASSUME NEW j \in Jobs, status'[j] = "running", j \notin lost'
               PROVE  \E t \in Servers : /\ lockedBy'[j] = t
                                         /\ \/ j \in Planned(plan'[t])
                                            \/ task'[t][j] \in {"exec", "record"}
    BY DEF RunningIsWorkedOn, Planned
  <2>1. CASE j \in Planned(p)
    BY <1>1, <1>4, <2>1
  <2>2. CASE j \notin Planned(p)
    <3>1. status[j] = "running" /\ j \notin lost /\ lockedBy'[j] = lockedBy[j]
      BY <1>1, <1>4, <2>2
    <3>2. PICK t \in Servers : /\ lockedBy[j] = t
                               /\ \/ j \in Planned(plan[t])
                                  \/ task[t][j] \in {"exec", "record"}
      BY <3>1 DEF RunningIsWorkedOn
    <3>3. j \in Planned(plan[t]) => t # s
      BY <1>4, PlannedNothing
    <3> QED
      BY <1>2, <1>4, <3>1, <3>2, <3>3
  <2> QED
    BY <2>1, <2>2
<1> QED
  BY <1>6, <1>7, <1>8, <1>9, <1>10, <1>11, <1>12

LEMMA GetNothingIInv ==
  ASSUME IInv, NEW s \in Servers, GetNothing(s)
  PROVE  IInv'
<1> USE DEF IInv
<1>1. /\ stage' = [stage EXCEPT ![s] = "claimed"]
      /\ stage[s] = "scanned"
      /\ UNCHANGED <<status, lockedBy, earlier, mode, listening, inbox, holder,
                     idle, plan, slot, task, runs, lost>>
  BY DEF GetNothing, table
<1>2. \A p : Planned(p)' = Planned(p)
  BY DEF Planned
<1>3. TypeOK'
  BY <1>1 DEF TypeOK
<1>4. PlanInv' /\ TaskInv' /\ RunsInv' /\ OwnInstance' /\ RunningIsWorkedOn'
  BY <1>1, <1>2 DEF PlanInv, TaskInv, RunsInv, OwnInstance, RunningIsWorkedOn
<1>5. KickInv'
  BY <1>1 DEF KickInv, TypeOK, Nothing, NoTask
<1> QED
  BY <1>3, <1>4, <1>5

LEMMA LaunchIInv ==
  ASSUME IInv, NEW s \in Servers, Launch(s)
  PROVE  IInv'
<1> USE DEF IInv
<1>1. /\ slot' = [slot EXCEPT ![s] =
                    [i \in Instances |-> IF plan[s][i] = NoJob THEN slot[s][i]
                                         ELSE plan[s][i]]]
      /\ task' = [task EXCEPT ![s] =
                    [j \in Jobs |-> IF j \in Planned(plan[s]) THEN "exec"
                                    ELSE task[s][j]]]
      /\ runs' = [j \in Jobs |-> IF j \in Planned(plan[s]) THEN runs[j] + 1
                                 ELSE runs[j]]
      /\ plan' = [plan EXCEPT ![s] = Nothing]
      /\ stage' = [stage EXCEPT ![s] = "free"]
      /\ holder' = [holder EXCEPT ![s] = "none"]
      /\ idle' = [idle EXCEPT ![s] = {}]
      /\ mode' = IF holder[s] = "init" THEN [mode EXCEPT ![s] = "up"] ELSE mode
      /\ stage[s] = "claimed"
      /\ UNCHANGED <<status, lockedBy, earlier, listening, inbox, lost>>
  BY DEF Launch, table
<1>2. Nothing \in [Instances -> Jobs \cup {NoJob}]
  BY DEF Nothing
<1>3. \A t \in Servers, j \in Jobs :
         j \in Planned(plan'[t]) => t # s /\ j \in Planned(plan[t])
  BY <1>1, PlannedNothing DEF TypeOK
<1>4. \A t \in Servers : Planned(plan[t])' = Planned(plan'[t])
  BY DEF Planned
<1>5. \A t \in Servers, j \in Jobs :
         task'[t][j] = IF t = s /\ j \in Planned(plan[s]) THEN "exec"
                       ELSE task[t][j]
  BY <1>1 DEF TypeOK
<1>6. \A j \in Jobs : j \in Planned(plan[s]) =>
         /\ status[j] = "running" /\ runs[j] = 0 /\ runs'[j] = 1
         /\ \A t \in Servers : task[t][j] = "none"
  <2>1. ASSUME NEW j \in Jobs, j \in Planned(plan[s])
        PROVE  status[j] = "running" /\ runs[j] = 0
    BY <2>1 DEF PlanInv
  <2>2. ASSUME NEW j \in Jobs, j \in Planned(plan[s]), NEW t \in Servers
        PROVE  task[t][j] = "none"
    BY <2>1, <2>2 DEF TaskInv
  <2> QED
    BY <1>1, <2>1, <2>2
<1>7. TypeOK'
  <2>1. runs' \in [Jobs -> Nat]
    BY <1>1 DEF TypeOK
  <2>2. slot' \in [Servers -> [Instances -> Jobs \cup {NoJob}]]
    BY <1>1 DEF TypeOK
  <2>3. task' \in [Servers -> [Jobs -> {"none", "exec", "record", "kick"}]]
    BY <1>1 DEF TypeOK
  <2>4. plan' \in [Servers -> [Instances -> Jobs \cup {NoJob}]]
    BY <1>1, <1>2 DEF TypeOK
  <2> QED
    BY <1>1, <2>1, <2>2, <2>3, <2>4 DEF TypeOK
<1>8. PlanInv'
  <2>1. ASSUME NEW t \in Servers, NEW j \in Jobs, j \in Planned(plan'[t])
        PROVE  status'[j] = "running" /\ runs'[j] = 0
    <3>1. t # s /\ j \in Planned(plan[t])
      BY <1>3, <2>1
    <3>2. j \notin Planned(plan[s])
      BY <3>1 DEF PlanInv
    <3> QED
      BY <1>1, <3>1, <3>2 DEF PlanInv
  <2>2. \A t, u \in Servers, j \in Jobs :
           j \in Planned(plan'[t]) /\ j \in Planned(plan'[u]) => t = u
    BY <1>3 DEF PlanInv
  <2> QED
    BY <1>4, <2>1, <2>2 DEF PlanInv
<1>9. TaskInv'
  <2>1. ASSUME NEW t \in Servers, NEW j \in Jobs, task'[t][j] # "none"
        PROVE  runs'[j] = 1 /\ status'[j] \in Finished \cup {"running"}
    <3>1. CASE j \in Planned(plan[s])
      BY <1>1, <1>6, <3>1
    <3>2. CASE j \notin Planned(plan[s])
      BY <1>1, <1>5, <2>1, <3>2 DEF TaskInv
    <3> QED
      BY <3>1, <3>2
  <2>2. ASSUME NEW t \in Servers, NEW j \in Jobs,
               task'[t][j] \in {"exec", "record"}
        PROVE  status'[j] = "running"
    BY <1>1, <1>5, <1>6, <2>2 DEF TaskInv
  <2>3. ASSUME NEW t \in Servers, NEW u \in Servers, NEW j \in Jobs,
               task'[t][j] \in {"exec", "record"},
               task'[u][j] \in {"exec", "record"}
        PROVE  t = u
    BY <1>5, <1>6, <2>3 DEF TaskInv
  <2> QED
    BY <2>1, <2>2, <2>3 DEF TaskInv
<1>10. RunsInv'
  BY <1>1, <1>6 DEF RunsInv
<1>11. KickInv'
  <2>1. \A i \in Instances : Nothing[i] = NoJob
    BY DEF Nothing
  <2>2. ASSUME NEW t \in Servers
        PROVE  /\ stage'[t] # "claimed" => plan'[t] = Nothing
               /\ mode'[t] = "down" => /\ stage'[t] = "free" /\ task'[t] = NoTask
                                       /\ ~listening'[t] /\ inbox'[t] = {}
    BY <1>1 DEF KickInv, TypeOK
  <2>3. ASSUME NEW t \in Servers, NEW i \in Instances
        PROVE  /\ plan'[t][i] # NoJob => i \in idle'[t]
               /\ i \in idle'[t] => slot'[t][i] = NoJob
    BY <1>1, <2>1 DEF KickInv, TypeOK
  <2> QED
    BY <2>2, <2>3 DEF KickInv, Nothing, NoTask
<1>12. OwnInstance'
  <2> SUFFICES ASSUME NEW t \in Servers, NEW j \in Jobs, task'[t][j] = "exec"
               PROVE  \E i \in Instances : slot'[t][i] = j
    BY DEF OwnInstance
  <2>1. CASE t = s /\ j \in Planned(plan[s])
    BY <1>1, <2>1, NoJobAssumption DEF Planned, TypeOK
  <2>2. CASE ~(t = s /\ j \in Planned(plan[s]))
    <3>1. PICK i \in Instances : slot[t][i] = j
      BY <1>5, <2>2 DEF OwnInstance
    <3>2. t = s => plan[s][i] = NoJob
      BY <3>1, NoJobAssumption DEF KickInv
    <3> QED
      BY <1>1, <3>1, <3>2 DEF TypeOK
  <2> QED
    BY <2>1, <2>2
<1>13. RunningIsWorkedOn'
  <2> SUFFICES ASSUME NEW j \in Jobs, status'[j] = "running", j \notin lost'
               PROVE  \E t \in Servers : /\ lockedBy'[j] = t
                                         /\ \/ j \in Planned(plan'[t])
                                            \/ task'[t][j] \in {"exec", "record"}
    BY <1>4 DEF RunningIsWorkedOn
  <2>1. PICK t \in Servers : /\ lockedBy[j] = t
                             /\ \/ j \in Planned(plan[t])
                                \/ task[t][j] \in {"exec", "record"}
    BY <1>1 DEF RunningIsWorkedOn
  <2>2. t # s => plan'[t] = plan[t]
    BY <1>1 DEF TypeOK
  <2> QED
    BY <1>1, <1>5, <2>1, <2>2
<1> QED
  BY <1>7, <1>8, <1>9, <1>10, <1>11, <1>12, <1>13

\* A job's goroutine loses its instance, its row or itself: what the steps of
\* run_instance have in common.
LEMMA TaskStepIInv ==
  ASSUME IInv, NEW s \in Servers, NEW n \in Jobs,
         NEW to \in {"none", "record", "kick"},
         NEW outcome \in Finished \cup {"running"},
         task[s][n] \in {"exec", "record"},
         task' = [task EXCEPT ![s][n] = to],
         status' = [status EXCEPT ![n] = outcome],
         outcome = "running" => lockedBy' = lockedBy,
         outcome # "running" => /\ lockedBy' = [lockedBy EXCEPT ![n] = NoServer]
                                /\ to = "kick",
         outcome = "running" /\ to # "record" => n \in lost',
         lost' \in SUBSET Jobs, lost \subseteq lost',
         to = "record" => slot' = [slot EXCEPT ![s] =
                  [i \in Instances |-> IF slot[s][i] = n THEN NoJob
                                       ELSE slot[s][i]]],
         to # "record" => slot' = slot,
         to = "kick" => outcome # "running",
         task[s][n] = "exec" => to = "record",
         UNCHANGED <<earlier, mode, listening, inbox, stage, holder, idle, plan,
                     runs>>
  PROVE  IInv'
<1> USE DEF IInv
<1>1. \A t \in Servers, j \in Jobs :
         task'[t][j] = IF t = s /\ j = n THEN to ELSE task[t][j]
  BY DEF TypeOK
<1>2. status[n] = "running" /\ runs[n] = 1
  BY DEF TaskInv
<1>3. \A j \in Jobs : status'[j] = IF j = n THEN outcome ELSE status[j]
  BY DEF TypeOK
<1>4. \A t \in Servers : n \notin Planned(plan[t])
  BY <1>2 DEF PlanInv
<1>5. \A p : Planned(p)' = Planned(p)
  BY DEF Planned
<1> DEFINE Freed == [i \in Instances |-> IF slot[s][i] = n THEN NoJob
                                         ELSE slot[s][i]]
<1>0. /\ slot' \in [Servers -> [Instances -> Jobs \cup {NoJob}]]
      /\ \A t \in Servers, i \in Instances :
            \/ slot'[t][i] = slot[t][i]
            \/ t = s /\ slot[t][i] = n /\ slot'[t][i] = NoJob
  <2>1. slot \in [Servers -> [Instances -> Jobs \cup {NoJob}]]
    BY DEF TypeOK
  <2>2. CASE to = "record"
    <3>1. slot' = [slot EXCEPT ![s] = Freed]
      BY <2>2
    <3>2. Freed \in [Instances -> Jobs \cup {NoJob}]
      BY <2>1
    <3>3. \A i \in Instances : Freed[i] = IF slot[s][i] = n THEN NoJob ELSE slot[s][i]
      OBVIOUS
    <3> HIDE DEF Freed
    <3> QED
      BY <2>1, <3>1, <3>2, <3>3
  <2>3. CASE to # "record"
    BY <2>1, <2>3
  <2> QED
    BY <2>2, <2>3
<1> HIDE DEF Freed
<1>6. TypeOK'
  BY <1>0 DEF TypeOK, Active, Finished
<1>7. PlanInv'
  BY <1>3, <1>4, <1>5 DEF PlanInv
<1>8. TaskInv'
  <2>1. ASSUME NEW t \in Servers, NEW j \in Jobs, task'[t][j] # "none"
        PROVE  runs'[j] = 1 /\ status'[j] \in Finished \cup {"running"}
    BY <1>1, <1>2, <1>3, <2>1 DEF TaskInv
  <2>2. ASSUME NEW t \in Servers, NEW j \in Jobs,
               task'[t][j] \in {"exec", "record"}
        PROVE  status'[j] = "running"
    <3>1. task[t][j] \in {"exec", "record"}
      BY <1>1, <2>2
    <3>2. j # n => status'[j] = "running"
      BY <1>3, <3>1 DEF TaskInv
    <3>3. j = n => t = s /\ to = "record"
      BY <1>1, <2>2, <3>1 DEF TaskInv
    <3> QED
      BY <1>3, <3>2, <3>3
  <2>3. ASSUME NEW t \in Servers, NEW u \in Servers, NEW j \in Jobs,
               task'[t][j] \in {"exec", "record"},
               task'[u][j] \in {"exec", "record"}
        PROVE  t = u
    BY <1>1, <2>3 DEF TaskInv
  <2> QED
    BY <2>1, <2>2, <2>3 DEF TaskInv
<1>9. RunsInv'
  BY <1>3, <1>2 DEF RunsInv, Finished
<1>10. KickInv'
  <2>1. \A t \in Servers, i \in Instances : slot[t][i] = NoJob => slot'[t][i] = NoJob
    BY <1>0
  <2>2. mode[s] # "down"
    BY DEF KickInv, NoTask
  <2>3. ASSUME NEW t \in Servers
        PROVE  /\ stage'[t] # "claimed" => plan'[t] = Nothing
               /\ mode'[t] = "down" => /\ stage'[t] = "free" /\ task'[t] = NoTask
                                       /\ ~listening'[t] /\ inbox'[t] = {}
    BY <2>2 DEF KickInv, TypeOK
  <2>4. ASSUME NEW t \in Servers, NEW i \in Instances
        PROVE  /\ plan'[t][i] # NoJob => i \in idle'[t]
               /\ i \in idle'[t] => slot'[t][i] = NoJob
    BY <2>1 DEF KickInv
  <2> QED
    BY <2>3, <2>4 DEF KickInv, Nothing, NoTask
<1>11. OwnInstance'
  <2> SUFFICES ASSUME NEW t \in Servers, NEW j \in Jobs, task'[t][j] = "exec"
               PROVE  \E i \in Instances : slot'[t][i] = j
    BY DEF OwnInstance
  <2>1. task[t][j] = "exec" /\ (t # s \/ j # n)
    BY <1>1
  <2>2. PICK i \in Instances : slot[t][i] = j
    BY <2>1 DEF OwnInstance
  <2> QED
    BY <1>0, <2>1, <2>2
<1>12. RunningIsWorkedOn'
  <2> SUFFICES ASSUME NEW j \in Jobs, status'[j] = "running", j \notin lost'
               PROVE  \E t \in Servers : /\ lockedBy'[j] = t
                                         /\ \/ j \in Planned(plan[t])
                                            \/ task'[t][j] \in {"exec", "record"}
    BY <1>5 DEF RunningIsWorkedOn
  <2>1. status[j] = "running" /\ lockedBy'[j] = lockedBy[j] /\ j \notin lost
    BY <1>2, <1>3 DEF TypeOK, Finished
  <2>2. PICK t \in Servers : /\ lockedBy[j] = t
                             /\ \/ j \in Planned(plan[t])
                                \/ task[t][j] \in {"exec", "record"}
    BY <2>1 DEF RunningIsWorkedOn
  <2>3. t = s /\ j = n => to = "record"
    BY <1>3
  <2> QED
    BY <1>1, <2>1, <2>2, <2>3
<1> QED
  BY <1>6, <1>7, <1>8, <1>9, <1>10, <1>11, <1>12

LEMMA RunInstanceIInv ==
  ASSUME IInv, NEW s \in Servers, NEW n \in Jobs,
         JobReturns(s, n) \/ Record(s, n) \/ RecordFails(s, n)
  PROVE  IInv'
<1> USE DEF IInv
<1>1. task[s][n] \in {"exec", "record"} => status[n] = "running"
  BY DEF TaskInv
<1>2. status[n] = "running" => status = [status EXCEPT ![n] = "running"]
  BY DEF TypeOK
<1>3. CASE JobReturns(s, n)
  <2>1. /\ task[s][n] = "exec"
        /\ task' = [task EXCEPT ![s][n] = "record"]
        /\ slot' = [slot EXCEPT ![s] =
                  [i \in Instances |-> IF slot[s][i] = n THEN NoJob
                                       ELSE slot[s][i]]]
        /\ UNCHANGED <<status, lockedBy, earlier, mode, listening, inbox, stage,
                       holder, idle, plan, runs, lost>>
    BY <1>3 DEF JobReturns, table, kick
  <2>2. lost' \in SUBSET Jobs
    BY <2>1 DEF TypeOK
  <2> QED
    BY <1>1, <1>2, <2>1, <2>2, TaskStepIInv
<1>4. CASE Record(s, n)
  <2>1. PICK outcome \in Finished : status' = [status EXCEPT ![n] = outcome]
    BY <1>4 DEF Record
  <2>2. /\ task[s][n] = "record"
        /\ lockedBy' = [lockedBy EXCEPT ![n] = NoServer]
        /\ task' = [task EXCEPT ![s][n] = "kick"]
        /\ UNCHANGED <<earlier, mode, listening, inbox, stage, holder, idle,
                       plan, slot, runs, lost>>
    BY <1>4 DEF Record, kick
  <2>3. lost' \in SUBSET Jobs
    BY <2>2 DEF TypeOK
  <2>4. outcome # "running"
    BY DEF Finished
  <2> QED
    BY <2>1, <2>2, <2>3, <2>4, TaskStepIInv
<1>5. CASE RecordFails(s, n)
  <2>1. /\ task[s][n] = "record"
        /\ task' = [task EXCEPT ![s][n] = "none"]
        /\ lost' = lost \cup {n}
        /\ UNCHANGED <<status, lockedBy, earlier, mode, listening, inbox, stage,
                       holder, idle, plan, slot, runs>>
    BY <1>5 DEF RecordFails, table, kick
  <2>2. lost' \in SUBSET Jobs
    BY <2>1 DEF TypeOK
  <2> QED
    BY <1>1, <1>2, <2>1, <2>2, TaskStepIInv
<1> QED
  BY <1>3, <1>4, <1>5

\* A step that only scans, besides what does not matter to the invariant.
LEMMA ScanStepIInv ==
  ASSUME IInv, NEW s \in Servers,
         NEW who \in {"init", "listener", "task"}, Scan(s, who),
         mode' \in [Servers -> {"down", "init", "up"}],
         mode'[s] # "down", \A t \in Servers : t # s => mode'[t] = mode[t],
         listening' \in [Servers -> BOOLEAN], inbox' \in [Servers -> SUBSET Jobs],
         \A t \in Servers : t # s => listening'[t] = listening[t] /\ inbox'[t] = inbox[t],
         lockedBy' \in [Jobs -> Servers \cup {NoServer}],
         \A j \in Jobs : status[j] = "running" /\ j \notin lost
                           => lockedBy'[j] = lockedBy[j],
         task' \in [Servers -> [Jobs -> {"none", "exec", "record", "kick"}]],
         \A t \in Servers, j \in Jobs :
            task'[t][j] # task[t][j] => /\ t = s
                                        /\ task[t][j] = "kick"
                                        /\ task'[t][j] = "none",
         UNCHANGED <<status, earlier, slot, runs, lost>>
  PROVE  IInv'
<1> USE DEF IInv
<1>1. /\ stage' \in [Servers -> {"free", "scanned", "claimed"}]
      /\ holder' \in [Servers -> {"none", "init", "listener", "task"}]
      /\ idle' \in [Servers -> SUBSET Instances]
      /\ plan' = plan
      /\ \A t \in Servers :
           /\ stage'[t] # "claimed" => plan[t] = Nothing
           /\ \A i \in Instances :
                 /\ plan[t][i] # NoJob => i \in idle'[t]
                 /\ i \in idle'[t] => slot[t][i] = NoJob
  BY ScanEffect
<1>2. \A p : Planned(p)' = Planned(p)
  BY DEF Planned
<1>3. TypeOK'
  BY <1>1 DEF TypeOK
<1>4. PlanInv'
  BY <1>1, <1>2 DEF PlanInv
<1>5. TaskInv'
  <2>1. \A t \in Servers, j \in Jobs :
           /\ task'[t][j] # "none" => task[t][j] # "none"
           /\ task'[t][j] \in {"exec", "record"} => task[t][j] = task'[t][j]
    OBVIOUS
  <2>2. ASSUME NEW t \in Servers, NEW j \in Jobs, task'[t][j] # "none"
        PROVE  runs'[j] = 1 /\ status'[j] \in Finished \cup {"running"}
    BY <2>1, <2>2 DEF TaskInv
  <2>3. ASSUME NEW t \in Servers, NEW j \in Jobs,
               task'[t][j] \in {"exec", "record"}
        PROVE  status'[j] = "running"
    BY <2>1, <2>3 DEF TaskInv
  <2>4. ASSUME NEW t \in Servers, NEW u \in Servers, NEW j \in Jobs,
               task'[t][j] \in {"exec", "record"},
               task'[u][j] \in {"exec", "record"}
        PROVE  t = u
    BY <2>1, <2>4 DEF TaskInv
  <2> QED
    BY <2>2, <2>3, <2>4 DEF TaskInv
<1>6. RunsInv'
  BY DEF RunsInv
<1>7. KickInv'
  <2>1. \A t \in Servers : t # s => stage'[t] = stage[t] /\ task'[t] = task[t]
    <3>1. \A t \in Servers : t # s => task'[t] = task[t]
      BY DEF TypeOK
    <3> QED
      BY <3>1 DEF Scan, kick, TypeOK
  <2>2. \A t \in Servers : stage'[t] # "claimed" => plan'[t] = Nothing
    BY <1>1
  <2>3. \A t \in Servers, i \in Instances :
           /\ plan'[t][i] # NoJob => i \in idle'[t]
           /\ i \in idle'[t] => slot'[t][i] = NoJob
    BY <1>1
  <2>4. \A t \in Servers : mode'[t] = "down" => /\ t # s
                                               /\ mode[t] = "down"
    OBVIOUS
  <2>5. ASSUME NEW t \in Servers, mode'[t] = "down"
        PROVE  /\ stage'[t] = "free" /\ task'[t] = NoTask
               /\ ~listening'[t] /\ inbox'[t] = {}
    BY <2>1, <2>4, <2>5 DEF KickInv
  <2> QED
    BY <2>2, <2>3, <2>5 DEF KickInv, Nothing, NoTask
<1>8. OwnInstance'
  BY DEF OwnInstance
<1>9. RunningIsWorkedOn'
  <2> SUFFICES ASSUME NEW j \in Jobs, status[j] = "running", j \notin lost
               PROVE  \E t \in Servers : /\ lockedBy'[j] = t
                                         /\ \/ j \in Planned(plan[t])
                                            \/ task'[t][j] \in {"exec", "record"}
    BY <1>1, <1>2 DEF RunningIsWorkedOn
  <2>1. PICK t \in Servers : /\ lockedBy[j] = t
                             /\ \/ j \in Planned(plan[t])
                                \/ task[t][j] \in {"exec", "record"}
    BY DEF RunningIsWorkedOn
  <2>2. task[t][j] \in {"exec", "record"} => task'[t][j] = task[t][j]
    OBVIOUS
  <2> QED
    BY <2>1, <2>2
<1> QED
  BY <1>3, <1>4, <1>5, <1>6, <1>7, <1>8, <1>9

LEMMA KickingStepsIInv ==
  ASSUME IInv, NEW s \in Servers, NEW n \in Jobs,
         OnDone(s, n) \/ Notified(s, n)
  PROVE  IInv'
<1> USE DEF IInv
<1>1. CASE OnDone(s, n)
  <2>1. /\ task[s][n] = "kick"
        /\ task' = [task EXCEPT ![s][n] = "none"]
        /\ Scan(s, "task")
        /\ UNCHANGED <<status, lockedBy, earlier, mode, listening, inbox, slot,
                       runs, lost>>
    BY <1>1 DEF OnDone, table
  <2>2. task' \in [Servers -> [Jobs -> {"none", "exec", "record", "kick"}]]
    BY <2>1 DEF TypeOK
  <2>3. \A t \in Servers, j \in Jobs :
            task'[t][j] # task[t][j] => /\ t = s
                                        /\ task[t][j] = "kick"
                                        /\ task'[t][j] = "none"
    BY <2>1 DEF TypeOK
  <2>4. mode[s] # "down"
    BY <2>1 DEF KickInv, NoTask
  <2>5. /\ mode' \in [Servers -> {"down", "init", "up"}]
        /\ listening' \in [Servers -> BOOLEAN] /\ inbox' \in [Servers -> SUBSET Jobs]
        /\ lockedBy' \in [Jobs -> Servers \cup {NoServer}]
    BY <2>1 DEF TypeOK
  <2> QED
    BY <2>1, <2>2, <2>3, <2>4, <2>5, ScanStepIInv
<1>2. CASE Notified(s, n)
  <2>1. /\ n \in inbox[s]
        /\ inbox' = [inbox EXCEPT ![s] = @ \ {n}]
        /\ Scan(s, "listener")
        /\ UNCHANGED <<status, lockedBy, earlier, mode, listening, task, slot,
                       runs, lost>>
    BY <1>2 DEF Notified, table
  <2>2. mode[s] # "down"
    BY <2>1 DEF KickInv
  <2>3. /\ mode' \in [Servers -> {"down", "init", "up"}]
        /\ listening' \in [Servers -> BOOLEAN] /\ inbox' \in [Servers -> SUBSET Jobs]
        /\ lockedBy' \in [Jobs -> Servers \cup {NoServer}]
        /\ task' \in [Servers -> [Jobs -> {"none", "exec", "record", "kick"}]]
    BY <2>1 DEF TypeOK
  <2> QED
    BY <2>1, <2>2, <2>3, ScanStepIInv
<1> QED
  BY <1>1, <1>2

LEMMA WorkerInitIInv ==
  ASSUME IInv, NEW s \in Servers, WorkerInit(s)
  PROVE  IInv'
<1> USE DEF IInv
<1>1. /\ mode[s] = "down"
      /\ lockedBy' = [j \in Jobs |->
                        IF lockedBy[j] = s THEN NoServer ELSE lockedBy[j]]
      /\ mode' = [mode EXCEPT ![s] = "init"]
      /\ Scan(s, "init")
      /\ UNCHANGED <<status, earlier, listening, inbox, task, slot, runs, lost>>
  BY DEF WorkerInit
<1>2. \A j \in Jobs : status[j] = "running" /\ j \notin lost
                         => lockedBy'[j] = lockedBy[j]
  <2> SUFFICES ASSUME NEW j \in Jobs, status[j] = "running", j \notin lost
               PROVE  lockedBy[j] # s
    BY <1>1
  <2>1. plan[s] = Nothing /\ task[s] = NoTask
    BY <1>1 DEF KickInv
  <2> QED
    BY <2>1, PlannedNothing DEF RunningIsWorkedOn, NoTask
<1>3. /\ mode' \in [Servers -> {"down", "init", "up"}]
      /\ mode'[s] # "down"
      /\ \A t \in Servers : t # s => mode'[t] = mode[t]
      /\ listening' \in [Servers -> BOOLEAN] /\ inbox' \in [Servers -> SUBSET Jobs]
      /\ lockedBy' \in [Jobs -> Servers \cup {NoServer}]
      /\ task' \in [Servers -> [Jobs -> {"none", "exec", "record", "kick"}]]
  BY <1>1 DEF TypeOK
<1> QED
  BY <1>1, <1>2, <1>3, ScanStepIInv

LEMMA ListeningIInv ==
  ASSUME IInv, NEW s \in Servers, Listen(s) \/ ConnectionLost(s)
  PROVE  IInv'
<1> USE DEF IInv
<1>1. UNCHANGED <<status, lockedBy, earlier, mode, stage, holder, idle, plan,
                  slot, task, runs, lost>>
  BY DEF Listen, ConnectionLost, table, kick
<1>2. \A p : Planned(p)' = Planned(p)
  BY DEF Planned
<1>3. TypeOK'
  BY <1>1 DEF Listen, ConnectionLost, TypeOK
<1>4. PlanInv' /\ TaskInv' /\ RunsInv' /\ OwnInstance' /\ RunningIsWorkedOn'
  BY <1>1, <1>2 DEF PlanInv, TaskInv, RunsInv, OwnInstance, RunningIsWorkedOn
<1>5. KickInv'
  <2>1. \A t \in Servers : mode[t] = "down" =>
           listening'[t] = listening[t] /\ inbox'[t] = inbox[t]
    BY DEF Listen, ConnectionLost, TypeOK, KickInv
  <2> QED
    BY <1>1, <2>1 DEF KickInv, Nothing, NoTask
<1> QED
  BY <1>3, <1>4, <1>5

LEMMA CrashIInv ==
  ASSUME IInv, NEW s \in Servers, Crash(s)
  PROVE  IInv'
<1> USE DEF IInv
<1>1. /\ mode' = [mode EXCEPT ![s] = "down"]
      /\ listening' = [listening EXCEPT ![s] = FALSE]
      /\ inbox' = [inbox EXCEPT ![s] = {}]
      /\ stage' = [stage EXCEPT ![s] = "free"]
      /\ holder' = [holder EXCEPT ![s] = "none"]
      /\ idle' = [idle EXCEPT ![s] = {}]
      /\ plan' = [plan EXCEPT ![s] = Nothing]
      /\ slot' = [slot EXCEPT ![s] = Nothing]
      /\ task' = [task EXCEPT ![s] = NoTask]
      /\ lost' = lost \cup {j \in Jobs : \/ j \in Planned(plan[s])
                                         \/ task[s][j] \in {"exec", "record"}}
      /\ UNCHANGED <<status, lockedBy, earlier, runs>>
  BY DEF Crash, table
<1>2. /\ Nothing \in [Instances -> Jobs \cup {NoJob}]
      /\ NoTask \in [Jobs -> {"none", "exec", "record", "kick"}]
      /\ \A i \in Instances : Nothing[i] = NoJob
      /\ \A j \in Jobs : NoTask[j] = "none"
  BY DEF Nothing, NoTask
<1>3. \A t \in Servers : Planned(plan[t])' = Planned(plan'[t])
  BY DEF Planned
<1>4. \A t \in Servers :
         /\ t # s => plan'[t] = plan[t] /\ task'[t] = task[t] /\ slot'[t] = slot[t]
         /\ Planned(plan'[s]) = {} /\ \A j \in Jobs : task'[s][j] = "none"
  BY <1>1, <1>2, PlannedNothing DEF TypeOK
<1>5. TypeOK'
  BY <1>1, <1>2 DEF TypeOK
<1>6. PlanInv'
  BY <1>1, <1>3, <1>4 DEF PlanInv
<1>7. TaskInv'
  <2>1. ASSUME NEW t \in Servers, NEW j \in Jobs, task'[t][j] # "none"
        PROVE  runs'[j] = 1 /\ status'[j] \in Finished \cup {"running"}
    BY <1>1, <1>4, <2>1 DEF TaskInv
  <2>2. ASSUME NEW t \in Servers, NEW j \in Jobs,
               task'[t][j] \in {"exec", "record"}
        PROVE  status'[j] = "running"
    BY <1>1, <1>4, <2>2 DEF TaskInv
  <2>3. ASSUME NEW t \in Servers, NEW u \in Servers, NEW j \in Jobs,
               task'[t][j] \in {"exec", "record"},
               task'[u][j] \in {"exec", "record"}
        PROVE  t = u
    BY <1>4, <2>3 DEF TaskInv
  <2> QED
    BY <2>1, <2>2, <2>3 DEF TaskInv
<1>8. RunsInv'
  BY <1>1 DEF RunsInv
<1>9. KickInv'
  <2>1. ASSUME NEW t \in Servers
        PROVE  /\ stage'[t] # "claimed" => plan'[t] = Nothing
               /\ mode'[t] = "down" => /\ stage'[t] = "free" /\ task'[t] = NoTask
                                       /\ ~listening'[t] /\ inbox'[t] = {}
    BY <1>1 DEF KickInv, TypeOK
  <2>2. ASSUME NEW t \in Servers, NEW i \in Instances
        PROVE  /\ plan'[t][i] # NoJob => i \in idle'[t]
               /\ i \in idle'[t] => slot'[t][i] = NoJob
    BY <1>1, <1>2 DEF KickInv, TypeOK
  <2> QED
    BY <2>1, <2>2 DEF KickInv, Nothing, NoTask
<1>10. OwnInstance'
  BY <1>4 DEF OwnInstance
<1>11. RunningIsWorkedOn'
  <2> SUFFICES ASSUME NEW j \in Jobs, status[j] = "running", j \notin lost'
               PROVE  \E t \in Servers : /\ lockedBy[j] = t
                                         /\ \/ j \in Planned(plan'[t])
                                            \/ task'[t][j] \in {"exec", "record"}
    BY <1>1, <1>3 DEF RunningIsWorkedOn
  <2>1. PICK t \in Servers : /\ lockedBy[j] = t
                             /\ \/ j \in Planned(plan[t])
                                \/ task[t][j] \in {"exec", "record"}
    BY <1>1 DEF RunningIsWorkedOn
  <2> QED
    BY <1>1, <1>4, <2>1
<1> QED
  BY <1>5, <1>6, <1>7, <1>8, <1>9, <1>10, <1>11

-----------------------------------------------------------------------------

LEMMA NextIInv == IInv /\ [Next]_vars => IInv'
<1> SUFFICES ASSUME IInv, [Next]_vars PROVE IInv'
  OBVIOUS
<1>1. CASE \E j \in Jobs : Insert(j)
  BY <1>1, InsertIInv
<1>2. ASSUME NEW s \in Servers, Server(s)
      PROVE  IInv'
  <2>1. CASE WorkerInit(s)
    BY <2>1, WorkerInitIInv
  <2>2. CASE Listen(s)
    BY <2>2, ListeningIInv
  <2>3. CASE GetJobs(s)
    BY <2>3, GetJobsIInv
  <2>4. CASE GetNothing(s)
    BY <2>4, GetNothingIInv
  <2>5. CASE Launch(s)
    BY <2>5, LaunchIInv
  <2>6. CASE \E j \in Jobs : JobReturns(s, j) \/ Record(s, j)
    BY <2>6, RunInstanceIInv
  <2>7. CASE \E j \in Jobs : OnDone(s, j) \/ Notified(s, j)
    BY <2>7, KickingStepsIInv
  <2> QED
    BY <1>2, <2>1, <2>2, <2>3, <2>4, <2>5, <2>6, <2>7 DEF Server
<1>3. ASSUME NEW s \in Servers, Fault(s)
      PROVE  IInv'
  BY <1>3, ListeningIInv, CrashIInv, RunInstanceIInv DEF Fault
<1>4. CASE UNCHANGED vars
  <2>1. \A p : Planned(p)' = Planned(p)
    BY DEF Planned
  <2> QED
    BY <1>4, <2>1 DEF vars, IInv, TypeOK, PlanInv, TaskInv, RunsInv, KickInv,
                      OwnInstance, RunningIsWorkedOn, Nothing, NoTask
<1> QED
  BY <1>1, <1>2, <1>3, <1>4 DEF Next

THEOREM Invariance == Spec => []IInv
BY InitIInv, NextIInv, PTL DEF Spec

\* The variables keep their types: rows, mutexes, instances and goroutines.
THEOREM TypeCorrect == Spec => []TypeOK
BY Invariance, PTL DEF IInv

\* However many processes compete, restart or fail, Job_func is started at
\* most once for a row.
THEOREM JobsRunAtMostOnce == Spec => []AtMostOnce
<1>1. IInv => AtMostOnce
  BY DEF IInv, RunsInv, AtMostOnce
<1> QED
  BY <1>1, Invariance, PTL

\* Two goroutines inside Job_func never share an instance.
THEOREM InstancesAreExclusive == Spec => []OwnInstance
BY Invariance, PTL DEF IInv

\* A running row has a goroutine, or a kick about to start one, unless one of
\* the named faults hit it.
THEOREM RunningRowsAreWorkedOn == Spec => []RunningIsWorkedOn
BY Invariance, PTL DEF IInv

\* A finished row keeps its status.
THEOREM FinishedRowsStay == Spec => FinishedStays
<1>1. ASSUME IInv, [Next]_vars, NEW j \in Jobs, status[j] \in Finished
      PROVE  status'[j] = status[j]
  <2>1. ASSUME NEW n \in Jobs, Insert(n)
        PROVE  status'[j] = status[j]
    BY <1>1, <2>1 DEF Insert, IInv, TypeOK, Finished
  <2>2. ASSUME NEW s \in Servers, GetJobs(s)
        PROVE  status'[j] = status[j]
    BY <1>1, <2>2, NoJobAssumption
       DEF GetJobs, Claimable, Planned, Queued, Finished
  <2>3. ASSUME NEW s \in Servers, NEW n \in Jobs, Record(s, n)
        PROVE  status'[j] = status[j]
    <3>1. n # j
      BY <1>1, <2>3 DEF Record, IInv, TaskInv, Finished
    <3> QED
      BY <2>3, <3>1 DEF Record, IInv, TypeOK
  <2>4. ASSUME NEW s \in Servers, Server(s)
        PROVE  status'[j] = status[j]
    BY <2>2, <2>3, <2>4 DEF Server, WorkerInit, Listen, GetNothing, Launch,
                            JobReturns, OnDone, Notified, table
  <2>5. ASSUME NEW s \in Servers, Fault(s)
        PROVE  status'[j] = status[j]
    BY <2>5 DEF Fault, ConnectionLost, Crash, RecordFails, table
  <2> QED
    BY <1>1, <2>1, <2>4, <2>5 DEF Next, vars
<1>2. IInv /\ [Next]_vars =>
         [\A j \in Jobs : status[j] \in Finished => status'[j] = status[j]]_vars
  BY <1>1
<1> QED
  BY <1>2, Invariance, PTL DEF Spec, FinishedStays
-----------------------------------------------------------------------------
(* Worker implements JobQueue.                                             *)

Holds(s, j) == j \in Planned(plan[s]) \/ task[s][j] \in {"exec", "record"}

\* The table says who holds a job, and only running rows are locked.
LockInv ==
    /\ \A s \in Servers, j \in Jobs : Holds(s, j) => lockedBy[j] = s
    /\ \A j \in Jobs : lockedBy[j] # NoServer => status[j] = "running"

\* Stage, case by case.
StageOK(j) ==
    /\ status[j] \in {"absent", "queued"} => Stage(j) = status[j]
    /\ status[j] \in Finished => Stage(j) = "finished"
    /\ \A s \in Servers : j \in Planned(plan[s]) => Stage(j) = "held"
    /\ \A s \in Servers : task[s][j] \in {"exec", "record"} => Stage(j) = "working"
    /\ (status[j] = "running" /\ \A s \in Servers : ~Holds(s, j)) => Stage(j) = "adrift"
    /\ Stage(j) = "held" => \E s \in Servers : j \in Planned(plan[s])

LEMMA StageCases ==
  ASSUME IInv, NEW j \in Jobs
  PROVE  StageOK(j)
<1>1. \A s \in Servers : j \in Planned(plan[s]) => status[j] = "running" /\ runs[j] = 0
  BY DEF IInv, PlanInv
<1>2. \A s \in Servers : task[s][j] \in {"exec", "record"} =>
         status[j] = "running" /\ runs[j] = 1
  BY DEF IInv, TaskInv
<1>3. status[j] \in {"absent", "queued", "running", "succeeded", "failed"}
  BY DEF IInv, TypeOK, Active, Finished
<1> QED
  BY <1>1, <1>2, <1>3 DEF StageOK, Stage, Finished, Holds

LEMMA StageCasesNext ==
  ASSUME IInv', NEW j \in Jobs
  PROVE  StageOK(j)'
<1>1. \A s \in Servers : (j \in Planned(plan[s]))' => status'[j] = "running" /\ runs'[j] = 0
  BY DEF IInv, PlanInv
<1>2. \A s \in Servers : task'[s][j] \in {"exec", "record"} =>
         status'[j] = "running" /\ runs'[j] = 1
  BY DEF IInv, TaskInv
<1>3. status'[j] \in {"absent", "queued", "running", "succeeded", "failed"}
  BY DEF IInv, TypeOK, Active, Finished
<1> QED
  BY <1>1, <1>2, <1>3 DEF StageOK, Stage, Finished, Holds

\* A job that a step leaves alone.
Untouched(j) ==
    /\ status'[j] = status[j]
    /\ \A s \in Servers :
          /\ (j \in Planned(plan[s]))' <=> j \in Planned(plan[s])
          /\ task'[s][j] \in {"exec", "record"} <=> task[s][j] \in {"exec", "record"}

LEMMA SameStage ==
  ASSUME NEW j \in Jobs, Untouched(j)
  PROVE  Stage(j)' = Stage(j) /\ \A s \in Servers : Holds(s, j)' <=> Holds(s, j)
BY DEF Untouched, Stage, Holds

LEMMA Becomes ==
  ASSUME NEW S \in SUBSET Jobs, NEW st,
         \A j \in S : Stage(j)' = st,
         \A j \in Jobs \ S : Untouched(j)
  PROVE  Abstract!Become(S, st)
BY SameStage DEF Abstract!Become

\* What the steps of a process do to the plans and the goroutines.
LEMMA PlanEffect ==
  ASSUME TypeOK, NEW s \in Servers, NEW p \in [Instances -> Jobs \cup {NoJob}],
         plan' = [plan EXCEPT ![s] = p]
  PROVE  \A t \in Servers :
            Planned(plan[t])' = IF t = s THEN Planned(p) ELSE Planned(plan[t])
<1>1. \A t \in Servers : plan'[t] = IF t = s THEN p ELSE plan[t]
  BY DEF TypeOK
<1> QED
  BY <1>1 DEF Planned

LEMMA PlanEmptied ==
  ASSUME TypeOK, NEW s \in Servers, plan' = [plan EXCEPT ![s] = Nothing]
  PROVE  \A t \in Servers : Planned(plan[t])' = IF t = s THEN {} ELSE Planned(plan[t])
<1>1. Nothing \in [Instances -> Jobs \cup {NoJob}]
  BY DEF Nothing
<1>2. \A t \in Servers :
         Planned(plan[t])' = IF t = s THEN Planned(Nothing) ELSE Planned(plan[t])
  BY <1>1, PlanEffect
<1> QED
  BY <1>2, PlannedNothing

LEMMA InsertRefines ==
  ASSUME IInv, IInv', NEW n \in Jobs, Insert(n)
  PROVE  Abstract!Next
<1>1. /\ status[n] = "absent" /\ status' = [status EXCEPT ![n] = "queued"]
      /\ UNCHANGED <<lockedBy, plan, task>>
      /\ \A k \in Jobs : Owner[k] = Owner[n] => status[k] \notin Active
  BY DEF Insert, kick
<1>2. status'[n] = "queued" /\ \A j \in Jobs \ {n} : status'[j] = status[j]
  BY <1>1 DEF IInv, TypeOK
<1>3. Stage(n)' = "queued"
  BY <1>2, StageCasesNext DEF StageOK
<1>4. \A j \in Jobs \ {n} : Untouched(j)
  BY <1>1, <1>2 DEF Untouched, Planned
<1>5. Abstract!Become({n}, "queued")
  BY <1>3, <1>4, Becomes
<1>6. \A k \in Jobs : Owner[k] = Owner[n] => Stage(k) \in {"absent", "finished"}
  <2> SUFFICES ASSUME NEW k \in Jobs, Owner[k] = Owner[n]
               PROVE  Stage(k) \in {"absent", "finished"}
    OBVIOUS
  <2>1. status[k] \in {"absent"} \cup Finished
    BY <1>1 DEF IInv, TypeOK, Active
  <2> QED
    BY <2>1, StageCases DEF StageOK
<1>7. Stage(n) = "absent"
  BY <1>1, StageCases DEF StageOK
<1>8. Abstract!Queue(n)
  BY <1>1, <1>5, <1>6, <1>7 DEF Abstract!Queue, Abstract!Open
<1> QED
  BY <1>8 DEF Abstract!Next

LEMMA GetJobsRefines ==
  ASSUME IInv, IInv', NEW s \in Servers, GetJobs(s)
  PROVE  Abstract!Next
<1>1. PICK p \in [Instances -> Jobs \cup {NoJob}] :
         /\ Claimable(s, p)
         /\ status' = [j \in Jobs |->
                         IF j \in Planned(p) THEN "running" ELSE status[j]]
         /\ lockedBy' = [j \in Jobs |->
                         IF j \in Planned(p) THEN s ELSE lockedBy[j]]
         /\ \/ plan' = [plan EXCEPT ![s] = Nothing]
            \/ plan' = [plan EXCEPT ![s] = p]
  BY DEF GetJobs
<1>2. task' = task /\ plan[s] = Nothing
  BY DEF GetJobs, IInv, KickInv
<1>3. Planned(p) \in SUBSET Jobs
  BY DEF Planned
<1>4. \A j \in Planned(p) : status[j] = "queued" /\ status'[j] = "running"
  BY <1>1, <1>3, NoJobAssumption DEF Claimable, Planned, Queued
<1>5. \A j \in Planned(p) : Stage(j) = "queued"
  BY <1>3, <1>4, StageCases DEF StageOK
<1>6. \A t \in Servers, j \in Planned(p) : task[t][j] \notin {"exec", "record"}
                                           /\ j \notin Planned(plan[t])
  BY <1>3, <1>4 DEF IInv, TaskInv, PlanInv
<1>7. TypeOK
  BY DEF IInv
<1>8. CASE plan' = [plan EXCEPT ![s] = p]
  <2>1. \A t \in Servers :
           Planned(plan[t])' = IF t = s THEN Planned(p) ELSE Planned(plan[t])
    BY <1>7, <1>8, PlanEffect
  <2>2. \A j \in Planned(p) : Stage(j)' = "held"
    BY <1>3, <2>1, StageCasesNext DEF StageOK
  <2>3. \A j \in Jobs \ Planned(p) : Untouched(j)
    BY <1>1, <1>2, <2>1, PlannedNothing DEF Untouched
  <2>4. Abstract!Become(Planned(p), "held")
    BY <1>3, <2>2, <2>3, Becomes
  <2> QED
    BY <1>1, <1>3, <1>5, <2>4
       DEF Abstract!Next, Abstract!Claim, Abstract!TakenBy
<1>9. CASE plan' = [plan EXCEPT ![s] = Nothing]
  <2>2. \A t \in Servers :
           Planned(plan[t])' = IF t = s THEN {} ELSE Planned(plan[t])
    BY <1>7, <1>9, PlanEmptied
  <2>3. \A j \in Planned(p) : Stage(j)' = "adrift"
    BY <1>2, <1>3, <1>4, <1>6, <2>2, StageCasesNext DEF StageOK, Holds
  <2>4. \A j \in Jobs \ Planned(p) : Untouched(j)
    BY <1>1, <1>2, <2>2, PlannedNothing DEF Untouched
  <2>5. Abstract!Become(Planned(p), "adrift")
    BY <1>3, <2>3, <2>4, Becomes
  <2> QED
    BY <1>1, <1>3, <1>5, <2>5
       DEF Abstract!Next, Abstract!Claim, Abstract!TakenBy
<1> QED
  BY <1>1, <1>8, <1>9

LEMMA LaunchRefines ==
  ASSUME IInv, IInv', LockInv, NEW s \in Servers, Launch(s)
  PROVE  Abstract!Next
<1> DEFINE S == {j \in Jobs : Stage(j) = "held" /\ lockedBy[j] = s}
<1>1. /\ task' = [task EXCEPT ![s] =
                    [j \in Jobs |-> IF j \in Planned(plan[s]) THEN "exec"
                                    ELSE task[s][j]]]
      /\ plan' = [plan EXCEPT ![s] = Nothing]
      /\ UNCHANGED <<status, lockedBy>>
  BY DEF Launch, table
<1>2. \A t \in Servers : Planned(plan[t])' = IF t = s THEN {} ELSE Planned(plan[t])
  BY <1>1, PlanEmptied DEF IInv
<1>3. \A t \in Servers, j \in Jobs :
         task'[t][j] = IF t = s /\ j \in Planned(plan[s]) THEN "exec" ELSE task[t][j]
  BY <1>1 DEF IInv, TypeOK
<1>4. S = Planned(plan[s])
  <2>1. ASSUME NEW j \in S PROVE j \in Planned(plan[s])
    <3>1. PICK t \in Servers : j \in Planned(plan[t])
      BY StageCases DEF StageOK
    <3>2. t = s
      BY <3>1 DEF LockInv, Holds
    <3> QED
      BY <3>1, <3>2
  <2>2. ASSUME NEW j \in Planned(plan[s]) PROVE j \in S
    <3>1. j \in Jobs
      BY DEF Planned
    <3> QED
      BY <3>1, StageCases DEF StageOK, LockInv, Holds
  <2> QED
    BY <2>1, <2>2
<1>5. \A j \in S : Stage(j)' = "working"
  BY <1>3, <1>4, StageCasesNext DEF StageOK
<1>6. \A j \in Jobs \ S : Untouched(j)
  BY <1>1, <1>2, <1>3, <1>4 DEF Untouched
<1>7. Abstract!Become(S, "working")
  <2> HIDE DEF S
  <2>1. S \in SUBSET Jobs
    BY DEF S
  <2> QED
    BY <1>5, <1>6, <2>1, Becomes
<1>8. {j \in Jobs : [k \in Jobs |-> Stage(k)][j] = "held" /\ lockedBy[j] = s} = S
  OBVIOUS
<1>9. Abstract!Start(s)
  BY <1>1, <1>7, <1>8 DEF Abstract!Start
<1> QED
  BY <1>9 DEF Abstract!Next

LEMMA RecordRefines ==
  ASSUME IInv, IInv', LockInv, NEW s \in Servers, NEW n \in Jobs, Record(s, n)
  PROVE  Abstract!Next
<1>1. PICK outcome \in Finished :
         /\ task[s][n] = "record"
         /\ status' = [status EXCEPT ![n] = outcome]
         /\ lockedBy' = [lockedBy EXCEPT ![n] = NoServer]
         /\ task' = [task EXCEPT ![s][n] = "kick"]
         /\ plan' = plan
  BY DEF Record, kick
<1>2. /\ status'[n] \in Finished
      /\ \A j \in Jobs \ {n} : status'[j] = status[j]
      /\ \A t \in Servers, j \in Jobs \ {n} : task'[t][j] = task[t][j]
  BY <1>1 DEF IInv, TypeOK
<1>3. Stage(n)' = "finished"
  BY <1>2, StageCasesNext DEF StageOK
<1>4. \A j \in Jobs \ {n} : Untouched(j)
  BY <1>1, <1>2 DEF Untouched, Planned
<1>5. Abstract!Become({n}, "finished")
  BY <1>3, <1>4, Becomes
<1>6. Stage(n) = "working" /\ lockedBy[n] = s
  BY <1>1, StageCases DEF StageOK, LockInv, Holds
<1>7. lockedBy' = [j \in Jobs |-> IF j \in {n} THEN NoServer ELSE lockedBy[j]]
  BY <1>1 DEF IInv, TypeOK
<1>8. Abstract!Finish(s, n)
  BY <1>5, <1>6, <1>7 DEF Abstract!Finish, Abstract!TakenBy
<1> QED
  BY <1>8 DEF Abstract!Next

\* A process loses the jobs S: nobody holds them any more and their rows stay.
LEMMA LosingRefines ==
  ASSUME IInv, IInv', LockInv, NEW s \in Servers, NEW S \in SUBSET Jobs,
         UNCHANGED <<status, lockedBy>>,
         \A j \in S : Holds(s, j) /\ \A t \in Servers : ~Holds(t, j)',
         \A j \in Jobs \ S : Untouched(j)
  PROVE  Abstract!Next
<1>1. \A j \in S : status[j] = "running"
  BY DEF Holds, IInv, PlanInv, TaskInv
<1>2. \A j \in S : Stage(j)' = "adrift"
  BY <1>1, StageCasesNext DEF StageOK
<1>3. \A j \in S : Stage(j) \in {"held", "working"} /\ lockedBy[j] = s
  BY StageCases DEF StageOK, Holds, LockInv
<1>4. Abstract!Become(S, "adrift")
  BY <1>2, Becomes
<1>5. Abstract!Lose(s, S)
  BY <1>3, <1>4 DEF Abstract!Lose
<1> QED
  BY <1>5 DEF Abstract!Next

LEMMA RecordFailsRefines ==
  ASSUME IInv, IInv', LockInv, NEW s \in Servers, NEW n \in Jobs, RecordFails(s, n)
  PROVE  Abstract!Next
<1>1. /\ task[s][n] = "record" /\ task' = [task EXCEPT ![s][n] = "none"]
      /\ UNCHANGED <<status, lockedBy, plan>>
  BY DEF RecordFails, table, kick
<1>2. /\ task'[s][n] = "none"
      /\ \A t \in Servers, j \in Jobs : (t # s \/ j # n) => task'[t][j] = task[t][j]
  BY <1>1 DEF IInv, TypeOK
<1>3. Holds(s, n) /\ \A t \in Servers : ~Holds(t, n)'
  <2>1. \A t \in Servers : n \notin Planned(plan[t])
    BY <1>1 DEF IInv, PlanInv, TaskInv
  <2>2. \A t \in Servers : t # s => task[t][n] \notin {"exec", "record"}
    BY <1>1 DEF IInv, TaskInv
  <2> QED
    BY <1>1, <1>2, <2>1, <2>2 DEF Holds, Planned
<1>4. \A j \in Jobs \ {n} : Untouched(j)
  BY <1>1, <1>2 DEF Untouched, Planned
<1> DEFINE S == {n}
<1>5. \A j \in S : Holds(s, j) /\ \A t \in Servers : ~Holds(t, j)'
  BY <1>3
<1>6. S \in SUBSET Jobs /\ \A j \in Jobs \ S : Untouched(j)
  BY <1>4
<1> HIDE DEF S
<1> QED
  BY <1>1, <1>5, <1>6, LosingRefines

LEMMA CrashRefines ==
  ASSUME IInv, IInv', LockInv, NEW s \in Servers, Crash(s)
  PROVE  Abstract!Next
<1> DEFINE S == {j \in Jobs : Holds(s, j)}
<1>1. /\ plan' = [plan EXCEPT ![s] = Nothing]
      /\ task' = [task EXCEPT ![s] = NoTask]
      /\ UNCHANGED <<status, lockedBy>>
  BY DEF Crash, table
<1>2. \A t \in Servers : Planned(plan[t])' = IF t = s THEN {} ELSE Planned(plan[t])
  BY <1>1, PlanEmptied DEF IInv
<1>3. \A t \in Servers, j \in Jobs :
         task'[t][j] = IF t = s THEN "none" ELSE task[t][j]
  BY <1>1 DEF IInv, TypeOK, NoTask
<1>4. \A j \in S : Holds(s, j) /\ \A t \in Servers : ~Holds(t, j)'
  <2>1. ASSUME NEW j \in S, NEW t \in Servers, t # s PROVE ~Holds(t, j)
    BY <2>1 DEF LockInv
  <2> QED
    BY <1>2, <1>3, <2>1 DEF Holds
<1>5. \A j \in Jobs \ S : Untouched(j)
  BY <1>1, <1>2, <1>3 DEF Untouched, Holds
<1> HIDE DEF S
<1>6. S \in SUBSET Jobs
  BY DEF S
<1> QED
  BY <1>1, <1>4, <1>5, <1>6, LosingRefines

LEMMA WorkerInitRefines ==
  ASSUME IInv, IInv', LockInv, NEW s \in Servers, WorkerInit(s)
  PROVE  Abstract!Next \/ UNCHANGED Abstract!vars
<1>1. /\ mode[s] = "down" /\ UNCHANGED <<status, task>>
      /\ lockedBy' = [j \in Jobs |->
                        IF lockedBy[j] = s THEN NoServer ELSE lockedBy[j]]
  BY DEF WorkerInit
<1>2. plan' = plan
  BY ScanEffect DEF WorkerInit, IInv
<1>3. \A j \in Jobs : Untouched(j)
  BY <1>1, <1>2 DEF Untouched, Planned
<1>4. [j \in Jobs |-> Stage(j)]' = [j \in Jobs |-> Stage(j)]
  BY <1>3, SameStage
<1>5. ASSUME NEW j \in Jobs, lockedBy[j] = s PROVE Stage(j) = "adrift"
  <2>1. ~Holds(s, j)
    BY <1>1, PlannedNothing DEF Holds, IInv, KickInv, NoTask
  <2>2. \A t \in Servers : ~Holds(t, j)
    BY <1>5, <2>1 DEF LockInv
  <2>3. status[j] = "running"
    BY <1>5, NoServerAssumption DEF LockInv
  <2> QED
    BY <2>2, <2>3, StageCases DEF StageOK
<1>6. lockedBy' = [j \in Jobs |-> IF j \in {k \in Jobs : lockedBy[k] = s}
                                  THEN NoServer ELSE lockedBy[j]]
  BY <1>1
<1>7. Abstract!Release(s)
  BY <1>4, <1>5, <1>6 DEF Abstract!Release, Abstract!TakenBy
<1> QED
  BY <1>7 DEF Abstract!Next

\* The steps that move no job.
LEMMA OthersRefine ==
  ASSUME IInv, NEW s \in Servers, NEW n \in Jobs,
         JobReturns(s, n) \/ OnDone(s, n) \/ Notified(s, n)
  PROVE  /\ \A j \in Jobs : Untouched(j)
         /\ lockedBy' = lockedBy
<1>1. status' = status /\ lockedBy' = lockedBy
  BY DEF JobReturns, OnDone, Notified, table
<1>2. plan' = plan
  <2>1. CASE OnDone(s, n) \/ Notified(s, n)
    BY <2>1, ScanEffect DEF OnDone, Notified, IInv
  <2> QED
    BY <2>1 DEF JobReturns, kick
<1>3. \A t \in Servers, j \in Jobs :
         task'[t][j] \in {"exec", "record"} <=> task[t][j] \in {"exec", "record"}
  <2>1. CASE JobReturns(s, n)
    BY <2>1 DEF JobReturns, IInv, TypeOK
  <2>2. CASE OnDone(s, n)
    BY <2>2 DEF OnDone, IInv, TypeOK
  <2> QED
    BY <2>1, <2>2 DEF Notified
<1> QED
  BY <1>1, <1>2, <1>3 DEF Untouched, Planned

LEMMA StutterRefines ==
  ASSUME \A j \in Jobs : Untouched(j), lockedBy' = lockedBy
  PROVE  UNCHANGED Abstract!vars
BY SameStage DEF Abstract!vars

LEMMA NextRefines ==
  ASSUME IInv, IInv', LockInv, [Next]_vars
  PROVE  [Abstract!Next]_(Abstract!vars)
<1> SUFFICES Abstract!Next \/ UNCHANGED Abstract!vars
  OBVIOUS
<1>1. CASE \E n \in Jobs : Insert(n)
  BY <1>1, InsertRefines
<1>2. ASSUME NEW s \in Servers,
             \/ WorkerInit(s) \/ GetJobs(s) \/ Launch(s) \/ Crash(s)
             \/ \E n \in Jobs : Record(s, n) \/ RecordFails(s, n)
      PROVE  Abstract!Next \/ UNCHANGED Abstract!vars
  BY <1>2, WorkerInitRefines, GetJobsRefines, LaunchRefines, CrashRefines,
     RecordRefines, RecordFailsRefines
<1>3. ASSUME NEW s \in Servers, NEW n \in Jobs,
             \/ JobReturns(s, n) \/ OnDone(s, n) \/ Notified(s, n)
      PROVE  UNCHANGED Abstract!vars
  BY <1>3, OthersRefine, StutterRefines
<1>4. ASSUME NEW s \in Servers, Listen(s) \/ ConnectionLost(s) \/ GetNothing(s)
      PROVE  UNCHANGED Abstract!vars
  <2>1. UNCHANGED <<status, lockedBy, plan, task>>
    BY <1>4 DEF Listen, ConnectionLost, GetNothing, table, kick
  <2>2. \A j \in Jobs : Untouched(j)
    BY <2>1 DEF Untouched, Planned
  <2> QED
    BY <2>1, <2>2, StutterRefines
<1>5. CASE UNCHANGED vars
  <2>1. \A j \in Jobs : Untouched(j)
    BY <1>5 DEF vars, Untouched, Planned
  <2> QED
    BY <1>5, <2>1, StutterRefines DEF vars
<1> QED
  BY <1>1, <1>2, <1>3, <1>4, <1>5 DEF Next, Server, Fault

LEMMA InitRefines == Init => Abstract!Init /\ LockInv
<1> SUFFICES ASSUME Init PROVE Abstract!Init /\ LockInv
  OBVIOUS
<1>1. \A j \in Jobs : Stage(j) = "absent"
  BY InitIInv, StageCases DEF Init, StageOK
<1>2. \A s \in Servers, j \in Jobs : ~Holds(s, j)
  BY PlannedNothing DEF Init, Holds, NoTask
<1> QED
  BY <1>1, <1>2 DEF Init, LockInv, Abstract!Init

LEMMA NextLockInv ==
  ASSUME IInv, LockInv, [Next]_vars
  PROVE  LockInv'
<1> DEFINE Lock(j) ==
             /\ \A s \in Servers : Holds(s, j) => lockedBy[j] = s
             /\ lockedBy[j] # NoServer => status[j] = "running"
<1> SUFFICES ASSUME NEW j \in Jobs PROVE Lock(j)'
  BY DEF LockInv
<1>0. Lock(j)
  BY DEF LockInv
<1>1. ASSUME status'[j] = status[j], lockedBy'[j] = lockedBy[j],
             \A s \in Servers : Holds(s, j)' => Holds(s, j)
      PROVE  Lock(j)'
  BY <1>0, <1>1
<1>2. ASSUME Untouched(j), lockedBy'[j] = lockedBy[j] PROVE Lock(j)'
  BY <1>1, <1>2, SameStage DEF Untouched
<1>3. ASSUME NEW n \in Jobs, Insert(n) PROVE Lock(j)'
  <2>1. /\ status[n] = "absent" /\ status' = [status EXCEPT ![n] = "queued"]
        /\ UNCHANGED <<lockedBy, plan, task>>
    BY <1>3 DEF Insert, kick
  <2>2. j # n => status'[j] = status[j]
    BY <2>1 DEF IInv, TypeOK
  <2>3. \A s \in Servers : Holds(s, j)' <=> Holds(s, j)
    BY <2>1 DEF Holds, Planned
  <2>4. j = n => lockedBy[j] = NoServer
    BY <1>0, <2>1
  <2> QED
    BY <1>0, <2>1, <2>2, <2>3, <2>4
<1>4. ASSUME NEW s \in Servers, GetJobs(s) PROVE Lock(j)'
  <2>1. PICK p \in [Instances -> Jobs \cup {NoJob}] :
           /\ Claimable(s, p)
           /\ status' = [k \in Jobs |->
                           IF k \in Planned(p) THEN "running" ELSE status[k]]
           /\ lockedBy' = [k \in Jobs |->
                           IF k \in Planned(p) THEN s ELSE lockedBy[k]]
           /\ \/ plan' = [plan EXCEPT ![s] = Nothing]
              \/ plan' = [plan EXCEPT ![s] = p]
    BY <1>4 DEF GetJobs
  <2>2. task' = task
    BY <1>4 DEF GetJobs
  <2>3. \A t \in Servers : \/ Planned(plan[t])' = Planned(plan[t])
                           \/ Planned(plan[t])' = {}
                           \/ Planned(plan[t])' = Planned(p) /\ t = s
    <3>1. TypeOK
      BY DEF IInv
    <3>2. CASE plan' = [plan EXCEPT ![s] = Nothing]
      BY <3>1, <3>2, PlanEmptied
    <3>3. CASE plan' = [plan EXCEPT ![s] = p]
      BY <3>1, <3>3, PlanEffect
    <3> QED
      BY <2>1, <3>2, <3>3
  <2>4. CASE j \in Planned(p)
    <3>1. status[j] = "queued"
      BY <2>1, <2>4, NoJobAssumption DEF Claimable, Planned, Queued
    <3>2. \A t \in Servers : ~Holds(t, j)
      BY <3>1 DEF Holds, IInv, PlanInv, TaskInv
    <3>3. \A t \in Servers : Holds(t, j)' => t = s
      BY <2>2, <2>3, <3>2 DEF Holds
    <3> QED
      BY <2>1, <2>4, <3>3
  <2>5. CASE j \notin Planned(p)
    <3>1. \A t \in Servers : Holds(t, j)' => Holds(t, j)
      BY <2>2, <2>3, <2>5 DEF Holds
    <3> QED
      BY <1>1, <2>1, <2>5, <3>1
  <2> QED
    BY <2>4, <2>5
<1>5. ASSUME NEW s \in Servers, Launch(s) \/ Crash(s) PROVE Lock(j)'
  <2>1. plan' = [plan EXCEPT ![s] = Nothing] /\ UNCHANGED <<status, lockedBy>>
    BY <1>5 DEF Launch, Crash, table
  <2>2. \A t \in Servers : Planned(plan[t])' = IF t = s THEN {} ELSE Planned(plan[t])
    BY <2>1, PlanEmptied DEF IInv
  <2>3. \A t \in Servers : task'[t][j] \in {"exec", "record"} => Holds(t, j)
    <3>1. CASE Launch(s)
      BY <3>1 DEF Launch, Holds, IInv, TypeOK
    <3>2. CASE Crash(s)
      BY <3>2 DEF Crash, Holds, IInv, TypeOK, NoTask
    <3> QED
      BY <1>5, <3>1, <3>2
  <2>4. \A t \in Servers : Holds(t, j)' => Holds(t, j)
    BY <2>2, <2>3 DEF Holds
  <2> QED
    BY <1>1, <2>1, <2>4
<1>6. ASSUME NEW s \in Servers, NEW n \in Jobs, Record(s, n) \/ RecordFails(s, n)
      PROVE  Lock(j)'
  <2>1. plan' = plan /\ task[s][n] = "record"
    BY <1>6 DEF Record, RecordFails, kick
  <2>2. \A t \in Servers : /\ task'[t][j] \in {"exec", "record"}
                                => task[t][j] \in {"exec", "record"}
                           /\ task'[s][n] \notin {"exec", "record"}
    <3>1. \E to \in {"none", "kick"} : task' = [task EXCEPT ![s][n] = to]
      BY <1>6 DEF Record, RecordFails
    <3> QED
      BY <3>1 DEF IInv, TypeOK
  <2>3. \A t \in Servers : Holds(t, j)' => Holds(t, j)
    BY <2>1, <2>2 DEF Holds, Planned
  <2>4. CASE j # n \/ RecordFails(s, n)
    <3>1. status'[j] = status[j] /\ lockedBy'[j] = lockedBy[j]
      BY <1>6, <2>4 DEF Record, RecordFails, IInv, TypeOK, table
    <3> QED
      BY <1>1, <2>3, <3>1
  <2>5. CASE j = n /\ Record(s, n)
    <3>1. lockedBy'[j] = NoServer
      BY <2>5 DEF Record, IInv, TypeOK
    <3>2. \A t \in Servers : Holds(t, j) => t = s /\ j \notin Planned(plan[t])
      BY <2>1, <2>5 DEF LockInv, Holds, IInv, PlanInv, TaskInv
    <3>3. \A t \in Servers : ~Holds(t, j)'
      BY <2>1, <2>2, <2>3, <2>5, <3>2 DEF Holds, Planned
    <3> QED
      BY <3>1, <3>3
  <2> QED
    BY <1>6, <2>4, <2>5
<1>7. ASSUME NEW s \in Servers, WorkerInit(s) PROVE Lock(j)'
  <2>1. /\ mode[s] = "down" /\ UNCHANGED <<status, task>>
        /\ lockedBy' = [k \in Jobs |->
                          IF lockedBy[k] = s THEN NoServer ELSE lockedBy[k]]
    BY <1>7 DEF WorkerInit
  <2>2. plan' = plan
    BY <1>7, ScanEffect DEF WorkerInit, IInv
  <2>3. \A t \in Servers : Holds(t, j)' <=> Holds(t, j)
    BY <2>1, <2>2 DEF Holds, Planned
  <2>4. ~Holds(s, j)
    BY <2>1, PlannedNothing DEF Holds, IInv, KickInv, NoTask
  <2> QED
    BY <1>0, <2>1, <2>3, <2>4
<1>8. ASSUME NEW s \in Servers, NEW n \in Jobs,
             \/ JobReturns(s, n) \/ OnDone(s, n) \/ Notified(s, n)
      PROVE  Lock(j)'
  BY <1>2, <1>8, OthersRefine
<1>9. CASE \/ UNCHANGED vars
           \/ \E s \in Servers : Listen(s) \/ ConnectionLost(s) \/ GetNothing(s)
  <2>1. UNCHANGED <<status, lockedBy, plan, task>>
    BY <1>9 DEF vars, Listen, ConnectionLost, GetNothing, table, kick
  <2> QED
    BY <1>2, <2>1 DEF Untouched, Planned
<1> QED
  BY <1>3, <1>4, <1>5, <1>6, <1>7, <1>8, <1>9 DEF Next, Server, Fault

\* ImplementsJobQueue: for any number of processes, instances and jobs and every
\* fault, Worker.Init, Kick and run_instance run the queue as JobQueue says.
THEOREM WorkerImplementsJobQueue == Spec => ImplementsJobQueue
<1>1. Init => Abstract!Init /\ LockInv
  BY InitRefines
<1>2. IInv /\ IInv' /\ LockInv /\ [Next]_vars
         => LockInv' /\ [Abstract!Next]_(Abstract!vars)
  BY NextLockInv, NextRefines
<1> QED
  BY <1>1, <1>2, Invariance, PTL DEF Spec, ImplementsJobQueue, Abstract!Spec

=============================================================================
