------------------------------- MODULE JobQueue -------------------------------
(***************************************************************************)
(* What the job queue promises: a user has one open job at a time; a job   *)
(* is claimed by one server, started by that server, once, and finished by *)
(* it.  A job that its server loses goes adrift: nobody ever runs it again *)
(* and it stays open.  Worker is shown to implement this.                  *)
(***************************************************************************)

CONSTANTS
    Jobs,
    Owner,      \* the user of a job
    Servers,
    NoServer

VARIABLES
    state,      \* "absent", "queued", "held" (claimed and not started yet),
                \* "working", "finished" or "adrift"
    by          \* the server that has claimed a job

vars == <<state, by>>

Open(j) == state[j] \notin {"absent", "finished"}

\* The jobs of S become st, the others stay as they are.
Become(S, st) == state' = [j \in Jobs |-> IF j \in S THEN st ELSE state[j]]
TakenBy(S, s) == by' = [j \in Jobs |-> IF j \in S THEN s ELSE by[j]]

Init ==
    /\ state = [j \in Jobs |-> "absent"]
    /\ by = [j \in Jobs |-> NoServer]

Queue(j) ==
    /\ state[j] = "absent"
    /\ \A k \in Jobs : Owner[k] = Owner[j] => ~Open(k)
    /\ Become({j}, "queued")
    /\ UNCHANGED by

\* A server may claim several jobs, and may find that it cannot run them.
Claim(s, S) ==
    /\ \A j \in S : state[j] = "queued"
    /\ Become(S, "held") \/ Become(S, "adrift")
    /\ TakenBy(S, s)

Start(s) ==
    /\ Become({j \in Jobs : state[j] = "held" /\ by[j] = s}, "working")
    /\ UNCHANGED by

Finish(s, j) ==
    /\ state[j] = "working" /\ by[j] = s
    /\ Become({j}, "finished")
    /\ TakenBy({j}, NoServer)

\* A server loses what it has claimed, all of it or a job.
Lose(s, S) ==
    /\ \A j \in S : state[j] \in {"held", "working"} /\ by[j] = s
    /\ Become(S, "adrift")
    /\ UNCHANGED by

\* A server that starts anew gives up what it had lost.
Release(s) ==
    /\ \A j \in Jobs : by[j] = s => state[j] = "adrift"
    /\ TakenBy({j \in Jobs : by[j] = s}, NoServer)
    /\ UNCHANGED state

Next ==
    \/ \E j \in Jobs : Queue(j)
    \/ \E s \in Servers :
          \/ Start(s) \/ Release(s)
          \/ \E j \in Jobs : Finish(s, j)
          \/ \E S \in SUBSET Jobs : Claim(s, S) \/ Lose(s, S)

Spec == Init /\ [][Next]_vars
=============================================================================
