---------------------------- MODULE JobExecutor ----------------------------
(***************************************************************************)
(* What an executor of jobs promises its users.  Accepted jobs are started *)
(* in the order of their acceptance, each once, at most Width at a time;   *)
(* once the executor is stopping it accepts nothing; it is gone only when  *)
(* every accepted job has finished.                                        *)
(***************************************************************************)
EXTENDS Naturals, Sequences, FiniteSets

CONSTANTS Jobs,    \* what is submitted, each at most once
          Width    \* how many jobs may run at the same time

VARIABLES phase,   \* "down", "up", "stopping" or "gone"
          queue,   \* accepted jobs that have not started, oldest first
          status   \* per job, what its submitter and the world know

vars == <<phase, queue, status>>

In(s) == {j \in Jobs : status[j] = s}

Init == /\ phase = "down"
        /\ queue = <<>>
        /\ status = [j \in Jobs |-> "new"]

\* Opening may fail at once, or be undone.
Open == /\ phase = "down"
        /\ phase' \in {"up", "stopping", "gone"}
        /\ UNCHANGED <<queue, status>>

Accept(j) == /\ phase = "up"
             /\ status[j] = "new"
             /\ status' = [status EXCEPT ![j] = "queued"]
             /\ queue' = Append(queue, j)
             /\ UNCHANGED phase

Refuse(j) == /\ status[j] = "new"
             /\ \/ phase = "stopping" /\ status' = [status EXCEPT ![j] = "rejected"]
                \/ status' = [status EXCEPT ![j] = "nomem"]
             /\ UNCHANGED <<phase, queue>>

Start(j) == /\ phase \in {"up", "stopping"}
            /\ queue # <<>> /\ j = Head(queue)
            /\ Cardinality(In("running")) < Width
            /\ status' = [status EXCEPT ![j] = "running"]
            /\ queue' = Tail(queue)
            /\ UNCHANGED phase

Finish(j) == /\ phase \in {"up", "stopping"}
             /\ status[j] = "running"
             /\ status' = [status EXCEPT ![j] = "done"]
             /\ UNCHANGED <<phase, queue>>

Stop == /\ phase = "up"
        /\ phase' = "stopping"
        /\ UNCHANGED <<queue, status>>

Vanish == /\ phase = "stopping"
          /\ In("queued") \cup In("running") = {}
          /\ phase' = "gone"
          /\ UNCHANGED <<queue, status>>

Next == \/ Open \/ Stop \/ Vanish
        \/ \E j \in Jobs : Accept(j) \/ Refuse(j) \/ Start(j) \/ Finish(j)

Spec == Init /\ [][Next]_vars
=============================================================================
