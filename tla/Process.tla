------------------------------- MODULE Process -------------------------------
(***************************************************************************)
(* src/src/systems/process.c: a process that starts children one after the *)
(* other with process_exec or process_run, while SIGINT may arrive.        *)
(* process_on_sigint installs its handler without SA_RESTART, so a caught  *)
(* signal makes waitpid return EINTR; the default disposition ends the     *)
(* process.  Children, signals and the shell are external.                 *)
(***************************************************************************)
EXTENDS Integers

CONSTANTS Kids,       \* the children, in the order they are started: 1 .. n
          Statuses,   \* exit codes of programs
          Interrupts, \* SIGINT arrives at most this often
          None

VARIABLES handler,   \* "default" or "caught": the disposition of SIGINT
          proc,      \* child -> what the kernel knows of it
          call,      \* the call in progress and its child, or None
          answers,   \* child -> what the call that started it returned
          signals    \* SIGINTs so far

vars == <<handler, proc, call, answers, signals>>

NoChild == [state |-> "none", how |-> "none", code |-> 0]
Ended(how, code) == [state |-> "zombie", how |-> how, code |-> code]

Init == /\ handler = "default"
        /\ proc = [k \in Kids |-> NoChild]
        /\ call = None
        /\ answers = [k \in Kids |-> None]
        /\ signals = 0

\* process_on_sigint, with a handler or NULL.
ProcessOnSigint(h) == /\ call = None
                      /\ handler' = h
                      /\ UNCHANGED <<proc, call, answers, signals>>

Answered(k) == answers[k] # None
Return(k, fn, err, status) ==
    /\ answers' = [answers EXCEPT ![k] = [fn |-> fn, err |-> err, status |-> status]]
    /\ call' = None

\* process_exec and process_run: fork, here or inside system.
Fork(k, fn) == /\ call = None
               /\ ~Answered(k) /\ \A j \in Kids : j < k => Answered(j)
               /\ \/ /\ proc' = [proc EXCEPT ![k].state = "running"]
                     /\ call' = [fn |-> fn, kid |-> k]
                     /\ UNCHANGED answers
                  \/ Return(k, fn, "IO", None) /\ UNCHANGED proc
               /\ UNCHANGED <<handler, signals>>

\* The child: execvp fails and it exits with 127, its program exits, or a
\* signal ends it.
ChildEnds(k) == /\ proc[k].state = "running"
                /\ \E e \in {Ended("exit", c) : c \in Statuses \cup {127}} \cup {Ended("signal", 0)} :
                     proc' = [proc EXCEPT ![k] = e]
                /\ UNCHANGED <<handler, call, answers, signals>>

WaitedFor == {call.kid}

\* WIFEXITED and WEXITSTATUS; process_run hands on the wait status itself.
ExitStatus(fn, p) == IF fn = "run" THEN <<p.how, p.code>>
                     ELSE IF p.how = "exit" THEN p.code ELSE -1

Waited == /\ call # None
          /\ \E k \in WaitedFor :
               /\ proc[k].state = "zombie"
               /\ proc' = [proc EXCEPT ![k].state = "reaped"]
               /\ Return(call.kid, call.fn, "OK", ExitStatus(call.fn, proc[k]))
          /\ UNCHANGED <<handler, signals>>

\* A caught SIGINT interrupts waitpid, which is not repeated.  system blocks
\* SIGINT while it waits.
Sigint == /\ signals < Interrupts
          /\ handler = "caught"
          /\ signals' = signals + 1
          /\ IF call # None /\ call.fn = "exec" THEN Return(call.kid, "exec", "IO", None)
             ELSE UNCHANGED <<answers, call>>
          /\ UNCHANGED <<handler, proc>>

Done == \A k \in Kids : Answered(k) /\ proc[k].state # "running"

Next == \/ \E h \in {"default", "caught"} : ProcessOnSigint(h)
        \/ \E k \in Kids : Fork(k, "exec") \/ Fork(k, "run") \/ ChildEnds(k)
        \/ Waited \/ Sigint
        \/ Done /\ UNCHANGED vars

Spec == Init /\ [][Next]_vars

(***************************************************************************)
(* process.c: a status returned with ERR_OK is that of the child the call  *)
(* started, also when an interrupted call left another child behind.       *)
(***************************************************************************)
StatusIsTheChilds ==
    \A k \in Kids : Answered(k) /\ answers[k].err = "OK" =>
      /\ proc[k].state = "reaped"
      /\ answers[k].status = ExitStatus(answers[k].fn, proc[k])

(***************************************************************************)
(* process.h of process_exec: "Parent waits for the child."  When the call *)
(* has returned its child is gone.                                         *)
(***************************************************************************)
ParentWaits == \A k \in Kids : Answered(k) => proc[k].state \in {"none", "reaped"}
=============================================================================
