------------------------------- MODULE Solver -------------------------------
(***************************************************************************)
(* numerical_rk4_integrate of src/src/simulation/numerical.c: the loop     *)
(* that steps an equation from t0 to t1.  Time is in ticks fine enough for *)
(* half a step; the state vector is known by the time it is the state of.  *)
(***************************************************************************)
EXTENDS Integers

CONSTANTS MaxEnd, MaxDt   \* bounds: t1 and dt, in double ticks

VARIABLES t1, dt, t, state, spc

vars == <<t1, dt, t, state, spc>>

Init == /\ t1 \in 0 .. MaxEnd /\ dt \in {2 * k : k \in 1 .. MaxDt}
        /\ t = 0 /\ state = 0 /\ spc = "loop"

More == t < t1 - dt \div 2

\* numerical_rk4_step: k1 and tmp are allocated before the state is touched.
Step == LET step == IF t + dt > t1 THEN t1 - t ELSE dt
        IN /\ spc = "loop" /\ More
           /\ \/ state' = state + step /\ t' = t + step /\ UNCHANGED spc
              \/ spc' = "NOMEM" /\ UNCHANGED <<state, t>>
           /\ UNCHANGED <<t1, dt>>

Finish == /\ spc = "loop" /\ ~More
          /\ spc' = "OK"
          /\ UNCHANGED <<t1, dt, t, state>>

Next == Step \/ Finish \/ (spc # "loop" /\ UNCHANGED vars)

Spec == Init /\ [][Next]_vars

(***************************************************************************)
(* numerical.h: "Integrate ODE from t0 to t1 with fixed step dt."  A call  *)
(* that returns ERR_OK has got to t1.                                      *)
(***************************************************************************)
ReachesEnd == spc = "OK" => t = t1
=============================================================================
