------------------------------- MODULE Breaker -------------------------------
(***************************************************************************)
(* What a circuit breaker promises the calls it guards, without saying how *)
(* it counts: once tripped it stays tripped until the guarded function has *)
(* not failed for longer than Timeout, no call starts before that, and     *)
(* only a call that succeeds can clear it.                                 *)
(***************************************************************************)
EXTENDS Naturals

CONSTANTS Callers,      \* the goroutines that call Execute
          Timeout       \* the quiet time a tripped breaker waits for

VARIABLES tripped,      \* are calls being held back?
          age,          \* time since the last failure, saturated past Timeout
          inflight      \* the callers whose guarded function is running

absvars == <<tripped, age, inflight>>

Quiet == age > Timeout

Init == /\ tripped = FALSE
        /\ age = Timeout + 1
        /\ inflight = {}

Elapse == /\ ~Quiet
          /\ age' = age + 1
          /\ UNCHANGED <<tripped, inflight>>

Start(c) == /\ c \notin inflight
            /\ tripped => Quiet
            /\ inflight' = inflight \cup {c}
            /\ UNCHANGED <<tripped, age>>

Succeed(c) == /\ c \in inflight
              /\ inflight' = inflight \ {c}
              /\ \/ tripped' = tripped
                 \/ Quiet /\ tripped' = FALSE
              /\ UNCHANGED age

Fail(c) == /\ c \in inflight
           /\ inflight' = inflight \ {c}
           /\ age' = 0
           /\ tripped' = tripped \/ tripped' = TRUE

Next == Elapse \/ \E c \in Callers : Start(c) \/ Succeed(c) \/ Fail(c)

Spec == Init /\ [][Next]_absvars
=============================================================================
