--------------------------- MODULE CircuitBreaker ---------------------------
(***************************************************************************)
(* runtime.CircuitBreaker (src/internal/runtime/resource.go), which guards *)
(* every InsertLogs of the JSON ingest handler.  Execute takes the lock    *)
(* twice, to ask allowRequest and to recordResult, and runs the guarded    *)
(* function in between without it: any number of HTTP handlers are between *)
(* the two at once, and a result may be recorded in another breaker state  *)
(* than the one that admitted the call.                                    *)
(***************************************************************************)
EXTENDS Integers

CONSTANTS Callers,           \* the handler goroutines
          FailureThreshold,  \* 5 in api.NewServer
          SuccessThreshold,  \* 3
          Timeout,           \* 30 s, in ticks
          MaxInt             \* 2^31 - 1: the counters are int32

ASSUME ThresholdAssumption ==
          /\ MaxInt \in Nat
          /\ FailureThreshold \in 1..MaxInt
          /\ SuccessThreshold \in 1..MaxInt
          /\ Timeout \in Nat

VARIABLES state,         \* what State() reports
          failureCount,
          successCount,
          sinceFailure,  \* time.Since(lastFailureTime), saturated past Timeout
          inflight,      \* the callers between allowRequest and recordResult
          dbUp           \* the environment: does the guarded function work?

vars == <<state, failureCount, successCount, sinceFailure, inflight, dbUp>>
counts == <<failureCount, successCount>>

States == {"closed", "open", "half-open"}

\* Fault: the counter is as wide as it needs to be.
Inc32Unbounded(n) == n + 1

\* int32 addition of one: it wraps.
Inc32(n) == IF n = MaxInt THEN -MaxInt - 1 ELSE n + 1

Expired == sinceFailure > Timeout

TypeOK == /\ state \in States
          /\ failureCount \in 0..MaxInt
          /\ successCount \in (-MaxInt - 1)..MaxInt
          /\ sinceFailure \in 0..(Timeout + 1)
          /\ inflight \in SUBSET Callers
          /\ dbUp \in BOOLEAN

\* The zero lastFailureTime is long past.
Init == /\ state = "closed"
        /\ failureCount = 0
        /\ successCount = 0
        /\ sinceFailure = Timeout + 1
        /\ inflight = {}
        /\ dbUp = TRUE

-----------------------------------------------------------------------------
(* allowRequest: closed and half-open admit everyone. *)

AdmitClosed(c) == /\ c \notin inflight
                  /\ state = "closed"
                  /\ inflight' = inflight \cup {c}
                  /\ UNCHANGED <<state, counts, sinceFailure, dbUp>>

AdmitProbe(c) == /\ c \notin inflight
                 /\ \/ state = "half-open"
                    \/ state = "open" /\ Expired
                 /\ state' = "half-open"
                 /\ inflight' = inflight \cup {c}
                 /\ UNCHANGED <<counts, sinceFailure, dbUp>>

\* Fault: a rejected request counts as a failure of the database.
RejectRestartsTimeout(c) == /\ c \notin inflight
                            /\ state = "open"
                            /\ ~Expired
                            /\ sinceFailure' = 0
                            /\ UNCHANGED <<state, counts, inflight, dbUp>>

\* ErrCircuitOpen: the handler answers 503 and nothing changes.
Reject(c) == /\ c \notin inflight
             /\ state = "open"
             /\ ~Expired
             /\ UNCHANGED vars

-----------------------------------------------------------------------------
(* The guarded function returns and recordResult takes the lock. *)

\* Fault: enough successes close the breaker in whatever state they are recorded.
ClosesInAnyState == Inc32(successCount) >= SuccessThreshold

Closes == state = "half-open" /\ Inc32(successCount) >= SuccessThreshold

\* Fault: a success forgets the failures before it.
RecordSuccessResetsFailures(c) ==
  /\ c \in inflight
  /\ dbUp
  /\ inflight' = inflight \ {c}
  /\ failureCount' = 0
  /\ IF Closes
       THEN state' = "closed" /\ successCount' = 0
       ELSE successCount' = Inc32(successCount) /\ UNCHANGED state
  /\ UNCHANGED <<sinceFailure, dbUp>>

RecordSuccess(c) ==
  /\ c \in inflight
  /\ dbUp
  /\ inflight' = inflight \ {c}
  /\ IF Closes
       THEN state' = "closed" /\ failureCount' = 0 /\ successCount' = 0
       ELSE successCount' = Inc32(successCount) /\ UNCHANGED <<state, failureCount>>
  /\ UNCHANGED <<sinceFailure, dbUp>>

\* Fault: only a closed breaker opens.
RecordFailureOpensOnce(c) ==
  /\ c \in inflight
  /\ ~dbUp
  /\ failureCount < MaxInt
  /\ inflight' = inflight \ {c}
  /\ failureCount' = failureCount + 1
  /\ sinceFailure' = 0
  /\ state' = IF state = "closed" /\ failureCount' >= FailureThreshold THEN "open" ELSE state
  /\ UNCHANGED <<successCount, dbUp>>

\* Bound: fewer than MaxInt failures between two closings.
RecordFailure(c) ==
  /\ c \in inflight
  /\ ~dbUp
  /\ failureCount < MaxInt
  /\ inflight' = inflight \ {c}
  /\ failureCount' = failureCount + 1
  /\ sinceFailure' = 0
  /\ state' = IF failureCount' >= FailureThreshold THEN "open" ELSE state
  /\ UNCHANGED <<successCount, dbUp>>

-----------------------------------------------------------------------------
(* The environment: the clock, and a database that breaks and heals. *)

Elapse == /\ ~Expired
          /\ sinceFailure' = sinceFailure + 1
          /\ UNCHANGED <<state, counts, inflight, dbUp>>

Flip == /\ dbUp' = ~dbUp
        /\ UNCHANGED <<state, counts, sinceFailure, inflight>>

Request(c) == AdmitClosed(c) \/ AdmitProbe(c) \/ Reject(c)
Record(c)  == RecordSuccess(c) \/ RecordFailure(c)

Next == \/ \E c \in Callers : Request(c) \/ Record(c)
        \/ Elapse
        \/ Flip

Spec == Init /\ [][Next]_vars

\* Clients retry (the 503 asks them to), calls return and time passes.  The
\* breaker has no timer of its own: only a request moves it out of open.
Fairness == /\ WF_vars(Elapse)
            /\ \A c \in Callers : WF_vars(Request(c)) /\ WF_vars(Record(c))

FairSpec == Spec /\ Fairness

-----------------------------------------------------------------------------
\* The breaker is tripped exactly while its failure count is at the threshold,
\* whatever late results are recorded: recordResult opens on the count alone and
\* only closing resets it.
TrippedByCount == (state # "closed") <=> (failureCount >= FailureThreshold)

\* In half-open no failure is younger than the timeout: a failure of any call,
\* probe or straggler, sends the breaker back to open for a whole timeout.
HalfOpenIsQuiet == state = "half-open" => Expired

\* If the database stays healthy the breaker closes for good, however its
\* success count wrapped.
Recovers == (<>[]dbUp) => <>[](state = "closed")

\* Refinement: what callers of Execute are promised: no call starts while a failure is
\* younger than the timeout and the breaker tripped, and a late success of a call
\* admitted before the trip cannot close it before that either.
AbstractBreaker == INSTANCE Breaker WITH
              tripped  <- state # "closed",
              age      <- sinceFailure,
              inflight <- inflight
ImplementsBreaker == AbstractBreaker!Spec
=============================================================================
