------------------------ MODULE CircuitBreakerProofs ------------------------
(***************************************************************************)
(* The circuit breaker's safety for any number of callers, any thresholds  *)
(* and timeout: its type, its two invariants and the abstract breaker it   *)
(* implements.                                                             *)
(***************************************************************************)
EXTENDS CircuitBreaker, TLAPS

\* Neither invariant is inductive alone: that a failure in half-open reopens the
\* breaker (HalfOpenIsQuiet) needs the count to be at the threshold already
\* (TrippedByCount), and both need the types.
IInv == TypeOK /\ TrippedByCount /\ HalfOpenIsQuiet

\* An int32 increment stays an int32.
LEMMA Inc32Type ==
  \A n \in (-MaxInt - 1)..MaxInt : Inc32(n) \in (-MaxInt - 1)..MaxInt
BY ThresholdAssumption, SMT DEF Inc32

LEMMA InitIInv == Init => IInv
BY ThresholdAssumption, SMT DEF Init, IInv, TypeOK, TrippedByCount, HalfOpenIsQuiet, States, Expired

\* Every step of the breaker preserves the inductive invariant.
LEMMA NextIInv == IInv /\ [Next]_vars => IInv'
<1> SUFFICES ASSUME IInv, [Next]_vars PROVE IInv'
    OBVIOUS
<1> USE ThresholdAssumption DEF IInv, TypeOK, TrippedByCount, HalfOpenIsQuiet, States,
                                Expired, counts, vars
<1>1. ASSUME NEW c \in Callers, AdmitClosed(c) PROVE IInv'
      BY <1>1, SMT DEF AdmitClosed
<1>2. ASSUME NEW c \in Callers, AdmitProbe(c) PROVE IInv'
      BY <1>2, SMT DEF AdmitProbe
<1>3. ASSUME NEW c \in Callers, RecordSuccess(c) PROVE IInv'
  <2>1. CASE Closes
        BY <1>3, <2>1, SMT DEF RecordSuccess, Closes
  <2>2. CASE ~Closes
    <3>1. successCount' \in (-MaxInt - 1)..MaxInt
          BY <1>3, <2>2, Inc32Type DEF RecordSuccess
    <3>2. QED
          BY <1>3, <2>2, <3>1, SMT DEF RecordSuccess
  <2>3. QED
        BY <2>1, <2>2
<1>4. ASSUME NEW c \in Callers, RecordFailure(c) PROVE IInv'
      BY <1>4, SMT DEF RecordFailure
<1>5. CASE Elapse
      BY <1>5, SMT DEF Elapse
<1>6. CASE Flip
      BY <1>6, SMT DEF Flip
<1>7. CASE UNCHANGED vars
      BY <1>7
<1>8. QED
      BY <1>1, <1>2, <1>3, <1>4, <1>5, <1>6, <1>7 DEF Next, Request, Record, Reject

\* The inductive invariant holds in every reachable state.
THEOREM Invariance == Spec => []IInv
BY InitIInv, NextIInv, PTL DEF Spec

\* resource.go:139: the breaker's fields keep their types, the success count
\* staying an int32 however often recordResult increments it.
THEOREM TypeCorrect == Spec => []TypeOK
BY Invariance, PTL DEF IInv

\* resource.go:200-209: the breaker is tripped exactly while its failure count is
\* at the threshold.
THEOREM TrippedByCountHolds == Spec => []TrippedByCount
BY Invariance, PTL DEF IInv

\* resource.go:189-205: no failure is younger than the timeout in half-open.
THEOREM HalfOpenIsQuietHolds == Spec => []HalfOpenIsQuiet
BY Invariance, PTL DEF IInv

-----------------------------------------------------------------------------
(* The refinement. *)

USE DEF AbstractBreaker!Init, AbstractBreaker!Quiet, AbstractBreaker!Elapse,
        AbstractBreaker!Start, AbstractBreaker!Succeed, AbstractBreaker!Fail,
        AbstractBreaker!absvars

LEMMA InitRefines == Init => AbstractBreaker!Init
BY SMT DEF Init

\* Every step of the counting breaker is a step of the abstract one or a stutter.
LEMMA StepRefines == IInv /\ [Next]_vars => [AbstractBreaker!Next]_(AbstractBreaker!absvars)
<1> SUFFICES ASSUME IInv, [Next]_vars
             PROVE  [AbstractBreaker!Next]_(AbstractBreaker!absvars)
    OBVIOUS
<1> USE ThresholdAssumption DEF IInv, TypeOK, TrippedByCount, HalfOpenIsQuiet, States,
                                Expired, counts, vars
<1>1. ASSUME NEW c \in Callers, AdmitClosed(c) PROVE AbstractBreaker!Start(c)
      BY <1>1, SMT DEF AdmitClosed
<1>2. ASSUME NEW c \in Callers, AdmitProbe(c) PROVE AbstractBreaker!Start(c)
      BY <1>2, SMT DEF AdmitProbe
<1>3. ASSUME NEW c \in Callers, RecordSuccess(c) PROVE AbstractBreaker!Succeed(c)
      BY <1>3, SMT DEF RecordSuccess, Closes
<1>4. ASSUME NEW c \in Callers, RecordFailure(c) PROVE AbstractBreaker!Fail(c)
      BY <1>4, SMT DEF RecordFailure
<1>5. CASE Elapse
      BY <1>5, SMT DEF Elapse, AbstractBreaker!Next
<1>6. CASE Flip
      BY <1>6 DEF Flip
<1>7. CASE UNCHANGED vars
      BY <1>7
<1>8. QED
      BY <1>1, <1>2, <1>3, <1>4, <1>5, <1>6, <1>7
         DEF Next, Request, Record, Reject, AbstractBreaker!Next

\* The counting breaker implements the abstract one: no call starts while a
\* failure is younger than the timeout and the breaker tripped.
THEOREM Refinement == Spec => ImplementsBreaker
BY InitRefines, StepRefines, Invariance, PTL
   DEF Spec, ImplementsBreaker, AbstractBreaker!Spec
=============================================================================
