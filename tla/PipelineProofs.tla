--------------------------- MODULE PipelineProofs ----------------------------
(***************************************************************************)
(* The pipeline's safety for any number of lines and requests, any         *)
(* capacity and batch size: its type, the order of the lines, that what is *)
(* acknowledged is stored, and what a shutdown loses at most.              *)
(***************************************************************************)
EXTENDS Pipeline, SequenceTheorems, TLAPS

\* A batch under work is not empty, and one that waits has room for a line.
BatchInHand == /\ consumer \in {"select", "done"} \/ batch # <<>>
               /\ consumer = "select" => Len(batch) < BatchSize

\* LinesInOrder is kept by handing on the batch's head only because there is one
\* (BatchInHand), and the batch keeps to its size because a batch that waits is
\* smaller.  AcknowledgedIsStored needs nothing but the types.
IInv == TypeOK /\ BatchInHand /\ LinesInOrder /\ AcknowledgedIsStored

-----------------------------------------------------------------------------
(* Moving a line from one sequence to the next. *)

\* Taking the head of t to the end of s leaves their concatenation as it was.
LEMMA MoveHead ==
  ASSUME NEW S, NEW s \in Seq(S), NEW t \in Seq(S), t # <<>>
  PROVE  Append(s, Head(t)) \o Tail(t) = s \o t
<1>1. /\ Head(t) \in S /\ Tail(t) \in Seq(S)
      /\ t = <<Head(t)>> \o Tail(t)
      BY HeadTailProperties
<1>2. Append(s, Head(t)) = s \o <<Head(t)>>
      BY <1>1, AppendIsConcat
<1>3. <<Head(t)>> \in Seq(S)
      BY <1>1
<1>4. QED
      BY <1>1, <1>2, <1>3, ConcatAssociative

\* Appending to the second of two sequences appends to their concatenation.
LEMMA AppendLast ==
  ASSUME NEW S, NEW s \in Seq(S), NEW t \in Seq(S), NEW e \in S
  PROVE  s \o Append(t, e) = Append(s \o t, e)
<1>1. <<e>> \in Seq(S) /\ s \o t \in Seq(S)
      BY ConcatProperties
<1>2. QED
      BY <1>1, AppendIsConcat, ConcatAssociative

\* The first n + 1 lines are the first n and the next.
LEMMA UptoNext ==
  ASSUME NEW n \in Nat
  PROVE  Append(Upto(n), n + 1) = Upto(n + 1)
<1>1. Upto(n) \in Seq(Nat) /\ Len(Upto(n)) = n
      BY SMT DEF Upto
<1>2. Upto(n + 1) \in Seq(Nat) /\ Len(Upto(n + 1)) = n + 1
      BY SMT DEF Upto
<1>3. \A i \in 1..(n + 1) : Append(Upto(n), n + 1)[i] = Upto(n + 1)[i]
      BY <1>1, AppendProperties, SMT DEF Upto
<1>4. QED
      BY <1>1, <1>2, <1>3, AppendProperties, SeqEqual

-----------------------------------------------------------------------------
(* The steps. *)

LEMMA InitIInv == Init => IInv
<1> SUFFICES ASSUME Init PROVE IInv
    OBVIOUS
<1>1. <<>> \in Seq(Entries) /\ Len(<<>>) = 0
      BY EmptySeq
<1>2. /\ 0 \in 0..MaxLines
      /\ 0 <= Capacity /\ 0 <= BatchSize /\ 0 < BatchSize
      BY PipelineAssumption, SMT
<1>3. TypeOK
      BY <1>1, <1>2, Zenon DEF Init, FeedInit, TypeOK
<1>4. BatchInHand /\ AcknowledgedIsStored
      BY <1>1, <1>2, SMT DEF Init, FeedInit, BatchInHand, AcknowledgedIsStored
<1>5. Upto(0) = <<>>
      BY SMT DEF Upto
<1>6. LinesInOrder
      BY <1>5, ConcatEmptySeq, EmptySeq DEF Init, FeedInit, LinesInOrder
<1>7. QED
      BY <1>3, <1>4, <1>6 DEF IInv

\* The collector sends the next line.
LEMMA CollectIInv == ASSUME IInv, Collect PROVE IInv'
<1>1. /\ sent \in 0..MaxLines /\ sent < MaxLines /\ Len(output) < Capacity
      /\ output \in Seq(Entries) /\ batch \in Seq(Entries) /\ processed \in Seq(Entries)
      /\ output' = Append(output, sent + 1)
      /\ sent' = sent + 1
      BY Zenon DEF IInv, TypeOK, Collect, Send
<1>2. UNCHANGED <<closed, consumer, batch, processed, request, stored, storeOpen,
                  broadcastOpen, main, panicked>>
      BY Zenon DEF Collect, Send, consumerVars, serverVars
<1>3. sent \in Nat /\ sent + 1 \in Entries /\ sent' \in 0..MaxLines
      BY <1>1, PipelineAssumption, SMT
<1>4. output' \in Seq(Entries) /\ Len(output') = Len(output) + 1 /\ Len(output) \in Nat
      BY <1>1, <1>3, AppendProperties, LenProperties
<1>5. Len(output') <= Capacity
  <2>1. ASSUME NEW n \in Nat, n < Capacity PROVE n + 1 <= Capacity
        BY <2>1, PipelineAssumption, SMT
  <2>2. QED
        BY <1>1, <1>4, <2>1, Zenon
<1>6. LinesInOrder'
  <2>1. processed \o batch \in Seq(Entries)
        BY <1>1, ConcatProperties
  <2>2. processed \o batch \o output = Upto(sent)
        BY Zenon DEF IInv, LinesInOrder
  <2>3. (processed \o batch) \o Append(output, sent + 1) = Append(Upto(sent), sent + 1)
    <3>1. output \in Seq(Entries) /\ sent + 1 \in Entries
          BY <1>1, <1>3, Zenon
    <3>2. (processed \o batch) \o Append(output, sent + 1)
            = Append((processed \o batch) \o output, sent + 1)
          BY <2>1, <3>1, AppendLast
    <3>3. QED
          BY <2>2, <3>2, Zenon
  <2>4. processed \o batch \o output' = Upto(sent')
        BY <1>1, <1>3, <2>3, UptoNext
  <2>5. QED
        BY <1>2, <2>4, Zenon DEF LinesInOrder
<1>7. TypeOK'
      BY <1>2, <1>3, <1>4, <1>5, Zenon DEF IInv, TypeOK
<1>8. BatchInHand' /\ AcknowledgedIsStored'
      BY <1>2, Zenon DEF IInv, BatchInHand, AcknowledgedIsStored
<1>9. QED
      BY <1>6, <1>7, <1>8 DEF IInv

\* The consumer takes a line into its batch.
LEMMA TakeLineIInv == ASSUME IInv, TakeLine PROVE IInv'
<1>1. /\ output \in Seq(Entries) /\ output # <<>> /\ Len(output) <= Capacity
      /\ batch \in Seq(Entries) /\ Len(batch) < BatchSize
      /\ processed \in Seq(Entries)
      /\ output' = Tail(output) /\ batch' = Append(batch, Head(output))
      /\ consumer' = IF Len(batch') >= BatchSize THEN "insert" ELSE "select"
      BY Zenon DEF IInv, TypeOK, BatchInHand, TakeLine, Receive
<1>2. UNCHANGED <<closed, sent, processed, request, stored, storeOpen, broadcastOpen, main,
                  panicked>>
      BY Zenon DEF TakeLine, Receive, serverVars
<1>3. /\ Head(output) \in Entries
      /\ Tail(output) \in Seq(Entries)
      /\ Len(Tail(output)) = Len(output) - 1 /\ Len(output) \in Nat
      BY <1>1, HeadTailProperties, LenProperties
<1>4. /\ batch' \in Seq(Entries)
      /\ batch' # <<>>
      /\ Len(batch') = Len(batch) + 1 /\ Len(batch) \in Nat
      BY <1>1, <1>3, AppendProperties, LenProperties
<1>5. Len(output') <= Capacity /\ Len(batch') <= BatchSize /\ Len(batch') \in Nat
  <2>1. ASSUME NEW n \in Nat, NEW k \in Nat, n <= Capacity, k < BatchSize
        PROVE  n - 1 <= Capacity /\ k + 1 <= BatchSize /\ k + 1 \in Nat
        BY <2>1, PipelineAssumption, SMT
  <2>2. QED
        BY <1>1, <1>3, <1>4, <2>1, Zenon
<1>6. /\ consumer' \in {"select", "insert"}
      /\ consumer' = "select" => Len(batch') < BatchSize
  <2>1. ASSUME NEW n \in Nat, ~(n >= BatchSize) PROVE n < BatchSize
        BY <2>1, PipelineAssumption, SMT
  <2>2. QED
        BY <1>1, <1>5, <2>1, Zenon
<1>7. LinesInOrder'
  <2>1. Append(batch, Head(output)) \o Tail(output) = batch \o output
        BY <1>1, MoveHead
  <2>2. processed \o Append(batch, Head(output)) \o Tail(output)
          = processed \o batch \o output
    <3>1. Append(batch, Head(output)) \in Seq(Entries)
          BY <1>1, <1>4
    <3>2. (processed \o Append(batch, Head(output))) \o Tail(output)
            = processed \o (Append(batch, Head(output)) \o Tail(output))
      <4>1. processed \in Seq(Entries) /\ Tail(output) \in Seq(Entries)
            BY <1>1, <1>3
      <4>2. QED
            BY <3>1, <4>1, ConcatAssociative
    <3>3. processed \o (batch \o output) = (processed \o batch) \o output
          BY <1>1, ConcatAssociative
    <3>4. QED
          BY <2>1, <3>2, <3>3, Zenon
  <2>3. QED
        BY <1>1, <1>2, <2>2, Zenon DEF IInv, LinesInOrder
<1>8. TypeOK'
      BY <1>1, <1>2, <1>3, <1>4, <1>5, <1>6, Zenon DEF IInv, TypeOK
<1>9. BatchInHand' /\ AcknowledgedIsStored'
      BY <1>2, <1>4, <1>6, Zenon DEF IInv, BatchInHand, AcknowledgedIsStored
<1>10. QED
      BY <1>7, <1>8, <1>9 DEF IInv

\* The batch goes into the database, or does not.
LEMMA InsertBatchIInv == ASSUME IInv, InsertBatch PROVE IInv'
<1>1. UNCHANGED <<output, closed, sent, batch, processed, request, storeOpen, broadcastOpen,
                  main, panicked>>
      BY Zenon DEF InsertBatch, feedVars, serverVars
<1>2. Range(batch) \subseteq Entries
  <2>1. batch \in Seq(Entries)
        BY Zenon DEF IInv, TypeOK
  <2>2. QED
        BY <2>1, LenProperties, ElementOfSeq DEF Range
<1>3. stored \subseteq stored' /\ stored' \in SUBSET (Entries \cup Requests)
      BY <1>2, Zenon DEF IInv, TypeOK, InsertBatch
<1>4. /\ consumer \in {"insert", "lastinsert"}
      /\ consumer' = IF consumer = "insert" THEN "process" ELSE "lastprocess"
      BY Zenon DEF InsertBatch
<1>5. consumer' \in {"process", "lastprocess"} /\ batch # <<>>
  <2>1. consumer \in {"select", "done"} \/ batch # <<>>
        BY Zenon DEF IInv, BatchInHand
  <2>2. QED
        BY <1>4, <2>1, SMT
<1>6. TypeOK'
      BY <1>1, <1>3, <1>5, Zenon DEF IInv, TypeOK
<1>7. BatchInHand'
  <2>1. consumer' # "select"
        BY <1>5, SMT
  <2>2. QED
        BY <1>1, <1>5, <2>1, Zenon DEF BatchInHand
<1>8. LinesInOrder' /\ AcknowledgedIsStored'
      BY <1>1, <1>3, Zenon DEF IInv, LinesInOrder, AcknowledgedIsStored
<1>9. QED
      BY <1>6, <1>7, <1>8 DEF IInv

\* The batch's head goes to the detector, or the process dies.
LEMMA ProcessLineIInv == ASSUME IInv, ProcessLine PROVE IInv'
<1>1. CASE ~broadcastOpen
  <2>1. /\ UNCHANGED <<output, closed, sent, consumer, batch, processed, request, stored,
                       storeOpen, broadcastOpen>>
        /\ panicked' = TRUE /\ main' = "exited"
        BY <1>1, Zenon DEF ProcessLine, feedVars, consumerVars
  <2>2. QED
        BY <2>1, Zenon DEF IInv, TypeOK, BatchInHand, LinesInOrder, AcknowledgedIsStored
<1>2. CASE broadcastOpen
  <2>1. /\ processed' = Append(processed, Head(batch)) /\ batch' = Tail(batch)
        /\ consumer \in {"process", "lastprocess"}
        /\ consumer' = CASE batch' # <<>> -> consumer
                         [] batch' = <<>> /\ consumer = "process" -> "select"
                         [] OTHER -> "done"
        /\ UNCHANGED <<output, closed, sent, request, stored, storeOpen, broadcastOpen, main,
                       panicked>>
        BY <1>2, Zenon DEF ProcessLine, feedVars
  <2>2. batch # <<>>
    <3>1. consumer \in {"select", "done"} \/ batch # <<>>
          BY Zenon DEF IInv, BatchInHand
    <3>2. QED
          BY <2>1, <3>1, SMT
  <2>3. batch \in Seq(Entries) /\ processed \in Seq(Entries) /\ Len(batch) <= BatchSize
        BY Zenon DEF IInv, TypeOK
  <2>4. /\ Head(batch) \in Entries
        /\ batch' \in Seq(Entries)
        /\ Len(batch') = Len(batch) - 1 /\ Len(batch) \in Nat
        /\ processed' \in Seq(Entries)
        BY <2>1, <2>2, <2>3, HeadTailProperties, LenProperties, AppendProperties
  <2>5. Len(batch') <= BatchSize
    <3>1. ASSUME NEW n \in Nat, n <= BatchSize PROVE n - 1 <= BatchSize
          BY <3>1, PipelineAssumption, SMT
    <3>2. QED
          BY <2>3, <2>4, <3>1, Zenon
  <2>6. /\ consumer' \in {"process", "lastprocess", "select", "done"}
        /\ consumer' \in {"select", "done"} \/ batch' # <<>>
        /\ consumer' = "select" => batch' = <<>>
        BY <2>1, SMT
  <2>7. batch' = <<>> => Len(batch') < BatchSize
        BY PipelineAssumption, SMT
  <2>8. LinesInOrder'
    <3>1. Append(processed, Head(batch)) \o Tail(batch) = processed \o batch
          BY <2>2, <2>3, MoveHead
    <3>2. QED
          BY <2>1, <3>1, Zenon DEF IInv, LinesInOrder
  <2>9. TypeOK'
        BY <2>1, <2>4, <2>5, <2>6, Zenon DEF IInv, TypeOK
  <2>10. BatchInHand' /\ AcknowledgedIsStored'
        BY <2>1, <2>6, <2>7, Zenon DEF IInv, BatchInHand, AcknowledgedIsStored
  <2>11. QED
        BY <2>8, <2>9, <2>10 DEF IInv
<1>3. QED
      BY <1>1, <1>2

\* What is left of the consumer: the ticker, and the closed channel.
LEMMA FlushIInv == ASSUME IInv, Tick \/ SeeClosed PROVE IInv'
<1>1. UNCHANGED <<output, closed, sent, batch, processed, request, stored, storeOpen,
                  broadcastOpen, main, panicked>>
      BY Zenon DEF Tick, SeeClosed, feedVars, serverVars
<1>2. /\ consumer' \in {"insert", "lastinsert", "done"}
      /\ consumer' = "done" \/ batch # <<>>
      BY Zenon DEF Tick, SeeClosed
<1>3. TypeOK'
      BY <1>1, <1>2, Zenon DEF IInv, TypeOK
<1>4. BatchInHand'
  <2>1. consumer' # "select"
        BY <1>2, SMT
  <2>2. QED
        BY <1>1, <1>2, <2>1, Zenon DEF BatchInHand
<1>5. LinesInOrder' /\ AcknowledgedIsStored'
      BY <1>1, Zenon DEF IInv, LinesInOrder, AcknowledgedIsStored
<1>6. QED
      BY <1>3, <1>4, <1>5 DEF IInv

\* A request arrives, is processed, is inserted.
LEMMA RequestIInv ==
  ASSUME IInv, NEW r \in Requests, Arrive(r) \/ Handle(r) PROVE IInv'
<1>1. UNCHANGED <<output, closed, sent, consumer, batch, processed, storeOpen,
                  broadcastOpen, main, panicked>>
      BY Zenon DEF Arrive, Handle, ProcessRequest, InsertRequest, feedVars, consumerVars,
                   serverVars
<1>2. /\ stored' \in SUBSET (Entries \cup Requests)
      /\ stored \subseteq stored'
  <2>1. stored' = stored \/ stored' = stored \cup {r}
        BY Zenon DEF Arrive, Handle, ProcessRequest, InsertRequest
  <2>2. stored \in SUBSET (Entries \cup Requests)
        BY Zenon DEF IInv, TypeOK
  <2>3. QED
        BY <2>1, <2>2, SMT
<1>3. PICK where \in {"process", "insert", "ok", "failed", "aborted"} :
         /\ request' = [request EXCEPT ![r] = where]
         /\ where = "ok" => r \in stored'
  <2>1. \/ request' = [request EXCEPT ![r] = "process"]
        \/ request' = [request EXCEPT ![r] = "insert"]
        \/ request' = [request EXCEPT ![r] = "aborted"]
        \/ request' = [request EXCEPT ![r] = "failed"]
        \/ request' = [request EXCEPT ![r] = "ok"] /\ r \in stored'
    <3>1. CASE Arrive(r)
          BY <3>1, Zenon DEF Arrive
    <3>2. CASE InsertRequest(r)
          BY <3>2, Zenon DEF InsertRequest
    <3>3. CASE ProcessRequest(r) /\ broadcastOpen
          BY <3>3, Zenon DEF ProcessRequest
    <3>4. CASE ProcessRequest(r) /\ ~broadcastOpen
          BY <3>4, Zenon DEF ProcessRequest
    <3>5. QED
          BY <3>1, <3>2, <3>3, <3>4, Zenon DEF Handle
  <2>2. QED
        BY <2>1, SMT
<1>4. request \in [Requests -> {"none", "process", "insert", "ok", "failed", "aborted"}]
      BY Zenon DEF IInv, TypeOK
<1>5. request' \in [Requests -> {"none", "process", "insert", "ok", "failed", "aborted"}]
      BY <1>3, <1>4, SMT
<1>6. AcknowledgedIsStored'
  <2>1. \A q \in Requests : request[q] = "ok" => q \in stored
        BY Zenon DEF IInv, AcknowledgedIsStored
  <2>2. QED
        BY <1>2, <1>3, <1>4, <2>1, SMT DEF AcknowledgedIsStored
<1>7. TypeOK'
      BY <1>1, <1>2, <1>5, Zenon DEF IInv, TypeOK
<1>8. BatchInHand' /\ LinesInOrder'
      BY <1>1, Zenon DEF IInv, BatchInHand, LinesInOrder
<1>9. QED
      BY <1>6, <1>7, <1>8 DEF IInv

\* main's steps move neither lines nor requests.
LEMMA MainIInv == ASSUME IInv, Signal \/ MainStep PROVE IInv'
<1>1. UNCHANGED <<output, sent, consumer, batch, processed, request, stored, panicked>>
      BY Zenon DEF Signal, MainStep, HttpShutdown, CollectorClose, ServerShutdown,
                   CloseBroadcast, StoreClose, Exit, CloseFeed, feedVars, consumerVars
<1>2. /\ closed' = closed \/ closed' = TRUE
      /\ storeOpen' = storeOpen \/ storeOpen' = FALSE
      /\ broadcastOpen' = broadcastOpen \/ broadcastOpen' = FALSE
      BY Zenon DEF Signal, MainStep, HttpShutdown, CollectorClose, ServerShutdown,
                   CloseBroadcast, StoreClose, Exit, CloseFeed, feedVars
<1>3. main' = main \/ main' \in {"http", "collector", "server", "sleep", "return", "exited"}
      BY Zenon DEF Signal, MainStep, HttpShutdown, CollectorClose, ServerShutdown,
                   CloseBroadcast, StoreClose, Exit
<1>4. TypeOK'
      BY <1>1, <1>2, <1>3, Zenon DEF IInv, TypeOK
<1>5. BatchInHand' /\ LinesInOrder' /\ AcknowledgedIsStored'
      BY <1>1, Zenon DEF IInv, BatchInHand, LinesInOrder, AcknowledgedIsStored
<1>6. QED
      BY <1>4, <1>5 DEF IInv

\* Every step preserves the inductive invariant.
LEMMA NextIInv == IInv /\ [Next]_vars => IInv'
<1> SUFFICES ASSUME IInv, [Next]_vars PROVE IInv'
    OBVIOUS
<1>1. CASE UNCHANGED vars
      BY <1>1, Zenon DEF vars, feedVars, consumerVars, serverVars, IInv, TypeOK, BatchInHand,
                         LinesInOrder, AcknowledgedIsStored
<1>2. QED
      BY <1>1, CollectIInv, TakeLineIInv, InsertBatchIInv, ProcessLineIInv, FlushIInv,
         RequestIInv, MainIInv
         DEF Next, Consume

\* The inductive invariant holds in every reachable state.
THEOREM Invariance == Spec => []IInv
BY InitIInv, NextIInv, PTL DEF Spec

\* main.go:182-219: the consumer's batch keeps to its size, the channel to its
\* capacity, and all of the pipeline's state its type.
THEOREM TypeCorrect == Spec => []TypeOK
BY Invariance, PTL DEF IInv

\* main.go:182-219: however the batches are flushed, the lines the collector sent are
\* those processed, those in the batch and those in the channel, in this order.
THEOREM LinesInOrderHolds == Spec => []LinesInOrder
BY Invariance, PTL DEF IInv

\* server.go:347-369: a request answered 200 is stored, also during a shutdown.
THEOREM AcknowledgedIsStoredHolds == Spec => []AcknowledgedIsStored
BY Invariance, PTL DEF IInv

\* A process that stops or dies loses no more of the collected lines than the channel and
\* one batch hold, though nobody waits for the consumer.
LossIsBounded == ~Running => sent - Len(processed) <= Capacity + BatchSize

\* main.go:182-219, main.go:169-180: a shutdown loses what the channel and the batch hold, and
\* nothing else: every line is in one of them or processed.
THEOREM LossIsBoundedHolds == Spec => []LossIsBounded
<1>1. IInv => LossIsBounded
  <2> SUFFICES ASSUME IInv PROVE sent - Len(processed) <= Capacity + BatchSize
      BY DEF LossIsBounded
  <2>1. /\ processed \in Seq(Entries) /\ batch \in Seq(Entries) /\ output \in Seq(Entries)
        /\ Len(batch) <= BatchSize /\ Len(output) <= Capacity /\ sent \in Nat
        BY PipelineAssumption, SMT DEF IInv, TypeOK
  <2>2. Len(processed \o batch \o output) = Len(processed) + Len(batch) + Len(output)
        BY <2>1, ConcatProperties
  <2>3. Len(Upto(sent)) = sent
        BY <2>1, SMT DEF Upto
  <2>4. sent = Len(processed) + Len(batch) + Len(output)
        BY <2>2, <2>3 DEF IInv, LinesInOrder
  <2>5. Len(processed) \in Nat /\ Len(batch) \in Nat /\ Len(output) \in Nat
        BY <2>1, LenProperties
  <2>6. QED
        BY <2>1, <2>4, <2>5, PipelineAssumption, SMT
<1>2. QED
      BY <1>1, Invariance, PTL
=============================================================================
