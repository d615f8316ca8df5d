------------------------------ MODULE HubProofs ------------------------------
(***************************************************************************)
(* The hub's safety for any connections, limit, capacity and number of     *)
(* messages: its type, that every registered connection has a handler,     *)
(* that a client's stream has no gap, repetition or disorder, that the hub *)
(* implements Broadcast, and what the limit on connections does limit.     *)
(***************************************************************************)
EXTENDS Hub, FiniteSetTheorems, SequenceTheorems, TLAPS

\* The message broadcastLoop took and has no snapshot for yet.
Pending == IF loop = "took" THEN 1 ELSE 0

\* Messages are numbered in the order of the channel: those of which a snapshot was taken,
\* the one in hand, those in the queue.
Numbered == /\ taken + Pending + Len(queue) = accepted
            /\ queue = [i \in 1..Len(queue) |-> taken + Pending + i]
            /\ loop = "took" => msg = taken + 1
            /\ loop = "writing" => msg = taken

\* Only a connection registered before the snapshot is written to, and nothing was sent
\* to one that is not registered yet.
TargetsJoined == /\ loop # "writing" => targets = {}
                 /\ \A c \in Conns : joined[c] <= taken
                 /\ \A c \in targets : joined[c] < taken
                 /\ \A c \in Conns : handler[c] \in {"new", "checked"} =>
                                       inbox[c] = <<>> /\ c \notin targets

IInv == /\ TypeOK
        /\ Numbered
        /\ TargetsJoined
        /\ RegisteredAreServed
        /\ StreamsEveryMessage

-----------------------------------------------------------------------------
(* Runs of consecutive numbers. *)

Run(from, n) == [i \in 1..n |-> from + i]

\* The next number makes a run longer.
LEMMA AppendRun ==
  ASSUME NEW from \in Nat, NEW n \in Nat
  PROVE  /\ Run(from, n) \in Seq(Nat) /\ Len(Run(from, n)) = n
         /\ Append(Run(from, n), from + n + 1) = Run(from, n + 1)
<1>1. Run(from, n) \in Seq(Nat) /\ Len(Run(from, n)) = n
      BY SMT DEF Run
<1>2. QED
      BY <1>1, SMT DEF Run

\* Without its first number it starts one later.
LEMMA TailRun ==
  ASSUME NEW from \in Nat, NEW n \in Nat, n > 0
  PROVE  /\ Head(Run(from, n)) = from + 1
         /\ Tail(Run(from, n)) = Run(from + 1, n - 1)
<1>1. Run(from, n) \in Seq(Nat) /\ Len(Run(from, n)) = n
      BY SMT DEF Run
<1>2. Head(Run(from, n)) = from + 1
      BY <1>1, SMT DEF Run
<1>3. Run(from, n) # <<>>
      BY <1>1, SMT
<1>4. /\ Tail(Run(from, n)) \in Seq(Nat)
      /\ Len(Tail(Run(from, n))) = n - 1
      /\ \A i \in 1..(n - 1) : Tail(Run(from, n))[i] = Run(from, n)[i + 1]
      BY <1>1, <1>3, HeadTailProperties
<1>5. \A i \in 1..(n - 1) : Run(from, n)[i + 1] = Run(from + 1, n - 1)[i]
      BY SMT DEF Run
<1>6. Run(from + 1, n - 1) \in Seq(Nat) /\ Len(Run(from + 1, n - 1)) = n - 1
      BY SMT DEF Run
<1>7. Tail(Run(from, n)) = Run(from + 1, n - 1)
      BY <1>4, <1>5, <1>6, SeqEqual
<1>8. QED
      BY <1>2, <1>7

\* Sets of connections are finite and no larger than all of them.
LEMMA CountConns ==
  ASSUME NEW S \in SUBSET Conns
  PROVE  Cardinality(S) \in 0..Cardinality(Conns)
<1>1. IsFiniteSet(Conns)
      BY HubAssumption
<1>2. IsFiniteSet(S) /\ Cardinality(S) <= Cardinality(Conns)
      BY <1>1, FS_Subset
<1>3. Cardinality(S) \in Nat /\ Cardinality(Conns) \in Nat
      BY <1>1, <1>2, FS_CardinalityType
<1>4. QED
      BY <1>2, <1>3, SMT

LEMMA InitIInv == Init => IInv
<1> SUFFICES ASSUME Init PROVE IInv
    OBVIOUS
<1>1. Cardinality(Conns) \in Nat
      BY HubAssumption, FS_CardinalityType
<1>2. TypeOK
      BY <1>1, HubAssumption, SMT DEF Init, TypeOK, Messages
<1>3. Numbered
      BY SMT DEF Init, Numbered, Pending
<1>4. TargetsJoined /\ RegisteredAreServed /\ StreamsEveryMessage
      BY SMT DEF Init, TargetsJoined, RegisteredAreServed, StreamsEveryMessage
<1>5. QED
      BY <1>2, <1>3, <1>4 DEF IInv

-----------------------------------------------------------------------------
(* The handlers. *)

\* A step of a handler that neither registers nor touches the stream.
LEMMA HandlerStep ==
  ASSUME IInv, NEW c \in Conns, CheckLimit(c) \/ UpgradeFails(c) \/ SetGauge(c) \/ Unregister(c)
  PROVE  IInv'
<1>1. UNCHANGED <<peer, queue, accepted, loop, msg, targets, taken, phase, joined, inbox>>
      BY DEF CheckLimit, UpgradeFails, SetGauge, Unregister, loopVars
<1>2. \E w \in {"checked", "serving", "deleted", "done"} :
        /\ handler' = [handler EXCEPT ![c] = w]
        /\ \/ handler[c] = "new" /\ w \in {"checked", "done"} /\ UNCHANGED <<clients, closed>>
           \/ handler[c] = "checked" /\ w = "done" /\ UNCHANGED <<clients, closed>>
           \/ handler[c] = "added" /\ w = "serving" /\ UNCHANGED <<clients, closed>>
           \/ handler[c] = "deleted" /\ w = "done" /\ clients' = clients /\ closed' = closed \cup {c}
           \/ handler[c] = "serving" /\ w = "deleted" /\ clients' = clients \ {c} /\ closed' = closed
      BY SMT DEF CheckLimit, UpgradeFails, SetGauge, Unregister, Goto
<1>3. PICK w \in {"checked", "serving", "deleted", "done"} :
        /\ handler' = [handler EXCEPT ![c] = w]
        /\ \/ handler[c] = "new" /\ w \in {"checked", "done"} /\ UNCHANGED <<clients, closed>>
           \/ handler[c] = "checked" /\ w = "done" /\ UNCHANGED <<clients, closed>>
           \/ handler[c] = "added" /\ w = "serving" /\ UNCHANGED <<clients, closed>>
           \/ handler[c] = "deleted" /\ w = "done" /\ clients' = clients /\ closed' = closed \cup {c}
           \/ handler[c] = "serving" /\ w = "deleted" /\ clients' = clients \ {c} /\ closed' = closed
      BY <1>2
<1>4. \A d \in Conns : handler'[d] = IF d = c THEN w ELSE handler[d]
      BY <1>3 DEF IInv, TypeOK
<1>5. size' \in [Conns -> 0..Cardinality(Conns)] /\ gauge' \in 0..Cardinality(Conns)
  <2>1. Cardinality(clients \ {c}) \in 0..Cardinality(Conns)
        BY CountConns DEF IInv, TypeOK
  <2>2. size' \in {size, [size EXCEPT ![c] = Cardinality(clients \ {c})]}
        BY DEF CheckLimit, UpgradeFails, SetGauge, Unregister
  <2>3. gauge' \in {gauge, size[c]}
        BY DEF CheckLimit, UpgradeFails, SetGauge, Unregister
  <2>4. size \in [Conns -> 0..Cardinality(Conns)] /\ gauge \in 0..Cardinality(Conns)
        BY DEF IInv, TypeOK
  <2>5. [size EXCEPT ![c] = Cardinality(clients \ {c})] \in [Conns -> 0..Cardinality(Conns)]
        BY <2>1, <2>4, Zenon
  <2>6. QED
        BY <2>2, <2>3, <2>4, <2>5, Zenon
<1>6. TypeOK'
  <2>1. handler' \in [Conns -> {"new", "checked", "added", "serving", "deleted", "done"}]
        BY <1>3 DEF IInv, TypeOK
  <2>2. clients' \in SUBSET Conns /\ closed' \in SUBSET Conns
        BY <1>3 DEF IInv, TypeOK
  <2>3. QED
        BY <1>1, <1>5, <2>1, <2>2 DEF IInv, TypeOK
<1>7. Numbered'
      BY <1>1 DEF IInv, Numbered, Pending
<1>8. TargetsJoined'
  <2>1. \A d \in Conns : handler'[d] \in {"new", "checked"} => handler[d] \in {"new", "checked"}
        BY <1>3, <1>4
  <2>2. QED
        BY <1>1, <2>1 DEF IInv, TargetsJoined
<1>9. RegisteredAreServed'
      BY <1>3, <1>4 DEF IInv, TypeOK, RegisteredAreServed
<1>10. StreamsEveryMessage'
  <2>1. clients' \ closed' \subseteq clients \ closed
        BY <1>3
  <2>2. QED
        BY <1>1, <2>1 DEF IInv, StreamsEveryMessage
<1>11. QED
      BY <1>6, <1>7, <1>8, <1>9, <1>10 DEF IInv

\* A connection joins with the next snapshot; nothing was sent to it.
LEMMA RegisterStep ==
  ASSUME IInv, NEW c \in Conns, Register(c)
  PROVE  IInv'
<1>1. /\ handler[c] = "checked" /\ handler' = [handler EXCEPT ![c] = "added"]
      /\ clients' = clients \cup {c}
      /\ size' = [size EXCEPT ![c] = Cardinality(clients')]
      /\ joined' = [joined EXCEPT ![c] = taken]
      /\ UNCHANGED <<closed, peer, gauge, queue, accepted, loop, msg, targets, taken, phase, inbox>>
      BY DEF Register, Goto, loopVars
<1>2. /\ \A d \in Conns : handler'[d] = IF d = c THEN "added" ELSE handler[d]
      /\ \A d \in Conns : joined'[d] = IF d = c THEN taken ELSE joined[d]
      BY <1>1 DEF IInv, TypeOK
<1>3. inbox[c] = <<>> /\ c \notin targets
      BY <1>1 DEF IInv, TargetsJoined
<1>4. TypeOK'
  <2>1. clients' \in SUBSET Conns
        BY <1>1 DEF IInv, TypeOK
  <2>2. Cardinality(clients') \in 0..Cardinality(Conns)
        BY <2>1, CountConns
  <2>3. size' \in [Conns -> 0..Cardinality(Conns)] /\ joined' \in [Conns -> 0..MaxMessages]
        BY <1>1, <2>2 DEF IInv, TypeOK
  <2>4. handler' \in [Conns -> {"new", "checked", "added", "serving", "deleted", "done"}]
        BY <1>1 DEF IInv, TypeOK
  <2>5. QED
        BY <1>1, <2>1, <2>3, <2>4 DEF IInv, TypeOK
<1>5. Numbered'
      BY <1>1 DEF IInv, Numbered, Pending
<1>6. TargetsJoined'
  <2>1. taken <= taken
        BY SMT DEF IInv, TypeOK
  <2>2. QED
        BY <1>1, <1>2, <1>3, <2>1 DEF IInv, TypeOK, TargetsJoined
<1>7. RegisteredAreServed'
      BY <1>1, <1>2 DEF IInv, TypeOK, RegisteredAreServed
<1>8. StreamsEveryMessage'
  <2> SUFFICES ASSUME NEW d \in clients' \ closed', peer'[d] # "gone"
               PROVE  inbox'[d] = [i \in 1..(taken' - joined'[d] - (IF d \in targets' THEN 1 ELSE 0))
                                     |-> joined'[d] + i]
      BY DEF StreamsEveryMessage
  <2>1. CASE d = c
    <3>1. taken - taken - 0 = 0 /\ 1..0 = {}
          BY SMT DEF IInv, TypeOK
    <3>2. taken' - joined'[d] - (IF d \in targets' THEN 1 ELSE 0) = 0
          BY <1>1, <1>2, <1>3, <2>1, <3>1
    <3>3. [i \in 1..0 |-> joined'[d] + i] = <<>>
          BY SMT
    <3>4. QED
          BY <1>1, <1>3, <2>1, <3>2, <3>3
  <2>2. CASE d # c
        BY <1>1, <1>2, <2>2 DEF IInv, TypeOK, StreamsEveryMessage
  <2>3. QED
        BY <2>1, <2>2
<1>9. QED
      BY <1>4, <1>5, <1>6, <1>7, <1>8 DEF IInv

-----------------------------------------------------------------------------
(* The channel and broadcastLoop. *)

LEMMA PublishStep == IInv /\ Publish => IInv'
<1> SUFFICES ASSUME IInv, Publish PROVE IInv'
    OBVIOUS
<1> DEFINE first == taken + Pending
<1>1. /\ accepted' = accepted + 1 /\ queue' = Append(queue, accepted + 1)
      /\ UNCHANGED <<handler, size, gauge, clients, closed, peer, loop, msg, targets, taken,
                     phase, joined, inbox>>
      BY DEF Publish, handlerVars, loopVars
<1>2. /\ first \in Nat /\ Len(queue) \in Nat /\ accepted \in Nat
      /\ first + Len(queue) = accepted
      /\ queue = Run(first, Len(queue))
      BY SMT DEF IInv, TypeOK, Numbered, Pending, Run
<1>3. queue' = Run(first, Len(queue) + 1) /\ Len(queue') = Len(queue) + 1
  <2>1. accepted + 1 = first + Len(queue) + 1 /\ Len(queue) + 1 \in Nat
        BY <1>2, SMT
  <2>2. queue' = Append(Run(first, Len(queue)), first + Len(queue) + 1)
        BY <1>1, <1>2, <2>1
  <2>3. queue' = Run(first, Len(queue) + 1)
        BY <1>2, <2>2, AppendRun
  <2>4. QED
        BY <1>2, <2>1, <2>3, AppendRun
<1>4. TypeOK'
  <2>1. accepted' \in 0..MaxMessages /\ accepted + 1 \in Messages /\ Len(queue) + 1 <= Capacity
        BY <1>1, <1>2, HubAssumption, SMT DEF Publish, IInv, TypeOK, Messages
  <2>2. queue' \in Seq(Messages)
        BY <1>1, <2>1, AppendProperties DEF IInv, TypeOK
  <2>3. QED
        BY <1>1, <1>3, <2>1, <2>2 DEF IInv, TypeOK
<1>5. Numbered'
  <2>1. Pending' = Pending
        BY <1>1 DEF Pending
  <2>2. taken' + Pending' + Len(queue') = accepted'
        BY <1>1, <1>2, <1>3, <2>1, SMT
  <2>3. QED
        BY <1>1, <1>3, <2>1, <2>2 DEF IInv, Numbered, Run
<1>6. QED
      BY <1>1, <1>4, <1>5 DEF IInv, TargetsJoined, RegisteredAreServed, StreamsEveryMessage

LEMMA TakeStep == IInv /\ Take => IInv'
<1> SUFFICES ASSUME IInv, Take PROVE IInv'
    OBVIOUS
<1>1. /\ loop = "idle"
      /\ UNCHANGED <<handler, size, gauge, clients, closed, peer, accepted, targets, taken, phase,
                     joined, inbox>>
      BY DEF Take, handlerVars
<1>2. targets = {}
      BY <1>1 DEF IInv, TargetsJoined
<1>3. TargetsJoined' /\ RegisteredAreServed' /\ StreamsEveryMessage'
      BY <1>1, <1>2 DEF IInv, TargetsJoined, RegisteredAreServed, StreamsEveryMessage
<1>4. CASE queue # <<>>
  <2>1. loop' = "took" /\ msg' = Head(queue) /\ queue' = Tail(queue)
        BY <1>4 DEF Take
  <2>2. /\ taken \in Nat /\ Len(queue) \in Nat \ {0}
        /\ taken + Len(queue) = accepted
        /\ queue = Run(taken, Len(queue))
    <3>1. queue \in Seq(Messages) /\ taken \in Nat
          BY SMT DEF IInv, TypeOK
    <3>2. Len(queue) \in Nat \ {0}
          BY <1>4, <3>1, EmptySeq, LenProperties, SMT
    <3>3. Pending = 0 /\ taken + 0 = taken
          BY <1>1, <3>1, SMT DEF Pending
    <3>4. QED
          BY <3>1, <3>2, <3>3 DEF IInv, Numbered, Run
  <2>3. Head(queue) = taken + 1 /\ Tail(queue) = Run(taken + 1, Len(queue) - 1)
    <3> DEFINE n == Len(queue)
    <3>1. n \in Nat /\ n > 0
          BY <2>2, SMT
    <3>2. queue = Run(taken, n) /\ taken \in Nat
          BY <2>2
    <3> HIDE DEF n
    <3>3. Head(Run(taken, n)) = taken + 1 /\ Tail(Run(taken, n)) = Run(taken + 1, n - 1)
          BY <3>1, <3>2, TailRun
    <3>4. QED
          BY <3>2, <3>3 DEF n
  <2>4. /\ Head(queue) \in Messages /\ Tail(queue) \in Seq(Messages)
        /\ Len(Tail(queue)) = Len(queue) - 1
        BY <1>4, HeadTailProperties DEF IInv, TypeOK
  <2>5. TypeOK'
    <3>1. Len(queue) - 1 <= Capacity /\ Head(queue) \in 0..MaxMessages
          BY <2>2, <2>4, HubAssumption, SMT DEF IInv, TypeOK, Messages
    <3>2. QED
          BY <1>1, <2>1, <2>4, <3>1 DEF IInv, TypeOK
  <2>6. Numbered'
    <3>1. Pending' = 1
          BY <2>1 DEF Pending
    <3>2. taken + 1 + (Len(queue) - 1) = accepted
          BY <2>2, SMT
    <3>3. QED
          BY <1>1, <2>1, <2>3, <2>4, <3>1, <3>2 DEF Numbered, Run
  <2>7. QED
        BY <1>3, <2>5, <2>6 DEF IInv
<1>5. CASE queue = <<>>
  <2>1. loop' = "done" /\ UNCHANGED <<msg, queue>>
        BY <1>5 DEF Take
  <2>2. TypeOK'
        BY <1>1, <2>1 DEF IInv, TypeOK
  <2>3. Numbered'
        BY <1>1, <2>1 DEF IInv, Numbered, Pending
  <2>4. QED
        BY <1>3, <2>2, <2>3 DEF IInv
<1>6. QED
      BY <1>4, <1>5

\* The snapshot promises its message to every client, and to those alone.
LEMMA SnapshotStep == IInv /\ Snapshot => IInv'
<1> SUFFICES ASSUME IInv, Snapshot PROVE IInv'
    OBVIOUS
<1>1. /\ loop = "took" /\ loop' = "writing" /\ targets' = clients /\ taken' = taken + 1
      /\ UNCHANGED <<handler, size, gauge, clients, closed, peer, queue, accepted, msg, phase,
                     joined, inbox>>
      BY DEF Snapshot, handlerVars
<1>2. targets = {}
      BY <1>1 DEF IInv, TargetsJoined
<1>3. /\ taken \in Nat /\ Len(queue) \in Nat /\ accepted \in 0..MaxMessages
      /\ Pending = 1 /\ Pending' = 0
      BY <1>1, SMT DEF IInv, TypeOK, Pending
<1>4. taken + 1 + Len(queue) = accepted /\ msg = taken + 1
      BY <1>1, <1>3 DEF IInv, Numbered
<1>5. TypeOK'
  <2>1. taken + 1 \in 0..MaxMessages
        BY <1>3, <1>4, HubAssumption, SMT
  <2>2. QED
        BY <1>1, <2>1 DEF IInv, TypeOK
<1>6. Numbered'
  <2>1. (taken + 1) + 0 = taken + 1
        BY <1>3, SMT
  <2>2. queue = [i \in 1..Len(queue) |-> (taken + 1) + i]
        BY <1>3 DEF IInv, Numbered
  <2>3. QED
        BY <1>1, <1>3, <1>4, <2>1, <2>2 DEF Numbered
<1>7. TargetsJoined'
  <2>1. \A c \in Conns : joined[c] <= taken + 1 /\ joined[c] < taken + 1
        BY <1>3, SMT DEF IInv, TypeOK, TargetsJoined
  <2>2. QED
        BY <1>1, <2>1 DEF IInv, TypeOK, TargetsJoined, RegisteredAreServed
<1>8. StreamsEveryMessage'
  <2> SUFFICES ASSUME NEW c \in clients \ closed, peer[c] # "gone"
               PROVE  inbox[c] = [i \in 1..((taken + 1) - joined[c] - 1) |-> joined[c] + i]
      BY <1>1 DEF StreamsEveryMessage
  <2>1. inbox[c] = [i \in 1..(taken - joined[c] - 0) |-> joined[c] + i]
        BY <1>2 DEF IInv, StreamsEveryMessage
  <2>2. taken - joined[c] - 0 = (taken + 1) - joined[c] - 1
        BY <1>3, SMT DEF IInv, TypeOK
  <2>3. QED
        BY <2>1, <2>2
<1>9. QED
      BY <1>1, <1>5, <1>6, <1>7, <1>8 DEF IInv, RegisteredAreServed

\* A written message is the next of its client's stream.
LEMMA WriteStep ==
  ASSUME IInv, NEW c \in Conns, Write(c)
  PROVE  IInv'
<1>1. /\ loop = "writing" /\ c \in targets
      /\ targets' = targets \ {c}
      /\ inbox' = IF peer[c] = "reading" THEN [inbox EXCEPT ![c] = Append(@, msg)] ELSE inbox
      /\ UNCHANGED <<handler, size, gauge, clients, closed, peer, queue, accepted, loop, msg, taken,
                     phase, joined>>
      BY DEF Write, handlerVars
<1>2. \A d \in Conns : d # c => inbox'[d] = inbox[d]
      BY <1>1 DEF IInv, TypeOK
<1>3. msg = taken
      BY <1>1 DEF IInv, Numbered
<1>4. TypeOK'
  <2>1. inbox' \in [Conns -> Seq(Messages)]
    <3>1. taken \in Messages
          BY <1>1, HubAssumption, SMT DEF IInv, TypeOK, TargetsJoined, Messages
    <3>2. Append(inbox[c], msg) \in Seq(Messages)
          BY <1>3, <3>1, AppendProperties DEF IInv, TypeOK
    <3>3. QED
          BY <1>1, <3>2 DEF IInv, TypeOK
  <2>2. QED
        BY <1>1, <2>1 DEF IInv, TypeOK
<1>5. Numbered'
      BY <1>1 DEF IInv, Numbered, Pending
<1>6. TargetsJoined'
  <2>1. handler[c] \notin {"new", "checked"}
        BY <1>1 DEF IInv, TargetsJoined
  <2>2. QED
        BY <1>1, <1>2, <2>1 DEF IInv, TargetsJoined
<1>7. StreamsEveryMessage'
  <2> SUFFICES ASSUME NEW d \in clients \ closed, peer[d] # "gone"
               PROVE  inbox'[d] = [i \in 1..(taken - joined[d] - (IF d \in targets' THEN 1 ELSE 0))
                                     |-> joined[d] + i]
      BY <1>1 DEF StreamsEveryMessage
  <2>1. CASE d = c
    <3> DEFINE n == taken - joined[c] - 1
    <3>1. n \in Nat /\ joined[c] \in Nat /\ joined[c] + n + 1 = taken /\ n + 1 = taken - joined[c] - 0
          BY <1>1, SMT DEF IInv, TypeOK, TargetsJoined
    <3>2. inbox[c] = Run(joined[c], n)
          BY <1>1, <2>1 DEF IInv, StreamsEveryMessage, Run
    <3>3. peer[c] = "reading"
          BY <2>1 DEF Write, IInv, TypeOK
    <3>4. inbox'[c] = Append(inbox[c], msg)
          BY <1>1, <3>3 DEF IInv, TypeOK
    <3>5. inbox'[c] = Run(joined[c], n + 1)
          BY <1>3, <3>1, <3>2, <3>4, AppendRun
    <3>6. c \notin targets'
          BY <1>1
    <3>7. QED
          BY <2>1, <3>1, <3>5, <3>6 DEF Run
  <2>2. CASE d # c
    <3>1. d \in targets' <=> d \in targets
          BY <1>1, <2>2
    <3>2. d \in Conns
          BY DEF IInv, TypeOK
    <3>3. QED
          BY <1>2, <2>2, <3>1, <3>2 DEF IInv, StreamsEveryMessage
  <2>3. QED
        BY <2>1, <2>2
<1>8. QED
      BY <1>1, <1>4, <1>5, <1>6, <1>7 DEF IInv, RegisteredAreServed

LEMMA WriteFailsStep ==
  ASSUME IInv, NEW c \in Conns, WriteFails(c)
  PROVE  IInv'
<1>1. /\ targets' = targets \ {c} /\ clients' = clients \ {c} /\ closed' = closed \cup {c}
      /\ UNCHANGED <<handler, size, gauge, peer, queue, accepted, loop, msg, taken, phase, joined,
                     inbox>>
      BY DEF WriteFails, handlerVars
<1>2. TypeOK'
      BY <1>1 DEF IInv, TypeOK
<1>3. Numbered'
      BY <1>1 DEF IInv, Numbered, Pending
<1>4. TargetsJoined'
      BY <1>1 DEF IInv, TargetsJoined
<1>5. RegisteredAreServed'
      BY <1>1 DEF IInv, RegisteredAreServed
<1>6. StreamsEveryMessage'
  <2>1. \A d \in clients' \ closed' : d \in clients \ closed /\ (d \in targets' <=> d \in targets)
        BY <1>1
  <2>2. QED
        BY <1>1, <2>1 DEF IInv, StreamsEveryMessage
<1>7. QED
      BY <1>2, <1>3, <1>4, <1>5, <1>6 DEF IInv

LEMMA WrittenStep == IInv /\ Written => IInv'
<1> SUFFICES ASSUME IInv, Written PROVE IInv'
    OBVIOUS
<1>1. /\ loop = "writing" /\ targets = {} /\ loop' = "idle"
      /\ UNCHANGED <<handler, size, gauge, clients, closed, peer, queue, accepted, msg, targets,
                     taken, phase, joined, inbox>>
      BY DEF Written, handlerVars
<1>2. Numbered'
      BY <1>1 DEF IInv, Numbered, Pending
<1>3. TypeOK' /\ TargetsJoined'
      BY <1>1 DEF IInv, TypeOK, TargetsJoined
<1>4. QED
      BY <1>1, <1>2, <1>3 DEF IInv, RegisteredAreServed, StreamsEveryMessage

-----------------------------------------------------------------------------
(* Shutdown and the peers. *)

LEMMA ShutdownSteps == IInv /\ (ShutdownClients \/ CloseBroadcast) => IInv'
<1> SUFFICES ASSUME IInv, ShutdownClients \/ CloseBroadcast PROVE IInv'
    OBVIOUS
<1>1. /\ UNCHANGED <<handler, size, gauge, peer, queue, accepted, loop, msg, targets, taken, joined,
                     inbox>>
      /\ clients' \in {clients, {}} /\ closed' \in {closed, closed \cup clients}
      /\ phase' \in {"cleared", "closed"}
      BY DEF ShutdownClients, CloseBroadcast, handlerVars, loopVars
<1>2. clients' \ closed' \subseteq clients \ closed /\ clients' \subseteq clients
      BY <1>1
<1>3. TypeOK'
      BY <1>1 DEF IInv, TypeOK
<1>4. Numbered' /\ TargetsJoined'
      BY <1>1 DEF IInv, Numbered, Pending, TargetsJoined
<1>5. QED
      BY <1>1, <1>2, <1>3, <1>4 DEF IInv, RegisteredAreServed, StreamsEveryMessage

\* Whatever a peer does, it never comes back from having left.
LEMMA PeerSteps ==
  ASSUME IInv, NEW c \in Conns, PeerChanges(c) \/ PeerLeaves(c)
  PROVE  IInv'
<1>1. /\ UNCHANGED <<handler, size, gauge, clients, closed, queue, accepted, loop, msg, targets,
                     taken, phase, joined, inbox>>
      /\ peer[c] # "gone"
      /\ \E p \in {"reading", "stalled", "gone"} : peer' = [peer EXCEPT ![c] = p]
      BY DEF PeerChanges, PeerLeaves, handlerVars, loopVars
<1>2. /\ peer' \in [Conns -> {"reading", "stalled", "gone"}]
      /\ \A d \in Conns : peer'[d] # "gone" => peer[d] # "gone"
      BY <1>1 DEF IInv, TypeOK
<1>3. TypeOK'
      BY <1>1, <1>2 DEF IInv, TypeOK
<1>4. Numbered' /\ TargetsJoined' /\ RegisteredAreServed'
      BY <1>1 DEF IInv, Numbered, Pending, TargetsJoined, RegisteredAreServed
<1>5. StreamsEveryMessage'
      BY <1>1, <1>2 DEF IInv, TypeOK, StreamsEveryMessage
<1>6. QED
      BY <1>3, <1>4, <1>5 DEF IInv

LEMMA NextIInv == IInv /\ [Next]_vars => IInv'
<1> SUFFICES ASSUME IInv, [Next]_vars PROVE IInv'
    OBVIOUS
<1>1. CASE UNCHANGED vars
      BY <1>1 DEF vars, handlerVars, loopVars, IInv, TypeOK, Numbered, Pending, TargetsJoined,
                  RegisteredAreServed, StreamsEveryMessage
<1>2. CASE Next
  <2>1. Drop => UNCHANGED vars
        BY DEF Drop
  <2>2. QED
        BY <1>1, <1>2, <2>1, HandlerStep, RegisterStep, PublishStep, TakeStep, SnapshotStep,
           WriteStep, WriteFailsStep, WrittenStep, ShutdownSteps, PeerSteps
           DEF Next, Handle, BroadcastLoop
<1>3. QED
      BY <1>1, <1>2

\* The inductive invariant holds in every reachable state.
THEOREM Invariance == Spec => []IInv
BY InitIInv, NextIInv, PTL DEF Spec

\* server.go:53-72: the hub's sets, counts and channel keep their types, the channel
\* within its capacity.
THEOREM TypeCorrect == Spec => []TypeOK
BY Invariance, PTL DEF IInv

\* server.go:774-841: no connection stays registered without a handler.
THEOREM RegisteredAreServedHolds == Spec => []RegisteredAreServed
BY Invariance, PTL DEF IInv

\* server.go:885-904: a client that reads gets every message since it registered, once
\* and in order.
THEOREM StreamsEveryMessageHolds == Spec => []StreamsEveryMessage
BY Invariance, PTL DEF IInv

-----------------------------------------------------------------------------
(* Every step of the hub is a step of Broadcast or leaves it unchanged. *)

\* A live client has the message in hand, or is to get it next.
LastInHand == \A c \in Live : LastOf(c) = IF c \in targets THEN taken - 1 ELSE taken

LEMMA LastSeenOf == IInv => LastInHand
<1> SUFFICES ASSUME IInv, NEW c \in Live
             PROVE  LastOf(c) = IF c \in targets THEN taken - 1 ELSE taken
    BY DEF LastInHand
<1> DEFINE n == taken - joined[c] - (IF c \in targets THEN 1 ELSE 0)
<1>1. c \in Conns /\ c \in clients \ closed /\ peer[c] # "gone"
      BY DEF Live, IInv, TypeOK
<1>2. /\ taken \in Nat /\ joined[c] \in Nat /\ n \in Nat
      /\ joined[c] + n = IF c \in targets THEN taken - 1 ELSE taken
      BY <1>1, SMT DEF IInv, TypeOK, TargetsJoined
<1>3. inbox[c] = Run(joined[c], n)
      BY <1>1 DEF IInv, StreamsEveryMessage, Run
<1> HIDE DEF n
<1>4. Run(joined[c], n) \in Seq(Nat) /\ Len(Run(joined[c], n)) = n
      BY <1>2, AppendRun
<1>5. CASE n = 0
  <2>1. inbox[c] = <<>>
        BY <1>3, <1>4, <1>5, EmptySeq
  <2>2. joined[c] + 0 = joined[c]
        BY <1>2, SMT
  <2>3. QED
        BY <1>1, <1>2, <1>5, <2>1, <2>2 DEF LastOf
<1>6. CASE n # 0
  <2>1. inbox[c] # <<>> /\ Len(inbox[c]) = n
        BY <1>3, <1>4, <1>6, SMT
  <2>2. Run(joined[c], n)[n] = joined[c] + n
        BY <1>2, <1>6, SMT DEF Run
  <2>3. QED
        BY <1>1, <1>2, <1>3, <2>1, <2>2 DEF LastOf
<1>7. QED
      BY <1>5, <1>6

\* What is sent to no live client and changes none leaves the broadcast as it was.
LEMMA SameStream ==
  ASSUME Live' = Live, taken' = taken,
         \A c \in Live : inbox'[c] = inbox[c] /\ joined'[c] = joined[c]
  PROVE  UNCHANGED Stream!broadcastVars
<1>1. \A c \in Live : LastOf(c)' = LastOf(c)
      BY Zenon DEF LastOf
<1>2. LastSeen' = [c \in Live' |-> LastOf(c)']
      BY DEF LastSeen
<1>3. LastSeen' = LastSeen
      BY <1>1, <1>2 DEF LastSeen
<1>4. QED
      BY <1>3 DEF Stream!broadcastVars

\* A client that is no longer live leaves; the others have what they had.
LEMMA LeaveStream ==
  ASSUME NEW S \in SUBSET Conns, Live' = Live \ S, taken' = taken,
         UNCHANGED <<inbox, joined>>
  PROVE  Stream!BroadcastNext
<1>1. \A c \in Live : LastOf(c)' = LastOf(c)
      BY DEF LastOf
<1>2. LastSeen' = [c \in Live' |-> LastOf(c)']
      BY DEF LastSeen
<1>3. DOMAIN LastSeen = Live /\ \A c \in Live : LastSeen[c] = LastOf(c)
      BY DEF LastSeen
<1>4. LastSeen' = [c \in Live \ S |-> LastSeen[c]]
      BY <1>1, <1>2, <1>3
<1>5. Stream!Leave(S)
      BY <1>3, <1>4 DEF Stream!Leave, Stream!Joined
<1>6. QED
      BY <1>5 DEF Stream!BroadcastNext

LEMMA InitStream == Init => Stream!BroadcastInit
<1> SUFFICES ASSUME Init PROVE Stream!BroadcastInit
    OBVIOUS
<1>1. Live = {}
      BY DEF Init, Live
<1>2. LastSeen = [c \in {} |-> 0]
      BY <1>1 DEF LastSeen
<1>3. QED
      BY <1>2 DEF Init, Stream!BroadcastInit

\* A connection that registers joins, unless its peer is gone already.
LEMMA RegisterStream ==
  ASSUME IInv, NEW c \in Conns, Register(c)
  PROVE  Stream!BroadcastNext \/ UNCHANGED Stream!broadcastVars
<1>1. /\ handler[c] = "checked" /\ clients' = clients \cup {c}
      /\ joined' = [joined EXCEPT ![c] = taken]
      /\ UNCHANGED <<closed, peer, taken, inbox>>
      BY DEF Register, loopVars
<1>2. \A d \in Conns : joined'[d] = IF d = c THEN taken ELSE joined[d]
      BY <1>1 DEF IInv, TypeOK
<1>3. inbox[c] = <<>> /\ c \notin clients
      BY <1>1 DEF IInv, TargetsJoined, RegisteredAreServed
<1>4. Live \subseteq Conns /\ c \notin Live
      BY <1>3 DEF Live, IInv, TypeOK
<1>5. CASE c \in closed \/ peer[c] = "gone"
  <2>1. Live' = Live
        BY <1>1, <1>5 DEF Live
  <2>2. QED
        BY <1>1, <1>2, <1>4, <2>1, SameStream
<1>6. CASE c \notin closed /\ peer[c] # "gone"
  <2>1. Live' = Live \cup {c}
        BY <1>1, <1>6 DEF Live
  <2>2. \A d \in Live : LastOf(d)' = LastOf(d)
        BY <1>1, <1>2, <1>4, Zenon DEF LastOf
  <2>3. LastOf(c)' = taken
        BY <1>1, <1>2, <1>3 DEF LastOf
  <2>4. LastSeen' = [d \in Live' |-> LastOf(d)']
        BY DEF LastSeen
  <2>5. DOMAIN LastSeen = Live /\ \A d \in Live : LastSeen[d] = LastOf(d)
        BY DEF LastSeen
  <2>6. LastSeen' = [d \in Live \cup {c} |-> IF d = c THEN taken ELSE LastSeen[d]]
        BY <1>4, <2>1, <2>2, <2>3, <2>4, <2>5
  <2>7. Stream!Join(c)
        BY <1>1, <1>4, <2>5, <2>6 DEF Stream!Join, Stream!Joined
  <2>8. QED
        BY <2>7 DEF Stream!BroadcastNext
<1>7. QED
      BY <1>5, <1>6

\* A snapshot begins a message: every live client has the one before.
LEMMA SnapshotStream == IInv /\ Snapshot => Stream!BroadcastNext
<1> SUFFICES ASSUME IInv, Snapshot PROVE Stream!BroadcastNext
    OBVIOUS
<1>1. /\ loop = "took" /\ taken' = taken + 1
      /\ UNCHANGED <<clients, closed, peer, joined, inbox>>
      BY DEF Snapshot
<1>2. targets = {}
      BY <1>1 DEF IInv, TargetsJoined
<1>3. DOMAIN LastSeen = Live /\ \A c \in Live : LastSeen[c] = taken
      BY <1>2, LastSeenOf DEF LastSeen, LastInHand
<1>4. LastSeen' = LastSeen
  <2>1. Live' = Live
        BY <1>1 DEF Live
  <2>2. \A c \in Live : LastOf(c)' = LastOf(c)
        BY <1>1 DEF LastOf
  <2>3. LastSeen' = [c \in Live' |-> LastOf(c)']
        BY DEF LastSeen
  <2>4. QED
        BY <2>1, <2>2, <2>3 DEF LastSeen
<1>5. Stream!Begin
      BY <1>1, <1>3, <1>4 DEF Stream!Begin, Stream!Joined
<1>6. QED
      BY <1>5 DEF Stream!BroadcastNext

\* A write gives its live client the message in hand; one to a connection that is not
\* live is nobody's.
LEMMA WriteStream ==
  ASSUME IInv, NEW c \in Conns, Write(c)
  PROVE  Stream!BroadcastNext \/ UNCHANGED Stream!broadcastVars
<1>1. /\ loop = "writing" /\ c \in targets /\ targets' = targets \ {c}
      /\ inbox' = IF peer[c] = "reading" THEN [inbox EXCEPT ![c] = Append(@, msg)] ELSE inbox
      /\ peer[c] # "stalled"
      /\ UNCHANGED <<clients, closed, peer, taken, joined>>
      BY DEF Write, handlerVars
<1>2. Live' = Live /\ Live \subseteq Conns
      BY <1>1 DEF Live, IInv, TypeOK
<1>3. \A d \in Conns : d # c => inbox'[d] = inbox[d]
      BY <1>1 DEF IInv, TypeOK
<1>4. CASE c \notin Live
      BY <1>1, <1>2, <1>3, <1>4, SameStream
<1>5. CASE c \in Live
  <2>1. \A d \in Live : d # c => LastOf(d)' = LastOf(d)
    <3>1. \A d \in Live : d # c => inbox'[d] = inbox[d] /\ joined'[d] = joined[d]
          BY <1>1, <1>2, <1>3
    <3>2. QED
          BY <3>1 DEF LastOf
  <2>2. LastOf(c) = taken - 1 /\ taken \in Nat
        BY <1>1, <1>5, LastSeenOf, SMT DEF IInv, TypeOK, LastInHand
  <2>3. LastOf(c)' = taken
    <3>1. IInv'
          BY WriteStep
    <3>2. LastInHand'
          BY <3>1, LastSeenOf, PTL
    <3>3. QED
          BY <1>1, <1>2, <1>5, <3>2 DEF LastInHand
  <2>4. LastSeen' = [d \in Live' |-> LastOf(d)']
        BY DEF LastSeen
  <2>5. DOMAIN LastSeen = Live /\ \A d \in Live : LastSeen[d] = LastOf(d)
        BY DEF LastSeen
  <2>6. LastSeen[c] < taken /\ LastSeen[c] + 1 = taken
        BY <1>5, <2>2, <2>5, SMT
  <2>7. LastSeen' = [LastSeen EXCEPT ![c] = LastSeen[c] + 1]
    <3>1. \A d \in Live : LastOf(d)' = IF d = c THEN LastSeen[c] + 1 ELSE LastSeen[d]
          BY <2>1, <2>3, <2>5, <2>6
    <3>2. QED
          BY <1>2, <2>4, <2>5, <3>1 DEF LastSeen
  <2>8. Stream!Give(c)
        BY <1>1, <1>5, <2>5, <2>6, <2>7 DEF Stream!Give, Stream!Joined
  <2>9. QED
        BY <2>8 DEF Stream!BroadcastNext
<1>6. QED
      BY <1>4, <1>5

\* What becomes of a connection that is closed or gone is no matter of the broadcast.
LEMMA ClosedStream ==
  ASSUME IInv, NEW c \in Conns, WriteFails(c) \/ Unregister(c) \/ SetGauge(c)
  PROVE  UNCHANGED Stream!broadcastVars \/ Stream!BroadcastNext
<1>1. /\ clients' \in {clients, clients \ {c}} /\ closed' \in {closed, closed \cup {c}}
      /\ UNCHANGED <<peer, taken, joined, inbox>>
      BY DEF WriteFails, Unregister, SetGauge, loopVars
<1>2. Live' = Live \/ Live' = Live \ {c}
      BY <1>1 DEF Live
<1>3. CASE Live' = Live
      BY <1>1, <1>3, SameStream
<1>4. CASE Live' = Live \ {c}
      BY <1>1, <1>4, LeaveStream
<1>5. QED
      BY <1>2, <1>3, <1>4

\* Shutdown closes them all; a peer leaves, or goes on.
LEMMA LeaveSteps ==
  ASSUME IInv, \/ ShutdownClients \/ CloseBroadcast
               \/ \E c \in Conns : PeerChanges(c) \/ PeerLeaves(c)
  PROVE  UNCHANGED Stream!broadcastVars \/ Stream!BroadcastNext
<1>1. UNCHANGED <<taken, joined, inbox>>
      BY DEF ShutdownClients, CloseBroadcast, PeerChanges, PeerLeaves, loopVars
<1>2. CASE ShutdownClients
  <2>1. Live' = Live \ Conns
        BY <1>2 DEF ShutdownClients, Live, IInv, TypeOK
  <2>2. QED
        BY <1>1, <2>1, LeaveStream
<1>3. CASE CloseBroadcast
  <2>1. Live' = Live
        BY <1>3 DEF CloseBroadcast, Live
  <2>2. QED
        BY <1>1, <2>1, SameStream
<1>4. ASSUME NEW c \in Conns, PeerChanges(c) \/ PeerLeaves(c)
      PROVE  UNCHANGED Stream!broadcastVars \/ Stream!BroadcastNext
  <2>1. /\ UNCHANGED <<clients, closed>>
        /\ \A d \in Conns : d # c => peer'[d] = peer[d]
        /\ peer[c] # "gone"
        BY <1>4 DEF PeerChanges, PeerLeaves, IInv, TypeOK
  <2>2. CASE PeerChanges(c)
    <3>1. peer'[c] # "gone"
          BY <2>2 DEF PeerChanges, IInv, TypeOK
    <3>2. Live' = Live
          BY <2>1, <3>1 DEF Live, IInv, TypeOK
    <3>3. QED
          BY <1>1, <3>2, SameStream
  <2>3. CASE PeerLeaves(c)
    <3>1. peer'[c] = "gone"
          BY <2>3 DEF PeerLeaves, IInv, TypeOK
    <3>2. Live' = Live \ {c}
          BY <2>1, <3>1 DEF Live, IInv, TypeOK
    <3>3. QED
          BY <1>1, <3>2, LeaveStream
  <2>4. QED
        BY <1>4, <2>2, <2>3
<1>5. QED
      BY <1>2, <1>3, <1>4

LEMMA NextStream ==
  IInv /\ [Next]_vars => [Stream!BroadcastNext]_(Stream!broadcastVars)
<1> SUFFICES ASSUME IInv, [Next]_vars
             PROVE  Stream!BroadcastNext \/ UNCHANGED Stream!broadcastVars
    OBVIOUS
<1>1. ASSUME UNCHANGED <<clients, closed, peer, taken, joined, inbox>>
      PROVE  UNCHANGED Stream!broadcastVars
  <2>1. Live' = Live
        BY <1>1 DEF Live
  <2>2. QED
        BY <1>1, <2>1, SameStream
<1>2. CASE UNCHANGED vars
      BY <1>1, <1>2 DEF vars, loopVars
<1>3. CASE \E c \in Conns : CheckLimit(c) \/ UpgradeFails(c)
      BY <1>1, <1>3 DEF CheckLimit, UpgradeFails, loopVars
<1>4. CASE Publish \/ Drop \/ Take \/ Written
      BY <1>1, <1>4 DEF Publish, Drop, Take, Written, vars, loopVars
<1>5. QED
      BY <1>2, <1>3, <1>4, RegisterStream, SnapshotStream, WriteStream, ClosedStream, LeaveSteps
         DEF Next, Handle, BroadcastLoop

\* server.go:885-904: the hub, with its channel, loop, snapshots, limit and failed writes,
\* implements the broadcast that begins no message before every client has the last.
THEOREM Refinement == Spec => ImplementsBroadcast
BY InitStream, NextStream, Invariance, PTL DEF Spec, ImplementsBroadcast, Stream!BroadcastSpec

-----------------------------------------------------------------------------
(* The limit. *)

Checked == {c \in Conns : handler[c] = "checked"}

\* No second connection passes the check before the first is registered.
OneAtATime == \A c, d \in Checked : c = d

\* A place is left for who passed the check.
PlaceLeft == Cardinality(clients \cup Checked) <= MaxClients

LEMMA NextPlaceLeft ==
  IInv /\ OneAtATime' /\ PlaceLeft /\ [Next]_vars => PlaceLeft'
<1> SUFFICES ASSUME IInv, OneAtATime', PlaceLeft, [Next]_vars PROVE PlaceLeft'
    OBVIOUS
<1>1. /\ IsFiniteSet(clients) /\ IsFiniteSet(clients \cup Checked)
      /\ Cardinality(clients) \in Nat /\ Cardinality(clients \cup Checked) \in Nat
      /\ MaxClients \in Nat \ {0}
      BY HubAssumption, FS_Subset, FS_CardinalityType, clients \cup Checked \in SUBSET Conns
         DEF IInv, TypeOK, Checked
<1>2. ASSUME clients' \cup Checked' \subseteq clients \cup Checked
      PROVE  PlaceLeft'
  <2>1. /\ Cardinality(clients' \cup Checked') \in Nat
        /\ Cardinality(clients' \cup Checked') <= Cardinality(clients \cup Checked)
        BY <1>1, <1>2, FS_Subset, FS_CardinalityType
  <2>2. Cardinality(clients' \cup Checked') <= MaxClients
        BY <1>1, <2>1, SMT DEF PlaceLeft
  <2>3. QED
        BY <2>2 DEF PlaceLeft
<1>3. ASSUME NEW c \in Conns, CheckLimit(c)
      PROVE  PlaceLeft'
  <2>1. /\ clients' = clients
        /\ handler' = [handler EXCEPT ![c] =
                         IF Cardinality(clients) >= MaxClients THEN "done" ELSE "checked"]
        BY <1>3 DEF CheckLimit, Goto
  <2>2. CASE Cardinality(clients) >= MaxClients
    <3>1. Checked' \subseteq Checked
          BY <2>1, <2>2 DEF Checked, IInv, TypeOK
    <3>2. QED
          BY <1>2, <2>1, <3>1
  <2>3. CASE ~ (Cardinality(clients) >= MaxClients)
    <3>1. c \in Checked'
          BY <2>1, <2>3 DEF Checked, IInv, TypeOK
    <3>2. Checked' = {c}
          BY <3>1, Zenon DEF OneAtATime
    <3>3. Cardinality(clients \cup {c}) <= Cardinality(clients) + 1
      <4>1. \A n \in Nat : n <= n + 1 /\ n + 1 <= n + 1
            BY SMT
      <4>2. CASE c \in clients
            BY <1>1, <4>1, <4>2, clients \cup {c} = clients
      <4>3. CASE c \notin clients
            BY <1>1, <4>1, <4>3, FS_AddElement
      <4>4. QED
            BY <4>2, <4>3
    <3>4. Cardinality(clients \cup {c}) \in Nat
          BY <1>1, FS_AddElement, FS_CardinalityType
    <3>5. Cardinality(clients' \cup Checked') <= MaxClients
          BY <1>1, <2>1, <2>3, <3>2, <3>3, <3>4, SMT
    <3>6. QED
          BY <3>5 DEF PlaceLeft
  <2>4. QED
        BY <2>2, <2>3
<1>4. ASSUME NEW c \in Conns, Register(c)
      PROVE  PlaceLeft'
  <2>1. clients' = clients \cup {c} /\ handler' = [handler EXCEPT ![c] = "added"] /\ c \in Checked
        BY <1>4 DEF Register, Goto, Checked
  <2>2. Checked' \subseteq Checked
        BY <2>1 DEF Checked, IInv, TypeOK
  <2>3. QED
        BY <1>2, <2>1, <2>2
<1>5. ASSUME NEW c \in Conns, UpgradeFails(c) \/ SetGauge(c) \/ Unregister(c)
      PROVE  PlaceLeft'
  <2>1. /\ clients' \subseteq clients
        /\ \E w \in {"serving", "deleted", "done"} : handler' = [handler EXCEPT ![c] = w]
        BY <1>5 DEF UpgradeFails, SetGauge, Unregister, Goto
  <2>2. Checked' \subseteq Checked
        BY <2>1 DEF Checked, IInv, TypeOK
  <2>3. QED
        BY <1>2, <2>1, <2>2
<1>6. ASSUME handler' = handler, clients' \subseteq clients
      PROVE  PlaceLeft'
      BY <1>2, <1>6, Checked' = Checked DEF Checked
<1>7. ASSUME BroadcastLoop \/ Publish \/ Drop \/ ShutdownClients \/ CloseBroadcast
      PROVE  PlaceLeft'
      BY <1>6, <1>7 DEF BroadcastLoop, Take, Snapshot, Written, Write, WriteFails, Publish, Drop,
                        ShutdownClients, CloseBroadcast, vars, handlerVars
<1>8. ASSUME NEW c \in Conns, PeerChanges(c) \/ PeerLeaves(c)
      PROVE  PlaceLeft'
      BY <1>6, <1>8 DEF PeerChanges, PeerLeaves, handlerVars
<1>9. CASE UNCHANGED vars
      BY <1>6, <1>9 DEF vars, handlerVars
<1>10. QED
      BY <1>3, <1>4, <1>5, <1>7, <1>8, <1>9 DEF Next, Handle

LEMMA InitPlaceLeft == Init => PlaceLeft
<1> SUFFICES ASSUME Init PROVE PlaceLeft
    OBVIOUS
<1>1. clients \cup Checked = {}
      BY DEF Init, Checked
<1>2. QED
      BY <1>1, HubAssumption, FS_EmptySet, SMT DEF PlaceLeft

\* server.go:774-794: the limit on connections is broken by connections that are between the
\* check and their registration together, and by nothing else.
THEOREM LimitHoldsOneByOne == Spec /\ []OneAtATime => []AtMostMaxClients
<1>1. IInv /\ PlaceLeft => AtMostMaxClients
  <2> SUFFICES ASSUME IInv, PlaceLeft PROVE AtMostMaxClients
      OBVIOUS
  <2>1. IsFiniteSet(clients \cup Checked)
        BY HubAssumption, FS_Subset, clients \cup Checked \in SUBSET Conns
           DEF IInv, TypeOK, Checked
  <2>2. /\ Cardinality(clients) <= Cardinality(clients \cup Checked)
        /\ Cardinality(clients) \in Nat /\ Cardinality(clients \cup Checked) \in Nat
        BY <2>1, FS_Subset, FS_CardinalityType, clients \subseteq clients \cup Checked
  <2>3. QED
        BY <2>2, HubAssumption, SMT DEF PlaceLeft, AtMostMaxClients
<1>2. QED
      BY <1>1, InitPlaceLeft, NextPlaceLeft, Invariance, PTL DEF Spec
=============================================================================
