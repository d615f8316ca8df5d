---------------------------- MODULE IngestProofs ----------------------------
(***************************************************************************)
(* For any senders, workloads and periods: an entry that was posted and    *)
(* acknowledged is in the table, and nothing leaves it before it is old; a *)
(* client that pages through the table meets every row that stays; and an  *)
(* entry is stored once, and once more for each answer that was lost.      *)
(***************************************************************************)
EXTENDS Ingest, FiniteSetTheorems, WellFoundedInduction, TLAPS

\* An entry's time and the text it is stored as, which is behind by Skew at most.
Stamped(b) == /\ b.instant \in Int
              /\ b.text \in Int
              /\ b.instant - b.text <= Skew

IsBatch(batch) == \E n \in Nat : /\ DOMAIN batch = 1..n
                                 /\ \A k \in 1..n : Stamped(batch[k])

Trace(b) == [id |-> b.id, entry |-> b.entry, text |-> b.text]

HandlersHoldBatches ==
  /\ DOMAIN body = Handlers /\ DOMAIN handler = Handlers /\ DOMAIN sender = Senders
  /\ \A h \in Handlers : IsBatch(body[h])

\* A handler at work holds what its sender posted, as it was decoded.
HoldsPosted(h) ==
  \A k \in DOMAIN Decoded(post[h[1]]) : k \in DOMAIN body[h] /\ body[h][k].entry = <<h[1], k>>

\* What a handler acknowledges was written, and so was all that a sender was told of, and
\* every row.
AcknowledgedAreWritten ==
  /\ \A h \in Handlers : handler[h] # "none" => HoldsPosted(h)
  /\ \A h \in Handlers : handler[h] = "respond" => \A b \in Range(body[h]) : Trace(b) \in written
  /\ \A s \in Senders : sender[s] = Done =>
       \A k \in DOMAIN Decoded(post[s]) : \E w \in written : w.entry = <<s, k>>

RowsAreWritten == \A r \in logs : Stamped(r) /\ Trace(r) \in written

\* What was written is still there under its identifier, or was once under one that
\* is old.
WrittenStays ==
  \A w \in written : \/ w.id \in Ids(logs)
                     \/ \E o \in written : o.id = w.id /\ o.text < Cutoff

\* That acknowledged entries stay is inductive only for all that were written: a row is
\* replaced or deleted under its identifier, whoever was told of it.
IInv == /\ post \in Loads /\ clock \in Int /\ \A w \in written : w.text \in Int
        /\ HandlersHoldBatches
        /\ AcknowledgedAreWritten
        /\ RowsAreWritten
        /\ WrittenStays

-----------------------------------------------------------------------------
(* What a batch leaves in the table. *)

\* A non-empty set of indexes has a last one.
LEMMA LastIndex ==
  ASSUME NEW n \in Nat, NEW K \in SUBSET (1..n), K # {}
  PROVE  \E k \in K : \A j \in K : j <= k
<1> DEFINE T == {n - k : k \in K}
<1>1. \A k \in K : k \in Nat /\ n - k \in Nat
      BY SMT
<1>2. T \subseteq Nat /\ T # {}
      BY <1>1, Zenon
<1>3. PICK x \in T : \A y \in T : ~ (<<y, x>> \in OpToRel(<, Nat))
  <2> HIDE DEF T
  <2>1. QED
        BY <1>2, NatLessThanWellFounded, WFMin, Zenon
<1>4. \A y \in T : ~ (y < x)
  <2> HIDE DEF T
  <2>1. \A y \in T : y < x => <<y, x>> \in OpToRel(<, Nat)
        BY <1>2, SMT DEF OpToRel
  <2>2. QED
        BY <1>3, <2>1, Zenon
<1>5. PICK k \in K : x = n - k
      BY Zenon
<1>6. \A j \in K : ~ (n - j < n - k)
      BY <1>4, <1>5, Zenon
<1>7. \A j \in K : j <= k
      BY <1>1, <1>6, SMT
<1>8. QED
      BY <1>7

\* INSERT OR REPLACE keeps every identifier and adds those of the batch.
LEMMA InsertKeepsIds ==
  ASSUME NEW table, NEW batch, IsBatch(batch)
  PROVE  Ids(InsertLogs(table, batch)) = Ids(table) \cup Ids(Range(batch))
<1>1. PICK n \in Nat : DOMAIN batch = 1..n
      BY DEF IsBatch
<1>2. ASSUME NEW b \in Range(batch) PROVE \E r \in Written(table, batch) : r.id = b.id
  <2> DEFINE K == {k \in 1..n : batch[k].id = b.id}
  <2>1. K # {} /\ K \in SUBSET (1..n)
        BY <1>1, <1>2 DEF Range
  <2>2. PICK k \in K : \A j \in K : j <= k
        BY <2>1, LastIndex
  <2>3. \A j \in DOMAIN batch : j > k => batch[j].id # batch[k].id
        BY <1>1, <2>2, SMT
  <2>4. [id |-> batch[k].id, entry |-> batch[k].entry, instant |-> batch[k].instant,
         text |-> batch[k].text, rowid |-> LastRowid(table) + k] \in Written(table, batch)
        BY <1>1, <2>3 DEF Written
  <2>5. QED
        BY <2>2, <2>4
<1>3. \A r \in Written(table, batch) : r.id \in Ids(Range(batch))
      BY DEF Written, Ids, Range
<1>4. QED
      BY <1>2, <1>3 DEF InsertLogs, Ids

\* A row of the new table is an old one or comes from the batch.
LEMMA InsertedRows ==
  ASSUME NEW table, NEW batch, IsBatch(batch), NEW r \in InsertLogs(table, batch)
  PROVE  \/ r \in table
         \/ Stamped(r) /\ \E b \in Range(batch) : Trace(r) = Trace(b)
<1>1. SUFFICES ASSUME r \in Written(table, batch)
               PROVE  Stamped(r) /\ \E b \in Range(batch) : Trace(r) = Trace(b)
      BY DEF InsertLogs
<1>2. PICK k \in DOMAIN batch :
        r = [id |-> batch[k].id, entry |-> batch[k].entry, instant |-> batch[k].instant,
             text |-> batch[k].text, rowid |-> LastRowid(table) + k]
      BY <1>1 DEF Written
<1>3. Stamped(batch[k])
      BY DEF IsBatch
<1>4. QED
      BY <1>2, <1>3 DEF Stamped, Trace, Range

\* The entries of a request, identified and stamped, are a batch.
LEMMA IdentifiedIsBatch ==
  ASSUME IInv, NEW s \in Senders, NEW moves \in BOOLEAN
  PROVE  IsBatch(Identified(s, moves))
<1> DEFINE es == Decoded(post[s])
           stamp(e) == IF e.stamp = Missing THEN [instant |-> clock, text |-> clock] ELSE e.stamp
           I == Identified(s, moves)
<1>1. PICK n \in Nat : DOMAIN es = 1..n
  <2>1. CASE es = <<>>
        BY <2>1, SMT
  <2>2. CASE es = post[s].entries
    <3>1. es \in Seq(Range(es))
          BY <2>2, LoadsAssumption DEF IInv
    <3>2. QED
          BY <3>1, SMT
  <2>3. QED
        BY <2>1, <2>2 DEF Decoded
<1>2. \A k \in 1..n : Stamped(stamp(es[k]))
  <2> SUFFICES ASSUME NEW k \in 1..n PROVE Stamped(stamp(es[k]))
      OBVIOUS
  <2>1. CASE es = <<>>
        BY <1>1, <2>1, SMT
  <2>2. CASE es = post[s].entries
    <3>1. CASE es[k].stamp = Missing
          BY <3>1, IngestAssumption, SMT DEF IInv, Stamped
    <3>2. CASE es[k].stamp # Missing
      <4>1. es[k] \in Range(post[s].entries)
            BY <1>1, <2>2 DEF Range
      <4>2. QED
            BY <2>2, <3>2, <4>1, LoadsAssumption DEF IInv, Stamped
    <3>3. QED
          BY <3>1, <3>2
  <2>3. QED
        BY <2>1, <2>2 DEF Decoded
<1>3. DOMAIN I = 1..n /\ \A k \in 1..n : I[k].instant = stamp(es[k]).instant
                                       /\ I[k].text = stamp(es[k]).text
      BY <1>1 DEF Identified
<1>4. QED
      BY <1>2, <1>3 DEF IsBatch, Stamped

-----------------------------------------------------------------------------
(* One lemma per step, or per group of steps that move the same. *)

LEMMA InitIInv == Init => IInv
<1> SUFFICES ASSUME Init PROVE IInv
    OBVIOUS
<1>1. post \in Loads /\ clock \in Int /\ written = {} /\ logs = {}
      BY SMT DEF Init
<1>2. /\ DOMAIN body = Handlers /\ DOMAIN handler = Handlers /\ DOMAIN sender = Senders
      /\ \A h \in Handlers : body[h] = <<>> /\ handler[h] = "none"
      /\ \A s \in Senders : sender[s] # Done
      BY SMT DEF Init, Idle, Done
<1>3. IsBatch(<<>>)
      BY SMT DEF IsBatch
<1>4. QED
      BY <1>1, <1>2, <1>3
         DEF IInv, HandlersHoldBatches, AcknowledgedAreWritten, RowsAreWritten, WrittenStays

\* Time only makes more of what was written old.
LEMMA OlderStaysOld ==
  ASSUME IInv, clock' \in Int, clock <= clock', UNCHANGED <<logs, written>>
  PROVE  WrittenStays'
<1>1. \A o \in written : o.text < Cutoff => o.text < Cutoff'
  <2>1. \A o \in written : o.text \in Int
        BY DEF IInv
  <2>2. \A n \in Int : n < Cutoff => n < Cutoff'
    <3>1. clock \in Int /\ clock' \in Int /\ Retention \in Int /\ clock <= clock'
          BY IngestAssumption, SMT DEF IInv
    <3>2. \A n, c, d, r \in Int : c <= d /\ n < c - r => n < d - r
          BY SMT
    <3>3. \A n \in Int : n < clock - Retention => n < clock' - Retention
          BY <3>1, <3>2, Zenon
    <3>4. QED
          BY <3>3 DEF Cutoff
  <2>3. QED
        BY <2>1, <2>2
<1>2. QED
      BY <1>1 DEF IInv, WrittenStays

LEMMA BoundsAreNat == MaxLost \in Nat /\ Cardinality(Slots) \in Nat
<1>1. Cardinality(Slots) \in Nat
      BY IngestAssumption, FS_CardinalityType
<1>2. QED
      BY <1>1, IngestAssumption, SMT

\* Who waits is neither idle nor done.
LEMMA WaitsForSlot ==
  ASSUME NEW k \in Slots
  PROVE  k \in Nat /\ k # Idle /\ k # Done
<1>1. PICK n \in Int : Slots = 1..n
      BY BoundsAreNat, IngestAssumption, SMT
<1>2. QED
      BY <1>1, SMT DEF Idle, Done

LEMMA PostStep ==
  ASSUME IInv, NEW s \in Senders, NEW k \in Slots, Post(s, k)
  PROVE  IInv'
<1> DEFINE h == <<s, k>>
<1>1. h \in Handlers
      BY DEF Handlers
<1>2. PICK moves \in BOOLEAN : /\ clock' = IF moves THEN clock + 1 ELSE clock
                               /\ body' = [body EXCEPT ![h] = Identified(s, moves)]
      BY DEF Post
<1>3. /\ handler' = [handler EXCEPT ![h] = "execute"]
      /\ sender' = [sender EXCEPT ![s] = k]
      /\ UNCHANGED <<post, logs, written>>
      BY DEF Post, tableVars
<1>4. clock' \in Int /\ clock <= clock'
      BY <1>2, SMT DEF IInv
<1>5. IsBatch(Identified(s, moves))
      BY IdentifiedIsBatch
<1>6. HandlersHoldBatches'
      BY <1>1, <1>2, <1>3, <1>5 DEF IInv, HandlersHoldBatches
<1>7. AcknowledgedAreWritten'
  <2>1. \A g \in Handlers : /\ handler'[g] = IF g = h THEN "execute" ELSE handler[g]
                           /\ body'[g] = IF g = h THEN Identified(s, moves) ELSE body[g]
        BY <1>2, <1>3 DEF IInv, HandlersHoldBatches
  <2>2. HoldsPosted(h)'
    <3>1. h[1] = s /\ body'[h] = Identified(s, moves)
          BY <1>1, <2>1
    <3>2. \A j \in DOMAIN Decoded(post[s]) :
            /\ j \in DOMAIN Identified(s, moves)
            /\ Identified(s, moves)[j].entry = <<s, j>>
          BY DEF Identified
    <3> HIDE DEF h
    <3>3. QED
          BY <1>3, <3>1, <3>2 DEF HoldsPosted, Decoded
  <2>3. \A g \in Handlers : g # h /\ HoldsPosted(g) => HoldsPosted(g)'
        BY <1>3, <2>1 DEF HoldsPosted, Decoded
  <2>4. \A r \in Senders : sender'[r] = Done => sender[r] = Done
        BY <1>3, WaitsForSlot DEF IInv, HandlersHoldBatches
  <2> HIDE DEF h
  <2>5. \A g \in Handlers : handler'[g] # "none" => HoldsPosted(g)'
        BY <2>1, <2>2, <2>3 DEF IInv, AcknowledgedAreWritten
  <2>6. \A g \in Handlers : handler'[g] = "respond" =>
          \A b \in Range(body'[g]) : Trace(b) \in written'
    <3> SUFFICES ASSUME NEW g \in Handlers, handler'[g] = "respond"
                 PROVE  \A b \in Range(body'[g]) : Trace(b) \in written'
        OBVIOUS
    <3>1. handler[g] = "respond" /\ body'[g] = body[g]
          BY <2>1
    <3>2. QED
          BY <1>3, <3>1 DEF IInv, AcknowledgedAreWritten
  <2>7. \A r \in Senders : sender'[r] = Done =>
          \A j \in DOMAIN Decoded(post'[r]) : \E w \in written' : w.entry = <<r, j>>
        BY <1>3, <2>4 DEF IInv, AcknowledgedAreWritten
  <2>8. QED
        BY <2>5, <2>6, <2>7 DEF AcknowledgedAreWritten, Decoded
<1>8. WrittenStays'
      BY <1>3, <1>4, OlderStaysOld
<1>9. QED
      BY <1>3, <1>4, <1>6, <1>7, <1>8 DEF IInv, RowsAreWritten

\* An answer leaves the table as it is; one that says 200 is of what was written.
LEMMA AnswerStep ==
  ASSUME IInv, NEW h \in Handlers, NEW ok \in BOOLEAN, Answer(h, ok),
         ok => handler[h] = "respond",
         UNCHANGED <<logs, written, clock>>
  PROVE  IInv'
<1>1. h[1] \in Senders
      BY DEF Handlers
<1>2. /\ handler' = [handler EXCEPT ![h] = "none"]
      /\ body' = [body EXCEPT ![h] = <<>>]
      /\ UNCHANGED post
      BY DEF Answer
<1>3. sender' = IF sender[h[1]] = h[2]
                  THEN [sender EXCEPT ![h[1]] = IF ok THEN Done ELSE Idle] ELSE sender
      BY DEF Answer
<1>4. IsBatch(<<>>)
      BY SMT DEF IsBatch
<1>5. HandlersHoldBatches'
      BY <1>2, <1>3, <1>4 DEF IInv, HandlersHoldBatches
<1>6. \A g \in Handlers : handler'[g] # "none" => handler'[g] = handler[g] /\ body'[g] = body[g]
      BY <1>2 DEF IInv, HandlersHoldBatches
<1>7. ASSUME NEW s \in Senders, sender'[s] = Done, NEW k \in DOMAIN Decoded(post[s])
      PROVE  \E w \in written : w.entry = <<s, k>>
  <2>1. CASE sender[s] = Done
        BY <1>7, <2>1 DEF IInv, AcknowledgedAreWritten
  <2>2. CASE sender[s] # Done
    <3>1. s = h[1] /\ ok
          BY <1>1, <1>3, <1>7, <2>2, SMT DEF IInv, HandlersHoldBatches, Idle, Done
    <3>2. k \in DOMAIN body[h] /\ body[h][k].entry = <<s, k>>
          BY <1>7, <3>1 DEF IInv, AcknowledgedAreWritten, HoldsPosted
    <3>3. Trace(body[h][k]) \in written
          BY <3>1, <3>2 DEF IInv, AcknowledgedAreWritten, Range
    <3>4. QED
          BY <3>2, <3>3 DEF Trace
  <2>3. QED
        BY <2>1, <2>2
<1>8. AcknowledgedAreWritten'
  <2>1. \A g \in Handlers : handler'[g] # "none" => HoldsPosted(g)'
        BY <1>2, <1>6 DEF IInv, AcknowledgedAreWritten, HoldsPosted, Decoded
  <2>2. QED
        BY <1>2, <1>6, <1>7, <2>1 DEF IInv, AcknowledgedAreWritten, Decoded
<1>9. WrittenStays' /\ RowsAreWritten'
      BY DEF IInv, WrittenStays, RowsAreWritten, Cutoff
<1>10. QED
      BY <1>2, <1>5, <1>8, <1>9 DEF IInv

LEMMA ExecuteStep ==
  ASSUME IInv, NEW h \in Handlers, Execute(h)
  PROVE  IInv'
<1>1. /\ handler' = [handler EXCEPT ![h] = "insert"]
      /\ handler[h] = "execute"
      /\ UNCHANGED <<post, sender, body, logs, written, clock>>
      BY DEF Execute, senderVars, tableVars
<1>2. HandlersHoldBatches' /\ AcknowledgedAreWritten'
      BY <1>1 DEF IInv, HandlersHoldBatches, AcknowledgedAreWritten, HoldsPosted, Decoded
<1>3. QED
      BY <1>1, <1>2 DEF IInv, WrittenStays, RowsAreWritten, Cutoff

\* A commit keeps the identifiers of the table, adds those of the batch, and writes
\* what it will acknowledge.
LEMMA CommitStep ==
  ASSUME IInv, NEW h \in Handlers, Commit(h)
  PROVE  IInv'
<1> DEFINE batch == body[h]
<1>1. /\ logs' = InsertLogs(logs, batch)
      /\ written' = written \cup {Trace(b) : b \in Range(batch)}
      /\ handler' = [handler EXCEPT ![h] = "respond"]
      /\ handler[h] = "insert"
      /\ UNCHANGED <<post, sender, body, clock>>
      BY DEF Commit, senderVars, Trace
<1>2. IsBatch(batch)
      BY DEF IInv, HandlersHoldBatches
<1>3. Ids(logs') = Ids(logs) \cup Ids(Range(batch))
      BY <1>1, <1>2, InsertKeepsIds
<1>4. \A b \in Range(batch) : Stamped(b)
      BY <1>2 DEF IsBatch, Range
<1>5. \A w \in written' : w.text \in Int
      BY <1>1, <1>4 DEF IInv, Trace, Stamped
<1>6. HandlersHoldBatches'
      BY <1>1 DEF IInv, HandlersHoldBatches
<1>7. AcknowledgedAreWritten'
  <2>1. \A g \in Handlers : handler'[g] # "none" => HoldsPosted(g)'
        BY <1>1 DEF IInv, HandlersHoldBatches, AcknowledgedAreWritten, HoldsPosted, Decoded
  <2>2. \A g \in Handlers : handler'[g] = "respond" =>
          \A b \in Range(body'[g]) : Trace(b) \in written'
        BY <1>1 DEF IInv, HandlersHoldBatches, AcknowledgedAreWritten
  <2>3. QED
        BY <1>1, <2>1, <2>2 DEF IInv, AcknowledgedAreWritten, Decoded
<1>8. RowsAreWritten'
  <2> SUFFICES ASSUME NEW r \in logs' PROVE Stamped(r) /\ Trace(r) \in written'
      BY DEF RowsAreWritten
  <2>1. CASE r \in logs
        BY <1>1, <2>1 DEF IInv, RowsAreWritten
  <2>2. CASE Stamped(r) /\ \E b \in Range(batch) : Trace(r) = Trace(b)
        BY <1>1, <2>2
  <2>3. QED
        BY <1>1, <1>2, <2>1, <2>2, InsertedRows
<1>9. WrittenStays'
  <2> SUFFICES ASSUME NEW w \in written'
               PROVE  \/ w.id \in Ids(logs')
                      \/ \E o \in written' : o.id = w.id /\ o.text < Cutoff
      BY <1>1 DEF WrittenStays, Cutoff
  <2>1. CASE w \in written
        BY <1>1, <1>3, <2>1 DEF IInv, WrittenStays
  <2>2. CASE w \in {Trace(b) : b \in Range(batch)}
        BY <1>3, <2>2 DEF Trace, Ids
  <2>3. QED
        BY <1>1, <2>1, <2>2
<1>10. QED
      BY <1>1, <1>5, <1>6, <1>7, <1>8, <1>9 DEF IInv

\* The cleanup takes rows whose text is before the cutoff; they were written so.
LEMMA CleanupStep == IInv /\ Cleanup => IInv'
<1> SUFFICES ASSUME IInv, Cleanup PROVE IInv'
    OBVIOUS
<1>1. /\ logs' = {r \in logs : r.text >= Cutoff}
      /\ UNCHANGED <<post, sender, handler, body, written, clock>>
      BY DEF Cleanup, DeleteOldLogs, senderVars, handlerVars
<1>2. WrittenStays'
  <2> SUFFICES ASSUME NEW w \in written, w.id \in Ids(logs), w.id \notin Ids(logs')
               PROVE  \E o \in written : o.id = w.id /\ o.text < Cutoff
      BY <1>1 DEF IInv, WrittenStays, Cutoff
  <2>1. PICK r \in logs : r.id = w.id
        BY DEF Ids
  <2>2. ~ (r.text >= Cutoff)
        BY <1>1, <2>1 DEF Ids
  <2>3. r.text \in Int /\ Trace(r) \in written
        BY DEF IInv, RowsAreWritten, Stamped
  <2>4. r.text < Cutoff
        BY <2>2, <2>3, IngestAssumption, SMT DEF IInv, Cutoff
  <2>5. QED
        BY <2>1, <2>3, <2>4 DEF Trace
<1>3. RowsAreWritten'
      BY <1>1 DEF IInv, RowsAreWritten
<1>4. QED
      BY <1>1, <1>2, <1>3 DEF IInv, HandlersHoldBatches, AcknowledgedAreWritten, HoldsPosted, Decoded

\* A crash keeps the table and what the senders know.
LEMMA CrashStep == IInv /\ Crash => IInv'
<1> SUFFICES ASSUME IInv, Crash PROVE IInv'
    OBVIOUS
<1>1. /\ DOMAIN body' = Handlers /\ DOMAIN handler' = Handlers
      /\ \A h \in Handlers : body'[h] = <<>> /\ handler'[h] = "none"
      /\ DOMAIN sender' = Senders /\ \A s \in Senders : sender'[s] = Done => sender[s] = Done
      /\ UNCHANGED <<post, logs, written, clock>>
      BY SMT DEF Crash, tableVars, Idle, Done
<1>2. IsBatch(<<>>)
      BY SMT DEF IsBatch
<1>3. QED
      BY <1>1, <1>2 DEF IInv, HandlersHoldBatches, AcknowledgedAreWritten, RowsAreWritten,
                        WrittenStays, Cutoff, Decoded

\* Steps that leave the table and the handlers alone and tell no sender of success.
LEMMA ElsewhereStep ==
  ASSUME IInv, clock' \in Int, clock <= clock', DOMAIN sender' = Senders,
         \A s \in Senders : sender'[s] = Done => sender[s] = Done,
         UNCHANGED <<post, handler, body, logs, written>>
  PROVE  IInv'
<1>1. WrittenStays'
      BY OlderStaysOld
<1>2. QED
      BY <1>1 DEF IInv, HandlersHoldBatches, AcknowledgedAreWritten, RowsAreWritten, HoldsPosted,
                  Decoded

LEMMA NextIInv == IInv /\ [Next]_vars => IInv'
<1> SUFFICES ASSUME IInv, [Next]_vars PROVE IInv'
    OBVIOUS
<1>1. ASSUME NEW h \in Handlers, Handle(h) PROVE IInv'
  <2>1. CASE Execute(h)
        BY <2>1, ExecuteStep
  <2>2. CASE Commit(h)
        BY <2>2, CommitStep
  <2>3. CASE Refuse(h) \/ Fail(h)
    <3>1. Answer(h, FALSE) /\ UNCHANGED <<logs, written, clock>>
          BY <2>3 DEF Refuse, Fail, tableVars
    <3>2. QED
          BY <3>1, AnswerStep
  <2>4. CASE Respond(h)
    <3>1. Answer(h, TRUE) /\ handler[h] = "respond" /\ UNCHANGED <<logs, written, clock>>
          BY <2>4 DEF Respond, tableVars
    <3>2. QED
          BY <3>1, AnswerStep
  <2>5. QED
        BY <1>1, <2>1, <2>2, <2>3, <2>4 DEF Handle
<1>2. ASSUME NEW s \in Senders, TimeOut(s) PROVE IInv'
  <2>1. UNCHANGED <<post, handler, body, logs, written, clock>>
        BY <1>2 DEF TimeOut, handlerVars, tableVars
  <2>2. DOMAIN sender' = Senders /\ \A r \in Senders : sender'[r] = Done => sender[r] = Done
        BY <1>2, SMT DEF IInv, HandlersHoldBatches, TimeOut, Idle, Done
  <2>3. clock' \in Int /\ clock <= clock'
        BY <2>1, SMT DEF IInv
  <2>4. QED
        BY <2>1, <2>2, <2>3, ElsewhereStep
<1>3. CASE Elapse \/ Flip \/ StartPaging \/ NextPage \/ LastPage \/ UNCHANGED vars
  <2>1. UNCHANGED <<post, sender, handler, body, logs, written, clock>>
        BY <1>3 DEF Elapse, Flip, StartPaging, NextPage, LastPage, vars, senderVars, handlerVars,
                    tableVars
  <2>2. clock' \in Int /\ clock <= clock'
        BY <2>1, SMT DEF IInv
  <2>3. QED
        BY <2>1, <2>2, ElsewhereStep DEF IInv, HandlersHoldBatches
<1>4. CASE Tick
  <2>1. UNCHANGED <<post, sender, handler, body, logs, written>>
        BY <1>4 DEF Tick, senderVars, handlerVars, tableVars
  <2>2. clock' \in Int /\ clock <= clock'
        BY <1>4, SMT DEF IInv, Tick
  <2>3. QED
        BY <2>1, <2>2, ElsewhereStep DEF IInv, HandlersHoldBatches
<1>5. QED
      BY <1>1, <1>2, <1>3, <1>4, PostStep, CrashStep, CleanupStep DEF Next

\* The inductive invariant holds in every reachable state.
THEOREM Invariance == Spec => []IInv
BY InitIInv, NextIInv, PTL DEF Spec

LEMMA IInvImpliesAcknowledgedStays == IInv => AcknowledgedStays
<1> SUFFICES ASSUME IInv, NEW s \in Senders, sender[s] = Done, post[s].form # "single",
                    NEW k \in DOMAIN post[s].entries
             PROVE  \E w \in written :
                      /\ w.entry = <<s, k>>
                      /\ \/ \E r \in logs : r.id = w.id
                         \/ \E o \in written : o.id = w.id /\ o.text < Cutoff
    BY DEF AcknowledgedStays
<1>1. PICK w \in written : w.entry = <<s, k>>
      BY DEF IInv, AcknowledgedAreWritten, Decoded
<1>2. QED
      BY <1>1 DEF IInv, WrittenStays, Ids

\* server.go:336-369, sqlite.go:95-126: every entry that a sender posted, in a body that is
\* decoded as it was meant, and was told 200 of is in the table until it is old, whatever
\* fails, is retried, or crashes.
THEOREM AcknowledgedStaysHolds == Spec => []AcknowledgedStays
BY Invariance, IInvImpliesAcknowledgedStays, PTL

-----------------------------------------------------------------------------
(* What leaves the table. *)

LEMMA StepDeletesOnlyOld ==
  ASSUME IInv, [Next]_vars
  PROVE  \A r \in logs : r.id \in Ids(logs') \/ clock - r.instant > Retention - Skew
<1> SUFFICES ASSUME NEW r \in logs, r.id \notin Ids(logs')
             PROVE  clock - r.instant > Retention - Skew
    OBVIOUS
<1>1. r.id \in Ids(logs)
      BY DEF Ids
<1>2. logs' # logs
      BY <1>1
<1>3. ~ \E h \in Handlers : Commit(h)
  <2> SUFFICES ASSUME NEW h \in Handlers, Commit(h) PROVE FALSE
      OBVIOUS
  <2>1. Ids(logs') = Ids(logs) \cup Ids(Range(body[h]))
        BY InsertKeepsIds DEF Commit, IInv, HandlersHoldBatches
  <2>2. QED
        BY <1>1, <2>1
<1>4. Cleanup
      BY <1>2, <1>3 DEF Next, Handle, Execute, Refuse, Fail, Respond, Post, TimeOut, Crash, Elapse,
                        Flip, Tick, StartPaging, NextPage, LastPage, vars, tableVars
<1>5. ~ (r.text >= Cutoff)
      BY <1>4 DEF Cleanup, DeleteOldLogs, Ids
<1>6. Stamped(r)
      BY DEF IInv, RowsAreWritten
<1>7. QED
      BY <1>5, <1>6, IngestAssumption, SMT DEF IInv, Stamped, Cutoff

\* sqlite.go:392-399: no row leaves the table before its time, but for what its sender's
\* zone is behind.
THEOREM DeletesOnlyOldHolds == Spec => DeletesOnlyOld
<1>1. IInv /\ [Next]_vars =>
        [\A r \in logs : r.id \in Ids(logs') \/ clock - r.instant > Retention - Skew]_vars
      BY StepDeletesOnlyOld
<1>2. QED
      BY <1>1, Invariance, PTL DEF Spec, DeletesOnlyOld

-----------------------------------------------------------------------------
(* The table, its last rowid and its order. *)

\* A row is found under its identifier and under its rowid; rowids count up.
IsTable(t) ==
  /\ \A r, q \in t : r.id = q.id \/ r.rowid = q.rowid => r = q
  /\ \E n \in Nat : \A r \in t : r.rowid \in 1..n
  /\ \A r \in t : r.text \in Int

LEMMA TableIsFinite ==
  ASSUME NEW t, IsTable(t)
  PROVE  IsFiniteSet(t)
<1>1. PICK n \in Nat : \A r \in t : r.rowid \in 1..n
      BY DEF IsTable
<1>2. IsFiniteSet(1..n)
      BY FS_Interval, SMT
<1> DEFINE f == [r \in t |-> r.rowid]
<1>3. f \in [t -> 1..n] /\ \A a, b \in DOMAIN f : f[a] = f[b] => a = b
      BY <1>1 DEF IsTable
<1>4. f \in Injection(t, 1..n)
  <2> HIDE DEF f
  <2>1. QED
        BY <1>3, Zenon DEF Injection, IsInjective
<1>5. QED
      BY <1>2, <1>4, FS_Injection, Zenon

LEMMA LastRowidIsLast ==
  ASSUME NEW t, IsTable(t)
  PROVE  LastRowid(t) \in Nat /\ \A r \in t : r.rowid \in Nat /\ r.rowid <= LastRowid(t)
<1> DEFINE I == {r.rowid : r \in t}
<1>1. PICK n \in Nat : \A r \in t : r.rowid \in 1..n
      BY DEF IsTable
<1>2. I \in SUBSET (1..n) /\ I \in SUBSET Nat
      BY <1>1, SMT
<1>3. \E m \in I \cup {0} : \A i \in I \cup {0} : m >= i
  <2>1. CASE I = {}
        BY <2>1, SMT
  <2>2. CASE I # {}
    <3> HIDE DEF I
    <3>1. PICK m \in I : \A i \in I : i <= m
          BY <1>2, <2>2, LastIndex
    <3>2. m \in Nat /\ \A i \in I : i \in Nat
          BY <1>2
    <3>3. \A i \in I \cup {0} : m >= i
          BY <3>1, <3>2, SMT
    <3>4. QED
          BY <3>3
  <2>3. QED
        BY <2>1, <2>2
<1>4. /\ LastRowid(t) \in I \cup {0}
      /\ \A i \in I \cup {0} : LastRowid(t) >= i
      BY <1>3 DEF LastRowid, Max
<1> HIDE DEF I
<1>5. LastRowid(t) \in Nat /\ \A i \in I : i \in Nat /\ i <= LastRowid(t)
  <2>1. \A a, b \in Nat : a >= b => b <= a
        BY SMT
  <2>2. LastRowid(t) \in Nat /\ \A i \in I : i \in Nat
    <3>1. \A x \in I \cup {0} : x \in Nat
          BY <1>2, SMT
    <3>2. QED
          BY <1>4, <3>1, Zenon
  <2>3. QED
        BY <1>4, <2>1, <2>2, Zenon
<1>6. QED
      BY <1>5, Zenon DEF I

\* A new row is put behind all of the table, under an identifier of its own.
LEMMA WrittenRows ==
  ASSUME NEW t, IsTable(t), NEW batch, IsBatch(batch)
  PROVE  /\ \A r \in Written(t, batch) : r.text \in Int /\ r.id \in Ids(Range(batch))
         /\ \A r \in Written(t, batch) : \A q \in t : q.rowid < r.rowid
         /\ \A r, q \in Written(t, batch) : r.id = q.id \/ r.rowid = q.rowid => r = q
         /\ \E n \in Nat : \A r \in Written(t, batch) : r.rowid \in 1..n
<1> DEFINE last == LastRowid(t)
           Row(k) == [id |-> batch[k].id, entry |-> batch[k].entry, instant |-> batch[k].instant,
                      text |-> batch[k].text, rowid |-> last + k]
           K == {k \in DOMAIN batch : \A j \in DOMAIN batch : j > k => batch[j].id # batch[k].id}
<1>1. PICK n \in Nat : DOMAIN batch = 1..n /\ \A k \in 1..n : Stamped(batch[k])
      BY DEF IsBatch
<1>2. last \in Nat /\ \A q \in t : q.rowid \in Nat /\ q.rowid <= last
      BY LastRowidIsLast
<1>3. Written(t, batch) = {Row(k) : k \in K}
      BY DEF Written
<1>4. \A k \in K : k \in 1..n /\ k \in Nat /\ k >= 1 /\ k <= n
      BY <1>1, SMT
<1>5. \A k \in K : Row(k).text \in Int /\ Row(k).id \in Ids(Range(batch))
      BY <1>1, <1>4 DEF Stamped, Ids, Range
<1>6. \A k \in K : Row(k).rowid = last + k /\ Row(k).id = batch[k].id
      OBVIOUS
<1>7. \A j, k \in K : batch[j].id = batch[k].id => j = k
  <2> SUFFICES ASSUME NEW j \in K, NEW k \in K, batch[j].id = batch[k].id PROVE j = k
      OBVIOUS
  <2>1. ~ (j > k) /\ ~ (k > j)
        OBVIOUS
  <2> HIDE DEF K
  <2>2. QED
        BY <1>4, <2>1, SMT
<1>8. /\ \A j, k \in Nat : last + j = last + k => j = k
      /\ \A k \in Nat : k >= 1 => /\ \A q \in Nat : q <= last => q < last + k
                                  /\ k <= n => last + k \in 1..(last + n)
      /\ last + n \in Nat
      BY <1>2, SMT
<1> HIDE DEF Row, K, last
<1>9. \A k \in K : \A q \in t : q.rowid < Row(k).rowid
  <2> SUFFICES ASSUME NEW k \in K, NEW q \in t PROVE q.rowid < Row(k).rowid
      OBVIOUS
  <2>1. q.rowid < last + k
        BY <1>2, <1>4, <1>8, Zenon
  <2>2. QED
        BY <1>6, <2>1
<1>10. \A j, k \in K : Row(j).id = Row(k).id \/ Row(j).rowid = Row(k).rowid => j = k
  <2> SUFFICES ASSUME NEW j \in K, NEW k \in K,
                      Row(j).id = Row(k).id \/ Row(j).rowid = Row(k).rowid
               PROVE  j = k
      OBVIOUS
  <2>1. CASE Row(j).id = Row(k).id
        BY <1>6, <1>7, <2>1, Zenon
  <2>2. CASE Row(j).rowid = Row(k).rowid
    <3>1. last + j = last + k
          BY <1>6, <2>2
    <3>2. QED
          BY <1>4, <1>8, <3>1, Zenon
  <2>3. QED
        BY <2>1, <2>2
<1>11. \A k \in K : Row(k).rowid \in 1..(last + n)
      BY <1>4, <1>6, <1>8, Zenon
<1>12. QED
      BY <1>3, <1>5, <1>8, <1>9, <1>10, <1>11, Zenon

LEMMA InsertKeepsTable ==
  ASSUME NEW t, IsTable(t), NEW batch, IsBatch(batch)
  PROVE  IsTable(InsertLogs(t, batch))
<1> DEFINE W == Written(t, batch)
           O == {r \in t : r.id \notin Ids(Range(batch))}
<1>1. InsertLogs(t, batch) = O \cup W
      BY DEF InsertLogs
<1>2. /\ \A r \in W : r.text \in Int /\ r.id \in Ids(Range(batch))
      /\ \A r \in W : \A q \in t : q.rowid < r.rowid
      /\ \A r, q \in W : r.id = q.id \/ r.rowid = q.rowid => r = q
      BY WrittenRows
<1>3. PICK n \in Nat : \A r \in W : r.rowid \in 1..n
      BY WrittenRows
<1>4. PICK m \in Nat : \A r \in t : r.rowid \in 1..m
      BY DEF IsTable
<1> HIDE DEF W
<1>5. \A r \in O \cup W : r.rowid \in 1..(m + n)
  <2>1. \A i \in 1..m : i \in 1..(m + n)
        BY SMT
  <2>2. \A i \in 1..n : i \in 1..(m + n)
        BY SMT
  <2>3. QED
        BY <1>3, <1>4, <2>1, <2>2, Zenon
<1>6. \A r \in W, q \in O : r.id # q.id /\ r.rowid # q.rowid
  <2>1. \A i \in 1..m : ~ (i < i)
        BY SMT
  <2>2. QED
        BY <1>2, <1>4, <2>1
<1>7. \A r, q \in O \cup W : r.id = q.id \/ r.rowid = q.rowid => r = q
      BY <1>2, <1>6, Zenon DEF IsTable
<1>8. m + n \in Nat
      BY SMT
<1>9. QED
      BY <1>1, <1>2, <1>5, <1>7, <1>8, Zenon DEF IsTable

LEMMA DeleteKeepsTable ==
  ASSUME NEW t, IsTable(t), NEW u \in SUBSET t
  PROVE  IsTable(u)
BY DEF IsTable

\* The order of the pages is total and strict.
LEMMA NewerOrders ==
  ASSUME NEW t, IsTable(t), NEW r \in t, NEW q \in t, NEW s \in t
  PROVE  /\ ~ Newer(r, r)
         /\ Newer(s, q) /\ Newer(q, r) => Newer(s, r)
         /\ r # q => Newer(r, q) \/ Newer(q, r)
<1>1. \A x \in t : x.text \in Int /\ x.rowid \in Int
  <2>1. \A n \in Nat : \A i \in 1..n : i \in Int
        BY SMT
  <2>2. QED
        BY <2>1 DEF IsTable
<1>2. r.rowid = q.rowid => r = q
      BY DEF IsTable
<1>3. QED
      BY <1>1, <1>2, SMT DEF Newer

LEMMA RankIsNat ==
  ASSUME NEW t, IsTable(t), NEW r
  PROVE  /\ IsFiniteSet({s \in t : Newer(s, r)})
         /\ Rank(t, r) \in Nat
<1>1. IsFiniteSet({s \in t : Newer(s, r)})
      BY TableIsFinite, FS_Subset, {s \in t : Newer(s, r)} \in SUBSET t
<1>2. QED
      BY <1>1, FS_CardinalityType DEF Rank

LEMMA RankGrows ==
  ASSUME NEW t, IsTable(t), NEW r \in t, NEW q \in t, Newer(q, r)
  PROVE  Rank(t, q) < Rank(t, r)
<1> DEFINE Q == {s \in t : Newer(s, q)}
           R == {s \in t : Newer(s, r)}
<1>1. IsFiniteSet(Q) /\ IsFiniteSet(R) /\ Cardinality(Q) \in Nat /\ Cardinality(R) \in Nat
      BY RankIsNat DEF Rank
<1>2. q \notin Q /\ Q \cup {q} \in SUBSET R
      BY NewerOrders
<1> HIDE DEF Q, R
<1>3. Cardinality(Q \cup {q}) = Cardinality(Q) + 1
      BY <1>1, <1>2, FS_AddElement
<1>4. Cardinality(Q \cup {q}) <= Cardinality(R)
      BY <1>1, <1>2, FS_Subset
<1>5. Cardinality(Q) < Cardinality(R)
      BY <1>1, <1>3, <1>4, SMT
<1>6. QED
      BY <1>5 DEF Rank, Q, R

LEMMA RankTells ==
  ASSUME NEW t, IsTable(t), NEW r \in t, NEW q \in t, Rank(t, r) = Rank(t, q)
  PROVE  r = q
<1>1. ~ (Rank(t, r) < Rank(t, q)) /\ ~ (Rank(t, q) < Rank(t, r))
  <2>1. \A n \in Nat : ~ (n < n)
        BY SMT
  <2>2. QED
        BY <2>1, RankIsNat
<1>2. QED
      BY <1>1, NewerOrders, RankGrows

\* Rows of which the ranks are in an interval are no more than it has numbers.
LEMMA RanksCount ==
  ASSUME NEW t, IsTable(t), NEW a \in Nat, NEW n \in Nat, NEW u \in SUBSET t,
         \A r \in u : Rank(t, r) \in a..(a + n - 1)
  PROVE  IsFiniteSet(u) /\ Cardinality(u) \in Nat /\ Cardinality(u) <= n
<1> DEFINE f == [r \in u |-> Rank(t, r)]
           I == a..(a + n - 1)
<1>1. IsFiniteSet(I) /\ Cardinality(I) = n
      BY FS_Interval, SMT
<1>2. f \in [u -> I] /\ \A x, y \in DOMAIN f : f[x] = f[y] => x = y
      BY RankTells
<1>3. f \in Injection(u, I)
  <2> HIDE DEF f, I
  <2>1. QED
        BY <1>2, Zenon DEF Injection, IsInjective
<1> HIDE DEF f, I
<1>4. IsFiniteSet(u) /\ Cardinality(u) <= Cardinality(I)
      BY <1>1, <1>3, FS_Injection, Zenon
<1>5. QED
      BY <1>1, <1>4, FS_CardinalityType

LEMMA LimitIsPositive ==
  ASSUME NEW limit
  PROVE  EffectiveLimit(limit) \in Nat /\ EffectiveLimit(limit) >= 1
BY StoreAssumption, SMT DEF EffectiveLimit

\* A page has no more rows than its limit.
LEMMA PageIsSmall ==
  ASSUME NEW t, IsTable(t), NEW limit, NEW offset \in Nat
  PROVE  /\ Cardinality(QueryLogs(t, limit, offset)) \in Nat
         /\ Cardinality(QueryLogs(t, limit, offset)) <= EffectiveLimit(limit)
<1>1. QueryLogs(t, limit, offset) \in SUBSET t
      BY DEF QueryLogs
<1>2. \A r \in QueryLogs(t, limit, offset) :
        Rank(t, r) \in offset..(offset + EffectiveLimit(limit) - 1)
      BY DEF QueryLogs
<1>3. QED
      BY <1>1, <1>2, LimitIsPositive, RanksCount

\* A page is empty only when no row is left: the ranks of a table have no gaps.
LEMMA PageIsReached ==
  ASSUME NEW t, IsTable(t), NEW limit, NEW offset \in Nat, NEW r \in t, Rank(t, r) >= offset
  PROVE  QueryLogs(t, limit, offset) # {}
<1> DEFINE K == {Rank(t, q) : q \in {q \in t : Rank(t, q) >= offset}}
<1>1. K \subseteq Nat /\ K # {}
      BY RankIsNat
<1>2. PICK k \in K : \A j \in K : ~ (<<j, k>> \in OpToRel(<, Nat))
  <2> HIDE DEF K
  <2>1. QED
        BY <1>1, NatLessThanWellFounded, WFMin, Zenon
<1>3. \A j \in K : ~ (j < k)
  <2> HIDE DEF K
  <2>1. \A j \in K : j < k => <<j, k>> \in OpToRel(<, Nat)
        BY <1>1, SMT DEF OpToRel
  <2>2. QED
        BY <1>2, <2>1, Zenon
<1>4. PICK q \in t : k = Rank(t, q) /\ Rank(t, q) >= offset
      BY <1>2
<1> DEFINE Q == {s \in t : Newer(s, q)}
<1>5. \A s \in Q : Rank(t, s) \in 0..(0 + offset - 1)
  <2>1. TAKE s \in Q
  <2>2. Rank(t, s) < Rank(t, q)
        BY RankGrows
  <2>3. ~ (Rank(t, s) >= offset)
        BY <1>3, <1>4, <2>2
  <2>4. \A i \in Nat : ~ (i >= offset) => i \in 0..(0 + offset - 1)
        BY SMT
  <2>5. QED
        BY <2>3, <2>4, RankIsNat
<1>6. Cardinality(Q) <= offset
      BY <1>5, RanksCount, Q \in SUBSET t, 0 \in Nat
<1>7. Rank(t, q) <= offset
      BY <1>6 DEF Rank
<1>8. \A i, l \in Nat : i >= offset /\ i <= offset /\ l >= 1 => i \in offset..(offset + l - 1)
      BY SMT
<1>9. Rank(t, q) \in offset..(offset + EffectiveLimit(limit) - 1)
      BY <1>4, <1>7, <1>8, LimitIsPositive, RankIsNat
<1>10. QED
      BY <1>9 DEF QueryLogs

\* An insertion moves no row forward in the order, unless it gives a row an earlier time.
LEMMA InsertRaisesRank ==
  ASSUME NEW t, IsTable(t), NEW batch, IsBatch(batch), NEW r \in t,
         r.id \notin Ids(Range(batch)),
         \A q \in t : \A k \in DOMAIN batch : q.id = batch[k].id => ~ (q.text > batch[k].text)
  PROVE  r \in InsertLogs(t, batch) /\ Rank(t, r) <= Rank(InsertLogs(t, batch), r)
<1> DEFINE u == InsertLogs(t, batch)
           S == {q \in t : Newer(q, r)}
           U == {q \in u : Newer(q, r)}
<1>1. r \in u
      BY DEF InsertLogs
<1>2. IsTable(u)
      BY InsertKeepsTable
<1>3. ASSUME NEW q \in t, Newer(q, r)
      PROVE  \E x \in u : x.id = q.id /\ Newer(x, r)
  <2>1. CASE q.id \notin Ids(Range(batch))
        BY <1>3, <2>1 DEF InsertLogs
  <2>2. CASE q.id \in Ids(Range(batch))
    <3>1. q.id \in Ids(u)
          BY <2>2, InsertKeepsIds, Zenon
    <3>2. PICK x \in u : x.id = q.id
          BY <3>1 DEF Ids
    <3>3. x \in Written(t, batch)
          BY <2>2, <3>2 DEF InsertLogs
    <3>4. PICK k \in DOMAIN batch : x.id = batch[k].id /\ x.text = batch[k].text
          BY <3>3 DEF Written
    <3>5. ~ (q.text > x.text)
          BY <3>2, <3>4, Zenon
    <3>6. r.rowid < x.rowid /\ x.text \in Int
          BY <3>3, WrittenRows
    <3>7. q.text \in Int /\ r.text \in Int
          BY DEF IsTable
    <3>8. x.rowid \in Int /\ r.rowid \in Int
      <4>1. \A n \in Nat : \A i \in 1..n : i \in Int
            BY SMT
      <4>2. QED
            BY <1>2, <4>1 DEF IsTable
    <3>9. Newer(x, r)
      <4>1. q.text > r.text \/ q.text = r.text
            BY <1>3 DEF Newer
      <4>2. \A i, j, d, m, n \in Int : ~ (i > j) /\ (i > d \/ i = d) /\ m < n
                                       => (j > d \/ (j = d /\ n > m))
            BY SMT
      <4>3. x.text > r.text \/ (x.text = r.text /\ x.rowid > r.rowid)
            BY <3>5, <3>6, <3>7, <3>8, <4>1, <4>2, Zenon
      <4>4. QED
            BY <4>3 DEF Newer
    <3>10. QED
          BY <3>2, <3>9
  <2>3. QED
        BY <2>1, <2>2
<1> DEFINE f == [q \in S |-> CHOOSE x \in u : x.id = q.id /\ Newer(x, r)]
<1>4. \A q \in S : f[q] \in U /\ f[q].id = q.id
  <2>1. TAKE q \in S
  <2>2. \E x \in u : x.id = q.id /\ Newer(x, r)
        BY <1>3
  <2>3. f[q] = CHOOSE x \in u : x.id = q.id /\ Newer(x, r)
        OBVIOUS
  <2> HIDE DEF f
  <2>4. QED
        BY <2>2, <2>3
<1>5. \A q, p \in S : f[q] = f[p] => q = p
  <2> HIDE DEF f
  <2>1. QED
        BY <1>4 DEF IsTable
<1>6. DOMAIN f = S /\ f \in [S -> U]
      BY <1>4
<1>7. f \in Injection(S, U)
  <2> HIDE DEF f, S, U
  <2>1. QED
        BY <1>5, <1>6, Zenon DEF Injection, IsInjective
<1>8. IsFiniteSet(U)
      BY <1>2, RankIsNat
<1> HIDE DEF f, u
<1>9. Cardinality(S) <= Cardinality(U)
      BY <1>7, <1>8, FS_Injection, Zenon
<1>10. QED
      BY <1>1, <1>9 DEF Rank, u

\* The cleanup takes from the end of the order: the rank of what stays is the same.
LEMMA DeleteKeepsRank ==
  ASSUME NEW t, IsTable(t), NEW cutoff \in Int, NEW r \in DeleteOldLogs(t, cutoff)
  PROVE  Rank(DeleteOldLogs(t, cutoff), r) = Rank(t, r)
<1>1. r \in t /\ r.text >= cutoff
      BY DEF DeleteOldLogs
<1>2. \A s \in t : Newer(s, r) => s.text >= cutoff
  <2>1. \A i, j, k \in Int : (i > j \/ i = j) /\ j >= k => i >= k
        BY SMT
  <2>2. \A s \in t : s.text \in Int
        BY DEF IsTable
  <2>3. \A s \in t : Newer(s, r) => s.text > r.text \/ s.text = r.text
        BY DEF Newer
  <2>4. QED
        BY <1>1, <2>1, <2>2, <2>3, Zenon
<1>3. {s \in DeleteOldLogs(t, cutoff) : Newer(s, r)} = {s \in t : Newer(s, r)}
      BY <1>2 DEF DeleteOldLogs
<1>4. QED
      BY <1>3, Zenon DEF Rank

-----------------------------------------------------------------------------
(* The table through the steps. *)

LEMMA TableSteps ==
  [Next]_vars => logs' = logs \/ Cleanup \/ \E h \in Handlers : Commit(h)
BY DEF Next, Handle, Execute, Refuse, Fail, Respond, Post, TimeOut, Crash, Elapse, Flip, Tick,
       StartPaging, NextPage, LastPage, vars, tableVars

LEMMA CutoffIsInt == IInv => Cutoff \in Int
BY IngestAssumption, SMT DEF IInv, Cutoff

LEMMA NextTable == IInv /\ IsTable(logs) /\ [Next]_vars => IsTable(logs)'
<1> SUFFICES ASSUME IInv, IsTable(logs), [Next]_vars PROVE IsTable(logs')
    BY Zenon DEF IsTable
<1>1. CASE Cleanup
  <2>1. logs' \in SUBSET logs
        BY <1>1 DEF Cleanup, DeleteOldLogs
  <2>2. QED
        BY <2>1, DeleteKeepsTable
<1>2. ASSUME NEW h \in Handlers, Commit(h) PROVE IsTable(logs')
  <2>1. IsBatch(body[h]) /\ logs' = InsertLogs(logs, body[h])
        BY <1>2 DEF IInv, HandlersHoldBatches, Commit
  <2>2. QED
        BY <2>1, InsertKeepsTable
<1>3. QED
      BY <1>1, <1>2, TableSteps

LEMMA InitTable == Init => IsTable(logs)
BY SMT DEF Init, IsTable

-----------------------------------------------------------------------------
(* The reader. *)

\* What a reader has before it is at its offset or beyond.
Paged == /\ reader \in [paging : BOOLEAN, offset : Nat, ahead : SUBSET Ids(logs)]
         /\ reader.paging =>
              \A r \in logs : r.id \in reader.ahead => Rank(logs, r) >= reader.offset

LEMMA AtRest ==
  ASSUME NEW t
  PROVE  Resting \in [paging : BOOLEAN, offset : Nat, ahead : SUBSET Ids(t)] /\ ~ Resting.paging
BY SMT DEF Resting

\* What is inserted moves the rows before the reader further on, or it rests.
LEMMA CommitPaged ==
  ASSUME IInv, IsTable(logs), Paged, NEW h \in Handlers, Commit(h)
  PROVE  Paged'
<1> DEFINE batch == body[h]
<1>1. IsBatch(batch)
      BY DEF IInv, HandlersHoldBatches
<1>2. logs' = InsertLogs(logs, batch) /\ reader' = Moved(batch)
      BY DEF Commit
<1>3. CASE \E r \in logs : \E k \in DOMAIN batch : r.id = batch[k].id /\ r.text > batch[k].text
  <2>1. reader' = Resting
        BY <1>2, <1>3 DEF Moved
  <2>2. QED
        BY <2>1, AtRest DEF Paged
<1>4. CASE \A q \in logs : \A k \in DOMAIN batch : q.id = batch[k].id => ~ (q.text > batch[k].text)
  <2>1. reader' = [reader EXCEPT !.ahead = reader.ahead \ Ids(Range(batch))]
        BY <1>2, <1>4 DEF Moved
  <2>2. reader' \in [paging : BOOLEAN, offset : Nat, ahead : SUBSET Ids(logs')]
    <3>1. Ids(logs') = Ids(logs) \cup Ids(Range(batch))
          BY <1>1, <1>2, InsertKeepsIds
    <3>2. reader.ahead \ Ids(Range(batch)) \in SUBSET Ids(logs')
          BY <3>1 DEF Paged
    <3>3. QED
          BY <2>1, <3>2 DEF Paged
  <2>3. /\ reader'.paging = reader.paging /\ reader'.offset = reader.offset
        /\ reader'.ahead = reader.ahead \ Ids(Range(batch))
        BY <2>1 DEF Paged
  <2>4. ASSUME reader.paging, NEW r \in logs', r.id \in reader.ahead, r.id \notin Ids(Range(batch))
        PROVE  Rank(logs', r) >= reader.offset
    <3>1. r \in logs
      <4>1. r \notin Written(logs, batch)
            BY <1>1, <2>4, WrittenRows
      <4>2. QED
            BY <1>2, <2>4, <4>1 DEF InsertLogs
    <3>2. Rank(logs, r) >= reader.offset
          BY <2>4, <3>1 DEF Paged
    <3>3. Rank(logs, r) <= Rank(logs', r)
          BY <1>1, <1>2, <1>4, <2>4, <3>1, InsertRaisesRank
    <3>4. Rank(logs, r) \in Nat /\ Rank(logs', r) \in Nat /\ reader.offset \in Nat
          BY <1>1, <1>2, InsertKeepsTable, RankIsNat DEF Paged
    <3>5. \A i, j, k \in Nat : i >= k /\ i <= j => j >= k
          BY SMT
    <3>6. QED
          BY <3>2, <3>3, <3>4, <3>5, Zenon
  <2>5. QED
        BY <2>2, <2>3, <2>4 DEF Paged
<1>5. QED
      BY <1>3, <1>4

LEMMA CleanupPaged ==
  ASSUME IInv, IsTable(logs), Paged, Cleanup
  PROVE  Paged'
<1>1. /\ logs' = DeleteOldLogs(logs, Cutoff) /\ logs' \subseteq logs
      /\ reader' = [reader EXCEPT !.ahead = reader.ahead \cap Ids(logs')]
      BY DEF Cleanup, DeleteOldLogs
<1>2. \A r \in logs' : Rank(logs', r) = Rank(logs, r)
      BY <1>1, DeleteKeepsRank, CutoffIsInt
<1>3. reader' \in [paging : BOOLEAN, offset : Nat, ahead : SUBSET Ids(logs')]
      BY <1>1 DEF Paged
<1>4. /\ reader'.paging = reader.paging /\ reader'.offset = reader.offset
      /\ reader'.ahead \subseteq reader.ahead
      BY <1>1 DEF Paged
<1>5. QED
      BY <1>1, <1>2, <1>3, <1>4, Zenon DEF Paged

\* The reader advances by the page it got, which is no longer than its limit.
LEMMA NextPagePaged ==
  ASSUME IsTable(logs), Paged, NextPage
  PROVE  Paged'
<1> DEFINE n == Cardinality(Page)
           l == EffectiveLimit(PageSize)
<1>1. /\ reader' = [reader EXCEPT !.offset = reader.offset + n, !.ahead = reader.ahead \ Ids(Page)]
      /\ logs' = logs
      BY DEF NextPage, tableVars
<1>2. reader.offset \in Nat
      BY DEF Paged
<1>3. n \in Nat /\ n <= l /\ l \in Nat
      BY <1>2, PageIsSmall, LimitIsPositive DEF Page
<1>4. /\ reader'.offset = reader.offset + n /\ reader'.ahead = reader.ahead \ Ids(Page)
      /\ reader'.paging = reader.paging
      BY <1>1 DEF Paged
<1>5. reader' \in [paging : BOOLEAN, offset : Nat, ahead : SUBSET Ids(logs)]
  <2>1. reader.offset + n \in Nat
        BY <1>2, <1>3, SMT
  <2>2. reader.ahead \ Ids(Page) \in SUBSET Ids(logs)
        BY DEF Paged
  <2> HIDE DEF n
  <2>3. QED
        BY <1>1, <2>1, <2>2 DEF Paged
<1>6. ASSUME reader.paging, NEW r \in logs, r.id \in reader.ahead, r.id \notin Ids(Page)
      PROVE  Rank(logs, r) >= reader.offset + n
  <2>1. Rank(logs, r) >= reader.offset
        BY <1>6 DEF Paged
  <2>2. Rank(logs, r) \notin reader.offset..(reader.offset + l - 1)
        BY <1>6 DEF Ids, Page, QueryLogs
  <2>3. \A i, o, k, m \in Nat : i >= o /\ i \notin o..(o + m - 1) /\ k <= m => i >= o + k
        BY SMT
  <2> HIDE DEF n, l
  <2>4. QED
        BY <1>2, <1>3, <2>1, <2>2, <2>3, RankIsNat
<1>7. QED
      BY <1>1, <1>4, <1>5, <1>6 DEF Paged

LEMMA StartPagingPaged ==
  ASSUME IsTable(logs), StartPaging
  PROVE  Paged'
<1>1. reader' = [paging |-> TRUE, offset |-> 0, ahead |-> Ids(logs)] /\ logs' = logs
      BY DEF StartPaging, Resting, tableVars
<1>2. \A i \in Nat : i >= 0
      BY SMT
<1>3. 0 \in Nat
      BY SMT
<1>4. QED
      BY <1>1, <1>2, <1>3, RankIsNat DEF Paged

LEMMA NextPaged == IInv /\ IsTable(logs) /\ Paged /\ [Next]_vars => Paged'
<1> SUFFICES ASSUME IInv, IsTable(logs), Paged, [Next]_vars PROVE Paged'
    OBVIOUS
<1>1. CASE LastPage
      BY <1>1, AtRest DEF LastPage, Paged
<1>2. CASE UNCHANGED <<logs, reader>>
      BY <1>2, Zenon DEF Paged
<1>3. \/ LastPage \/ NextPage \/ StartPaging \/ Cleanup \/ UNCHANGED <<logs, reader>>
      \/ \E h \in Handlers : Commit(h)
      BY DEF Next, Handle, Execute, Refuse, Fail, Respond, Post, TimeOut, Crash, Elapse, Flip, Tick,
             vars, tableVars
<1>4. QED
      BY <1>1, <1>2, <1>3, CommitPaged, CleanupPaged, NextPagePaged, StartPagingPaged

LEMMA InitPaged == Init => Paged
BY AtRest DEF Init, Paged

\* sqlite.go:161-197: a client that pages to the end while rows are inserted, replaced by
\* later ones and cleaned up has met every row that was there all along.
THEOREM PagingSkipsNothingHolds == Spec => PagingSkipsNothing
<1>1. IsTable(logs) /\ Paged => [LastPage => reader.ahead = {}]_vars
  <2> SUFFICES ASSUME IsTable(logs), Paged, LastPage, NEW i \in reader.ahead PROVE FALSE
      OBVIOUS
  <2>1. PICK r \in logs : r.id = i
        BY DEF Paged, Ids
  <2>2. reader.offset \in Nat /\ Rank(logs, r) >= reader.offset
        BY <2>1 DEF Paged, LastPage
  <2>3. QED
        BY <2>2, PageIsReached DEF LastPage, Page
<1>2. Spec => [](IsTable(logs) /\ Paged)
      BY InitTable, InitPaged, NextTable, NextPaged, Invariance, PTL DEF Spec
<1>3. QED
      BY <1>1, <1>2, PTL DEF Spec, PagingSkipsNothing

-----------------------------------------------------------------------------
(* Where senders, handlers, breaker and clock are. *)

SendersTyped ==
  /\ sender \in [Senders -> {Idle, Done} \cup Slots]
  /\ lost \in [Senders -> 0..MaxLost]
  /\ handler \in [Handlers -> {"none", "execute", "insert", "respond"}]

OthersTyped ==
  /\ tripped \in BOOLEAN /\ age \in 0..(Timeout + 1)
  /\ dbUp \in BOOLEAN
  /\ clock \in 0..MaxClock

\* The losses of one sender are among those of all.
LEMMA LossesOfOne ==
  ASSUME SendersTyped, NEW s \in Senders, Losses < MaxLost
  PROVE  lost[s] + 1 \in 0..MaxLost
<1> DEFINE L == {l \in Senders \X (1..MaxLost) : l[2] <= lost[l[1]]}
           I == 1..MaxLost
           f == [i \in I |-> <<s, i>>]
<1>1. MaxLost \in Nat
      BY BoundsAreNat
<1>2. lost[s] \in 0..MaxLost
      BY DEF SendersTyped
<1>3. IsFiniteSet(I) /\ Cardinality(I) = MaxLost
      BY <1>1, FS_Interval, SMT
<1>4. IsFiniteSet(L)
  <2>1. IsFiniteSet(Senders \X I)
        BY <1>3, IngestAssumption, FS_Product
  <2>2. L \in SUBSET (Senders \X I)
        OBVIOUS
  <2> HIDE DEF L, I
  <2>3. QED
        BY <2>1, <2>2, FS_Subset
<1>5. lost[s] # MaxLost
  <2> SUFFICES ASSUME lost[s] = MaxLost PROVE FALSE
      OBVIOUS
  <2>1. \A i \in I : i <= lost[s]
        BY <1>1, SMT
  <2>2. \A i \in I : f[i] \in L
        BY <2>1
  <2>3. f \in [I -> L] /\ \A i, j \in DOMAIN f : f[i] = f[j] => i = j
        BY <2>2
  <2>4. f \in Injection(I, L)
    <3> HIDE DEF f, I, L
    <3>1. QED
          BY <2>3, Zenon DEF Injection, IsInjective
  <2> HIDE DEF f, I, L
  <2>5. Cardinality(I) <= Cardinality(L)
        BY <1>4, <2>4, FS_Injection, Zenon
  <2>6. Cardinality(L) \in Nat /\ Cardinality(L) < MaxLost
        BY <1>4, FS_CardinalityType DEF Losses, L, I
  <2>7. QED
        BY <1>1, <1>3, <2>5, <2>6, SMT
<1>6. QED
      BY <1>1, <1>2, <1>5, SMT

LEMMA AnswerTyped ==
  ASSUME SendersTyped, NEW h \in Handlers, NEW ok \in BOOLEAN, Answer(h, ok)
  PROVE  SendersTyped'
<1>1. h[1] \in Senders
      BY DEF Handlers
<1>2. handler' \in [Handlers -> {"none", "execute", "insert", "respond"}] /\ lost' = lost
      BY DEF Answer, SendersTyped
<1>3. sender' \in [Senders -> {Idle, Done} \cup Slots]
  <2>1. \/ sender' = sender
        \/ sender' = [sender EXCEPT ![h[1]] = Done]
        \/ sender' = [sender EXCEPT ![h[1]] = Idle]
        BY DEF Answer
  <2>2. QED
        BY <1>1, <2>1 DEF SendersTyped
<1>4. QED
      BY <1>2, <1>3 DEF SendersTyped

LEMMA NextSendersTyped == SendersTyped /\ [Next]_vars => SendersTyped'
<1> SUFFICES ASSUME SendersTyped, [Next]_vars PROVE SendersTyped'
    OBVIOUS
<1>1. ASSUME NEW s \in Senders, NEW k \in Slots, Post(s, k) PROVE SendersTyped'
      BY <1>1 DEF Post, SendersTyped, Handlers
<1>2. ASSUME NEW s \in Senders, TimeOut(s) PROVE SendersTyped'
  <2>1. lost[s] + 1 \in 0..MaxLost
        BY <1>2, LossesOfOne DEF TimeOut
  <2>2. lost' = [lost EXCEPT ![s] = lost[s] + 1] /\ sender' = [sender EXCEPT ![s] = Idle]
        /\ handler' = handler
        BY <1>2 DEF TimeOut, handlerVars
  <2>3. QED
        BY <2>1, <2>2 DEF SendersTyped
<1>3. CASE Crash
  <2>1. \A s \in Senders : lost[s] + 1 \in 0..MaxLost
        BY <1>3, LossesOfOne DEF Crash
  <2>2. /\ lost' = [s \in Senders |-> IF Waits(s) THEN lost[s] + 1 ELSE lost[s]]
        /\ sender' = [s \in Senders |-> IF Waits(s) THEN Idle ELSE sender[s]]
        /\ handler' = [h \in Handlers |-> "none"]
        BY <1>3 DEF Crash
  <2>3. lost' \in [Senders -> 0..MaxLost]
        BY <2>1, <2>2 DEF SendersTyped
  <2>4. sender' \in [Senders -> {Idle, Done} \cup Slots]
        BY <2>2 DEF SendersTyped
  <2>5. QED
        BY <2>2, <2>3, <2>4 DEF SendersTyped
<1>4. ASSUME NEW h \in Handlers, Handle(h) PROVE SendersTyped'
  <2>1. CASE Execute(h) \/ Commit(h)
        BY <2>1 DEF Execute, Commit, senderVars, SendersTyped
  <2>2. CASE Refuse(h) \/ Fail(h) \/ Respond(h)
        BY <2>2, AnswerTyped DEF Refuse, Fail, Respond
  <2>3. QED
        BY <1>4, <2>1, <2>2 DEF Handle
<1>5. CASE \/ Elapse \/ Flip \/ Tick \/ Cleanup
           \/ StartPaging \/ NextPage \/ LastPage \/ UNCHANGED vars
      BY <1>5 DEF Elapse, Flip, Tick, Cleanup, StartPaging, NextPage, LastPage, vars, senderVars,
                  handlerVars, SendersTyped
<1>6. QED
      BY <1>1, <1>2, <1>3, <1>4, <1>5 DEF Next

LEMMA NextOthersTyped == OthersTyped /\ [Next]_vars => OthersTyped'
<1> SUFFICES ASSUME OthersTyped, [Next]_vars PROVE OthersTyped'
    OBVIOUS
<1> DEFINE BreakerTyped == tripped \in BOOLEAN /\ age \in 0..(Timeout + 1)
<1>1. ASSUME NEW h \in Handlers, Handle(h) PROVE BreakerTyped' /\ UNCHANGED <<dbUp, clock>>
  <2>1. BreakerTyped' \/ UNCHANGED <<tripped, age>>
    <3>1. 0 \in 0..(Timeout + 1)
          BY IngestAssumption, SMT
    <3>2. QED
          BY <1>1, <3>1, Zenon
             DEF Handle, Execute, Refuse, Commit, Fail, Respond, breakerVars, OthersTyped,
                 B!Start, B!Succeed, B!Fail
  <2>2. UNCHANGED <<dbUp, clock>>
        BY <1>1 DEF Handle, Execute, Refuse, Commit, Fail, Respond
  <2>3. QED
        BY <2>1, <2>2, Zenon DEF OthersTyped
<1>2. CASE Elapse
  <2>1. /\ age' = age + 1 /\ ~ (age > Timeout)
        /\ UNCHANGED <<tripped, dbUp, clock>>
        BY <1>2 DEF Elapse, B!Elapse, B!Quiet
  <2>2. age' \in 0..(Timeout + 1)
        BY <2>1, IngestAssumption, SMT DEF OthersTyped
  <2>3. QED
        BY <2>1, <2>2 DEF OthersTyped
<1>3. ASSUME NEW s \in Senders, NEW k \in Slots, Post(s, k) PROVE OthersTyped'
  <2>1. (clock' = clock \/ clock' = clock + 1) /\ clock' <= MaxClock
        BY <1>3 DEF Post
  <2>2. clock' \in 0..MaxClock
        BY <2>1, IngestAssumption, SMT DEF OthersTyped
  <2>3. QED
        BY <1>3, <2>2 DEF Post, breakerVars, OthersTyped
<1>4. CASE Tick
  <2>1. clock' \in 0..MaxClock
        BY <1>4, IngestAssumption, SMT DEF Tick, OthersTyped
  <2>2. QED
        BY <1>4, <2>1 DEF Tick, breakerVars, OthersTyped
<1>5. CASE Crash
  <2>1. Timeout + 1 \in 0..(Timeout + 1)
        BY IngestAssumption, SMT
  <2>2. QED
        BY <1>5, <2>1 DEF Crash, OthersTyped
<1>6. ASSUME NEW s \in Senders, TimeOut(s) PROVE OthersTyped'
      BY <1>6 DEF TimeOut, breakerVars, OthersTyped
<1>7. CASE Flip \/ Cleanup \/ StartPaging \/ NextPage \/ LastPage \/ UNCHANGED vars
      BY <1>7 DEF Flip, Cleanup, StartPaging, NextPage, LastPage, vars, breakerVars, OthersTyped
<1>8. QED
      BY <1>1, <1>2, <1>3, <1>4, <1>5, <1>6, <1>7 DEF Next, OthersTyped

LEMMA InitSendersOthersTyped == Init => SendersTyped /\ OthersTyped
<1> SUFFICES ASSUME Init PROVE SendersTyped /\ OthersTyped
    OBVIOUS
<1>1. 0 \in 0..MaxLost
      BY BoundsAreNat, SMT
<1>2. Timeout + 1 \in 0..(Timeout + 1) /\ 0 \in 0..MaxClock
      BY IngestAssumption, SMT
<1>3. QED
      BY <1>1, <1>2 DEF Init, SendersTyped, OthersTyped

-----------------------------------------------------------------------------
(* Which rows an entry has, and what they are paid with. *)

\* A row or an entry of a body is of the k-th entry of s, which was decoded, under its
\* own identifier if it has one.
IsOf(b, s, k) ==
  /\ post[s].form # "single"
  /\ k \in DOMAIN post[s].entries
  /\ b.entry = <<s, k>>
  /\ post[s].entries[k].id # Missing => b.id = <<"own", post[s].entries[k].id>>

EntriesAreOwn ==
  /\ \A h \in Handlers : \A k \in DOMAIN body[h] : IsOf(body[h][k], h[1], k)
  /\ \A r \in logs : \E s \in Senders : \E k \in DOMAIN post[s].entries : IsOf(r, s, k)

LEMMA IdentifiedIsOf ==
  ASSUME NEW s \in Senders, NEW moves \in BOOLEAN, NEW k \in DOMAIN Identified(s, moves)
  PROVE  IsOf(Identified(s, moves)[k], s, k)
<1> DEFINE es == Decoded(post[s])
           I == Identified(s, moves)
<1>1. /\ k \in DOMAIN es
      /\ I[k].entry = <<s, k>>
      /\ es[k].id # Missing => I[k].id = <<"own", es[k].id>>
      BY DEF Identified
<1>2. es = post[s].entries /\ post[s].form # "single"
  <2>1. \A i : i \notin DOMAIN <<>>
        BY SMT
  <2>2. QED
        BY <1>1, <2>1 DEF Decoded
<1> HIDE DEF I, es
<1>3. QED
      BY <1>1, <1>2 DEF IsOf, I

LEMMA NextEntriesAreOwn == IInv /\ EntriesAreOwn /\ [Next]_vars => EntriesAreOwn'
<1> SUFFICES ASSUME IInv, EntriesAreOwn, [Next]_vars PROVE EntriesAreOwn'
    OBVIOUS
<1> DEFINE Bodies == \A h \in Handlers : \A k \in DOMAIN body[h] : IsOf(body[h][k], h[1], k)
           RowsOwn == \A r \in logs : \E s \in Senders :
                        \E k \in DOMAIN post[s].entries : IsOf(r, s, k)
<1>1. post' = post
      BY DEF Next, Handle, Execute, Refuse, Commit, Fail, Respond, Answer, Post, TimeOut, Crash,
             Elapse, Flip, Tick, Cleanup, StartPaging, NextPage, LastPage, vars, senderVars
<1>2. DOMAIN body = Handlers /\ \A i : i \notin DOMAIN <<>>
      BY SMT DEF IInv, HandlersHoldBatches
<1>3. Bodies'
  <2>1. ASSUME NEW s \in Senders, NEW k \in Slots, Post(s, k) PROVE Bodies'
    <3>1. PICK moves \in BOOLEAN : body' = [body EXCEPT ![<<s, k>>] = Identified(s, moves)]
          BY <2>1 DEF Post
    <3>2. \A h \in Handlers : body'[h] = IF h = <<s, k>> THEN Identified(s, moves) ELSE body[h]
          BY <1>2, <3>1
    <3>3. <<s, k>>[1] = s
          OBVIOUS
    <3>4. QED
          BY <1>1, <3>2, <3>3, IdentifiedIsOf DEF EntriesAreOwn, IsOf
  <2>2. CASE /\ \A h \in Handlers : body'[h] = body[h] \/ body'[h] = <<>>
    <3>1. \A h \in Handlers : \A k \in DOMAIN body'[h] : body'[h] = body[h]
          BY <1>2, <2>2
    <3>2. QED
          BY <1>1, <3>1 DEF EntriesAreOwn, IsOf
  <2>3. (\E s \in Senders, k \in Slots : Post(s, k))
        \/ \A h \in Handlers : body'[h] = body[h] \/ body'[h] = <<>>
        BY <1>2 DEF Next, Handle, Execute, Refuse, Commit, Fail, Respond, Answer, TimeOut, Crash,
               Elapse, Flip, Tick, Cleanup, StartPaging, NextPage, LastPage, vars, handlerVars
  <2>4. QED
        BY <2>1, <2>2, <2>3
<1>4. RowsOwn'
  <2>1. ASSUME logs' \subseteq logs PROVE RowsOwn'
        BY <1>1, <2>1 DEF EntriesAreOwn, IsOf
  <2>2. ASSUME NEW h \in Handlers, Commit(h) PROVE RowsOwn'
    <3>1. h[1] \in Senders
          BY DEF Handlers
    <3>2. \A r \in Written(logs, body[h]) : \E k \in DOMAIN body[h] :
             r.id = body[h][k].id /\ r.entry = body[h][k].entry
          BY DEF Written
    <3>3. \A r \in Written(logs, body[h]) : \E k \in DOMAIN post[h[1]].entries : IsOf(r, h[1], k)
          BY <3>2 DEF EntriesAreOwn, IsOf
    <3>4. \A r \in logs' : r \in logs \/ r \in Written(logs, body[h])
          BY <2>2 DEF Commit, InsertLogs
    <3>5. QED
          BY <1>1, <3>1, <3>3, <3>4 DEF EntriesAreOwn, IsOf
  <2>3. QED
        BY <2>1, <2>2, TableSteps DEF Cleanup, DeleteOldLogs
<1>5. QED
      BY <1>3, <1>4 DEF EntriesAreOwn

LEMMA InitEntriesAreOwn == Init => EntriesAreOwn
<1>1. \A i : i \notin DOMAIN <<>>
      BY SMT
<1>2. QED
      BY <1>1 DEF Init, EntriesAreOwn

-----------------------------------------------------------------------------
Rows(e) == {r \in logs : r.entry = e}

\* The attempts of s it gave up that may still insert.
Pending(s) == {k \in Slots : k # sender[s] /\ handler[<<s, k>>] \in {"execute", "insert"}}

\* The attempt that s waits for, or waited for, has inserted.
Inserted(s) == \/ sender[s] = Done
               \/ Waits(s) /\ handler[<<s, sender[s]>>] = "respond"

\* How many times the attempts of s may have inserted an entry by now.
Credit(s) == lost[s] + (IF Inserted(s) THEN 1 ELSE 0) - Cardinality(Pending(s))

\* That an entry has a row for each lost answer at most, and one, is inductive only if
\* what may still be inserted is counted.
RowsAreCounted == \A e \in Entries : Cardinality(Rows(e)) <= Credit(e[1])

LEMMA PendingIsFinite ==
  ASSUME NEW s
  PROVE  IsFiniteSet(Pending(s)) /\ Cardinality(Pending(s)) \in Nat
<1>1. Pending(s) \in SUBSET Slots
      BY DEF Pending
<1>2. QED
      BY <1>1, IngestAssumption, FS_Subset, FS_CardinalityType

LEMMA PendingNextIsFinite ==
  ASSUME NEW s
  PROVE  IsFiniteSet(Pending(s)') /\ Cardinality(Pending(s)') \in Nat
<1>1. Pending(s)' \in SUBSET Slots
      BY DEF Pending
<1>2. QED
      BY <1>1, IngestAssumption, FS_Subset, FS_CardinalityType

\* More losses or fewer attempts leave as much credit, if no insertion is forgotten
\* without a loss.
LEMMA CreditKept ==
  ASSUME SendersTyped, SendersTyped', NEW s \in Senders,
         \/ /\ Pending(s)' \subseteq Pending(s) /\ lost'[s] >= lost[s]
            /\ Inserted(s) => Inserted(s)' \/ lost'[s] >= lost[s] + 1
         \/ /\ \E k \in Slots : Pending(s)' \subseteq Pending(s) \cup {k}
            /\ ~ Inserted(s) /\ lost'[s] >= lost[s] + 1
  PROVE  Credit(s)' >= Credit(s)
<1> DEFINE p == Cardinality(Pending(s))
           q == Cardinality(Pending(s)')
           l == lost[s]
           m == lost'[s]
           i == IF Inserted(s) THEN 1 ELSE 0
           j == IF Inserted(s)' THEN 1 ELSE 0
<1>1. p \in Nat /\ q \in Nat
      BY PendingIsFinite, PendingNextIsFinite
<1>2. l \in Int /\ m \in Int
      BY SMT DEF SendersTyped
<1>3. i \in 0..1 /\ j \in 0..1
      BY SMT
<1>4. Credit(s) = l + i - p /\ Credit(s)' = m + j - q
      BY DEF Credit
<1>5. (q <= p /\ m >= l /\ (i = 1 => j = 1 \/ m >= l + 1)) \/ (q <= p + 1 /\ i = 0 /\ m >= l + 1)
  <2>1. CASE /\ Pending(s)' \subseteq Pending(s) /\ m >= l
             /\ Inserted(s) => Inserted(s)' \/ m >= l + 1
    <3>1. q <= p
          BY <2>1, PendingIsFinite, FS_Subset
    <3>2. i = 1 => Inserted(s)
          BY SMT
    <3> HIDE DEF p, q, l, m
    <3>3. QED
          BY <2>1, <3>1, <3>2
  <2>2. CASE /\ \E k \in Slots : Pending(s)' \subseteq Pending(s) \cup {k}
             /\ ~ Inserted(s) /\ m >= l + 1
    <3>1. PICK k \in Slots : Pending(s)' \subseteq Pending(s) \cup {k}
          BY <2>2
    <3>2. /\ IsFiniteSet(Pending(s) \cup {k})
          /\ Cardinality(Pending(s) \cup {k}) = p \/ Cardinality(Pending(s) \cup {k}) = p + 1
          BY PendingIsFinite, FS_AddElement
    <3>3. q <= Cardinality(Pending(s) \cup {k})
          BY <3>1, <3>2, FS_Subset
    <3> HIDE DEF p, q, l, m
    <3>4. q <= p + 1
          BY <1>1, <3>2, <3>3, SMT
    <3>5. QED
          BY <2>2, <3>4
  <2>3. QED
        BY <2>1, <2>2
<1> HIDE DEF p, q, l, m, i, j
<1>6. m + j - q >= l + i - p
      BY <1>1, <1>2, <1>3, <1>5, SMT
<1>7. QED
      BY <1>4, <1>6

\* An insertion earns what it costs.
LEMMA CommitCredits ==
  ASSUME SendersTyped, SendersTyped', NEW h \in Handlers, Commit(h)
  PROVE  Credit(h[1])' >= Credit(h[1]) + 1
<1> DEFINE s == h[1]
           p == Cardinality(Pending(s))
           q == Cardinality(Pending(s)')
           l == lost[s]
           i == IF Inserted(s) THEN 1 ELSE 0
           j == IF Inserted(s)' THEN 1 ELSE 0
<1>1. s \in Senders /\ h[2] \in Slots /\ h = <<s, h[2]>>
      BY DEF Handlers
<1>2. /\ handler[h] = "insert" /\ handler' = [handler EXCEPT ![h] = "respond"]
      /\ sender' = sender /\ lost' = lost
      BY DEF Commit, senderVars
<1>3. p \in Nat /\ q \in Nat
      BY PendingIsFinite, PendingNextIsFinite
<1>4. l \in Int /\ i \in 0..1 /\ j \in 0..1
      BY <1>1, SMT DEF SendersTyped
<1>5. Credit(s) = l + i - p /\ Credit(s)' = l + j - q
      BY <1>2 DEF Credit
<1>6. Pending(s)' = Pending(s) \ {h[2]}
      BY <1>1, <1>2 DEF Pending, SendersTyped, Handlers
<1>7. Inserted(s) => Inserted(s)'
      BY <1>1, <1>2 DEF Inserted, Waits, SendersTyped, Handlers
<1>8. (q <= p /\ i = 0 /\ j = 1) \/ (q = p - 1 /\ i <= j)
  <2>1. CASE sender[s] = h[2]
    <3>1. Inserted(s)' /\ ~ Inserted(s)
          BY <1>1, <1>2, <2>1, WaitsForSlot DEF Inserted, Waits, SendersTyped, Handlers
    <3>2. q <= p
          BY <1>6, PendingIsFinite, FS_Subset
    <3>3. QED
          BY <3>1, <3>2
  <2>2. CASE sender[s] # h[2]
    <3>1. h[2] \in Pending(s)
          BY <1>1, <1>2, <2>2 DEF Pending
    <3>2. q = p - 1
          BY <1>6, <3>1, PendingIsFinite, FS_RemoveElement
    <3>3. i <= j
          BY <1>7, SMT
    <3>4. QED
          BY <3>2, <3>3
  <2>3. QED
        BY <2>1, <2>2
<1> HIDE DEF p, q, l, i, j
<1>9. l + j - q >= l + i - p + 1
      BY <1>3, <1>4, <1>8, SMT
<1>10. QED
      BY <1>5, <1>9

LEMMA PostCredit ==
  ASSUME SendersTyped, SendersTyped', NEW r \in Senders, NEW k \in Slots, Post(r, k),
         NEW s \in Senders
  PROVE  Credit(s)' >= Credit(s)
<1>1. /\ sender[r] = Idle /\ sender' = [sender EXCEPT ![r] = k] /\ lost' = lost
      /\ handler' = [handler EXCEPT ![<<r, k>>] = "execute"]
      BY DEF Post
<1>2. lost'[s] >= lost[s]
      BY <1>1, SMT DEF SendersTyped
<1>3. Pending(s)' \subseteq Pending(s)
      BY <1>1, WaitsForSlot DEF Pending, SendersTyped, Handlers
<1>4. Inserted(s) => Inserted(s)'
  <2>1. CASE s = r
        BY <1>1, <2>1, WaitsForSlot DEF Inserted, Waits, Idle, Done
  <2>2. CASE s # r
        BY <1>1, <2>2 DEF Inserted, Waits, SendersTyped, Handlers
  <2>3. QED
        BY <2>1, <2>2
<1>5. QED
      BY <1>2, <1>3, <1>4, CreditKept

\* Who gives up on an attempt that has inserted had its answer lost; who gives up on
\* another lets it insert later.
LEMMA TimeOutCredit ==
  ASSUME SendersTyped, SendersTyped', NEW r \in Senders, TimeOut(r), NEW s \in Senders
  PROVE  Credit(s)' >= Credit(s)
<1>1. /\ sender[r] \in Slots /\ sender' = [sender EXCEPT ![r] = Idle]
      /\ lost' = [lost EXCEPT ![r] = lost[r] + 1] /\ handler' = handler
      BY DEF TimeOut, Waits, handlerVars
<1>2. CASE s # r
  <2>1. sender'[s] = sender[s] /\ lost'[s] = lost[s]
        BY <1>1, <1>2 DEF SendersTyped
  <2>2. Pending(s)' \subseteq Pending(s) /\ (Inserted(s) => Inserted(s)')
        BY <1>1, <2>1 DEF Pending, Inserted, Waits
  <2>3. lost'[s] >= lost[s]
        BY <2>1, SMT DEF SendersTyped
  <2>4. QED
        BY <2>2, <2>3, CreditKept
<1>3. CASE s = r
  <2>1. lost'[s] >= lost[s] + 1 /\ lost'[s] >= lost[s]
    <3>1. lost'[s] = lost[s] + 1 /\ lost[s] \in Int
          BY <1>1, <1>3, SMT DEF SendersTyped
    <3>2. QED
          BY <3>1, SMT
  <2>2. CASE Inserted(s)
    <3>1. handler[<<s, sender[s]>>] = "respond"
          BY <1>1, <1>3, <2>2, WaitsForSlot DEF Inserted
    <3>2. Pending(s)' \subseteq Pending(s)
          BY <1>1, <3>1 DEF Pending
    <3>3. QED
          BY <2>1, <3>2, CreditKept
  <2>3. CASE ~ Inserted(s)
    <3>1. Pending(s)' \subseteq Pending(s) \cup {sender[s]}
          BY <1>1 DEF Pending
    <3>2. QED
          BY <1>1, <1>3, <2>1, <2>3, <3>1, CreditKept
  <2>4. QED
        BY <2>2, <2>3
<1>4. QED
      BY <1>2, <1>3

\* After a crash nothing is inserted any more.
LEMMA CrashCredit ==
  ASSUME SendersTyped, SendersTyped', Crash, NEW s \in Senders
  PROVE  Credit(s)' >= Credit(s)
<1>1. /\ lost'[s] = IF Waits(s) THEN lost[s] + 1 ELSE lost[s]
      /\ sender'[s] = IF Waits(s) THEN Idle ELSE sender[s]
      /\ \A h \in Handlers : handler'[h] = "none"
      BY DEF Crash
<1>2. lost[s] \in Int
      BY SMT DEF SendersTyped
<1>3. lost'[s] >= lost[s] /\ (Waits(s) => lost'[s] >= lost[s] + 1)
      BY <1>1, <1>2, SMT
<1>4. Pending(s)' \subseteq Pending(s)
      BY <1>1 DEF Pending, Handlers
<1>5. Inserted(s) => Inserted(s)' \/ lost'[s] >= lost[s] + 1
      BY <1>1, <1>3 DEF Inserted
<1>6. QED
      BY <1>3, <1>4, <1>5, CreditKept

\* The answer to an attempt that inserted is heard, or was lost when the sender gave up.
LEMMA AnswerCredit ==
  ASSUME SendersTyped, SendersTyped', NEW h \in Handlers, NEW ok \in BOOLEAN, Answer(h, ok),
         handler[h] = "respond" => ok, NEW s \in Senders
  PROVE  Credit(s)' >= Credit(s)
<1>1. h[1] \in Senders /\ h[2] \in Slots /\ h = <<h[1], h[2]>>
      BY DEF Handlers
<1>2. /\ handler' = [handler EXCEPT ![h] = "none"] /\ lost' = lost
      /\ sender' = IF sender[h[1]] = h[2]
                     THEN [sender EXCEPT ![h[1]] = IF ok THEN Done ELSE Idle] ELSE sender
      BY DEF Answer
<1>3. lost'[s] >= lost[s]
      BY <1>2, SMT DEF SendersTyped
<1>4. Pending(s)' \subseteq Pending(s)
      BY <1>1, <1>2 DEF Pending, SendersTyped, Handlers
<1>5. Inserted(s) => Inserted(s)'
  <2>1. CASE sender[s] = Done
        BY <1>1, <1>2, <2>1, WaitsForSlot DEF Inserted, SendersTyped
  <2>2. CASE Waits(s) /\ handler[<<s, sender[s]>>] = "respond"
    <3>1. CASE s = h[1] /\ sender[s] = h[2]
          BY <1>1, <1>2, <2>2, <3>1 DEF Inserted, SendersTyped
    <3>2. CASE ~ (s = h[1] /\ sender[s] = h[2])
      <4>1. sender'[s] = sender[s] /\ <<s, sender[s]>> # h
            BY <1>1, <1>2, <3>2 DEF SendersTyped
      <4>2. QED
            BY <1>2, <2>2, <4>1 DEF Inserted, Waits, SendersTyped, Handlers
    <3>3. QED
          BY <3>1, <3>2
  <2>3. QED
        BY <2>1, <2>2 DEF Inserted
<1>6. QED
      BY <1>3, <1>4, <1>5, CreditKept

LEMMA NextCredit ==
  ASSUME SendersTyped, SendersTyped', [Next]_vars, NEW s \in Senders
  PROVE  Credit(s)' >= Credit(s)
<1>1. lost[s] >= lost[s]
      BY SMT DEF SendersTyped
<1>2. ASSUME NEW h \in Handlers, Handle(h) PROVE Credit(s)' >= Credit(s)
  <2>1. CASE Execute(h) \/ Commit(h)
    <3>1. /\ sender' = sender /\ lost' = lost
          /\ \/ handler[h] = "execute" /\ handler' = [handler EXCEPT ![h] = "insert"]
             \/ handler[h] = "insert" /\ handler' = [handler EXCEPT ![h] = "respond"]
          BY <2>1 DEF Execute, Commit, senderVars
    <3>2. Pending(s)' \subseteq Pending(s)
          BY <3>1 DEF Pending, SendersTyped, Handlers
    <3>3. Inserted(s) => Inserted(s)'
          BY <3>1 DEF Inserted, Waits, SendersTyped, Handlers
    <3>4. QED
          BY <1>1, <3>1, <3>2, <3>3, CreditKept
  <2>2. CASE Refuse(h) \/ Fail(h)
    <3>1. Answer(h, FALSE) /\ handler[h] # "respond"
          BY <2>2 DEF Refuse, Fail
    <3>2. QED
          BY <3>1, AnswerCredit
  <2>3. CASE Respond(h)
        BY <2>3, AnswerCredit DEF Respond
  <2>4. QED
        BY <1>2, <2>1, <2>2, <2>3 DEF Handle
<1>3. CASE UNCHANGED <<sender, lost, handler>>
      BY <1>1, <1>3, CreditKept DEF Pending, Inserted, Waits
<1>4. \/ Crash \/ UNCHANGED <<sender, lost, handler>>
      \/ \E r \in Senders : (\E k \in Slots : Post(r, k)) \/ TimeOut(r)
      \/ \E h \in Handlers : Handle(h)
      BY DEF Next, Elapse, Flip, Tick, Cleanup, StartPaging, NextPage, LastPage, vars, senderVars,
             handlerVars
<1>5. QED
      BY <1>2, <1>3, <1>4, PostCredit, TimeOutCredit, CrashCredit

-----------------------------------------------------------------------------
\* Of one request at most one row per entry is written.
LEMMA CommitRows ==
  ASSUME IInv, EntriesAreOwn, NEW h \in Handlers, Commit(h), NEW e
  PROVE  \/ Rows(e)' \subseteq Rows(e)
         \/ e[1] = h[1] /\ \E x : Rows(e)' \subseteq Rows(e) \cup {x}
<1> DEFINE W == {r \in Written(logs, body[h]) : r.entry = e}
           Row(k) == [id |-> body[h][k].id, entry |-> body[h][k].entry,
                      instant |-> body[h][k].instant, text |-> body[h][k].text,
                      rowid |-> LastRowid(logs) + k]
<1>1. Rows(e)' \subseteq Rows(e) \cup W
      BY DEF Commit, InsertLogs, Rows
<1>2. \A r \in W : \E k \in DOMAIN body[h] : r = Row(k) /\ e = <<h[1], k>>
  <2>1. \A r \in Written(logs, body[h]) : \E k \in DOMAIN body[h] : r = Row(k)
        BY DEF Written
  <2>2. \A k \in DOMAIN body[h] : Row(k).entry = <<h[1], k>>
        BY DEF EntriesAreOwn, IsOf
  <2> HIDE DEF Row
  <2>3. QED
        BY <2>1, <2>2
<1> HIDE DEF Row, W
<1>3. CASE W = {}
      BY <1>1, <1>3
<1>4. CASE W # {}
  <2>1. PICK x \in W : TRUE
        BY <1>4
  <2>2. PICK k \in DOMAIN body[h] : x = Row(k) /\ e = <<h[1], k>>
        BY <1>2, <2>1
  <2>3. \A r \in W : r = x
    <3>1. \A j : e = <<h[1], j>> => j = k
          BY <2>2
    <3>2. QED
          BY <1>2, <2>2, <3>1
  <2>4. e[1] = h[1]
        BY <2>2
  <2>5. QED
        BY <1>1, <2>3, <2>4
<1>5. QED
      BY <1>3, <1>4

LEMMA RowsAreFinite ==
  ASSUME NEW e, IsTable(logs)
  PROVE  IsFiniteSet(Rows(e)) /\ Cardinality(Rows(e)) \in Nat
<1>1. Rows(e) \in SUBSET logs
      BY DEF Rows
<1>2. QED
      BY <1>1, TableIsFinite, FS_Subset, FS_CardinalityType

LEMMA CreditIsInt ==
  ASSUME SendersTyped, NEW s \in Senders
  PROVE  Credit(s) \in Int
<1> DEFINE i == IF Inserted(s) THEN 1 ELSE 0
           p == Cardinality(Pending(s))
<1>1. i \in Int /\ lost[s] \in Int
      BY SMT DEF SendersTyped
<1>2. p \in Int
      BY PendingIsFinite, SMT
<1> HIDE DEF i, p
<1>3. lost[s] + i - p \in Int
      BY <1>1, <1>2, SMT
<1>4. QED
      BY <1>3 DEF Credit, i, p

LEMMA CreditNextIsInt ==
  ASSUME SendersTyped', NEW s \in Senders
  PROVE  Credit(s)' \in Int
<1> DEFINE i == IF Inserted(s)' THEN 1 ELSE 0
           p == Cardinality(Pending(s)')
<1>1. i \in Int /\ lost'[s] \in Int
      BY SMT DEF SendersTyped
<1>2. p \in Int
      BY PendingNextIsFinite, SMT
<1> HIDE DEF i, p
<1>3. lost'[s] + i - p \in Int
      BY <1>1, <1>2, SMT
<1>4. QED
      BY <1>3 DEF Credit, i, p

LEMMA NextRowsAreCounted ==
  ASSUME IInv, IsTable(logs), EntriesAreOwn, SendersTyped, SendersTyped', RowsAreCounted,
         [Next]_vars
  PROVE  RowsAreCounted'
<1>1. Entries' = Entries
  <2>1. post' = post
        BY DEF Next, Handle, Execute, Refuse, Commit, Fail, Respond, Answer, Post, TimeOut, Crash,
               Elapse, Flip, Tick, Cleanup, StartPaging, NextPage, LastPage, vars, senderVars
  <2>2. QED
        BY <2>1 DEF Entries
<1>2. SUFFICES ASSUME NEW e \in Entries PROVE Cardinality(Rows(e)') <= Credit(e[1])'
      BY <1>1 DEF RowsAreCounted
<1> DEFINE n == Cardinality(Rows(e))
           m == Cardinality(Rows(e)')
           c == Credit(e[1])
           d == Credit(e[1])'
<1>3. e[1] \in Senders
      BY DEF Entries
<1>4. n <= c /\ d >= c
      BY <1>3, NextCredit DEF RowsAreCounted
<1>5. n \in Int /\ c \in Int /\ d \in Int
      BY <1>3, RowsAreFinite, CreditIsInt, CreditNextIsInt, SMT
<1>6. CASE Rows(e)' \subseteq Rows(e)
  <2>1. m <= n /\ m \in Nat
        BY <1>6, RowsAreFinite, FS_Subset, FS_CardinalityType
  <2> HIDE DEF n, m, c, d
  <2>2. m <= d
        BY <1>4, <1>5, <2>1, SMT
  <2>3. QED
        BY <2>2 DEF m, d
<1>7. ASSUME NEW h \in Handlers, Commit(h), e[1] = h[1], NEW x, Rows(e)' \subseteq Rows(e) \cup {x}
      PROVE  m <= d
  <2>1. d >= c + 1
        BY <1>7, CommitCredits
  <2>2. /\ IsFiniteSet(Rows(e) \cup {x})
        /\ Cardinality(Rows(e) \cup {x}) = n \/ Cardinality(Rows(e) \cup {x}) = n + 1
        BY RowsAreFinite, FS_AddElement
  <2>3. m <= Cardinality(Rows(e) \cup {x}) /\ m \in Nat
        BY <1>7, <2>2, FS_Subset, FS_CardinalityType
  <2> HIDE DEF n, m, c, d
  <2>4. QED
        BY <1>4, <1>5, <2>1, <2>2, <2>3, SMT
<1>8. \/ Rows(e)' \subseteq Rows(e)
      \/ \E h \in Handlers : Commit(h)
  <2>1. logs' \subseteq logs => Rows(e)' \subseteq Rows(e)
        BY DEF Rows
  <2>2. Cleanup => logs' \subseteq logs
        BY DEF Cleanup, DeleteOldLogs
  <2>3. QED
        BY <2>1, <2>2, TableSteps
<1>9. QED
      BY <1>6, <1>7, <1>8, CommitRows

LEMMA InitRowsAreCounted ==
  ASSUME Init, SendersTyped
  PROVE  RowsAreCounted
<1> SUFFICES ASSUME NEW e \in Entries PROVE Cardinality(Rows(e)) <= Credit(e[1])
    BY DEF RowsAreCounted
<1>1. Rows(e) = {} /\ Cardinality({}) = 0
      BY FS_EmptySet DEF Init, Rows
<1>2. e[1] \in Senders
      BY DEF Entries
<1>3. Pending(e[1]) = {}
      BY <1>2 DEF Init, Pending, Handlers
<1>4. lost[e[1]] = 0
      BY <1>2 DEF Init
<1>5. 0 <= 0 + (IF Inserted(e[1]) THEN 1 ELSE 0) - 0
      BY SMT
<1>6. QED
      BY <1>1, <1>3, <1>4, <1>5 DEF Credit

-----------------------------------------------------------------------------
\* All of it together: what is counted is counted of typed senders and of a table.
Counted == /\ SendersTyped
           /\ OthersTyped
           /\ IsTable(logs)
           /\ Paged
           /\ EntriesAreOwn
           /\ RowsAreCounted

LEMMA InitCounted == Init => Counted
BY InitSendersOthersTyped, InitTable, InitPaged, InitEntriesAreOwn, InitRowsAreCounted DEF Counted

LEMMA NextCounted == IInv /\ Counted /\ [Next]_vars => Counted'
BY NextSendersTyped, NextOthersTyped, NextTable, NextPaged, NextEntriesAreOwn, NextRowsAreCounted
   DEF Counted

\* It holds in every reachable state.
THEOREM CountedInvariance == Spec => []Counted
BY InitCounted, NextCounted, Invariance, PTL DEF Spec

\* server.go:336-369, sqlite.go:95-126: senders, handlers, breaker and reader stay within their
\* types, and the table finds one row under an identifier.
THEOREM TypeCorrect == Spec => []TypeOK
<1>1. IInv /\ Counted => TypeOK
  <2> SUFFICES ASSUME IInv, Counted PROVE TypeOK
      OBVIOUS
  <2>1. \A r \in logs : r.entry \in Entries
    <3> SUFFICES ASSUME NEW r \in logs PROVE r.entry \in Entries
        OBVIOUS
    <3>1. \E s \in Senders : \E k \in DOMAIN post[s].entries : r.entry = <<s, k>>
          BY DEF Counted, EntriesAreOwn, IsOf
    <3>2. QED
          BY <3>1 DEF Entries
  <2>2. \A r \in logs : r.rowid \in Nat \ {0}
    <3>1. \A n \in Nat : \A i \in 1..n : i \in Nat \ {0}
          BY SMT
    <3>2. QED
          BY <3>1 DEF Counted, IsTable
  <2>3. reader.ahead \subseteq Ids(logs)
        BY DEF Counted, Paged
  <2>4. \A r, q \in logs : r.id = q.id \/ r.rowid = q.rowid => r = q
        BY DEF Counted, IsTable
  <2>5. QED
        BY <2>1, <2>2, <2>3, <2>4, Zenon DEF IInv, Counted, SendersTyped, OthersTyped, TypeOK
<1>2. QED
      BY <1>1, Invariance, CountedInvariance, PTL

\* server.go:336-369, sqlite.go:95-126: refused, failed and retried as it may be, an entry is
\* stored once, and once more for each answer that was lost, if it came without identifier;
\* the entry of a documented single body, never.
THEOREM StoredOnceHolds == Spec => []StoredOnce
<1>1. Counted => StoredOnce
  <2> SUFFICES ASSUME Counted, NEW e \in Entries
               PROVE  Cardinality(Rows(e))
                        <= IF post[e[1]].form = "single" THEN 0
                           ELSE IF post[e[1]].entries[e[2]].id # Missing THEN 1 ELSE 1 + lost[e[1]]
      BY Zenon DEF StoredOnce, Rows
  <2> DEFINE s == e[1]
             k == e[2]
             n == Cardinality(Rows(e))
  <2>1. s \in Senders /\ e = <<s, k>>
        BY DEF Entries
  <2>2. \A r \in Rows(e) : r \in logs /\ IsOf(r, s, k)
    <3> SUFFICES ASSUME NEW r \in Rows(e) PROVE r \in logs /\ IsOf(r, s, k)
        OBVIOUS
    <3>1. r \in logs /\ r.entry = <<s, k>>
          BY <2>1 DEF Rows
    <3>2. \E z \in Senders : \E j \in DOMAIN post[z].entries : IsOf(r, z, j)
          BY <3>1 DEF Counted, EntriesAreOwn
    <3>3. QED
          BY <3>1, <3>2 DEF IsOf
  <2>3. Cardinality({}) = 0 /\ 0 <= 0 /\ 0 <= 1 /\ 1 <= 1
        BY FS_EmptySet, SMT
  <2>4. CASE post[s].form = "single"
    <3>1. Rows(e) = {}
          BY <2>2, <2>4 DEF IsOf
    <3>2. QED
          BY <2>3, <2>4, <3>1
  <2>5. CASE post[s].form # "single" /\ post[s].entries[k].id # Missing
    <3>1. \A r, q \in Rows(e) : r = q
          BY <2>2, <2>5 DEF IsOf, Counted, IsTable
    <3>2. n = 0 \/ n = 1
      <4>1. CASE Rows(e) = {}
            BY <2>3, <4>1
      <4>2. ASSUME NEW q \in Rows(e) PROVE n = 1
        <5>1. Rows(e) = {q}
              BY <3>1
        <5>2. QED
              BY <5>1, FS_Singleton
      <4>3. QED
            BY <4>1, <4>2
    <3>3. QED
          BY <2>3, <2>5, <3>2
  <2>6. CASE post[s].form # "single" /\ post[s].entries[k].id = Missing
    <3>1. n <= Credit(s)
          BY DEF Counted, RowsAreCounted
    <3>2. lost[s] \in 0..MaxLost
          BY <2>1 DEF Counted, SendersTyped
    <3>3. n \in Int /\ lost[s] \in Int
          BY <3>2, RowsAreFinite, SMT DEF Counted
    <3>4. n <= 1 + lost[s]
      <4> DEFINE i == IF Inserted(s) THEN 1 ELSE 0
                 p == Cardinality(Pending(s))
      <4>1. i \in 0..1 /\ p \in Nat
            BY PendingIsFinite, SMT
      <4>2. n <= lost[s] + i - p
            BY <3>1 DEF Credit
      <4> HIDE DEF n, i, p, s
      <4>3. QED
            BY <3>3, <4>1, <4>2, SMT
    <3>5. QED
          BY <2>6, <3>4
  <2>7. QED
        BY <2>4, <2>5, <2>6
<1>2. QED
      BY <1>1, CountedInvariance, PTL

-----------------------------------------------------------------------------
(* What a retry and the next page find. *)

\* A table has as many rows as identifiers.
LEMMA RowsAsIds ==
  ASSUME NEW t, IsTable(t)
  PROVE  Cardinality(t) = Cardinality(Ids(t))
<1> DEFINE f == [r \in t |-> r.id]
<1>1. IsFiniteSet(t)
      BY TableIsFinite
<1>2. f \in [t -> Ids(t)] /\ \A r, q \in DOMAIN f : f[r] = f[q] => r = q
      BY DEF Ids, IsTable
<1>3. \A i \in Ids(t) : \E r \in t : f[r] = i
      BY DEF Ids
<1>4. f \in Bijection(t, Ids(t))
  <2> HIDE DEF f
  <2>1. QED
        BY <1>2, <1>3, Zenon DEF Bijection, Injection, Surjection, IsInjective
<1>5. ExistsBijection(t, Ids(t))
      BY <1>4, Zenon DEF ExistsBijection
<1>6. QED
      BY <1>1, <1>5, FS_Bijection, Zenon

\* sqlite.go:95-126: a batch that is inserted again, its identifiers the same, replaces its own
\* rows: the table has the same identifiers and as many rows.
THEOREM RetryReplaces ==
  ASSUME NEW t, IsTable(t), NEW batch, IsBatch(batch)
  PROVE  LET once == InsertLogs(t, batch)
             twice == InsertLogs(once, batch)
         IN Ids(twice) = Ids(once) /\ Cardinality(twice) = Cardinality(once)
<1> DEFINE once == InsertLogs(t, batch)
           twice == InsertLogs(once, batch)
<1>1. IsTable(once)
      BY InsertKeepsTable
<1> HIDE DEF once
<1>2. IsTable(twice)
      BY <1>1, InsertKeepsTable
<1>3. Ids(twice) = Ids(once) \cup Ids(Range(batch))
      BY InsertKeepsIds
<1>4. Ids(once) = Ids(t) \cup Ids(Range(batch))
      BY InsertKeepsIds DEF once
<1>5. Ids(twice) = Ids(once)
      BY <1>3, <1>4
<1> HIDE DEF twice
<1>6. Cardinality(twice) = Cardinality(once)
  <2>1. Cardinality(twice) = Cardinality(Ids(twice)) /\ Cardinality(once) = Cardinality(Ids(once))
        BY <1>1, <1>2, RowsAsIds
  <2>2. QED
        BY <1>5, <2>1
<1>7. QED
      BY <1>5, <1>6 DEF once, twice

\* sqlite.go:161-197: of a table that does not change, the page after a page repeats none of its
\* rows: a reader that advances by what it got overtakes no row and meets none again.
THEOREM PagesAreDisjoint ==
  ASSUME NEW t, IsTable(t), NEW limit, NEW offset \in Nat
  PROVE  LET page == QueryLogs(t, limit, offset)
         IN page \cap QueryLogs(t, limit, offset + Cardinality(page)) = {}
<1> DEFINE P == QueryLogs(t, limit, offset)
           l == EffectiveLimit(limit)
<1>1. SUFFICES ASSUME NEW r \in P, r \in QueryLogs(t, limit, offset + Cardinality(P)) PROVE FALSE
      OBVIOUS
<1> DEFINE A == {s \in t : Newer(s, r)}
           B1 == {s \in A : ~ (Rank(t, s) >= offset)}
           B2 == {s \in A : Rank(t, s) >= offset}
           p == Cardinality(P)
           a == Cardinality(A)
           b == Cardinality(B1)
           c == Cardinality(B2)
<1>2. r \in t /\ IsFiniteSet(t)
      BY TableIsFinite DEF QueryLogs
<1>3. IsFiniteSet(A) /\ IsFiniteSet(B1) /\ IsFiniteSet(B2) /\ IsFiniteSet(P)
  <2>1. A \in SUBSET t /\ B1 \in SUBSET t /\ B2 \in SUBSET t /\ P \in SUBSET t
        BY DEF QueryLogs
  <2>2. QED
        BY <1>2, <2>1, FS_Subset
<1>4. p \in Nat /\ a \in Nat /\ b \in Nat /\ c \in Nat /\ l \in Nat
      BY <1>3, FS_CardinalityType, LimitIsPositive
<1>5. a >= offset + p /\ a <= offset + l - 1
  <2>1. a = Rank(t, r)
        BY DEF Rank
  <2>2. a \in (offset + p)..(offset + p + l - 1) /\ a \in offset..(offset + l - 1)
        BY <1>1, <2>1 DEF QueryLogs
  <2> HIDE DEF a, p, l
  <2>3. QED
        BY <1>4, <2>2, SMT
<1>6. b <= offset
  <2>1. \A i \in Nat : ~ (i >= offset) => i \in 0..(0 + offset - 1)
        BY SMT
  <2>2. \A s \in B1 : Rank(t, s) \in 0..(0 + offset - 1)
        BY <2>1, RankIsNat
  <2>3. QED
        BY <2>2, RanksCount, B1 \in SUBSET t, 0 \in Nat
<1>7. c + 1 <= p
  <2>1. r \notin B2
        BY <1>2, NewerOrders
  <2>2. B2 \cup {r} \in SUBSET P
    <3> SUFFICES ASSUME NEW s \in B2 PROVE s \in P
        OBVIOUS
    <3>1. Rank(t, s) < Rank(t, r) /\ Rank(t, s) \in Nat /\ Rank(t, s) >= offset
          BY <1>2, RankGrows, RankIsNat
    <3>2. Rank(t, r) = a
          BY DEF Rank
    <3>3. \A i \in Nat : i < a /\ i >= offset => i \in offset..(offset + l - 1)
      <4> HIDE DEF a, l
      <4>1. QED
            BY <1>4, <1>5, SMT
    <3>4. QED
          BY <3>1, <3>2, <3>3 DEF QueryLogs
  <2> HIDE DEF P, B2
  <2>3. Cardinality(B2 \cup {r}) = c + 1
        BY <1>3, <2>1, FS_AddElement
  <2>4. QED
        BY <1>3, <2>2, <2>3, FS_Subset
<1>8. a = b + c
  <2>1. A = B1 \cup B2 /\ B1 \cap B2 = {}
        OBVIOUS
  <2> HIDE DEF A, B1, B2
  <2>2. a = b + c - Cardinality({})
        BY <1>3, <2>1, FS_Union
  <2>3. QED
        BY <1>4, <2>2, FS_EmptySet, SMT
<1> HIDE DEF p, a, b, c, l
<1>9. QED
      BY <1>4, <1>5, <1>6, <1>7, <1>8, SMT

-----------------------------------------------------------------------------
(* The breaker. *)

\* Between crashes a step of the senders, the handlers or the environment is a step of the
\* breaker that the handlers in flight call, or leaves it as it was.
LEMMA StepKeepsBreaker ==
  ASSUME SendersTyped, [Next]_vars
  PROVE  Crash \/ B!Next \/ UNCHANGED B!absvars
<1>1. ASSUME UNCHANGED <<post, tripped, age>>,
             \A h \in Handlers : (handler'[h] = "insert") <=> (handler[h] = "insert")
      PROVE  UNCHANGED B!absvars
  <2>1. InFlight' = InFlight
        BY <1>1 DEF InFlight, Guarded
  <2>2. QED
        BY <1>1, <2>1 DEF B!absvars
<1>2. ASSUME NEW s \in Senders, NEW k \in Slots, Post(s, k)
      PROVE  UNCHANGED B!absvars
  <2>1. /\ <<s, k>> \in Handlers /\ handler[<<s, k>>] = "none"
        /\ handler' = [handler EXCEPT ![<<s, k>>] = "execute"]
        /\ UNCHANGED <<post, tripped, age>>
        BY <1>2 DEF Post, Handlers, breakerVars
  <2>2. \A h \in Handlers : handler'[h] = IF h = <<s, k>> THEN "execute" ELSE handler[h]
        BY <2>1 DEF SendersTyped
  <2>3. QED
        BY <1>1, <2>1, <2>2
<1>3. ASSUME NEW h \in Handlers, Refuse(h) \/ Respond(h)
      PROVE  UNCHANGED B!absvars
  <2>1. /\ handler[h] \in {"execute", "respond"} /\ handler' = [handler EXCEPT ![h] = "none"]
        /\ UNCHANGED <<post, tripped, age>>
        BY <1>3 DEF Refuse, Respond, Answer, breakerVars
  <2>2. \A g \in Handlers : handler'[g] = IF g = h THEN "none" ELSE handler[g]
        BY <2>1 DEF SendersTyped
  <2>3. QED
        BY <1>1, <2>1, <2>2
<1>4. ASSUME NEW h \in Handlers, Execute(h) \/ Commit(h) \/ Fail(h)
      PROVE  B!Next \/ UNCHANGED B!absvars
  <2>1. CASE Guarded(h)
    <3>1. B!Start(h) \/ B!Succeed(h) \/ B!Fail(h)
          BY <1>4, <2>1 DEF Execute, Commit, Fail
    <3>2. QED
          BY <3>1 DEF B!Next
  <2>2. CASE ~ Guarded(h)
    <3>1. UNCHANGED <<post, tripped, age>>
          BY <1>4, <2>2 DEF Execute, Commit, Fail, Answer, senderVars, breakerVars
    <3>2. \E w \in {"insert", "respond", "none"} : handler' = [handler EXCEPT ![h] = w]
          BY <1>4 DEF Execute, Commit, Fail, Answer
    <3>3. \A g \in Handlers : g # h => handler'[g] = handler[g]
          BY <3>2 DEF SendersTyped
    <3>4. InFlight' = InFlight
          BY <2>2, <3>1, <3>3 DEF InFlight, Guarded
    <3>5. QED
          BY <3>1, <3>4 DEF B!absvars
  <2>3. QED
        BY <2>1, <2>2
<1>5. CASE Elapse
  <2>1. B!Elapse
        BY <1>5 DEF Elapse
  <2>2. QED
        BY <2>1 DEF B!Next
<1>6. ASSUME \/ Flip \/ Tick \/ Cleanup \/ StartPaging \/ NextPage \/ LastPage \/ UNCHANGED vars
             \/ \E s \in Senders : TimeOut(s)
      PROVE  UNCHANGED B!absvars
  <2>1. UNCHANGED <<post, tripped, age, handler>>
        BY <1>6 DEF Flip, Tick, Cleanup, StartPaging, NextPage, LastPage, TimeOut, vars, senderVars,
                    handlerVars, breakerVars
  <2>2. QED
        BY <1>1, <2>1
<1>7. QED
      BY <1>2, <1>3, <1>4, <1>5, <1>6 DEF Next, Handle

\* resource.go:160-168, server.go:338-361: whatever the senders do, the handlers use the breaker as
\* Breaker has it used, each call between its start and its one end; only a crash resets it.
THEOREM HandlersUseBreaker == Spec => [][Crash \/ B!Next]_(B!absvars)
<1>1. SendersTyped /\ [Next]_vars => [Crash \/ B!Next]_(B!absvars)
      BY StepKeepsBreaker
<1>2. Counted => SendersTyped
      BY DEF Counted
<1>3. QED
      BY <1>1, <1>2, CountedInvariance, PTL DEF Spec
=============================================================================
