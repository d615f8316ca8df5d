-------------------------------- MODULE Ingest --------------------------------
(***************************************************************************)
(* Entries on their way into the logs table and out of it: senders that    *)
(* post a body, time out and retry; handleIngest and handleRawIngest       *)
(* (src/internal/api/server.go), which pass the entries to the detector    *)
(* and insert them, the former through the circuit breaker; the retention  *)
(* cleanup; and a client that pages through GET /api/logs meanwhile.  The  *)
(* breaker is what Breaker says of it, the table what Store says.          *)
(*                                                                         *)
(* A body is [form, entries]; an entry's own identifier or timestamp may   *)
(* be missing (Missing).  The k-th entry of sender s is <<s, k>>.          *)
(***************************************************************************)
EXTENDS Store

CONSTANTS Senders,
          Loads,        \* what the senders have to send
          Slots,        \* 1..n: the handlers one sender may have at a time
          Timeout,      \* of the breaker, 30 s
          Retention,    \* the retention period, in ticks of the clock
          Skew,         \* how far a sender's local time is from the server's
          PageSize,     \* the limit a reader asks for
          Missing,      \* no identifier, no timestamp
          MaxClock,     \* bound: the clock stops here
          MaxLost       \* bound: timeouts and crashes

ASSUME IngestAssumption == /\ IsFiniteSet(Senders)
                           /\ IsFiniteSet(Slots) /\ Slots = 1..Cardinality(Slots)
                           /\ MaxLost \in 0..(Cardinality(Slots) - 1)
                           /\ Timeout \in Nat
                           /\ Retention \in Nat /\ Skew \in Nat /\ MaxClock \in Nat

\* What has a time has it in a zone that is at most Skew from the server's.
ASSUME LoadsAssumption ==
  \A p \in Loads : \A s \in Senders :
    /\ p[s].entries \in Seq(Range(p[s].entries))
    /\ \A e \in Range(p[s].entries) :
         \/ e.stamp = Missing
         \/ /\ e.stamp.instant \in Int /\ e.stamp.text \in Int
            /\ e.stamp.instant - e.stamp.text <= Skew

VARIABLES post,      \* what each sender has to send
          sender,    \* the slot whose answer it waits for, or Idle, or Done
          lost,      \* history: the attempts whose answer it never got
          handler,   \* where each handler is
          body,      \* its entries, identified and stamped
          logs,      \* the table
          written,   \* history: what was ever inserted, under which identifier and time
          tripped, age,  \* the circuit breaker
          dbUp,      \* does the database work?
          clock,
          reader     \* the client that pages

senderVars == <<post, sender, lost>>
handlerVars == <<handler, body>>
tableVars == <<logs, written>>
breakerVars == <<tripped, age>>
vars == <<senderVars, handlerVars, tableVars, breakerVars, dbUp, clock, reader>>

Idle == 0
Done == -1

Handlers == Senders \X Slots

Guarded(h) == post[h[1]].form # "raw"

InFlight == {h \in Handlers : handler[h] = "insert" /\ Guarded(h)}

B == INSTANCE Breaker WITH Callers <- Handlers, inflight <- InFlight

Losses == Cardinality({l \in Senders \X (1..MaxLost) : l[2] <= lost[l[1]]})

Entries == UNION {{s} \X DOMAIN post[s].entries : s \in Senders}

Resting == [paging |-> FALSE, offset |-> 0, ahead |-> {}]

Init == /\ post \in Loads
        /\ sender = [s \in Senders |-> Idle]
        /\ lost = [s \in Senders |-> 0]
        /\ handler = [h \in Handlers |-> "none"]
        /\ body = [h \in Handlers |-> <<>>]
        /\ logs = {}
        /\ written = {}
        /\ tripped = FALSE
        /\ age = Timeout + 1
        /\ dbUp = TRUE
        /\ clock = 0
        /\ reader = Resting

-----------------------------------------------------------------------------
(* The senders. *)

\* What the command line posts: entries without identifier or time.
CommandLine(n) == [form |-> "batch", entries |-> [k \in 1..n |-> [id |-> Missing, stamp |-> Missing]]]

\* The documented body of one entry decodes as a batch that has none, without error.
Decoded(p) == IF p.form = "single" THEN <<>> ELSE p.entries

\* generateLogID reads the clock for every entry that has no identifier; between two
\* readings it moves, or not.
Identified(s, moves) ==
  LET es == Decoded(post[s])
      unnamed(k) == Cardinality({j \in 1..(k - 1) : es[j].id = Missing})
      stamp(e) == IF e.stamp = Missing THEN [instant |-> clock, text |-> clock] ELSE e.stamp
  IN [k \in DOMAIN es |->
        [id      |-> IF es[k].id = Missing
                       THEN <<"clock", clock + (IF moves THEN unnamed(k) ELSE 0)>>
                       ELSE <<"own", es[k].id>>,
         entry   |-> <<s, k>>,
         instant |-> stamp(es[k]).instant,
         text    |-> stamp(es[k]).text]]

\* A request, decoded, its entries given what they lack.
Post(s, k) ==
  /\ sender[s] = Idle
  /\ handler[<<s, k>>] = "none"
  /\ \A j \in Slots : handler[<<s, j>>] = "none" => k <= j
  /\ \E moves \in BOOLEAN :
       /\ clock' = IF moves THEN clock + 1 ELSE clock
       /\ clock' <= MaxClock
       /\ body' = [body EXCEPT ![<<s, k>>] = Identified(s, moves)]
  /\ handler' = [handler EXCEPT ![<<s, k>>] = "execute"]
  /\ sender' = [sender EXCEPT ![s] = k]
  /\ UNCHANGED <<post, lost, tableVars, breakerVars, dbUp, reader>>

Waits(s) == sender[s] \in Slots

\* The sender's client gives up waiting; the handler goes on.
TimeOut(s) ==
  /\ Waits(s)
  /\ Losses < MaxLost
  /\ lost' = [lost EXCEPT ![s] = @ + 1]
  /\ sender' = [sender EXCEPT ![s] = Idle]
  /\ UNCHANGED <<post, handlerVars, tableVars, breakerVars, dbUp, clock, reader>>

\* The answer reaches its sender if that still waits for it; one that is not 200
\* makes it try again.
Answer(h, ok) ==
  LET s == h[1]
      heard == sender[s] = h[2]
  IN /\ handler' = [handler EXCEPT ![h] = "none"]
     /\ body' = [body EXCEPT ![h] = <<>>]
     /\ sender' = IF heard THEN [sender EXCEPT ![s] = IF ok THEN Done ELSE Idle] ELSE sender
     /\ UNCHANGED <<post, lost>>

-----------------------------------------------------------------------------
(* The handlers. *)

\* The breaker lets the insert start; a raw request does not ask it.
Execute(h) ==
  /\ handler[h] = "execute"
  /\ handler' = [handler EXCEPT ![h] = "insert"]
  /\ UNCHANGED <<senderVars, body, tableVars, dbUp, clock, reader>>
  /\ IF Guarded(h) THEN B!Start(h) ELSE UNCHANGED breakerVars

\* Fault: a refused request counts as a failure of the database.
RefuseRestartsTimeout(h) ==
  /\ handler[h] = "execute"
  /\ Guarded(h) /\ tripped /\ ~B!Quiet
  /\ Answer(h, FALSE)
  /\ age' = 0
  /\ UNCHANGED <<tripped, tableVars, dbUp, clock, reader>>

\* ErrCircuitOpen: 503, "please retry".
Refuse(h) ==
  /\ handler[h] = "execute"
  /\ Guarded(h) /\ tripped /\ ~B!Quiet
  /\ Answer(h, FALSE)
  /\ UNCHANGED <<tableVars, breakerVars, dbUp, clock, reader>>

\* Rows that were replaced moved ahead of the reader.  One that is given an earlier time
\* moves further on instead, past rows not read yet: such a reading is not followed.
Moved(b) ==
  IF \E r \in logs : \E k \in DOMAIN b : r.id = b[k].id /\ r.text > b[k].text
    THEN Resting
    ELSE [reader EXCEPT !.ahead = @ \ Ids(Range(b))]

\* InsertLogs commits.  An empty batch does not touch the database, and its success
\* is the breaker's all the same.
Commit(h) ==
  /\ handler[h] = "insert"
  /\ dbUp \/ body[h] = <<>>
  /\ logs' = InsertLogs(logs, body[h])
  /\ written' = written \cup {[id |-> b.id, entry |-> b.entry, text |-> b.text] : b \in Range(body[h])}
  /\ reader' = Moved(body[h])
  /\ handler' = [handler EXCEPT ![h] = "respond"]
  /\ UNCHANGED <<senderVars, body, dbUp, clock>>
  /\ IF Guarded(h) THEN B!Succeed(h) ELSE UNCHANGED breakerVars

\* Fault: no transaction: what was inserted before the error stays.
FailKeepsFirst(h) ==
  /\ handler[h] = "insert"
  /\ ~dbUp /\ body[h] # <<>>
  /\ Answer(h, FALSE)
  /\ logs' = InsertLogs(logs, <<body[h][1]>>)
  /\ IF Guarded(h) THEN B!Fail(h) ELSE UNCHANGED breakerVars
  /\ UNCHANGED <<written, dbUp, clock, reader>>

\* Fault: the error is logged and the request acknowledged, as processBatch does.
FailAcknowledged(h) ==
  /\ handler[h] = "insert"
  /\ ~dbUp /\ body[h] # <<>>
  /\ Answer(h, TRUE)
  /\ IF Guarded(h) THEN B!Fail(h) ELSE UNCHANGED breakerVars
  /\ UNCHANGED <<tableVars, dbUp, clock, reader>>

\* InsertLogs fails and rolls back: 500.
Fail(h) ==
  /\ handler[h] = "insert"
  /\ ~dbUp /\ body[h] # <<>>
  /\ Answer(h, FALSE)
  /\ IF Guarded(h) THEN B!Fail(h) ELSE UNCHANGED breakerVars
  /\ UNCHANGED <<tableVars, dbUp, clock, reader>>

Respond(h) == /\ handler[h] = "respond"
              /\ Answer(h, TRUE)
              /\ UNCHANGED <<tableVars, breakerVars, dbUp, clock, reader>>

Handle(h) == Execute(h) \/ Refuse(h) \/ Commit(h) \/ Fail(h) \/ Respond(h)

\* The process is killed and started again.  SQLite keeps what was committed; the
\* senders lose their connection and every other thing is as at the start.
Crash ==
  /\ \E h \in Handlers : handler[h] # "none"
  /\ Losses < MaxLost
  /\ lost' = [s \in Senders |-> IF Waits(s) THEN lost[s] + 1 ELSE lost[s]]
  /\ sender' = [s \in Senders |-> IF Waits(s) THEN Idle ELSE sender[s]]
  /\ handler' = [h \in Handlers |-> "none"]
  /\ body' = [h \in Handlers |-> <<>>]
  /\ tripped' = FALSE /\ age' = Timeout + 1
  /\ UNCHANGED <<post, tableVars, dbUp, clock, reader>>

-----------------------------------------------------------------------------
(* The environment: time, and a database that breaks and heals. *)

Elapse == UNCHANGED <<senderVars, handlerVars, tableVars, dbUp, clock, reader>> /\ B!Elapse

Flip == /\ dbUp' = ~dbUp
        /\ UNCHANGED <<senderVars, handlerVars, tableVars, breakerVars, clock, reader>>

Tick == /\ clock < MaxClock
        /\ clock' = clock + 1
        /\ UNCHANGED <<senderVars, handlerVars, tableVars, breakerVars, dbUp, reader>>

-----------------------------------------------------------------------------
(* The retention cleanup and the reader. *)

Cutoff == clock - Retention

Cleanup == /\ logs' = DeleteOldLogs(logs, Cutoff)
           /\ logs' # logs
           /\ reader' = [reader EXCEPT !.ahead = @ \cap Ids(logs')]
           /\ UNCHANGED <<senderVars, handlerVars, written, breakerVars, dbUp, clock>>

\* Paging starts, on a table of more than one page: the rows it should find.
StartPaging == /\ ~reader.paging
               /\ Cardinality(logs) > EffectiveLimit(PageSize)
               /\ reader' = [Resting EXCEPT !.paging = TRUE, !.ahead = Ids(logs)]
               /\ UNCHANGED <<senderVars, handlerVars, tableVars, breakerVars, dbUp, clock>>

Page == QueryLogs(logs, PageSize, reader.offset)

\* GET /api/logs?limit=&offset=: the reader advances by what it got.
NextPage == /\ reader.paging
            /\ Page # {}
            /\ reader' = [reader EXCEPT !.offset = @ + Cardinality(Page),
                                       !.ahead = @ \ Ids(Page)]
            /\ UNCHANGED <<senderVars, handlerVars, tableVars, breakerVars, dbUp, clock>>

LastPage == /\ reader.paging
            /\ Page = {}
            /\ reader' = Resting
            /\ UNCHANGED <<senderVars, handlerVars, tableVars, breakerVars, dbUp, clock>>

Next == \/ \E s \in Senders : (\E k \in Slots : Post(s, k)) \/ TimeOut(s)
        \/ \E h \in Handlers : Handle(h)
        \/ Crash
        \/ Elapse \/ Flip \/ Tick
        \/ Cleanup
        \/ StartPaging \/ NextPage \/ LastPage

Spec == Init /\ [][Next]_vars

\* Handlers run and time passes for the breaker; a sender that was refused tries again.
Fairness == /\ WF_vars(Elapse)
            /\ \A h \in Handlers : WF_vars(Handle(h))
            /\ \A s \in Senders : WF_vars(\E k \in Slots : Post(s, k))

FairSpec == Spec /\ Fairness

-----------------------------------------------------------------------------
TypeOK ==
  /\ post \in Loads
  /\ sender \in [Senders -> {Idle, Done} \cup Slots]
  /\ lost \in [Senders -> 0..MaxLost]
  /\ handler \in [Handlers -> {"none", "execute", "insert", "respond"}]
  /\ \A r \in logs : r.entry \in Entries /\ r.rowid \in Nat \ {0}
  /\ \A r, q \in logs : r.id = q.id \/ r.rowid = q.rowid => r = q
  /\ tripped \in BOOLEAN /\ age \in 0..(Timeout + 1)
  /\ dbUp \in BOOLEAN
  /\ clock \in 0..MaxClock
  /\ reader.ahead \subseteq Ids(logs)

\* What a sender posted and was told 200 of is in the table until it is old, through
\* crashes, retries and an open breaker; in its place may be another entry that was given
\* the same identifier (by its sender, or by a clock that did not move), and be older.
\* Of the documented body of one entry nothing is stored: see StoredOnce.
AcknowledgedStays ==
  \A s \in Senders : sender[s] = Done /\ post[s].form # "single" =>
    \A k \in DOMAIN post[s].entries : \E w \in written :
      /\ w.entry = <<s, k>>
      /\ \/ \E r \in logs : r.id = w.id
         \/ \E o \in written : o.id = w.id /\ o.text < Cutoff

\* A refused request leaves nothing behind, so that its retry stores each entry once:
\* only an attempt whose answer was lost can leave a second row, and not even that
\* for an entry that came with an identifier.  The documented body of one entry is
\* answered 200 and never leaves any row (server.go:298-308).
StoredOnce ==
  \A e \in Entries :
    LET own == post[e[1]].entries[e[2]].id # Missing
        bound == IF post[e[1]].form = "single" THEN 0 ELSE IF own THEN 1 ELSE 1 + lost[e[1]]
    IN Cardinality({r \in logs : r.entry = e}) <= bound

\* Times are compared as text, in the zone each sender wrote: a row goes early by no
\* more than that zone's difference.
DeletesOnlyOld ==
  [][\A r \in logs : r.id \in Ids(logs') \/ clock - r.instant > Retention - Skew]_vars

\* A reader that pages through the table while others insert and the cleanup deletes
\* meets every row that was there all along (the cleanup takes rows from the end of
\* the order in which they are paged, and inserting only moves rows further on).  One
\* reading is left out, and it does skip rows: that during which a row is replaced
\* under an earlier time, which moves those behind it back by one (Moved).
PagingSkipsNothing == [][LastPage => reader.ahead = {}]_vars

\* If the database heals, every sender that goes on trying is acknowledged: the breaker
\* keeps none out for good.
EverySenderGetsThrough == (<>[]dbUp) => \A s \in Senders : <>(sender[s] = Done)
=============================================================================
