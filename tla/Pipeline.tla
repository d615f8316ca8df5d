------------------------------ MODULE Pipeline -------------------------------
(***************************************************************************)
(* cmd/server/main.go: the goroutine processCollectorOutput, which batches *)
(* the collector's lines, inserts each batch and then hands its lines to   *)
(* the detector and to the broadcast channel; the HTTP handlers that do    *)
(* the same for one request, the other way round; and main's shutdown,     *)
(* which stops the HTTP server, the collector, the API server and the      *)
(* store, and waits for the first two only.  The collector is what         *)
(* LineFeed says of it.                                                    *)
(***************************************************************************)
EXTENDS LineFeed, SequencesExt, FiniteSets

CONSTANTS BatchSize,  \* 100
          Requests,   \* ingest requests
          MaxLines    \* bound: lines the collector sends

ASSUME PipelineAssumption ==
          /\ BatchSize \in Nat \ {0}
          /\ Capacity \in Nat \ {0}
          /\ MaxLines \in Nat
          /\ Entries = 1..MaxLines

VARIABLES sent,        \* how many lines the collector sent: the n-th is the number n
          consumer,    \* where processCollectorOutput is
          batch,       \* its batch
          processed,   \* the lines it has passed to det.Process and BroadcastLog
          request,     \* where each HTTP handler is
          stored,      \* what is in the database
          storeOpen,
          broadcastOpen,
          main,        \* where main is
          panicked     \* has the process died of a panic?

serverVars == <<storeOpen, broadcastOpen, main, panicked>>
consumerVars == <<consumer, batch, processed>>
vars == <<feedVars, sent, consumerVars, request, stored, serverVars>>

TypeOK ==
  /\ output \in Seq(Entries) /\ Len(output) <= Capacity
  /\ closed \in BOOLEAN
  /\ sent \in 0..MaxLines
  /\ consumer \in {"select", "insert", "process", "lastinsert", "lastprocess", "done"}
  /\ batch \in Seq(Entries) /\ Len(batch) <= BatchSize
  /\ processed \in Seq(Entries)
  /\ request \in [Requests -> {"none", "process", "insert", "ok", "failed", "aborted"}]
  /\ stored \in SUBSET (Entries \cup Requests)
  /\ storeOpen \in BOOLEAN
  /\ broadcastOpen \in BOOLEAN
  /\ main \in {"serving", "http", "collector", "server", "sleep", "return", "exited"}
  /\ panicked \in BOOLEAN

Init == /\ FeedInit
        /\ sent = 0
        /\ consumer = "select"
        /\ batch = <<>>
        /\ processed = <<>>
        /\ request = [r \in Requests |-> "none"]
        /\ stored = {}
        /\ storeOpen = TRUE
        /\ broadcastOpen = TRUE
        /\ main = "serving"
        /\ panicked = FALSE

Running == main # "exited"

-----------------------------------------------------------------------------
(* The collector. *)

Collect == /\ Running
           /\ sent < MaxLines
           /\ Send(sent + 1)
           /\ sent' = sent + 1
           /\ UNCHANGED <<consumerVars, request, stored, serverVars>>

-----------------------------------------------------------------------------
(* processCollectorOutput. *)

\* Fault: a full batch is left to the ticker, which finds it over its size.
TakeLineUnchecked == /\ Running
                     /\ consumer = "select"
                     /\ Receive
                     /\ batch' = Append(batch, Head(output))
                     /\ UNCHANGED <<sent, consumer, processed, request, stored, serverVars>>

TakeLine == /\ Running
            /\ consumer = "select"
            /\ Receive
            /\ batch' = Append(batch, Head(output))
            /\ consumer' = IF Len(batch') >= BatchSize THEN "insert" ELSE "select"
            /\ UNCHANGED <<sent, processed, request, stored, serverVars>>

\* Fault: the ticker is never started.
NoTicker == FALSE

\* The ticker, once a second; it does nothing to an empty batch.
Tick == /\ Running
        /\ consumer = "select"
        /\ batch # <<>>
        /\ consumer' = "insert"
        /\ UNCHANGED <<feedVars, sent, batch, processed, request, stored, serverVars>>

\* Fault: the closed channel ends the goroutine at once.
SeeClosedDropsBatch == /\ Running
                       /\ consumer = "select"
                       /\ output = <<>> /\ closed
                       /\ consumer' = "done"
                       /\ batch' = <<>>
                       /\ UNCHANGED <<feedVars, sent, processed, request, stored, serverVars>>

\* The channel is closed and empty: what is left is processed and the goroutine ends.
SeeClosed == /\ Running
             /\ consumer = "select"
             /\ output = <<>> /\ closed
             /\ consumer' = IF batch = <<>> THEN "done" ELSE "lastinsert"
             /\ UNCHANGED <<feedVars, sent, batch, processed, request, stored, serverVars>>

\* processBatch: one transaction.  A failed insert is logged and the lines go on.
InsertBatch == /\ Running
               /\ consumer \in {"insert", "lastinsert"}
               /\ consumer' = IF consumer = "insert" THEN "process" ELSE "lastprocess"
               /\ \/ storeOpen /\ stored' = stored \cup Range(batch)
                  \/ UNCHANGED stored
               /\ UNCHANGED <<feedVars, sent, batch, processed, request, serverVars>>

\* One round of processBatch's loop, and the emptying of the batch after the last.
\* A send on the closed broadcast channel kills the process, select or not.
ProcessLine ==
  /\ Running
  /\ consumer \in {"process", "lastprocess"}
  /\ IF broadcastOpen
       THEN /\ processed' = Append(processed, Head(batch))
            /\ batch' = Tail(batch)
            /\ consumer' = CASE batch' # <<>> -> consumer
                             [] batch' = <<>> /\ consumer = "process" -> "select"
                             [] OTHER -> "done"
            /\ UNCHANGED <<main, panicked>>
       ELSE /\ panicked' = TRUE
            /\ main' = "exited"
            /\ UNCHANGED consumerVars
  /\ UNCHANGED <<feedVars, sent, request, stored, storeOpen, broadcastOpen>>

Consume == TakeLine \/ Tick \/ SeeClosed \/ InsertBatch \/ ProcessLine

-----------------------------------------------------------------------------
(* handleIngest and handleRawIngest, as far as one entry goes. *)

Arrive(r) == /\ main = "serving"
             /\ request[r] = "none"
             /\ request' = [request EXCEPT ![r] = "process"]
             /\ UNCHANGED <<feedVars, sent, consumerVars, stored, serverVars>>

\* Detector and broadcast come first.  net/http recovers a handler's panic.
ProcessRequest(r) ==
  /\ Running
  /\ request[r] = "process"
  /\ request' = [request EXCEPT ![r] = IF broadcastOpen THEN "insert" ELSE "aborted"]
  /\ UNCHANGED <<feedVars, sent, consumerVars, stored, serverVars>>

\* Fault: a failed insert is logged and answered 200, as processBatch logs it.
InsertRequestOptimistic(r) ==
  /\ Running
  /\ request[r] = "insert"
  /\ request' = [request EXCEPT ![r] = "ok"]
  /\ stored' = IF storeOpen THEN stored \cup {r} ELSE stored
  /\ UNCHANGED <<feedVars, sent, consumerVars, serverVars>>

InsertRequest(r) ==
  /\ Running
  /\ request[r] = "insert"
  /\ \/ storeOpen /\ stored' = stored \cup {r} /\ request' = [request EXCEPT ![r] = "ok"]
     \/ UNCHANGED stored /\ request' = [request EXCEPT ![r] = "failed"]
  /\ UNCHANGED <<feedVars, sent, consumerVars, serverVars>>

Handle(r) == ProcessRequest(r) \/ InsertRequest(r)
Active(r) == request[r] \in {"process", "insert"}

-----------------------------------------------------------------------------
(* main, from the signal on. *)

Signal == /\ main = "serving"
          /\ main' = "http"
          /\ UNCHANGED <<feedVars, sent, consumerVars, request, stored, storeOpen,
                         broadcastOpen, panicked>>

\* server.Shutdown returns when no handler is active, or at its deadline, which may
\* be now.
HttpShutdown == /\ main = "http"
                /\ main' = "collector"
                /\ UNCHANGED <<feedVars, sent, consumerVars, request, stored, storeOpen,
                               broadcastOpen, panicked>>

\* Fault: the consumer is awaited before the channel it reads is closed.
CollectorCloseAwaitsConsumer == /\ main = "collector"
                                /\ consumer = "done"
                                /\ CloseFeed
                                /\ main' = "server"
                                /\ UNCHANGED <<sent, consumerVars, request, stored, storeOpen,
                                               broadcastOpen, panicked>>

CollectorClose == /\ main = "collector"
                  /\ CloseFeed
                  /\ main' = "server"
                  /\ UNCHANGED <<sent, consumerVars, request, stored, storeOpen,
                                 broadcastOpen, panicked>>

\* apiServer.Shutdown: the clients are closed (Hub), then it sleeps 100 ms.
ServerShutdown == /\ main = "server"
                  /\ main' = "sleep"
                  /\ UNCHANGED <<feedVars, sent, consumerVars, request, stored, storeOpen,
                                 broadcastOpen, panicked>>

CloseBroadcast == /\ main = "sleep"
                  /\ main' = "return"
                  /\ broadcastOpen' = FALSE
                  /\ UNCHANGED <<feedVars, sent, consumerVars, request, stored, storeOpen, panicked>>

\* The deferred store.Close, and main returns.
StoreClose == /\ main = "return" /\ storeOpen
              /\ storeOpen' = FALSE
              /\ UNCHANGED <<feedVars, sent, consumerVars, request, stored, broadcastOpen,
                             main, panicked>>

Exit == /\ main = "return" /\ ~storeOpen
        /\ main' = "exited"
        /\ UNCHANGED <<feedVars, sent, consumerVars, request, stored, storeOpen,
                       broadcastOpen, panicked>>

MainStep == \/ HttpShutdown \/ CollectorClose \/ ServerShutdown
            \/ CloseBroadcast \/ StoreClose \/ Exit

Next == \/ Collect
        \/ Consume
        \/ \E r \in Requests : Arrive(r) \/ Handle(r)
        \/ Signal
        \/ MainStep

Spec == Init /\ [][Next]_vars

\* Goroutines run and the ticker ticks; nothing makes a line or a request arrive,
\* or the operator stop the server.
Fairness == /\ WF_vars(Consume) /\ WF_vars(MainStep)
            /\ \A r \in Requests : WF_vars(Handle(r))

FairSpec == Spec /\ Fairness

-----------------------------------------------------------------------------
Upto(n) == [i \in 1..n |-> i]

\* Between the channel and the detector no line is lost, repeated or overtaken,
\* whatever the batches and their flushes.
LinesInOrder == processed \o batch \o output = Upto(sent)

\* A request answered 200 is in the database, also when it races the shutdown.
AcknowledgedIsStored == \A r \in Requests : request[r] = "ok" => r \in stored

\* While the server runs every line it took reaches the detector, however few
\* follow it.
EveryLineIsProcessed ==
  \A n \in Entries : (sent >= n) ~> (n \in Range(processed) \/ ~Running)

\* A signal ends the process, whatever the handlers and the consumer are doing.
SignalEndsProcess == (main # "serving") ~> ~Running

\* main.go:169: "Graceful shutdown"; server.go:884: "Shutdown gracefully shuts down
\* the server".  A server that stops has processed the lines it collected.
ShutdownIsGraceful == ~Running => ~panicked /\ Len(processed) = sent
=============================================================================
