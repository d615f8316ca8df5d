--------------------------------- MODULE Hub ---------------------------------
(***************************************************************************)
(* The WebSocket side of api.Server (src/internal/api/server.go): one      *)
(* handleWebSocket goroutine per connection, which registers it and reads  *)
(* until it fails; the broadcast channel, which drops what does not fit;   *)
(* the one broadcastLoop, which writes each message to a snapshot of the   *)
(* clients; and Shutdown.  s.mu guards the client set only: the limit is   *)
(* read, the gauge set and the messages written outside it.                *)
(***************************************************************************)
EXTENDS Integers, FiniteSets, SequencesExt

CONSTANTS Conns,       \* WebSocket connections, each opened once
          MaxClients,  \* wsMaxConnections
          Capacity,    \* of the broadcast channel
          MaxMessages  \* bound: messages the channel accepts

ASSUME HubAssumption ==
          /\ IsFiniteSet(Conns)
          /\ MaxClients \in Nat \ {0}
          /\ Capacity \in Nat \ {0}
          /\ MaxMessages \in Nat

VARIABLES handler,   \* where each handleWebSocket is
          size,      \* its local clientCount
          clients,   \* s.clients
          closed,    \* connections the server has closed
          peer,      \* what the other end does
          gauge,     \* the anohive_active_clients metric
          queue,     \* s.broadcast
          accepted,  \* how many messages the channel took: the n-th is the number n
          loop,      \* where broadcastLoop is
          msg,       \* the message it took
          targets,   \* the part of its snapshot it has not written to
          phase,     \* of Shutdown: "up", "cleared", "closed"
          joined,    \* history: how many snapshots were taken before c registered
          taken,     \* history: how many snapshots were taken
          inbox      \* history: what each peer received

handlerVars == <<handler, size, gauge>>
loopVars == <<loop, msg, targets, taken>>
vars == <<handlerVars, clients, closed, peer, queue, accepted, loopVars, phase, joined, inbox>>

Messages == 1..MaxMessages

TypeOK == /\ handler \in [Conns -> {"new", "checked", "added", "serving", "deleted", "done"}]
          /\ size \in [Conns -> 0..Cardinality(Conns)]
          /\ clients \in SUBSET Conns
          /\ closed \in SUBSET Conns
          /\ peer \in [Conns -> {"reading", "stalled", "gone"}]
          /\ gauge \in 0..Cardinality(Conns)
          /\ queue \in Seq(Messages) /\ Len(queue) <= Capacity
          /\ accepted \in 0..MaxMessages
          /\ loop \in {"idle", "took", "writing", "done"}
          /\ msg \in 0..MaxMessages
          /\ targets \in SUBSET Conns
          /\ phase \in {"up", "cleared", "closed"}
          /\ joined \in [Conns -> 0..MaxMessages]
          /\ taken \in 0..MaxMessages
          /\ inbox \in [Conns -> Seq(Messages)]

Init == /\ handler = [c \in Conns |-> "new"]
        /\ size = [c \in Conns |-> 0]
        /\ clients = {}
        /\ closed = {}
        /\ peer = [c \in Conns |-> "reading"]
        /\ gauge = 0
        /\ queue = <<>>
        /\ accepted = 0
        /\ loop = "idle"
        /\ msg = 0
        /\ targets = {}
        /\ phase = "up"
        /\ joined = [c \in Conns |-> 0]
        /\ taken = 0
        /\ inbox = [c \in Conns |-> <<>>]

-----------------------------------------------------------------------------
(* handleWebSocket. *)

Goto(c, where) == handler' = [handler EXCEPT ![c] = where]

\* The limit is read under RLock and answered 503 if it is reached.
CheckLimit(c) ==
  /\ handler[c] = "new"
  /\ Goto(c, IF Cardinality(clients) >= MaxClients THEN "done" ELSE "checked")
  /\ UNCHANGED <<size, clients, closed, peer, gauge, queue, accepted, loopVars, phase, joined, inbox>>

UpgradeFails(c) ==
  /\ handler[c] = "checked"
  /\ Goto(c, "done")
  /\ UNCHANGED <<size, clients, closed, peer, gauge, queue, accepted, loopVars, phase, joined, inbox>>

\* The connection is upgraded and registered under the lock.
Register(c) ==
  /\ handler[c] = "checked"
  /\ clients' = clients \cup {c}
  /\ size' = [size EXCEPT ![c] = Cardinality(clients')]
  /\ joined' = [joined EXCEPT ![c] = taken]
  /\ Goto(c, "added")
  /\ UNCHANGED <<closed, peer, gauge, queue, accepted, loopVars, phase, inbox>>

SetGauge(c) ==
  /\ handler[c] \in {"added", "deleted"}
  /\ gauge' = size[c]
  /\ Goto(c, IF handler[c] = "added" THEN "serving" ELSE "done")
  /\ closed' = IF handler[c] = "deleted" THEN closed \cup {c} ELSE closed
  /\ UNCHANGED <<size, clients, peer, queue, accepted, loopVars, phase, joined, inbox>>

\* Fault: the handler returns and leaves the connection to broadcastLoop.
UnregisterNothing(c) ==
  /\ handler[c] = "serving"
  /\ c \in closed \/ peer[c] = "gone"
  /\ size' = [size EXCEPT ![c] = Cardinality(clients)]
  /\ Goto(c, "deleted")
  /\ UNCHANGED <<clients, closed, peer, gauge, queue, accepted, loopVars, phase, joined, inbox>>

\* ReadMessage fails, because the peer or the server closed the connection.
Unregister(c) ==
  /\ handler[c] = "serving"
  /\ c \in closed \/ peer[c] = "gone"
  /\ clients' = clients \ {c}
  /\ size' = [size EXCEPT ![c] = Cardinality(clients')]
  /\ Goto(c, "deleted")
  /\ UNCHANGED <<closed, peer, gauge, queue, accepted, loopVars, phase, joined, inbox>>

Handle(c) == UpgradeFails(c) \/ Register(c) \/ SetGauge(c) \/ Unregister(c)

-----------------------------------------------------------------------------
(* BroadcastLog and BroadcastAnomaly: the send that fits; the default arm that   *)
(* drops a message changes nothing.  A send after the channel is closed panics:  *)
(* see Pipeline.                                                                 *)

\* Fault: the channel takes what does not fit.
PublishAlways == /\ phase # "closed"
                 /\ accepted < MaxMessages
                 /\ accepted' = accepted + 1
                 /\ queue' = Append(queue, accepted + 1)
                 /\ UNCHANGED <<handlerVars, clients, closed, peer, loopVars, phase, joined,
                                inbox>>

Publish == /\ phase # "closed"
           /\ Len(queue) < Capacity
           /\ accepted < MaxMessages
           /\ accepted' = accepted + 1
           /\ queue' = Append(queue, accepted + 1)
           /\ UNCHANGED <<handlerVars, clients, closed, peer, loopVars, phase, joined, inbox>>

Drop == /\ phase # "closed"
        /\ Len(queue) = Capacity
        /\ UNCHANGED vars

-----------------------------------------------------------------------------
(* broadcastLoop. *)

Take == /\ loop = "idle"
        /\ IF queue # <<>>
             THEN loop' = "took" /\ msg' = Head(queue) /\ queue' = Tail(queue)
             ELSE phase = "closed" /\ loop' = "done" /\ UNCHANGED <<msg, queue>>
        /\ UNCHANGED <<handlerVars, clients, closed, peer, accepted, targets, taken, phase,
                       joined, inbox>>

\* Fault: only a client whose handler reads already is written to.
SnapshotServing == /\ loop = "took"
                   /\ loop' = "writing"
                   /\ targets' = {c \in clients : handler[c] = "serving"}
                   /\ taken' = taken + 1
                   /\ UNCHANGED <<handlerVars, clients, closed, peer, queue, accepted, msg,
                                  phase, joined, inbox>>

Snapshot == /\ loop = "took"
            /\ loop' = "writing"
            /\ targets' = clients
            /\ taken' = taken + 1
            /\ UNCHANGED <<handlerVars, clients, closed, peer, queue, accepted, msg, phase,
                           joined, inbox>>

\* A write to a peer that reads arrives; one to a peer that stalls blocks, as no
\* deadline is set, until the peer reads again or the connection is closed.
Write(c) == /\ loop = "writing" /\ c \in targets
            /\ c \notin closed /\ peer[c] # "stalled"
            /\ targets' = targets \ {c}
            /\ inbox' = IF peer[c] = "reading" THEN [inbox EXCEPT ![c] = Append(@, msg)]
                                               ELSE inbox
            /\ UNCHANGED <<handlerVars, clients, closed, peer, queue, accepted, loop, msg,
                           taken, phase, joined>>

\* Fault: a failed write is tried again.
WriteRetries(c) == /\ loop = "writing" /\ c \in targets
                   /\ c \in closed \/ peer[c] = "gone"
                   /\ clients' = clients \ {c}
                   /\ closed' = closed \cup {c}
                   /\ UNCHANGED <<handlerVars, peer, queue, accepted, loopVars, phase,
                                  joined, inbox>>

\* A write fails on a connection closed by either end: it is forgotten and closed,
\* and the gauge not told.
WriteFails(c) == /\ loop = "writing" /\ c \in targets
                 /\ c \in closed \/ peer[c] = "gone"
                 /\ targets' = targets \ {c}
                 /\ clients' = clients \ {c}
                 /\ closed' = closed \cup {c}
                 /\ UNCHANGED <<handlerVars, peer, queue, accepted, loop, msg, taken, phase,
                                joined, inbox>>

\* Fault: the next message is begun while one client is still written to.
WrittenAtOnce == /\ loop = "writing"
                 /\ loop' = "idle"
                 /\ UNCHANGED <<handlerVars, clients, closed, peer, queue, accepted, msg,
                                targets, taken, phase, joined, inbox>>

Written == /\ loop = "writing" /\ targets = {}
           /\ loop' = "idle"
           /\ UNCHANGED <<handlerVars, clients, closed, peer, queue, accepted, msg, targets,
                          taken, phase, joined, inbox>>

BroadcastLoop == \/ Take \/ Snapshot \/ Written
                 \/ \E c \in Conns : Write(c) \/ WriteFails(c)

-----------------------------------------------------------------------------
(* Shutdown, before and after its sleep. *)

ShutdownClients == /\ phase = "up"
                   /\ phase' = "cleared"
                   /\ closed' = closed \cup clients
                   /\ clients' = {}
                   /\ UNCHANGED <<handlerVars, peer, queue, accepted, loopVars, joined, inbox>>

CloseBroadcast == /\ phase = "cleared"
                  /\ phase' = "closed"
                  /\ UNCHANGED <<handlerVars, clients, closed, peer, queue, accepted,
                                 loopVars, joined, inbox>>

(* The peers. *)

PeerChanges(c) == /\ handler[c] # "new"
                  /\ peer[c] # "gone"
                  /\ peer' = [peer EXCEPT ![c] = IF @ = "reading" THEN "stalled" ELSE "reading"]
                  /\ UNCHANGED <<handlerVars, clients, closed, queue, accepted, loopVars,
                                 phase, joined, inbox>>

PeerLeaves(c) == /\ handler[c] # "new"
                 /\ peer[c] # "gone"
                 /\ peer' = [peer EXCEPT ![c] = "gone"]
                 /\ UNCHANGED <<handlerVars, clients, closed, queue, accepted, loopVars,
                                phase, joined, inbox>>

Next == \/ \E c \in Conns : CheckLimit(c) \/ Handle(c) \/ PeerChanges(c) \/ PeerLeaves(c)
        \/ Publish \/ Drop
        \/ BroadcastLoop
        \/ ShutdownClients \/ CloseBroadcast

Spec == Init /\ [][Next]_vars

\* Goroutines run.  Nothing makes a peer read, come or go, or the server stop.
Fairness == /\ WF_vars(Take \/ Snapshot \/ Written)
            /\ \A c \in Conns : WF_vars(Write(c) \/ WriteFails(c)) /\ WF_vars(Handle(c))

FairSpec == Spec /\ Fairness

-----------------------------------------------------------------------------
\* No connection stays registered without a handler that will unregister it.
RegisteredAreServed ==
  \A c \in clients : handler[c] \in {"added", "serving"}

\* A client that reads gets every message of every snapshot taken since it was
\* registered, once and in the channel's order, with no gap: all but the one being
\* written now.
StreamsEveryMessage ==
  \A c \in clients \ closed : peer[c] # "gone" =>
    inbox[c] = [i \in 1..(taken - joined[c] - (IF c \in targets THEN 1 ELSE 0))
                  |-> joined[c] + i]

\* The messages one client was sent are those of a broadcast that leaves no client behind:
\* channel, snapshots and failed writes included, no second message is begun while a
\* client that is registered, open and not gone has not got the first.
Live == {c \in clients \ closed : peer[c] # "gone"}

LastOf(c) == IF inbox[c] = <<>> THEN joined[c] ELSE inbox[c][Len(inbox[c])]

LastSeen == [c \in Live |-> LastOf(c)]

Stream == INSTANCE Broadcast WITH head <- taken, last <- LastSeen
ImplementsBroadcast == Stream!BroadcastSpec

\* A connection that either end closes is unregistered, and its handler returns.
ClosedAreForgotten ==
  \A c \in Conns : (handler[c] # "new" /\ (c \in closed \/ peer[c] = "gone"))
                     ~> (handler[c] = "done" /\ c \notin clients)

\* Messages do not stay in the channel, unless some peer stalls.
Stalls == \E c \in Conns : peer[c] = "stalled"
DrainsUnlessStalled == []<>(queue = <<>> \/ Stalls)

\* RUNBOOK.md:87: PULSE_WS_MAX_CONNECTIONS is the "maximum WebSocket connections".
AtMostMaxClients == Cardinality(clients) <= MaxClients
=============================================================================
