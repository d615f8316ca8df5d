------------------------------ MODULE Collector ------------------------------
(***************************************************************************)
(* collector.Collector (src/internal/collector/collector.go): one read     *)
(* loop per added source, all of them sending parsed lines to one bounded  *)
(* output channel that a single consumer drains.  RemoveSource and Close   *)
(* cancel loops by closing their cancel channels; Close then waits for     *)
(* every loop and closes the output.                                       *)
(***************************************************************************)
EXTENDS Naturals, SequencesExt

CONSTANTS Names,     \* source names, each naming a file
          MaxAdds,   \* bound: how often a name is added
          Capacity,  \* of the output channel
          MaxLines   \* bound: lines a file grows to

ASSUME CollectorAssumption ==
          /\ MaxAdds \in Nat
          /\ Capacity \in Nat
          /\ MaxLines \in Nat

\* What a line is to the scanner: one it cannot hold in 1 MiB is its last.
Kinds == {"text", "blank", "toolong"}

\* The k-th goroutine running readLoop for name n is <<n, k>>.
Loops == Names \X (1..MaxAdds)
source(l) == l[1]

VARIABLES file,         \* the lines in each file
          sources,      \* the keys of c.sources
          cancelChans,  \* the loops whose cancel channels it holds, under their names
          pc,           \* where each loop is
          pos,          \* how many lines the loop's scanner has consumed
          scanner,      \* "choked" by a line too long, "over" when it never reads again
          cancelled,    \* is the loop's cancel channel closed?
          output,       \* the channel: <<loop, line>> entries
          phase,        \* of Close: "running", "waiting", "closed"
          received      \* history: what the consumer took from the channel

loopVars == <<pc, pos, scanner, cancelled>>
vars == <<file, sources, cancelChans, loopVars, output, phase, received>>

TypeOK == /\ file \in [Names -> Seq(Kinds)]
          /\ sources \in SUBSET Names
          /\ cancelChans \in SUBSET Loops
          /\ pc \in [Loops -> {"unborn", "check", "scan", "send", "pause", "done"}]
          /\ pos \in [Loops -> 0..MaxLines]
          /\ scanner \in [Loops -> {"reading", "choked", "over"}]
          /\ cancelled \in [Loops -> BOOLEAN]
          /\ output \in Seq(Loops \X (1..MaxLines))
          /\ Len(output) <= Capacity
          /\ phase \in {"running", "waiting", "closed"}
          /\ received \in Seq(Loops \X (1..MaxLines))

Init == /\ file = [n \in Names |-> <<>>]
        /\ sources = {}
        /\ cancelChans = {}
        /\ pc = [l \in Loops |-> "unborn"]
        /\ pos = [l \in Loops |-> 0]
        /\ scanner = [l \in Loops |-> "reading"]
        /\ cancelled = [l \in Loops |-> FALSE]
        /\ output = <<>>
        /\ phase = "running"
        /\ received = <<>>

-----------------------------------------------------------------------------
(* The collector's methods. *)

\* Fault: adding a name again starts another loop and forgets the first one.
AddSourceAgain(l) == /\ phase = "running"
                     /\ pc[l] = "unborn"
                     /\ sources' = sources \cup {source(l)}
                     /\ cancelChans' = {k \in cancelChans : source(k) # source(l)} \cup {l}
                     /\ pc' = [pc EXCEPT ![l] = "check"]
                     /\ UNCHANGED <<file, pos, scanner, cancelled, output, phase, received>>

\* AddSource of a name not yet there, under the lock.  main adds its sources before
\* it waits for the signal that leads to Close.
AddSource(l) == /\ phase = "running"
                /\ source(l) \notin sources
                /\ pc[l] = "unborn"
                /\ sources' = sources \cup {source(l)}
                /\ cancelChans' = {k \in cancelChans : source(k) # source(l)} \cup {l}
                /\ pc' = [pc EXCEPT ![l] = "check"]
                /\ UNCHANGED <<file, pos, scanner, cancelled, output, phase, received>>

RemoveSource(l) == /\ l \in cancelChans
                   /\ cancelled' = [cancelled EXCEPT ![l] = TRUE]
                   /\ cancelChans' = cancelChans \ {l}
                   /\ sources' = sources \ {source(l)}
                   /\ UNCHANGED <<file, pc, pos, scanner, output, phase, received>>

\* Close, under the lock: every cancel channel is closed and forgotten; the names
\* stay in sources.
CloseCancels == /\ phase = "running"
                /\ phase' = "waiting"
                /\ cancelled' = [l \in Loops |-> cancelled[l] \/ l \in cancelChans]
                /\ cancelChans' = {}
                /\ UNCHANGED <<file, sources, pc, pos, scanner, output, received>>

\* Fault: the output is closed without waiting for the loops.
CloseOutputAtOnce == /\ phase = "waiting"
                     /\ phase' = "closed"
                     /\ UNCHANGED <<file, sources, cancelChans, loopVars, output, received>>

\* Fault: Close empties the channel, so that no loop waits on it, before it closes it.
CloseOutputDrained == /\ phase = "waiting"
                      /\ \A l \in Loops : pc[l] \in {"unborn", "done"}
                      /\ phase' = "closed"
                      /\ output' = <<>>
                      /\ UNCHANGED <<file, sources, cancelChans, loopVars, received>>

\* Close, after wg.Wait.
CloseOutput == /\ phase = "waiting"
               /\ \A l \in Loops : pc[l] \in {"unborn", "done"}
               /\ phase' = "closed"
               /\ UNCHANGED <<file, sources, cancelChans, loopVars, output, received>>

-----------------------------------------------------------------------------
(* readLoop. *)

Goto(l, where) == pc' = [pc EXCEPT ![l] = where]

Check(l) == /\ pc[l] = "check"
            /\ Goto(l, IF cancelled[l] THEN "done" ELSE "scan")
            /\ UNCHANGED <<file, sources, cancelChans, pos, scanner, cancelled,
                           output, phase, received>>

NextLine(l) == file[source(l)][pos[l] + 1]
HasLine(l)  == scanner[l] = "reading" /\ pos[l] < Len(file[source(l)])

\* Scan returns a line: a blank one is skipped, any other is parsed and given an id.
ScanLine(l) == /\ pc[l] = "scan"
               /\ HasLine(l) /\ NextLine(l) # "toolong"
               /\ pos' = [pos EXCEPT ![l] = @ + 1]
               /\ Goto(l, IF NextLine(l) = "blank" THEN "check" ELSE "send")
               /\ UNCHANGED <<file, sources, cancelChans, scanner, cancelled, output,
                              phase, received>>

\* Scan returns false with ErrTooLong, its buffer full.
ScanChokes(l) == /\ pc[l] = "scan"
                 /\ HasLine(l) /\ NextLine(l) = "toolong"
                 /\ scanner' = [scanner EXCEPT ![l] = "choked"]
                 /\ Goto(l, "pause")
                 /\ UNCHANGED <<file, sources, cancelChans, pos, cancelled, output, phase,
                                received>>

\* Called again, it returns the buffered part of that line as its last one.
ScanRest(l) == /\ pc[l] = "scan"
               /\ scanner[l] = "choked"
               /\ scanner' = [scanner EXCEPT ![l] = "over"]
               /\ pos' = [pos EXCEPT ![l] = @ + 1]
               /\ Goto(l, "send")
               /\ UNCHANGED <<file, sources, cancelChans, cancelled, output, phase, received>>

\* Scan returns false at the end of what there is to read, and ever after: a
\* bufio.Scanner that has met the end or an error never reads again.
ScanNothing(l) == /\ pc[l] = "scan"
                  /\ ~HasLine(l) /\ scanner[l] # "choked"
                  /\ scanner' = [scanner EXCEPT ![l] = "over"]
                  /\ Goto(l, "pause")
                  /\ UNCHANGED <<file, sources, cancelChans, pos, cancelled, output, phase,
                                 received>>

\* The select between the cancel channel and the 50 or 100 ms timer.
Pause(l) == /\ pc[l] = "pause"
            /\ \/ Goto(l, "check")
               \/ cancelled[l] /\ Goto(l, "done")
            /\ UNCHANGED <<file, sources, cancelChans, pos, scanner, cancelled,
                           output, phase, received>>

\* Fault: a full channel drops the line, as the broadcast channel does.
SendOrDrop(l) == /\ pc[l] = "send"
                 /\ Goto(l, "check")
                 /\ output' = IF Len(output) < Capacity THEN Append(output, <<l, pos[l]>>)
                                                        ELSE output
                 /\ UNCHANGED <<file, sources, cancelChans, pos, scanner, cancelled,
                                phase, received>>

\* Fault: the channel is not bounded.
SendAlways(l) == /\ pc[l] = "send"
                 /\ output' = Append(output, <<l, pos[l]>>)
                 /\ Goto(l, "check")
                 /\ UNCHANGED <<file, sources, cancelChans, pos, scanner, cancelled, phase, received>>

Send(l) == /\ pc[l] = "send"
           /\ Len(output) < Capacity
           /\ output' = Append(output, <<l, pos[l]>>)
           /\ Goto(l, "check")
           /\ UNCHANGED <<file, sources, cancelChans, pos, scanner, cancelled,
                          phase, received>>

\* Fault: the send does not listen to the cancel channel.
NeverAbandonSend(l) == FALSE

\* The other arm of that select: the line in hand is lost.
AbandonSend(l) == /\ pc[l] = "send"
                  /\ cancelled[l]
                  /\ Goto(l, "done")
                  /\ UNCHANGED <<file, sources, cancelChans, pos, scanner, cancelled,
                                 output, phase, received>>

ReadLoop(l) == \/ Check(l) \/ ScanLine(l) \/ ScanChokes(l) \/ ScanRest(l)
               \/ ScanNothing(l) \/ Pause(l) \/ Send(l) \/ AbandonSend(l)

-----------------------------------------------------------------------------
(* The consumer (processCollectorOutput) and the programs that write the files. *)

Receive == /\ output # <<>>
           /\ received' = Append(received, Head(output))
           /\ output' = Tail(output)
           /\ UNCHANGED <<file, sources, cancelChans, loopVars, phase>>

WriteLine(n) == /\ Len(file[n]) < MaxLines
                /\ \E k \in Kinds : file' = [file EXCEPT ![n] = Append(@, k)]
                /\ UNCHANGED <<sources, cancelChans, loopVars, output, phase, received>>

Next == \/ \E n \in Names : WriteLine(n)
        \/ \E l \in Loops : AddSource(l) \/ RemoveSource(l) \/ ReadLoop(l)
        \/ CloseCancels
        \/ CloseOutput
        \/ Receive

Spec == Init /\ [][Next]_vars

\* Goroutines run, and Close, once called, resumes when its wait is over.  Nothing
\* makes the consumer receive.
Fairness == WF_vars(CloseOutput) /\ \A l \in Loops : WF_vars(ReadLoop(l))

FairSpec == Spec /\ Fairness

\* With a consumer that keeps receiving, as processCollectorOutput does.
ConsumedSpec == FairSpec /\ WF_vars(Receive)

-----------------------------------------------------------------------------
Alive(l) == pc[l] \notin {"unborn", "done"}

\* A send on a closed channel panics: when Close closes the output no loop is left
\* that could send.
NoSendAfterClose == phase = "closed" => \A l \in Loops : ~Alive(l)

\* Every loop still running can be told to stop: it is cancelled already, or its
\* cancel channel is in the map, which holds one per name, and its name is listed.
EveryLoopCanBeStopped ==
  /\ \A l \in Loops : Alive(l) /\ ~cancelled[l] => l \in cancelChans
  /\ \A k, l \in cancelChans : source(k) = source(l) => k = l
  /\ \A l \in cancelChans : source(l) \in sources

\* All that was ever sent, in the order the consumer sees it.
Stream == received \o output

\* The lines of loop l that have left it, and those it has scanned and not skipped.
Delivered(l) == {e[2] : e \in {e \in Range(Stream) : e[1] = l}}
Scanned(l) == {k \in 1..pos[l] : file[source(l)][k] # "blank"}

\* A loop hands on every line it scanned, once and in the file's order.  Only the
\* line in hand can be missing: still being sent, or given up because the loop was
\* cancelled while the channel was full.
DeliversInOrder ==
  /\ \A i, j \in DOMAIN Stream :
       i < j /\ Stream[i][1] = Stream[j][1] => Stream[i][2] < Stream[j][2]
  /\ \A l \in Loops :
       \/ Delivered(l) = Scanned(l)
       \/ /\ Delivered(l) = Scanned(l) \ {pos[l]}
          /\ pc[l] = "send" \/ (pc[l] = "done" /\ cancelled[l])

\* Refinement: what the consumer sees is a bounded channel, closed once and never
\* sent to after that.
Feed == INSTANCE LineFeed WITH
          Entries <- Loops \X (1..MaxLines),
          closed  <- phase = "closed"
ImplementsFeed == Feed!FeedSpec

\* Close returns even if the consumer is gone and the channel full.
CloseReturns == (phase = "waiting") ~> (phase = "closed")

\* RUNBOOK.md:23 calls the collector a "log file collector for tailing local log
\* files": the lines written to the file of a source that stays are scanned.
Behind(l) == /\ Alive(l) /\ ~cancelled[l]
             /\ pos[l] < Len(file[source(l)])
             /\ \A i \in DOMAIN file[source(l)] : file[source(l)][i] # "toolong"
TailsFiles == \A l \in Loops : Behind(l) ~> ~Behind(l)
=============================================================================
