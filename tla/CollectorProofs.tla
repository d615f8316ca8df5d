--------------------------- MODULE CollectorProofs ---------------------------
(***************************************************************************)
(* The collector's safety for any sources, number of loops, capacity and   *)
(* length of the files: its type, that no loop sends after Close closed    *)
(* the output, that every loop can be stopped, and the feed it implements. *)
(***************************************************************************)
EXTENDS Collector, SequenceTheorems, TLAPS

\* How far a scanner may be: within its file, with the line too long still before
\* it while it is choked, and with a line in hand while the loop sends.
ScansItsFile ==
  /\ \A n \in Names : Len(file[n]) <= MaxLines
  /\ \A l \in Loops : /\ scanner[l] = "choked" => pos[l] < MaxLines
                      /\ pc[l] = "send" => pos[l] > 0

\* The types need the scanner's place (an entry of the output is a line's number),
\* and a loop's cancel channel is found under its name only while names are unique.
IInv == TypeOK /\ ScansItsFile /\ NoSendAfterClose /\ EveryLoopCanBeStopped

Entry == Loops \X (1..MaxLines)

LEMMA InitIInv == Init => IInv
BY CollectorAssumption, SMT
   DEF Init, IInv, TypeOK, ScansItsFile, NoSendAfterClose, EveryLoopCanBeStopped, Alive, Loops

-----------------------------------------------------------------------------
(* The types and the scanners. *)

\* Every step of the collector, its consumer and its files preserves the types.
LEMMA NextTypes == IInv /\ [Next]_vars => TypeOK' /\ ScansItsFile'
<1> SUFFICES ASSUME IInv, [Next]_vars PROVE TypeOK' /\ ScansItsFile'
    OBVIOUS
<1> USE CollectorAssumption DEF IInv, TypeOK, ScansItsFile, vars, loopVars, Goto
<1>1. ASSUME NEW n \in Names, WriteLine(n) PROVE TypeOK' /\ ScansItsFile'
  <2>1. PICK k \in Kinds : file' = [file EXCEPT ![n] = Append(@, k)]
        BY <1>1 DEF WriteLine
  <2>2. Append(file[n], k) \in Seq(Kinds) /\ Len(Append(file[n], k)) = Len(file[n]) + 1
        BY AppendProperties
  <2>3. QED
        BY <1>1, <2>1, <2>2, SMT DEF WriteLine
<1>2. ASSUME NEW l \in Loops, AddSource(l) PROVE TypeOK' /\ ScansItsFile'
      BY <1>2, SMT DEF AddSource, Loops, source
<1>3. ASSUME NEW l \in Loops, RemoveSource(l) PROVE TypeOK' /\ ScansItsFile'
      BY <1>3, SMT DEF RemoveSource
<1>4. ASSUME NEW l \in Loops, Check(l) PROVE TypeOK' /\ ScansItsFile'
      BY <1>4, SMT DEF Check
<1>5. ASSUME NEW l \in Loops, ScanLine(l) PROVE TypeOK' /\ ScansItsFile'
  <2>1. source(l) \in Names
        BY DEF Loops, source
  <2>2. pos[l] < MaxLines
        BY <1>5, <2>1, SMT DEF ScanLine, HasLine
  <2>3. pc' \in [Loops -> {"unborn", "check", "scan", "send", "pause", "done"}]
        BY <1>5, SMT DEF ScanLine
  <2>4. /\ pos' = [pos EXCEPT ![l] = pos[l] + 1]
        /\ pos[l] + 1 \in 1..MaxLines
        /\ scanner[l] = "reading"
        /\ UNCHANGED <<file, sources, cancelChans, scanner, cancelled, output, phase, received>>
        BY <1>5, <2>2, SMT DEF ScanLine, HasLine
  <2>5. \A k \in Loops : k # l => pc'[k] = pc[k]
        BY <1>5, SMT DEF ScanLine
  <2>6. QED
        BY <2>3, <2>4, <2>5, SMT
<1>6. ASSUME NEW l \in Loops, ScanChokes(l) PROVE TypeOK' /\ ScansItsFile'
  <2>1. source(l) \in Names
        BY DEF Loops, source
  <2>2. pos[l] < MaxLines
        BY <1>6, <2>1, SMT DEF ScanChokes, HasLine
  <2>3. QED
        BY <1>6, <2>2, SMT DEF ScanChokes
<1>7. ASSUME NEW l \in Loops, ScanRest(l) PROVE TypeOK' /\ ScansItsFile'
  <2>1. /\ pos' = [pos EXCEPT ![l] = pos[l] + 1]
        /\ pos[l] + 1 \in 1..MaxLines
        /\ scanner' = [scanner EXCEPT ![l] = "over"]
        /\ pc' = [pc EXCEPT ![l] = "send"]
        BY <1>7, SMT DEF ScanRest
  <2>2. UNCHANGED <<file, sources, cancelChans, cancelled, output, phase, received>>
        BY <1>7 DEF ScanRest
  <2>3. QED
        BY <2>1, <2>2, SMT
<1>8. ASSUME NEW l \in Loops, ScanNothing(l) PROVE TypeOK' /\ ScansItsFile'
      BY <1>8, SMT DEF ScanNothing
<1>9. ASSUME NEW l \in Loops, Pause(l) PROVE TypeOK' /\ ScansItsFile'
  <2>1. \E where \in {"check", "done"} : pc' = [pc EXCEPT ![l] = where]
        BY <1>9, Zenon DEF Pause
  <2>2. UNCHANGED <<file, sources, cancelChans, pos, scanner, cancelled, output, phase, received>>
        BY <1>9, Zenon DEF Pause
  <2>3. QED
        BY <2>1, <2>2, SMT
<1>10. ASSUME NEW l \in Loops, Send(l) PROVE TypeOK' /\ ScansItsFile'
  <2>1. <<l, pos[l]>> \in Entry
        BY <1>10, SMT DEF Send, Entry
  <2>2. output' \in Seq(Entry) /\ Len(output') = Len(output) + 1
        BY <1>10, <2>1, AppendProperties DEF Send, Entry
  <2>3. QED
        BY <1>10, <2>2, SMT DEF Send, Entry
<1>11. ASSUME NEW l \in Loops, AbandonSend(l) PROVE TypeOK' /\ ScansItsFile'
      BY <1>11, SMT DEF AbandonSend
<1>12. CASE CloseCancels
  <2>1. cancelled' \in [Loops -> BOOLEAN]
        BY <1>12, Zenon DEF CloseCancels
  <2>2. QED
        BY <1>12, <2>1, SMT DEF CloseCancels
<1>13. CASE CloseOutput
      BY <1>13, SMT DEF CloseOutput
<1>14. CASE Receive
  <2>1. /\ Head(output) \in Entry
        /\ Tail(output) \in Seq(Entry)
        /\ Len(Tail(output)) = Len(output) - 1
        /\ Len(output) \in Nat
        BY <1>14, HeadTailProperties, LenProperties DEF Receive, Entry
  <2>2. Append(received, Head(output)) \in Seq(Entry)
        BY <2>1, AppendProperties DEF Entry
  <2>3. output' = Tail(output) /\ received' = Append(received, Head(output))
        BY <1>14, Zenon DEF Receive
  <2>4. UNCHANGED <<file, sources, cancelChans, pc, pos, scanner, cancelled, phase>>
        BY <1>14 DEF Receive
  <2>5. TypeOK'
    <3>1. /\ output' \in Seq(Loops \X (1..MaxLines))
          /\ received' \in Seq(Loops \X (1..MaxLines))
          BY <2>1, <2>2, <2>3, Zenon DEF Entry
    <3>2. Len(output') <= Capacity
      <4>1. ASSUME NEW n \in Nat, n <= Capacity PROVE n - 1 <= Capacity
            BY <4>1, SMT
      <4>2. QED
            BY <2>1, <2>3, <4>1, Zenon
    <3>3. QED
          BY <2>4, <3>1, <3>2, Zenon
  <2>6. ScansItsFile'
        BY <2>4
  <2>7. QED
        BY <2>5, <2>6, Zenon
<1>15. CASE UNCHANGED vars
      BY <1>15, SMT
<1>16. QED
      BY <1>1, <1>2, <1>3, <1>4, <1>5, <1>6, <1>7, <1>8, <1>9, <1>10, <1>11, <1>12, <1>13,
         <1>14, <1>15
         DEF Next, ReadLoop

-----------------------------------------------------------------------------
(* Closing and stopping. *)

\* The steps of a read loop wake no loop and touch neither map.
LEMMA LoopOnlyAdvances ==
  ASSUME IInv, NEW l \in Loops, ReadLoop(l)
  PROVE  /\ Alive(l)
         /\ \A k \in Loops : Alive(k)' => Alive(k)
         /\ UNCHANGED <<sources, cancelChans, cancelled, phase>>
BY SMT DEF IInv, TypeOK, ReadLoop, Check, ScanLine, ScanChokes, ScanRest, ScanNothing, Pause,
           Send, AbandonSend, Goto, Alive

\* Every step keeps the closed output quiet and every loop stoppable.
LEMMA NextStops ==
  IInv /\ [Next]_vars => NoSendAfterClose' /\ EveryLoopCanBeStopped'
<1> SUFFICES ASSUME IInv, [Next]_vars PROVE NoSendAfterClose' /\ EveryLoopCanBeStopped'
    OBVIOUS
<1> USE DEF IInv, TypeOK, NoSendAfterClose, EveryLoopCanBeStopped
<1>1. ASSUME NEW n \in Names, WriteLine(n)
      PROVE  NoSendAfterClose' /\ EveryLoopCanBeStopped'
      BY <1>1, SMT DEF WriteLine, loopVars, Alive
<1>2. ASSUME NEW l \in Loops, AddSource(l)
      PROVE  NoSendAfterClose' /\ EveryLoopCanBeStopped'
  <2>1. {k \in cancelChans : source(k) # source(l)} = cancelChans
        BY <1>2 DEF AddSource
  <2>2. cancelChans' = cancelChans \cup {l}
        BY <1>2, <2>1 DEF AddSource
  <2>3. \A k \in Loops : Alive(k)' => Alive(k) \/ k = l
        BY <1>2, SMT DEF AddSource, Alive
  <2>4. QED
        BY <1>2, <2>2, <2>3, SMT DEF AddSource
<1>3. ASSUME NEW l \in Loops, RemoveSource(l)
      PROVE  NoSendAfterClose' /\ EveryLoopCanBeStopped'
      BY <1>3, SMT DEF RemoveSource, Alive
<1>4. ASSUME NEW l \in Loops, ReadLoop(l)
      PROVE  NoSendAfterClose' /\ EveryLoopCanBeStopped'
      BY <1>4, LoopOnlyAdvances, SMT
<1>5. CASE CloseCancels
  <2>1. \A l \in Loops : cancelled[l] \/ l \in cancelChans => cancelled'[l]
        BY <1>5, Zenon DEF CloseCancels
  <2>2. /\ \A l \in Loops : Alive(l)' = Alive(l)
        /\ cancelChans' = {} /\ phase' = "waiting"
        BY <1>5 DEF CloseCancels, Alive
  <2>3. QED
        BY <2>1, <2>2, Zenon
<1>6. CASE CloseOutput
      BY <1>6, SMT DEF CloseOutput, loopVars, Alive
<1>7. CASE Receive
      BY <1>7, SMT DEF Receive, loopVars, Alive
<1>8. CASE UNCHANGED vars
      BY <1>8, SMT DEF vars, loopVars, Alive
<1>9. QED
      BY <1>1, <1>2, <1>3, <1>4, <1>5, <1>6, <1>7, <1>8 DEF Next

LEMMA NextIInv == IInv /\ [Next]_vars => IInv'
BY NextTypes, NextStops DEF IInv

\* The inductive invariant holds in every reachable state.
THEOREM Invariance == Spec => []IInv
BY InitIInv, NextIInv, PTL DEF Spec

\* collector.go:18-25: the collector's maps, its loops and its bounded output keep
\* their types.
THEOREM TypeCorrect == Spec => []TypeOK
BY Invariance, PTL DEF IInv

\* collector.go:136-146: when Close closes the output no loop is left to send.
THEOREM NoSendAfterCloseHolds == Spec => []NoSendAfterClose
BY Invariance, PTL DEF IInv

\* collector.go:40-80: however sources are added and removed, a running loop is
\* cancelled already or its cancel channel is still in the map.
THEOREM EveryLoopCanBeStoppedHolds == Spec => []EveryLoopCanBeStopped
BY Invariance, PTL DEF IInv

-----------------------------------------------------------------------------
(* What the consumer sees. *)

Sent(l, k) == <<l, k>> \in Range(Stream)

\* A scanner is within its file as it stands, and what it takes for its last line
\* is none that is skipped.
ScansWhatIsWritten ==
  \A l \in Loops : /\ pos[l] <= Len(file[source(l)])
                   /\ scanner[l] = "choked" => /\ pos[l] < Len(file[source(l)])
                                               /\ file[source(l)][pos[l] + 1] = "toolong"

InOrder == \A i, j \in DOMAIN Stream :
             i < j /\ Stream[i][1] = Stream[j][1] => Stream[i][2] < Stream[j][2]

\* A loop sends each line before it scans the next: while it sends, its last line is in
\* hand, and once it has stopped it was told to.
OnlyTheLastIsMissing ==
  \A l \in Loops :
    /\ \A k : Sent(l, k) => k \in Scanned(l)
    /\ \A k \in Scanned(l) : Sent(l, k) \/ (k = pos[l] /\ pc[l] \in {"send", "done"})
    /\ pc[l] = "send" => pos[l] \in Scanned(l) /\ ~ Sent(l, pos[l])
    /\ pc[l] = "done" => cancelled[l]

HandsOn == ScansWhatIsWritten /\ InOrder /\ OnlyTheLastIsMissing

\* Appending to the second of two sequences appends to their concatenation.
LEMMA AppendLast ==
  ASSUME NEW S, NEW s \in Seq(S), NEW t \in Seq(S), NEW e \in S
  PROVE  s \o Append(t, e) = Append(s \o t, e)
<1>1. <<e>> \in Seq(S) /\ s \o t \in Seq(S)
      BY ConcatProperties
<1>2. QED
      BY <1>1, AppendIsConcat, ConcatAssociative

\* Taking the head of t to the end of s leaves their concatenation as it was.
LEMMA MoveHead ==
  ASSUME NEW S, NEW s \in Seq(S), NEW t \in Seq(S), t # <<>>
  PROVE  Append(s, Head(t)) \o Tail(t) = s \o t
<1>1. /\ Head(t) \in S /\ Tail(t) \in Seq(S)
      /\ t = <<Head(t)>> \o Tail(t)
      BY HeadTailProperties
<1>2. Append(s, Head(t)) = s \o <<Head(t)>>
      BY <1>1, AppendIsConcat
<1>3. <<Head(t)>> \in Seq(S)
      BY <1>1
<1>4. QED
      BY <1>1, <1>2, <1>3, ConcatAssociative

LEMMA StreamType == TypeOK => Stream \in Seq(Entry) /\ DOMAIN Stream = 1..Len(Stream)
BY ConcatProperties, LenProperties DEF TypeOK, Stream, Entry

LEMMA InitHandsOn == Init => HandsOn
<1> SUFFICES ASSUME Init PROVE HandsOn
    OBVIOUS
<1>1. Stream = <<>>
      BY SMT DEF Init, Stream
<1>2. DOMAIN Stream = {} /\ \A l, k : ~ Sent(l, k)
      BY <1>1, SMT DEF Sent, Range
<1>3. \A l \in Loops : Scanned(l) = {} /\ pc[l] = "unborn"
      BY SMT DEF Init, Scanned
<1>4. ScansWhatIsWritten
      BY SMT DEF Init, ScansWhatIsWritten, Loops, source
<1>5. QED
      BY <1>2, <1>3, <1>4, Zenon DEF HandsOn, InOrder, OnlyTheLastIsMissing

\* Steps that scan and send nothing: a loop may stop sending only to stop.
LEMMA NothingHandedOn ==
  ASSUME HandsOn, UNCHANGED <<file, pos, Stream>>,
         \A l \in Loops :
           /\ pc'[l] = "send" => pc[l] = "send"
           /\ pc[l] \in {"send", "done"} => pc'[l] \in {"send", "done"}
           /\ pc'[l] = "done" => cancelled'[l]
           /\ scanner'[l] = "choked" =>
                \/ scanner[l] = "choked"
                \/ pos[l] < Len(file[source(l)]) /\ NextLine(l) = "toolong"
  PROVE  HandsOn'
<1>1. ScansWhatIsWritten'
      BY Zenon DEF HandsOn, ScansWhatIsWritten, NextLine, source
<1>2. InOrder'
      BY Zenon DEF HandsOn, InOrder
<1>3. \A l \in Loops : Scanned(l)' = Scanned(l) /\ \A k : Sent(l, k)' <=> Sent(l, k)
      BY Zenon DEF Sent, Scanned
<1>4. OnlyTheLastIsMissing'
      BY <1>3, Zenon DEF HandsOn, OnlyTheLastIsMissing
<1>5. QED
      BY <1>1, <1>2, <1>4 DEF HandsOn

\* A line written behind what was scanned changes nothing of it.
LEMMA WriteHandsOn ==
  ASSUME IInv, HandsOn, NEW n \in Names, WriteLine(n)
  PROVE  HandsOn'
<1>1. PICK x \in Kinds : file' = [file EXCEPT ![n] = Append(file[n], x)]
      BY Zenon DEF WriteLine
<1>2. UNCHANGED <<pc, pos, scanner, cancelled, Stream>>
      BY Zenon DEF WriteLine, loopVars, Stream
<1>3. \A l \in Loops : source(l) \in Names
      BY DEF Loops, source
<1>4. \A m \in Names : /\ Len(file'[m]) >= Len(file[m])
                       /\ \A i \in 1..Len(file[m]) : file'[m][i] = file[m][i]
  <2> TAKE m \in Names
  <2>1. file[m] \in Seq(Kinds) /\ file \in [Names -> Seq(Kinds)]
        BY DEF IInv, TypeOK
  <2>2. CASE m = n
        BY <1>1, <2>1, <2>2, AppendProperties, SMT
  <2>3. CASE m # n
        BY <1>1, <2>1, <2>3, LenProperties, SMT
  <2>4. QED
        BY <2>2, <2>3
<1>5. \A l \in Loops : /\ pos[l] \in Nat /\ Len(file[source(l)]) \in Nat
                       /\ Len(file'[source(l)]) \in Nat
  <2>1. TypeOK'
        BY NextTypes DEF Next
  <2>2. QED
        BY <1>3, <2>1, LenProperties, SMT DEF IInv, TypeOK, source
<1>6. ScansWhatIsWritten'
  <2> SUFFICES ASSUME NEW l \in Loops
               PROVE  /\ pos[l] <= Len(file'[source(l)])
                      /\ scanner[l] = "choked" => /\ pos[l] < Len(file'[source(l)])
                                                  /\ file'[source(l)][pos[l] + 1] = "toolong"
      BY <1>2, Zenon DEF ScansWhatIsWritten, source
  <2>1. \A i, m, k \in Nat : /\ i <= m /\ m <= k => i <= k
                            /\ i < m /\ m <= k => i < k /\ i + 1 \in 1..m
      BY SMT
  <2>2. Len(file[source(l)]) <= Len(file'[source(l)])
      BY <1>3, <1>4, <1>5, SMT
  <2>3. pos[l] <= Len(file'[source(l)])
    <3>1. pos[l] <= Len(file[source(l)])
          BY Zenon DEF HandsOn, ScansWhatIsWritten
    <3>2. pos[l] \in Nat /\ Len(file[source(l)]) \in Nat /\ Len(file'[source(l)]) \in Nat
          BY <1>5, Zenon
    <3>3. QED
          BY <2>1, <2>2, <3>1, <3>2, SMT
  <2>4. ASSUME scanner[l] = "choked"
        PROVE  /\ pos[l] < Len(file'[source(l)])
               /\ file'[source(l)][pos[l] + 1] = "toolong"
    <3>1. pos[l] < Len(file[source(l)]) /\ file[source(l)][pos[l] + 1] = "toolong"
          BY <2>4, Zenon DEF HandsOn, ScansWhatIsWritten
    <3>2. pos[l] < Len(file'[source(l)]) /\ pos[l] + 1 \in 1..Len(file[source(l)])
          BY <1>5, <2>1, <2>2, <3>1, SMT
    <3>3. file'[source(l)][pos[l] + 1] = file[source(l)][pos[l] + 1]
          BY <1>3, <1>4, <3>2, Zenon
    <3>4. QED
          BY <3>1, <3>2, <3>3, Zenon
  <2>5. QED
      BY <2>3, <2>4, Zenon
<1>7. \A l \in Loops : Scanned(l)' = Scanned(l)
  <2> TAKE l \in Loops
  <2>1. \A k \in 1..pos[l] : file'[source(l)][k] = file[source(l)][k]
        BY <1>3, <1>4, <1>5, SMT DEF HandsOn, ScansWhatIsWritten
  <2>2. QED
        BY <1>2, <2>1, Zenon DEF Scanned, source
<1>8. InOrder' /\ OnlyTheLastIsMissing'
      BY <1>2, <1>7, Zenon DEF HandsOn, InOrder, OnlyTheLastIsMissing, Sent
<1>9. QED
      BY <1>6, <1>8 DEF HandsOn

\* A loop that scans has handed on everything up to there: what it takes next is
\* in its hand, or blank.
LEMMA ScanHandsOn ==
  ASSUME IInv, HandsOn, NEW l \in Loops, ScanLine(l) \/ ScanRest(l)
  PROVE  HandsOn'
<1> DEFINE n == pos[l] + 1
<1>1. /\ pc[l] = "scan"
      /\ pos' = [pos EXCEPT ![l] = n]
      /\ UNCHANGED <<file, cancelled, Stream>>
      BY Zenon DEF ScanLine, ScanRest, Stream
<1>2. /\ \A k \in Loops : k # l => pos'[k] = pos[k] /\ pc'[k] = pc[k] /\ scanner'[k] = scanner[k]
      /\ pos'[l] = n /\ pos[l] \in Nat /\ scanner'[l] # "choked"
      BY <1>1, SMT DEF ScanLine, ScanRest, HasLine, Goto, IInv, TypeOK
<1>3. n <= Len(file[source(l)])
  <2>1. source(l) \in Names
        BY DEF Loops, source
  <2>2. Len(file[source(l)]) \in Nat /\ pos[l] < Len(file[source(l)])
        BY <2>1, LenProperties
           DEF ScanLine, ScanRest, HasLine, HandsOn, ScansWhatIsWritten, IInv, TypeOK
  <2>3. QED
        BY <1>2, <2>2, SMT
<1>4. \/ pc'[l] = "check" /\ file[source(l)][n] = "blank"
      \/ pc'[l] = "send" /\ file[source(l)][n] # "blank"
  <2>1. CASE ScanLine(l)
        BY <2>1, SMT DEF ScanLine, NextLine, Goto, IInv, TypeOK
  <2>2. CASE ScanRest(l)
        BY <2>2, SMT DEF ScanRest, Goto, IInv, TypeOK, HandsOn, ScansWhatIsWritten
  <2>3. QED
        BY <2>1, <2>2
<1>5. ScansWhatIsWritten'
  <2>1. \A k \in Loops : k # l => /\ pos'[k] <= Len(file'[source(k)])
                                  /\ scanner'[k] = "choked" =>
                                       /\ pos'[k] < Len(file'[source(k)])
                                       /\ file'[source(k)][pos'[k] + 1] = "toolong"
        BY <1>1, <1>2, Zenon DEF HandsOn, ScansWhatIsWritten
  <2>2. pos'[l] <= Len(file'[source(l)]) /\ scanner'[l] # "choked"
        BY <1>1, <1>2, <1>3, Zenon
  <2>3. QED
        BY <2>1, <2>2, Zenon DEF ScansWhatIsWritten, source
<1>6. \A k \in Loops : k # l => Scanned(k)' = Scanned(k)
      BY <1>1, <1>2, Zenon DEF Scanned, source
<1>7. Scanned(l)' = IF file[source(l)][n] = "blank" THEN Scanned(l) ELSE Scanned(l) \cup {n}
  <2>1. 1..n = (1..pos[l]) \cup {n}
        BY <1>2, SMT
  <2>2. Scanned(l)' = {k \in 1..n : file[source(l)][k] # "blank"}
        BY <1>1, <1>2, Zenon DEF Scanned, source
  <2>3. QED
        BY <2>1, <2>2 DEF Scanned
<1>8. \A k \in Scanned(l) : Sent(l, k)
      BY <1>1, Zenon DEF HandsOn, OnlyTheLastIsMissing
<1>9. ~ Sent(l, n)
  <2>1. n \notin Scanned(l)
        BY <1>2, SMT DEF Scanned
  <2>2. QED
        BY <2>1 DEF HandsOn, OnlyTheLastIsMissing
<1>10. \A k \in Loops : \A i : Sent(k, i)' <=> Sent(k, i)
      BY <1>1, Zenon DEF Sent
<1>11. OnlyTheLastIsMissing'
  <2> SUFFICES ASSUME NEW k \in Loops
               PROVE  /\ \A i : Sent(k, i)' => i \in Scanned(k)'
                      /\ \A i \in Scanned(k)' : Sent(k, i)' \/ (i = pos'[k] /\ pc'[k] \in {"send", "done"})
                      /\ pc'[k] = "send" => pos'[k] \in Scanned(k)' /\ ~ Sent(k, pos[k])'
                      /\ pc'[k] = "done" => cancelled'[k]
      BY Zenon DEF OnlyTheLastIsMissing
  <2>1. CASE k # l
    <3>1. /\ pc'[k] = pc[k] /\ pos'[k] = pos[k] /\ cancelled'[k] = cancelled[k]
          /\ Scanned(k)' = Scanned(k)
          BY <1>1, <1>2, <1>6, <2>1, Zenon
    <3>2. Sent(k, pos[k])' <=> Sent(k, pos[k])
          BY <1>1, <3>1, Zenon DEF Sent
    <3>3. QED
          BY <1>10, <3>1, <3>2, Zenon DEF HandsOn, OnlyTheLastIsMissing
  <2>2. CASE k = l
    <3> HIDE DEF n
    <3>1. \A i : Sent(l, i) => i \in Scanned(l)
          BY Zenon DEF HandsOn, OnlyTheLastIsMissing
    <3>2. Scanned(l) \subseteq Scanned(l)'
          BY <1>7
    <3>3. \A i \in Scanned(l)' : i \in Scanned(l) \/ (i = n /\ pc'[l] = "send")
          BY <1>4, <1>7
    <3>4. pc'[l] = "send" => n \in Scanned(l)'
          BY <1>4, <1>7
    <3>5. pc'[l] # "done"
          BY <1>4
    <3>6. Sent(l, pos[l])' <=> Sent(l, n)
          BY <1>1, <1>2, Zenon DEF Sent
    <3>7. QED
          BY <1>2, <1>8, <1>9, <1>10, <2>2, <3>1, <3>2, <3>3, <3>4, <3>5, <3>6, Zenon
  <2>3. QED
        BY <2>1, <2>2
<1>12. InOrder'
      BY <1>1, Zenon DEF HandsOn, InOrder
<1>13. QED
      BY <1>5, <1>11, <1>12 DEF HandsOn

\* What a loop sends is the line in its hand, which comes after all it has sent.
LEMMA SendHandsOn ==
  ASSUME IInv, HandsOn, NEW l \in Loops, Send(l)
  PROVE  HandsOn'
<1> DEFINE e == <<l, pos[l]>>
           n == Len(Stream)
<1>1. /\ pc[l] = "send" /\ pc' = [pc EXCEPT ![l] = "check"]
      /\ output' = Append(output, e)
      /\ UNCHANGED <<file, pos, scanner, cancelled, received>>
      BY Zenon DEF Send, Goto
<1>2. /\ Stream \in Seq(Entry) /\ DOMAIN Stream = 1..n /\ n \in Nat /\ e \in Entry
      /\ received \in Seq(Entry) /\ output \in Seq(Entry)
  <2>1. e \in Entry
        BY <1>1, SMT DEF Entry, IInv, TypeOK, ScansItsFile
  <2>2. QED
        BY <2>1, StreamType, LenProperties DEF IInv, TypeOK, Entry
<1>3. Stream' = Append(Stream, e)
      BY <1>1, <1>2, AppendLast DEF Stream
<1>4. /\ DOMAIN Stream' = 1..(n + 1)
      /\ \A i \in 1..n : Stream'[i] = Stream[i]
      /\ Stream'[n + 1] = e
  <2> HIDE DEF e, n
  <2>1. Len(Append(Stream, e)) = Len(Stream) + 1
        BY <1>2, AppendProperties
  <2>2. QED
        BY <1>2, <1>3, <2>1, AppendProperties, LenProperties DEF n
<1>5. \A k \in Loops : \A i : Sent(k, i)' <=> Sent(k, i) \/ (k = l /\ i = pos[l])
  <2>1. 1..(n + 1) = (1..n) \cup {n + 1}
        BY <1>2, SMT
  <2>2. Range(Stream') = Range(Stream) \cup {e}
    <3> HIDE DEF e, n
    <3>1. QED
          BY <1>2, <1>4, <2>1 DEF Range
  <2>3. QED
        BY <2>2 DEF Sent
<1>6. \A i \in 1..n : Stream[i][1] = l => Stream[i][2] < pos[l]
  <2> SUFFICES ASSUME NEW i \in 1..n, Stream[i][1] = l PROVE Stream[i][2] < pos[l]
      OBVIOUS
  <2>1. Stream[i] \in Entry
        BY <1>2, ElementOfSeq, Zenon
  <2>2. Stream[i] = <<l, Stream[i][2]>> /\ Stream[i][2] \in Nat
        BY <2>1, SMT DEF Entry
  <2>3. Sent(l, Stream[i][2])
    <3>1. Stream[i] \in Range(Stream)
          BY <1>2 DEF Range
    <3>2. QED
          BY <2>2, <3>1, Zenon DEF Sent
  <2>4. Stream[i][2] \in Scanned(l) /\ Stream[i][2] # pos[l]
        BY <1>1, <2>3, Zenon DEF HandsOn, OnlyTheLastIsMissing
  <2>5. Stream[i][2] \in 1..pos[l] /\ pos[l] \in Nat
        BY <2>4 DEF Scanned, IInv, TypeOK
  <2>6. QED
        BY <2>4, <2>5, SMT
<1>7. InOrder'
  <2> SUFFICES ASSUME NEW i \in DOMAIN Stream', NEW j \in DOMAIN Stream', i < j,
                      Stream'[i][1] = Stream'[j][1]
               PROVE  Stream'[i][2] < Stream'[j][2]
      BY Zenon DEF InOrder
  <2>1. i \in 1..n /\ (j \in 1..n \/ j = n + 1)
        BY <1>2, <1>4, SMT
  <2>2. CASE j \in 1..n
        BY <1>2, <1>4, <2>1, <2>2, Zenon DEF HandsOn, InOrder
  <2>3. CASE j = n + 1
    <3>1. Stream'[j][1] = l /\ Stream'[j][2] = pos[l]
          BY <1>4, <2>3
    <3>2. QED
          BY <1>4, <1>6, <2>1, <3>1, Zenon
  <2>4. QED
        BY <2>1, <2>2, <2>3
<1>8. \A k \in Loops : Scanned(k)' = Scanned(k)
      BY <1>1, Zenon DEF Scanned
<1>9. \A k \in Loops : IF k = l THEN pc'[k] = "check" ELSE pc'[k] = pc[k]
      BY <1>1, SMT DEF IInv, TypeOK
<1>10. OnlyTheLastIsMissing'
  <2> SUFFICES ASSUME NEW k \in Loops
               PROVE  /\ \A i : Sent(k, i)' => i \in Scanned(k)
                      /\ \A i \in Scanned(k) : Sent(k, i)' \/ (i = pos[k] /\ pc'[k] \in {"send", "done"})
                      /\ pc'[k] = "send" => pos[k] \in Scanned(k) /\ ~ Sent(k, pos[k])'
                      /\ pc'[k] = "done" => cancelled[k]
      BY <1>1, <1>8, Zenon DEF OnlyTheLastIsMissing
  <2>1. CASE k # l
    <3>1. pc'[k] = pc[k] /\ \A i : Sent(k, i)' <=> Sent(k, i)
          BY <1>5, <1>9, <2>1, Zenon
    <3>2. Sent(k, pos[k])' <=> Sent(k, pos[k])
          BY <1>1, <3>1, Zenon DEF Sent
    <3>3. QED
          BY <3>1, <3>2, Zenon DEF HandsOn, OnlyTheLastIsMissing
  <2>2. CASE k = l
    <3>1. pc'[l] = "check"
          BY <1>9, Zenon
    <3>2. pos[l] \in Scanned(l)
          BY <1>1, Zenon DEF HandsOn, OnlyTheLastIsMissing
    <3>3. QED
          BY <1>1, <1>5, <2>2, <3>1, <3>2, Zenon DEF HandsOn, OnlyTheLastIsMissing
  <2>3. QED
        BY <2>1, <2>2
<1>11. ScansWhatIsWritten'
      BY <1>1, Zenon DEF HandsOn, ScansWhatIsWritten, source
<1>12. QED
      BY <1>7, <1>10, <1>11 DEF HandsOn

LEMMA NextHandsOn == IInv /\ HandsOn /\ [Next]_vars => HandsOn'
<1> SUFFICES ASSUME IInv, HandsOn, [Next]_vars PROVE HandsOn'
    OBVIOUS
<1>1. \A l \in Loops : pc[l] = "done" => cancelled[l]
      BY Zenon DEF HandsOn, OnlyTheLastIsMissing
<1>2. ASSUME NEW l \in Loops, AddSource(l) PROVE HandsOn'
  <2>1. UNCHANGED <<file, pos, scanner, cancelled, Stream>> /\ pc[l] = "unborn"
        BY <1>2, Zenon DEF AddSource, Stream
  <2>2. \A k \in Loops : pc'[k] = IF k = l THEN "check" ELSE pc[k]
        BY <1>2, Zenon DEF AddSource, IInv, TypeOK
  <2>3. QED
        BY <1>1, <2>1, <2>2, NothingHandedOn
<1>3. ASSUME NEW l \in Loops, RemoveSource(l) PROVE HandsOn'
  <2>1. UNCHANGED <<file, pos, pc, scanner, Stream>>
        BY <1>3, Zenon DEF RemoveSource, Stream
  <2>2. \A k \in Loops : cancelled[k] => cancelled'[k]
        BY <1>3, Zenon DEF RemoveSource, IInv, TypeOK
  <2>3. QED
        BY <1>1, <2>1, <2>2, NothingHandedOn
<1>4. ASSUME NEW l \in Loops,
             Check(l) \/ ScanChokes(l) \/ ScanNothing(l) \/ Pause(l) \/ AbandonSend(l)
      PROVE  HandsOn'
  <2>1. UNCHANGED <<file, pos, cancelled, Stream>>
        BY <1>4, Zenon DEF Check, ScanChokes, ScanNothing, Pause, AbandonSend, Stream
  <2>2. /\ \A k \in Loops : k # l => pc'[k] = pc[k] /\ scanner'[k] = scanner[k]
        /\ pc'[l] # "send" /\ pc[l] # "done" /\ (pc[l] = "send" => pc'[l] = "done")
        /\ pc'[l] = "done" => cancelled[l]
        BY <1>4, SMT DEF Check, ScanChokes, ScanNothing, Pause, AbandonSend, Goto, IInv, TypeOK
  <2>3. scanner'[l] = "choked" => \/ scanner[l] = "choked"
                                  \/ pos[l] < Len(file[source(l)]) /\ NextLine(l) = "toolong"
        BY <1>4, SMT DEF Check, ScanChokes, ScanNothing, Pause, AbandonSend, HasLine, IInv, TypeOK
  <2>4. QED
        BY <1>1, <2>1, <2>2, <2>3, NothingHandedOn
<1>5. CASE CloseCancels
  <2>1. UNCHANGED <<file, pos, pc, scanner, Stream>>
        BY <1>5, Zenon DEF CloseCancels, Stream
  <2>2. \A k \in Loops : cancelled[k] => cancelled'[k]
        BY <1>5, Zenon DEF CloseCancels
  <2>3. QED
        BY <1>1, <2>1, <2>2, NothingHandedOn
<1>6. CASE CloseOutput \/ UNCHANGED vars
  <2>1. UNCHANGED <<file, pos, pc, scanner, cancelled, Stream>>
        BY <1>6, Zenon DEF CloseOutput, vars, loopVars, Stream
  <2>2. QED
        BY <1>1, <2>1, NothingHandedOn
<1>7. CASE Receive
  <2>1. UNCHANGED <<file, pos, pc, scanner, cancelled>>
        BY <1>7, Zenon DEF Receive, loopVars
  <2>2. Stream' = Stream
    <3>1. received \in Seq(Entry) /\ output \in Seq(Entry) /\ output # <<>>
          BY <1>7 DEF Receive, IInv, TypeOK, Entry
    <3>2. QED
          BY <1>7, <3>1, MoveHead DEF Receive, Stream
  <2>3. QED
        BY <1>1, <2>1, <2>2, NothingHandedOn
<1>8. QED
      BY <1>2, <1>3, <1>4, <1>5, <1>6, <1>7, WriteHandsOn, ScanHandsOn, SendHandsOn
         DEF Next, ReadLoop

LEMMA HandsOnImpliesDeliversInOrder == IInv /\ HandsOn => DeliversInOrder
<1> SUFFICES ASSUME IInv, HandsOn, NEW l \in Loops
             PROVE  \/ Delivered(l) = Scanned(l)
                    \/ /\ Delivered(l) = Scanned(l) \ {pos[l]}
                       /\ pc[l] = "send" \/ (pc[l] = "done" /\ cancelled[l])
    BY DEF DeliversInOrder, HandsOn, InOrder
<1>1. Range(Stream) \subseteq Entry
      BY StreamType, ElementOfSeq DEF IInv, Range
<1>2. \A k : k \in Delivered(l) <=> Sent(l, k)
  <2>1. \A e \in Entry : e = <<e[1], e[2]>>
        BY DEF Entry
  <2>2. ASSUME NEW k PROVE k \in Delivered(l) => Sent(l, k)
        BY <1>1, <2>1 DEF Delivered, Sent
  <2>3. ASSUME NEW k PROVE Sent(l, k) => k \in Delivered(l)
    <3>1. <<l, k>>[1] = l /\ <<l, k>>[2] = k
          OBVIOUS
    <3>2. QED
          BY <3>1, Zenon DEF Delivered, Sent
  <2>4. QED
        BY <2>2, <2>3
<1>3. CASE Sent(l, pos[l]) \/ pc[l] \notin {"send", "done"} \/ pos[l] \notin Scanned(l)
      BY <1>2, <1>3 DEF HandsOn, OnlyTheLastIsMissing
<1>4. CASE ~ Sent(l, pos[l]) /\ pc[l] \in {"send", "done"}
      BY <1>2, <1>4 DEF HandsOn, OnlyTheLastIsMissing
<1>5. QED
      BY <1>3, <1>4

\* collector.go:82-134: every line a loop scanned reaches the channel once and in the
\* file's order, but for the one it holds when it is told to stop.
THEOREM DeliversInOrderHolds == Spec => []DeliversInOrder
<1>1. IInv /\ HandsOn /\ [Next]_vars => HandsOn'
      BY NextHandsOn
<1>2. Spec => []HandsOn
      BY <1>1, Invariance, InitHandsOn, PTL DEF Spec
<1>3. QED
      BY <1>2, Invariance, HandsOnImpliesDeliversInOrder, PTL

-----------------------------------------------------------------------------
(* The refinement. *)

USE DEF Feed!FeedInit, Feed!Send, Feed!Receive, Feed!CloseFeed, Feed!feedVars

LEMMA InitRefines == Init => Feed!FeedInit
BY SMT DEF Init

\* A send is the feed's, Close's last step closes it, the consumer receives from
\* it; every other step is a stutter.
LEMMA StepRefines == IInv /\ [Next]_vars => [Feed!FeedNext]_(Feed!feedVars)
<1> SUFFICES ASSUME IInv, [Next]_vars PROVE [Feed!FeedNext]_(Feed!feedVars)
    OBVIOUS
<1>1. ASSUME NEW l \in Loops, Send(l) PROVE Feed!FeedNext
  <2>1. <<l, pos[l]>> \in Entry
        BY <1>1, SMT DEF Send, Entry, IInv, TypeOK, ScansItsFile
  <2>2. phase # "closed"
        BY <1>1, SMT DEF Send, IInv, NoSendAfterClose, Alive
  <2>3. Feed!Send(<<l, pos[l]>>)
        BY <1>1, <2>2, SMT DEF Send
  <2>4. QED
        BY <2>1, <2>3 DEF Feed!FeedNext, Entry
<1>2. CASE Receive
      BY <1>2 DEF Receive, Feed!FeedNext
<1>3. CASE CloseOutput
      BY <1>3, SMT DEF CloseOutput, Feed!FeedNext
<1>4. CASE CloseCancels
      BY <1>4, SMT DEF CloseCancels
<1>5. ASSUME NEW l \in Loops, ReadLoop(l), ~Send(l) PROVE UNCHANGED Feed!feedVars
      BY <1>5, SMT DEF ReadLoop, Check, ScanLine, ScanChokes, ScanRest, ScanNothing, Pause,
                       AbandonSend
<1>6. ASSUME NEW l \in Loops, AddSource(l) \/ RemoveSource(l) PROVE UNCHANGED Feed!feedVars
      BY <1>6, SMT DEF AddSource, RemoveSource
<1>7. ASSUME NEW n \in Names, WriteLine(n) PROVE UNCHANGED Feed!feedVars
      BY <1>7, SMT DEF WriteLine
<1>8. CASE UNCHANGED vars
      BY <1>8, SMT DEF vars
<1>9. QED
      BY <1>1, <1>2, <1>3, <1>4, <1>5, <1>6, <1>7, <1>8 DEF Next

\* The collector implements the feed its consumer relies on: bounded, closed once
\* and never sent to after that.
THEOREM Refinement == Spec => ImplementsFeed
BY InitRefines, StepRefines, Invariance, PTL DEF Spec, ImplementsFeed, Feed!FeedSpec
=============================================================================
