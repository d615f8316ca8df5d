------------------------------ MODULE Detector -------------------------------
(***************************************************************************)
(* detector.Detector (src/internal/detector/detector.go): Process, called  *)
(* under one mutex for every entry of every source, with the time the      *)
(* entry carries, which its sender chose; and SetThresholds, which takes   *)
(* no lock, so that an entry may be judged by some old and some new        *)
(* thresholds.                                                             *)
(***************************************************************************)
EXTENDS Integers, FiniteSetsExt, SequencesExt

CONSTANTS Sources,
          Patterns,        \* normalised error messages
          Times,           \* the timestamps entries carry, in ticks
          MaxLogs,         \* bound: entries processed of each source
          ErrorRates,      \* error thresholds, in percent
          Bursts,          \* burst thresholds
          Multipliers,     \* rate thresholds
          MinSpikeLogs,    \* 10
          RingSize,        \* 100 recent messages
          MinRateLogs,     \* 50
          MinSamples,      \* 10 samples for a baseline
          Second, Minute, Window,  \* 1 s, 1 min and 5 min, in ticks
          SpikeCooldown, BurstCooldown, RateCooldown, NewErrorCooldown

NoPattern == "none"  \* of an entry that is not an error

ASSUME DetectorAssumption ==
          /\ Times \subseteq Int
          /\ NoPattern \notin Patterns
          /\ MaxLogs \in Nat
          /\ ErrorRates \subseteq Nat /\ Bursts \subseteq Nat /\ Multipliers \subseteq Nat
          /\ {MinSpikeLogs, RingSize, MinRateLogs, MinSamples} \subseteq Nat \ {0}
          /\ {Second, Minute, Window} \subseteq Nat \ {0}
          /\ {SpikeCooldown, BurstCooldown, RateCooldown, NewErrorCooldown} \subseteq Nat

VARIABLES errorThreshold, burstThreshold, rateThreshold,
          total,     \* TotalLogs of each source: RecentMessages holds the last RingSize
          errors,    \* ErrorLogs
          patterns,  \* ErrorPatterns
          window,    \* RateWindow, a sequence of samples
          last,      \* LastAnomalyTime: a set of at most one time per key
          raised,    \* history: the anomalies raised, in order
          arrivals   \* history: how many entries of each kind were processed

thresholds == <<errorThreshold, burstThreshold, rateThreshold>>
stateVars == <<total, errors, patterns, window, last>>
vars == <<thresholds, stateVars, raised, arrivals>>

\* The keys of LastAnomalyTime: a new error has one per pattern.
Types == {"error_spike", "log_burst", "new_error", "rate_change"}
Keys == {<<t, NoPattern>> : t \in Types \ {"new_error"}} \cup ({"new_error"} \X Patterns)

Cooldown(type) == CASE type = "error_spike" -> SpikeCooldown
                    [] type = "log_burst"   -> BurstCooldown
                    [] type = "new_error"   -> NewErrorCooldown
                    [] type = "rate_change" -> RateCooldown

Sample  == [ts : Times, count : 1..MaxLogs]
Entry   == [source : Sources, ts : Times, pattern : Patterns \cup {NoPattern}]
Arrived(P(_)) == MapThenSumSet(LAMBDA e : arrivals[e], {e \in Entry : P(e)})
Anomaly == [source : Sources, key : Keys, ts : Times]
IsError(e) == e.pattern # NoPattern

TypeOK == /\ errorThreshold \in ErrorRates
          /\ burstThreshold \in Bursts
          /\ rateThreshold \in Multipliers
          /\ total \in [Sources -> 0..MaxLogs]
          /\ errors \in [Sources -> 0..MaxLogs]
          /\ patterns \in [Sources -> [Patterns -> 0..MaxLogs]]
          /\ window \in [Sources -> Seq(Sample)]
          /\ last \in [Sources -> [Keys -> SUBSET Times]]
          /\ raised \in Seq(Anomaly)
          /\ arrivals \in [Entry -> 0..MaxLogs]

Init == /\ errorThreshold \in ErrorRates
        /\ burstThreshold \in Bursts
        /\ rateThreshold \in Multipliers
        /\ total = [s \in Sources |-> 0]
        /\ errors = [s \in Sources |-> 0]
        /\ patterns = [s \in Sources |-> [p \in Patterns |-> 0]]
        /\ window = [s \in Sources |-> <<>>]
        /\ last = [s \in Sources |-> [k \in Keys |-> {}]]
        /\ raised = <<>>
        /\ arrivals = [e \in Entry |-> 0]

-----------------------------------------------------------------------------
(* The rate window. *)

\* The samples before the first one younger than the window go; if none is that
\* young, none goes.
Trim(w, ts) == LET young == SelectInSeq(w, LAMBDA x : x.ts > ts - Window)
               IN  IF young = 0 THEN w ELSE SubSeq(w, young, Len(w))

\* Fault: only an entry of the same instant joins the last sample.
AddSampleAnyOrder(w, ts) ==
  LET kept == Trim(w, ts)
  IN  IF kept # <<>> /\ Last(kept).ts = ts
        THEN [kept EXCEPT ![Len(kept)].count = @ + 1]
        ELSE Append(kept, [ts |-> ts, count |-> 1])

\* Fault: a new sample starts at nothing.
AddSampleUncounted(w, ts) ==
  LET kept == Trim(w, ts)
  IN  IF kept # <<>> /\ ts - Last(kept).ts < Second
        THEN [kept EXCEPT ![Len(kept)].count = @ + 1]
        ELSE Append(kept, [ts |-> ts, count |-> 0])

\* An entry less than a second after the last sample joins it: also one that is
\* older, however much.
AddSample(w, ts) ==
  LET kept == Trim(w, ts)
  IN  IF kept # <<>> /\ ts - Last(kept).ts < Second
        THEN [kept EXCEPT ![Len(kept)].count = @ + 1]
        ELSE Append(kept, [ts |-> ts, count |-> 1])

Logs(w) == FoldLeft(LAMBDA n, x : n + x.count, 0, w)
Span(w) == Last(w).ts - Head(w).ts

\* getRatePerMinute over getBaselineRate, the rate of the older half of the window,
\* is at the threshold, and that baseline at least one a minute.
RateIsUp(w) == LET older == SubSeq(w, 1, Len(w) \div 2)
               IN  /\ Len(w) >= MinSamples /\ Len(older) >= 2
                   /\ Span(older) > 0
                   /\ Logs(older) * Minute >= Span(older)
                   /\ Logs(w) * Span(older) >= rateThreshold * Logs(older) * Span(w)

-----------------------------------------------------------------------------
(* Process. *)

\* What the four detectors see in the source's state once it counted the entry:
\* the types that fire but for their cooldown.  The age test of detectLogBurst is
\* left out: LastLogTime is the time of this very entry.
Firing(e) ==
  LET n == total'[e.source]
      recent == IF n < RingSize THEN n ELSE RingSize
  IN  {t \in Types :
         CASE t = "error_spike" -> /\ n >= MinSpikeLogs
                                   /\ errors'[e.source] * 100 >= errorThreshold * n
           [] t = "log_burst"   -> recent >= burstThreshold \div 2
           [] t = "new_error"   -> IsError(e) /\ patterns'[e.source][e.pattern] = 1
           [] t = "rate_change" -> n >= MinRateLogs /\ RateIsUp(window'[e.source])}

KeyOf(type, e) == <<type, IF type = "new_error" THEN e.pattern ELSE NoPattern>>

\* Fault: the cooldown is the distance in time, whichever came first.
CooledEitherWay(type, e) ==
  \A t \in last[e.source][KeyOf(type, e)] :
     \/ e.ts - t >= Cooldown(type)
     \/ t - e.ts >= Cooldown(type)

Cooled(type, e) == \A t \in last[e.source][KeyOf(type, e)] : e.ts - t >= Cooldown(type)

Raised(e) == {t \in Firing(e) : Cooled(t, e)}

Found(t, e) == IF t \in Raised(e)
                 THEN <<[source |-> e.source, key |-> KeyOf(t, e), ts |-> e.ts]>>
                 ELSE <<>>

\* detectAnomalies asks for the types in this order.
Anomalies(e) == Found("error_spike", e) \o Found("log_burst", e)
                  \o Found("new_error", e) \o Found("rate_change", e)

\* Fault: a pattern is forgotten when its anomaly has been raised.
CountErrorAndForget(e) ==
  IF IsError(e)
    THEN /\ errors' = [errors EXCEPT ![e.source] = @ + 1]
         /\ patterns' = [patterns EXCEPT ![e.source][e.pattern] = 1]
    ELSE UNCHANGED <<errors, patterns>>

CountError(e) ==
  IF IsError(e)
    THEN /\ errors' = [errors EXCEPT ![e.source] = @ + 1]
         /\ patterns' = [patterns EXCEPT ![e.source][e.pattern] = @ + 1]
    ELSE UNCHANGED <<errors, patterns>>

Process(e) ==
  /\ total[e.source] < MaxLogs
  /\ total' = [total EXCEPT ![e.source] = @ + 1]
  /\ CountError(e)
  /\ window' = [window EXCEPT ![e.source] = AddSample(@, e.ts)]
  /\ last' = [last EXCEPT ![e.source] =
                [k \in Keys |-> IF \E t \in Raised(e) : KeyOf(t, e) = k THEN {e.ts} ELSE @[k]]]
  /\ raised' = raised \o Anomalies(e)
  /\ arrivals' = [arrivals EXCEPT ![e] = @ + 1]
  /\ UNCHANGED thresholds

\* One of SetThresholds' three unlocked writes becomes visible.
SetThresholds ==
  /\ \/ errorThreshold' \in ErrorRates /\ UNCHANGED <<burstThreshold, rateThreshold>>
     \/ burstThreshold' \in Bursts /\ UNCHANGED <<errorThreshold, rateThreshold>>
     \/ rateThreshold' \in Multipliers /\ UNCHANGED <<errorThreshold, burstThreshold>>
  /\ UNCHANGED <<stateVars, raised, arrivals>>

Next == (\E e \in Entry : Process(e)) \/ SetThresholds

Spec == Init /\ [][Next]_vars

-----------------------------------------------------------------------------
\* Whatever times the senders claim, in whatever order, two anomalies of one source and
\* key are raised in the order of their times and at least the cooldown apart
\* (detector.go:236-239).  PROJECT_SUMMARY.md:121 says more: that anomalies of one type
\* are raised once in a window, whatever their source and pattern.
RaisedApart ==
  \A i, j \in DOMAIN raised :
     i < j /\ raised[i].source = raised[j].source /\ raised[i].key = raised[j].key
       => raised[j].ts - raised[i].ts >= Cooldown(raised[i].key[1])

\* Pattern p of source s has been met, and the anomalies that report it.
Seen(s, p) == \E e \in Entry : e.source = s /\ e.pattern = p /\ arrivals[e] > 0
Reports(s, p) == {i \in DOMAIN raised : raised[i].source = s /\ raised[i].key = <<"new_error", p>>}

\* A new error pattern is reported exactly once per source: by its first entry,
\* and never again, not even after the five minutes of its cooldown.
NewErrorOnce ==
  \A s \in Sources, p \in Patterns :
    /\ Seen(s, p) <=> Reports(s, p) # {}
    /\ \A i, j \in Reports(s, p) : i = j

\* The rate window is strictly ordered by time, a second or more between samples,
\* however the entries' times jump.  And either all of it lies within the window
\* before its last sample, or nothing but that sample does: the trim leaves no mix
\* of old and young samples behind.
RateWindowOrdered ==
  \A s \in Sources :
    LET w     == window[s]
        young == {i \in DOMAIN w : w[i].ts > Last(w).ts - Window}
    IN  /\ \A i \in 1..(Len(w) - 1) : w[i + 1].ts - w[i].ts >= Second
        /\ young \in {DOMAIN w, {Len(w)}}

\* README.md:215: a log burst is "when many logs arrive in short time window": at
\* least half the smallest burst threshold of them within the five minutes that
\* detectLogBurst tests for.
BurstIsRecent ==
  \A i \in DOMAIN raised : raised[i].key[1] = "log_burst" =>
     \E n \in Bursts :
        Arrived(LAMBDA e : e.source = raised[i].source /\ e.ts > raised[i].ts - Window) >= n \div 2
=============================================================================
