---------------------------- MODULE DetectorProofs ----------------------------
(***************************************************************************)
(* For any entries, in any order of their times, and any thresholds:       *)
(* anomalies of one key are a cooldown apart, rate windows are ordered and *)
(* each error pattern is reported once.                                    *)
(***************************************************************************)
EXTENDS Detector, SequenceTheorems, WellFoundedInduction, TLAPS

\* What an anomaly reports of an entry.
Report(t, e) == [source |-> e.source, key |-> KeyOf(t, e), ts |-> e.ts]

LastTyped == last \in [Sources -> [Keys -> SUBSET Times]]

\* The time kept for the key of an anomaly is that of the last of its kind.
LastIsLatest ==
  \A i \in DOMAIN raised :
     LET times == last[raised[i].source][raised[i].key]
     IN  times # {} /\ \A t \in times : t >= raised[i].ts

IInv == /\ raised \in Seq(Anomaly)
        /\ LastTyped
        /\ LastIsLatest
        /\ RaisedApart

-----------------------------------------------------------------------------
(* The anomalies of one entry. *)

\* Anomalies found of an entry, of the types T: one for each that is raised.
FoundOf(s, T, e) ==
  /\ s \in Seq(Anomaly)
  /\ \A t \in T : t \in Raised(e) => \E i \in DOMAIN s : s[i] = Report(t, e)
  /\ \A i \in DOMAIN s : \E t \in T : t \in Raised(e) /\ s[i] = Report(t, e)
  /\ \A i, j \in DOMAIN s : s[i].key = s[j].key => i = j

\* An anomaly that is raised has a key that LastAnomalyTime may hold.
LEMMA RaisedKey ==
  ASSUME NEW e \in Entry, NEW t \in Raised(e)
  PROVE  /\ t \in Types
         /\ KeyOf(t, e) \in Keys
         /\ Report(t, e) \in Anomaly
         /\ Report(t, e).source = e.source
         /\ Report(t, e).key = KeyOf(t, e)
         /\ Report(t, e).ts = e.ts
         /\ KeyOf(t, e)[1] = t
<1>1. t \in Types /\ t \in Firing(e)
      BY DEF Raised, Firing
<1>2. t = "new_error" => IsError(e)
      BY <1>1 DEF Firing
<1>3. e.source \in Sources /\ e.ts \in Times /\ e.pattern \in Patterns \cup {NoPattern}
      BY DEF Entry
<1>4. KeyOf(t, e) \in Keys /\ KeyOf(t, e)[1] = t
      BY <1>1, <1>2, <1>3 DEF Keys, KeyOf, IsError
<1>5. QED
      BY <1>1, <1>3, <1>4 DEF Report, Anomaly

\* Asking for one more type adds its anomaly or nothing.
LEMMA AddFound ==
  ASSUME NEW e \in Entry, NEW s, NEW T, FoundOf(s, T, e), NEW t, t \notin T
  PROVE  FoundOf(s \o Found(t, e), T \cup {t}, e)
<1>1. CASE t \notin Raised(e)
  <2>1. Found(t, e) = <<>>
        BY <1>1 DEF Found
  <2>2. s \o Found(t, e) = s
        BY <2>1, SMT DEF FoundOf
  <2>3. QED
        BY <1>1, <2>2, Zenon DEF FoundOf
<1>2. CASE t \in Raised(e)
  <2> DEFINE r == Report(t, e)
             f == Append(s, r)
  <2>1. r \in Anomaly /\ r.key[1] = t
        BY <1>2, RaisedKey
  <2>2. Found(t, e) = <<r>>
        BY <1>2 DEF Found, Report
  <2>3. s \in Seq(Anomaly)
        BY DEF FoundOf
  <2> HIDE DEF r
  <2>4. s \o <<r>> = f
        BY <2>1, <2>3, SMT
  <2>5. /\ f \in Seq(Anomaly) /\ Len(f) = Len(s) + 1
        /\ DOMAIN f = 1..Len(s) + 1 /\ DOMAIN s = 1..Len(s)
        /\ f[Len(s) + 1] = r
        /\ \A i \in DOMAIN s : f[i] = s[i]
        BY <2>1, <2>3, SMT
  <2>6. \A i \in DOMAIN f : i \in DOMAIN s \/ i = Len(s) + 1
        BY <2>3, <2>5, SMT
  <2>7. \A i \in DOMAIN s : s[i].key # r.key
    <3>1. TAKE i \in DOMAIN s
    <3>2. PICK u \in T : u \in Raised(e) /\ s[i] = Report(u, e)
          BY DEF FoundOf
    <3>3. s[i].key[1] = u
          BY <3>2, RaisedKey
    <3>4. QED
          BY <2>1, <3>3
  <2>8. \A i \in DOMAIN f : \E u \in T \cup {t} : u \in Raised(e) /\ f[i] = Report(u, e)
    <3>1. TAKE i \in DOMAIN f
    <3>2. CASE i \in DOMAIN s
          BY <2>5, <3>2 DEF FoundOf
    <3>3. CASE i = Len(s) + 1
          BY <1>2, <2>5, <3>3 DEF r
    <3>4. QED
          BY <2>6, <3>2, <3>3
  <2>9. \A i, j \in DOMAIN f : f[i].key = f[j].key => i = j
    <3> HIDE DEF f
    <3>1. QED
          BY <2>5, <2>6, <2>7, Zenon DEF FoundOf
  <2>10. \A u \in T \cup {t} : u \in Raised(e) => \E i \in DOMAIN f : f[i] = Report(u, e)
    <3>1. SUFFICES ASSUME NEW u \in T \cup {t}, u \in Raised(e)
                   PROVE  \E i \in DOMAIN f : f[i] = Report(u, e)
          OBVIOUS
    <3>2. CASE u \in T
      <4>1. PICK i \in DOMAIN s : s[i] = Report(u, e)
            BY <3>1, <3>2 DEF FoundOf
      <4>2. i \in DOMAIN f /\ f[i] = s[i]
            BY <2>3, <2>5, <4>1, SMT
      <4>3. QED
            BY <4>1, <4>2
    <3>3. CASE u = t
      <4>1. Len(s) + 1 \in DOMAIN f
            BY <2>3, <2>5, SMT
      <4>2. QED
            BY <2>5, <3>3, <4>1 DEF r
    <3>4. QED
          BY <3>2, <3>3
  <2> HIDE DEF f
  <2>11. FoundOf(f, T \cup {t}, e)
        BY <2>5, <2>8, <2>9, <2>10, Zenon DEF FoundOf
  <2>12. QED
        BY <2>2, <2>4, <2>11, Zenon
<1>3. QED
      BY <1>1, <1>2

LEMMA AnomaliesFound ==
  ASSUME NEW e \in Entry
  PROVE  FoundOf(Anomalies(e), Types, e)
<1>1. FoundOf(<<>>, {}, e)
      BY DEF FoundOf
<1>2. FoundOf(<<>> \o Found("error_spike", e), {"error_spike"}, e)
      BY <1>1, AddFound, {} \cup {"error_spike"} = {"error_spike"}
<1>3. Found("error_spike", e) \in Seq(Anomaly)
      BY RaisedKey DEF Found, Report
<1>4. FoundOf(Found("error_spike", e), {"error_spike"}, e)
      BY <1>2, <1>3, <<>> \o Found("error_spike", e) = Found("error_spike", e)
<1>5. FoundOf(Found("error_spike", e) \o Found("log_burst", e), {"error_spike"} \cup {"log_burst"}, e)
      BY <1>4, AddFound, "log_burst" \notin {"error_spike"}
<1>6. FoundOf(Found("error_spike", e) \o Found("log_burst", e) \o Found("new_error", e),
              ({"error_spike"} \cup {"log_burst"}) \cup {"new_error"}, e)
      BY <1>5, AddFound, "new_error" \notin {"error_spike"} \cup {"log_burst"}
<1>7. FoundOf(Anomalies(e),
              (({"error_spike"} \cup {"log_burst"}) \cup {"new_error"}) \cup {"rate_change"}, e)
      BY <1>6, AddFound, "rate_change" \notin ({"error_spike"} \cup {"log_burst"}) \cup {"new_error"}
      DEF Anomalies
<1>8. Types = (({"error_spike"} \cup {"log_burst"}) \cup {"new_error"}) \cup {"rate_change"}
      BY DEF Types
<1>9. QED
      BY <1>7, <1>8, Zenon

-----------------------------------------------------------------------------
(* RaisedApart: the last anomaly of a key is the one in LastAnomalyTime. *)

LEMMA InitHolds == Init => IInv
<1>1. SUFFICES ASSUME Init PROVE IInv
      OBVIOUS
<1>2. raised = <<>> /\ raised \in Seq(Anomaly) /\ DOMAIN raised = {}
      BY <1>1 DEF Init
<1>3. LastTyped
      BY <1>1 DEF Init, LastTyped
<1>4. QED
      BY <1>2, <1>3 DEF IInv, LastIsLatest, RaisedApart

LEMMA CooldownIsNat ==
  ASSUME NEW type \in Types
  PROVE  Cooldown(type) \in Nat
BY DetectorAssumption DEF Types, Cooldown

\* What the times say when the cooldown has passed.
LEMMA Later ==
  \A x, y, z, n \in Int : n >= 0 /\ y >= x /\ z - y >= n => z - x >= n /\ z >= x
BY SMT

LEMMA ProcessHolds ==
  ASSUME IInv, NEW e \in Entry, Process(e)
  PROVE  IInv'
<1> DEFINE n == Len(raised)
           a == Anomalies(e)
           K == {KeyOf(t, e) : t \in Raised(e)}
<1>1. FoundOf(a, Types, e)
      BY AnomaliesFound
<1>2. raised \in Seq(Anomaly) /\ a \in Seq(Anomaly)
      BY <1>1 DEF IInv, FoundOf
<1>3. raised' = raised \o a
      BY DEF Process
<1>4. e.source \in Sources /\ e.ts \in Times /\ e.ts \in Int /\ Times \subseteq Int
      BY DetectorAssumption DEF Entry
<1>5. last' = [last EXCEPT ![e.source] = [k \in Keys |-> IF k \in K THEN {e.ts} ELSE last[e.source][k]]]
  <2>1. \A k : (\E t \in Raised(e) : KeyOf(t, e) = k) <=> k \in K
        OBVIOUS
  <2>2. QED
        BY <2>1 DEF Process
<1>6. /\ \A k \in Keys : k \in K => last'[e.source][k] = {e.ts}
      /\ \A s \in Sources, k \in Keys : ~ (s = e.source /\ k \in K) => last'[s][k] = last[s][k]
      /\ LastTyped'
  <2> HIDE DEF K
  <2>1. QED
        BY <1>4, <1>5, Zenon DEF IInv, LastTyped
<1> HIDE DEF a, K
\* Old anomalies keep their places, new ones come after.
<1>7. /\ raised' \in Seq(Anomaly) /\ n \in Nat
      /\ DOMAIN raised = 1..n /\ DOMAIN a = 1..Len(a) /\ Len(a) \in Nat
      /\ DOMAIN raised' = 1..n + Len(a)
      /\ \A i \in 1..n : raised'[i] = raised[i]
      /\ \A i \in 1..n + Len(a) : i > n => i - n \in DOMAIN a /\ raised'[i] = a[i - n]
      BY <1>2, <1>3, SMT
<1>8. \A i \in DOMAIN raised : /\ raised[i].source \in Sources
                               /\ raised[i].key \in Keys
                               /\ raised[i].ts \in Int
                               /\ raised[i].key[1] \in Types
  <2>1. TAKE i \in DOMAIN raised
  <2>2. raised[i] \in Anomaly
        BY <1>2, <2>1, SMT
  <2>3. \A k \in Keys : k[1] \in Types
        BY DEF Keys, Types
  <2>4. QED
        BY <1>4, <2>2, <2>3 DEF Anomaly
<1>9. \A i \in DOMAIN a : \E t \in Raised(e) :
         /\ a[i].source = e.source /\ a[i].ts = e.ts /\ a[i].key = KeyOf(t, e)
         /\ a[i].key \in K /\ a[i].key \in Keys /\ a[i].key[1] = t /\ t \in Types
  <2>1. TAKE i \in DOMAIN a
  <2>2. PICK t \in Types : t \in Raised(e) /\ a[i] = Report(t, e)
        BY <1>1 DEF FoundOf
  <2>3. QED
        BY <2>2, RaisedKey DEF K
\* A new anomaly is a cooldown later than every one before it of its key.
<1>10. ASSUME NEW i \in 1..n, NEW t \in Raised(e),
              raised[i].source = e.source, raised[i].key = KeyOf(t, e)
       PROVE  e.ts - raised[i].ts >= Cooldown(t) /\ e.ts >= raised[i].ts
  <2>1. i \in DOMAIN raised
        BY <1>7
  <2>2. PICK x \in last[e.source][KeyOf(t, e)] : x >= raised[i].ts
        BY <1>10, <2>1, Zenon DEF IInv, LastIsLatest
  <2>3. KeyOf(t, e) \in Keys /\ t \in Types
        BY RaisedKey
  <2>4. last[e.source][KeyOf(t, e)] \subseteq Times
        BY <1>4, <2>3, Zenon DEF IInv, LastTyped
  <2>5. x \in Int
        BY <1>4, <2>2, <2>4
  <2>6. Cooled(t, e)
        BY DEF Raised
  <2>7. e.ts - x >= Cooldown(t)
        BY <2>2, <2>6, Zenon DEF Cooled
  <2>8. Cooldown(t) \in Int /\ Cooldown(t) >= 0
        BY <2>3, CooldownIsNat, SMT
  <2>9. QED
        BY <1>4, <1>8, <2>1, <2>2, <2>5, <2>7, <2>8, Later
<1>11. LastIsLatest'
  <2>1. SUFFICES ASSUME NEW i \in 1..n + Len(a)
                 PROVE  LET times == last'[raised'[i].source][raised'[i].key]
                        IN  times # {} /\ \A t \in times : t >= raised'[i].ts
        BY <1>7, Zenon DEF LastIsLatest
  <2>2. CASE i \in 1..n
    <3>1. raised'[i] = raised[i] /\ i \in DOMAIN raised
          BY <1>7, <2>2
    <3>2. raised[i].source \in Sources /\ raised[i].key \in Keys
          BY <1>8, <3>1
    <3>3. CASE raised[i].source = e.source /\ raised[i].key \in K
      <4>1. PICK t \in Raised(e) : raised[i].key = KeyOf(t, e)
            BY <3>3 DEF K
      <4>2. e.ts >= raised[i].ts
            BY <1>10, <2>2, <3>3, <4>1
      <4>3. last'[raised[i].source][raised[i].key] = {e.ts}
            BY <1>6, <3>2, <3>3
      <4>4. QED
            BY <3>1, <4>2, <4>3
    <3>4. CASE ~ (raised[i].source = e.source /\ raised[i].key \in K)
      <4>1. last'[raised[i].source][raised[i].key] = last[raised[i].source][raised[i].key]
            BY <1>6, <3>2, <3>4, Zenon
      <4>2. QED
            BY <3>1, <4>1, Zenon DEF IInv, LastIsLatest
    <3>5. QED
          BY <3>3, <3>4
  <2>3. CASE i > n
    <3>1. i - n \in DOMAIN a /\ raised'[i] = a[i - n]
          BY <1>7, <2>3
    <3>2. /\ a[i - n].source = e.source /\ a[i - n].ts = e.ts
          /\ a[i - n].key \in K /\ a[i - n].key \in Keys
          BY <1>9, <3>1
    <3>3. last'[raised'[i].source][raised'[i].key] = {e.ts} /\ raised'[i].ts = e.ts
          BY <1>6, <3>1, <3>2
    <3>4. e.ts >= e.ts
          BY <1>4, SMT
    <3>5. QED
          BY <3>3, <3>4
  <2>4. QED
        BY <1>7, <2>1, <2>2, <2>3, SMT
<1>12. RaisedApart'
  <2>1. SUFFICES ASSUME NEW i \in 1..n + Len(a), NEW j \in 1..n + Len(a), i < j,
                        raised'[i].source = raised'[j].source, raised'[i].key = raised'[j].key
                 PROVE  raised'[j].ts - raised'[i].ts >= Cooldown(raised'[i].key[1])
        BY <1>7, Zenon DEF RaisedApart
  <2>2. CASE j \in 1..n
    <3>1. i \in 1..n
          BY <1>7, <2>1, <2>2, SMT
    <3>2. QED
          BY <1>7, <2>1, <2>2, <3>1, Zenon DEF IInv, RaisedApart
  <2>3. CASE i \in 1..n /\ j > n
    <3>1. j - n \in DOMAIN a /\ raised'[j] = a[j - n] /\ raised'[i] = raised[i]
          BY <1>7, <2>3
    <3>2. PICK t \in Raised(e) : /\ a[j - n].source = e.source /\ a[j - n].ts = e.ts
                                 /\ a[j - n].key = KeyOf(t, e) /\ a[j - n].key[1] = t
          BY <1>9, <3>1
    <3>3. raised[i].source = e.source /\ raised[i].key = KeyOf(t, e)
          BY <2>1, <3>1, <3>2, Zenon
    <3>4. e.ts - raised[i].ts >= Cooldown(t)
          BY <1>10, <2>3, <3>3
    <3>5. raised'[j].ts = e.ts /\ raised'[i].ts = raised[i].ts /\ raised'[i].key[1] = t
          BY <3>1, <3>2, <3>3, Zenon
    <3>6. QED
          BY <3>4, <3>5, Zenon
  <2>4. CASE i > n
    <3>1. j > n
          BY <1>7, <2>1, <2>4, SMT
    <3>2. /\ i - n \in DOMAIN a /\ raised'[i] = a[i - n]
          /\ j - n \in DOMAIN a /\ raised'[j] = a[j - n]
          BY <1>7, <2>4, <3>1
    <3>3. i - n = j - n
          BY <1>1, <2>1, <3>2, Zenon DEF FoundOf
    <3>4. QED
          BY <1>7, <2>1, <3>3, SMT
  <2>5. QED
        BY <1>7, <2>1, <2>2, <2>3, <2>4, SMT
<1>13. QED
      BY <1>6, <1>7, <1>11, <1>12 DEF IInv

LEMMA NextHolds == IInv /\ [Next]_vars => IInv'
<1>1. ASSUME IInv, UNCHANGED <<raised, last>> PROVE IInv'
      BY <1>1, Zenon DEF IInv, LastTyped, LastIsLatest, RaisedApart
<1>2. ASSUME IInv, SetThresholds PROVE IInv'
      BY <1>1, <1>2 DEF SetThresholds, stateVars
<1>3. ASSUME IInv, UNCHANGED vars PROVE IInv'
      BY <1>1, <1>3 DEF vars, stateVars
<1>4. QED
      BY <1>2, <1>3, ProcessHolds DEF Next

\* The times LastAnomalyTime keeps are those of the last anomalies, whatever the entries.
THEOREM Invariance == Spec => []IInv
<1>1. QED
      BY InitHolds, NextHolds, PTL DEF Spec

\* Whatever times the senders claim, in whatever order, two anomalies of one source and
\* key are a cooldown apart: Process tests and sets under one mutex.
THEOREM RaisedApartHolds == Spec => []RaisedApart
<1>1. IInv => RaisedApart
      BY DEF IInv
<1>2. QED
      BY <1>1, Invariance, PTL

-----------------------------------------------------------------------------
(* RateWindowOrdered. *)

Stamp == [ts : Times, count : Int]

\* Each sample is a second or more later than every one before it; and all are within
\* the window before the last, or none of the others.
Ordered(w) == /\ w \in Seq(Stamp)
              /\ \A i, j \in 1..Len(w) : i < j => w[j].ts - w[i].ts >= Second
              /\ \/ \A i \in 1..Len(w) : w[i].ts > w[Len(w)].ts - Window
                 \/ \A i \in 1..Len(w) : i < Len(w) => w[i].ts <= w[Len(w)].ts - Window

WindowsOrdered == /\ window \in [Sources -> Seq(Stamp)]
                  /\ \A s \in Sources : Ordered(window[s])

\* A non-empty set of indexes has a first one.
LEMMA FirstIndex ==
  ASSUME NEW n \in Nat, NEW K \in SUBSET (1..n), K # {}
  PROVE  Min(K) \in K /\ \A k \in K : Min(K) <= k
<1>1. K \subseteq Nat /\ K # {}
      BY SMT
<1>2. PICK m \in K : \A k \in K : ~ (<<k, m>> \in OpToRel(<, Nat))
      BY <1>1, NatLessThanWellFounded, WFMin, Zenon
<1>3. \A k \in K : ~ (k < m)
  <2>1. \A k \in K : k < m => <<k, m>> \in OpToRel(<, Nat)
        BY <1>1, SMT DEF OpToRel
  <2>2. QED
        BY <1>2, <2>1, Zenon
<1>4. \A k \in K : m <= k
      BY <1>1, <1>3, SMT
<1>5. QED
      BY <1>4, Zenon DEF Min

\* What the times of a window are.
LEMMA OrderedTimes ==
  ASSUME NEW w, Ordered(w)
  PROVE  /\ Len(w) \in Nat /\ DOMAIN w = 1..Len(w)
         /\ \A i \in 1..Len(w) : w[i] \in Stamp /\ w[i].ts \in Int /\ w[i].count \in Int
<1>1. Times \subseteq Int
      BY DetectorAssumption
<1>2. w \in Seq(Stamp)
      BY DEF Ordered
<1>3. /\ Len(w) \in Nat /\ DOMAIN w = 1..Len(w)
      /\ \A i \in 1..Len(w) : w[i] \in Stamp
      BY <1>2, SMT
<1>4. QED
      BY <1>1, <1>3 DEF Stamp

\* The trim keeps the order, and leaves samples that are all young or all old.
LEMMA TrimOrders ==
  ASSUME NEW w, Ordered(w), NEW ts \in Times
  PROVE  /\ Ordered(Trim(w, ts))
         /\ \/ \A i \in 1..Len(Trim(w, ts)) : Trim(w, ts)[i].ts > ts - Window
            \/ \A i \in 1..Len(Trim(w, ts)) : Trim(w, ts)[i].ts <= ts - Window
<1> DEFINE I == {i \in 1..Len(w) : w[i].ts > ts - Window}
           m == Min(I)
           v == SubSeq(w, m, Len(w))
<1>1. /\ Len(w) \in Nat /\ DOMAIN w = 1..Len(w) /\ w \in Seq(Stamp)
      /\ \A i \in 1..Len(w) : w[i].ts \in Int
      BY OrderedTimes DEF Ordered
<1>2. ts \in Int /\ Second \in Int /\ Second > 0 /\ Window \in Int /\ Window > 0
      BY DetectorAssumption, SMT
<1>3. CASE I = {}
  <2>1. Trim(w, ts) = w
        BY <1>3 DEF Trim, SelectInSeq
  <2>2. \A i \in 1..Len(w) : w[i].ts <= ts - Window
        BY <1>1, <1>2, <1>3, SMT
  <2>3. QED
        BY <2>1, <2>2
<1>4. CASE I # {}
  <2>1. m \in I /\ m \in 1..Len(w)
        BY <1>1, <1>4, FirstIndex
  <2>2. Trim(w, ts) = v
    <3>1. \A k \in Nat : \A l \in 1..k : l # 0
          BY SMT
    <3>2. SelectInSeq(w, LAMBDA x : x.ts > ts - Window) = m
          BY <1>4 DEF SelectInSeq
    <3>3. m # 0
          BY <1>1, <2>1, <3>1, Zenon
    <3>4. QED
          BY <3>2, <3>3, Zenon DEF Trim
  <2>3. w[m].ts > ts - Window
        BY <2>1
  <2> HIDE DEF I, m
  <2>4. /\ v \in Seq(Stamp) /\ Len(v) = Len(w) - m + 1
        /\ \A i \in 1..Len(v) : m + i - 1 \in 1..Len(w) /\ v[i] = w[m + i - 1]
        BY <1>1, <2>1, SubSeqProperties, SMT
  <2> HIDE DEF v
  <2>5. \A i, j \in 1..Len(v) : i < j => v[j].ts - v[i].ts >= Second
    <3>1. SUFFICES ASSUME NEW i \in 1..Len(v), NEW j \in 1..Len(v), i < j
                   PROVE  v[j].ts - v[i].ts >= Second
          OBVIOUS
    <3>2. m + i - 1 < m + j - 1
          BY <2>1, <3>1, SMT
    <3>3. QED
          BY <2>4, <3>2, Zenon DEF Ordered
  <2>6. v[Len(v)] = w[Len(w)] /\ Len(v) \in 1..Len(v)
        BY <1>1, <2>1, <2>4, SMT
  <2>7. \A i \in 1..Len(v) : v[i].ts > ts - Window
    <3>1. TAKE i \in 1..Len(v)
    <3>2. CASE i = 1
          BY <1>1, <2>1, <2>3, <2>4, <3>2, SMT
    <3>3. CASE i > 1
      <4>1. m < m + i - 1
            BY <2>1, <3>3, SMT
      <4>2. w[m + i - 1].ts - w[m].ts >= Second
            BY <2>1, <2>4, <4>1, Zenon DEF Ordered
      <4>3. v[i].ts = w[m + i - 1].ts /\ w[m + i - 1].ts \in Int /\ w[m].ts \in Int
            BY <1>1, <2>1, <2>4
      <4>4. QED
            BY <1>2, <2>3, <4>2, <4>3, SMT
    <3>4. QED
          BY <3>2, <3>3, SMT
  <2>8. CASE \A i \in 1..Len(w) : w[i].ts > w[Len(w)].ts - Window
    <3>1. \A i \in 1..Len(v) : v[i].ts > v[Len(v)].ts - Window
          BY <2>4, <2>6, <2>8, Zenon
    <3>2. QED
          BY <2>2, <2>4, <2>5, <2>7, <3>1, Zenon DEF Ordered
  <2>9. CASE \A i \in 1..Len(w) : i < Len(w) => w[i].ts <= w[Len(w)].ts - Window
    <3>1. \A i \in 1..Len(v) : i < Len(v) => m + i - 1 < Len(w)
          BY <1>1, <2>1, <2>4, SMT
    <3>2. \A i \in 1..Len(v) : i < Len(v) => v[i].ts <= v[Len(v)].ts - Window
          BY <2>4, <2>6, <2>9, <3>1, Zenon
    <3>3. QED
          BY <2>2, <2>4, <2>5, <2>7, <3>2, Zenon DEF Ordered
  <2>10. QED
        BY <2>8, <2>9, Zenon DEF Ordered
<1>5. QED
      BY <1>3, <1>4

\* An entry joins the last sample or starts one a second or more later.
LEMMA AddSampleOrders ==
  ASSUME NEW w, Ordered(w), NEW ts \in Times
  PROVE  Ordered(AddSample(w, ts))
<1> DEFINE v == Trim(w, ts)
           n == Len(v)
           new == [ts |-> ts, count |-> 1]
           joined == [v EXCEPT ![n].count = @ + 1]
<1>1. /\ Ordered(v)
      /\ \/ \A i \in 1..n : v[i].ts > ts - Window
         \/ \A i \in 1..n : v[i].ts <= ts - Window
      BY TrimOrders
<1> HIDE DEF v
<1>2. /\ n \in Nat /\ DOMAIN v = 1..n /\ v \in Seq(Stamp)
      /\ \A i \in 1..n : v[i] \in Stamp /\ v[i].ts \in Int /\ v[i].count \in Int
      BY <1>1, OrderedTimes DEF Ordered
<1>3. ts \in Int /\ Second \in Int /\ Second > 0 /\ Window \in Int /\ Window > 0
      BY DetectorAssumption, SMT
<1>4. v # <<>> => n \in 1..n /\ Last(v) = v[n]
      BY <1>2, SMT DEF Last
<1>5. CASE v # <<>> /\ ts - Last(v).ts < Second
  <2>1. AddSample(w, ts) = joined
        BY <1>5 DEF AddSample, v
  <2> DEFINE y == [v[n] EXCEPT !.count = v[n].count + 1]
  <2>2. joined = [v EXCEPT ![n] = y]
        OBVIOUS
  <2>3. y \in Stamp /\ y.ts = v[n].ts
        BY <1>2, <1>4, <1>5, SMT DEF Stamp
  <2> HIDE DEF y
  <2>4. /\ joined \in Seq(Stamp) /\ Len(joined) = n
        /\ \A i \in 1..n : joined[i] = IF i = n THEN y ELSE v[i]
    <3> HIDE DEF joined
    <3>1. QED
          BY <1>2, <1>4, <1>5, <2>2, <2>3, ExceptSeq
  <2> HIDE DEF joined
  <2>5. \A i \in 1..n : joined[i].ts = v[i].ts
        BY <2>3, <2>4, Zenon
  <2>6. QED
        BY <1>1, <1>4, <1>5, <2>1, <2>4, <2>5, Zenon DEF Ordered
<1>6. CASE ~ (v # <<>> /\ ts - Last(v).ts < Second)
  <2> DEFINE x == Append(v, new)
  <2>1. AddSample(w, ts) = x
        BY <1>6 DEF AddSample, v
  <2>2. new \in Stamp /\ new.ts = ts
        BY DEF Stamp
  <2> HIDE DEF new
  <2>3. /\ x \in Seq(Stamp) /\ Len(x) = n + 1 /\ x[n + 1].ts = ts
        /\ \A i \in 1..n : x[i] = v[i]
        /\ \A i \in 1..n + 1 : i \in 1..n \/ i = n + 1
        /\ \A i \in 1..n + 1 : i < n + 1 => i \in 1..n
        BY <1>2, <2>2, SMT
  <2> HIDE DEF x
  <2>4. \A i \in 1..n : ts - v[i].ts >= Second
    <3>1. TAKE i \in 1..n
    <3>2. v # <<>> /\ n \in 1..n
          BY <1>2, <3>1, SMT
    <3>3. ts - v[n].ts >= Second
          BY <1>2, <1>3, <1>4, <1>6, <3>2, SMT
    <3>4. i = n \/ i < n
      <4>1. \A k \in Nat : \A l \in 1..k : l = k \/ l < k
            BY SMT
      <4>2. QED
            BY <1>2, <3>1, <4>1, Zenon
    <3>5. i < n => v[n].ts - v[i].ts >= Second
          BY <1>1, <3>1, <3>2, Zenon DEF Ordered
    <3>6. v[n].ts \in Int /\ v[i].ts \in Int
          BY <1>2, <3>1, <3>2
    <3>7. CASE i = n
          BY <3>3, <3>7, Zenon
    <3>8. CASE i < n
      <4>1. \A p, q, r, d \in Int : d > 0 /\ r - q >= d /\ q - p >= d => r - p >= d
            BY SMT
      <4>2. QED
            BY <1>3, <3>3, <3>5, <3>6, <3>8, <4>1, Zenon
    <3>9. QED
          BY <3>4, <3>7, <3>8
  <2>5. \A i, j \in 1..n + 1 : i < j => x[j].ts - x[i].ts >= Second
    <3>1. SUFFICES ASSUME NEW i \in 1..n + 1, NEW j \in 1..n + 1, i < j
                   PROVE  x[j].ts - x[i].ts >= Second
          OBVIOUS
    <3>2. i \in 1..n
          BY <1>2, <3>1, SMT
    <3>3. CASE j \in 1..n
          BY <1>1, <2>3, <3>1, <3>2, <3>3, Zenon DEF Ordered
    <3>4. CASE j = n + 1
          BY <2>3, <2>4, <3>2, <3>4, Zenon
    <3>5. QED
          BY <2>3, <3>3, <3>4
  <2>6. ts > ts - Window
        BY <1>3, SMT
  <2>7. CASE \A i \in 1..n : v[i].ts > ts - Window
    <3>1. \A i \in 1..n + 1 : x[i].ts > x[n + 1].ts - Window
          BY <2>3, <2>6, <2>7, Zenon
    <3>2. QED
          BY <2>1, <2>3, <2>5, <3>1, Zenon DEF Ordered
  <2>8. CASE \A i \in 1..n : v[i].ts <= ts - Window
    <3>1. \A i \in 1..n + 1 : i < n + 1 => x[i].ts <= x[n + 1].ts - Window
          BY <2>3, <2>8, Zenon
    <3>2. QED
          BY <2>1, <2>3, <2>5, <3>1, Zenon DEF Ordered
  <2>9. QED
        BY <1>1, <2>7, <2>8
<1>7. QED
      BY <1>5, <1>6

LEMMA InitOrdered == Init => WindowsOrdered
<1>1. <<>> \in Seq(Stamp) /\ Len(<<>>) = 0
      BY SMT
<1>2. Ordered(<<>>)
      BY <1>1, SMT DEF Ordered
<1>3. QED
      BY <1>1, <1>2 DEF Init, WindowsOrdered

LEMMA NextOrdered == WindowsOrdered /\ [Next]_vars => WindowsOrdered'
<1>1. ASSUME WindowsOrdered, UNCHANGED window PROVE WindowsOrdered'
      BY <1>1, Zenon DEF WindowsOrdered
<1>2. ASSUME WindowsOrdered, NEW e \in Entry, Process(e) PROVE WindowsOrdered'
  <2>1. e.source \in Sources /\ e.ts \in Times
        BY DEF Entry
  <2>2. window' = [window EXCEPT ![e.source] = AddSample(window[e.source], e.ts)]
        BY <1>2 DEF Process
  <2>3. Ordered(AddSample(window[e.source], e.ts))
        BY <1>2, <2>1, AddSampleOrders DEF WindowsOrdered
  <2>4. AddSample(window[e.source], e.ts) \in Seq(Stamp)
        BY <2>3 DEF Ordered
  <2>5. QED
        BY <1>2, <2>1, <2>2, <2>3, <2>4, Zenon DEF WindowsOrdered
<1>3. ASSUME WindowsOrdered, SetThresholds PROVE WindowsOrdered'
      BY <1>1, <1>3 DEF SetThresholds, stateVars
<1>4. ASSUME WindowsOrdered, UNCHANGED vars PROVE WindowsOrdered'
      BY <1>1, <1>4 DEF vars, stateVars
<1>5. QED
      BY <1>2, <1>3, <1>4 DEF Next

\* A second or more lies between two samples of a rate window, and the trim leaves no mix
\* of young and old ones, whatever times the entries carry.
THEOREM RateWindowOrderedHolds == Spec => []RateWindowOrdered
<1>1. ASSUME NEW w, Ordered(w)
      PROVE  /\ \A i \in 1..(Len(w) - 1) : w[i + 1].ts - w[i].ts >= Second
             /\ {i \in DOMAIN w : w[i].ts > Last(w).ts - Window} \in {DOMAIN w, {Len(w)}}
  <2>1. /\ Len(w) \in Nat /\ DOMAIN w = 1..Len(w)
        /\ \A i \in 1..Len(w) : w[i].ts \in Int
        BY <1>1, OrderedTimes
  <2>2. Window \in Int /\ Window > 0
        BY DetectorAssumption, SMT
  <2>3. \A i \in 1..(Len(w) - 1) : w[i + 1].ts - w[i].ts >= Second
    <3>1. TAKE i \in 1..(Len(w) - 1)
    <3>2. i \in 1..Len(w) /\ i + 1 \in 1..Len(w) /\ i < i + 1
          BY <2>1, SMT
    <3>3. QED
          BY <1>1, <3>2, Zenon DEF Ordered
  <2>4. Last(w) = w[Len(w)]
        BY DEF Last
  <2>5. CASE \A i \in 1..Len(w) : w[i].ts > w[Len(w)].ts - Window
        BY <2>1, <2>3, <2>4, <2>5
  <2>6. CASE /\ \A i \in 1..Len(w) : i < Len(w) => w[i].ts <= w[Len(w)].ts - Window
             /\ w # <<>>
    <3>1. Len(w) \in 1..Len(w)
          BY <1>1, <2>1, <2>6, SMT DEF Ordered
    <3>2. \A i \in 1..Len(w) : (w[i].ts > w[Len(w)].ts - Window) <=> i = Len(w)
      <4>1. \A x, y, d \in Int : (x <= y - d => ~ (x > y - d)) /\ (d > 0 => y > y - d)
            BY SMT
      <4>2. \A k \in Nat : \A i \in 1..k : i < k \/ i = k
            BY SMT
      <4>3. QED
            BY <2>1, <2>2, <2>6, <3>1, <4>1, <4>2, Zenon
    <3>3. {i \in DOMAIN w : w[i].ts > Last(w).ts - Window} = {Len(w)}
          BY <2>1, <2>4, <3>1, <3>2, Zenon
    <3>4. QED
          BY <2>3, <3>3
  <2>7. CASE w = <<>>
        BY <2>3, <2>7
  <2>8. QED
        BY <1>1, <2>5, <2>6, <2>7, Zenon DEF Ordered
<1>2. WindowsOrdered => RateWindowOrdered
      BY <1>1, Zenon DEF WindowsOrdered, RateWindowOrdered
<1>3. QED
      BY <1>2, InitOrdered, NextOrdered, PTL DEF Spec

-----------------------------------------------------------------------------
(* NewErrorOnce. *)

\* ErrorPatterns counts a pattern from its first entry on, and no anomaly of a pattern
\* that has not been counted is in LastAnomalyTime: no cooldown holds the first one back.
Counted == /\ patterns \in [Sources -> [Patterns -> Nat]]
           /\ arrivals \in [Entry -> Nat]
           /\ \A s \in Sources, p \in Patterns :
                /\ patterns[s][p] > 0 <=> Seen(s, p)
                /\ last[s][<<"new_error", p>>] # {} => patterns[s][p] > 0

NInv == Counted /\ NewErrorOnce

LEMMA InitCounted == Init => NInv
<1>1. SUFFICES ASSUME Init PROVE NInv
      OBVIOUS
<1>2. 0 \in Nat /\ ~ (0 > 0)
      BY SMT
<1>3. \A p \in Patterns : <<"new_error", p>> \in Keys
      BY DEF Keys
<1>4. /\ patterns = [s \in Sources |-> [p \in Patterns |-> 0]]
      /\ arrivals = [e \in Entry |-> 0]
      /\ last = [s \in Sources |-> [k \in Keys |-> {}]]
      BY <1>1 DEF Init
<1>5. \A s \in Sources, p \in Patterns : ~Seen(s, p)
      BY <1>2, <1>4 DEF Seen
<1>6. Counted
      BY <1>2, <1>3, <1>4, <1>5 DEF Counted
<1>7. \A s \in Sources, p \in Patterns : Reports(s, p) = {}
      BY <1>1 DEF Init, Reports
<1>8. NewErrorOnce
      BY <1>5, <1>7 DEF NewErrorOnce
<1>9. QED
      BY <1>6, <1>8 DEF NInv

LEMMA ProcessCounts ==
  ASSUME IInv, NInv, NEW e \in Entry, Process(e)
  PROVE  NInv'
<1> DEFINE n == Len(raised)
           a == Anomalies(e)
           K == {KeyOf(t, e) : t \in Raised(e)}
           q == e.pattern
<1>1. e.source \in Sources /\ q \in Patterns \cup {NoPattern} /\ NoPattern \notin Patterns
      BY DetectorAssumption DEF Entry
<1>2. FoundOf(a, Types, e)
      BY AnomaliesFound
<1>3. /\ patterns \in [Sources -> [Patterns -> Nat]]
      /\ arrivals \in [Entry -> Nat]
      BY DEF NInv, Counted
<1>4. arrivals' = [arrivals EXCEPT ![e] = arrivals[e] + 1] /\ arrivals[e] \in Nat
      BY <1>3 DEF Process
<1>5. /\ arrivals' \in [Entry -> Nat]
      /\ arrivals'[e] > 0
      /\ \A o \in Entry : o # e => arrivals'[o] = arrivals[o]
  <2>1. \A k \in Nat : k + 1 \in Nat /\ k + 1 > 0
        BY SMT
  <2>2. arrivals[e] + 1 \in Nat /\ arrivals[e] + 1 > 0
        BY <1>4, <2>1, Zenon
  <2>3. QED
        BY <1>3, <1>4, <2>2, Zenon
\* What is said of another source or pattern does not change.
<1>6. \A s \in Sources, p \in Patterns : ~ (s = e.source /\ p = q) => (Seen(s, p)' <=> Seen(s, p))
      BY <1>5, Zenon DEF Seen
<1>7. \A s \in Sources, p \in Patterns : ~ (s = e.source /\ p = q) => patterns'[s][p] = patterns[s][p]
  <2>1. CASE IsError(e)
    <3>1. q \in Patterns
          BY <1>1, <2>1 DEF IsError
    <3>2. patterns' = [patterns EXCEPT ![e.source] =
                         [patterns[e.source] EXCEPT ![q] = patterns[e.source][q] + 1]]
          BY <2>1 DEF Process, CountError
    <3>3. QED
          BY <1>1, <1>3, <3>1, <3>2, Zenon
  <2>2. CASE ~IsError(e)
        BY <2>2 DEF Process, CountError
  <2>3. QED
        BY <2>1, <2>2
<1>8. patterns' \in [Sources -> [Patterns -> Nat]]
  <2>1. CASE IsError(e)
    <3>1. q \in Patterns
          BY <1>1, <2>1 DEF IsError
    <3>2. patterns[e.source][q] + 1 \in Nat
          BY <1>1, <1>3, <3>1, SMT
    <3>3. patterns' = [patterns EXCEPT ![e.source] =
                         [patterns[e.source] EXCEPT ![q] = patterns[e.source][q] + 1]]
          BY <2>1 DEF Process, CountError
    <3>4. [patterns[e.source] EXCEPT ![q] = patterns[e.source][q] + 1] \in [Patterns -> Nat]
          BY <1>1, <1>3, <3>2, Zenon
    <3>5. QED
          BY <1>3, <3>3, <3>4, Zenon
  <2>2. CASE ~IsError(e)
        BY <1>3, <2>2 DEF Process, CountError
  <2>3. QED
        BY <2>1, <2>2
<1>9. last' = [last EXCEPT ![e.source] = [k \in Keys |-> IF k \in K THEN {e.ts} ELSE last[e.source][k]]]
  <2>1. \A k : (\E t \in Raised(e) : KeyOf(t, e) = k) <=> k \in K
        OBVIOUS
  <2>2. QED
        BY <2>1 DEF Process
<1>10. \A p \in Patterns : <<"new_error", p>> \in Keys
      BY DEF Keys
<1>11. \A t, p : KeyOf(t, e) = <<"new_error", p>> => t = "new_error" /\ p = q
      BY DEF KeyOf
<1>12. \A s \in Sources, p \in Patterns : ~ (s = e.source /\ p = q) =>
          last'[s][<<"new_error", p>>] = last[s][<<"new_error", p>>]
  <2>1. \A p \in Patterns : p # q => <<"new_error", p>> \notin K
        BY <1>11
  <2> HIDE DEF K
  <2>2. LastTyped
        BY DEF IInv
  <2>3. QED
        BY <1>1, <1>9, <1>10, <2>1, <2>2, Zenon DEF LastTyped
<1> HIDE DEF a, K
<1>13. raised \in Seq(Anomaly) /\ a \in Seq(Anomaly) /\ raised' = raised \o a
      BY <1>2 DEF IInv, FoundOf, Process, a
<1>14. /\ n \in Nat /\ DOMAIN raised = 1..n /\ DOMAIN a = 1..Len(a) /\ Len(a) \in Nat
       /\ DOMAIN raised' = 1..n + Len(a)
       /\ \A i \in DOMAIN raised : i \in DOMAIN raised' /\ raised'[i] = raised[i]
       /\ \A i \in DOMAIN raised' : i \notin DOMAIN raised =>
             i - n \in DOMAIN a /\ raised'[i] = a[i - n] /\ i = n + (i - n)
       /\ \A j \in DOMAIN a : /\ n + j \in DOMAIN raised' /\ n + j \notin DOMAIN raised
                              /\ raised'[n + j] = a[j]
      BY <1>13, SMT
\* The anomalies of this entry that report a pattern report its own, as a new one.
<1>15. ASSUME NEW j \in DOMAIN a, NEW s \in Sources, NEW p \in Patterns,
              a[j].source = s, a[j].key = <<"new_error", p>>
       PROVE  s = e.source /\ p = q /\ "new_error" \in Raised(e)
  <2>1. PICK t \in Types : t \in Raised(e) /\ a[j] = Report(t, e)
        BY <1>2 DEF FoundOf, a
  <2>2. a[j].source = e.source /\ a[j].key = KeyOf(t, e)
        BY <2>1, RaisedKey
  <2>3. QED
        BY <1>11, <1>15, <2>1, <2>2
<1>16. ASSUME NEW s \in Sources, NEW p \in Patterns, ~ (s = e.source /\ p = q) \/ "new_error" \notin Raised(e)
       PROVE  Reports(s, p)' = Reports(s, p)
  <2>1. \A i \in DOMAIN raised' : raised'[i].source = s /\ raised'[i].key = <<"new_error", p>> =>
           i \in DOMAIN raised
        BY <1>14, <1>15, <1>16
  <2>2. QED
        BY <1>14, <2>1, Zenon DEF Reports
<1>17. ASSUME NEW s \in Sources, NEW p \in Patterns, ~ (s = e.source /\ p = q)
       PROVE  /\ patterns'[s][p] > 0 <=> Seen(s, p)'
              /\ last'[s][<<"new_error", p>>] # {} => patterns'[s][p] > 0
              /\ Reports(s, p)' # {} <=> Seen(s, p)'
              /\ \A i, j \in Reports(s, p)' : i = j
  <2>1. Reports(s, p)' = Reports(s, p)
        BY <1>16, <1>17
  <2>2. (Seen(s, p)' <=> Seen(s, p)) /\ patterns'[s][p] = patterns[s][p]
        BY <1>6, <1>7, <1>17
  <2>3. last'[s][<<"new_error", p>>] = last[s][<<"new_error", p>>]
        BY <1>12, <1>17
  <2>4. /\ patterns[s][p] > 0 <=> Seen(s, p)
        /\ last[s][<<"new_error", p>>] # {} => patterns[s][p] > 0
        /\ Reports(s, p) # {} <=> Seen(s, p)
        /\ \A i, j \in Reports(s, p) : i = j
        BY Zenon DEF NInv, Counted, NewErrorOnce
  <2>5. QED
        BY <2>1, <2>2, <2>3, <2>4, Zenon
<1>18. ASSUME q \in Patterns
       PROVE  /\ patterns'[e.source][q] > 0
              /\ Seen(e.source, q)'
              /\ Reports(e.source, q)' # {}
              /\ \A i, j \in Reports(e.source, q)' : i = j
  <2>1. IsError(e)
        BY <1>1, <1>18 DEF IsError
  <2>2. patterns[e.source][q] \in Nat
        BY <1>1, <1>3, <1>18
  <2>3. patterns'[e.source][q] = patterns[e.source][q] + 1
    <3>1. patterns' = [patterns EXCEPT ![e.source] =
                         [patterns[e.source] EXCEPT ![q] = patterns[e.source][q] + 1]]
          BY <2>1 DEF Process, CountError
    <3>2. QED
          BY <1>1, <1>3, <1>18, <3>1, Zenon
  <2>4. \A k \in Nat : k + 1 > 0 /\ (k + 1 = 1 <=> ~ (k > 0))
        BY SMT
  <2>5. patterns'[e.source][q] > 0 /\ (patterns'[e.source][q] = 1 <=> ~ (patterns[e.source][q] > 0))
        BY <2>2, <2>3, <2>4, Zenon
  <2>6. Seen(e.source, q)'
        BY <1>5, Zenon DEF Seen
  <2>7. /\ patterns[e.source][q] > 0 <=> Seen(e.source, q)
        /\ last[e.source][<<"new_error", q>>] # {} => patterns[e.source][q] > 0
        /\ Reports(e.source, q) # {} <=> Seen(e.source, q)
        /\ \A i, j \in Reports(e.source, q) : i = j
        BY <1>1, <1>18, Zenon DEF NInv, Counted, NewErrorOnce
  <2>8. "new_error" \in Firing(e) <=> patterns'[e.source][q] = 1
        BY <2>1 DEF Firing, Types
  \* Seen before: nothing is reported again.
  <2>9. CASE patterns[e.source][q] > 0
    <3>1. "new_error" \notin Raised(e)
          BY <2>5, <2>8, <2>9 DEF Raised
    <3>2. Reports(e.source, q)' = Reports(e.source, q)
          BY <1>1, <1>16, <1>18, <3>1
    <3>3. QED
          BY <2>5, <2>6, <2>7, <2>9, <3>2, Zenon
  \* The first one: no cooldown is in its way.
  <2>10. CASE ~ (patterns[e.source][q] > 0)
    <3>1. Reports(e.source, q) = {} /\ last[e.source][<<"new_error", q>>] = {}
          BY <2>7, <2>10
    <3>2. KeyOf("new_error", e) = <<"new_error", q>>
          BY DEF KeyOf
    <3>3. "new_error" \in Raised(e) /\ "new_error" \in Types
          BY <2>5, <2>8, <2>10, <3>1, <3>2 DEF Raised, Cooled, Types
    <3>4. PICK j \in DOMAIN a : a[j] = Report("new_error", e)
          BY <1>2, <3>3 DEF FoundOf, a
    <3>5. a[j].source = e.source /\ a[j].key = <<"new_error", q>>
          BY <3>2, <3>3, <3>4, RaisedKey
    <3>6. n + j \in Reports(e.source, q)'
          BY <1>14, <3>4, <3>5 DEF Reports
    <3>7. \A i \in Reports(e.source, q)' : i = n + j
      <4>1. SUFFICES ASSUME NEW i \in DOMAIN raised',
                            raised'[i].source = e.source, raised'[i].key = <<"new_error", q>>
                     PROVE  i = n + j
            BY DEF Reports
      <4>2. i \notin DOMAIN raised
            BY <1>14, <3>1, <4>1 DEF Reports
      <4>3. i - n \in DOMAIN a /\ raised'[i] = a[i - n] /\ i = n + (i - n)
            BY <1>14, <4>1, <4>2
      <4>4. a[i - n].key = a[j].key
            BY <3>5, <4>1, <4>3
      <4>5. i - n = j
            BY <1>2, <4>3, <4>4, Zenon DEF FoundOf, a
      <4>6. QED
            BY <4>3, <4>5
    <3>8. QED
          BY <2>5, <2>6, <3>6, <3>7
  <2>11. QED
        BY <2>9, <2>10
<1>19. ASSUME NEW s \in Sources, NEW p \in Patterns
       PROVE  /\ patterns'[s][p] > 0 <=> Seen(s, p)'
              /\ last'[s][<<"new_error", p>>] # {} => patterns'[s][p] > 0
              /\ Reports(s, p)' # {} <=> Seen(s, p)'
              /\ \A i, j \in Reports(s, p)' : i = j
  <2>1. CASE s = e.source /\ p = q
        BY <1>18, <2>1
  <2>2. CASE ~ (s = e.source /\ p = q)
        BY <1>17, <2>2
  <2>3. QED
        BY <2>1, <2>2
<1>20. Counted' /\ NewErrorOnce'
      BY <1>5, <1>8, <1>19, Zenon DEF Counted, NewErrorOnce
<1>21. QED
      BY <1>20 DEF NInv

LEMMA NextCounted == IInv /\ NInv /\ [Next]_vars => NInv'
<1>1. ASSUME NInv, UNCHANGED <<patterns, arrivals, last, raised>> PROVE NInv'
  <2>1. \A s, p : (Seen(s, p)' <=> Seen(s, p)) /\ Reports(s, p)' = Reports(s, p)
        BY <1>1 DEF Seen, Reports
  <2>2. Counted'
        BY <1>1, <2>1, Zenon DEF NInv, Counted
  <2>3. NewErrorOnce'
        BY <1>1, <2>1, Zenon DEF NInv, NewErrorOnce
  <2>4. QED
        BY <2>2, <2>3 DEF NInv
<1>2. ASSUME NInv, SetThresholds PROVE NInv'
      BY <1>1, <1>2 DEF SetThresholds, stateVars
<1>3. ASSUME NInv, UNCHANGED vars PROVE NInv'
      BY <1>1, <1>3 DEF vars, stateVars
<1>4. QED
      BY <1>2, <1>3, ProcessCounts DEF Next

\* A source reports a pattern once: with its first entry, which no cooldown holds back,
\* and with none after that.
THEOREM NewErrorOnceHolds == Spec => []NewErrorOnce
<1>1. NInv => NewErrorOnce
      BY DEF NInv
<1>2. QED
      BY <1>1, InitCounted, NextCounted, Invariance, PTL DEF Spec

-----------------------------------------------------------------------------
(* The types. *)

\* Whatever is counted of a source is at most the entries it has sent.
AtMostTotal ==
  /\ total \in [Sources -> 0..MaxLogs]
  /\ errors \in [Sources -> Nat]
  /\ patterns \in [Sources -> [Patterns -> Nat]]
  /\ arrivals \in [Entry -> Nat]
  /\ \A s \in Sources : /\ errors[s] <= total[s]
                        /\ \A p \in Patterns : patterns[s][p] <= total[s]
                        /\ \A i \in 1..Len(window[s]) : window[s][i].count \in 1..total[s]
  /\ \A e \in Entry : arrivals[e] <= total[e.source]

ThresholdsTyped == /\ errorThreshold \in ErrorRates
                   /\ burstThreshold \in Bursts
                   /\ rateThreshold \in Multipliers

\* What the trim leaves was there.
LEMMA TrimKeeps ==
  ASSUME NEW w, Ordered(w), NEW ts \in Times, NEW i \in 1..Len(Trim(w, ts))
  PROVE  \E j \in 1..Len(w) : Trim(w, ts)[i] = w[j]
<1> DEFINE I == {j \in 1..Len(w) : w[j].ts > ts - Window}
           m == Min(I)
<1>1. Len(w) \in Nat /\ DOMAIN w = 1..Len(w) /\ w \in Seq(Stamp)
      BY OrderedTimes DEF Ordered
<1>2. CASE I = {} \/ m = 0
  <2>1. Trim(w, ts) = w
        BY <1>2 DEF Trim, SelectInSeq
  <2>2. QED
        BY <2>1
<1>3. CASE I # {} /\ m # 0
  <2>1. m \in 1..Len(w)
        BY <1>1, <1>3, FirstIndex
  <2>2. Trim(w, ts) = SubSeq(w, m, Len(w))
    <3>1. SelectInSeq(w, LAMBDA x : x.ts > ts - Window) = m
          BY <1>3 DEF SelectInSeq
    <3>2. QED
          BY <1>3, <3>1, Zenon DEF Trim
  <2> HIDE DEF m
  <2>3. /\ Len(SubSeq(w, m, Len(w))) = Len(w) - m + 1
        /\ \A k \in 1..Len(SubSeq(w, m, Len(w))) :
             m + k - 1 \in 1..Len(w) /\ SubSeq(w, m, Len(w))[k] = w[m + k - 1]
        BY <1>1, <2>1, SubSeqProperties, SMT
  <2>4. QED
        BY <2>2, <2>3, Zenon
<1>4. QED
      BY <1>2, <1>3

\* The entry adds one to one sample at most.
LEMMA AddSampleCounts ==
  ASSUME NEW w, Ordered(w), NEW ts \in Times, NEW n \in Nat,
         \A i \in 1..Len(w) : w[i].count \in 1..n
  PROVE  \A i \in 1..Len(AddSample(w, ts)) : AddSample(w, ts)[i].count \in 1..(n + 1)
<1> DEFINE v == Trim(w, ts)
           k == Len(v)
           new == [ts |-> ts, count |-> 1]
           y == [v[k] EXCEPT !.count = v[k].count + 1]
<1>1. \A i \in 1..k : v[i].count \in 1..n
      BY TrimKeeps, Zenon
<1>2. /\ k \in Nat /\ DOMAIN v = 1..k /\ v \in Seq(Stamp)
      /\ \A i \in 1..k : v[i] \in Stamp
      BY TrimOrders, OrderedTimes DEF Ordered
<1> HIDE DEF v
<1>3. \A c \in 1..n : c \in 1..(n + 1) /\ c + 1 \in 1..(n + 1)
      BY SMT
<1>4. 1 \in 1..(n + 1)
      BY SMT
<1>5. CASE v # <<>> /\ ts - Last(v).ts < Second
  <2>1. AddSample(w, ts) = [v EXCEPT ![k].count = @ + 1]
        BY <1>5 DEF AddSample, v
  <2>2. [v EXCEPT ![k].count = @ + 1] = [v EXCEPT ![k] = y]
        OBVIOUS
  <2>3. k \in 1..k
        BY <1>2, <1>5, SMT
  <2>4. y \in Stamp /\ y.count = v[k].count + 1
        BY <1>2, <2>3, SMT DEF Stamp
  <2> HIDE DEF y
  <2>5. /\ Len([v EXCEPT ![k] = y]) = k
        /\ \A i \in 1..k : [v EXCEPT ![k] = y][i] = IF i = k THEN y ELSE v[i]
        BY <1>2, <2>3, <2>4, ExceptSeq
  <2>6. \A i \in 1..k : [v EXCEPT ![k] = y][i].count \in 1..(n + 1)
        BY <1>1, <1>3, <2>3, <2>4, <2>5, Zenon
  <2>7. QED
        BY <2>1, <2>2, <2>5, <2>6, Zenon
<1>6. CASE ~ (v # <<>> /\ ts - Last(v).ts < Second)
  <2>1. AddSample(w, ts) = Append(v, new)
        BY <1>6 DEF AddSample, v
  <2>2. new \in Stamp /\ new.count = 1
        BY DEF Stamp
  <2> HIDE DEF new
  <2>3. /\ Len(Append(v, new)) = k + 1 /\ Append(v, new)[k + 1] = new
        /\ \A i \in 1..k : Append(v, new)[i] = v[i]
        /\ \A i \in 1..k + 1 : i \in 1..k \/ i = k + 1
        BY <1>2, <2>2, SMT
  <2>4. QED
        BY <1>1, <1>3, <1>4, <2>1, <2>2, <2>3, Zenon
<1>7. QED
      BY <1>5, <1>6

LEMMA InitAtMostTotal == Init => AtMostTotal /\ ThresholdsTyped
<1> SUFFICES ASSUME Init PROVE AtMostTotal /\ ThresholdsTyped
    OBVIOUS
<1>1. 0 \in Nat /\ 0 \in 0..MaxLogs /\ 0 <= 0
      BY DetectorAssumption, SMT
<1>2. \A s \in Sources : window[s] = <<>> /\ 1..Len(window[s]) = {}
      BY SMT DEF Init
<1>3. \A e \in Entry : e.source \in Sources
      BY DEF Entry
<1>4. QED
      BY <1>1, <1>2, <1>3 DEF Init, AtMostTotal, ThresholdsTyped

\* An entry that is counted is one more of its source, and adds at most one elsewhere.
LEMMA ProcessAtMostTotal ==
  ASSUME WindowsOrdered, AtMostTotal, NEW e \in Entry, Process(e)
  PROVE  AtMostTotal'
<1> DEFINE s == e.source
           q == e.pattern
<1>1. s \in Sources /\ e.ts \in Times /\ q \in Patterns \cup {NoPattern} /\ \A o \in Entry : o.source \in Sources
      BY DEF Entry
<1>2. \A c, d \in Nat : /\ c + 1 \in Nat
                        /\ c <= d => c <= d + 1 /\ c + 1 <= d + 1
                        /\ d < MaxLogs => d + 1 \in 0..MaxLogs
                        /\ c \in 0..MaxLogs => c \in Nat
      BY DetectorAssumption, SMT
<1>3. \A r \in Sources : total[r] \in Nat
      BY DetectorAssumption, SMT DEF AtMostTotal
<1>4. /\ total' = [total EXCEPT ![s] = total[s] + 1]
      /\ total[s] < MaxLogs
      BY DEF Process
<1>5. total' \in [Sources -> 0..MaxLogs]
      BY <1>1, <1>2, <1>3, <1>4, Zenon DEF AtMostTotal
<1>6. total'[s] = total[s] + 1 /\ \A r \in Sources : r # s => total'[r] = total[r]
      BY <1>1, <1>4, Zenon DEF AtMostTotal
<1>7. \A r \in Sources : \A c \in Nat : /\ c <= total[r] => c <= total'[r]
                                        /\ r = s /\ c <= total[r] => c + 1 <= total'[r]
      BY <1>2, <1>3, <1>6, Zenon
<1>8. errors' \in [Sources -> Nat] /\ \A r \in Sources : errors'[r] <= total'[r]
  <2>1. CASE IsError(e)
    <3>1. errors' = [errors EXCEPT ![s] = errors[s] + 1]
          BY <2>1 DEF Process, CountError
    <3>2. \A r \in Sources : errors'[r] = IF r = s THEN errors[r] + 1 ELSE errors[r]
          BY <3>1, Zenon DEF AtMostTotal
    <3>3. errors' \in [Sources -> Nat]
          BY <1>1, <1>2, <3>1, Zenon DEF AtMostTotal
    <3>4. QED
          BY <1>7, <3>2, <3>3, Zenon DEF AtMostTotal
  <2>2. CASE ~ IsError(e)
    <3>1. errors' = errors
          BY <2>2 DEF Process, CountError
    <3>2. QED
          BY <1>7, <3>1, Zenon DEF AtMostTotal
  <2>3. QED
        BY <2>1, <2>2
<1>9. /\ patterns' \in [Sources -> [Patterns -> Nat]]
      /\ \A r \in Sources : \A p \in Patterns : patterns'[r][p] <= total'[r]
  <2>1. CASE IsError(e)
    <3> DEFINE row == [patterns[s] EXCEPT ![q] = patterns[s][q] + 1]
    <3>1. patterns' = [patterns EXCEPT ![s] = row]
          BY <2>1 DEF Process, CountError
    <3>2. row \in [Patterns -> Nat] /\ \A p \in Patterns : row[p] = IF p = q THEN patterns[s][p] + 1 ELSE patterns[s][p]
      <4>1. q \in Patterns /\ patterns[s] \in [Patterns -> Nat]
            BY <1>1, <2>1 DEF IsError, AtMostTotal
      <4>2. patterns[s][q] + 1 \in Nat
            BY <1>2, <4>1, Zenon
      <4>3. QED
            BY <4>1, <4>2, Zenon
    <3>3. \A p \in Patterns : row[p] <= total'[s]
      <4> HIDE DEF row
      <4>1. TAKE p \in Patterns
      <4>2. patterns[s][p] \in Nat /\ patterns[s][p] <= total[s]
            BY <1>1, Zenon DEF AtMostTotal
      <4>3. patterns[s][p] <= total'[s] /\ patterns[s][p] + 1 <= total'[s]
            BY <1>1, <1>7, <4>2, Zenon
      <4>4. QED
            BY <3>2, <4>3, Zenon
    <3> HIDE DEF row
    <3>4. \A r \in Sources : patterns'[r] = IF r = s THEN row ELSE patterns[r]
          BY <3>1, Zenon DEF AtMostTotal
    <3>5. patterns' \in [Sources -> [Patterns -> Nat]]
          BY <3>1, <3>2, Zenon DEF AtMostTotal
    <3>6. \A r \in Sources : \A p \in Patterns : patterns'[r][p] <= total'[r]
          BY <1>7, <3>3, <3>4, Zenon DEF AtMostTotal
    <3>7. QED
          BY <3>5, <3>6
  <2>2. CASE ~ IsError(e)
    <3>1. patterns' = patterns
          BY <2>2 DEF Process, CountError
    <3>2. QED
          BY <1>7, <3>1, Zenon DEF AtMostTotal
  <2>3. QED
        BY <2>1, <2>2
<1>10. \A r \in Sources : \A i \in 1..Len(window'[r]) : window'[r][i].count \in 1..total'[r]
  <2> SUFFICES ASSUME NEW r \in Sources
               PROVE  \A i \in 1..Len(window'[r]) : window'[r][i].count \in 1..total'[r]
      OBVIOUS
  <2>1. window' = [window EXCEPT ![s] = AddSample(window[s], e.ts)]
        BY DEF Process
  <2>2. window'[r] = IF r = s THEN AddSample(window[s], e.ts) ELSE window[r]
        BY <2>1, Zenon DEF WindowsOrdered
  <2>3. CASE r = s
    <3>1. Ordered(window[s]) /\ \A i \in 1..Len(window[s]) : window[s][i].count \in 1..total[s]
          BY <1>1, Zenon DEF WindowsOrdered, AtMostTotal
    <3>2. \A i \in 1..Len(AddSample(window[s], e.ts)) : AddSample(window[s], e.ts)[i].count \in 1..(total[s] + 1)
          BY <1>1, <1>3, <3>1, AddSampleCounts
    <3>3. QED
          BY <1>6, <2>2, <2>3, <3>2, Zenon
  <2>4. CASE r # s
        BY <1>6, <2>2, <2>4, Zenon DEF AtMostTotal
  <2>5. QED
        BY <2>3, <2>4
<1>11. arrivals' \in [Entry -> Nat] /\ \A o \in Entry : arrivals'[o] <= total'[o.source]
  <2>1. arrivals' = [arrivals EXCEPT ![e] = arrivals[e] + 1]
        BY DEF Process
  <2>2. arrivals' \in [Entry -> Nat]
        BY <1>2, <2>1, Zenon DEF AtMostTotal
  <2>3. \A o \in Entry : arrivals'[o] = IF o = e THEN arrivals[o] + 1 ELSE arrivals[o]
        BY <2>1, Zenon DEF AtMostTotal
  <2>4. QED
        BY <1>1, <1>7, <2>2, <2>3, Zenon DEF AtMostTotal
<1>12. QED
      BY <1>5, <1>8, <1>9, <1>10, <1>11, Zenon DEF AtMostTotal

LEMMA NextAtMostTotal ==
  WindowsOrdered /\ AtMostTotal /\ ThresholdsTyped /\ [Next]_vars => AtMostTotal' /\ ThresholdsTyped'
<1>1. ASSUME AtMostTotal, UNCHANGED stateVars, UNCHANGED arrivals PROVE AtMostTotal'
      BY <1>1, Zenon DEF AtMostTotal, stateVars
<1>2. ASSUME ThresholdsTyped, UNCHANGED thresholds PROVE ThresholdsTyped'
      BY <1>2 DEF ThresholdsTyped, thresholds
<1>3. ASSUME ThresholdsTyped, SetThresholds PROVE ThresholdsTyped'
      BY <1>3 DEF ThresholdsTyped, SetThresholds
<1>4. QED
      BY <1>1, <1>2, <1>3, ProcessAtMostTotal DEF Next, vars, Process, SetThresholds

LEMMA TypesHold == IInv /\ WindowsOrdered /\ AtMostTotal /\ ThresholdsTyped => TypeOK
<1> SUFFICES ASSUME IInv, WindowsOrdered, AtMostTotal, ThresholdsTyped PROVE TypeOK
    OBVIOUS
<1>1. \A s \in Sources : total[s] \in Nat /\ total[s] <= MaxLogs /\ 1..total[s] \subseteq 1..MaxLogs
      BY DetectorAssumption, SMT DEF AtMostTotal
<1>2. \A c, n \in Nat : n <= MaxLogs /\ c <= n => c \in 0..MaxLogs
      BY DetectorAssumption, SMT
<1>3. errors \in [Sources -> 0..MaxLogs]
      BY <1>1, <1>2, Zenon DEF AtMostTotal
<1>4. patterns \in [Sources -> [Patterns -> 0..MaxLogs]]
  <2>1. \A s \in Sources : patterns[s] \in [Patterns -> 0..MaxLogs]
        BY <1>1, <1>2, Zenon DEF AtMostTotal
  <2>2. QED
        BY <2>1, Zenon DEF AtMostTotal
<1>5. arrivals \in [Entry -> 0..MaxLogs]
  <2>1. \A e \in Entry : e.source \in Sources
        BY DEF Entry
  <2>2. QED
        BY <1>1, <1>2, <2>1, Zenon DEF AtMostTotal
<1>6. window \in [Sources -> Seq(Sample)]
  <2>1. \A s \in Sources : window[s] \in Seq(Sample)
    <3>1. TAKE s \in Sources
    <3>2. /\ Len(window[s]) \in Nat /\ window[s] \in Seq(Stamp)
          /\ \A i \in 1..Len(window[s]) : window[s][i] \in Stamp /\ window[s][i].count \in 1..MaxLogs
          BY <1>1, OrderedTimes, Zenon DEF WindowsOrdered, Ordered, AtMostTotal
    <3>3. \A x \in Stamp : x.count \in 1..MaxLogs => x \in Sample
          BY DEF Stamp, Sample
    <3>4. \A i \in 1..Len(window[s]) : window[s][i] \in Sample
          BY <3>2, <3>3, Zenon
    <3>5. QED
          BY <3>2, <3>4, SMT
  <2>2. QED
        BY <2>1, Zenon DEF WindowsOrdered
<1>7. QED
      BY <1>3, <1>4, <1>5, <1>6, Zenon DEF IInv, LastTyped, AtMostTotal, ThresholdsTyped, TypeOK

\* detector.go:24-53: the counters of a source's state, the samples of its window and the
\* anomalies keep their types: none counts more than the entries the source has sent.
THEOREM TypeCorrect == Spec => []TypeOK
<1>1. Spec => []WindowsOrdered
      BY InitOrdered, NextOrdered, PTL DEF Spec
<1>2. Spec => [](AtMostTotal /\ ThresholdsTyped)
      BY <1>1, InitAtMostTotal, NextAtMostTotal, PTL DEF Spec
<1>3. QED
      BY <1>1, <1>2, Invariance, TypesHold, PTL

-----------------------------------------------------------------------------
(* The ring of recent messages. *)

NoBurst == \A i \in DOMAIN raised : raised[i].key[1] # "log_burst"

\* detector.go:275-283: what counts as recent is no more than the ring holds, so a burst
\* threshold of more than twice that turns the detection of bursts off.
THEOREM NoBurstBeyondRing ==
  ASSUME \A n \in Bursts : n \div 2 > RingSize
  PROVE  Spec => []NoBurst
<1>1. Init => NoBurst
      BY DEF Init, NoBurst
<1>2. IInv /\ AtMostTotal /\ ThresholdsTyped /\ NoBurst /\ [Next]_vars => NoBurst'
  <2> SUFFICES ASSUME IInv, AtMostTotal, ThresholdsTyped, NoBurst, [Next]_vars PROVE NoBurst'
      OBVIOUS
  <2>1. CASE raised' = raised
        BY <2>1 DEF NoBurst
  <2>2. ASSUME NEW e \in Entry, Process(e)
        PROVE  NoBurst'
    <3>1. total'[e.source] \in Nat
      <4>1. e.source \in Sources /\ total' = [total EXCEPT ![e.source] = total[e.source] + 1]
            BY <2>2 DEF Process, Entry
      <4>2. total[e.source] \in Nat
            BY <4>1, DetectorAssumption, SMT DEF AtMostTotal
      <4>3. total'[e.source] = total[e.source] + 1
            BY <4>1 DEF AtMostTotal
      <4>4. QED
            BY <4>2, <4>3, SMT
    <3>2. burstThreshold \in Bursts /\ burstThreshold \div 2 > RingSize /\ RingSize \in Nat
          BY DetectorAssumption DEF ThresholdsTyped
    <3>3. "log_burst" \notin Firing(e)
      <4> DEFINE n == total'[e.source]
                 recent == IF n < RingSize THEN n ELSE RingSize
                 half == burstThreshold \div 2
      <4>1. recent <= RingSize /\ recent \in Nat
            BY <3>1, <3>2, SMT
      <4>2. half \in Int
            BY <3>2, DetectorAssumption, SMT
      <4>3. ~ (recent >= half)
        <5> HIDE DEF recent, half
        <5>1. half > RingSize
              BY <3>2 DEF half
        <5>2. QED
              BY <3>2, <4>1, <4>2, <5>1, SMT
      <4>4. "log_burst" \in Firing(e) => recent >= half
            BY DEF Firing
      <4>5. QED
            BY <4>3, <4>4
    <3>4. raised' = raised \o Anomalies(e)
          BY <2>2 DEF Process
    <3>5. /\ Anomalies(e) \in Seq(Anomaly)
          /\ \A i \in DOMAIN Anomalies(e) : Anomalies(e)[i].key[1] # "log_burst"
      <4>1. FoundOf(Anomalies(e), Types, e)
            BY AnomaliesFound
      <4>2. ASSUME NEW i \in DOMAIN Anomalies(e) PROVE Anomalies(e)[i].key[1] # "log_burst"
        <5>1. PICK t \in Types : t \in Raised(e) /\ Anomalies(e)[i] = Report(t, e)
              BY <4>1 DEF FoundOf
        <5>2. t \in Firing(e) /\ Anomalies(e)[i].key[1] = t
              BY <5>1 DEF Raised, Report, KeyOf
        <5>3. QED
              BY <3>3, <5>2
      <4>3. QED
            BY <4>1, <4>2 DEF FoundOf
    <3> DEFINE found == Anomalies(e)
    <3> HIDE DEF found
    <3>6. /\ raised \in Seq(Anomaly) /\ found \in Seq(Anomaly) /\ raised' = raised \o found
          /\ \A i \in DOMAIN found : found[i].key[1] # "log_burst"
          BY <3>4, <3>5 DEF IInv, found
    <3>7. \A i \in DOMAIN raised' : (i \in DOMAIN raised /\ raised'[i] = raised[i])
                                      \/ \E j \in DOMAIN found : raised'[i] = found[j]
      <4>1. /\ DOMAIN raised' = 1..(Len(raised) + Len(found))
            /\ DOMAIN raised = 1..Len(raised) /\ DOMAIN found = 1..Len(found)
            /\ Len(raised) \in Nat /\ Len(found) \in Nat
            /\ \A i \in 1..(Len(raised) + Len(found)) :
                 raised'[i] = IF i <= Len(raised) THEN raised[i] ELSE found[i - Len(raised)]
            BY <3>6, SMT
      <4>2. \A l, m \in Nat : \A i \in 1..(l + m) : i \in 1..l \/ (~ (i <= l) /\ i - l \in 1..m)
            BY SMT
      <4>3. \A l \in Nat : \A i \in 1..l : i <= l
            BY SMT
      <4>4. QED
            BY <4>1, <4>2, <4>3, Zenon
    <3>8. QED
          BY <3>6, <3>7 DEF NoBurst
  <2>3. QED
        BY <2>1, <2>2 DEF Next, SetThresholds, vars
<1>3. QED
      BY <1>1, <1>2, Invariance, InitAtMostTotal, NextAtMostTotal, InitOrdered, NextOrdered, PTL DEF Spec
=============================================================================
