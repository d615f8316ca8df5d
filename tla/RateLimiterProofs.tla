-------------------------- MODULE RateLimiterProofs --------------------------
(***************************************************************************)
(* For any clients, limits and length of the window: the limiter's type,   *)
(* that no span of a minute sees more than twice the limit, and that a     *)
(* client is refused only after the limit was let through in one.          *)
(***************************************************************************)
EXTENDS RateLimiter, TLAPS

\* How long ago the window of ip was opened, while it is open.
Age(ip) == Window - left[ip]

\* While a window is open, the requests since it was opened are those it has counted,
\* not one more or less, and no more than the limit came before them within a minute.
OpenWindows ==
  \A ip \in IPs : ~Expired(ip) =>
    /\ ip \in known
    /\ count[ip] <= limit
    /\ admitted[ip][Age(ip)] = count[ip]
    /\ admitted[ip][Window] <= limit + count[ip]

\* Once it has expired, the requests of the last minute are all of that one window, and
\* none of them is of this very tick.
ExpiredWindows ==
  \A ip \in IPs : Expired(ip) => /\ admitted[ip][0] = 0
                                 /\ admitted[ip][Window] <= limit

\* A longer span has seen no fewer requests.
Cumulative == \A ip \in IPs : \A a, b \in Ages : a <= b => admitted[ip][a] <= admitted[ip][b]

IInv == /\ TypeOK
        /\ OpenWindows
        /\ ExpiredWindows
        /\ Cumulative

-----------------------------------------------------------------------------
LEMMA AgesFacts ==
  /\ Window \in Nat /\ 0 \in Ages /\ Window \in Ages
  /\ \A a \in Ages : a \in Int /\ 0 <= a /\ a <= Window
  /\ \A a \in Ages : a # 0 => a - 1 \in Ages
BY LimiterAssumption, SMT DEF Ages

\* A limit below one means the default: no limiter refuses everything.
LEMMA EffectiveIsPositive ==
  ASSUME NEW n \in EffectiveLimits
  PROVE  n \in Nat \ {0}
BY LimiterAssumption, SMT DEF EffectiveLimits, Effective

\* What the types say of one client.
LEMMA OfClient ==
  ASSUME TypeOK, NEW ip \in IPs
  PROVE  /\ limit \in Nat /\ limit > 0
         /\ count[ip] \in Nat
         /\ left[ip] \in -1..Window /\ left[ip] \in Int
         /\ \A a \in Ages : admitted[ip][a] \in Nat
         /\ ~Expired(ip) => Age(ip) \in Ages
         /\ Expired(ip) <=> left[ip] = -1
<1>1. Window \in Nat
      BY LimiterAssumption
<1>2. limit \in Nat /\ limit > 0
      BY SMT DEF TypeOK
<1>3. count[ip] \in Nat /\ left[ip] \in -1..Window
      BY DEF TypeOK
<1>4. \A a \in Ages : admitted[ip][a] \in Nat
      BY DEF TypeOK
<1>5. ~Expired(ip) => Age(ip) \in Ages
      BY <1>1, <1>3, SMT DEF Expired, Age, Ages
<1>6. Expired(ip) <=> left[ip] = -1
      BY <1>1, <1>3, SMT DEF Expired
<1>7. QED
      BY <1>1, <1>2, <1>3, <1>4, <1>5, <1>6, SMT

\* An empty limiter of any limit: Init, and what a reload puts in place.
LEMMA EmptyHolds ==
  ASSUME limit \in EffectiveLimits,
         known = {},
         count = [ip \in IPs |-> 0],
         left = [ip \in IPs |-> -1],
         admitted = [ip \in IPs |-> [a \in Ages |-> 0]]
  PROVE  IInv
<1>1. Window \in Nat /\ limit \in Nat \ {0}
      BY LimiterAssumption, EffectiveIsPositive
<1>2. TypeOK
      BY <1>1, SMT DEF TypeOK
<1>3. \A ip \in IPs : Expired(ip)
  <2>1. -1 < 0
        BY SMT
  <2>2. QED
        BY <2>1 DEF Expired
<1>4. \A ip \in IPs : \A a \in Ages : admitted[ip][a] = 0
      OBVIOUS
<1>5. Cumulative
      BY <1>4, SMT DEF Cumulative
<1>6. 0 <= limit
      BY <1>1, SMT
<1>7. QED
      BY <1>2, <1>3, <1>4, <1>5, <1>6, AgesFacts, Zenon DEF IInv, OpenWindows, ExpiredWindows

LEMMA InitHolds == Init => IInv
BY EmptyHolds DEF Init

LEMMA ReloadHolds == Reload => IInv'
<1>1. SUFFICES ASSUME Reload PROVE IInv'
      OBVIOUS
<1>2. /\ limit' \in EffectiveLimits
      /\ known' = {}
      /\ count' = [ip \in IPs |-> 0]
      /\ left' = [ip \in IPs |-> -1]
      /\ admitted' = [ip \in IPs |-> [a \in Ages |-> 0]]
      BY <1>1 DEF Reload, Empty
<1>3. Window \in Nat /\ limit' \in Nat \ {0}
      BY <1>2, LimiterAssumption, EffectiveIsPositive
<1>4. TypeOK'
      BY <1>2, <1>3, SMT DEF TypeOK
<1>5. \A ip \in IPs : Expired(ip)'
      BY <1>2, SMT DEF Expired
<1>6. \A ip \in IPs : \A a \in Ages : admitted'[ip][a] = 0
      BY <1>2
<1>7. Cumulative'
      BY <1>6, SMT DEF Cumulative
<1>8. 0 <= limit'
      BY <1>3, SMT
<1>9. QED
      BY <1>4, <1>5, <1>6, <1>7, <1>8, AgesFacts, Zenon DEF IInv, OpenWindows, ExpiredWindows

-----------------------------------------------------------------------------
(* A request that is let through. *)

\* It is one more in every span.
LEMMA RememberCounts ==
  ASSUME TypeOK, NEW ip \in IPs, Remember(ip)
  PROVE  /\ admitted' \in [IPs -> [Ages -> Nat]]
         /\ \A a \in Ages : admitted'[ip][a] = admitted[ip][a] + 1
         /\ \A o \in IPs \ {ip} : admitted'[o] = admitted[o]
         /\ Cumulative => Cumulative'
<1> DEFINE more == [a \in Ages |-> admitted[ip][a] + 1]
<1>1. admitted' = [admitted EXCEPT ![ip] = more]
      BY DEF Remember
<1>2. more \in [Ages -> Nat]
      BY OfClient, SMT
<1>3. \A a \in Ages : more[a] = admitted[ip][a] + 1
      OBVIOUS
<1> HIDE DEF more
<1>4. /\ admitted' \in [IPs -> [Ages -> Nat]]
      /\ admitted'[ip] = more
      /\ \A o \in IPs \ {ip} : admitted'[o] = admitted[o]
      BY <1>1, <1>2, Zenon DEF TypeOK
<1>5. \A a \in Ages : admitted'[ip][a] = admitted[ip][a] + 1
      BY <1>3, <1>4
<1>6. ASSUME Cumulative PROVE Cumulative'
  <2>1. SUFFICES ASSUME NEW o \in IPs, NEW a \in Ages, NEW b \in Ages, a <= b
                 PROVE  admitted'[o][a] <= admitted'[o][b]
        BY Zenon DEF Cumulative
  <2>2. admitted[o][a] <= admitted[o][b]
        BY <1>6, <2>1 DEF Cumulative
  <2>3. \A m, n \in Nat : m <= n => m + 1 <= n + 1
        BY SMT
  <2>4. CASE o = ip
    <3>1. admitted[ip][a] \in Nat /\ admitted[ip][b] \in Nat
          BY OfClient
    <3>2. QED
          BY <1>5, <2>2, <2>3, <2>4, <3>1, Zenon
  <2>5. CASE o # ip
        BY <1>4, <2>2, <2>5
  <2>6. QED
        BY <2>4, <2>5
<1>7. QED
      BY <1>4, <1>5, <1>6

\* The clients whose state a step leaves alone keep what is said of them.
OfOne(ip) == /\ ~Expired(ip) => /\ ip \in known
                                /\ count[ip] <= limit
                                /\ admitted[ip][Age(ip)] = count[ip]
                                /\ admitted[ip][Window] <= limit + count[ip]
             /\ Expired(ip) => /\ admitted[ip][0] = 0
                               /\ admitted[ip][Window] <= limit

LEMMA OneByOne == (OpenWindows /\ ExpiredWindows) <=> \A ip \in IPs : OfOne(ip)
BY Zenon DEF OpenWindows, ExpiredWindows, OfOne

LEMMA OpenWindowHolds ==
  ASSUME IInv, NEW ip \in IPs, OpenWindow(ip)
  PROVE  IInv'
<1>1. TypeOK /\ Cumulative /\ \A o \in IPs : OfOne(o)
      BY OneByOne DEF IInv
<1>2. /\ known' = known \cup {ip}
      /\ count' = [count EXCEPT ![ip] = 1]
      /\ left' = [left EXCEPT ![ip] = Window]
      /\ Remember(ip) /\ limit' = limit
      BY DEF OpenWindow
<1>3. Window \in Nat /\ Window \in -1..Window
      BY LimiterAssumption, SMT
<1>4. /\ count' \in [IPs -> Nat] /\ count'[ip] = 1
      /\ left' \in [IPs -> -1..Window] /\ left'[ip] = Window
      /\ \A o \in IPs \ {ip} : count'[o] = count[o] /\ left'[o] = left[o]
  <2>1. 1 \in Nat
        OBVIOUS
  <2>2. QED
        BY <1>1, <1>2, <1>3, <2>1, Zenon DEF TypeOK
<1>5. TypeOK'
      BY <1>1, <1>2, <1>4, RememberCounts, Zenon DEF TypeOK
\* The window that is opened had expired: nothing was let through in this tick.
<1>6. admitted[ip][0] = 0 /\ admitted[ip][Window] <= limit
      BY <1>1 DEF OpenWindow, OfOne
<1>7. OfOne(ip)'
  <2>1. ~Expired(ip)'
        BY <1>3, <1>4, SMT DEF Expired
  <2>2. Age(ip)' = 0
        BY <1>3, <1>4, SMT DEF Age
  <2>3. admitted'[ip][0] = admitted[ip][0] + 1 /\ admitted'[ip][Window] = admitted[ip][Window] + 1
        BY <1>1, <1>2, RememberCounts, AgesFacts
  <2>4. /\ admitted'[ip][0] = 1
        /\ admitted'[ip][Window] <= limit + 1
        /\ 1 <= limit
    <3>1. limit \in Nat /\ limit > 0 /\ admitted[ip][Window] \in Nat
          BY <1>1, OfClient, AgesFacts
    <3>2. \A m, n \in Nat : m <= n => m + 1 <= n + 1
          BY SMT
    <3>3. limit > 0 => 1 <= limit
          BY <3>1, SMT
    <3>4. 0 + 1 = 1
          BY SMT
    <3>5. QED
          BY <1>6, <2>3, <3>1, <3>2, <3>3, <3>4, Zenon
  <2>5. QED
        BY <1>2, <1>4, <2>1, <2>2, <2>4, Zenon DEF OfOne
<1>8. \A o \in IPs \ {ip} : OfOne(o)'
      BY <1>1, <1>2, <1>4, RememberCounts, Zenon DEF OfOne, Expired, Age
<1>9. OpenWindows' /\ ExpiredWindows'
      BY <1>7, <1>8, Zenon DEF OpenWindows, ExpiredWindows, OfOne
<1>10. QED
      BY <1>1, <1>2, <1>5, <1>9, RememberCounts DEF IInv

LEMMA CountRequestHolds ==
  ASSUME IInv, NEW ip \in IPs, CountRequest(ip)
  PROVE  IInv'
<1>1. TypeOK /\ Cumulative /\ \A o \in IPs : OfOne(o)
      BY OneByOne DEF IInv
<1>2. /\ count' = [count EXCEPT ![ip] = count[ip] + 1]
      /\ Remember(ip) /\ limit' = limit /\ known' = known /\ left' = left
      /\ ip \in known /\ ~Expired(ip) /\ count[ip] < limit
      BY DEF CountRequest
<1>3. count[ip] \in Nat /\ count[ip] + 1 \in Nat /\ limit \in Nat
      BY <1>1, OfClient, SMT
<1>4. /\ count' \in [IPs -> Nat] /\ count'[ip] = count[ip] + 1
      /\ \A o \in IPs \ {ip} : count'[o] = count[o]
      BY <1>1, <1>2, <1>3, Zenon DEF TypeOK
<1>5. TypeOK'
      BY <1>1, <1>2, <1>4, RememberCounts, Zenon DEF TypeOK
<1>6. OfOne(ip)'
  <2>1. Age(ip) \in Ages /\ Window \in Ages
        BY <1>1, <1>2, OfClient, AgesFacts
  <2>2. /\ admitted'[ip][Age(ip)] = admitted[ip][Age(ip)] + 1
        /\ admitted'[ip][Window] = admitted[ip][Window] + 1
        BY <1>1, <1>2, <2>1, RememberCounts
  <2>3. /\ admitted[ip][Age(ip)] = count[ip]
        /\ admitted[ip][Window] \in Nat /\ admitted[ip][Window] <= limit + count[ip]
        BY <1>1, <1>2, <2>1, OfClient DEF OfOne
  <2>4. \A y, c, l \in Nat : c < l /\ y <= l + c => c + 1 <= l /\ y + 1 <= l + (c + 1)
        BY SMT
  <2>5. /\ count[ip] + 1 <= limit
        /\ admitted[ip][Age(ip)] + 1 = count[ip] + 1
        /\ admitted[ip][Window] + 1 <= limit + (count[ip] + 1)
        BY <1>2, <1>3, <2>3, <2>4, Zenon
  <2>6. QED
        BY <1>2, <1>4, <2>2, <2>5, Zenon DEF OfOne, Expired, Age
<1>7. \A o \in IPs \ {ip} : OfOne(o)'
      BY <1>1, <1>2, <1>4, RememberCounts, Zenon DEF OfOne, Expired, Age
<1>8. OpenWindows' /\ ExpiredWindows'
      BY <1>6, <1>7, Zenon DEF OpenWindows, ExpiredWindows, OfOne
<1>9. QED
      BY <1>1, <1>2, <1>5, <1>8, RememberCounts DEF IInv

\* The sweep forgets only clients whose window has expired.
LEMMA CleanupHolds ==
  ASSUME IInv, Cleanup
  PROVE  IInv'
<1>1. known' = {ip \in known : ~Expired(ip)} /\ UNCHANGED <<limit, count, left, admitted>>
      BY DEF Cleanup
<1>2. TypeOK'
      BY <1>1, Zenon DEF IInv, TypeOK
<1>3. \A ip \in IPs : ~Expired(ip) /\ ip \in known => ip \in known'
      BY <1>1
<1>4. QED
      BY <1>1, <1>2, <1>3, Zenon DEF IInv, OpenWindows, ExpiredWindows, Cumulative, Expired, Age

-----------------------------------------------------------------------------
\* A tick makes every request older: what was within a ticks is within a + 1.
LEMMA TickHolds ==
  ASSUME IInv, Tick
  PROVE  IInv'
<1>1. TypeOK /\ Cumulative /\ \A o \in IPs : OfOne(o)
      BY OneByOne DEF IInv
<1>2. UNCHANGED <<limit, known, count>>
      BY DEF Tick
<1>3. ASSUME NEW ip \in IPs
      PROVE  /\ left'[ip] = IF Expired(ip) THEN -1 ELSE left[ip] - 1
             /\ left'[ip] \in -1..Window
             /\ \A a \in Ages : admitted'[ip][a] = IF a = 0 THEN 0 ELSE admitted[ip][a - 1]
             /\ \A a \in Ages : admitted'[ip][a] \in Nat
  <2>1. left'[ip] = IF Expired(ip) THEN -1 ELSE left[ip] - 1
        BY DEF Tick
  <2>2. \A a \in Ages : admitted'[ip][a] = IF a = 0 THEN 0 ELSE admitted[ip][a - 1]
        BY DEF Tick
  <2>3. \A a \in Ages : admitted'[ip][a] \in Nat
        BY <1>1, <2>2, AgesFacts, OfClient
  <2>4. left'[ip] \in -1..Window
    <3>1. Window \in Nat /\ left[ip] \in -1..Window
          BY <1>1, OfClient, LimiterAssumption
    <3>2. QED
          BY <2>1, <3>1, SMT DEF Expired
  <2>5. QED
        BY <2>1, <2>2, <2>3, <2>4
<1>4. TypeOK'
  <2>1. left' \in [IPs -> -1..Window]
        BY <1>3 DEF Tick
  <2>2. admitted' \in [IPs -> [Ages -> Nat]]
    <3>1. \A ip \in IPs : [a \in Ages |-> IF a = 0 THEN 0 ELSE admitted[ip][a - 1]] \in [Ages -> Nat]
          BY <1>1, AgesFacts, OfClient
    <3>2. QED
          BY <3>1, Zenon DEF Tick
  <2>3. QED
        BY <1>1, <1>2, <2>1, <2>2 DEF TypeOK
<1>5. Cumulative'
  <2>1. SUFFICES ASSUME NEW ip \in IPs, NEW a \in Ages, NEW b \in Ages, a <= b
                 PROVE  admitted'[ip][a] <= admitted'[ip][b]
        BY Zenon DEF Cumulative
  <2>2. CASE a = 0
    <3>1. admitted'[ip][a] = 0 /\ admitted'[ip][b] \in Nat
          BY <1>3, <2>2
    <3>2. \A n \in Nat : 0 <= n
          BY SMT
    <3>3. QED
          BY <3>1, <3>2, Zenon
  <2>3. CASE a # 0
    <3>1. b # 0 /\ a - 1 <= b - 1
          BY <2>1, <2>3, AgesFacts, SMT
    <3>2. a - 1 \in Ages /\ b - 1 \in Ages
          BY <2>3, <3>1, AgesFacts
    <3>3. admitted[ip][a - 1] <= admitted[ip][b - 1]
          BY <1>1, <3>1, <3>2, Zenon DEF Cumulative
    <3>4. QED
          BY <1>3, <2>3, <3>1, <3>3
  <2>4. QED
        BY <2>2, <2>3
\* Within a minute of the next tick there is no more than there was.
<1>6. ASSUME NEW ip \in IPs, NEW n \in Nat, admitted[ip][Window] <= n
      PROVE  admitted'[ip][Window] <= n
  <2>1. CASE Window = 0
    <3>1. admitted'[ip][Window] = 0
          BY <1>3, <2>1, AgesFacts
    <3>2. 0 <= n
          BY SMT
    <3>3. QED
          BY <3>1, <3>2, Zenon
  <2>2. CASE Window # 0
    <3>1. Window - 1 \in Ages /\ Window - 1 <= Window
          BY <2>2, AgesFacts, SMT
    <3>2. admitted[ip][Window - 1] <= admitted[ip][Window]
          BY <1>1, <3>1, AgesFacts, Zenon DEF Cumulative
    <3>3. admitted[ip][Window - 1] \in Nat /\ admitted[ip][Window] \in Nat
          BY <1>1, <3>1, AgesFacts, OfClient
    <3>4. \A x, y, z \in Nat : x <= y /\ y <= z => x <= z
          BY SMT
    <3>5. admitted'[ip][Window] = admitted[ip][Window - 1]
          BY <1>3, <2>2, AgesFacts
    <3>6. QED
          BY <1>6, <3>2, <3>3, <3>4, <3>5, Zenon
  <2>3. QED
        BY <2>1, <2>2
<1>7. ASSUME NEW ip \in IPs PROVE OfOne(ip)'
  <2>1. admitted'[ip][0] = 0
        BY <1>3, AgesFacts
  <2>2. /\ limit \in Nat /\ count[ip] \in Nat /\ limit + count[ip] \in Nat
        /\ left[ip] \in Int /\ Window \in Nat
        BY <1>1, OfClient, LimiterAssumption, SMT
  <2>3. CASE Expired(ip)
    <3>1. Expired(ip)'
          BY <1>3, <2>3, SMT DEF Expired
    <3>2. admitted'[ip][Window] <= limit
          BY <1>1, <1>6, <2>2, <2>3 DEF OfOne
    <3>3. QED
          BY <1>2, <2>1, <3>1, <3>2, Zenon DEF OfOne
  <2>4. CASE ~Expired(ip)
    <3>1. /\ ip \in known /\ count[ip] <= limit
          /\ admitted[ip][Age(ip)] = count[ip]
          /\ admitted[ip][Window] <= limit + count[ip]
          BY <1>1, <2>4 DEF OfOne
    <3>2. left'[ip] = left[ip] - 1 /\ Age(ip) \in Ages
          BY <1>1, <1>3, <2>4, OfClient
    \* The last tick of the window: all that a minute holds is of this window.
    <3>3. CASE left[ip] = 0
      <4>1. Expired(ip)' /\ Age(ip) = Window
            BY <2>2, <3>2, <3>3, SMT DEF Expired, Age
      <4>2. admitted'[ip][Window] <= count[ip]
        <5>1. \A n \in Nat : n <= n
              BY SMT
        <5>2. admitted[ip][Window] <= count[ip]
              BY <2>2, <3>1, <4>1, <5>1
        <5>3. QED
              BY <1>6, <2>2, <5>2
      <4>3. admitted'[ip][Window] \in Nat
            BY <1>3, AgesFacts
      <4>4. \A x, y, z \in Nat : x <= y /\ y <= z => x <= z
            BY SMT
      <4>5. admitted'[ip][Window] <= limit
            BY <2>2, <3>1, <4>2, <4>3, <4>4, Zenon
      <4>6. QED
            BY <1>2, <2>1, <4>1, <4>5, Zenon DEF OfOne
    <3>4. CASE left[ip] # 0
      <4>1. /\ ~Expired(ip)' /\ Age(ip)' = Age(ip) + 1
            /\ Age(ip)' # 0 /\ Age(ip)' \in Ages /\ Age(ip)' - 1 = Age(ip)
            BY <1>1, <2>2, <2>4, <3>2, <3>4, OfClient, SMT DEF Expired, Age, Ages
      <4>2. admitted'[ip][Age(ip)'] = admitted[ip][Age(ip)]
            BY <1>3, <4>1
      <4>3. admitted'[ip][Window] <= limit + count[ip]
            BY <1>6, <2>2, <3>1
      <4>4. QED
            BY <1>2, <3>1, <4>1, <4>2, <4>3, Zenon DEF OfOne
    <3>5. QED
          BY <3>3, <3>4
  <2>5. QED
        BY <2>3, <2>4
<1>8. QED
      BY <1>4, <1>5, <1>7, Zenon DEF IInv, OpenWindows, ExpiredWindows, OfOne

-----------------------------------------------------------------------------
LEMMA NextHolds == IInv /\ [Next]_vars => IInv'
<1>1. ASSUME IInv, UNCHANGED vars PROVE IInv'
      BY <1>1, Zenon DEF vars, IInv, TypeOK, OpenWindows, ExpiredWindows, Cumulative, Expired, Age
<1>2. ASSUME IInv, NEW ip \in IPs, Allow(ip) PROVE IInv'
      BY <1>1, <1>2, OpenWindowHolds, CountRequestHolds DEF Allow, Admit, Refuse
<1>3. QED
      BY <1>1, <1>2, CleanupHolds, ReloadHolds, TickHolds DEF Next

\* Windows that are open hold what they counted, windows that expired one limit at most.
THEOREM Invariance == Spec => []IInv
<1>1. QED
      BY InitHolds, NextHolds, PTL DEF Spec

\* The limiter's counts and windows keep their types, and its limit is one or more
\* whatever a configuration carries.
THEOREM TypeCorrect == Spec => []TypeOK
<1>1. IInv => TypeOK
      BY DEF IInv
<1>2. QED
      BY <1>1, Invariance, PTL

\* No span of a minute sees more than twice the limit: at most two fixed windows of a
\* client meet it, and the second starts empty.
THEOREM AtMostTwiceTheLimitHolds == Spec => []AtMostTwiceTheLimit
<1>1. ASSUME IInv PROVE AtMostTwiceTheLimit
  <2>1. SUFFICES ASSUME NEW ip \in IPs PROVE admitted[ip][Window] <= 2 * limit
        BY DEF AtMostTwiceTheLimit
  <2>2. limit \in Nat /\ count[ip] \in Nat /\ admitted[ip][Window] \in Nat
        BY <1>1, OfClient, AgesFacts DEF IInv
  <2>3. \A x, c, l \in Nat : (c <= l /\ x <= l + c) \/ x <= l => x <= 2 * l
        BY SMT
  <2>4. \/ count[ip] <= limit /\ admitted[ip][Window] <= limit + count[ip]
        \/ admitted[ip][Window] <= limit
        BY <1>1, Zenon DEF IInv, OpenWindows, ExpiredWindows
  <2>5. QED
        BY <2>2, <2>3, <2>4, Zenon
<1>2. QED
      BY <1>1, Invariance, PTL

\* ratelimit.go:36-57: who is refused was let through up to the limit within a minute, since
\* what the window has counted is exactly what came since it was opened, and that is no
\* longer ago than a minute.
THEOREM RefusedWereServedHolds == Spec => []RefusedWereServed
<1>1. ASSUME IInv PROVE RefusedWereServed
  <2>1. SUFFICES ASSUME NEW ip \in known, ~Expired(ip), count[ip] >= limit
                 PROVE  admitted[ip][Window] >= limit
        BY DEF RefusedWereServed
  <2>2. TypeOK /\ ip \in IPs
        BY <1>1 DEF IInv, TypeOK
  <2>3. Age(ip) \in Ages /\ Window \in Ages /\ Age(ip) <= Window
        BY <2>1, <2>2, OfClient, AgesFacts
  <2>4. admitted[ip][Age(ip)] = count[ip] /\ admitted[ip][Age(ip)] <= admitted[ip][Window]
        BY <1>1, <2>1, <2>2, <2>3, Zenon DEF IInv, OpenWindows, Cumulative
  <2>5. limit \in Nat /\ count[ip] \in Nat /\ admitted[ip][Window] \in Nat
        BY <2>2, <2>3, OfClient
  <2>6. \A x, c, l \in Nat : c >= l /\ c <= x => x >= l
        BY SMT
  <2>7. QED
        BY <2>1, <2>4, <2>5, <2>6
<1>2. QED
      BY <1>1, Invariance, PTL
=============================================================================
