----------------------------- MODULE RateLimiter -----------------------------
(***************************************************************************)
(* api.RateLimiter (src/internal/api/ratelimit.go) as the server uses it:  *)
(* rateLimitMiddleware asks Allow for every API request, a goroutine       *)
(* forgets expired clients now and then, and a configuration reload puts a *)
(* new, empty limiter in the place of the old one.                         *)
(***************************************************************************)
EXTENDS Integers

CONSTANTS IPs,           \* client addresses
          Limits,        \* the rate_limit_per_minute a configuration may carry
          DefaultLimit,  \* 100
          Window         \* one minute, in ticks

ASSUME LimiterAssumption ==
          /\ Limits \subseteq Int
          /\ DefaultLimit \in Nat \ {0}
          /\ Window \in Nat

VARIABLES limit,    \* of the limiter in use
          known,    \* the keys of clients
          count,    \* clients[ip].count, for a known ip
          left,     \* clients[ip].resetTime - now, saturated below zero
          admitted  \* history: how many requests of ip this limiter let through in the last a ticks

vars == <<limit, known, count, left, admitted>>

Ages == 0..Window

\* Fault: only a missing limit, read as -1, means the default.
EffectiveOrZero(n) == IF n < 0 THEN DefaultLimit ELSE n

\* NewRateLimiter: a limit below one means the default.
Effective(n) == IF n < 1 THEN DefaultLimit ELSE n
EffectiveLimits == {Effective(n) : n \in Limits}

\* now.After(resetTime), which is false in the very tick of resetTime.
Expired(ip) == left[ip] < 0

Empty == /\ known' = {}
         /\ count' = [ip \in IPs |-> 0]
         /\ left' = [ip \in IPs |-> -1]
         /\ admitted' = [ip \in IPs |-> [a \in Ages |-> 0]]

Init == /\ limit \in EffectiveLimits
        /\ known = {}
        /\ count = [ip \in IPs |-> 0]
        /\ left = [ip \in IPs |-> -1]
        /\ admitted = [ip \in IPs |-> [a \in Ages |-> 0]]

-----------------------------------------------------------------------------
(* Allow, its three outcomes under the lock. *)

Remember(ip) ==
  admitted' = [admitted EXCEPT ![ip] = [a \in Ages |-> admitted[ip][a] + 1]]

OpenWindow(ip) == /\ ip \notin known \/ Expired(ip)
                  /\ known' = known \cup {ip}
                  /\ count' = [count EXCEPT ![ip] = 1]
                  /\ left' = [left EXCEPT ![ip] = Window]
                  /\ Remember(ip)
                  /\ UNCHANGED limit

CountRequest(ip) == /\ ip \in known /\ ~Expired(ip)
                    /\ count[ip] < limit
                    /\ count' = [count EXCEPT ![ip] = @ + 1]
                    /\ Remember(ip)
                    /\ UNCHANGED <<limit, known, left>>

\* Fault: a refused client has to stay silent for a whole window.
RefuseRestartsWindow(ip) == /\ ip \in known /\ ~Expired(ip)
                            /\ count[ip] >= limit
                            /\ left' = [left EXCEPT ![ip] = Window]
                            /\ UNCHANGED <<limit, known, count, admitted>>

Refuse(ip) == /\ ip \in known /\ ~Expired(ip)
              /\ count[ip] >= limit
              /\ UNCHANGED vars

Admit(ip) == OpenWindow(ip) \/ CountRequest(ip)
Allow(ip) == Admit(ip) \/ Refuse(ip)

-----------------------------------------------------------------------------
\* Fault: the sweep takes every client.
CleanupForgetsAll == /\ known' = {}
                     /\ known # {}
                     /\ UNCHANGED <<limit, count, left, admitted>>

\* cleanup: one sweep of the map.
Cleanup == /\ \E ip \in known : Expired(ip)
           /\ known' = {ip \in known : ~Expired(ip)}
           /\ UNCHANGED <<limit, count, left, admitted>>

\* reloadConfig: the middleware's next request finds the new limiter.
Reload == /\ limit' \in EffectiveLimits
          /\ Empty

\* A tick of the clock.
Tick == /\ left' = [ip \in IPs |-> IF Expired(ip) THEN -1 ELSE left[ip] - 1]
        /\ admitted' = [ip \in IPs |->
                          [a \in Ages |-> IF a = 0 THEN 0 ELSE admitted[ip][a - 1]]]
        /\ UNCHANGED <<limit, known, count>>

Next == \/ \E ip \in IPs : Allow(ip)
        \/ Cleanup
        \/ Reload
        \/ Tick

Spec == Init /\ [][Next]_vars

\* Time passes, and a client that is refused tries again.
FairSpec == Spec /\ WF_vars(Tick) /\ \A ip \in IPs : WF_vars(Allow(ip))

-----------------------------------------------------------------------------
TypeOK == /\ limit \in Nat \ {0}
          /\ known \in SUBSET IPs
          /\ count \in [IPs -> Nat]
          /\ left \in [IPs -> -1..Window]
          /\ admitted \in [IPs -> [Ages -> Nat]]

\* The limit is per fixed window, and the windows of one client never overlap: in
\* no span of a minute does one limiter let more than twice the limit through.
AtMostTwiceTheLimit ==
  \A ip \in IPs : admitted[ip][Window] <= 2 * limit

\* Nobody is refused on a count that is stale: who is, was let through up to the limit
\* within the last minute, whatever was swept, refused or reloaded meanwhile.
RefusedWereServed ==
  \A ip \in known : ~Expired(ip) /\ count[ip] >= limit => admitted[ip][Window] >= limit

\* A client that keeps asking is let through again and again: neither its refused
\* requests nor the sweep can keep its window closed.
NoClientIsStarved == \A ip \in IPs : []<><<Admit(ip)>>_vars
=============================================================================
