------------------------------- MODULE Control -------------------------------
(***************************************************************************)
(* The settings in force: LoadConfig (src/internal/config/config.go), the  *)
(* start of main, the handlers of POST /api/config/reload and PUT          *)
(* /api/config/thresholds, and the alert manager (src/internal/api/        *)
(* server.go), which a reload replaces while the detector raises anomalies.*)
(*                                                                         *)
(* A setting is one of Parts.  The file is edited from one of Files to the *)
(* next; a configuration is known by the index of what it was loaded from. *)
(***************************************************************************)
EXTENDS Integers, SequencesExt

CONSTANTS Reloads, Puts,   \* the handlers that can be at work at a time
          Files,           \* what the configuration file holds, one edit after the other
          Bad, Absent,     \* such contents: not JSON; no file
          Env,             \* what the environment says, a function of Names
          Missing,         \* not named
          Bodies,          \* the bodies of threshold requests, of the command line too
          Types, Severities,
          DefaultCooldown, \* 300 s, in ticks
          MaxCooldown,     \* the longest cooldown of a configuration
          MaxSending       \* bound: alerts of one type on their way

NoOne == "none"

ASSUME ControlAssumption ==
          /\ NoOne \notin Reloads
          /\ Bodies # {}
          /\ Files \in Seq(Range(Files)) /\ Files # <<>>
          /\ MaxCooldown \in Nat /\ DefaultCooldown \in 0..MaxCooldown
          /\ \A f \in DOMAIN Files : Files[f] \notin {Absent, Bad} =>
               /\ Files[f]["limit"] \in Int \cup {Missing}
               /\ Files[f]["cooldown"] \in (0..MaxCooldown) \cup {Missing}
          /\ Env["limit"] \in Int \cup {Missing}
          /\ Env["cooldown"] \in (0..MaxCooldown) \cup {Missing}
          /\ MaxSending \in Nat

\* What a configuration says.
Names == {"limit", "error_rate", "rate_multiplier", "burst", "enabled", "cooldown", "severities"}

\* What reloadConfig sets, in its order; SetThresholds writes three fields.
Writes == <<"config", "limiter", "error_rate", "rate_multiplier", "burst", "alert">>
Parts == Range(Writes)
Thresholds == {Writes[k] : k \in 3..5}

VARIABLES up,         \* does the server run?
          file,       \* what the file holds, an index of Files
          inForce,    \* each setting
          lock,       \* who holds s.mu
          reload,     \* where each reload is
          put,        \* where each threshold request is
          byPut,      \* history: has a request set thresholds since the last reload?
          raising,    \* the anomaly in the callback, under the detector's lock
          last,       \* lastAlert of the manager in force: ages, saturated
          sending,    \* alerts on their way, by type
          recent      \* history: how many alerts of each age this manager sent

settingVars == <<inForce, lock, reload, put, byPut>>
alertVars == <<raising, last, sending, recent>>
vars == <<up, file, settingVars, alertVars>>

Idle == [step |-> "idle", config |-> 0, done |-> 0]

Quiet == [written |-> 5, body |-> CHOOSE b \in Bodies : TRUE]
Calm == [type |-> "none", severity |-> "none", orphan |-> <<>>]
NeverSent == [t \in Types |-> MaxCooldown]
Ages == 0..(MaxCooldown - 1)
NoneSent == [t \in Types |-> [a \in Ages |-> 0]]

-----------------------------------------------------------------------------
(* Configurations. *)

\* Rates are in tenths.
DefaultConfig == [limit |-> 100, error_rate |-> 3, rate_multiplier |-> 30, burst |-> 100,
                  enabled |-> FALSE, cooldown |-> DefaultCooldown, severities |-> {"critical", "high"}]

\* The environment has the last word.
LoadFromEnv(c) == [n \in Names |-> IF Env[n] = Missing THEN c[n] ELSE Env[n]]

\* The file, where there is one, is read over the defaults.
LoadConfig(f) ==
  LoadFromEnv([n \in Names |-> IF Files[f] = Absent \/ Files[f][n] = Missing
                                 THEN DefaultConfig[n] ELSE Files[f][n]])

\* NewRateLimiter takes its default for a limit below one.
Limit(c) == IF c["limit"] < 1 THEN 100 ELSE c["limit"]

AlertConfig(c) == [enabled |-> c["enabled"], cooldown |-> c["cooldown"],
                   severities |-> c["severities"]]

\* Fault: the limiter takes any limit.
SettingUnchecked(f, p) ==
  LET c == LoadConfig(f)
  IN CASE p = "config"  -> f
       [] p = "limiter" -> c["limit"]
       [] p = "alert"   -> AlertConfig(c)
       [] OTHER         -> c[p]

\* What content f puts in force.
Setting(f, p) ==
  LET c == LoadConfig(f)
  IN CASE p = "config"  -> f
       [] p = "limiter" -> Limit(c)
       [] p = "alert"   -> AlertConfig(c)
       [] OTHER         -> c[p]

\* Nothing is in force yet.
Nothing == [p \in Parts |-> CASE p = "config"  -> 0
                              [] p = "limiter" -> Limit(DefaultConfig)
                              [] p = "alert"   -> AlertConfig(DefaultConfig)
                              [] OTHER         -> DefaultConfig[p]]

\* Validate, which only main calls.
Valid(f) == LET c == LoadConfig(f)
            IN /\ c["error_rate"] \in 0..10
               /\ c["rate_multiplier"] >= 10
               /\ c["limit"] >= 1

Init == /\ up = FALSE
        /\ file = 1
        /\ inForce = Nothing
        /\ lock = NoOne
        /\ reload = [r \in Reloads |-> Idle]
        /\ put = [q \in Puts |-> Quiet]
        /\ byPut = FALSE
        /\ raising = Calm
        /\ last = NeverSent
        /\ sending = [t \in Types |-> 0]
        /\ recent = NoneSent

\* main: a file that is no JSON, or a configuration that is not valid, ends it.
Start == /\ ~up
         /\ Files[file] # Bad
         /\ Valid(file)
         /\ up' = TRUE
         /\ inForce' = [p \in Parts |-> Setting(file, p)]
         /\ UNCHANGED <<file, lock, reload, put, byPut, alertVars>>

\* The process is killed: nothing of all this is kept.
Kill == /\ up
        /\ up' = FALSE
        /\ inForce' = Nothing
        /\ lock' = NoOne
        /\ reload' = [r \in Reloads |-> Idle]
        /\ put' = [q \in Puts |-> Quiet]
        /\ byPut' = FALSE
        /\ raising' = Calm
        /\ last' = NeverSent
        /\ sending' = [t \in Types |-> 0]
        /\ recent' = NoneSent
        /\ UNCHANGED file

Edit == /\ file < Len(Files)
        /\ file' = file + 1
        /\ UNCHANGED <<up, settingVars, alertVars>>

-----------------------------------------------------------------------------
(* POST /api/config/reload. *)

AskReload(r) == /\ up
                /\ reload[r].step = "idle"
                /\ reload' = [reload EXCEPT ![r].step = "load"]
                /\ UNCHANGED <<up, file, inForce, lock, put, byPut, alertVars>>

\* The file is read before the lock is taken; one that is no JSON changes nothing.
Load(r) == /\ reload[r].step = "load"
           /\ reload' = [reload EXCEPT ![r] =
                IF Files[file] = Bad THEN Idle ELSE [step |-> "lock", config |-> file, done |-> 0]]
           /\ UNCHANGED <<up, file, inForce, lock, put, byPut, alertVars>>

Writing(q) == put[q].written < 5

\* Fault: the settings are applied without the lock.
LockNothing(r) == /\ reload[r].step = "lock"
                  /\ reload' = [reload EXCEPT ![r].step = "apply"]
                  /\ byPut' = \E q \in Puts : Writing(q)
                  /\ UNCHANGED <<up, file, lock, inForce, put, alertVars>>

Lock(r) == /\ reload[r].step = "lock"
           /\ lock = NoOne
           /\ lock' = r
           /\ reload' = [reload EXCEPT ![r].step = "apply"]
           /\ byPut' = \E q \in Puts : Writing(q)
           /\ UNCHANGED <<up, file, inForce, put, alertVars>>

\* A new manager has sent nothing; an anomaly on its way to the old one still goes there.
ReplaceManager == /\ last' = NeverSent
                  /\ recent' = NoneSent
                  /\ raising' = IF raising # Calm /\ raising.orphan = <<>>
                                  THEN [raising EXCEPT !.orphan = <<[alert |-> inForce["alert"],
                                                                     last |-> last]>>]
                                  ELSE raising
                  /\ UNCHANGED sending

\* reloadConfig sets the next of Writes.
Apply(r) == /\ reload[r].step = "apply"
            /\ reload[r].done < Len(Writes)
            /\ LET p == Writes[reload[r].done + 1]
               IN /\ inForce' = [inForce EXCEPT ![p] = Setting(reload[r].config, p)]
                  /\ IF p = "alert" THEN ReplaceManager ELSE UNCHANGED alertVars
            /\ reload' = [reload EXCEPT ![r].done = @ + 1]
            /\ UNCHANGED <<up, file, lock, put, byPut>>

\* Fault: no deferred unlock.
KeepLock(r) == /\ reload[r].done = Len(Writes)
               /\ reload' = [reload EXCEPT ![r] = Idle]
               /\ UNCHANGED <<up, file, inForce, lock, put, byPut, alertVars>>

Unlock(r) == /\ reload[r].done = Len(Writes)
             /\ reload' = [reload EXCEPT ![r] = Idle]
             /\ lock' = NoOne
             /\ UNCHANGED <<up, file, inForce, put, byPut, alertVars>>

-----------------------------------------------------------------------------
(* PUT /api/config/thresholds, which takes no lock. *)

\* The command line names one threshold.
CliBody(p, value) == [t \in Thresholds |-> IF t = p THEN value ELSE Missing]

AskPut(q) == /\ up
             /\ ~Writing(q)
             /\ \E b \in Bodies : put' = [put EXCEPT ![q] = [written |-> 2, body |-> b]]
             /\ UNCHANGED <<up, file, inForce, lock, reload, byPut, alertVars>>

\* derefF64, derefInt: a threshold the body does not name is reset.
Deref(b, p) ==
  IF b[p] # Missing THEN b[p]
  ELSE CASE p = "error_rate" -> 3 [] p = "rate_multiplier" -> 30 [] p = "burst" -> 100

SetThreshold(q) ==
  /\ Writing(q)
  /\ LET p == Writes[put[q].written + 1]
     IN inForce' = [inForce EXCEPT ![p] = Deref(put[q].body, p)]
  /\ put' = [put EXCEPT ![q] = IF @.written = 4 THEN Quiet
                                       ELSE [written |-> @.written + 1, body |-> @.body]]
  /\ byPut' = TRUE
  /\ UNCHANGED <<up, file, lock, reload, alertVars>>

-----------------------------------------------------------------------------
(* Alerts. *)

\* BroadcastAnomaly, in the detector's callback: one anomaly at a time.
RaiseAnomaly(t, s) == /\ up
                      /\ raising = Calm
                      /\ inForce["alert"].enabled
                      /\ raising' = [type |-> t, severity |-> s, orphan |-> <<>>]
                      /\ UNCHANGED <<up, file, settingVars, last, sending, recent>>

\* The manager the anomaly met: the one in force, or one replaced since.
Manager == IF raising.orphan = <<>> THEN [alert |-> inForce["alert"], last |-> last]
                                    ELSE raising.orphan[1]

\* The severity is one of the configured ones, to the letter.
Wanted == /\ raising.severity \in Manager.alert.severities
          /\ Manager.last[raising.type] >= Manager.alert.cooldown

\* Fault: the cooldown does not start with the alert.
SendUntimed == /\ raising # Calm /\ Wanted
               /\ sending[raising.type] < MaxSending
               /\ sending' = [sending EXCEPT ![raising.type] = @ + 1]
               /\ recent' = IF raising.orphan = <<>>
                              THEN [recent EXCEPT ![raising.type][0] = @ + 1] ELSE recent
               /\ raising' = Calm
               /\ UNCHANGED <<up, file, settingVars, last>>

\* SendAlert: the time is taken, then a goroutine posts the alert.
SendAlert == /\ raising # Calm /\ Wanted
             /\ sending[raising.type] < MaxSending
             /\ sending' = [sending EXCEPT ![raising.type] = @ + 1]
             /\ IF raising.orphan = <<>>
                  THEN /\ last' = [last EXCEPT ![raising.type] = 0]
                       /\ recent' = [recent EXCEPT ![raising.type][0] = @ + 1]
                  ELSE UNCHANGED <<last, recent>>
             /\ raising' = Calm
             /\ UNCHANGED <<up, file, settingVars>>

SuppressAlert == /\ raising # Calm /\ ~Wanted
                 /\ raising' = Calm
                 /\ UNCHANGED <<up, file, settingVars, last, sending, recent>>

\* The post ends, well or not: nothing but the log tells.
Deliver(t) == /\ sending[t] > 0
              /\ sending' = [sending EXCEPT ![t] = @ - 1]
              /\ UNCHANGED <<up, file, settingVars, raising, last, recent>>

Older(sent) == [a \in Ages |-> IF a = 0 THEN 0 ELSE sent[a - 1]]

Tick == /\ last # NeverSent
        /\ last' = [t \in Types |-> IF last[t] < MaxCooldown THEN last[t] + 1 ELSE MaxCooldown]
        /\ recent' = [t \in Types |-> Older(recent[t])]
        /\ UNCHANGED <<up, file, settingVars, raising, sending>>

-----------------------------------------------------------------------------
Reload(r) == Load(r) \/ Lock(r) \/ Apply(r) \/ Unlock(r)

Next == \/ Start \/ Kill \/ Edit \/ Tick
        \/ \E r \in Reloads : AskReload(r) \/ Reload(r)
        \/ \E q \in Puts : AskPut(q) \/ SetThreshold(q)
        \/ \E t \in Types : (\E s \in Severities : RaiseAnomaly(t, s)) \/ Deliver(t)
        \/ SendAlert \/ SuppressAlert

Spec == Init /\ [][Next]_vars

\* A handler runs on, and a mutex that is free again and again is taken in the end.
Fairness == \A r \in Reloads :
              /\ WF_vars(Load(r) \/ Apply(r) \/ Unlock(r))
              /\ SF_vars(Lock(r))

FairSpec == Spec /\ Fairness

-----------------------------------------------------------------------------
TypeOK ==
  /\ up \in BOOLEAN
  /\ file \in DOMAIN Files
  /\ DOMAIN inForce = Parts
  /\ inForce["config"] \in 0..file
  /\ inForce["limiter"] \in Nat \ {0}
  /\ lock \in Reloads \cup {NoOne}
  /\ reload \in [Reloads -> [step : {"idle", "load", "lock", "apply"},
                             config : 0..Len(Files), done : 0..Len(Writes)]]
  /\ put \in [Puts -> [written : 2..5, body : Bodies]]
  /\ byPut \in BOOLEAN
  /\ raising.type \in Types \cup {"none"} /\ raising.severity \in Severities \cup {"none"}
  /\ last \in [Types -> 0..MaxCooldown]
  /\ sending \in [Types -> 0..MaxSending]

\* Between reloads what is in force is one configuration, that of the last reload to
\* finish, however many are asked for at once: only the thresholds may be another's,
\* if a request has set one since the reload took the lock.
SettingsAgree ==
  up /\ lock = NoOne =>
    \A p \in Parts : \/ p \in Thresholds /\ byPut
                     \/ inForce[p] = Setting(inForce["config"], p)

\* A manager sends no two alerts of one type within its cooldown, whatever the sources:
\* only a reload, which makes a new manager, can bring one sooner.
AlertsApart ==
  \A t \in Types : \A a, b \in Ages :
    /\ recent[t][a] > 0 /\ recent[t][b] > 0
    /\ a <= b /\ (a = b => recent[t][a] > 1)
    => b - a >= inForce["alert"].cooldown

\* Every reload comes to its end: none waits for the lock for ever.
ReloadEnds == \A r \in Reloads : reload[r].step # "idle" ~> reload[r].step = "idle"
=============================================================================
