---------------------------- MODULE ControlProofs ----------------------------
(***************************************************************************)
(* The settings in force, for any number of reloads and threshold requests *)
(* at once and any contents of the file: their types, and that between     *)
(* reloads they are one configuration.  And the alerts of one manager:     *)
(* none of a type within a cooldown of another.                            *)
(***************************************************************************)
EXTENDS Control, TLAPS

\* A reload holds s.mu exactly while it applies, and what it applies has been read.
HoldsLock ==
  \A r \in Reloads :
    /\ reload[r].step = "apply" <=> lock = r
    /\ reload[r].step # "apply" => reload[r].done = 0
    /\ reload[r].step \in {"lock", "apply"} =>
         reload[r].config \in 1..file /\ Files[reload[r].config] # Bad

\* The settings a reload has made so far are its configuration's, but for thresholds
\* that a request has set since.
AppliedSoFar ==
  \A r \in Reloads : lock = r =>
    \A k \in 1..reload[r].done :
      \/ Writes[k] \in Thresholds /\ byPut
      \/ inForce[Writes[k]] = Setting(reload[r].config, Writes[k])

\* Nothing is at work while the server is down.
DownIsIdle == ~up => lock = NoOne /\ \A r \in Reloads : reload[r].step = "idle"

RaisingIsRecord ==
  raising = [type |-> raising.type, severity |-> raising.severity, orphan |-> raising.orphan]

\* SettingsAgree speaks of the moments when the lock is free; what a reload leaves at
\* its end is what it has applied so far, all of Writes.
IInv == /\ TypeOK
        /\ RaisingIsRecord
        /\ HoldsLock
        /\ AppliedSoFar
        /\ DownIsIdle
        /\ SettingsAgree

-----------------------------------------------------------------------------
(* What reloadConfig sets. *)

LEMMA WritesFacts ==
  /\ Len(Writes) = 6
  /\ Writes[1] = "config" /\ Writes[2] = "limiter"
  /\ Parts = {"config", "limiter", "error_rate", "rate_multiplier", "burst", "alert"}
  /\ Thresholds = {"error_rate", "rate_multiplier", "burst"}
  /\ \A k \in 1..6 : Writes[k] \in Parts
  /\ \A k \in 3..5 : Writes[k] \in Thresholds
  /\ \A p \in Parts : \E k \in 1..6 : Writes[k] = p
<1>1. /\ Len(Writes) = 6 /\ DOMAIN Writes = 1..6
      /\ Writes[1] = "config" /\ Writes[2] = "limiter" /\ Writes[3] = "error_rate"
      /\ Writes[4] = "rate_multiplier" /\ Writes[5] = "burst" /\ Writes[6] = "alert"
      BY SMT DEF Writes
<1>2. 1..6 = {1, 2, 3, 4, 5, 6} /\ 3..5 = {3, 4, 5}
      BY SMT
<1>3. Parts = {"config", "limiter", "error_rate", "rate_multiplier", "burst", "alert"}
      BY <1>1, <1>2, SMT DEF Parts, Range
<1>4. Thresholds = {"error_rate", "rate_multiplier", "burst"}
      BY <1>1, <1>2, SMT DEF Thresholds
<1>5. QED
      BY <1>1, <1>2, <1>3, <1>4, SMT

\* What a configuration that can be loaded puts in force: itself, and a limit of one
\* or more, whatever its file and the environment say.
LEMMA SettingFacts ==
  ASSUME NEW f \in DOMAIN Files, Files[f] # Bad
  PROVE  /\ Setting(f, "config") = f
         /\ Setting(f, "limiter") \in Nat \ {0}
<1> DEFINE Read(n) == IF Files[f] = Absent \/ Files[f][n] = Missing THEN DefaultConfig[n]
                                                                     ELSE Files[f][n]
           c == [n \in Names |-> IF Env[n] = Missing THEN Read(n) ELSE Env[n]]
<1>1. LoadConfig(f) = c
      BY DEF LoadConfig, LoadFromEnv
<1>2. c["limit"] = IF Env["limit"] = Missing THEN Read("limit") ELSE Env["limit"]
      BY DEF Names
<1>3. DefaultConfig["limit"] = 100
      BY DEF DefaultConfig
<1>4. c["limit"] \in Int
      BY <1>2, <1>3, ControlAssumption, SMT
<1>5. Limit(c) \in Nat \ {0}
      BY <1>4, SMT DEF Limit
<1>6. Setting(f, "limiter") = Limit(c)
      BY <1>1 DEF Setting
<1>7. Setting(f, "config") = f
      BY DEF Setting
<1>8. QED
      BY <1>5, <1>6, <1>7

LEMMA FilesFacts == /\ Len(Files) \in Nat \ {0}
                    /\ DOMAIN Files = 1..Len(Files)
<1>1. Files \in Seq(Range(Files)) /\ Files # <<>>
      BY ControlAssumption
<1>2. QED
      BY <1>1, SMT

LEMMA InitIInv == Init => IInv
<1> SUFFICES ASSUME Init PROVE IInv
    OBVIOUS
<1>1. /\ inForce = Nothing
      /\ DOMAIN Nothing = Parts /\ Nothing["config"] = 0 /\ Nothing["limiter"] = Limit(DefaultConfig)
      BY WritesFacts, SMT DEF Init, Nothing
<1>2. Limit(DefaultConfig) = 100
      BY SMT DEF Limit, DefaultConfig
<1>3. (CHOOSE b \in Bodies : TRUE) \in Bodies
      BY ControlAssumption
<1>4. put \in [Puts -> [written : 2..5, body : Bodies]]
      BY <1>3, SMT DEF Init, Quiet
<1>5. byPut \in BOOLEAN /\ up \in BOOLEAN
      BY Zenon DEF Init
<1>6. reload \in [Reloads -> [step : {"idle", "load", "lock", "apply"},
                              config : 0..Len(Files), done : 0..Len(Writes)]]
      BY WritesFacts, FilesFacts, SMT DEF Init, Idle
<1>7. TypeOK
      BY <1>1, <1>2, <1>4, <1>5, <1>6, FilesFacts, ControlAssumption, SMT
         DEF Init, TypeOK, NeverSent, Calm
<1>8. RaisingIsRecord
      BY SMT DEF Init, Calm, RaisingIsRecord
<1>9. HoldsLock /\ AppliedSoFar /\ DownIsIdle /\ SettingsAgree
      BY ControlAssumption, SMT DEF Init, Idle, HoldsLock, AppliedSoFar, DownIsIdle, SettingsAgree
<1>10. QED
      BY <1>7, <1>8, <1>9 DEF IInv

-----------------------------------------------------------------------------
(* One lemma per group of steps. *)

\* The start puts in force one configuration that could be loaded.
LEMMA StartStep == IInv /\ Start => IInv'
<1> SUFFICES ASSUME IInv, Start PROVE IInv'
    OBVIOUS
<1>1. file \in DOMAIN Files /\ Files[file] # Bad /\ file \in 0..file
      BY FilesFacts, SMT DEF IInv, TypeOK, Start
<1>2. Setting(file, "config") = file /\ Setting(file, "limiter") \in Nat \ {0}
      BY <1>1, SettingFacts
<1>3. /\ DOMAIN inForce' = Parts
      /\ \A p \in Parts : inForce'[p] = Setting(file, p)
      BY DEF Start
<1>4. inForce'["config"] = file /\ inForce'["limiter"] \in Nat \ {0}
      BY <1>2, <1>3, WritesFacts
<1>5. /\ lock = NoOne
      /\ \A r \in Reloads : reload[r].step = "idle"
      BY DEF IInv, DownIsIdle, Start
<1>6. up' = TRUE /\ UNCHANGED <<file, lock, reload, put, byPut, raising, last, sending, recent>>
      BY DEF Start, alertVars
<1>7. TypeOK'
  <2>1. up' \in BOOLEAN
        BY <1>6
  <2>2. QED
        BY <2>1, <1>1, <1>3, <1>4, <1>6 DEF IInv, TypeOK
<1>8. RaisingIsRecord' /\ HoldsLock' /\ DownIsIdle'
      BY <1>6 DEF IInv, RaisingIsRecord, HoldsLock, DownIsIdle
<1>9. AppliedSoFar'
      BY <1>5, <1>6, ControlAssumption DEF AppliedSoFar
<1>10. SettingsAgree'
      BY <1>3, <1>4 DEF SettingsAgree
<1>11. QED
      BY <1>7, <1>8, <1>9, <1>10 DEF IInv

\* A kill leaves what Init has, but for the file.
LEMMA KillStep == IInv /\ Kill => IInv'
<1> SUFFICES ASSUME IInv, Kill PROVE IInv'
    OBVIOUS
<1>1. /\ DOMAIN Nothing = Parts /\ Nothing["config"] = 0 /\ Nothing["limiter"] = Limit(DefaultConfig)
      BY WritesFacts, SMT DEF Nothing
<1>2. Limit(DefaultConfig) = 100
      BY SMT DEF Limit, DefaultConfig
<1>3. (CHOOSE b \in Bodies : TRUE) \in Bodies
      BY ControlAssumption
<1>4. put' \in [Puts -> [written : 2..5, body : Bodies]]
      BY <1>3, SMT DEF Kill, Quiet
<1>5. byPut' \in BOOLEAN /\ up' \in BOOLEAN
      BY Zenon DEF Kill
<1>6. reload' \in [Reloads -> [step : {"idle", "load", "lock", "apply"},
                               config : 0..Len(Files), done : 0..Len(Writes)]]
      BY WritesFacts, FilesFacts, SMT DEF Kill, Idle
<1>7. TypeOK'
      BY <1>1, <1>2, <1>4, <1>5, <1>6, FilesFacts, ControlAssumption, SMT
         DEF Kill, IInv, TypeOK, NeverSent, Calm
<1>8. RaisingIsRecord'
      BY SMT DEF Kill, Calm, RaisingIsRecord
<1>9. HoldsLock' /\ AppliedSoFar' /\ DownIsIdle' /\ SettingsAgree'
      BY ControlAssumption, SMT DEF Kill, Idle, HoldsLock, AppliedSoFar, DownIsIdle, SettingsAgree
<1>10. QED
      BY <1>7, <1>8, <1>9 DEF IInv

\* An edit changes the file only: what was read stays as it was read.
LEMMA EditStep == IInv /\ Edit => IInv'
<1> SUFFICES ASSUME IInv, Edit PROVE IInv'
    OBVIOUS
<1>1. /\ file' = file + 1 /\ file < Len(Files)
      /\ UNCHANGED <<up, inForce, lock, reload, put, byPut, raising, last, sending, recent>>
      BY DEF Edit, settingVars, alertVars
<1>2. file' \in DOMAIN Files /\ 0..file \subseteq 0..file' /\ 1..file \subseteq 1..file'
      BY <1>1, FilesFacts, SMT DEF IInv, TypeOK
<1>3. TypeOK'
      BY <1>1, <1>2 DEF IInv, TypeOK
<1>4. HoldsLock'
      BY <1>1, <1>2 DEF IInv, HoldsLock
<1>5. QED
      BY <1>1, <1>3, <1>4 DEF IInv, RaisingIsRecord, AppliedSoFar, DownIsIdle, SettingsAgree

\* A reload that is asked for, reads the file or takes the lock sets nothing yet.
LEMMA BeforeApply ==
  ASSUME IInv, NEW r \in Reloads, AskReload(r) \/ Load(r) \/ Lock(r)
  PROVE  IInv'
<1> DEFINE Steps == [step : {"idle", "load", "lock", "apply"},
                     config : 0..Len(Files), done : 0..Len(Writes)]
<1>1. /\ reload \in [Reloads -> Steps]
      /\ lock \in Reloads \cup {NoOne}
      /\ file \in 1..Len(Files) /\ Len(Files) \in Nat
      /\ NoOne \notin Reloads
      BY FilesFacts, ControlAssumption DEF IInv, TypeOK
<1>2. UNCHANGED <<up, file, inForce, put, raising, last, sending, recent>>
      BY DEF AskReload, Load, Lock, alertVars
<1>3. byPut' \in BOOLEAN
  <2>1. CASE Lock(r)
        BY <2>1, Zenon DEF Lock
  <2>2. CASE UNCHANGED byPut
        BY <2>2 DEF IInv, TypeOK
  <2>3. QED
        BY <2>1, <2>2 DEF AskReload, Load
<1>4. up
  <2>1. CASE AskReload(r)
        BY <2>1 DEF AskReload
  <2>2. CASE Load(r) \/ Lock(r)
    <3>1. reload[r].step # "idle"
          BY <2>2 DEF Load, Lock
    <3>2. QED
          BY <3>1 DEF IInv, DownIsIdle
  <2>3. QED
        BY <2>1, <2>2
<1>5. /\ reload' \in [Reloads -> Steps]
      /\ lock' \in Reloads \cup {NoOne}
      /\ HoldsLock'
  <2>1. CASE AskReload(r)
        BY <1>1, <2>1, SMT DEF AskReload, IInv, HoldsLock
  <2>2. CASE Load(r)
    <3>1. CASE Files[file] = Bad
          BY <1>1, <2>2, <3>1, SMT DEF Load, IInv, HoldsLock, Idle
    <3>2. CASE Files[file] # Bad
      <4> DEFINE loaded == [step |-> "lock", config |-> file, done |-> 0]
      <4>1. reload' = [reload EXCEPT ![r] = loaded] /\ UNCHANGED <<lock, file>>
            BY <2>2, <3>2 DEF Load
      <4>2. loaded \in Steps /\ file \in 1..file
            BY <1>1, WritesFacts, SMT
      <4>3. lock # r
            BY <2>2, SMT DEF Load, IInv, HoldsLock
      <4>4. QED
            BY <1>1, <3>2, <4>1, <4>2, <4>3, SMT DEF IInv, HoldsLock
    <3>3. QED
          BY <3>1, <3>2
  <2>3. CASE Lock(r)
        BY <1>1, <2>3, SMT DEF Lock, IInv, HoldsLock
  <2>4. QED
        BY <2>1, <2>2, <2>3
<1>6. TypeOK'
      BY <1>2, <1>3, <1>5 DEF IInv, TypeOK
<1>7. AppliedSoFar'
  <2>1. CASE Lock(r)
    <3>1. lock' = r /\ reload'[r].done = 0
          BY <1>1, <2>1, SMT DEF Lock, IInv, HoldsLock
    <3>2. 1..0 = {}
          BY SMT
    <3>3. QED
          BY <3>1, <3>2 DEF AppliedSoFar
  <2>2. CASE AskReload(r) \/ Load(r)
    <3>1. UNCHANGED <<lock, byPut>> /\ lock # r
          BY <2>2, SMT DEF AskReload, Load, IInv, HoldsLock
    <3>2. \A q \in Reloads : q # r => reload'[q] = reload[q]
          BY <1>1, <2>2, SMT DEF AskReload, Load
    <3>3. QED
          BY <1>2, <3>1, <3>2 DEF IInv, AppliedSoFar
  <2>3. QED
        BY <2>1, <2>2
<1>8. SettingsAgree'
  <2>1. CASE Lock(r)
        BY <1>1, <2>1 DEF Lock, SettingsAgree
  <2>2. CASE UNCHANGED <<lock, byPut>>
        BY <1>2, <2>2 DEF IInv, SettingsAgree
  <2>3. QED
        BY <2>1, <2>2 DEF AskReload, Load
<1>9. RaisingIsRecord' /\ DownIsIdle'
      BY <1>2, <1>4 DEF IInv, RaisingIsRecord, DownIsIdle
<1>10. QED
      BY <1>5, <1>6, <1>7, <1>8, <1>9 DEF IInv

\* Applying the next setting adds it to those that agree with the configuration.
LEMMA ApplyStep ==
  ASSUME IInv, NEW r \in Reloads, Apply(r)
  PROVE  IInv'
<1> DEFINE Steps == [step : {"idle", "load", "lock", "apply"},
                     config : 0..Len(Files), done : 0..Len(Writes)]
           n == reload[r].done + 1
           p == Writes[n]
           f == reload[r].config
<1>1. /\ reload \in [Reloads -> Steps]
      /\ lock = r
      /\ f \in 1..file /\ Files[f] # Bad
      /\ file \in 1..Len(Files)
      BY FilesFacts DEF IInv, TypeOK, HoldsLock, Apply
<1>2. n \in 1..6 /\ p \in Parts /\ f \in DOMAIN Files /\ f \in 0..file
      BY <1>1, WritesFacts, FilesFacts, SMT DEF Apply
<1>3. /\ inForce' = [inForce EXCEPT ![p] = Setting(f, p)]
      /\ reload' = [reload EXCEPT ![r].done = @ + 1]
      /\ UNCHANGED <<up, file, lock, put, byPut>>
      BY DEF Apply
<1>4. Setting(f, "config") = f /\ Setting(f, "limiter") \in Nat \ {0}
      BY <1>1, <1>2, SettingFacts
<1>5. /\ DOMAIN inForce' = Parts
      /\ \A q \in Parts : inForce'[q] = IF q = p THEN Setting(f, p) ELSE inForce[q]
      BY <1>3 DEF IInv, TypeOK
<1>6. inForce'["config"] \in 0..file /\ inForce'["limiter"] \in Nat \ {0}
      BY <1>2, <1>4, <1>5, WritesFacts DEF IInv, TypeOK
<1>7. /\ reload' \in [Reloads -> Steps]
      /\ reload'[r].step = reload[r].step /\ reload'[r].config = f /\ reload'[r].done = n
      /\ \A q \in Reloads : q # r => reload'[q] = reload[q]
  <2>1. n \in 0..Len(Writes)
        BY <1>2, WritesFacts, SMT
  <2>2. QED
        BY <1>1, <1>3, <2>1, SMT
<1>8. /\ raising'.type = raising.type /\ raising'.severity = raising.severity
      /\ RaisingIsRecord'
      /\ last' \in [Types -> 0..MaxCooldown]
      /\ UNCHANGED sending
  <2>1. CASE p = "alert"
    <3>1. ReplaceManager
          BY <2>1 DEF Apply
    <3>2. \/ raising' = raising
          \/ \E o : raising' = [raising EXCEPT !.orphan = o]
          BY <3>1 DEF ReplaceManager
    <3>3. RaisingIsRecord
          BY DEF IInv
    <3>4. /\ raising'.type = raising.type /\ raising'.severity = raising.severity
          /\ RaisingIsRecord'
          BY <3>2, <3>3, SMT DEF RaisingIsRecord
    <3>5. NeverSent \in [Types -> 0..MaxCooldown]
          BY ControlAssumption, SMT DEF NeverSent
    <3>6. QED
          BY <3>1, <3>4, <3>5 DEF ReplaceManager
  <2>2. CASE p # "alert"
        BY <2>2 DEF Apply, alertVars, IInv, TypeOK, RaisingIsRecord
  <2>3. QED
        BY <2>1, <2>2
<1>9. TypeOK'
      BY <1>3, <1>5, <1>6, <1>7, <1>8 DEF IInv, TypeOK
<1>10. HoldsLock' /\ DownIsIdle'
      BY <1>1, <1>3, <1>7 DEF IInv, HoldsLock, DownIsIdle, Apply
<1>11. AppliedSoFar'
  <2> SUFFICES ASSUME NEW k \in 1..n
               PROVE  \/ Writes[k] \in Thresholds /\ byPut
                      \/ inForce'[Writes[k]] = Setting(f, Writes[k])
      BY <1>1, <1>3, <1>7 DEF AppliedSoFar
  <2>1. CASE Writes[k] = p
        BY <2>1, <1>2, <1>5
  <2>2. CASE Writes[k] # p
    <3>1. k \in 1..reload[r].done /\ k \in 1..6
          BY <1>1, <1>2, <2>2, WritesFacts, SMT
    <3>2. \/ Writes[k] \in Thresholds /\ byPut
          \/ inForce[Writes[k]] = Setting(f, Writes[k])
          BY <1>1, <3>1 DEF IInv, AppliedSoFar
    <3>3. QED
          BY <1>5, <2>2, <3>1, <3>2, WritesFacts
  <2>3. QED
        BY <2>1, <2>2
<1>12. SettingsAgree'
      BY <1>1, <1>3, ControlAssumption DEF SettingsAgree
<1>13. QED
      BY <1>8, <1>9, <1>10, <1>11, <1>12 DEF IInv

\* At the unlock everything has been applied: what is in force is the configuration
\* of this reload.
LEMMA UnlockStep ==
  ASSUME IInv, NEW r \in Reloads, Unlock(r)
  PROVE  IInv'
<1> DEFINE Steps == [step : {"idle", "load", "lock", "apply"},
                     config : 0..Len(Files), done : 0..Len(Writes)]
           f == reload[r].config
<1>1. /\ reload \in [Reloads -> Steps]
      /\ reload[r].done = 6
      BY WritesFacts DEF IInv, TypeOK, Unlock
<1>2. lock = r /\ f \in 1..file /\ Files[f] # Bad
      BY <1>1, SMT DEF IInv, HoldsLock
<1>3. f \in DOMAIN Files
      BY <1>2, FilesFacts, SMT DEF IInv, TypeOK
<1>4. /\ reload' = [reload EXCEPT ![r] = Idle]
      /\ lock' = NoOne
      /\ UNCHANGED <<up, file, inForce, put, byPut, raising, last, sending, recent>>
      BY DEF Unlock, alertVars
<1>5. /\ reload' \in [Reloads -> Steps]
      /\ reload'[r].step = "idle" /\ reload'[r].done = 0
      /\ \A q \in Reloads : q # r => reload'[q] = reload[q]
      BY <1>1, <1>4, WritesFacts, FilesFacts, SMT DEF Idle
<1>6. TypeOK'
      BY <1>4, <1>5 DEF IInv, TypeOK
<1>7. HoldsLock'
      BY <1>2, <1>4, <1>5, ControlAssumption DEF IInv, HoldsLock
<1>8. \A q \in Parts : (q \in Thresholds /\ byPut) \/ inForce[q] = Setting(f, q)
      BY <1>1, <1>2, WritesFacts DEF IInv, AppliedSoFar
<1>9. inForce["config"] = f
      BY <1>2, <1>3, <1>8, WritesFacts, SettingFacts
<1>10. SettingsAgree'
      BY <1>4, <1>8, <1>9 DEF SettingsAgree
<1>11. AppliedSoFar' /\ RaisingIsRecord'
      BY <1>4, ControlAssumption DEF IInv, AppliedSoFar, RaisingIsRecord
<1>12. DownIsIdle'
      BY <1>4, <1>5 DEF IInv, DownIsIdle
<1>13. QED
      BY <1>6, <1>7, <1>10, <1>11, <1>12 DEF IInv

\* A threshold request sets thresholds only, and says so: it may come between any two
\* settings of a reload.
LEMMA SetThresholdStep ==
  ASSUME IInv, NEW q \in Puts, SetThreshold(q)
  PROVE  IInv'
<1> DEFINE k == put[q].written + 1
           p == Writes[k]
<1>1. put \in [Puts -> [written : 2..5, body : Bodies]]
      BY DEF IInv, TypeOK
<1>2. k \in 3..5
      BY <1>1, SMT DEF SetThreshold, Writing
<1>3. p \in Thresholds /\ p \in Parts /\ p # "config" /\ p # "limiter"
      BY <1>2, WritesFacts, SMT
<1>4. /\ inForce' = [inForce EXCEPT ![p] = Deref(put[q].body, p)]
      /\ byPut' = TRUE
      /\ UNCHANGED <<up, file, lock, reload, raising, last, sending, recent>>
      BY DEF SetThreshold, alertVars
<1>5. /\ DOMAIN inForce' = Parts
      /\ \A o \in Parts : o # p => inForce'[o] = inForce[o]
      BY <1>4 DEF IInv, TypeOK
<1>6. put' \in [Puts -> [written : 2..5, body : Bodies]]
  <2>1. Quiet \in [written : 2..5, body : Bodies]
        BY ControlAssumption, SMT DEF Quiet
  <2>2. QED
    <3>1. CASE put[q].written = 4
          BY <1>1, <2>1, <3>1, SMT DEF SetThreshold
    <3>2. CASE put[q].written # 4
      <4> DEFINE next == [written |-> put[q].written + 1, body |-> put[q].body]
      <4>1. put' = [put EXCEPT ![q] = next]
            BY <3>2 DEF SetThreshold
      <4>2. next \in [written : 2..5, body : Bodies]
            BY <1>1, <1>2, SMT
      <4>3. QED
            BY <1>1, <4>1, <4>2, SMT
    <3>3. QED
          BY <3>1, <3>2
<1>7. byPut' \in BOOLEAN
      BY <1>4
<1>8. TypeOK'
  <2>1. inForce'["config"] \in 0..file' /\ inForce'["limiter"] \in Nat \ {0}
        BY <1>3, <1>4, <1>5, WritesFacts DEF IInv, TypeOK
  <2>2. QED
        BY <2>1, <1>4, <1>5, <1>6, <1>7 DEF IInv, TypeOK
<1>9. AppliedSoFar'
  <2> SUFFICES ASSUME NEW r \in Reloads, lock = r, NEW j \in 1..reload[r].done
               PROVE  \/ Writes[j] \in Thresholds /\ byPut'
                      \/ inForce'[Writes[j]] = Setting(reload[r].config, Writes[j])
      BY <1>4 DEF AppliedSoFar
  <2>1. j \in 1..6
    <3>1. reload[r].done \in 0..6
          BY WritesFacts DEF IInv, TypeOK
    <3>2. QED
          BY <3>1, SMT
  <2>2. Writes[j] \in Parts
        BY <2>1, WritesFacts
  <2>3. Writes[j] \in Thresholds \/ inForce[Writes[j]] = Setting(reload[r].config, Writes[j])
        BY DEF IInv, AppliedSoFar
  <2>4. QED
        BY <1>3, <1>4, <1>5, <2>2, <2>3
<1>10. SettingsAgree'
      BY <1>3, <1>4, <1>5, WritesFacts DEF IInv, SettingsAgree
<1>11. QED
      BY <1>4, <1>8, <1>9, <1>10 DEF IInv, RaisingIsRecord, HoldsLock, DownIsIdle

LEMMA AskPutStep ==
  ASSUME IInv, NEW q \in Puts, AskPut(q)
  PROVE  IInv'
<1>1. UNCHANGED <<up, file, inForce, lock, reload, byPut, raising, last, sending, recent>>
      BY DEF AskPut, alertVars
<1>2. put' \in [Puts -> [written : 2..5, body : Bodies]]
      BY SMT DEF AskPut, IInv, TypeOK
<1>3. TypeOK'
      BY <1>1, <1>2 DEF IInv, TypeOK
<1>4. QED
      BY <1>1, <1>3
         DEF IInv, RaisingIsRecord, HoldsLock, AppliedSoFar, DownIsIdle, SettingsAgree

\* Anomalies, alerts and time change no setting.
LEMMA AlertSteps ==
  ASSUME IInv,
         \/ \E t \in Types, s \in Severities : RaiseAnomaly(t, s)
         \/ \E t \in Types : Deliver(t)
         \/ SendAlert \/ SuppressAlert \/ Tick
  PROVE  IInv'
<1> DEFINE AlertTypes == /\ raising.type \in Types \cup {"none"}
                         /\ raising.severity \in Severities \cup {"none"}
                         /\ RaisingIsRecord
                         /\ last \in [Types -> 0..MaxCooldown]
                         /\ sending \in [Types -> 0..MaxSending]
<1>1. AlertTypes
      BY DEF IInv, TypeOK
<1>2. UNCHANGED <<up, file, inForce, lock, reload, put, byPut>>
      BY DEF RaiseAnomaly, Deliver, SendAlert, SuppressAlert, Tick, settingVars
<1>3. AlertTypes'
  <2> USE ControlAssumption DEF RaisingIsRecord
  <2>1. ASSUME NEW t \in Types, NEW s \in Severities, RaiseAnomaly(t, s) PROVE AlertTypes'
        BY <1>1, <2>1, SMT DEF RaiseAnomaly
  <2>2. ASSUME NEW t \in Types, Deliver(t) PROVE AlertTypes'
        BY <1>1, <2>2, SMT DEF Deliver
  <2>3. CASE SendAlert
    <3>1. \E t : /\ sending[t] < MaxSending
                 /\ sending' = [sending EXCEPT ![t] = sending[t] + 1]
                 /\ last' \in {last, [last EXCEPT ![t] = 0]}
          BY <2>3 DEF SendAlert
    <3>2. sending' \in [Types -> 0..MaxSending] /\ last' \in [Types -> 0..MaxCooldown]
      <4>1. PICK t : /\ sending[t] < MaxSending
                     /\ sending' = [sending EXCEPT ![t] = sending[t] + 1]
                     /\ last' \in {last, [last EXCEPT ![t] = 0]}
            BY <3>1
      <4>2. t \in Types => sending[t] + 1 \in 0..MaxSending
            BY <1>1, <4>1, SMT
      <4>3. 0 \in 0..MaxCooldown
            BY SMT
      <4>4. QED
            BY <1>1, <4>1, <4>2, <4>3, Zenon
    <3>3. raising' = Calm
          BY <2>3 DEF SendAlert
    <3>4. QED
          BY <3>1, <3>2, <3>3, SMT DEF Calm
  <2>4. CASE SuppressAlert
        BY <1>1, <2>4, SMT DEF SuppressAlert, Calm
  <2>5. CASE Tick
        BY <1>1, <2>5, SMT DEF Tick
  <2>6. QED
        BY <2>1, <2>2, <2>3, <2>4, <2>5
<1>4. TypeOK'
      BY <1>2, <1>3 DEF IInv, TypeOK
<1>5. QED
      BY <1>2, <1>3, <1>4
         DEF IInv, HoldsLock, AppliedSoFar, DownIsIdle, SettingsAgree

-----------------------------------------------------------------------------
LEMMA NextIInv == IInv /\ [Next]_vars => IInv'
<1> SUFFICES ASSUME IInv, [Next]_vars PROVE IInv'
    OBVIOUS
<1>1. CASE UNCHANGED vars
      BY <1>1 DEF vars, settingVars, alertVars, IInv, TypeOK, RaisingIsRecord, HoldsLock,
                  AppliedSoFar, DownIsIdle, SettingsAgree
<1>2. CASE Next
      BY <1>2, StartStep, KillStep, EditStep, BeforeApply, ApplyStep, UnlockStep,
         SetThresholdStep, AskPutStep, AlertSteps DEF Next, Reload
<1>3. QED
      BY <1>1, <1>2

\* The inductive invariant holds in every reachable state.
THEOREM Invariance == Spec => []IInv
BY InitIInv, NextIInv, PTL DEF Spec

\* server.go:651-771: the settings in force keep their types, the limiter's limit being
\* one or more whatever the file says.
THEOREM TypeCorrect == Spec => []TypeOK
BY Invariance, PTL DEF IInv

\* server.go:686-706: between reloads what is in force is one configuration, but for
\* thresholds that a request has set.
THEOREM SettingsAgreeHolds == Spec => []SettingsAgree
BY Invariance, PTL DEF IInv

-----------------------------------------------------------------------------
(* AlertsApart. *)

NothingSent == \A t \in Types, a \in Ages : recent[t][a] = 0

\* lastAlert of a type is the time of its last alert: no alert is younger.
LastIsYoungest == \A t \in Types, a \in Ages : recent[t][a] > 0 => last[t] <= a

\* An anomaly in the callback has a type, and keeps the server up; a server that is down
\* has no manager that sent anything.
RaisingTyped == raising # Calm => up /\ raising.type \in Types

AInv == /\ recent \in [Types -> [Ages -> Nat]]
        /\ inForce["alert"].cooldown \in Int
        /\ RaisingTyped
        /\ ~up => NothingSent
        /\ LastIsYoungest
        /\ AlertsApart

LEMMA AgesFacts ==
  /\ \A a \in Ages : a \in Int /\ a >= 0
  /\ \A a \in Ages : a # 0 => a - 1 \in Ages
BY ControlAssumption, SMT DEF Ages

LEMMA NoneSentFacts ==
  /\ NoneSent \in [Types -> [Ages -> Nat]]
  /\ \A t \in Types, a \in Ages : NoneSent[t][a] = 0
BY SMT DEF NoneSent

\* A manager that has sent nothing has sent nothing too soon.
LEMMA NothingIsApart ==
  ASSUME NothingSent
  PROVE  LastIsYoungest /\ AlertsApart
<1>1. ~ (0 > 0)
      BY SMT
<1>2. QED
      BY <1>1, Zenon DEF NothingSent, LastIsYoungest, AlertsApart

\* The cooldown of every configuration is a number.
LEMMA CooldownFacts ==
  /\ \A f \in DOMAIN Files : Files[f] # Bad => Setting(f, "alert").cooldown \in Int
  /\ Nothing["alert"].cooldown \in Int
<1>1. ASSUME NEW f \in DOMAIN Files, Files[f] # Bad
      PROVE  Setting(f, "alert").cooldown \in Int
  <2> DEFINE Read(n) == IF Files[f] = Absent \/ Files[f][n] = Missing THEN DefaultConfig[n]
                                                                       ELSE Files[f][n]
             c == [n \in Names |-> IF Env[n] = Missing THEN Read(n) ELSE Env[n]]
  <2>1. LoadConfig(f) = c
        BY DEF LoadConfig, LoadFromEnv
  <2>2. c["cooldown"] = IF Env["cooldown"] = Missing THEN Read("cooldown") ELSE Env["cooldown"]
        BY DEF Names
  <2>3. DefaultConfig["cooldown"] = DefaultCooldown
        BY DEF DefaultConfig
  <2>4. c["cooldown"] \in Int
        BY <1>1, <2>2, <2>3, ControlAssumption, SMT
  <2>5. Setting(f, "alert") = AlertConfig(c)
        BY <2>1 DEF Setting
  <2>6. QED
        BY <2>4, <2>5 DEF AlertConfig
<1>2. Nothing["alert"] = AlertConfig(DefaultConfig)
      BY WritesFacts DEF Nothing
<1>3. AlertConfig(DefaultConfig).cooldown = DefaultCooldown
      BY DEF AlertConfig, DefaultConfig
<1>4. QED
      BY <1>1, <1>2, <1>3, ControlAssumption, SMT

LEMMA InitAInv == Init => AInv
<1>1. SUFFICES ASSUME Init PROVE AInv
      OBVIOUS
<1>2. recent = NoneSent
      BY <1>1, Zenon DEF Init, NoneSent
<1>3. inForce = Nothing /\ raising = Calm
      BY <1>1 DEF Init
<1>4. NothingSent
      BY <1>2, NoneSentFacts DEF NothingSent
<1>5. QED
      BY <1>2, <1>3, <1>4, NothingIsApart, NoneSentFacts, CooldownFacts DEF AInv, RaisingTyped

\* What a step does that leaves the manager and its alerts alone.
LEMMA AlertsUnmoved ==
  ASSUME AInv, inForce'["alert"] = inForce["alert"], up => up', ~up' => ~up \/ NothingSent,
         UNCHANGED <<raising, last, recent>>
  PROVE  AInv'
BY Zenon DEF AInv, RaisingTyped, NothingSent, LastIsYoungest, AlertsApart

\* A new manager has sent nothing.
LEMMA NewManager ==
  ASSUME recent' = NoneSent, inForce'["alert"].cooldown \in Int, RaisingTyped'
  PROVE  AInv'
<1>1. NothingSent'
      BY NoneSentFacts DEF NothingSent
<1>2. ~ (0 > 0)
      BY SMT
<1>3. LastIsYoungest' /\ AlertsApart'
      BY <1>1, <1>2, Zenon DEF NothingSent, LastIsYoungest, AlertsApart
<1>4. QED
      BY <1>1, <1>3, NoneSentFacts DEF AInv

LEMMA StartAlerts ==
  ASSUME IInv, AInv, Start
  PROVE  AInv'
<1>1. NothingSent
      BY DEF AInv, Start
<1>2. up' = TRUE /\ UNCHANGED <<raising, last, recent>>
      BY DEF Start, alertVars
<1>3. inForce'["alert"] = Setting(file, "alert")
      BY WritesFacts DEF Start
<1>4. file \in DOMAIN Files /\ Files[file] # Bad
      BY DEF IInv, TypeOK, Start
<1>5. inForce'["alert"].cooldown \in Int
      BY <1>3, <1>4, CooldownFacts
<1>6. NothingSent'
      BY <1>1, <1>2 DEF NothingSent
<1>7. ~ (0 > 0)
      BY SMT
<1>8. LastIsYoungest' /\ AlertsApart'
      BY <1>6, <1>7, Zenon DEF NothingSent, LastIsYoungest, AlertsApart
<1>9. QED
      BY <1>2, <1>5, <1>6, <1>8 DEF AInv, RaisingTyped

LEMMA KillAlerts == Kill => AInv'
<1>1. SUFFICES ASSUME Kill PROVE AInv'
      OBVIOUS
<1>2. recent' = NoneSent /\ inForce' = Nothing /\ raising' = Calm
      BY <1>1, Zenon DEF Kill, NoneSent
<1>3. QED
      BY <1>2, NewManager, CooldownFacts DEF RaisingTyped

LEMMA ApplyAlerts ==
  ASSUME IInv, AInv, NEW r \in Reloads, Apply(r)
  PROVE  AInv'
<1> DEFINE n == reload[r].done + 1
           p == Writes[n]
           f == reload[r].config
<1>1. up /\ up' = up
  <2>1. reload[r].step # "idle"
        BY DEF Apply
  <2>2. QED
        BY <2>1 DEF Apply, IInv, DownIsIdle
<1>2. f \in DOMAIN Files /\ Files[f] # Bad
      BY FilesFacts, SMT DEF IInv, TypeOK, HoldsLock, Apply
<1>3. n \in 1..6 /\ p \in Parts
      BY WritesFacts, SMT DEF Apply, IInv, TypeOK
<1>4. /\ inForce' = [inForce EXCEPT ![p] = Setting(f, p)]
      /\ DOMAIN inForce = Parts
      BY DEF Apply, IInv, TypeOK
<1>5. CASE p = "alert"
  <2>1. ReplaceManager
        BY <1>5 DEF Apply
  <2>2. inForce'["alert"].cooldown \in Int
        BY <1>2, <1>3, <1>4, <1>5, CooldownFacts
  <2>3. \/ raising' = raising
        \/ raising # Calm /\ \E o : raising' = [raising EXCEPT !.orphan = o]
        BY <2>1 DEF ReplaceManager
  <2>4. raising'.type = raising.type
        BY <2>3, SMT DEF IInv, RaisingIsRecord
  <2>5. RaisingTyped'
        BY <1>1, <2>3, <2>4 DEF AInv, RaisingTyped
  <2>6. recent' = NoneSent
        BY <2>1, Zenon DEF ReplaceManager, NoneSent
  <2>7. QED
        BY <2>2, <2>5, <2>6, NewManager
<1>6. CASE p # "alert"
  <2>1. inForce'["alert"] = inForce["alert"]
        BY <1>3, <1>4, <1>6, WritesFacts
  <2>2. UNCHANGED <<raising, last, recent>>
        BY <1>6 DEF Apply, alertVars
  <2>3. QED
        BY <1>1, <2>1, <2>2, AlertsUnmoved
<1>7. QED
      BY <1>5, <1>6

LEMMA SetThresholdAlerts ==
  ASSUME IInv, AInv, NEW q \in Puts, SetThreshold(q)
  PROVE  AInv'
<1> DEFINE k == put[q].written + 1
           p == Writes[k]
<1>1. k \in 3..5
  <2>1. put \in [Puts -> [written : 2..5, body : Bodies]]
        BY DEF IInv, TypeOK
  <2>2. QED
        BY <2>1, SMT DEF SetThreshold, Writing
<1>2. p # "alert"
      BY <1>1, WritesFacts, SMT
<1>3. inForce' = [inForce EXCEPT ![p] = Deref(put[q].body, p)] /\ DOMAIN inForce = Parts
      BY DEF SetThreshold, IInv, TypeOK
<1>4. inForce'["alert"] = inForce["alert"]
      BY <1>2, <1>3, WritesFacts
<1>5. UNCHANGED <<up, raising, last, recent>>
      BY DEF SetThreshold, alertVars
<1>6. QED
      BY <1>4, <1>5, AlertsUnmoved

\* An alert is sent when the last one of its type is a cooldown old, hence all are.
LEMMA SendAlerts ==
  ASSUME IInv, AInv, SendAlert
  PROVE  AInv'
<1> DEFINE t == raising.type
           c == inForce["alert"].cooldown
<1>1. raising # Calm /\ Wanted /\ raising' = Calm /\ UNCHANGED <<up, inForce>>
      BY DEF SendAlert, settingVars
<1>2. up /\ t \in Types /\ c \in Int
      BY <1>1 DEF AInv, RaisingTyped
<1>3. CASE raising.orphan # <<>>
  <2>1. UNCHANGED <<last, recent>>
        BY <1>3 DEF SendAlert
  <2>2. QED
        BY <1>1, <1>2, <2>1, Zenon DEF AInv, RaisingTyped, NothingSent, LastIsYoungest, AlertsApart
<1>4. CASE raising.orphan = <<>>
  <2> DEFINE sent == [recent[t] EXCEPT ![0] = recent[t][0] + 1]
  <2>1. /\ last' = [last EXCEPT ![t] = 0]
        /\ recent' = [recent EXCEPT ![t] = sent]
        BY <1>4 DEF SendAlert
  <2>2. last[t] >= c
        BY <1>1, <1>4 DEF Wanted, Manager
  <2>3. /\ recent \in [Types -> [Ages -> Nat]]
        /\ recent[t] \in [Ages -> Nat]
        /\ last \in [Types -> 0..MaxCooldown]
        BY <1>2 DEF AInv, IInv, TypeOK
  <2>4. \A a \in Ages : recent[t][a] \in Nat
        BY <2>3, Zenon
  <2>5. /\ sent \in [Ages -> Nat]
        /\ \A a \in Ages : a # 0 => sent[a] = recent[t][a]
        /\ 0 \in Ages => sent[0] = recent[t][0] + 1
    <3>1. \A k \in Nat : k + 1 \in Nat
          BY SMT
    <3>2. 0 \in Ages => recent[t][0] + 1 \in Nat
          BY <2>4, <3>1, Zenon
    <3>3. QED
          BY <2>3, <3>2, Zenon
  <2> HIDE DEF sent
  <2>6. /\ recent' \in [Types -> [Ages -> Nat]]
        /\ recent'[t] = sent
        /\ \A o \in Types : o # t => recent'[o] = recent[o]
        /\ last'[t] = 0
        /\ \A o \in Types : o # t => last'[o] = last[o]
        BY <1>2, <2>1, <2>3, <2>5, Zenon
  <2>7. LastIsYoungest'
    <3>1. SUFFICES ASSUME NEW o \in Types, NEW a \in Ages, recent'[o][a] > 0
                   PROVE  last'[o] <= a
          BY Zenon DEF LastIsYoungest
    <3>2. CASE o = t
      <4>1. 0 <= a
            BY AgesFacts, SMT
      <4>2. QED
            BY <2>6, <3>2, <4>1
    <3>3. CASE o # t
          BY <2>6, <3>1, <3>3, Zenon DEF AInv, LastIsYoungest
    <3>4. QED
          BY <3>2, <3>3
  \* All that were sent before are as old as the cooldown.
  <2>8. \A a \in Ages : recent[t][a] > 0 => a >= c
    <3>1. \A x, y, z \in Int : y >= z /\ y <= x => x >= z
          BY SMT
    <3>2. last[t] \in Int
          BY <1>2, <2>3, SMT
    <3>3. \A a \in Ages : recent[t][a] > 0 => last[t] <= a
          BY <1>2, Zenon DEF AInv, LastIsYoungest
    <3>4. QED
          BY <1>2, <2>2, <3>1, <3>2, <3>3, AgesFacts, Zenon
  <2>9. AlertsApart'
    <3>1. SUFFICES ASSUME NEW o \in Types, NEW a \in Ages, NEW b \in Ages,
                          recent'[o][a] > 0, recent'[o][b] > 0, a <= b,
                          a = b => recent'[o][a] > 1
                   PROVE  b - a >= c
          BY <1>1, Zenon DEF AlertsApart
    <3>2. CASE o # t
          BY <2>6, <3>1, <3>2, Zenon DEF AInv, AlertsApart
    <3>3. CASE o = t /\ a # 0
      <4>1. b # 0
            BY <3>1, <3>3, AgesFacts, SMT
      <4>2. recent[t][a] = recent'[o][a] /\ recent[t][b] = recent'[o][b]
            BY <2>5, <2>6, <3>3, <4>1
      <4>3. QED
            BY <1>2, <3>1, <4>2, Zenon DEF AInv, AlertsApart
    <3>4. CASE o = t /\ a = 0
      <4>1. recent[t][b] > 0
        <5>1. CASE b = 0
          <6>1. \A k \in Nat : k + 1 > 1 => k > 0
                BY SMT
          <6>2. recent'[o][a] = recent[t][b] + 1 /\ recent[t][b] \in Nat
                BY <2>4, <2>5, <2>6, <3>4, <5>1
          <6>3. QED
                BY <3>1, <3>4, <5>1, <6>1, <6>2, Zenon
        <5>2. CASE b # 0
              BY <2>5, <2>6, <3>1, <3>4, <5>2
        <5>3. QED
              BY <5>1, <5>2
      <4>2. b >= c
            BY <2>8, <4>1
      <4>3. QED
            BY <1>2, <3>4, <4>2, AgesFacts, SMT
    <3>5. QED
          BY <3>2, <3>3, <3>4
  <2>10. QED
        BY <1>1, <1>2, <2>6, <2>7, <2>9 DEF AInv, RaisingTyped
<1>5. QED
      BY <1>3, <1>4

\* Time goes on for all alerts alike.
LEMMA TickAlerts ==
  ASSUME IInv, AInv, Tick
  PROVE  AInv'
<1>1. UNCHANGED <<up, inForce, raising>>
      BY DEF Tick, settingVars
<1>2. \A t \in Types : last'[t] = IF last[t] < MaxCooldown THEN last[t] + 1 ELSE MaxCooldown
      BY DEF Tick
<1>3. /\ \A t \in Types, a \in Ages : recent'[t][a] = IF a = 0 THEN 0 ELSE recent[t][a - 1]
      /\ recent' \in [Types -> [Ages -> Nat]]
  <2>1. recent' = [t \in Types |-> [a \in Ages |-> IF a = 0 THEN 0 ELSE recent[t][a - 1]]]
        BY Zenon DEF Tick, Older
  <2>2. \A t \in Types, a \in Ages : recent[t][a] \in Nat
        BY Zenon DEF AInv
  <2>3. \A t \in Types : [a \in Ages |-> IF a = 0 THEN 0 ELSE recent[t][a - 1]] \in [Ages -> Nat]
        BY <2>2, AgesFacts
  <2>4. QED
        BY <2>1, <2>3, Zenon
<1>4. ~ (0 > 0) /\ ~ (0 > 1)
      BY SMT
\* An alert has been there a tick before, one tick younger.
<1>5. ASSUME NEW t \in Types, NEW a \in Ages, recent'[t][a] > 0
      PROVE  a # 0 /\ a - 1 \in Ages /\ recent'[t][a] = recent[t][a - 1]
      BY <1>3, <1>4, <1>5, AgesFacts, Zenon
<1>6. LastIsYoungest'
  <2>1. SUFFICES ASSUME NEW t \in Types, NEW a \in Ages, recent'[t][a] > 0
                 PROVE  last'[t] <= a
        BY Zenon DEF LastIsYoungest
  <2>2. last[t] <= a - 1
        BY <1>5, <2>1, Zenon DEF AInv, LastIsYoungest
  <2>3. last[t] \in 0..MaxCooldown /\ MaxCooldown \in Nat /\ a \in Int
        BY AgesFacts, ControlAssumption DEF IInv, TypeOK
  <2>4. \A x, y, m \in Int : x <= y - 1 /\ x <= m => /\ x + 1 <= y
                                                     /\ ~ (x < m) => m <= y
        BY SMT
  <2>5. last[t] \in Int /\ last[t] <= MaxCooldown /\ MaxCooldown \in Int
        BY <2>3, SMT
  <2>6. QED
        BY <1>2, <2>2, <2>3, <2>4, <2>5, Zenon
<1>7. AlertsApart'
  <2>1. SUFFICES ASSUME NEW t \in Types, NEW a \in Ages, NEW b \in Ages,
                        recent'[t][a] > 0, recent'[t][b] > 0, a <= b,
                        a = b => recent'[t][a] > 1
                 PROVE  b - a >= inForce["alert"].cooldown
        BY <1>1, Zenon DEF AlertsApart
  <2>2. /\ a - 1 \in Ages /\ recent'[t][a] = recent[t][a - 1]
        /\ b - 1 \in Ages /\ recent'[t][b] = recent[t][b - 1]
        BY <1>5, <2>1
  <2>3. \A x, y \in Int : /\ x <= y => x - 1 <= y - 1
                          /\ x - 1 = y - 1 => x = y
                          /\ (y - 1) - (x - 1) = y - x
        BY SMT
  <2>4. /\ a - 1 <= b - 1 /\ (a - 1 = b - 1 => a = b)
        /\ (b - 1) - (a - 1) = b - a
        BY <2>1, <2>3, AgesFacts, Zenon
  <2>5. (b - 1) - (a - 1) >= inForce["alert"].cooldown
        BY <2>1, <2>2, <2>4, Zenon DEF AInv, AlertsApart
  <2>6. QED
        BY <2>4, <2>5, Zenon
<1>8. ~up' => NothingSent'
      BY <1>1, <1>3, AgesFacts, Zenon DEF AInv, NothingSent
<1>9. RaisingTyped'
      BY <1>1 DEF AInv, RaisingTyped
<1>10. QED
      BY <1>1, <1>3, <1>6, <1>7, <1>8, <1>9, Zenon DEF AInv

LEMMA NextAInv == IInv /\ AInv /\ [Next]_vars => AInv'
<1> SUFFICES ASSUME IInv, AInv, [Next]_vars PROVE AInv'
    OBVIOUS
<1>1. ASSUME UNCHANGED <<up, inForce, raising, last, recent>> PROVE AInv'
      BY <1>1, AlertsUnmoved
<1>2. CASE UNCHANGED vars \/ Edit
      BY <1>1, <1>2 DEF vars, Edit, settingVars, alertVars
<1>3. ASSUME NEW r \in Reloads, AskReload(r) \/ Reload(r) PROVE AInv'
      BY <1>1, <1>3, ApplyAlerts DEF AskReload, Reload, Load, Lock, Unlock, alertVars
<1>4. ASSUME NEW q \in Puts, AskPut(q) \/ SetThreshold(q) PROVE AInv'
      BY <1>1, <1>4, SetThresholdAlerts DEF AskPut, alertVars
<1>5. ASSUME UNCHANGED <<up, inForce, last, recent>>, RaisingTyped' PROVE AInv'
      BY <1>5, Zenon DEF AInv, NothingSent, LastIsYoungest, AlertsApart
<1>6. ASSUME NEW t \in Types, NEW s \in Severities, RaiseAnomaly(t, s) PROVE AInv'
      BY <1>5, <1>6 DEF RaiseAnomaly, RaisingTyped, settingVars
<1>7. ASSUME NEW t \in Types, Deliver(t) PROVE AInv'
      BY <1>1, <1>7 DEF Deliver, settingVars
<1>8. CASE SuppressAlert
      BY <1>5, <1>8 DEF SuppressAlert, RaisingTyped, settingVars
<1>9. QED
      BY <1>2, <1>3, <1>4, <1>6, <1>7, <1>8, StartAlerts, KillAlerts, SendAlerts, TickAlerts
         DEF Next

\* server.go:1067-1076: no two alerts of a type leave one manager within its cooldown; the
\* time is taken in the same critical section that compares it.
THEOREM AlertsApartHolds == Spec => []AlertsApart
<1>1. AInv => AlertsApart
      BY DEF AInv
<1>2. QED
      BY <1>1, InitAInv, NextAInv, Invariance, PTL DEF Spec
=============================================================================
