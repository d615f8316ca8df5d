------------------------------ MODULE MCControl ------------------------------
(* The files, requests and environment of the instance of Control that TLC checks. *)
EXTENDS Control, TLC

Named(f) == [n \in Names |-> IF n \in DOMAIN f THEN f[n] ELSE Missing]

\* The environment turns alerts on; the files name the severities as the detector does.
\* The last one would not pass Validate.
MCEnv == Named([enabled |-> TRUE])

MCFiles == <<Absent,
             Named([severities |-> {"HIGH"}, burst |-> 50]),
             Bad,
             Named([severities |-> {"HIGH"}, error_rate |-> 5, burst |-> 60, limit |-> 0,
                    cooldown |-> 1])>>

\* What the command line sends.
MCBodies == {CliBody("error_rate", 7)}
=============================================================================
