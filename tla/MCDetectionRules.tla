--------------------------- MODULE MCDetectionRules ---------------------------
(***************************************************************************)
(* The six rules of internal/detection for TLC: a behaviour follows one of *)
(* the five of WindowRules, or the rule of ServiceSilence, whose clock and *)
(* cooldowns have names of their own here.  The services are               *)
(* interchangeable.                                                        *)
(***************************************************************************)
EXTENDS WindowRules, TLC

CONSTANT MaxSilenceTime \* bound on the clock of ServiceSilence

VARIABLES followed, \* the module that is followed
          silenceNow, silenceEvictAt, silenceCooldowns,
          lastSeen, seenCount, checkAt, reports, lastLog, logs, reported, alerted, passed

silence == <<silenceNow, silenceEvictAt, silenceCooldowns, lastSeen, seenCount, checkAt,
             reports, lastLog, logs, reported, alerted, passed>>

S == INSTANCE ServiceSilence WITH now <- silenceNow, evictAt <- silenceEvictAt,
                                  cooldowns <- silenceCooldowns,
                                  MaxTime <- MaxSilenceTime

RulesInit ==
    /\ followed \in {"WindowRules", "ServiceSilence"}
    /\ IF followed = "WindowRules"
         THEN Init /\ S!Init /\ checkAt = 1 /\ silenceEvictAt = 1
         ELSE S!Init /\ Init /\ rule = "error_rate_spike" /\ evictAt = 1

InWindowRules(A)    == followed = "WindowRules" /\ A /\ UNCHANGED <<followed, silence>>
InServiceSilence(A) == followed = "ServiceSilence" /\ A /\ UNCHANGED <<followed, vars>>

RulesNext ==
    \/ \E call \in Calls[rule] : InWindowRules(Evaluate(call))
    \/ InWindowRules(Evict)
    \/ InWindowRules(Tick)
    \/ \E s \in Services : InServiceSilence(S!Evaluate(s)) \/ InServiceSilence(S!Alert(s))
    \/ InServiceSilence(S!CheckSilence)
    \/ InServiceSilence(S!Evict)
    \/ InServiceSilence(S!Tick)

RulesSpec == RulesInit /\ [][RulesNext]_<<followed, vars, silence>>

SilenceTypeOK               == S!SilenceTypeOK
SilenceFoundInTime          == S!SilenceFoundInTime
UnalertedOnlyAsRepeatOrLost == S!UnalertedOnlyAsRepeatOrLost
CooldownsForgotten          == S!CooldownsForgotten
ReportedOnlyIfSilent        == S!ReportedOnlyIfSilent
OneReportPerOutage          == S!OneReportPerOutage

ServiceSymmetry == Permutations(Services)
=============================================================================
