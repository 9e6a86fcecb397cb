---------------------------- MODULE DcmSecurity -----------------------------
(***************************************************************************)
(* SecurityAccess (0x27) of Dcm_Dsp.c: a seed for a level, the key that    *)
(* answers it, the attempts that fail and the delay that follows them.     *)
(* Both callouts may leave a request pending.                              *)
(***************************************************************************)
EXTENDS DcmLevels

CONSTANTS
  AttemptLimit,    \* DspSecurityNumAttDelay of each level
  DelayTime,       \* DspSecurityDelayTime, in main function periods
  BootDelay,       \* DspSecurityDelayTimeOnBoot, likewise
  FirstLevel,      \* the level of the first row of the configuration
  PendingResets    \* a request may be interrupted by a reset of the session or a preemption

UnknownLevel == "unconfigured"

ASSUME SecurityAssumption ==
  /\ AttemptLimit \in [DspLevels -> Nat]
  /\ DelayTime \in [DspLevels -> Nat] /\ BootDelay \in [DspLevels -> Nat]
  /\ FirstLevel \in DspLevels /\ UnknownLevel \notin DspLevels
  /\ PendingResets \in BOOLEAN

VARIABLES
  seedKey,      \* dspUdsSecurityAccesData: reqSecLevel, reqInProgress, currSecLevIdx
  delays,       \* its secFalseAttemptChk: attempts, and the timer of each level
  secRequest,   \* dspUdsSecurityAccessPending, or the request just handed over
  secCallouts,  \* the callouts of the application that work on, and their levels
  guesses       \* history: wrong keys of each level since its last delay

securityVars == <<seedKey, delays, secRequest, secCallouts, guesses>>

NoAccess == [kind |-> "none", level |-> Locked]
Accesses == [kind : {"seed", "key"}, level : DspLevels \cup {UnknownLevel}]
Inactive(d) == ~d.active

SecurityInit ==
  /\ seedKey = [level |-> Locked, inProgress |-> FALSE, index |-> FirstLevel]
  /\ delays = [l \in DspLevels |->
                 [attempts |-> 0, timer |-> BootDelay[l], active |-> BootDelay[l] > 0]]
  /\ secRequest = NoAccess /\ secCallouts = {}
  /\ guesses = [moved |-> FALSE, wrong |-> [l \in DspLevels |-> 0]]

-----------------------------------------------------------------------------
(* DspInit(FALSE): the seed is forgotten, attempts and delays are kept.    *)
SeedAfterChange == [seedKey EXCEPT !.inProgress = @ /\ ~InitializesDsp]

Concluded(r) == secRequest' = NoAccess /\ secCallouts' = secCallouts \ {r}
StaysPending(r) == secRequest' = r /\ secCallouts' = secCallouts \cup {r}
RefusedAtOnce == secRequest' = NoAccess /\ UNCHANGED <<secCallouts, delays, levels>>

(* DspUdsSecurityAccessGetSeedSubFnc: the level's row becomes the current  *)
(* one before anything else is looked at, also while the seed of another   *)
(* level waits for its key.                                                *)
CurrentRow(l) == IF l \in DspLevels THEN [seedKey EXCEPT !.index = l] ELSE seedKey
MovesRow(l) == seedKey.inProgress /\ l \in DspLevels /\ l # seedKey.level
RowChosenFor(r) ==
  /\ seedKey' = CurrentRow(r.level)
  /\ guesses' = [guesses EXCEPT !.moved = @ \/ MovesRow(r.level)]
SeedWaits(r) ==
  /\ seedKey' = [level |-> r.level, inProgress |-> TRUE, index |-> r.level]
  /\ guesses' = [guesses EXCEPT !.moved = FALSE]
SeedGiven(r) == Concluded(r) /\ SeedWaits(r) /\ UNCHANGED <<delays, levels>>
GetSeed(r) ==
  \/ RefusedAtOnce /\ RowChosenFor(r)   \* unknown, delayed, wrong length, or a seed of zeros
  \/ /\ r.level \in DspLevels /\ Inactive(delays[r.level]) /\ security # r.level
     /\ \/ SeedGiven(r)
        \/ /\ Concluded(r) \/ StaysPending(r)
           /\ RowChosenFor(r) /\ UNCHANGED <<delays, levels>>

(* DspUdsSecurityAccessCompareKeySubFnc: attempts are counted for the      *)
(* current row, against the limit of the level the seed was for.           *)
LimitReached(d) == d.attempts + 1 >= AttemptLimit[seedKey.level]
CountsAgain(d, l) ==                          \* variation: the delay is never started
  IF ~LimitReached(d) THEN [d EXCEPT !.attempts = @ + 1] ELSE [d EXCEPT !.attempts = 0]
FailedAttempt(d, l) ==
  IF ~LimitReached(d) THEN [d EXCEPT !.attempts = @ + 1]
  ELSE [attempts |-> 0, timer |-> IF DelayTime[l] > 0 THEN DelayTime[l] ELSE d.timer,
        active |-> DelayTime[l] > 0]

MayCompare(r) ==
  r.level = seedKey.level /\ seedKey.inProgress /\ Inactive(delays[seedKey.index])
SeedUsedUp == seedKey' = [seedKey EXCEPT !.inProgress = FALSE]
KeyAccepted(r) ==
  /\ Concluded(r) /\ SeedUsedUp
  /\ DslInternal_SetSecurityLevel(seedKey.level) /\ UNCHANGED <<delays, guesses>>
Started(l) == delays'[l].active /\ Inactive(delays[l])
Guessed(l) == IF l = seedKey.level /\ DelayTime[l] > 0 /\ ~guesses.moved THEN 1 ELSE 0
KeyInvalid(r) ==
  /\ Concluded(r) /\ SeedUsedUp
  /\ delays' = [delays EXCEPT ![seedKey.index] = FailedAttempt(@, seedKey.index)]
  /\ guesses' = [guesses EXCEPT !.wrong = [l \in DspLevels |->
                   IF Started(l) THEN 0 ELSE guesses.wrong[l] + Guessed(l)]]
  /\ UNCHANGED levels
CompareKey(r) ==
  \/ RefusedAtOnce /\ UNCHANGED <<seedKey, guesses>>  \* no such seed, delayed, wrong length
  \/ /\ MayCompare(r)
     /\ \/ KeyAccepted(r) \/ KeyInvalid(r)
        \/ StaysPending(r) /\ UNCHANGED <<seedKey, delays, guesses, levels>>

(* A request that worked on before is answered by its callout, or waits on: *)
(* nothing else is looked at that could have changed in between, but for   *)
(* what a reset of the session did.                                        *)
ContinueSeed(r) ==
  \/ SeedGiven(r)
  \/ Concluded(r) /\ UNCHANGED <<seedKey, delays, guesses, levels>>
  \/ UNCHANGED <<securityVars, levels>>
ContinueKey(r) ==
  IF MayCompare(r) THEN KeyAccepted(r) \/ KeyInvalid(r) \/ UNCHANGED <<securityVars, levels>>
  ELSE RefusedAtOnce /\ UNCHANGED <<seedKey, guesses>>

DspUdsSecurityAccess ==
  /\ secRequest = NoAccess
  /\ \E r \in Accesses : \/ r.kind = "seed" /\ GetSeed(r)
                         \/ r.kind = "key" /\ CompareKey(r)
DspSecurityAccessMainFunction ==
  /\ secRequest # NoAccess
  /\ \/ secRequest.kind = "seed" /\ ContinueSeed(secRequest)
     \/ secRequest.kind = "key" /\ ContinueKey(secRequest)

(* DspCancelPendingSecurityAccess: the callout is called once more, to end; *)
(* a seed it still returns counts.                                         *)
DspCancelPendingSecurityAccess ==
  /\ secRequest # NoAccess /\ Concluded(secRequest)
  /\ \/ UNCHANGED <<seedKey, guesses>>
     \/ secRequest.kind = "seed" /\ SeedWaits(secRequest)
  /\ UNCHANGED delays

SecurityGivenUp == DspCancelPendingSecurityAccess /\ UNCHANGED levels

(* DspTimerMain, for all levels in one main function.                      *)
Elapsed(d) == [d EXCEPT !.timer = @ - 1, !.active = d.timer > 1]
DspTimerMain ==
  /\ \E l \in DspLevels : delays[l].active
  /\ delays' = [l \in DspLevels |-> IF delays[l].active THEN Elapsed(delays[l]) ELSE delays[l]]
  /\ UNCHANGED <<seedKey, secRequest, secCallouts, guesses, levels>>

-----------------------------------------------------------------------------
SecuritySessionChange ==
  /\ secRequest = NoAccess \/ PendingResets
  /\ \E s \in (IF secRequest = NoAccess THEN DspSessions ELSE {DefaultSession}) : ChangesSession(s)
  /\ seedKey' = SeedAfterChange
  /\ UNCHANGED <<delays, secRequest, secCallouts, guesses>>

(* Another protocol takes over.  If it does so after the time a request in *)
(* service had, DspInit is called, but the request stays pending.          *)
SecurityPreempted ==
  /\ ProtocolTakesOver
  /\ \/ secRequest = NoAccess /\ UNCHANGED <<seedKey, secRequest, secCallouts>>
     \/ secRequest = NoAccess /\ SeedUsedUp /\ UNCHANGED <<secRequest, secCallouts>>
     \/ /\ secRequest # NoAccess /\ PendingResets
        /\ SeedUsedUp /\ UNCHANGED <<secRequest, secCallouts>>
  /\ UNCHANGED <<delays, guesses>>

SecurityNext ==
  \/ DspUdsSecurityAccess \/ DspSecurityAccessMainFunction \/ SecurityGivenUp
  \/ DspTimerMain \/ SecuritySessionChange \/ SecurityPreempted

SecuritySpec == LevelsInit /\ SecurityInit /\ [][SecurityNext]_<<levels, securityVars>>

-----------------------------------------------------------------------------
SecurityTypeOK ==
  /\ LevelsTypeOK
  /\ seedKey \in [level : DspLevels \cup {Locked}, inProgress : BOOLEAN, index : DspLevels]
  /\ \A l \in DspLevels : delays[l].attempts \in Nat /\ delays[l].timer \in Nat
  /\ secRequest \in Accesses \cup {NoAccess} /\ secCallouts \subseteq Accesses
  /\ guesses \in [moved : BOOLEAN, wrong : [DspLevels -> Nat]]

(* The lockout of a level holds.  Among as many wrong keys of the level as  *)
(* its limit says there is one that starts its delay, whatever was asked,  *)
(* accepted, reset or taken over between them; and while the level is      *)
(* delayed no seed of it waits for a key.  Not counted are the keys of a   *)
(* level without delay, and those before which the seed of another level   *)
(* was asked for: the code charges them to the row of that one.            *)
LockoutHolds ==
  /\ \A l \in DspLevels : guesses.wrong[l] > 0 => guesses.wrong[l] < AttemptLimit[l]
  /\ seedKey.inProgress => seedKey.level \in DspLevels /\ Inactive(delays[seedKey.level])
=============================================================================
