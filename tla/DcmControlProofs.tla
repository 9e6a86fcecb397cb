-------------------------- MODULE DcmControlProofs --------------------------
(***************************************************************************)
(* Services by which a tester takes hold of the ECU, each on its own:      *)
(* SecurityAccess, InputOutputControlByIdentifier and those that take      *)
(* effect with their response.                                             *)
(***************************************************************************)
EXTENDS DcmSecurity, DcmIoControl, DcmConfirm, FiniteSetTheorems, TLAPS

-----------------------------------------------------------------------------
(* The lockout of SecurityAccess, for any levels, delays and limits.        *)

(* A callout that is still to return a seed was asked while its level was  *)
(* not delayed, and only a key that fails can delay it since: there is     *)
(* none before the request has ended.  The wrong keys of a level are at    *)
(* most the attempts of its row, because the row of the seed is the        *)
(* current one unless another seed was asked for.                          *)
Delays == [attempts : Nat, timer : Nat, active : BOOLEAN]
Guesses == [moved : BOOLEAN, wrong : [DspLevels -> Nat]]
SeedMayStillBeGiven ==
  secRequest.kind = "seed" =>
    secRequest.level \in DspLevels /\ Inactive(delays[secRequest.level])
RowOfSeed == seedKey.inProgress /\ ~guesses.moved => seedKey.index = seedKey.level
GuessesAreCounted ==
  \A l \in DspLevels : /\ guesses.wrong[l] <= delays[l].attempts
                       /\ DelayTime[l] = 0 => guesses.wrong[l] = 0
SecurityInv ==
  /\ delays \in [DspLevels -> Delays]
  /\ \A l \in DspLevels : delays[l].active => delays[l].timer > 0
  /\ seedKey \in [level : DspLevels \cup {Locked}, inProgress : BOOLEAN, index : DspLevels]
  /\ secRequest \in Accesses \cup {NoAccess}
  /\ guesses \in Guesses
  /\ SeedMayStillBeGiven /\ RowOfSeed /\ GuessesAreCounted
  /\ LockoutHolds

-----------------------------------------------------------------------------
(* What the actions do to the seed and to a delay.                         *)
SeedRecord == [level : DspLevels \cup {Locked}, inProgress : BOOLEAN, index : DspLevels]

LEMMA Constants ==
  /\ \A l \in DspLevels : AttemptLimit[l] \in Nat /\ DelayTime[l] \in Nat /\ BootDelay[l] \in Nat
  /\ FirstLevel \in DspLevels /\ Locked \notin DspLevels /\ UnknownLevel \notin DspLevels
BY LevelsAssumption, SecurityAssumption

(* A failed attempt counts, or the count starts again, with the delay if   *)
(* the row has one.                                                        *)
LEMMA AttemptCounted ==
  ASSUME NEW d \in Delays, NEW l \in DspLevels, d.active => d.timer > 0
  PROVE  /\ FailedAttempt(d, l) \in Delays
         /\ FailedAttempt(d, l).active => FailedAttempt(d, l).timer > 0
         /\ LimitReached(d) /\ DelayTime[l] > 0 => FailedAttempt(d, l).active
         /\ ~LimitReached(d) => /\ FailedAttempt(d, l).attempts = d.attempts + 1
                                /\ FailedAttempt(d, l).active = d.active
<1>1. DelayTime[l] \in Nat
  BY Constants
<1>2. CASE LimitReached(d)
  <2> DEFINE runs == DelayTime[l] > 0
             t == IF runs THEN DelayTime[l] ELSE d.timer
  <2>1. FailedAttempt(d, l) = [attempts |-> 0, timer |-> t, active |-> runs]
    BY <1>2 DEF FailedAttempt
  <2>2. runs \in BOOLEAN /\ t \in Nat /\ (runs => t > 0) /\ (DelayTime[l] > 0 => runs)
    BY <1>1 DEF Delays
  <2> HIDE DEF runs, t
  <2> QED BY <1>2, <2>1, <2>2 DEF Delays
<1>3. CASE ~LimitReached(d)
  <2>1. FailedAttempt(d, l) = [d EXCEPT !.attempts = @ + 1]
    BY <1>3 DEF FailedAttempt
  <2> QED BY <1>3, <2>1 DEF Delays
<1> QED BY <1>2, <1>3

(* A main function keeps attempts, and ends a delay only. *)
LEMMA TimeElapsed ==
  ASSUME NEW d \in Delays, d.active, d.timer > 0
  PROVE  /\ Elapsed(d) \in Delays
         /\ Elapsed(d).active => Elapsed(d).timer > 0
         /\ Elapsed(d).attempts = d.attempts
<1> DEFINE less == d.timer - 1
           left == d.timer > 1
<1>1. less \in Nat /\ (left => less > 0) /\ left \in BOOLEAN
  BY DEF Delays
<1>2. Elapsed(d) = [d EXCEPT !.timer = less, !.active = left]
  BY DEF Elapsed
<1> HIDE DEF less, left
<1>3. Elapsed(d) = [attempts |-> d.attempts, timer |-> less, active |-> left]
  BY <1>2, Zenon DEF Delays
<1> QED BY <1>1, <1>3 DEF Delays

(* A seed that is forgotten. *)
LEMMA SeedForgotten ==
  ASSUME seedKey \in SeedRecord, NEW b \in BOOLEAN
  PROVE  /\ [seedKey EXCEPT !.inProgress = @ /\ b] \in SeedRecord
         /\ [seedKey EXCEPT !.inProgress = @ /\ b].level = seedKey.level
         /\ [seedKey EXCEPT !.inProgress = @ /\ b].inProgress => seedKey.inProgress
         /\ [seedKey EXCEPT !.inProgress = FALSE] \in SeedRecord
         /\ ~[seedKey EXCEPT !.inProgress = FALSE].inProgress
BY DEF SeedRecord

-----------------------------------------------------------------------------
(* The ways a step keeps the invariant. *)

(* Nothing but the request changes; a pending seed stays or ends.          *)
LEMMA KeptByRequest ==
  ASSUME SecurityInv, UNCHANGED delays,
         secRequest' \in {NoAccess, secRequest},
         seedKey' \in SeedRecord,
         seedKey'.inProgress => seedKey.inProgress /\ seedKey'.level = seedKey.level,
         guesses' \in Guesses, guesses'.wrong = guesses.wrong, RowOfSeed'
  PROVE  SecurityInv'
<1>1. SeedMayStillBeGiven'
  BY DEF SeedMayStillBeGiven, SecurityInv, NoAccess
<1>2. LockoutHolds' /\ GuessesAreCounted'
  BY DEF LockoutHolds, GuessesAreCounted, SecurityInv
<1> QED BY <1>1, <1>2 DEF SecurityInv, SeedRecord

(* The seed stays or is forgotten. *)
LEMMA KeptWithRow ==
  ASSUME SecurityInv, UNCHANGED <<delays, guesses>>,
         secRequest' \in {NoAccess, secRequest},
         seedKey' \in SeedRecord,
         seedKey'.inProgress => seedKey' = seedKey
  PROVE  SecurityInv'
<1>1. guesses' \in Guesses /\ guesses'.wrong = guesses.wrong /\ RowOfSeed'
  BY DEF SecurityInv, RowOfSeed
<1> QED BY <1>1, KeptByRequest

(* The row of another level becomes the current one, or that of the seed.  *)
LEMMA RowMoved ==
  ASSUME SecurityInv, NEW r \in Accesses, RowChosenFor(r)
  PROVE  /\ seedKey' \in SeedRecord /\ seedKey'.level = seedKey.level
         /\ seedKey'.inProgress = seedKey.inProgress
         /\ guesses' \in Guesses /\ guesses'.wrong = guesses.wrong /\ RowOfSeed'
<1>1. seedKey \in SeedRecord /\ guesses \in Guesses
  BY DEF SecurityInv, SeedRecord
<1>2. seedKey' \in SeedRecord /\ seedKey'.level = seedKey.level
      /\ seedKey'.inProgress = seedKey.inProgress
      /\ seedKey'.index = IF r.level \in DspLevels THEN r.level ELSE seedKey.index
  BY <1>1 DEF RowChosenFor, CurrentRow, SeedRecord
<1>3. /\ guesses' \in Guesses /\ guesses'.wrong = guesses.wrong
      /\ guesses'.moved = (guesses.moved \/ MovesRow(r.level))
  <2> DEFINE m == guesses.moved \/ MovesRow(r.level)
  <2>1. m \in BOOLEAN
    BY <1>1 DEF Guesses, MovesRow, SeedRecord
  <2>2. guesses' = [guesses EXCEPT !.moved = m]
    BY DEF RowChosenFor
  <2> HIDE DEF m
  <2>3. guesses' \in Guesses /\ guesses'.wrong = guesses.wrong /\ guesses'.moved = m
    BY <1>1, <2>1, <2>2 DEF Guesses
  <2> QED BY <2>3 DEF m
<1>4. RowOfSeed'
  BY <1>2, <1>3 DEF RowOfSeed, MovesRow, SecurityInv
<1> QED BY <1>2, <1>3, <1>4

(* A seed is given to a level that is not delayed. *)
LEMMA KeptBySeed ==
  ASSUME SecurityInv, UNCHANGED delays, secRequest' = NoAccess,
         NEW r, r.level \in DspLevels, Inactive(delays[r.level]), SeedWaits(r)
  PROVE  SecurityInv'
<1>1. seedKey' = [level |-> r.level, inProgress |-> TRUE, index |-> r.level]
      /\ guesses' \in Guesses /\ guesses'.wrong = guesses.wrong
  BY DEF SeedWaits, SecurityInv, Guesses
<1>2. SeedMayStillBeGiven'
  BY DEF SeedMayStillBeGiven, NoAccess
<1>3. LockoutHolds' /\ GuessesAreCounted' /\ RowOfSeed'
  BY <1>1 DEF LockoutHolds, GuessesAreCounted, RowOfSeed, SecurityInv
<1> QED BY <1>1, <1>2, <1>3 DEF SecurityInv

(* A key that failed.  It counts for the current row; where that is not    *)
(* the row of the seed the key is no guess of the level's.                 *)
LEMMA KeptByInvalidKey ==
  ASSUME SecurityInv, NEW r, MayCompare(r), KeyInvalid(r)
  PROVE  SecurityInv'
<1> DEFINE k == seedKey.index
           d == FailedAttempt(delays[k], k)
<1>1. /\ k \in DspLevels /\ seedKey.level \in DspLevels /\ seedKey \in SeedRecord
      /\ ~delays[k].active /\ (~guesses.moved => seedKey.level = k)
  BY DEF SecurityInv, SeedRecord, MayCompare, LockoutHolds, RowOfSeed, Inactive
<1>2. /\ delays[k] \in Delays /\ delays[k].attempts \in Nat
      /\ guesses \in Guesses /\ DelayTime[k] \in Nat /\ AttemptLimit[k] \in Nat
  BY <1>1, Constants DEF SecurityInv, Delays
<1>3. /\ d \in Delays /\ (d.active => d.timer > 0)
      /\ LimitReached(delays[k]) /\ DelayTime[k] > 0 => d.active
      /\ ~LimitReached(delays[k]) => d.attempts = delays[k].attempts + 1 /\ ~d.active
  BY <1>1, <1>2, AttemptCounted
<1>4. delays' = [delays EXCEPT ![k] = d] /\ secRequest' = NoAccess
      /\ seedKey' = [seedKey EXCEPT !.inProgress = FALSE]
  BY DEF KeyInvalid, Concluded, SeedUsedUp
<1> HIDE DEF k, d
<1>5. \A l \in DspLevels : delays'[l] = IF l = k THEN d ELSE delays[l]
  BY <1>4 DEF SecurityInv
<1>6. delays' \in [DspLevels -> Delays]
  BY <1>3, <1>4 DEF SecurityInv
<1>7. seedKey' \in SeedRecord /\ ~seedKey'.inProgress
  BY <1>1, <1>4, SeedForgotten
<1>8. /\ guesses' \in Guesses
      /\ \A l \in DspLevels :
           guesses'.wrong[l] = IF Started(l) THEN 0 ELSE guesses.wrong[l] + Guessed(l)
  <2>1. \A l \in DspLevels : (IF Started(l) THEN 0 ELSE guesses.wrong[l] + Guessed(l)) \in Nat
    BY <1>2 DEF Guesses, Guessed
  <2> HIDE DEF Started, Guessed
  <2>2. guesses' = [guesses EXCEPT !.wrong = [l \in DspLevels |->
                     IF Started(l) THEN 0 ELSE guesses.wrong[l] + Guessed(l)]]
    BY DEF KeyInvalid
  <2> QED BY <1>2, <2>1, <2>2 DEF Guesses
<1>9. \A l \in DspLevels : l # k => guesses'.wrong[l] = guesses.wrong[l]
  BY <1>1, <1>2, <1>5, <1>8 DEF Started, Guessed, Inactive, Guesses
<1>10. /\ guesses'.wrong[k] \in Nat /\ guesses'.wrong[k] <= d.attempts
       /\ DelayTime[k] = 0 => guesses'.wrong[k] = 0
       /\ guesses'.wrong[k] > 0 => guesses'.wrong[k] < AttemptLimit[k]
  <2> DEFINE w == guesses.wrong[k]
  <2>1. /\ w \in Nat /\ w <= delays[k].attempts /\ (DelayTime[k] = 0 => w = 0)
        /\ w > 0 => w < AttemptLimit[k]
    BY <1>1, <1>2 DEF SecurityInv, GuessesAreCounted, LockoutHolds, Guesses
  <2>2. guesses'.wrong[k] = IF d.active THEN 0 ELSE w + Guessed(k)
    BY <1>1, <1>5, <1>8 DEF Started, Inactive
  <2>3. d.attempts \in Nat
    BY <1>3 DEF Delays
  <2>4. CASE d.active
    BY <1>2, <1>3, <2>2, <2>3, <2>4
  <2>5. CASE ~d.active /\ LimitReached(delays[k])
    <3>1. DelayTime[k] = 0
      BY <1>2, <1>3, <2>5
    <3>2. Guessed(k) = 0
      BY <3>1 DEF Guessed
    <3> QED BY <2>1, <2>2, <2>3, <2>5, <3>1, <3>2
  <2>6. CASE ~d.active /\ ~LimitReached(delays[k])
    <3>1. CASE Guessed(k) = 1
      <4>1. k = seedKey.level /\ DelayTime[k] # 0
        BY <1>2, <3>1 DEF Guessed
      <4>2. delays[k].attempts + 1 < AttemptLimit[k]
        BY <1>2, <2>6, <4>1 DEF LimitReached
      <4> QED BY <1>2, <1>3, <2>1, <2>2, <2>6, <3>1, <4>1, <4>2
    <3>2. CASE Guessed(k) = 0
      BY <1>2, <1>3, <2>1, <2>2, <2>6, <3>2
    <3> QED BY <3>1, <3>2 DEF Guessed
  <2> QED BY <2>4, <2>5, <2>6
<1>11. LockoutHolds' /\ GuessesAreCounted'
  BY <1>5, <1>7, <1>9, <1>10 DEF LockoutHolds, GuessesAreCounted, SecurityInv
<1>12. SeedMayStillBeGiven' /\ RowOfSeed'
  BY <1>4, <1>7 DEF SeedMayStillBeGiven, RowOfSeed, NoAccess
<1>13. \A l \in DspLevels : delays'[l].active => delays'[l].timer > 0
  BY <1>3, <1>5 DEF SecurityInv
<1> QED BY <1>4, <1>6, <1>7, <1>8, <1>11, <1>12, <1>13 DEF SecurityInv, SeedRecord

LEMMA KeptByAcceptedKey ==
  ASSUME SecurityInv, NEW r, KeyAccepted(r)
  PROVE  SecurityInv'
<1>1. seedKey \in SeedRecord
  BY DEF SecurityInv, SeedRecord
<1>2. seedKey' \in SeedRecord /\ ~seedKey'.inProgress
  BY <1>1, SeedForgotten DEF KeyAccepted, SeedUsedUp
<1> QED BY <1>2, KeptWithRow DEF KeyAccepted, Concluded

-----------------------------------------------------------------------------
LEMMA RequestKeeps ==
  ASSUME SecurityInv, DspUdsSecurityAccess
  PROVE  SecurityInv'
<1>1. PICK r \in Accesses : \/ r.kind = "seed" /\ GetSeed(r)
                            \/ r.kind = "key" /\ CompareKey(r)
  BY DEF DspUdsSecurityAccess
<1>2. seedKey \in SeedRecord
  BY DEF SecurityInv, SeedRecord
<1>3. CASE RefusedAtOnce /\ UNCHANGED <<seedKey, guesses>>
  BY <1>2, <1>3, KeptWithRow DEF RefusedAtOnce
<1>4. CASE RowChosenFor(r) /\ UNCHANGED delays /\ secRequest' = NoAccess
  <2>1. /\ seedKey' \in SeedRecord /\ seedKey'.level = seedKey.level
        /\ seedKey'.inProgress = seedKey.inProgress
        /\ guesses' \in Guesses /\ guesses'.wrong = guesses.wrong /\ RowOfSeed'
    BY <1>4, RowMoved
  <2> QED BY <1>4, <2>1, KeptByRequest
<1>5. CASE r.kind = "seed" /\ GetSeed(r)
  <2>1. CASE RefusedAtOnce /\ RowChosenFor(r)
    BY <1>4, <2>1 DEF RefusedAtOnce
  <2>2. CASE r.level \in DspLevels /\ Inactive(delays[r.level]) /\ SeedGiven(r)
    BY <2>2, KeptBySeed DEF SeedGiven, Concluded
  <2>3. CASE Concluded(r) /\ RowChosenFor(r) /\ UNCHANGED delays
    BY <1>4, <2>3 DEF Concluded
  <2>4. CASE r.level \in DspLevels /\ Inactive(delays[r.level]) /\ StaysPending(r)
             /\ RowChosenFor(r) /\ UNCHANGED delays
    <3>1. secRequest' = r
      BY <2>4 DEF StaysPending
    <3>2. SeedMayStillBeGiven'
      BY <2>4, <3>1 DEF SeedMayStillBeGiven
    <3>3. /\ seedKey' \in SeedRecord /\ seedKey'.level = seedKey.level
          /\ seedKey'.inProgress = seedKey.inProgress
          /\ guesses' \in Guesses /\ guesses'.wrong = guesses.wrong /\ RowOfSeed'
      BY <2>4, RowMoved
    <3>4. LockoutHolds' /\ GuessesAreCounted'
      BY <2>4, <3>3 DEF LockoutHolds, GuessesAreCounted, SecurityInv
    <3> QED BY <1>1, <2>4, <3>1, <3>2, <3>3, <3>4 DEF SecurityInv, SeedRecord
  <2> QED BY <1>5, <2>1, <2>2, <2>3, <2>4 DEF GetSeed
<1>6. CASE r.kind = "key" /\ CompareKey(r)
  <2>1. CASE RefusedAtOnce /\ UNCHANGED <<seedKey, guesses>>
    BY <1>3, <2>1
  <2>2. CASE MayCompare(r) /\ KeyAccepted(r)
    BY <2>2, KeptByAcceptedKey
  <2>3. CASE MayCompare(r) /\ KeyInvalid(r)
    BY <2>3, KeptByInvalidKey
  <2>4. CASE StaysPending(r) /\ UNCHANGED <<seedKey, delays, guesses, levels>>
    <3>1. secRequest' = r
      BY <2>4 DEF StaysPending
    <3>2. SeedMayStillBeGiven'
      BY <1>6, <3>1 DEF SeedMayStillBeGiven
    <3>3. LockoutHolds' /\ GuessesAreCounted' /\ RowOfSeed'
      BY <2>4 DEF LockoutHolds, GuessesAreCounted, RowOfSeed, SecurityInv
    <3> QED BY <1>1, <2>4, <3>1, <3>2, <3>3 DEF SecurityInv
  <2> QED BY <1>6, <2>1, <2>2, <2>3, <2>4 DEF CompareKey
<1> QED BY <1>1, <1>5, <1>6

LEMMA PendingKeeps ==
  ASSUME SecurityInv, DspSecurityAccessMainFunction
  PROVE  SecurityInv'
<1> DEFINE r == secRequest
<1>1. seedKey \in SeedRecord
  BY DEF SecurityInv, SeedRecord
<1>2. CASE secRequest.kind = "seed" /\ ContinueSeed(r)
  <2>1. r.level \in DspLevels /\ Inactive(delays[r.level])
    BY <1>2 DEF SecurityInv, SeedMayStillBeGiven
  <2>2. CASE SeedGiven(r)
    BY <2>1, <2>2, KeptBySeed DEF SeedGiven, Concluded
  <2>3. CASE Concluded(r) /\ UNCHANGED <<seedKey, delays, guesses, levels>>
    BY <1>1, <2>3, KeptWithRow DEF Concluded
  <2>4. CASE UNCHANGED <<securityVars, levels>>
    BY <1>1, <2>4, KeptWithRow DEF securityVars
  <2> QED BY <1>2, <2>2, <2>3, <2>4 DEF ContinueSeed
<1>3. CASE secRequest.kind = "key" /\ ContinueKey(r)
  <2>1. CASE MayCompare(r) /\ KeyAccepted(r)
    BY <2>1, KeptByAcceptedKey
  <2>2. CASE MayCompare(r) /\ KeyInvalid(r)
    BY <2>2, KeptByInvalidKey
  <2>3. CASE UNCHANGED <<securityVars, levels>>
    BY <1>1, <2>3, KeptWithRow DEF securityVars
  <2>4. CASE RefusedAtOnce /\ UNCHANGED <<seedKey, guesses>>
    BY <1>1, <2>4, KeptWithRow DEF RefusedAtOnce
  <2> QED BY <1>3, <2>1, <2>2, <2>3, <2>4 DEF ContinueKey
<1> QED BY <1>2, <1>3 DEF DspSecurityAccessMainFunction

LEMMA CancelKeeps ==
  ASSUME SecurityInv, DspCancelPendingSecurityAccess
  PROVE  SecurityInv'
<1>1. seedKey \in SeedRecord
  BY DEF SecurityInv, SeedRecord
<1>2. secRequest' = NoAccess /\ UNCHANGED delays
  BY DEF DspCancelPendingSecurityAccess, Concluded
<1>3. CASE UNCHANGED <<seedKey, guesses>>
  BY <1>1, <1>2, <1>3, KeptWithRow
<1>4. CASE secRequest.kind = "seed" /\ SeedWaits(secRequest)
  <2>1. secRequest.level \in DspLevels /\ Inactive(delays[secRequest.level])
    BY <1>4 DEF SecurityInv, SeedMayStillBeGiven
  <2> QED BY <1>2, <1>4, <2>1, KeptBySeed
<1> QED BY <1>3, <1>4 DEF DspCancelPendingSecurityAccess

LEMMA TimerKeeps ==
  ASSUME SecurityInv, DspTimerMain
  PROVE  SecurityInv'
<1>1. \A l \in DspLevels :
        /\ delays'[l] \in Delays
        /\ delays'[l].active => delays[l].active /\ delays'[l].timer > 0
        /\ delays'[l].attempts = delays[l].attempts
  <2> TAKE l \in DspLevels
  <2>1. delays[l] \in Delays /\ (delays[l].active => delays[l].timer > 0)
    BY DEF SecurityInv
  <2>2. delays'[l] = IF delays[l].active THEN Elapsed(delays[l]) ELSE delays[l]
    BY DEF DspTimerMain
  <2>3. CASE delays[l].active
    BY <2>1, <2>2, <2>3, TimeElapsed
  <2>4. CASE ~delays[l].active
    BY <2>1, <2>2, <2>4
  <2> QED BY <2>3, <2>4
<1>2. delays' \in [DspLevels -> Delays]
  BY <1>1 DEF DspTimerMain
<1>3. UNCHANGED <<seedKey, secRequest, guesses>>
  BY DEF DspTimerMain
<1>4. LockoutHolds' /\ GuessesAreCounted' /\ RowOfSeed'
  BY <1>1, <1>3 DEF LockoutHolds, GuessesAreCounted, RowOfSeed, SecurityInv, Inactive
<1>5. SeedMayStillBeGiven'
  BY <1>1, <1>3 DEF SeedMayStillBeGiven, SecurityInv, Inactive
<1> QED BY <1>1, <1>2, <1>3, <1>4, <1>5 DEF SecurityInv

LEMMA ChangeKeeps ==
  ASSUME SecurityInv, SecuritySessionChange \/ SecurityPreempted
  PROVE  SecurityInv'
<1>1. seedKey \in SeedRecord
  BY DEF SecurityInv, SeedRecord
<1>2. UNCHANGED <<delays, secRequest, guesses>>
      /\ (seedKey' = SeedAfterChange \/ SeedUsedUp \/ UNCHANGED seedKey)
  BY DEF SecuritySessionChange, SecurityPreempted
<1>3. CASE seedKey' = SeedAfterChange
  <2>1. SeedAfterChange \in SeedRecord /\ (SeedAfterChange.inProgress => SeedAfterChange = seedKey)
    BY <1>1 DEF SeedAfterChange, InitializesDsp, SeedRecord
  <2> QED BY <1>2, <1>3, <2>1, KeptWithRow
<1>4. CASE SeedUsedUp
  <2>1. seedKey' \in SeedRecord /\ ~seedKey'.inProgress
    BY <1>1, <1>4, SeedForgotten DEF SeedUsedUp
  <2> QED BY <1>2, <2>1, KeptWithRow
<1>5. CASE UNCHANGED seedKey
  BY <1>1, <1>2, <1>5, KeptWithRow
<1> QED BY <1>2, <1>3, <1>4, <1>5

-----------------------------------------------------------------------------
LEMMA SecurityInitHolds == SecurityInit => SecurityInv
<1> SUFFICES ASSUME SecurityInit PROVE SecurityInv
  OBVIOUS
<1>1. \A l \in DspLevels :
        delays[l] = [attempts |-> 0, timer |-> BootDelay[l], active |-> BootDelay[l] > 0]
  BY DEF SecurityInit
<1>2. delays \in [DspLevels -> Delays]
  BY Constants DEF SecurityInit, Delays
<1>3. LockoutHolds /\ GuessesAreCounted /\ RowOfSeed /\ guesses \in Guesses
  BY <1>1, Constants DEF LockoutHolds, GuessesAreCounted, RowOfSeed, Guesses, SecurityInit
<1>4. SeedMayStillBeGiven
  BY DEF SeedMayStillBeGiven, SecurityInit, NoAccess
<1>5. seedKey \in SeedRecord
  BY Constants DEF SecurityInit, SeedRecord
<1> QED BY <1>1, <1>2, <1>3, <1>4, <1>5 DEF SecurityInv, SecurityInit, SeedRecord

LEMMA SecurityStepHolds ==
  ASSUME SecurityInv, [SecurityNext]_<<levels, securityVars>>
  PROVE  SecurityInv'
<1>1. CASE DspUdsSecurityAccess
  BY <1>1, RequestKeeps
<1>2. CASE DspSecurityAccessMainFunction
  BY <1>2, PendingKeeps
<1>3. CASE SecurityGivenUp
  BY <1>3, CancelKeeps DEF SecurityGivenUp
<1>4. CASE DspTimerMain
  BY <1>4, TimerKeeps
<1>5. CASE SecuritySessionChange \/ SecurityPreempted
  BY <1>5, ChangeKeeps
<1>6. CASE UNCHANGED <<levels, securityVars>>
  <2>1. seedKey \in SeedRecord
    BY DEF SecurityInv, SeedRecord
  <2> QED BY <1>6, <2>1, KeptWithRow DEF securityVars
<1> QED BY <1>1, <1>2, <1>3, <1>4, <1>5, <1>6 DEF SecurityNext

(* The lockout of every level holds: whatever is asked, cancelled, reset   *)
(* or taken over, among as many wrong keys of its own as its limit says    *)
(* there is one that starts its delay, and while that runs no seed of it   *)
(* waits for a key.                                                        *)
THEOREM NoKeyInLockout == SecuritySpec => []LockoutHolds
<1>1. LevelsInit /\ SecurityInit => SecurityInv
  BY SecurityInitHolds
<1>2. SecurityInv /\ [SecurityNext]_<<levels, securityVars>> => SecurityInv'
  BY SecurityStepHolds
<1>3. SecurityInv => LockoutHolds
  BY DEF SecurityInv
<1> QED BY <1>1, <1>2, <1>3, PTL DEF SecuritySpec

(* The type invariant: the invariant above types everything but the        *)
(* callouts at work, the session and the level.                            *)
CalloutsTyped == LevelsTypeOK /\ secCallouts \subseteq Accesses

LEMMA CalloutsKept ==
  ASSUME SecurityInv, CalloutsTyped, [SecurityNext]_<<levels, securityVars>>
  PROVE  CalloutsTyped'
<1>1. LevelsTypeOK'
  <2>1. LevelAfter \in DspLevels \cup {Locked}
    BY DEF LevelAfter, CalloutsTyped, LevelsTypeOK
  <2>2. CASE SecuritySessionChange \/ SecurityPreempted
    BY <2>1, <2>2, LevelsAssumption DEF SecuritySessionChange, SecurityPreempted,
       ChangesSession, ProtocolTakesOver, CalloutsTyped, LevelsTypeOK
  <2>3. CASE \E r : KeyAccepted(r)
    BY <2>3 DEF KeyAccepted, DslInternal_SetSecurityLevel, SecurityInv, CalloutsTyped, LevelsTypeOK
  <2>4. CASE UNCHANGED levels
    BY <2>4 DEF levels, CalloutsTyped, LevelsTypeOK
  <2>5. CASE DspUdsSecurityAccess
    BY <2>3, <2>4, <2>5 DEF DspUdsSecurityAccess, GetSeed, SeedGiven, CompareKey, KeyInvalid,
       RefusedAtOnce
  <2>6. CASE DspSecurityAccessMainFunction
    BY <2>3, <2>4, <2>6 DEF DspSecurityAccessMainFunction, ContinueSeed, ContinueKey, SeedGiven,
       KeyInvalid, RefusedAtOnce
  <2> QED BY <2>2, <2>4, <2>5, <2>6 DEF SecurityNext, SecurityGivenUp, DspTimerMain
<1>2. secCallouts' \subseteq Accesses
  <2>1. CASE secCallouts' \subseteq secCallouts
    BY <2>1 DEF CalloutsTyped
  <2>2. CASE \E r \in Accesses : StaysPending(r)
    BY <2>2 DEF StaysPending, CalloutsTyped
  <2>3. CASE DspUdsSecurityAccess
    BY <2>1, <2>2, <2>3 DEF DspUdsSecurityAccess, GetSeed, SeedGiven, CompareKey, KeyAccepted,
       KeyInvalid, RefusedAtOnce, Concluded
  <2>4. CASE DspSecurityAccessMainFunction
    BY <2>1, <2>4 DEF DspSecurityAccessMainFunction, ContinueSeed, ContinueKey, SeedGiven,
       KeyAccepted, KeyInvalid, RefusedAtOnce, Concluded, securityVars
  <2> QED BY <2>1, <2>3, <2>4 DEF SecurityNext, SecurityGivenUp, DspCancelPendingSecurityAccess,
       Concluded, DspTimerMain, SecuritySessionChange, SecurityPreempted, securityVars
<1> QED BY <1>1, <1>2 DEF CalloutsTyped

(* The type invariant of SecurityAccess, with rows of different limits too: *)
(* a seed that is awaited is of a level, whatever gives it up.             *)
THEOREM SecurityWellTyped == SecuritySpec => []SecurityTypeOK
<1> DEFINE IInv == SecurityInv /\ CalloutsTyped
<1>1. LevelsInit /\ SecurityInit => IInv
  BY SecurityInitHolds, LevelsAssumption
  DEF LevelsInit, SecurityInit, CalloutsTyped, LevelsTypeOK
<1>2. IInv /\ [SecurityNext]_<<levels, securityVars>> => IInv'
  BY SecurityStepHolds, CalloutsKept
<1>3. IInv => SecurityTypeOK
  BY DEF SecurityInv, CalloutsTyped, SecurityTypeOK, Delays, Guesses
<1> HIDE DEF IInv
<1> QED BY <1>1, <1>2, <1>3, PTL DEF SecuritySpec

-----------------------------------------------------------------------------
(* InputOutputControl, for any identifiers, signals and rows.  A signal     *)
(* that is held is listed; every identifier is listed once, so that one    *)
(* that is not yet listed finds a slot; and what a pending request to      *)
(* return control has returned is not held again before it ends.           *)
IoRecords == [pending : BOOLEAN, signal : Nat, control : BOOLEAN, affected : SUBSET Nat]
Slots == [did : ControlDids \cup {Unlisted, UnknownDid}, signals : SUBSET Nat]
Listed(list, d, s) == \E i \in 1 .. IoSlots : list[i].did = d /\ s \in list[i].signals

ListOK(list) ==
  /\ list \in [1 .. IoSlots -> Slots]
  /\ \A i \in 1 .. IoSlots : list[i].signals \subseteq Signals(list[i].did)
  /\ \A i, j \in 1 .. IoSlots : list[i].did = list[j].did /\ list[i].did # Unlisted => i = j

DoneIsOf(c, r) ==
  /\ c.affected \subseteq Signals(r.did)
  /\ r.action = "return" => \A s \in c.affected : <<r.did, s>> \notin held

ControlInv ==
  /\ io \in IoRecords /\ ListOK(ioList)
  /\ ioRequest \in IoRequests \cup {NoIoRequest}
  /\ held \subseteq AllSignals
  /\ io.pending => ioRequest # NoIoRequest /\ DoneIsOf(io, ioRequest)
  /\ HeldIsListed

(* The least element of a set of natural numbers. *)
LEMMA Least ==
  ASSUME NEW S \in SUBSET Nat, S # {}
  PROVE  \E i \in S : \A j \in S : i <= j
<1> DEFINE R == OpToRel(<, Nat)
<1>1. IsWellFoundedOn(R, Nat)
  BY NatLessThanWellFounded
<1>2. \A x, y \in Nat : x < y => <<x, y>> \in R
  BY DEF OpToRel
<1> HIDE DEF R
<1>3. PICK i \in S : \A j \in S : <<j, i>> \notin R
  BY <1>1, WFMin
<1>4. \A j \in S : i <= j
  <2> TAKE j \in S
  <2>1. i \in Nat /\ j \in Nat
    OBVIOUS
  <2>2. ~(j < i)
    BY <1>2, <1>3, <2>1, Zenon
  <2> QED BY <2>1, <2>2
<1> QED BY <1>4

LEMMA FirstOfIsIn ==
  ASSUME NEW S \in SUBSET (1 .. IoSlots), S # {}
  PROVE  FirstOf(S) \in S
<1>1. \E i \in S : \A j \in S : i <= j
  BY Least, S \in SUBSET Nat
<1> QED BY <1>1 DEF FirstOf

LEMMA SignalNumbers ==
  /\ \A d : Signals(d) \subseteq Nat
  /\ Signals(UnknownDid) = {} /\ Signals(Unlisted) = {}
  /\ UnknownDid \notin ControlDids /\ Unlisted \notin ControlDids /\ Unlisted # UnknownDid
BY ControlAssumption DEF Signals, Unlisted, UnknownDid

LEMMA PairIn ==
  ASSUME NEW d, NEW W, NEW h
  PROVE  h \in {d} \X W <=> h = <<h[1], h[2]>> /\ h[1] = d /\ h[2] \in W
OBVIOUS

LEMMA SignalPair ==
  ASSUME NEW h
  PROVE  h \in AllSignals <=> h = <<h[1], h[2]>> /\ h[1] \in ControlDids /\ h[2] \in Signals(h[1])
<1>1. ASSUME h \in AllSignals
      PROVE  h = <<h[1], h[2]>> /\ h[1] \in ControlDids /\ h[2] \in Signals(h[1])
  <2>1. PICK d \in ControlDids : h \in {d} \X Signals(d)
    BY <1>1 DEF AllSignals
  <2> QED BY <2>1, PairIn
<1>2. ASSUME h = <<h[1], h[2]>>, h[1] \in ControlDids, h[2] \in Signals(h[1])
      PROVE  h \in AllSignals
  <2>1. h \in {h[1]} \X Signals(h[1])
    BY <1>2, PairIn
  <2> QED BY <1>2, <2>1 DEF AllSignals
<1> QED BY <1>1, <1>2

LEMMA RequestIs ==
  ASSUME NEW r \in IoRequests
  PROVE  /\ r.did \in ControlDids \cup {UnknownDid} /\ r # NoIoRequest
         /\ r.mask \subseteq Signals(r.did) /\ r.action \in {"take", "return"}
<1> DEFINE Of(d) == [did : {d}, action : {"take", "return"},
                     mask : IF SignalCount[d] = 1 THEN {{1}} ELSE SUBSET Signals(d)]
           others == [did : {UnknownDid}, action : {"take", "return"}, mask : {{}}]
<1>1. CASE r \in others
  <2>1. r.did = UnknownDid /\ r.mask = {} /\ r.action \in {"take", "return"}
    BY <1>1
  <2>2. r # NoIoRequest
    BY <2>1 DEF NoIoRequest
  <2> QED BY <2>1, <2>2
<1>2. ASSUME NEW d \in ControlDids, r \in Of(d)
      PROVE  r.did = d /\ r.mask \subseteq Signals(d) /\ r.action \in {"take", "return"}
  <2>1. SignalCount[d] = 1 => Signals(d) = {1}
    BY ControlAssumption DEF Signals
  <2>2. r.did = d /\ r.action \in {"take", "return"}
        /\ r.mask \in IF SignalCount[d] = 1 THEN {{1}} ELSE SUBSET Signals(d)
    BY <1>2
  <2> QED BY <2>1, <2>2
<1>3. r \in others \/ \E d \in ControlDids : r \in Of(d)
  <2>1. r \in IoRequests
    OBVIOUS
  <2>2. r \in UNION {Of(d) : d \in ControlDids} \/ r \in others
    BY <2>1 DEF IoRequests
  <2>3. ASSUME r \in UNION {Of(d) : d \in ControlDids}
        PROVE  \E d \in ControlDids : r \in Of(d)
    BY <2>3
  <2> QED BY <2>2, <2>3
<1> HIDE DEF Of, others
<1>4. CASE \E d \in ControlDids : r \in Of(d)
  <2>1. r.did \in ControlDids /\ r.mask \subseteq Signals(r.did) /\ r.action \in {"take", "return"}
    BY <1>2, <1>4
  <2> QED BY <2>1 DEF NoIoRequest
<1> QED BY <1>1, <1>3, <1>4

-----------------------------------------------------------------------------
(* The list.  There are as many slots as identifiers, and those in use are *)
(* of different ones.                                                      *)
LEMMA FreeSlot ==
  ASSUME NEW list, ListOK(list), NEW d \in ControlDids, SlotsOf(list, d) = {}
  PROVE  Unused(list) # {}
<1> SUFFICES ASSUME Unused(list) = {} PROVE FALSE
  OBVIOUS
<1> DEFINE f == [i \in 1 .. IoSlots |-> list[i].did]
           others == ControlDids \ {d}
<1>1. \A i \in 1 .. IoSlots : list[i].did \in others
  <2> TAKE i \in 1 .. IoSlots
  <2>1. list[i].signals # {} /\ list[i].did # d
    BY DEF Unused, SlotsOf
  <2>2. list[i].signals \subseteq Signals(list[i].did)
    BY DEF ListOK
  <2> QED BY <2>1, <2>2 DEF Signals
<1>2. f \in Injection(1 .. IoSlots, others)
  <2>1. f \in [1 .. IoSlots -> others]
    BY <1>1
  <2>2. \A i, j \in 1 .. IoSlots : f[i] = f[j] => i = j
    <3> TAKE i, j \in 1 .. IoSlots
    <3>1. list[i].did # Unlisted
      BY <1>1, SignalNumbers
    <3>2. f[i] = list[i].did /\ f[j] = list[j].did
      OBVIOUS
    <3> HIDE DEF f
    <3> QED BY <3>1, <3>2 DEF ListOK
  <2> HIDE DEF f, others
  <2> QED BY <2>1, <2>2 DEF Injection, IsInjective
<1>3. IsFiniteSet(ControlDids) /\ IoSlots \in Nat /\ IoSlots >= Cardinality(ControlDids)
  BY ControlAssumption
<1>4. IsFiniteSet(others) /\ Cardinality(others) = Cardinality(ControlDids) - 1
  BY <1>3, FS_RemoveElement
<1>5. Cardinality(1 .. IoSlots) <= Cardinality(others)
  BY <1>2, <1>4, FS_Injection
<1>6. Cardinality(1 .. IoSlots) = IoSlots
  BY <1>3, FS_Interval
<1>7. Cardinality(ControlDids) \in Nat
  BY <1>3, FS_CardinalityType
<1> HIDE DEF others
<1> QED BY <1>3, <1>4, <1>5, <1>6, <1>7

(* DspIOControlSetActive keeps the list in order; what is listed stays, if *)
(* it is not to be taken off, and a signal taken of a known identifier     *)
(* gets listed.                                                            *)
ListsAfter(new, list, d, signals, active) ==
  /\ ListOK(new)
  /\ \A e, s : Listed(list, e, s) /\ (e # d \/ active \/ s \notin signals) => Listed(new, e, s)
  /\ active /\ d \in ControlDids => \A s \in signals : Listed(new, d, s)

LEMMA SetActiveLists ==
  ASSUME NEW list, ListOK(list), NEW d \in ControlDids \cup {UnknownDid},
         NEW signals \in SUBSET Signals(d), NEW active \in BOOLEAN,
         NEW new, new = DspIOControlSetActive(list, d, signals, active)
  PROVE  ListsAfter(new, list, d, signals, active)
<1> SUFFICES
      /\ ListOK(new)
      /\ \A e, s : Listed(list, e, s) /\ (e # d \/ active \/ s \notin signals)
                     => Listed(new, e, s)
      /\ active /\ d \in ControlDids => \A s \in signals : Listed(new, d, s)
  BY DEF ListsAfter
<1> DEFINE I == 1 .. IoSlots
<1>1. list \in [I -> Slots]
  BY DEF ListOK
<1>2. CASE SlotFor(list, d, active) = {}
  <2>1. new = [i \in I |-> list[i]]
    BY <1>2 DEF DspIOControlSetActive
  <2>2. new = list
    BY <1>1, <2>1
  <2>3. ~(active /\ d \in ControlDids)
    <3> SUFFICES ASSUME active, d \in ControlDids PROVE FALSE
      OBVIOUS
    <3>1. SlotsOf(list, d) = {} /\ Unused(list) = {}
      BY <1>2 DEF SlotFor
    <3> QED BY <3>1, FreeSlot
  <2> QED BY <2>2, <2>3
<1>3. CASE SlotFor(list, d, active) # {}
  <2> DEFINE now(k) == IF active THEN list[k].signals \cup signals ELSE list[k].signals \ signals
  <2>1. PICK k \in I : /\ SlotFor(list, d, active) = {k}
                       /\ \/ list[k].did = d
                          \/ list[k].signals = {} /\ active /\ SlotsOf(list, d) = {}
    <3>1. CASE SlotsOf(list, d) # {}
      <4>1. FirstOf(SlotsOf(list, d)) \in SlotsOf(list, d)
        BY <3>1, FirstOfIsIn DEF SlotsOf
      <4> QED BY <3>1, <4>1 DEF SlotFor, SlotsOf
    <3>2. CASE SlotsOf(list, d) = {}
      <4>1. active /\ Unused(list) # {}
        BY <1>3, <3>2 DEF SlotFor
      <4>2. FirstOf(Unused(list)) \in Unused(list)
        BY <4>1, FirstOfIsIn DEF Unused
      <4> QED BY <3>2, <4>1, <4>2 DEF SlotFor, Unused
    <3> QED BY <3>1, <3>2
  <2> DEFINE slot == [did |-> d, signals |-> now(k)]
  <2>2. new = [i \in I |-> IF i # k THEN list[i] ELSE slot]
    BY <2>1 DEF DspIOControlSetActive
  <2>3. slot.did = d /\ slot.signals = now(k)
    OBVIOUS
  <2>4. list[k] \in Slots /\ list[k].signals \subseteq Signals(list[k].did)
    BY <1>1 DEF ListOK
  <2>5. now(k) \subseteq Signals(d) /\ now(k) \subseteq Nat
    BY <2>1, <2>4, SignalNumbers
  <2>6. slot \in Slots
    BY <2>5 DEF Slots
  <2> HIDE DEF slot
  <2>7. new \in [I -> Slots]
    BY <1>1, <2>2, <2>6
  <2>8. \A i \in I : i # k => new[i] = list[i]
    BY <2>2
  <2>9. new[k] = slot
    BY <2>2
  <2> HIDE DEF now
  <2>10. \A i \in I : i # k => list[i].did # d
    <3> SUFFICES ASSUME NEW i \in I, i # k, list[i].did = d PROVE FALSE
      OBVIOUS
    <3>1. SlotsOf(list, d) # {}
      BY DEF SlotsOf
    <3>2. list[k].did = d
      BY <2>1, <3>1
    <3> QED BY <3>2, SignalNumbers DEF ListOK
  <2>11. ListOK(new)
    <3>1. \A i \in I : new[i].signals \subseteq Signals(new[i].did)
      BY <2>3, <2>5, <2>8, <2>9 DEF ListOK
    <3>2. ASSUME NEW i \in I, NEW j \in I, new[i].did = new[j].did, new[i].did # Unlisted
          PROVE  i = j
      <4>1. CASE i # k /\ j # k
        BY <2>8, <3>2, <4>1 DEF ListOK
      <4>2. CASE i = k \/ j = k
        BY <2>3, <2>8, <2>9, <2>10, <3>2, <4>2
      <4> QED BY <4>1, <4>2
    <3> QED BY <2>7, <3>1, <3>2 DEF ListOK
  <2>12. ASSUME NEW e, NEW s, Listed(list, e, s), e # d \/ active \/ s \notin signals
         PROVE  Listed(new, e, s)
    <3>1. PICK i \in I : list[i].did = e /\ s \in list[i].signals
      BY <2>12 DEF Listed
    <3>2. CASE i # k
      BY <2>8, <3>1, <3>2 DEF Listed
    <3>3. CASE i = k
      <4>1. e = d /\ s \in now(k)
        BY <2>1, <2>12, <3>1, <3>3 DEF now
      <4> QED BY <2>3, <2>9, <4>1 DEF Listed
    <3> QED BY <3>2, <3>3
  <2>13. ASSUME active, NEW s \in signals PROVE Listed(new, d, s)
    BY <2>3, <2>9, <2>13 DEF Listed, now
  <2> QED BY <2>11, <2>12, <2>13
<1> QED BY <1>2, <1>3

LEMMA HeldIs ==
  ASSUME HeldIsListed, NEW h \in held
  PROVE  Listed(ioList, h[1], h[2]) /\ DspCheckSessionLevel(ControlRow[h[1]], session)
BY DEF HeldIsListed, Listed

(* A walk ends at one of the signals it was asked for, or where a refusal  *)
(* left it, and has done some of them.                                     *)
LEMMA WalkIs ==
  ASSUME NEW signals \in SUBSET Nat, NEW from \in Nat, NEW walk \in Walks(signals, from)
  PROVE  walk.done \subseteq signals /\ walk.at \in Nat
<1> DEFINE todo == {i \in signals : i >= from}
<1>1. CASE walk \in [end : {"OK"}, done : {todo}, at : {1}]
  BY <1>1
<1>2. ASSUME NEW e \in {"PENDING", "NOT_OK"}, NEW i \in todo,
             walk = [end |-> e, done |-> {j \in todo : j < i}, at |-> i]
      PROVE  walk.done \subseteq signals /\ walk.at \in Nat
  BY <1>2
<1> QED BY <1>1, <1>2 DEF Walks

LEMMA ControlsIs ==
  ASSUME NEW r \in IoRequests, NEW c \in IoRecords, NEW walk \in Controls(r, c)
  PROVE  /\ walk.done \subseteq r.mask /\ walk.at \in Nat
         /\ walk.done # {} => MayControl(r)
<1>1. r.mask \in SUBSET Nat
  BY RequestIs, SignalNumbers
<1>2. c.signal \in Nat
  BY DEF IoRecords
<1>3. CASE c.control /\ MayControl(r)
  <2>1. walk \in Walks(r.mask, c.signal)
    BY <1>3 DEF Controls
  <2> QED BY <1>1, <1>2, <1>3, <2>1, WalkIs
<1>4. CASE ~(c.control /\ MayControl(r))
  BY <1>2, <1>4 DEF Controls
<1> QED BY <1>3, <1>4

(* What a call of the service does to the list and to what is held.        *)
Takes(r, c, walk) ==
  IF r.action = "take" THEN held \cup {r.did} \X walk.done ELSE held \ ({r.did} \X walk.done)
Lists(r, c, walk) ==
  DspIOControlSetActive(ioList, r.did, c.affected \cup walk.done, r.action = "take")

LEMMA ServiceCall ==
  ASSUME NEW r \in IoRequests, DspIOControlByDataIdentifier(r), io \in IoRecords
  PROVE  LET c == IF io.pending THEN io ELSE NewControl
         IN \E walk \in Controls(r, c) :
              /\ io' \in IoRecords /\ io'.affected = c.affected \cup walk.done
              /\ ioList' = Lists(r, c, walk)
              /\ \/ held' = Takes(r, c, walk)
                 \/ /\ ~io'.pending /\ r.action = "take"
                    /\ held' = Takes(r, c, walk)
                                 \ StopActivated(ioList', r.did, c.affected \cup walk.done)
              /\ ioRequest' = IF io'.pending THEN r ELSE NoIoRequest
              /\ UNCHANGED levels
<1> DEFINE c == IF io.pending THEN io ELSE NewControl
<1>1. PICK walk \in Controls(r, c) :
      \E read \in IF walk.end = "OK" THEN Walks(Signals(r.did), IF c.control THEN 1 ELSE c.signal)
                  ELSE {walk} :
        LET affected == c.affected \cup walk.done
            kind == IF walk.end = "PENDING" THEN "control" ELSE "read"
        IN /\ io' = [pending |-> read.end = "PENDING", signal |-> read.at,
                     control |-> IF read.end = "PENDING" THEN kind = "control" ELSE c.control,
                     affected |-> affected]
           /\ ioList' = IF r.action = "none" THEN ioList ELSE Lists(r, c, walk)
           /\ held' = IF read.end = "NOT_OK" /\ r.action = "take" /\ affected # {}
                      THEN Takes(r, c, walk)
                             \ StopActivated(IF r.action = "none" THEN ioList ELSE Lists(r, c, walk),
                                             r.did, affected)
                      ELSE Takes(r, c, walk)
           /\ ioRequest' = IF read.end = "PENDING" THEN r ELSE NoIoRequest
           /\ UNCHANGED levels
  BY ZenonT(45) DEF DspIOControlByDataIdentifier, Takes, Lists
<1>2. c \in IoRecords /\ c.signal \in Nat /\ c.control \in BOOLEAN /\ c.affected \subseteq Nat
  BY DEF IoRecords, NewControl
<1>3. r.action # "none" /\ r.mask \subseteq Nat
  BY RequestIs, SignalNumbers
<1> HIDE DEF c
<1>4. walk.done \subseteq Nat /\ walk.at \in Nat
  BY <1>2, <1>3, ControlsIs
<1> DEFINE affected == c.affected \cup walk.done
<1>5. PICK read \in IF walk.end = "OK" THEN Walks(Signals(r.did), IF c.control THEN 1 ELSE c.signal)
                    ELSE {walk} :
      /\ \E b \in BOOLEAN : io' = [pending |-> read.end = "PENDING", signal |-> read.at,
                                   control |-> b, affected |-> affected]
      /\ ioList' = Lists(r, c, walk)
      /\ held' = IF read.end = "NOT_OK" /\ r.action = "take" /\ affected # {}
                 THEN Takes(r, c, walk) \ StopActivated(Lists(r, c, walk), r.did, affected)
                 ELSE Takes(r, c, walk)
      /\ ioRequest' = IF read.end = "PENDING" THEN r ELSE NoIoRequest
      /\ UNCHANGED levels
  BY <1>1, <1>2, <1>3
<1>6. read.at \in Nat
  BY <1>2, <1>4, <1>5, WalkIs, SignalNumbers
<1>7. PICK b \in BOOLEAN : io' = [pending |-> read.end = "PENDING", signal |-> read.at,
                                  control |-> b, affected |-> affected]
  BY <1>5
<1>8. affected \subseteq Nat
  BY <1>2, <1>4
<1> HIDE DEF affected
<1>9. io' \in IoRecords /\ io'.affected = affected /\ io'.pending = (read.end = "PENDING")
  BY <1>6, <1>7, <1>8 DEF IoRecords
<1> QED BY <1>5, <1>9 DEF c, affected

-----------------------------------------------------------------------------
(* One lemma per kind of step. *)
LEMMA ServiceKeeps ==
  ASSUME ControlInv, NEW r \in IoRequests, DspIOControlByDataIdentifier(r),
         io.pending => DoneIsOf(io, r)
  PROVE  ControlInv'
<1> DEFINE c == IF io.pending THEN io ELSE NewControl
<1>1. io \in IoRecords /\ ListOK(ioList) /\ held \subseteq AllSignals /\ HeldIsListed
  BY DEF ControlInv
<1>2. PICK walk \in Controls(r, c) :
        /\ io' \in IoRecords /\ io'.affected = c.affected \cup walk.done
        /\ ioList' = Lists(r, c, walk)
        /\ \/ held' = Takes(r, c, walk)
           \/ /\ ~io'.pending /\ r.action = "take"
              /\ held' = Takes(r, c, walk)
                           \ StopActivated(ioList', r.did, c.affected \cup walk.done)
        /\ ioRequest' = IF io'.pending THEN r ELSE NoIoRequest
        /\ UNCHANGED levels
  BY <1>1, ServiceCall
<1>3. c \in IoRecords /\ DoneIsOf(c, r)
  BY <1>1 DEF IoRecords, NewControl, DoneIsOf
<1> HIDE DEF c
<1> DEFINE affected == c.affected \cup walk.done
           take == r.action = "take"
<1>4. /\ r.did \in ControlDids \cup {UnknownDid} /\ r # NoIoRequest
      /\ r.mask \subseteq Signals(r.did) /\ r.action \in {"take", "return"}
  BY RequestIs
<1>5. walk.done \subseteq r.mask /\ (walk.done # {} => MayControl(r))
  BY <1>3, ControlsIs
<1>6. affected \subseteq Signals(r.did) /\ take \in BOOLEAN
  BY <1>3, <1>4, <1>5 DEF DoneIsOf
<1>7. ioList' = DspIOControlSetActive(ioList, r.did, affected, take)
  BY <1>2 DEF Lists
<1>8. /\ ListOK(ioList')
      /\ \A e, s : Listed(ioList, e, s) /\ (e # r.did \/ take \/ s \notin affected)
                     => Listed(ioList', e, s)
      /\ take /\ r.did \in ControlDids => \A s \in affected : Listed(ioList', r.did, s)
  <2> HIDE DEF affected, take
  <2>1. affected \in SUBSET Signals(r.did)
    BY <1>6
  <2>2. ListOK(ioList) /\ r.did \in ControlDids \cup {UnknownDid} /\ take \in BOOLEAN
    BY <1>1, <1>4, <1>6
  <2>3. ListsAfter(ioList', ioList, r.did, affected, take)
    BY <1>7, <2>1, <2>2, SetActiveLists
  <2> QED BY <2>3 DEF ListsAfter
<1>9. held' \subseteq Takes(r, c, walk)
  BY <1>2
<1>10. ASSUME NEW h \in Takes(r, c, walk)
       PROVE  \/ h \in held /\ (take \/ h[1] # r.did \/ h[2] \notin walk.done)
              \/ take /\ h = <<h[1], h[2]>> /\ h[1] = r.did /\ h[2] \in walk.done
  <2>1. CASE take
    <3>1. h \in held \/ h \in {r.did} \X walk.done
      BY <2>1 DEF Takes
    <3> QED BY <2>1, <3>1, PairIn
  <2>2. CASE ~take
    <3>1. h \in held /\ h \notin {r.did} \X walk.done
      BY <2>2 DEF Takes
    <3>2. h = <<h[1], h[2]>>
      BY <1>1, <3>1, SignalPair
    <3> QED BY <3>1, <3>2, PairIn
  <2> QED BY <2>1, <2>2
<1>11. held' \subseteq AllSignals
  <2> SUFFICES ASSUME NEW h \in Takes(r, c, walk) PROVE h \in AllSignals
    BY <1>9
  <2>1. CASE h \in held
    BY <1>1, <2>1
  <2>2. CASE h = <<h[1], h[2]>> /\ h[1] = r.did /\ h[2] \in walk.done
    <3>1. r.did \in ControlDids
      BY <1>5, <2>2 DEF MayControl
    <3> QED BY <1>4, <1>5, <2>2, <3>1, SignalPair
  <2> QED BY <1>10, <2>1, <2>2
<1>12. ASSUME NEW h \in held'
       PROVE  Listed(ioList', h[1], h[2]) /\ DspCheckSessionLevel(ControlRow[h[1]], session')
  <2>1. h \in Takes(r, c, walk) /\ session' = session
    BY <1>2, <1>9 DEF levels
  <2>2. CASE h \in held /\ (take \/ h[1] # r.did \/ h[2] \notin walk.done)
    <3>1. Listed(ioList, h[1], h[2]) /\ DspCheckSessionLevel(ControlRow[h[1]], session)
      BY <1>1, <2>2, HeldIs
    <3>2. h[1] # r.did \/ take \/ h[2] \notin affected
      <4> SUFFICES ASSUME h[1] = r.did, ~take PROVE h[2] \notin c.affected /\ h[2] \notin walk.done
        OBVIOUS
      <4>1. h = <<r.did, h[2]>>
        BY <1>1, <2>2, SignalPair
      <4> QED BY <1>3, <1>4, <2>2, <4>1 DEF DoneIsOf
    <3> QED BY <1>8, <2>1, <3>1, <3>2
  <2>3. CASE take /\ h[1] = r.did /\ h[2] \in walk.done
    <3>1. r.did \in ControlDids /\ DspCheckSessionLevel(ControlRow[r.did], session)
      BY <1>5, <2>3 DEF MayControl, Allows
    <3> QED BY <1>8, <2>1, <2>3, <3>1
  <2> QED BY <1>10, <2>1, <2>2, <2>3
<1>13. HeldIsListed'
  BY <1>12 DEF HeldIsListed, Listed
<1>14. io'.pending => ioRequest' # NoIoRequest /\ DoneIsOf(io, ioRequest)'
  <2> SUFFICES ASSUME io'.pending PROVE DoneIsOf(io, ioRequest)'
    BY <1>2, <1>4
  <2>1. ioRequest' = r /\ io'.affected = affected /\ held' = Takes(r, c, walk)
    BY <1>2
  <2>2. ASSUME r.action = "return", NEW s \in affected PROVE <<r.did, s>> \notin held'
    <3>1. ~take
      BY <2>2
    <3>2. <<r.did, s>> \in held => s \notin c.affected
      BY <1>3, <2>2 DEF DoneIsOf
    <3>3. <<r.did, s>> \in held' => <<r.did, s>> \in held /\ s \notin walk.done
      BY <1>10, <2>1, <3>1
    <3> QED BY <3>2, <3>3
  <2> HIDE DEF affected
  <2> QED BY <1>6, <2>1, <2>2 DEF DoneIsOf
<1>15. ioRequest' \in IoRequests \cup {NoIoRequest}
  BY <1>2
<1> QED BY <1>2, <1>8, <1>11, <1>13, <1>14, <1>15 DEF ControlInv

LEMMA NotPending ==
  ASSUME io \in IoRecords
  PROVE  /\ [io EXCEPT !.pending = FALSE] \in IoRecords
         /\ ~[io EXCEPT !.pending = FALSE].pending
         /\ [io EXCEPT !.pending = FALSE].affected = io.affected
BY DEF IoRecords

LEMMA GivenUpKeeps ==
  ASSUME ControlInv, DspCancelPendingIOControl
  PROVE  ControlInv'
<1>1. /\ io \in IoRecords /\ io' = [io EXCEPT !.pending = FALSE]
      /\ ioRequest' = NoIoRequest /\ held' \subseteq held /\ UNCHANGED <<levels, ioList>>
  BY DEF DspCancelPendingIOControl, ControlInv
<1>2. io' \in IoRecords /\ ~io'.pending
  BY <1>1, NotPending
<1>3. HeldIsListed'
  BY <1>1 DEF HeldIsListed, ControlInv, levels
<1> QED BY <1>1, <1>2, <1>3 DEF ControlInv

(* A session change, or a preemption, gives back what the new session does *)
(* not allow to be held.                                                   *)
LEMMA StopKeeps ==
  ASSUME ControlInv, NEW check \in BOOLEAN, NEW s, NEW l,
         DspStopInputOutputControl(check, s, l), session' = s, UNCHANGED ioRequest
  PROVE  ControlInv'
<1> DEFINE I == 1 .. IoSlots
           stopped == {i \in I : Returns(ioList[i], check, s, l)}
           given == UNION {{ioList[i].did} \X ioList[i].signals : i \in stopped}
<1>1. /\ io \in IoRecords /\ ListOK(ioList) /\ held \subseteq AllSignals /\ HeldIsListed
      /\ ioList \in [I -> Slots]
  BY DEF ControlInv, ListOK
<1>2. /\ held' = held \ given /\ io' = [io EXCEPT !.pending = FALSE]
      /\ ioList' = [i \in I |-> IF i \in stopped THEN [ioList[i] EXCEPT !.signals = {}] ELSE ioList[i]]
  BY Zenon DEF DspStopInputOutputControl
<1>3. io' \in IoRecords /\ ~io'.pending
  BY <1>1, <1>2, NotPending
<1>4. \A i \in I : [ioList[i] EXCEPT !.signals = {}] \in Slots
                   /\ [ioList[i] EXCEPT !.signals = {}].did = ioList[i].did
                   /\ [ioList[i] EXCEPT !.signals = {}].signals = {}
  BY <1>1 DEF Slots
<1>5. \A i \in I : /\ ioList'[i] \in Slots /\ ioList'[i].did = ioList[i].did
                   /\ ioList'[i].signals = IF i \in stopped THEN {} ELSE ioList[i].signals
  <2> HIDE DEF stopped
  <2> QED BY <1>1, <1>2, <1>4
<1>6. ListOK(ioList')
  <2> HIDE DEF stopped
  <2>1. ioList' \in [I -> Slots]
    BY <1>2, <1>5
  <2> QED BY <1>1, <1>5, <2>1 DEF ListOK
<1>7. ASSUME NEW h \in held'
      PROVE  Listed(ioList', h[1], h[2]) /\ DspCheckSessionLevel(ControlRow[h[1]], s)
  <2>1. h \in held /\ h \notin given
    BY <1>2
  <2>2. h = <<h[1], h[2]>> /\ h[1] \in ControlDids
    BY <1>1, <2>1, SignalPair
  <2>3. PICK i \in I : ioList[i].did = h[1] /\ h[2] \in ioList[i].signals
    BY <1>1, <2>1, HeldIs DEF Listed
  <2>4. i \notin stopped
    <3> SUFFICES ASSUME i \in stopped PROVE h \in given
      BY <2>1
    <3>1. h \in {ioList[i].did} \X ioList[i].signals
      BY <2>2, <2>3, PairIn
    <3> HIDE DEF stopped
    <3> QED BY <3>1, Zenon
  <2>5. ~Returns(ioList[i], check, s, l)
    BY <2>4
  <2>6. DspCheckSessionLevel(ControlRow[h[1]], s)
    BY <2>2, <2>3, <2>5 DEF Returns, Allows
  <2> HIDE DEF stopped
  <2> QED BY <1>5, <2>3, <2>4, <2>6 DEF Listed
<1>8. HeldIsListed'
  BY <1>7 DEF HeldIsListed, Listed
<1> HIDE DEF given, stopped
<1> QED BY <1>1, <1>2, <1>3, <1>6, <1>8 DEF ControlInv

LEMMA ControlInitHolds == ControlInit => ControlInv
<1> SUFFICES ASSUME ControlInit PROVE ControlInv
  OBVIOUS
<1>1. io \in IoRecords /\ ~io.pending
  BY DEF ControlInit, NewControl, IoRecords
<1>2. ListOK(ioList)
  BY DEF ControlInit, ListOK, Slots
<1>3. held = {} /\ ioRequest = NoIoRequest
  BY DEF ControlInit
<1> QED BY <1>1, <1>2, <1>3 DEF ControlInv, HeldIsListed

LEMMA ControlStepHolds ==
  ASSUME ControlInv, [ControlNext]_<<levels, controlVars>>
  PROVE  ControlInv'
<1>1. CASE IoControlRequest
  <2>1. PICK r \in IoRequests : DspIOControlByDataIdentifier(r)
    BY <1>1 DEF IoControlRequest
  <2>2. ~io.pending
    BY <1>1 DEF IoControlRequest, ControlInv
  <2> QED BY <2>1, <2>2, ServiceKeeps
<1>2. CASE DspIOControlMainFunction
  <2>1. io.pending /\ DspIOControlByDataIdentifier(ioRequest)
    BY <1>2 DEF DspIOControlMainFunction
  <2>2. ioRequest \in IoRequests /\ DoneIsOf(io, ioRequest)
    BY <2>1 DEF ControlInv
  <2> QED BY <2>1, <2>2, ServiceKeeps
<1>3. CASE DspCancelPendingIOControl
  BY <1>3, GivenUpKeeps
<1>4. CASE ControlSessionChange
  BY <1>4, StopKeeps DEF ControlSessionChange, ChangesSession
<1>5. CASE ControlPreempted
  BY <1>5, StopKeeps DEF ControlPreempted
<1>6. CASE ControlUnlock \/ UNCHANGED <<levels, controlVars>>
  <2>1. UNCHANGED <<session, io, ioList, ioRequest, held>>
    BY <1>6 DEF ControlUnlock, DslInternal_SetSecurityLevel, controlVars, levels
  <2> QED BY <2>1 DEF ControlInv, HeldIsListed, DoneIsOf
<1> QED BY <1>1, <1>2, <1>3, <1>4, <1>5, <1>6 DEF ControlNext

(* For any identifiers, signals and rows, wherever requests are interrupted *)
(* or given up: what a tester holds is in the list, and the session allows *)
(* to hold it.                                                             *)
THEOREM HeldComesBack == ControlSpec => []HeldIsListed
<1>1. LevelsInit /\ ControlInit => ControlInv
  BY ControlInitHolds
<1>2. ControlInv /\ [ControlNext]_<<levels, controlVars>> => ControlInv'
  BY ControlStepHolds
<1>3. ControlInv => HeldIsListed
  BY DEF ControlInv
<1> QED BY <1>1, <1>2, <1>3, PTL DEF ControlSpec

(* The type invariant: no identifier is listed twice, and a slot holds      *)
(* signals of its identifier only.                                         *)
THEOREM ControlWellTyped == ControlSpec => []ControlTypeOK
<1> DEFINE IInv == ControlInv /\ LevelsTypeOK
<1>1. LevelsInit /\ ControlInit => IInv
  BY ControlInitHolds, LevelsAssumption DEF LevelsInit, LevelsTypeOK
<1>2. LevelsTypeOK /\ [ControlNext]_<<levels, controlVars>> => LevelsTypeOK'
  <2> SUFFICES ASSUME LevelsTypeOK, [ControlNext]_<<levels, controlVars>> PROVE LevelsTypeOK'
    OBVIOUS
  <2>1. LevelAfter \in DspLevels \cup {Locked}
    BY DEF LevelAfter, LevelsTypeOK
  <2>2. CASE UNCHANGED levels
    BY <2>2 DEF levels, LevelsTypeOK
  <2>3. CASE ControlSessionChange \/ ControlPreempted
    BY <2>1, <2>3, LevelsAssumption
    DEF ControlSessionChange, ControlPreempted, ChangesSession, ProtocolTakesOver, LevelsTypeOK
  <2>4. CASE ControlUnlock
    BY <2>4 DEF ControlUnlock, DslInternal_SetSecurityLevel, LevelsTypeOK
  <2>5. CASE IoControlRequest \/ DspIOControlMainFunction
    <3>1. \E r : DspIOControlByDataIdentifier(r)
      BY <2>5 DEF IoControlRequest, DspIOControlMainFunction
    <3>2. UNCHANGED levels
      BY <3>1 DEF DspIOControlByDataIdentifier
    <3> QED BY <2>2, <3>2
  <2>6. CASE DspCancelPendingIOControl
    BY <2>2, <2>6 DEF DspCancelPendingIOControl
  <2> QED BY <2>2, <2>3, <2>4, <2>5, <2>6 DEF ControlNext
<1>3. IInv /\ [ControlNext]_<<levels, controlVars>> => IInv'
  BY <1>2, ControlStepHolds
<1>4. IInv => ControlTypeOK
  BY DEF ControlInv, ListOK, IoRecords, ControlTypeOK
<1> HIDE DEF IInv
<1> QED BY <1>1, <1>3, <1>4, PTL DEF ControlSpec

(* What leaves the hands of a tester with a request, refused, given up or  *)
(* not, was touched by that request.                                       *)
LEMMA ReturnedIs ==
  ASSUME NEW list, NEW d, NEW W, NEW h \in StopActivated(list, d, W)
  PROVE  h[1] = d /\ h[2] \in W
<1>1. PICK i \in SlotsOf(list, d) : h \in {d} \X (list[i].signals \cap W)
  BY DEF StopActivated
<1> QED BY <1>1, PairIn

LEMMA TouchedByService ==
  ASSUME ControlInv, NEW h \in held, h \notin held',
         NEW r \in IoRequests, DspIOControlByDataIdentifier(r)
  PROVE  Touched(r, h)
<1> DEFINE c == IF io.pending THEN io ELSE NewControl
<1>1. io \in IoRecords
  BY DEF ControlInv
<1>2. PICK walk \in Controls(r, c) :
        /\ io'.affected = c.affected \cup walk.done
        /\ \/ held' = Takes(r, c, walk)
           \/ held' = Takes(r, c, walk)
                        \ StopActivated(ioList', r.did, c.affected \cup walk.done)
  BY <1>1, ServiceCall
<1> HIDE DEF c
<1>3. CASE h \in Takes(r, c, walk)
  <2>1. h \in StopActivated(ioList', r.did, c.affected \cup walk.done)
    BY <1>2, <1>3
  <2> QED BY <1>2, <2>1, ReturnedIs DEF Touched
<1>4. CASE h \notin Takes(r, c, walk)
  <2>1. h \in {r.did} \X walk.done
    BY <1>4 DEF Takes
  <2> QED BY <1>2, <2>1, PairIn DEF Touched
<1> QED BY <1>3, <1>4

LEMMA TouchedOnly ==
  ASSUME ControlInv, NEW h \in held, h \notin held',
         DspIOControlMainFunction \/ DspCancelPendingIOControl
  PROVE  Touched(ioRequest, h)
<1>1. io \in IoRecords
  BY DEF ControlInv
<1>2. CASE DspCancelPendingIOControl
  <2>1. h \in StopActivated(ioList, ioRequest.did, io.affected)
        /\ io' = [io EXCEPT !.pending = FALSE]
    BY <1>2 DEF DspCancelPendingIOControl
  <2> QED BY <1>1, <2>1, ReturnedIs, NotPending DEF Touched
<1>3. CASE DspIOControlMainFunction
  <2>1. io.pending /\ DspIOControlByDataIdentifier(ioRequest)
    BY <1>3 DEF DspIOControlMainFunction
  <2> QED BY <2>1, TouchedByService DEF ControlInv
<1> QED BY <1>2, <1>3

(* A request takes nothing out of the hands of a tester but what it has    *)
(* touched itself, of its own identifier, however it ends.                 *)
THEOREM OthersAreKept == ControlSpec => OthersKeepControl
<1> DEFINE Kept ==
      \A h \in held \ held' :
        /\ DspIOControlMainFunction \/ DspCancelPendingIOControl => Touched(ioRequest, h)
        /\ \A r \in IoRequests :
             ioRequest = NoIoRequest /\ DspIOControlByDataIdentifier(r) => Touched(r, h)
<1>1. LevelsInit /\ ControlInit => ControlInv
  BY ControlInitHolds
<1>2. ControlInv /\ [ControlNext]_<<levels, controlVars>> => ControlInv'
  BY ControlStepHolds
<1>3. ControlInv /\ [ControlNext]_<<levels, controlVars>> => [Kept]_<<levels, controlVars>>
  BY TouchedOnly, TouchedByService
<1> HIDE DEF Kept
<1>4. ControlSpec => [][Kept]_<<levels, controlVars>>
  BY <1>1, <1>2, <1>3, PTL DEF ControlSpec
<1> QED BY <1>4 DEF OthersKeepControl, Kept

-----------------------------------------------------------------------------
(* The services that take effect with their response.                      *)

(* What the effects that wait for a confirmation need: a response that the *)
(* lower layer takes (a refused one is never confirmed).                   *)
NoRefusal == TransmitRefusals = FALSE

(* What those need that last as long as their session: no reset of the     *)
(* session between a response and its confirmation, and a row of           *)
(* ControlDTCSetting that is not for the default session.                  *)
Undisturbed ==
  "answered" \notin ResetPhases /\ ~DspCheckSessionLevel(DtcService, DefaultSession)

Effects ==
  [jump : {"IDLE", "WAIT", "RESPAPP_WAIT", "ASSEMBLE", "FINAL_RESPONSE", "EXECUTE"},
   change : BOOLEAN, session : DspSessions \cup {UnknownSession}, pdu : TesterPdus \cup {NoPdu},
   link : {"IDLE", "WAIT", "EXECUTE"}, reset : {"NO_RESET", "PENDING", "WAIT_TX_CONF"},
   resetPdu : TesterPdus \cup {NoPdu}, com : BOOLEAN, comPdu : TesterPdus \cup {NoPdu},
   on : BOOLEAN, channels : SUBSET Channels, silent : SUBSET Channels,
   dtcOff : BOOLEAN, startup : BOOLEAN]
Servings ==
  [phase : Phases \cup {"startup"}, request : Requests \cup {NoJob}, positive : BOOLEAN,
   left : Nat]
Jobs ==
  [sid : {"session"}, session : DspSessions \cup {UnknownSession}, pdu : TesterPdus,
   respond : BOOLEAN]
    \cup [sid : {"link", "reset"}, session : {DefaultSession}, pdu : TesterPdus, respond : BOOLEAN]

(* What is prepared belongs to the request r: while it is served, a jump   *)
(* and a reset that are on their way; once its positive response is sent,  *)
(* what the confirmation brings about.                                     *)
EffectOK(e, phase, positive, r) ==
  /\ e.jump # "IDLE" =>
       /\ r.sid = "session" /\ r.pdu = e.pdu /\ r.session = e.session
       /\ IF e.jump = "FINAL_RESPONSE" THEN phase = "answered" /\ positive ELSE phase = "serving"
  /\ e.change => /\ phase = "answered" /\ positive
                 /\ r.sid = "session" /\ r.pdu = e.pdu /\ r.session = e.session
  /\ e.link # "IDLE" => phase = "serving" /\ r.sid = "link"
  /\ e.reset = "PENDING" => phase = "serving" /\ r.sid = "reset"
  /\ e.reset = "WAIT_TX_CONF" => /\ phase = "answered" /\ positive
                                 /\ r.sid = "reset" /\ r.pdu = e.resetPdu
  /\ e.com => /\ phase = "answered" /\ positive
              /\ r.sid = "com" /\ r.pdu = e.comPdu /\ r.channels = e.channels

(* What outlasts the request, in a session in which it can be undone. *)
LastingOK(e, s) ==
  /\ e.com \/ e.silent # {} => DspCheckSessionLevel(ComService, s)
  /\ e.dtcOff => s # DefaultSession /\ DspCheckSessionLevel(DtcService, s)

(* The conditions for the bootloader are those of the request on the way   *)
(* to a jump, and the application has them before the mode switch.         *)
IsFor(c, r) == c # NoJob /\ c.sid = r.sid /\ c.session = r.session /\ c.pdu = r.pdu
ConditionsOK(e, r, conditions, saved) ==
  /\ e.jump # "IDLE" \/ e.link # "IDLE" => IsFor(conditions, r)
  /\ e.jump = "EXECUTE" \/ e.link = "EXECUTE" => IsFor(saved, r)

ConfirmInv ==
  /\ effect \in Effects /\ serving \in Servings
  /\ progConditions \in Jobs \cup {NoJob} /\ stored \in Jobs \cup {NoJob}
  /\ serving.phase # "idle" => serving.request \in Requests
  /\ EffectOK(effect, serving.phase, serving.positive, serving.request)
  /\ Undisturbed => LastingOK(effect, session)
  /\ ConditionsOK(effect, serving.request, progConditions, stored)
  /\ effect.startup => progConditions # NoJob
  /\ ecu = "starting" => effect = NoEffect /\ serving = Idle
-----------------------------------------------------------------------------
(* The fields of a request and of the conditions kept for the bootloader.  *)
LEMMA RequestFields ==
  ASSUME NEW r \in Requests
  PROVE  /\ r.sid \in {"session", "link", "reset", "com", "dtc", "other"}
         /\ r.pdu \in TesterPdus /\ r.suppress \in BOOLEAN
         /\ r.sid = "session" => r.session \in DspSessions \cup {UnknownSession}
         /\ r.sid \in {"link", "reset"} => r.session = DefaultSession
         /\ r.sid = "com" => r.on \in BOOLEAN /\ r.channels \in SwitchRequests
         /\ r.sid \in {"dtc", "other"} => r.on \in BOOLEAN
BY DEF Requests

LEMMA SuppressionChanged ==
  ASSUME NEW r \in Requests, NEW b \in BOOLEAN
  PROVE  /\ [r EXCEPT !.suppress = b] \in Requests
         /\ [r EXCEPT !.suppress = b].sid = r.sid
         /\ [r EXCEPT !.suppress = b].pdu = r.pdu
         /\ r.sid \in {"session", "link", "reset"} =>
              [r EXCEPT !.suppress = b].session = r.session
BY DEF Requests

LEMMA ConditionsOfRequest ==
  ASSUME NEW r \in Requests, r.sid \in {"session", "link", "reset"}
  PROVE  Conditions(r) \in Jobs /\ IsFor(Conditions(r), r)
<1>1. Conditions(r) \in Jobs
  BY RequestFields DEF Conditions, Jobs
<1>2. Conditions(r).sid = r.sid /\ Conditions(r).session = r.session /\ Conditions(r).pdu = r.pdu
  BY DEF Conditions
<1>3. Conditions(r) # NoJob
  BY <1>2, RequestFields DEF NoJob
<1> QED BY <1>1, <1>2, <1>3 DEF IsFor

LEMMA RequestLeftBehind ==
  ASSUME NEW c \in Jobs
  PROVE  [sid |-> c.sid, session |-> c.session, pdu |-> c.pdu, suppress |-> FALSE] \in Requests
BY DEF Jobs, Requests

LEMMA NothingPrepared ==
  ASSUME NEW phase, NEW positive, NEW r, NEW s
  PROVE  /\ NoEffect \in Effects
         /\ EffectOK(NoEffect, phase, positive, r) /\ LastingOK(NoEffect, s)
<1>1. NoEffect \in Effects
  BY LevelsAssumption DEF NoEffect, Effects
<1>2. EffectOK(NoEffect, phase, positive, r)
  BY DEF NoEffect, EffectOK
<1>3. LastingOK(NoEffect, s)
  BY DEF NoEffect, LastingOK
<1> QED BY <1>1, <1>2, <1>3

-----------------------------------------------------------------------------
(* What ends what is prepared. *)
LEMMA EndedByInit ==
  ASSUME NEW e \in Effects
  PROVE  /\ Initialized(e) \in Effects
         /\ Initialized(e).jump = "IDLE" /\ ~Initialized(e).change /\ ~Initialized(e).startup
         /\ Initialized(e).link = "IDLE" /\ Initialized(e).reset = "NO_RESET"
         /\ ~Initialized(e).com /\ Initialized(e).silent = e.silent
         /\ Initialized(e).dtcOff = e.dtcOff
BY DEF Initialized, Effects

LEMMA EndedByReset ==
  ASSUME NEW e \in Effects, NEW check \in BOOLEAN, NEW s, NEW l
  PROVE  /\ ResetsActivity(e, check, s, l) \in Effects
         /\ ResetsActivity(e, check, s, l).jump = "IDLE"
         /\ ~ResetsActivity(e, check, s, l).change /\ ~ResetsActivity(e, check, s, l).startup
         /\ ResetsActivity(e, check, s, l).link = e.link
         /\ ResetsActivity(e, check, s, l).reset = e.reset
         /\ ResetsActivity(e, check, s, l).resetPdu = e.resetPdu
         /\ ResetsActivity(e, check, s, l).com = e.com
         /\ ResetsActivity(e, check, s, l).comPdu = e.comPdu
         /\ ResetsActivity(e, check, s, l).channels = e.channels
         /\ ResetsActivity(e, check, s, l).silent = DspStopCommunicationControl(e, check, s, l)
         /\ ResetsActivity(e, check, s, l).dtcOff = DspEnableDTCSetting(e, s, l)
<1> DEFINE quiet == DspStopCommunicationControl(e, check, s, l)
           off == DspEnableDTCSetting(e, s, l)
<1>1. quiet \in SUBSET Channels
  BY DEF DspStopCommunicationControl, Effects
<1>2. off \in BOOLEAN
  BY Zenon DEF DspEnableDTCSetting, Effects
<1>3. ResetsActivity(e, check, s, l) =
        [e EXCEPT !.jump = "IDLE", !.change = FALSE, !.startup = FALSE,
                  !.silent = quiet, !.dtcOff = off]
  BY DEF ResetsActivity
<1> HIDE DEF quiet, off
<1>4. /\ ResetsActivity(e, check, s, l).silent = quiet
      /\ ResetsActivity(e, check, s, l).dtcOff = off
  BY <1>3 DEF Effects
<1>5. ResetsActivity(e, check, s, l) \in Effects
  BY <1>1, <1>2, <1>3 DEF Effects
<1> QED BY <1>3, <1>4, <1>5 DEF Effects, quiet, off

(* Whatever resets the activity leaves only what the new session allows:   *)
(* a reset that is not for the default session keeps the rest.             *)
LEMMA LastingAfterReset ==
  ASSUME NEW e \in Effects, NEW check \in BOOLEAN, NEW s, NEW l, ~e.com
  PROVE  LastingOK(ResetsActivity(e, check, s, l), s)
<1> DEFINE f == ResetsActivity(e, check, s, l)
<1>1. /\ f.com = e.com /\ f.silent = DspStopCommunicationControl(e, check, s, l)
      /\ f.dtcOff = DspEnableDTCSetting(e, s, l)
  BY EndedByReset
<1> HIDE DEF f
<1>2. f.com \/ f.silent # {} => DspCheckSessionLevel(ComService, s)
  BY <1>1, Zenon DEF DspStopCommunicationControl, Allows
<1>3. f.dtcOff => s # DefaultSession /\ DspCheckSessionLevel(DtcService, s)
  BY <1>1, Zenon DEF DspEnableDTCSetting, Allows
<1>4. LastingOK(f, s)
  BY <1>2, <1>3, Zenon DEF LastingOK
<1> QED BY <1>4 DEF f

(* A session change ends the jump and what the session does not allow. *)
LEMMA SessionEnded ==
  ASSUME NEW e \in Effects, NEW s
  PROVE  /\ SessionEnds(e, s) \in Effects
         /\ SessionEnds(e, s).jump = "IDLE"
         /\ ~SessionEnds(e, s).change /\ ~SessionEnds(e, s).startup
         /\ SessionEnds(e, s).link \in {"IDLE", e.link}
         /\ SessionEnds(e, s).reset \in {"NO_RESET", e.reset}
         /\ SessionEnds(e, s).reset # "NO_RESET" => SessionEnds(e, s).resetPdu = e.resetPdu
         /\ SessionEnds(e, s).com => /\ e.com /\ SessionEnds(e, s).comPdu = e.comPdu
                                     /\ SessionEnds(e, s).channels = e.channels
         /\ ~e.com => LastingOK(SessionEnds(e, s), s)
<1> DEFINE d == IF InitializesDsp THEN Initialized(e) ELSE e
<1>1. d \in Effects /\ d.link \in {"IDLE", e.link} /\ d.reset \in {"NO_RESET", e.reset}
  BY EndedByInit
<1>2. /\ d.reset # "NO_RESET" => d.resetPdu = e.resetPdu
      /\ d.com => e.com /\ d.comPdu = e.comPdu /\ d.channels = e.channels
  BY EndedByInit
<1>3. SessionEnds(e, s) = ResetsActivity(d, TRUE, s, LevelAfter)
  BY DEF SessionEnds
<1> HIDE DEF d
<1>4. ~e.com => LastingOK(SessionEnds(e, s), s)
  BY <1>1, <1>2, <1>3, LastingAfterReset
<1> DEFINE f(check) == ResetsActivity(d, check, s, LevelAfter)
<1>5. \A check \in BOOLEAN :
        /\ f(check) \in Effects /\ f(check).jump = "IDLE"
        /\ ~f(check).change /\ ~f(check).startup
        /\ f(check).link = d.link /\ f(check).reset = d.reset
        /\ f(check).resetPdu = d.resetPdu /\ f(check).com = d.com
        /\ f(check).comPdu = d.comPdu /\ f(check).channels = d.channels
  BY <1>1, EndedByReset
<1>6. SessionEnds(e, s) = f(TRUE)
  BY <1>3
<1> HIDE DEF f
<1> QED BY <1>1, <1>2, <1>4, <1>5, <1>6

(* What is forgotten of a request that is over is read by none. *)
LEMMA Forgotten ==
  ASSUME NEW e \in Effects
  PROVE  /\ Settled(e) \in Effects
         /\ Settled(e).jump = e.jump /\ Settled(e).change = e.change
         /\ Settled(e).link = e.link /\ Settled(e).reset = e.reset /\ Settled(e).com = e.com
         /\ Settled(e).silent = e.silent /\ Settled(e).dtcOff = e.dtcOff
         /\ Settled(e).startup = e.startup
<1> DEFINE s == IF e.jump = "IDLE" /\ ~e.change THEN DefaultSession ELSE e.session
           p == IF e.jump = "IDLE" /\ ~e.change THEN NoPdu ELSE e.pdu
           rp == IF e.reset = "NO_RESET" THEN NoPdu ELSE e.resetPdu
           cp == IF e.com THEN e.comPdu ELSE NoPdu
           cs == IF e.com THEN e.channels ELSE {}
           o == ~e.com \/ e.on
<1>1. /\ s \in DspSessions \cup {UnknownSession} /\ p \in TesterPdus \cup {NoPdu}
      /\ rp \in TesterPdus \cup {NoPdu} /\ cp \in TesterPdus \cup {NoPdu} /\ cs \in SUBSET Channels
  BY LevelsAssumption DEF Effects
<1>2. o \in BOOLEAN
  BY Zenon
<1>3. Settled(e) = [e EXCEPT !.session = s, !.pdu = p, !.resetPdu = rp, !.comPdu = cp,
                             !.channels = cs, !.on = o]
  BY DEF Settled
<1> HIDE DEF s, p, rp, cp, cs, o
<1>4. Settled(e) \in Effects
  BY <1>1, <1>2, <1>3, ZenonT(45) DEF Effects
<1>5. /\ Settled(e).jump = e.jump /\ Settled(e).link = e.link
      /\ Settled(e).reset = e.reset /\ Settled(e).silent = e.silent
  BY <1>3 DEF Effects
<1>6. /\ Settled(e).change = e.change /\ Settled(e).com = e.com
      /\ Settled(e).dtcOff = e.dtcOff /\ Settled(e).startup = e.startup
  BY <1>3 DEF Effects
<1> QED BY <1>4, <1>5, <1>6

-----------------------------------------------------------------------------
(* The confirmation, part after part. *)
LEMMA JumpAndResetConfirmed ==
  ASSUME NEW e \in Effects, NEW r \in Requests, NEW positive,
         EffectOK(e, "answered", positive, r)
  PROVE  LET before == ResetConfirmed(JumpConfirmed(e, r.pdu), r.pdu)
         IN /\ before \in Effects /\ before.jump = "IDLE" /\ before.reset = "NO_RESET"
            /\ before.change = e.change /\ before.session = e.session /\ before.pdu = e.pdu
            /\ before.link = "IDLE" /\ before.com = e.com /\ before.comPdu = e.comPdu
            /\ before.channels = e.channels /\ before.silent = e.silent
            /\ before.dtcOff = e.dtcOff /\ before.startup = e.startup
<1> DEFINE d == JumpConfirmed(e, r.pdu)
           before == ResetConfirmed(d, r.pdu)
<1>1. /\ d \in Effects /\ d.jump = "IDLE" /\ d.reset = e.reset /\ d.resetPdu = e.resetPdu
      /\ d.change = e.change /\ d.session = e.session /\ d.pdu = e.pdu
      /\ d.link = e.link /\ d.com = e.com /\ d.comPdu = e.comPdu
      /\ d.channels = e.channels /\ d.silent = e.silent
      /\ d.dtcOff = e.dtcOff /\ d.startup = e.startup
  BY DEF JumpConfirmed, Effects, EffectOK
<1>2. /\ e.link = "IDLE" /\ e.reset \in {"NO_RESET", "WAIT_TX_CONF"}
      /\ e.reset = "WAIT_TX_CONF" => e.resetPdu = r.pdu
  BY DEF Effects, EffectOK
<1> HIDE DEF d
<1>3. /\ before \in Effects /\ before.jump = "IDLE" /\ before.reset = "NO_RESET"
      /\ before.change = d.change /\ before.session = d.session /\ before.pdu = d.pdu
      /\ before.link = "IDLE" /\ before.com = d.com /\ before.comPdu = d.comPdu
      /\ before.channels = d.channels /\ before.silent = d.silent
      /\ before.dtcOff = d.dtcOff /\ before.startup = d.startup
  BY <1>1, <1>2 DEF ResetConfirmed, Effects
<1> QED BY <1>1, <1>3 DEF d

LEMMA SessionConfirmed ==
  ASSUME NEW e \in Effects, NEW pdu, NEW ok, e.change => e.pdu = pdu,
         e.jump = "IDLE", e.reset = "NO_RESET", e.link = "IDLE"
  PROVE  /\ ChangeConfirmed(e, pdu, ok) \in Effects
         /\ ChangeConfirmed(e, pdu, ok).jump = "IDLE" /\ ~ChangeConfirmed(e, pdu, ok).change
         /\ ChangeConfirmed(e, pdu, ok).link = "IDLE"
         /\ ChangeConfirmed(e, pdu, ok).reset = "NO_RESET"
         /\ ChangeConfirmed(e, pdu, ok).com =>
              /\ e.com /\ ChangeConfirmed(e, pdu, ok).comPdu = e.comPdu
              /\ ChangeConfirmed(e, pdu, ok).channels = e.channels
         /\ ChangeConfirmed(e, pdu, ok).startup => e.startup
         /\ IF Changes(e, pdu, ok)
            THEN ~e.com => LastingOK(ChangeConfirmed(e, pdu, ok), e.session)
            ELSE /\ ChangeConfirmed(e, pdu, ok).com = e.com
                 /\ ChangeConfirmed(e, pdu, ok).silent = e.silent
                 /\ ChangeConfirmed(e, pdu, ok).dtcOff = e.dtcOff
<1>1. CASE Changes(e, pdu, ok)
  <2> DEFINE d == SessionEnds(e, e.session)
  <2>1. /\ d \in Effects /\ d.jump = "IDLE" /\ ~d.change /\ ~d.startup
        /\ d.link = "IDLE" /\ d.reset = "NO_RESET"
        /\ d.com => e.com /\ d.comPdu = e.comPdu /\ d.channels = e.channels
        /\ ~e.com => LastingOK(d, e.session)
    BY SessionEnded
  <2>2. ChangeConfirmed(e, pdu, ok) = [d EXCEPT !.change = FALSE]
    BY <1>1 DEF ChangeConfirmed
  <2> HIDE DEF d
  <2>3. [d EXCEPT !.change = FALSE] = d
    BY <2>1 DEF Effects
  <2> QED BY <1>1, <2>1, <2>2, <2>3
<1>2. CASE ~Changes(e, pdu, ok)
  BY <1>2 DEF ChangeConfirmed, Effects
<1> QED BY <1>1, <1>2

LEMMA CommunicationConfirmed ==
  ASSUME NEW e \in Effects, NEW pdu, NEW ok, e.com => e.comPdu = pdu
  PROVE  /\ ComConfirmed(e, pdu, ok) \in Effects /\ ~ComConfirmed(e, pdu, ok).com
         /\ ComConfirmed(e, pdu, ok).jump = e.jump
         /\ ComConfirmed(e, pdu, ok).change = e.change
         /\ ComConfirmed(e, pdu, ok).link = e.link
         /\ ComConfirmed(e, pdu, ok).reset = e.reset
         /\ ComConfirmed(e, pdu, ok).startup = e.startup
         /\ ComConfirmed(e, pdu, ok).dtcOff = e.dtcOff
         /\ ComConfirmed(e, pdu, ok).silent # {} => e.com \/ e.silent # {}
<1>1. CASE ~e.com
  BY <1>1 DEF ComConfirmed
<1>2. CASE e.com /\ ok
  <2> DEFINE silent == IF e.on THEN e.silent \ e.channels ELSE e.silent \cup e.channels
  <2>1. silent \in SUBSET Channels
    BY DEF Effects
  <2>2. ComConfirmed(e, pdu, ok) = [e EXCEPT !.com = FALSE, !.silent = silent]
    BY <1>2 DEF ComConfirmed, Switched
  <2> HIDE DEF silent
  <2>3. ComConfirmed(e, pdu, ok) \in Effects
    BY <2>1, <2>2 DEF Effects
  <2>4. /\ ~ComConfirmed(e, pdu, ok).com
        /\ ComConfirmed(e, pdu, ok).jump = e.jump
        /\ ComConfirmed(e, pdu, ok).link = e.link
        /\ ComConfirmed(e, pdu, ok).reset = e.reset
    BY <2>2 DEF Effects
  <2>5. /\ ComConfirmed(e, pdu, ok).change = e.change
        /\ ComConfirmed(e, pdu, ok).startup = e.startup
        /\ ComConfirmed(e, pdu, ok).dtcOff = e.dtcOff
    BY <2>2 DEF Effects
  <2> QED BY <1>2, <2>3, <2>4, <2>5
<1>3. CASE e.com /\ ~ok
  BY <1>3 DEF ComConfirmed, Effects
<1> QED BY <1>1, <1>2, <1>3

(* Nothing is prepared any more: true whatever comes next. *)
Quiet(e) ==
  /\ e.jump = "IDLE" /\ ~e.change /\ e.link = "IDLE" /\ e.reset = "NO_RESET" /\ ~e.com

LEMMA QuietKept ==
  ASSUME NEW e \in Effects, Quiet(e), NEW phase, NEW positive, NEW r, NEW c, NEW st
  PROVE  EffectOK(e, phase, positive, r) /\ ConditionsOK(e, r, c, st)
BY DEF Quiet, EffectOK, ConditionsOK

(* Nothing is prepared before a request is served, or by one that was      *)
(* refused.                                                                *)
LEMMA QuietBetween ==
  ASSUME NEW e \in Effects, NEW phase, NEW positive, NEW r,
         EffectOK(e, phase, positive, r),
         phase \in {"idle", "received", "startup"} \/ (phase = "answered" /\ ~positive)
  PROVE  Quiet(e)
BY DEF Quiet, EffectOK, Effects

(* After its confirmation nothing of a request is prepared, it jumps with  *)
(* its own conditions, and what lasts is allowed in the session reached.   *)
LEMMA EffectsConfirmed ==
  ASSUME NEW e \in Effects, NEW r \in Requests, NEW positive, NEW ok \in BOOLEAN,
         EffectOK(e, "answered", positive, r), DspDcmConfirmation(e, r.pdu, ok)
  PROVE  /\ effect' \in Effects /\ Quiet(effect')
         /\ effect'.startup => e.startup
         /\ LastingOK(e, session) => LastingOK(effect', session')
         /\ stored' \in {stored, progConditions'} /\ ecu' \in {ecu, "reset", "jump"}
         /\ ecu' = "jump" /\ ecu # "jump" => e.jump # "IDLE" /\ stored' = progConditions'
<1> DEFINE before == ResetConfirmed(JumpConfirmed(e, r.pdu), r.pdu)
           changed == ChangeConfirmed(before, r.pdu, ok)
<1>1. /\ before \in Effects /\ before.jump = "IDLE" /\ before.reset = "NO_RESET"
      /\ before.change = e.change /\ before.session = e.session /\ before.pdu = e.pdu
      /\ before.link = "IDLE" /\ before.com = e.com /\ before.comPdu = e.comPdu
      /\ before.channels = e.channels /\ before.silent = e.silent
      /\ before.dtcOff = e.dtcOff /\ before.startup = e.startup
  BY JumpAndResetConfirmed
<1>2. /\ effect' = ComConfirmed(changed, r.pdu, ok)
      /\ IF Changes(before, r.pdu, ok) THEN session' = before.session ELSE session' = session
  BY DEF DspDcmConfirmation, ChangesSession, levels
<1>3. /\ stored' \in {stored, progConditions'} /\ ecu' \in {ecu, "reset", "jump"}
      /\ ecu' = "jump" /\ ecu # "jump" => e.jump # "IDLE" /\ stored' = progConditions'
  BY DEF DspDcmConfirmation
<1>4. /\ e.change => e.pdu = r.pdu /\ ~e.com
      /\ e.com => e.comPdu = r.pdu
  BY DEF EffectOK
<1> HIDE DEF before
<1>5. /\ changed \in Effects
      /\ changed.jump = "IDLE" /\ ~changed.change
      /\ changed.link = "IDLE" /\ changed.reset = "NO_RESET"
      /\ changed.com => before.com /\ changed.comPdu = before.comPdu
                        /\ changed.channels = before.channels
      /\ changed.startup => before.startup
      /\ IF Changes(before, r.pdu, ok) THEN ~before.com => LastingOK(changed, before.session)
         ELSE /\ changed.com = before.com /\ changed.silent = before.silent
              /\ changed.dtcOff = before.dtcOff
  BY <1>1, <1>4, SessionConfirmed
<1> HIDE DEF changed
<1>6. /\ effect' \in Effects /\ ~effect'.com
      /\ effect'.jump = changed.jump /\ effect'.change = changed.change
      /\ effect'.link = changed.link /\ effect'.reset = changed.reset
      /\ effect'.startup = changed.startup /\ effect'.dtcOff = changed.dtcOff
      /\ effect'.silent # {} => changed.com \/ changed.silent # {}
  BY <1>1, <1>2, <1>4, <1>5, CommunicationConfirmed
<1>7. Quiet(effect') /\ (effect'.startup => e.startup)
  BY <1>1, <1>5, <1>6 DEF Quiet
<1>8. ASSUME LastingOK(e, session) PROVE LastingOK(effect', session')
  <2>1. CASE Changes(before, r.pdu, ok)
    <3>1. ~before.com /\ ~changed.com /\ session' = before.session
      BY <1>1, <1>2, <1>4, <1>5, <2>1 DEF Changes
    <3>2. LastingOK(changed, session')
      BY <1>5, <2>1, <3>1
    <3> QED BY <1>6, <3>1, <3>2 DEF LastingOK
  <2>2. CASE ~Changes(before, r.pdu, ok)
    BY <1>1, <1>2, <1>5, <1>6, <1>8, <2>2 DEF LastingOK
  <2> QED BY <2>1, <2>2
<1> QED BY <1>3, <1>6, <1>7, <1>8
-----------------------------------------------------------------------------
(* The ways a service ends a step: what it must have prepared by then.      *)

(* The request r is with the services, which keep its conditions at most;  *)
(* e is what they have prepared by the end of the step.                    *)
Serving(r) ==
  /\ ConfirmInv /\ r = serving.request /\ ecu = "running"
  /\ serving.phase \in {"received", "startup", "serving"}
ServiceStep(r) ==
  /\ Serving(r)
  /\ progConditions' \in Jobs \cup {NoJob}
  /\ effect.startup => progConditions' # NoJob
Prepared(e) ==
  /\ e \in Effects /\ (e.startup => effect.startup)
  /\ Undisturbed => LastingOK(e, session)

(* The invariant after the step, and the conditions of a jump it makes. *)
StepOK == ConfirmInv' /\ (ecu' = "jump" => IsFor(stored', serving.request))

LEMMA ServedRequest ==
  ASSUME ConfirmInv, serving.phase # "idle"
  PROVE  serving.request \in Requests
BY DEF ConfirmInv

LEMMA AnsweredPositively ==
  ASSUME NEW r, NEW e, ServiceStep(r), Prepared(e), Positive(r, e),
         EffectOK(e, "answered", TRUE, r),
         e.jump # "IDLE" => IsFor(progConditions', r)
  PROVE  StepOK
<1>1. r \in Requests /\ r.suppress \in BOOLEAN
  BY ServedRequest, RequestFields DEF ServiceStep, Serving
<1>2. CASE r.suppress
  <2>1. serving' = Idle /\ DspDcmConfirmation(e, r.pdu, TRUE)
    BY <1>2 DEF Positive, Released
  <2>2. /\ effect' \in Effects /\ Quiet(effect')
        /\ effect'.startup => e.startup
        /\ LastingOK(e, session) => LastingOK(effect', session')
        /\ stored' \in {stored, progConditions'} /\ ecu' \in {ecu, "reset", "jump"}
        /\ ecu' = "jump" /\ ecu # "jump" => e.jump # "IDLE" /\ stored' = progConditions'
    BY <1>1, <2>1, EffectsConfirmed DEF Prepared
  <2>3. /\ EffectOK(effect', serving'.phase, serving'.positive, serving'.request)
        /\ ConditionsOK(effect', serving'.request, progConditions', stored')
    BY <2>2, QuietKept
  <2>4. serving' \in Servings /\ serving'.phase = "idle"
    BY <2>1 DEF Idle, Servings, Phases
  <2> QED BY <2>2, <2>3, <2>4 DEF StepOK, ConfirmInv, ServiceStep, Serving, Prepared
<1>3. CASE ~r.suppress
  <2>1. /\ serving' = [phase |-> "answered", request |-> r, positive |-> TRUE, left |-> 0]
        /\ effect' = e /\ session' = session /\ stored' = stored /\ ecu' = ecu
    BY <1>3 DEF Positive, Answers, levels
  <2>2. serving' \in Servings /\ serving'.phase = "answered" /\ serving'.positive
        /\ serving'.request = r
    BY <1>1, <2>1 DEF Servings, Phases
  <2>3. EffectOK(effect', serving'.phase, serving'.positive, serving'.request)
    BY <2>1, <2>2
  <2>4. ConditionsOK(effect', serving'.request, progConditions', stored')
    BY <2>1, <2>2 DEF ConditionsOK, EffectOK
  <2> QED BY <1>1, <2>1, <2>2, <2>3, <2>4 DEF StepOK, ConfirmInv, ServiceStep, Serving, Prepared
<1> QED BY <1>1, <1>2, <1>3

LEMMA AnsweredNegatively ==
  ASSUME NEW r, NEW e, ServiceStep(r), Prepared(e), Refused(r, e),
         stored' \in Jobs \cup {NoJob}, Quiet(e)
  PROVE  StepOK
<1>1. r \in Requests
  BY ServedRequest DEF ServiceStep, Serving
<1>2. /\ serving' = [phase |-> "answered", request |-> r, positive |-> FALSE, left |-> 0]
      /\ effect' = e /\ session' = session /\ ecu' = ecu
  BY DEF Refused, Answers, levels
<1>3. serving' \in Servings /\ serving'.phase = "answered" /\ serving'.request = r
  BY <1>1, <1>2 DEF Servings, Phases
<1>4. /\ EffectOK(effect', serving'.phase, serving'.positive, serving'.request)
      /\ ConditionsOK(effect', serving'.request, progConditions', stored')
  BY <1>2, QuietKept DEF Prepared
<1> QED BY <1>1, <1>2, <1>3, <1>4 DEF StepOK, ConfirmInv, ServiceStep, Serving, Prepared

(* The request stays with the services: its phase, and whether its         *)
(* positive response is suppressed, are all that changes of it.            *)
LEMMA ServedOn ==
  ASSUME NEW r, NEW e, ServiceStep(r), Prepared(e), StaysServed(r, e) \/ ForcesPending(r, e),
         EffectOK(e, "serving", FALSE, r),
         ConditionsOK(e, r, progConditions', stored'), stored' \in Jobs \cup {NoJob}
  PROVE  StepOK
<1>1. r \in Requests /\ serving \in Servings /\ r = serving.request
  BY ServedRequest DEF ServiceStep, Serving, ConfirmInv
<1>2. /\ effect' = e /\ session' = session /\ ecu' = ecu
  BY DEF StaysServed, ForcesPending, levels
<1>3. /\ serving' \in Servings /\ serving'.phase = "serving" /\ serving'.request \in Requests
      /\ serving'.request.sid = r.sid /\ serving'.request.pdu = r.pdu
      /\ r.sid \in {"session", "link", "reset"} => serving'.request.session = r.session
  <2>1. CASE StaysServed(r, e)
    BY <1>1, <2>1 DEF StaysServed, Servings, Phases
  <2>2. CASE ForcesPending(r, e)
    <3> DEFINE b == r.suppress /\ localTx # "free"
               q == [r EXCEPT !.suppress = b]
               n == Left(serving.left)
    <3>1. b \in BOOLEAN
      BY <1>1, RequestFields, Zenon
    <3>2. n \in Nat
      BY <1>1 DEF Left, Servings
    <3>3. serving' = [serving EXCEPT !.phase = "serving", !.left = n, !.request.suppress = b]
      BY <1>1, <2>2 DEF ForcesPending
    <3>4. /\ q \in Requests /\ q.sid = r.sid /\ q.pdu = r.pdu
          /\ r.sid \in {"session", "link", "reset"} => q.session = r.session
      BY <1>1, <3>1, SuppressionChanged
    <3> HIDE DEF b, n
    <3>5. serving' = [serving EXCEPT !.phase = "serving", !.left = n, !.request = q]
      BY <1>1, <3>3 DEF Servings
    <3> HIDE DEF q
    <3> QED BY <1>1, <3>2, <3>4, <3>5 DEF Servings, Phases
  <2> QED BY <2>1, <2>2
<1>4. EffectOK(effect', serving'.phase, serving'.positive, serving'.request)
  BY <1>2, <1>3 DEF EffectOK
<1>5. ConditionsOK(effect', serving'.request, progConditions', stored')
  <2>1. e.jump # "IDLE" \/ e.link # "IDLE" => r.sid \in {"session", "link"}
    BY DEF EffectOK
  <2> QED BY <1>2, <1>3, <2>1 DEF ConditionsOK, IsFor, Prepared, Effects
<1> QED BY <1>2, <1>3, <1>4, <1>5 DEF StepOK, ConfirmInv, ServiceStep, Serving, Prepared

(* The mode switch EXECUTE restarts the ECU, or the request is refused.    *)
LEMMA ModeSwitched ==
  ASSUME NEW r, NEW e, ServiceStep(r), Prepared(e), Executes(r, e), Quiet(e), IsFor(stored, r)
  PROVE  StepOK
<1>1. CASE Negative(r, e)
  <2>1. Refused(r, e) /\ stored' \in Jobs \cup {NoJob}
    BY <1>1 DEF Negative, ServiceStep, Serving, ConfirmInv
  <2> QED BY <2>1, AnsweredNegatively
<1>2. CASE ~Negative(r, e)
  <2>1. ecu' = "jump" /\ effect' = e /\ session' = session /\ stored' = stored
        /\ serving' = serving
    BY <1>2 DEF Executes, levels
  <2>2. /\ EffectOK(effect', serving'.phase, serving'.positive, serving'.request)
        /\ ConditionsOK(effect', serving'.request, progConditions', stored')
    BY <2>1, QuietKept DEF Prepared
  <2> QED BY <2>1, <2>2 DEF StepOK, ConfirmInv, ServiceStep, Serving, Prepared
<1> QED BY <1>1, <1>2
-----------------------------------------------------------------------------
(* DiagnosticSessionControl. *)

(* Nothing but a jump can be prepared while its request is served. *)
LEMMA OnlyAJump ==
  ASSUME NEW r, Serving(r), r.sid = "session"
  PROVE  /\ effect \in Effects /\ r \in Requests /\ serving.phase # "answered"
         /\ ~effect.change /\ effect.link = "IDLE" /\ effect.reset = "NO_RESET" /\ ~effect.com
         /\ effect.jump # "IDLE" =>
              /\ serving.phase = "serving" /\ effect.jump # "FINAL_RESPONSE"
              /\ effect.pdu = r.pdu /\ effect.session = r.session
              /\ IsFor(progConditions, r)
              /\ effect.jump = "EXECUTE" => IsFor(stored, r)
         /\ stored \in Jobs \cup {NoJob} /\ progConditions \in Jobs \cup {NoJob}
         /\ Undisturbed => LastingOK(effect, session)
         /\ effect.startup => progConditions # NoJob
BY ServedRequest DEF Serving, ConfirmInv, EffectOK, ConditionsOK, Effects

(* A jump that is prepared, or ends; a session change that is prepared.    *)
WithJump(e, x) == [e EXCEPT !.jump = x]
Addressed(e, s, p) == [e EXCEPT !.session = s, !.pdu = p]
WithChange(e, s, p) == [e EXCEPT !.change = TRUE, !.session = s, !.pdu = p]

LEMMA JumpSet ==
  ASSUME NEW e \in Effects,
         NEW x \in {"IDLE", "WAIT", "RESPAPP_WAIT", "ASSEMBLE", "FINAL_RESPONSE", "EXECUTE"}
  PROVE  LET f == WithJump(e, x)
         IN /\ f \in Effects /\ f.jump = x /\ f.session = e.session /\ f.pdu = e.pdu
            /\ f.change = e.change /\ f.link = e.link /\ f.reset = e.reset /\ f.com = e.com
            /\ f.silent = e.silent /\ f.dtcOff = e.dtcOff /\ f.startup = e.startup
BY DEF Effects, WithJump

LEMMA JumpAddressed ==
  ASSUME NEW e \in Effects, NEW s \in DspSessions \cup {UnknownSession}, NEW p \in TesterPdus
  PROVE  LET f == Addressed(e, s, p)
         IN /\ f \in Effects /\ f.jump = e.jump /\ f.session = s /\ f.pdu = p
            /\ f.change = e.change /\ f.link = e.link /\ f.reset = e.reset /\ f.com = e.com
            /\ f.silent = e.silent /\ f.dtcOff = e.dtcOff /\ f.startup = e.startup
BY DEF Effects, Addressed

LEMMA ChangePrepared ==
  ASSUME NEW e \in Effects, NEW s \in DspSessions \cup {UnknownSession}, NEW p \in TesterPdus
  PROVE  LET f == WithChange(e, s, p)
         IN /\ f \in Effects /\ f.jump = e.jump /\ f.session = s /\ f.pdu = p
            /\ f.change /\ f.link = e.link /\ f.reset = e.reset /\ f.com = e.com
            /\ f.silent = e.silent /\ f.dtcOff = e.dtcOff /\ f.startup = e.startup
BY DEF Effects, WithChange

LEMMA JumpRequested ==
  ASSUME NEW r, Serving(r), r.sid = "session", effect.jump = "IDLE", RequestsJump(r)
  PROVE  StepOK
<1> DEFINE e == Addressed(effect, r.session, r.pdu)
           f(x) == WithJump(e, x)
           boot == BootOf[r.session]
<1>1. /\ r \in Requests /\ r.session \in DspSessions \cup {UnknownSession} /\ r.pdu \in TesterPdus
      /\ effect \in Effects
  BY OnlyAJump, RequestFields
<1>2. /\ e \in Effects /\ e.jump = "IDLE" /\ e.session = r.session /\ e.pdu = r.pdu
      /\ ~e.change /\ e.link = "IDLE" /\ e.reset = "NO_RESET" /\ ~e.com
      /\ e.silent = effect.silent /\ e.dtcOff = effect.dtcOff /\ e.startup = effect.startup
  BY <1>1, OnlyAJump, JumpAddressed
<1>3. progConditions' \in Jobs /\ IsFor(progConditions', r) /\ progConditions' # NoJob
  BY <1>1, ConditionsOfRequest DEF RequestsJump, IsFor
<1>4. ServiceStep(r)
  BY <1>3 DEF ServiceStep
<1>5. Quiet(e) /\ Prepared(e)
  BY <1>2, OnlyAJump DEF Quiet, Prepared, LastingOK
<1>6. \/ ForcesPending(r, f(IF boot = "boot" THEN "WAIT" ELSE "RESPAPP_WAIT"))
      \/ SetProgConditions /\ StaysServed(r, f("EXECUTE"))
      \/ Negative(r, e)
      \/ Positive(r, f("FINAL_RESPONSE"))
  BY DEF RequestsJump, Addressed, WithJump
<1> HIDE DEF e
<1>7. \A x \in {"WAIT", "RESPAPP_WAIT", "EXECUTE", "FINAL_RESPONSE"} :
        /\ f(x) \in Effects /\ f(x).jump = x /\ f(x).session = r.session /\ f(x).pdu = r.pdu
        /\ ~f(x).change /\ f(x).link = "IDLE" /\ f(x).reset = "NO_RESET" /\ ~f(x).com
        /\ f(x).silent = e.silent /\ f(x).dtcOff = e.dtcOff /\ f(x).startup = e.startup
  BY <1>2, JumpSet
<1> HIDE DEF f
<1>8. \A x \in {"WAIT", "RESPAPP_WAIT", "EXECUTE", "FINAL_RESPONSE"} : Prepared(f(x))
  BY <1>5, <1>7 DEF Prepared, LastingOK
<1>9. CASE ForcesPending(r, f(IF boot = "boot" THEN "WAIT" ELSE "RESPAPP_WAIT"))
  <2> DEFINE x == IF boot = "boot" THEN "WAIT" ELSE "RESPAPP_WAIT"
  <2>1. x \in {"WAIT", "RESPAPP_WAIT"} /\ ForcesPending(r, f(x))
    BY <1>9
  <2> HIDE DEF x
  <2>2. EffectOK(f(x), "serving", FALSE, r)
    BY <1>7, <2>1 DEF EffectOK, Serving
  <2>3. stored' \in Jobs \cup {NoJob}
    BY <2>1, OnlyAJump DEF ForcesPending
  <2>4. ConditionsOK(f(x), r, progConditions', stored')
    BY <1>3, <1>7, <2>1 DEF ConditionsOK
  <2> QED BY <1>4, <1>8, <2>1, <2>2, <2>3, <2>4, ServedOn
<1>10. CASE SetProgConditions /\ StaysServed(r, f("EXECUTE"))
  <2>1. stored' = progConditions'
    BY <1>10 DEF SetProgConditions
  <2>2. EffectOK(f("EXECUTE"), "serving", FALSE, r)
    BY <1>7 DEF EffectOK, Serving
  <2>3. ConditionsOK(f("EXECUTE"), r, progConditions', stored')
    BY <1>3, <2>1 DEF ConditionsOK
  <2> QED BY <1>3, <1>4, <1>8, <1>10, <2>1, <2>2, <2>3, ServedOn
<1>11. CASE Negative(r, e)
  <2>1. Refused(r, e) /\ stored' \in Jobs \cup {NoJob}
    BY <1>11, OnlyAJump DEF Negative
  <2> QED BY <1>4, <1>5, <2>1, AnsweredNegatively
<1>12. CASE Positive(r, f("FINAL_RESPONSE"))
  <2>1. EffectOK(f("FINAL_RESPONSE"), "answered", TRUE, r)
    BY <1>7 DEF EffectOK, Serving
  <2> QED BY <1>3, <1>4, <1>8, <1>12, <2>1, AnsweredPositively
<1> QED BY <1>6, <1>9, <1>10, <1>11, <1>12

LEMMA SessionRequested ==
  ASSUME NEW r, NEW internal, Serving(r), r.sid = "session", effect.jump = "IDLE",
         RequestsSession(r, internal)
  PROVE  StepOK
<1> DEFINE e == WithChange(effect, r.session, r.pdu)
<1>1. /\ r \in Requests /\ r.session \in DspSessions \cup {UnknownSession} /\ r.pdu \in TesterPdus
      /\ effect \in Effects /\ Quiet(effect) /\ Prepared(effect)
  BY OnlyAJump, RequestFields DEF Quiet, Prepared
<1>2. /\ e \in Effects /\ e.jump = "IDLE" /\ e.session = r.session /\ e.pdu = r.pdu
      /\ e.link = "IDLE" /\ e.reset = "NO_RESET" /\ ~e.com
      /\ e.silent = effect.silent /\ e.dtcOff = effect.dtcOff /\ e.startup = effect.startup
  BY <1>1, OnlyAJump, ChangePrepared
<1>3. \/ Negative(r, effect) /\ UNCHANGED progConditions
      \/ Positive(r, e) /\ UNCHANGED progConditions
      \/ RequestsJump(r)
  BY DEF RequestsSession, WithChange
<1> HIDE DEF e
<1>4. UNCHANGED progConditions => ServiceStep(r)
  BY OnlyAJump DEF ServiceStep
<1>5. CASE Negative(r, effect) /\ UNCHANGED progConditions
  <2>1. Refused(r, effect) /\ stored' \in Jobs \cup {NoJob}
    BY <1>5, OnlyAJump DEF Negative
  <2> QED BY <1>1, <1>4, <1>5, <2>1, AnsweredNegatively
<1>6. CASE Positive(r, e) /\ UNCHANGED progConditions
  <2>1. Prepared(e)
    BY <1>1, <1>2 DEF Prepared, LastingOK, Quiet
  <2>2. EffectOK(e, "answered", TRUE, r)
    BY <1>2 DEF EffectOK
  <2> QED BY <1>2, <1>4, <1>6, <2>1, <2>2, AnsweredPositively
<1>7. CASE RequestsJump(r)
  BY <1>7, JumpRequested
<1> QED BY <1>3, <1>5, <1>6, <1>7

LEMMA SessionServed ==
  ASSUME NEW r, NEW internal, Serving(r), r.sid = "session",
         DspUdsDiagnosticSessionControl(r, internal)
  PROVE  StepOK
<1> DEFINE f(x) == WithJump(effect, x)
<1>1. effect \in Effects /\ r \in Requests
  BY OnlyAJump
<1>2. \A x \in {"IDLE", "FINAL_RESPONSE"} :
        /\ f(x) \in Effects /\ f(x).jump = x /\ f(x).session = effect.session
        /\ f(x).pdu = effect.pdu
        /\ ~f(x).change /\ f(x).link = "IDLE" /\ f(x).reset = "NO_RESET" /\ ~f(x).com
        /\ f(x).silent = effect.silent /\ f(x).dtcOff = effect.dtcOff
        /\ f(x).startup = effect.startup
  BY <1>1, OnlyAJump, JumpSet
<1>3. \/ effect.jump = "IDLE" /\ RequestsSession(r, internal)
      \/ effect.jump = "EXECUTE" /\ UNCHANGED progConditions /\ Executes(r, f("IDLE"))
      \/ effect.jump = "ASSEMBLE" /\ UNCHANGED progConditions /\ Positive(r, f("FINAL_RESPONSE"))
      \/ /\ effect.jump \notin {"IDLE", "EXECUTE", "ASSEMBLE"}
         /\ StaysServed(r, effect) /\ UNCHANGED <<progConditions, stored>>
  BY DEF DspUdsDiagnosticSessionControl, WithJump
<1> HIDE DEF f
<1>4. UNCHANGED progConditions => ServiceStep(r)
  BY OnlyAJump DEF ServiceStep
<1>5. \A x \in {"IDLE", "FINAL_RESPONSE"} : Prepared(f(x))
  BY <1>2, OnlyAJump DEF Prepared, LastingOK
<1>6. CASE effect.jump = "IDLE" /\ RequestsSession(r, internal)
  BY <1>6, SessionRequested
<1>7. CASE effect.jump = "EXECUTE" /\ UNCHANGED progConditions /\ Executes(r, f("IDLE"))
  <2>1. IsFor(stored, r)
    BY <1>7, OnlyAJump
  <2>2. Quiet(f("IDLE"))
    BY <1>2 DEF Quiet
  <2> QED BY <1>4, <1>5, <1>7, <2>1, <2>2, ModeSwitched
<1>8. CASE effect.jump = "ASSEMBLE" /\ UNCHANGED progConditions /\ Positive(r, f("FINAL_RESPONSE"))
  <2>1. EffectOK(f("FINAL_RESPONSE"), "answered", TRUE, r)
    BY <1>2, <1>8, OnlyAJump DEF EffectOK
  <2>2. IsFor(progConditions', r)
    BY <1>8, OnlyAJump
  <2> QED BY <1>4, <1>5, <1>8, <2>1, <2>2, AnsweredPositively
<1>9. CASE /\ effect.jump \notin {"IDLE", "EXECUTE", "ASSEMBLE"}
           /\ StaysServed(r, effect) /\ UNCHANGED <<progConditions, stored>>
  <2>1. Prepared(effect)
    BY OnlyAJump DEF Prepared
  <2>2. EffectOK(effect, "serving", FALSE, r)
    BY <1>9, OnlyAJump DEF EffectOK
  <2>3. ConditionsOK(effect, r, progConditions', stored') /\ stored' \in Jobs \cup {NoJob}
    BY <1>9, OnlyAJump DEF ConditionsOK
  <2> QED BY <1>4, <1>9, <2>1, <2>2, <2>3, ServedOn
<1> QED BY <1>3, <1>6, <1>7, <1>8, <1>9

-----------------------------------------------------------------------------
(* LinkControl. *)
LEMMA OnlyALink ==
  ASSUME NEW r, Serving(r), r.sid = "link"
  PROVE  /\ effect \in Effects /\ r \in Requests
         /\ effect.jump = "IDLE" /\ ~effect.change /\ effect.reset = "NO_RESET" /\ ~effect.com
         /\ effect.link # "IDLE" => IsFor(progConditions, r)
         /\ effect.link = "EXECUTE" => IsFor(stored, r)
         /\ effect.link # "IDLE" => serving.phase = "serving"
         /\ stored \in Jobs \cup {NoJob} /\ progConditions \in Jobs \cup {NoJob}
         /\ Undisturbed => LastingOK(effect, session)
         /\ effect.startup => progConditions # NoJob
BY ServedRequest DEF Serving, ConfirmInv, EffectOK, ConditionsOK, Effects

WithLink(e, x) == [e EXCEPT !.link = x]

LEMMA LinkSet ==
  ASSUME NEW e \in Effects, NEW x \in {"IDLE", "WAIT", "EXECUTE"}
  PROVE  LET f == WithLink(e, x)
         IN /\ f \in Effects /\ f.link = x /\ f.jump = e.jump
            /\ f.change = e.change /\ f.reset = e.reset /\ f.com = e.com
            /\ f.silent = e.silent /\ f.dtcOff = e.dtcOff /\ f.startup = e.startup
BY DEF Effects, WithLink

LEMMA LinkServed ==
  ASSUME NEW r, Serving(r), r.sid = "link", DspUdsLinkControl(r)
  PROVE  StepOK
<1> DEFINE f(x) == WithLink(effect, x)
<1>1. effect \in Effects /\ r \in Requests /\ Prepared(effect)
  BY OnlyALink DEF Prepared
<1>2. \A x \in {"IDLE", "WAIT", "EXECUTE"} :
        /\ f(x) \in Effects /\ f(x).link = x /\ f(x).jump = "IDLE" /\ ~f(x).change
        /\ f(x).reset = "NO_RESET" /\ ~f(x).com
        /\ f(x).silent = effect.silent /\ f(x).dtcOff = effect.dtcOff
        /\ f(x).startup = effect.startup
  BY <1>1, OnlyALink, LinkSet
<1> DEFINE asked == /\ progConditions' = Conditions(r)
                    /\ \/ ForcesPending(r, f("WAIT"))
                       \/ SetProgConditions /\ StaysServed(r, f("EXECUTE"))
                       \/ effect.link = "IDLE" /\ Negative(r, effect)
           goesOn == /\ UNCHANGED progConditions
                     /\ \/ effect.link = "IDLE" /\ Negative(r, effect)
                        \/ effect.link = "EXECUTE" /\ Executes(r, f("IDLE"))
                        \/ effect.link = "WAIT" /\ StaysServed(r, effect) /\ UNCHANGED stored
<1>3. asked \/ goesOn
  BY DEF DspUdsLinkControl, RequestsLink, WithLink
<1> HIDE DEF f
<1>4. \A x \in {"IDLE", "WAIT", "EXECUTE"} : Prepared(f(x))
  BY <1>1, <1>2 DEF Prepared, LastingOK
<1>5. \A x \in {"IDLE", "WAIT", "EXECUTE"} : EffectOK(f(x), "serving", FALSE, r)
  BY <1>2 DEF EffectOK
<1>6. effect.link = "IDLE" => Quiet(effect)
  BY OnlyALink DEF Quiet
<1>7. CASE goesOn
  <2>1. ServiceStep(r)
    BY <1>7, OnlyALink DEF ServiceStep
  <2>2. CASE effect.link = "IDLE" /\ Negative(r, effect)
    <3>1. Refused(r, effect) /\ stored' \in Jobs \cup {NoJob}
      BY <2>2, OnlyALink DEF Negative
    <3> QED BY <1>1, <1>6, <2>1, <2>2, <3>1, AnsweredNegatively
  <2>3. CASE effect.link = "EXECUTE" /\ Executes(r, f("IDLE"))
    <3>1. Quiet(f("IDLE")) /\ IsFor(stored, r)
      BY <1>2, <2>3, OnlyALink DEF Quiet
    <3> QED BY <1>4, <2>1, <2>3, <3>1, ModeSwitched
  <2>4. CASE effect.link = "WAIT" /\ StaysServed(r, effect) /\ UNCHANGED stored
    <3>1. EffectOK(effect, "serving", FALSE, r)
      BY <2>4, OnlyALink DEF EffectOK
    <3>2. ConditionsOK(effect, r, progConditions', stored') /\ stored' \in Jobs \cup {NoJob}
      BY <1>7, <2>4, OnlyALink DEF ConditionsOK
    <3> QED BY <1>1, <2>1, <2>4, <3>1, <3>2, ServedOn
  <2> QED BY <1>7, <2>2, <2>3, <2>4
<1>8. CASE asked
  <2>1. progConditions' \in Jobs /\ IsFor(progConditions', r) /\ progConditions' # NoJob
    BY <1>1, <1>8, ConditionsOfRequest DEF IsFor, Serving
  <2>2. ServiceStep(r)
    BY <2>1 DEF ServiceStep
  <2>3. CASE ForcesPending(r, f("WAIT"))
    <3>1. ConditionsOK(f("WAIT"), r, progConditions', stored') /\ stored' \in Jobs \cup {NoJob}
      BY <1>2, <2>1, <2>3, OnlyALink DEF ConditionsOK, ForcesPending
    <3> QED BY <1>4, <1>5, <2>2, <2>3, <3>1, ServedOn
  <2>4. CASE SetProgConditions /\ StaysServed(r, f("EXECUTE"))
    <3>1. /\ ConditionsOK(f("EXECUTE"), r, progConditions', stored')
          /\ stored' \in Jobs \cup {NoJob}
      BY <1>2, <2>1, <2>4 DEF ConditionsOK, SetProgConditions
    <3> QED BY <1>4, <1>5, <2>2, <2>4, <3>1, ServedOn
  <2>5. CASE effect.link = "IDLE" /\ Negative(r, effect)
    <3>1. Refused(r, effect) /\ stored' \in Jobs \cup {NoJob}
      BY <2>5, OnlyALink DEF Negative
    <3> QED BY <1>1, <1>6, <2>2, <2>5, <3>1, AnsweredNegatively
  <2> QED BY <1>8, <2>3, <2>4, <2>5
<1> QED BY <1>3, <1>7, <1>8

-----------------------------------------------------------------------------
(* ECUReset. *)
LEMMA OnlyAReset ==
  ASSUME NEW r, Serving(r), r.sid = "reset"
  PROVE  /\ effect \in Effects /\ r \in Requests
         /\ effect.jump = "IDLE" /\ ~effect.change /\ effect.link = "IDLE" /\ ~effect.com
         /\ effect.reset \in {"NO_RESET", "PENDING"}
         /\ effect.reset = "PENDING" => serving.phase = "serving"
         /\ stored \in Jobs \cup {NoJob} /\ progConditions \in Jobs \cup {NoJob}
         /\ Undisturbed => LastingOK(effect, session)
         /\ effect.startup => progConditions # NoJob
BY ServedRequest DEF Serving, ConfirmInv, EffectOK, Effects

WithReset(e, p, x) == [e EXCEPT !.resetPdu = p, !.reset = x]

LEMMA ResetSet ==
  ASSUME NEW e \in Effects, NEW p \in TesterPdus,
         NEW x \in {"NO_RESET", "PENDING", "WAIT_TX_CONF"}
  PROVE  LET f == WithReset(e, p, x)
         IN /\ f \in Effects /\ f.reset = x /\ f.resetPdu = p /\ f.jump = e.jump
            /\ f.change = e.change /\ f.link = e.link /\ f.com = e.com
            /\ f.silent = e.silent /\ f.dtcOff = e.dtcOff /\ f.startup = e.startup
BY DEF Effects, WithReset

LEMMA ResetServed ==
  ASSUME NEW r, NEW internal, Serving(r), r.sid = "reset", internal => serving.phase # "serving",
         DspUdsEcuReset(r, internal)
  PROVE  StepOK
<1> DEFINE f(x) == WithReset(effect, r.pdu, x)
<1>1. effect \in Effects /\ r \in Requests /\ r.pdu \in TesterPdus /\ Prepared(effect)
  BY OnlyAReset, RequestFields DEF Prepared
<1>2. \A x \in {"NO_RESET", "PENDING", "WAIT_TX_CONF"} :
        /\ f(x) \in Effects /\ f(x).reset = x /\ f(x).resetPdu = r.pdu
        /\ f(x).jump = "IDLE" /\ ~f(x).change /\ f(x).link = "IDLE" /\ ~f(x).com
        /\ f(x).silent = effect.silent /\ f(x).dtcOff = effect.dtcOff
        /\ f(x).startup = effect.startup
  <2>1. ASSUME NEW x \in {"NO_RESET", "PENDING", "WAIT_TX_CONF"}
        PROVE  /\ f(x) \in Effects /\ f(x).reset = x /\ f(x).resetPdu = r.pdu
               /\ f(x).jump = effect.jump /\ f(x).change = effect.change
               /\ f(x).link = effect.link /\ f(x).com = effect.com
               /\ f(x).silent = effect.silent /\ f(x).dtcOff = effect.dtcOff
               /\ f(x).startup = effect.startup
    BY <1>1, ResetSet, SMTT(30)
  <2> HIDE DEF f
  <2> QED BY <2>1, OnlyAReset
<1>3. /\ UNCHANGED progConditions
      /\ \/ internal /\ Positive(r, effect)
         \/ Positive(r, f("WAIT_TX_CONF"))
         \/ StaysServed(r, f("PENDING")) /\ UNCHANGED stored
         \/ Negative(r, f("NO_RESET"))
  BY DEF DspUdsEcuReset, WithReset
<1> HIDE DEF f
<1>4. \A x \in {"NO_RESET", "PENDING", "WAIT_TX_CONF"} : Prepared(f(x))
  BY <1>1, <1>2 DEF Prepared, LastingOK
<1>5. ServiceStep(r)
  BY <1>3, OnlyAReset DEF ServiceStep
<1>6. CASE internal /\ Positive(r, effect)
  <2>1. effect.jump = "IDLE" /\ EffectOK(effect, "answered", TRUE, r)
    BY <1>6, OnlyAReset DEF EffectOK
  <2> QED BY <1>1, <1>5, <1>6, <2>1, AnsweredPositively
<1>7. CASE Positive(r, f("WAIT_TX_CONF"))
  <2>1. EffectOK(f("WAIT_TX_CONF"), "answered", TRUE, r)
    BY <1>2 DEF EffectOK
  <2> QED BY <1>2, <1>4, <1>5, <1>7, <2>1, AnsweredPositively
<1>8. CASE StaysServed(r, f("PENDING")) /\ UNCHANGED stored
  <2>1. EffectOK(f("PENDING"), "serving", FALSE, r)
    BY <1>2 DEF EffectOK
  <2>2. /\ ConditionsOK(f("PENDING"), r, progConditions', stored')
        /\ stored' \in Jobs \cup {NoJob}
    BY <1>2, <1>8, OnlyAReset DEF ConditionsOK
  <2> QED BY <1>4, <1>5, <1>8, <2>1, <2>2, ServedOn
<1>9. CASE Negative(r, f("NO_RESET"))
  <2>1. Quiet(f("NO_RESET")) /\ Refused(r, f("NO_RESET")) /\ stored' \in Jobs \cup {NoJob}
    BY <1>2, <1>9, OnlyAReset DEF Quiet, Negative
  <2> QED BY <1>4, <1>5, <2>1, AnsweredNegatively
<1> QED BY <1>3, <1>6, <1>7, <1>8, <1>9
-----------------------------------------------------------------------------
(* CommunicationControl, ControlDTCSetting and the rest: answered at once. *)
LEMMA NothingYet ==
  ASSUME NEW r, Serving(r), serving.phase # "serving"
  PROVE  /\ effect \in Effects /\ r \in Requests /\ Quiet(effect) /\ Prepared(effect)
         /\ UNCHANGED progConditions => ServiceStep(r)
         /\ stored \in Jobs \cup {NoJob}
<1>1. serving.phase \in {"received", "startup"}
  BY DEF Serving
<1> QED BY <1>1, ServedRequest, QuietBetween DEF Serving, ConfirmInv, Prepared, ServiceStep

LEMMA NothingToConfirm ==
  ASSUME NEW r, Serving(r), serving.phase # "serving", UNCHANGED progConditions, NEW e,
         Quiet(e), Prepared(e), Positive(r, e) \/ Negative(r, e)
  PROVE  StepOK
<1>1. CASE Positive(r, e)
  <2>1. EffectOK(e, "answered", TRUE, r) /\ e.jump = "IDLE"
    BY QuietKept DEF Prepared, Quiet
  <2> QED BY <1>1, <2>1, NothingYet, AnsweredPositively
<1>2. CASE Negative(r, e)
  <2>1. Refused(r, e) /\ stored' \in Jobs \cup {NoJob}
    BY <1>2, NothingYet DEF Negative
  <2> QED BY <2>1, NothingYet, AnsweredNegatively
<1> QED BY <1>1, <1>2

WithCom(e, p, on, channels) ==
  [e EXCEPT !.com = TRUE, !.comPdu = p, !.on = on, !.channels = channels]
WithoutCom(e) == [e EXCEPT !.com = FALSE]
WithDtcOff(e, off) == [e EXCEPT !.dtcOff = off]

LEMMA ComSet ==
  ASSUME NEW e \in Effects, NEW p \in TesterPdus, NEW on \in BOOLEAN,
         NEW channels \in SUBSET Channels
  PROVE  LET f == WithCom(e, p, on, channels)
         IN /\ f \in Effects /\ f.com /\ f.comPdu = p /\ f.channels = channels
            /\ f.jump = e.jump /\ f.change = e.change /\ f.link = e.link /\ f.reset = e.reset
            /\ f.dtcOff = e.dtcOff /\ f.startup = e.startup
BY DEF Effects, WithCom

LEMMA ComCleared ==
  ASSUME NEW e \in Effects
  PROVE  LET f == WithoutCom(e)
         IN /\ f \in Effects /\ ~f.com
            /\ f.jump = e.jump /\ f.change = e.change /\ f.link = e.link /\ f.reset = e.reset
            /\ f.silent = e.silent /\ f.dtcOff = e.dtcOff /\ f.startup = e.startup
BY DEF Effects, WithoutCom

LEMMA DtcSet ==
  ASSUME NEW e \in Effects, NEW off \in BOOLEAN
  PROVE  LET f == WithDtcOff(e, off)
         IN /\ f \in Effects /\ f.com = e.com
            /\ f.jump = e.jump /\ f.change = e.change /\ f.link = e.link /\ f.reset = e.reset
            /\ f.silent = e.silent /\ f.startup = e.startup
BY DEF Effects, WithDtcOff

LEMMA ComServed ==
  ASSUME NEW r, Serving(r), serving.phase # "serving", r.sid = "com",
         Allows(ComService, session, security), DspCommunicationControl(r)
  PROVE  StepOK
<1> DEFINE e == WithCom(effect, r.pdu, r.on, r.channels)
           c == WithoutCom(effect)
<1>1. /\ r \in Requests /\ r.pdu \in TesterPdus /\ r.on \in BOOLEAN
      /\ r.channels \in SUBSET Channels
  BY NothingYet, RequestFields, ConfirmAssumption
<1>2. /\ UNCHANGED progConditions
      /\ Negative(r, c) \/ Positive(r, e)
  BY DEF DspCommunicationControl, WithCom, WithoutCom
<1>3. CASE Negative(r, c)
  <2>1. Quiet(c) /\ Prepared(c)
    BY NothingYet, ComCleared DEF Quiet, Prepared, LastingOK
  <2> QED BY <1>2, <1>3, <2>1, NothingToConfirm
<1>4. CASE Positive(r, e)
  <2>1. /\ e \in Effects /\ e.com /\ e.comPdu = r.pdu /\ e.channels = r.channels
        /\ e.jump = "IDLE" /\ ~e.change /\ e.link = "IDLE" /\ e.reset = "NO_RESET"
        /\ e.dtcOff = effect.dtcOff /\ e.startup = effect.startup
    BY <1>1, NothingYet, ComSet DEF Quiet
  <2> HIDE DEF e
  <2>2. EffectOK(e, "answered", TRUE, r)
    BY <2>1 DEF EffectOK
  <2>3. Prepared(e)
    BY <2>1, NothingYet DEF Prepared, LastingOK, Allows
  <2> QED BY <1>2, <1>4, <2>1, <2>2, <2>3, NothingYet, AnsweredPositively
<1> QED BY <1>2, <1>3, <1>4

LEMMA DtcServed ==
  ASSUME NEW r, Serving(r), serving.phase # "serving", r.sid = "dtc",
         Allows(DtcService, session, security), DspUdsControlDtcSetting(r)
  PROVE  StepOK
<1> DEFINE off == ~r.on
           e == WithDtcOff(effect, off)
<1>1. r \in Requests /\ off \in BOOLEAN
  BY NothingYet
<1>2. UNCHANGED progConditions /\ (Negative(r, effect) \/ Positive(r, e))
  BY DEF DspUdsControlDtcSetting, WithDtcOff
<1> HIDE DEF off
<1>3. /\ e \in Effects /\ ~e.com /\ e.jump = "IDLE" /\ ~e.change /\ e.link = "IDLE"
      /\ e.reset = "NO_RESET" /\ e.silent = effect.silent /\ e.startup = effect.startup
  BY <1>1, NothingYet, DtcSet DEF Quiet
<1> HIDE DEF e
<1>4. Quiet(e)
  BY <1>3 DEF Quiet
<1>5. ASSUME Undisturbed PROVE LastingOK(e, session)
  <2>1. session # DefaultSession /\ DspCheckSessionLevel(DtcService, session)
    BY <1>5 DEF Undisturbed, Allows
  <2> QED BY <1>3, <1>5, <2>1, NothingYet DEF LastingOK, Prepared
<1>6. Prepared(e)
  BY <1>3, <1>5 DEF Prepared
<1> QED BY <1>2, <1>4, <1>6, NothingYet, NothingToConfirm

(* A request that the DSD passes on. *)
LEMMA RequestServed ==
  ASSUME NEW r, NEW internal, Serving(r), serving.phase # "serving", Serves(r, internal)
  PROVE  StepOK
<1>1. CASE r.sid = "session" /\ DspUdsDiagnosticSessionControl(r, internal)
  BY <1>1, SessionServed
<1>2. CASE r.sid = "link" /\ DspUdsLinkControl(r)
  BY <1>2, LinkServed
<1>3. CASE r.sid = "reset" /\ DspUdsEcuReset(r, internal)
  BY <1>3, ResetServed
<1>4. CASE r.sid = "com" /\ Allows(ComService, session, security) /\ DspCommunicationControl(r)
  BY <1>4, ComServed
<1>5. CASE r.sid = "dtc" /\ Allows(DtcService, session, security) /\ DspUdsControlDtcSetting(r)
  BY <1>5, DtcServed
<1>6. CASE \/ OtherService(r)
           \/ Negative(r, effect) /\ UNCHANGED progConditions
  <2>1. /\ UNCHANGED progConditions /\ Quiet(effect) /\ Prepared(effect)
        /\ Positive(r, effect) \/ Negative(r, effect)
    BY <1>6, NothingYet DEF OtherService
  <2> QED BY <2>1, NothingToConfirm
<1> QED BY <1>1, <1>2, <1>3, <1>4, <1>5, <1>6 DEF Serves

-----------------------------------------------------------------------------
(* The other actions.  Most of them leave nothing prepared.                *)
LEMMA LeftQuiet ==
  ASSUME effect' \in Effects, Quiet(effect'), serving' \in Servings,
         serving'.phase # "idle" => serving'.request \in Requests,
         progConditions' \in Jobs \cup {NoJob}, stored' \in Jobs \cup {NoJob},
         Undisturbed => LastingOK(effect', session'),
         effect'.startup => progConditions' # NoJob, ecu' # "starting"
  PROVE  ConfirmInv'
BY QuietKept DEF ConfirmInv

LEMMA IdleServing == Idle \in Servings /\ Idle.phase = "idle"
BY DEF Idle, Servings, Phases

WithStartup(e, b) == [e EXCEPT !.startup = b]

LEMMA StartupSet ==
  ASSUME NEW e \in Effects, Quiet(e), NEW b \in BOOLEAN
  PROVE  LET f == WithStartup(e, b)
         IN /\ f \in Effects /\ Quiet(f) /\ (f.startup => b) /\ f.com = e.com
            /\ f.silent = e.silent /\ f.dtcOff = e.dtcOff
BY DEF Effects, Quiet, WithStartup

LEMMA KeptAtStart ==
  ASSUME ConfirmInv, DspCheckProtocolStartRequests
  PROVE  StepOK
<1>1. effect = NoEffect /\ serving = Idle /\ effect \in Effects
  BY DEF ConfirmInv, DspCheckProtocolStartRequests
<1>2. Quiet(effect) /\ ~effect.com /\ effect.silent = {} /\ ~effect.dtcOff /\ ~effect.startup
  BY <1>1 DEF NoEffect, Quiet
<1>3. UNCHANGED <<stored, serving>> /\ ecu' = "running"
  BY DEF DspCheckProtocolStartRequests
<1>4. CASE UNCHANGED <<levels, effect, progConditions>>
  BY <1>1, <1>2, <1>3, <1>4, IdleServing, LeftQuiet DEF ConfirmInv, StepOK, levels
<1>5. CASE ~UNCHANGED <<levels, effect, progConditions>>
  <2>1. PICK c \in LeftBehind : progConditions' = c /\ effect' = WithStartup(effect, c.respond)
    BY <1>5 DEF DspCheckProtocolStartRequests, WithStartup
  <2>2. c \in Jobs /\ c.respond \in BOOLEAN
    BY DEF LeftBehind, Jobs
  <2>3. c # NoJob
    BY <2>2 DEF Jobs, NoJob
  <2>4. /\ effect' \in Effects /\ Quiet(effect')
        /\ ~effect'.com /\ effect'.silent = {} /\ ~effect'.dtcOff
    BY <1>1, <1>2, <2>1, <2>2, StartupSet
  <2>5. LastingOK(effect', session')
    BY <2>4 DEF LastingOK
  <2> QED BY <1>1, <1>3, <2>1, <2>2, <2>3, <2>4, <2>5, IdleServing, LeftQuiet DEF ConfirmInv, StepOK
<1> QED BY <1>4, <1>5

LEMMA ReceivedRequest ==
  ASSUME NEW r \in Requests, NEW internal \in BOOLEAN, Received(r, internal)
  PROVE  serving' \in Servings /\ serving'.request = r
<1> DEFINE p == IF internal THEN "startup" ELSE "received"
<1>1. p \in Phases \cup {"startup"} /\ MaxRespPend \in Nat
  BY ConfirmAssumption DEF Phases
<1>2. serving' = [phase |-> p, request |-> r, positive |-> FALSE, left |-> MaxRespPend]
  BY DEF Received
<1> HIDE DEF p
<1> QED BY <1>1, <1>2 DEF Servings

LEMMA KeptByStartupResponse ==
  ASSUME ConfirmInv, DspStartupServiceResponseMainFunction
  PROVE  StepOK
<1> DEFINE r == [sid |-> progConditions.sid, session |-> progConditions.session,
                 pdu |-> progConditions.pdu, suppress |-> FALSE]
<1>1. /\ effect.startup /\ serving.phase = "idle" /\ Received(r, TRUE)
      /\ effect' = WithStartup(effect, FALSE) /\ ecu = "running"
      /\ UNCHANGED <<levels, progConditions, stored, ecu>>
  BY DEF DspStartupServiceResponseMainFunction, WithStartup
<1>2. progConditions \in Jobs /\ effect \in Effects /\ Quiet(effect)
  BY <1>1, QuietBetween DEF ConfirmInv
<1>3. r \in Requests
  BY <1>2, RequestLeftBehind
<1>4. serving' \in Servings /\ serving'.request = r
  BY <1>1, <1>3, ReceivedRequest
<1> HIDE DEF r
<1>5. /\ effect' \in Effects /\ Quiet(effect') /\ ~effect'.startup /\ effect'.com = effect.com
      /\ effect'.silent = effect.silent /\ effect'.dtcOff = effect.dtcOff
  BY <1>1, <1>2, StartupSet
<1>6. Undisturbed => LastingOK(effect', session')
  BY <1>1, <1>5 DEF ConfirmInv, LastingOK, levels
<1> QED BY <1>1, <1>3, <1>4, <1>5, <1>6, LeftQuiet DEF ConfirmInv, StepOK

LEMMA KeptByReception ==
  ASSUME ConfirmInv, RequestReceived
  PROVE  StepOK
<1>1. PICK r \in Requests : Received(r, FALSE)
  BY DEF RequestReceived
<1>2. /\ serving.phase = "idle" /\ ecu = "running" /\ effect' = Settled(effect)
      /\ progConditions' = IF effect.startup THEN progConditions ELSE NoJob
      /\ stored' = NoJob /\ session' = session /\ ecu' = ecu
  BY DEF RequestReceived, levels
<1>3. effect \in Effects /\ Quiet(effect)
  BY <1>2, QuietBetween DEF ConfirmInv
<1>4. serving' \in Servings /\ serving'.request = r
  BY <1>1, ReceivedRequest
<1>5. /\ effect' \in Effects /\ Quiet(effect') /\ effect'.startup = effect.startup
      /\ effect'.com = effect.com
      /\ effect'.silent = effect.silent /\ effect'.dtcOff = effect.dtcOff
  BY <1>2, <1>3, Forgotten DEF Quiet
<1>6. Undisturbed => LastingOK(effect', session')
  BY <1>2, <1>5 DEF ConfirmInv, LastingOK
<1> QED BY <1>2, <1>4, <1>5, <1>6, LeftQuiet DEF ConfirmInv, StepOK

LEMMA KeptByServices ==
  ASSUME ConfirmInv, DsdServes \/ DspJumpToBootMainFunction \/ DspResetMainFunction
  PROVE  StepOK
<1> DEFINE r == serving.request
<1>1. CASE DsdServes
  <2>1. Serving(r) /\ serving.phase # "serving" /\ Serves(r, serving.phase = "startup")
    BY <1>1 DEF DsdServes, Serving
  <2> QED BY <2>1, RequestServed
<1>2. CASE DspJumpToBootMainFunction
  <2>1. Serving(r)
    BY <1>2 DEF DspJumpToBootMainFunction, Serving
  <2>2. CASE /\ effect.jump \in {"ASSEMBLE", "EXECUTE"}
             /\ DspUdsDiagnosticSessionControl(serving.request, FALSE)
    <3>1. r.sid = "session"
      BY <2>2 DEF ConfirmInv, EffectOK
    <3> QED BY <2>1, <2>2, <3>1, SessionServed
  <2>3. CASE effect.link = "EXECUTE" /\ DspUdsLinkControl(serving.request)
    <3>1. r.sid = "link"
      BY <2>3 DEF ConfirmInv, EffectOK
    <3> QED BY <2>1, <2>3, <3>1, LinkServed
  <2> QED BY <1>2, <2>2, <2>3 DEF DspJumpToBootMainFunction
<1>3. CASE DspResetMainFunction
  <2>1. r.sid = "reset" /\ serving.phase = "serving" /\ DspUdsEcuReset(r, FALSE)
    BY <1>3 DEF DspResetMainFunction, ConfirmInv, EffectOK
  <2>2. Serving(r)
    BY <1>3, <2>1 DEF DspResetMainFunction, Serving
  <2> QED BY <2>1, <2>2, ResetServed
<1> QED BY <1>1, <1>2, <1>3

WithoutJobs(e) == [e EXCEPT !.reset = "NO_RESET", !.jump = "IDLE", !.link = "IDLE"]

LEMMA JobsCleared ==
  ASSUME NEW e \in Effects
  PROVE  LET f == WithoutJobs(e)
         IN /\ f \in Effects /\ f.reset = "NO_RESET" /\ f.jump = "IDLE" /\ f.link = "IDLE"
            /\ f.change = e.change /\ f.com = e.com
            /\ f.silent = e.silent /\ f.dtcOff = e.dtcOff /\ f.startup = e.startup
BY DEF Effects, WithoutJobs

LEMMA KeptByTimeout ==
  ASSUME ConfirmInv, P2Expires
  PROVE  StepOK
<1> DEFINE r == serving.request
<1>1. /\ ecu = "running" /\ serving.phase = "serving" /\ UNCHANGED progConditions
      /\ effect \in Effects /\ stored \in Jobs \cup {NoJob}
      /\ ~effect.change /\ ~effect.com
  BY DEF P2Expires, ConfirmInv, EffectOK
<1>2. CASE ForcesPending(serving.request, effect)
  <2>1. ServiceStep(r) /\ Prepared(effect)
    BY <1>1 DEF ServiceStep, Serving, Prepared, ConfirmInv
  <2>2. EffectOK(effect, "serving", FALSE, r)
    BY <1>1 DEF ConfirmInv, EffectOK
  <2>3. stored' = stored
    BY <1>2 DEF ForcesPending
  <2>4. ConditionsOK(effect, r, progConditions', stored')
    BY <1>1, <2>3 DEF ConfirmInv
  <2> QED BY <1>1, <1>2, <2>1, <2>2, <2>3, <2>4, ServedOn
<1>3. CASE GivesUp
  <2>1. serving' = Idle /\ effect' = WithoutJobs(effect) /\ UNCHANGED <<levels, stored, ecu>>
    BY <1>3 DEF GivesUp, Released, WithoutJobs
  <2>2. /\ effect' \in Effects /\ effect'.reset = "NO_RESET" /\ effect'.jump = "IDLE"
        /\ effect'.link = "IDLE" /\ effect'.change = effect.change /\ effect'.com = effect.com
        /\ effect'.silent = effect.silent /\ effect'.dtcOff = effect.dtcOff
        /\ effect'.startup = effect.startup
    BY <1>1, <2>1, JobsCleared
  <2>3. Quiet(effect')
    BY <1>1, <2>2 DEF Quiet
  <2>4. Undisturbed => LastingOK(effect', session')
    BY <2>1, <2>2 DEF ConfirmInv, LastingOK, levels
  <2> QED BY <1>1, <2>1, <2>2, <2>3, <2>4, IdleServing, LeftQuiet DEF ConfirmInv, StepOK
<1> QED BY <1>2, <1>3 DEF P2Expires

LEMMA KeptByConfirmation ==
  ASSUME ConfirmInv, NoRefusal, DsdDataConfirmation
  PROVE  StepOK
<1> DEFINE r == serving.request
<1>1. PICK ok \in BOOLEAN : DspDcmConfirmation(effect, r.pdu, ok)
  BY DEF DsdDataConfirmation, NoRefusal
<1>2. /\ ecu = "running" /\ serving.phase = "answered" /\ serving' = Idle
      /\ UNCHANGED progConditions /\ effect \in Effects /\ r \in Requests
      /\ EffectOK(effect, "answered", serving.positive, r)
  BY DEF DsdDataConfirmation, Released, ConfirmInv
<1>3. /\ effect' \in Effects /\ Quiet(effect')
      /\ effect'.startup => effect.startup
      /\ LastingOK(effect, session) => LastingOK(effect', session')
      /\ stored' \in {stored, progConditions'} /\ ecu' \in {ecu, "reset", "jump"}
      /\ ecu' = "jump" /\ ecu # "jump" => effect.jump # "IDLE" /\ stored' = progConditions'
  BY <1>1, <1>2, EffectsConfirmed
<1>4. ConfirmInv'
  BY <1>2, <1>3, IdleServing, LeftQuiet DEF ConfirmInv
<1>5. ecu' = "jump" => IsFor(stored', serving.request)
  BY <1>2, <1>3 DEF ConfirmInv, ConditionsOK
<1> QED BY <1>4, <1>5 DEF StepOK

(* A 0x78 response that was confirmed, and the jump that waited for it. *)
LEMMA JumpedNow ==
  ASSUME ConfirmInv, serving.phase = "serving", ecu = "running", UNCHANGED progConditions,
         NEW e \in Effects, Quiet(e), Prepared(e), IsFor(progConditions, serving.request),
         JumpsNow(e)
  PROVE  StepOK
<1> DEFINE r == serving.request
<1>1. ServiceStep(r)
  BY DEF ServiceStep, Serving, ConfirmInv
<1>2. CASE stored' \in {stored, progConditions} /\ Refused(serving.request, e)
  <2>1. stored' \in Jobs \cup {NoJob}
    BY <1>2 DEF ConfirmInv
  <2> QED BY <1>1, <1>2, <2>1, AnsweredNegatively
<1>3. CASE ~(stored' \in {stored, progConditions} /\ Refused(serving.request, e))
  <2>1. /\ stored' = progConditions' /\ ecu' = "jump" /\ effect' = e /\ serving' = serving
        /\ session' = session
    BY <1>3 DEF JumpsNow, SetProgConditions, levels
  <2>2. ConfirmInv'
    BY <2>1, LeftQuiet DEF ConfirmInv, Prepared
  <2> QED BY <2>1, <2>2 DEF StepOK
<1> QED BY <1>2, <1>3

LEMMA KeptByLocalConfirmation ==
  ASSUME ConfirmInv, LocalConfirmed
  PROVE  StepOK
<1> DEFINE r == serving.request
           f(x) == WithJump(effect, x)
           g == WithLink(effect, "IDLE")
<1>1. ecu = "running" /\ UNCHANGED progConditions
  BY DEF LocalConfirmed
<1>2. CASE UNCHANGED <<levels, effect, stored, serving, ecu>>
  <2>1. UNCHANGED <<session, effect, stored, serving, ecu, progConditions>>
    BY <1>1, <1>2 DEF levels
  <2> QED BY <1>1, <2>1 DEF ConfirmInv, StepOK
<1>3. CASE ~UNCHANGED <<levels, effect, stored, serving, ecu>>
  <2>1. serving.phase = "serving" /\ effect \in Effects /\ Serving(r)
        /\ (effect.startup => progConditions # NoJob)
    BY <1>3 DEF LocalConfirmed, ConfirmInv, Serving
  <2>2. /\ ~effect.change /\ ~effect.com /\ effect.reset # "WAIT_TX_CONF"
        /\ effect.jump # "IDLE" \/ effect.link # "IDLE" => IsFor(progConditions, r)
        /\ effect.jump # "IDLE" => r.sid = "session"
        /\ effect.link # "IDLE" => r.sid = "link"
    BY <2>1 DEF ConfirmInv, EffectOK, ConditionsOK
  <2>3. \/ effect.jump = "WAIT" /\ JumpsNow(f("IDLE"))
        \/ /\ effect.jump = "RESPAPP_WAIT" /\ effect' = f("ASSEMBLE")
           /\ UNCHANGED <<levels, stored, serving, ecu>>
        \/ effect.link = "WAIT" /\ JumpsNow(g)
    BY <1>3 DEF LocalConfirmed, SessionWaits, WithJump, WithLink
  <2>4. CASE effect.jump = "WAIT" /\ JumpsNow(f("IDLE"))
    <3>1. /\ f("IDLE") \in Effects /\ f("IDLE").jump = "IDLE"
          /\ f("IDLE").change = effect.change /\ f("IDLE").link = effect.link
          /\ f("IDLE").reset = effect.reset /\ f("IDLE").com = effect.com
          /\ f("IDLE").silent = effect.silent /\ f("IDLE").dtcOff = effect.dtcOff
          /\ f("IDLE").startup = effect.startup
      BY <2>1, JumpSet
    <3>2. ~effect.change /\ effect.link = "IDLE" /\ effect.reset = "NO_RESET" /\ ~effect.com
      BY <2>1, <2>2, <2>4, OnlyAJump
    <3> HIDE DEF f
    <3>3. Quiet(f("IDLE"))
      BY <3>1, <3>2 DEF Quiet
    <3>4. Prepared(f("IDLE"))
      BY <3>1 DEF Prepared, LastingOK, ConfirmInv
    <3> QED BY <1>1, <2>1, <2>2, <2>4, <3>1, <3>3, <3>4, JumpedNow
  <2>5. CASE effect.link = "WAIT" /\ JumpsNow(g)
    <3>1. /\ g \in Effects /\ g.link = "IDLE" /\ g.jump = effect.jump
          /\ g.change = effect.change /\ g.reset = effect.reset /\ g.com = effect.com
          /\ g.silent = effect.silent /\ g.dtcOff = effect.dtcOff
          /\ g.startup = effect.startup
      BY <2>1, LinkSet
    <3>2. effect.jump = "IDLE" /\ ~effect.change /\ effect.reset = "NO_RESET" /\ ~effect.com
      BY <2>1, <2>2, <2>5, OnlyALink
    <3> HIDE DEF g
    <3>3. Quiet(g)
      BY <3>1, <3>2 DEF Quiet
    <3>4. Prepared(g)
      BY <3>1 DEF Prepared, LastingOK, ConfirmInv
    <3> QED BY <1>1, <2>1, <2>2, <2>5, <3>1, <3>3, <3>4, JumpedNow
  <2>6. CASE /\ effect.jump = "RESPAPP_WAIT" /\ effect' = f("ASSEMBLE")
             /\ UNCHANGED <<levels, stored, serving, ecu>>
    <3>1. /\ effect' \in Effects /\ effect'.jump = "ASSEMBLE"
          /\ effect'.session = effect.session /\ effect'.pdu = effect.pdu
          /\ effect'.change = effect.change /\ effect'.link = effect.link
          /\ effect'.reset = effect.reset /\ effect'.com = effect.com
          /\ effect'.silent = effect.silent /\ effect'.dtcOff = effect.dtcOff
          /\ effect'.startup = effect.startup
      BY <2>1, <2>6, JumpSet
    <3>2. ~effect.change /\ effect.link = "IDLE" /\ effect.reset = "NO_RESET" /\ ~effect.com
          /\ effect.pdu = r.pdu /\ effect.session = r.session /\ r.sid = "session"
      BY <2>1, <2>2, <2>6, OnlyAJump
    <3>3. EffectOK(effect', serving'.phase, serving'.positive, serving'.request)
      BY <2>1, <2>6, <3>1, <3>2 DEF EffectOK
    <3>4. ConditionsOK(effect', serving'.request, progConditions', stored')
      BY <1>1, <2>2, <2>6, <3>1, <3>2 DEF ConditionsOK
    <3>5. Undisturbed => LastingOK(effect', session')
      BY <2>6, <3>1 DEF ConfirmInv, LastingOK, levels
    <3> QED BY <1>1, <2>1, <2>6, <3>1, <3>3, <3>4, <3>5 DEF ConfirmInv, StepOK
  <2> QED BY <2>3, <2>4, <2>5, <2>6
<1> QED BY <1>2, <1>3

(* The session ends: a request that is being served goes on without its     *)
(* jump, one that was answered without its session change.                 *)
LEMMA KeptBySessionReset ==
  ASSUME ConfirmInv, ConfirmSessionReset
  PROVE  StepOK
<1> DEFINE f == SessionEnds(effect, DefaultSession)
<1>1. /\ effect \in Effects /\ effect' = f /\ session' = DefaultSession /\ ecu = "running"
      /\ UNCHANGED <<progConditions, stored, serving, ecu>>
      /\ serving.phase \in ResetPhases \cup {"idle"}
  BY DEF ConfirmSessionReset, ChangesSession, ConfirmInv
<1>2. /\ f \in Effects /\ f.jump = "IDLE" /\ ~f.change /\ ~f.startup
      /\ f.link \in {"IDLE", effect.link} /\ f.reset \in {"NO_RESET", effect.reset}
      /\ f.reset # "NO_RESET" => f.resetPdu = effect.resetPdu
      /\ f.com => effect.com /\ f.comPdu = effect.comPdu /\ f.channels = effect.channels
      /\ ~effect.com => LastingOK(f, DefaultSession)
  BY <1>1, SessionEnded
<1> HIDE DEF f
<1>3. EffectOK(effect, serving.phase, serving.positive, serving.request)
  BY DEF ConfirmInv
<1>4. EffectOK(effect', serving'.phase, serving'.positive, serving'.request)
  BY <1>1, <1>2, <1>3 DEF EffectOK
<1>5. ConditionsOK(effect', serving'.request, progConditions', stored')
  <2>1. f.link # "IDLE" => effect.link = f.link
    BY <1>2
  <2> QED BY <1>1, <1>2, <2>1 DEF ConfirmInv, ConditionsOK
<1>6. Undisturbed => LastingOK(effect', session')
  <2>1. Undisturbed => ~effect.com
    BY <1>1, <1>3 DEF Undisturbed, EffectOK
  <2> QED BY <1>1, <1>2, <2>1
<1> QED BY <1>1, <1>2, <1>4, <1>5, <1>6 DEF ConfirmInv, StepOK

(* Another protocol takes over: it starts in the default session.          *)
LEMMA KeptByPreemption ==
  ASSUME ConfirmInv, ConfirmPreempted
  PROVE  StepOK
<1>1. /\ effect \in Effects /\ session' = DefaultSession /\ ecu = "running"
      /\ UNCHANGED <<progConditions, stored, ecu>>
      /\ progConditions \in Jobs \cup {NoJob} /\ stored \in Jobs \cup {NoJob}
      /\ serving \in Servings
  BY DEF ConfirmPreempted, ProtocolTakesOver, ConfirmInv
<1>2. serving' \in Servings /\ serving'.phase = "idle" /\ (UNCHANGED serving \/ serving' = Idle)
  BY <1>1, IdleServing DEF ConfirmPreempted, Released
<1>3. effect' \in Effects /\ Quiet(effect') /\ ~effect'.startup /\ LastingOK(effect', session')
  <2>1. CASE /\ serving.phase = "idle" /\ UNCHANGED serving
             /\ effect' \in {ResetsActivity(effect, TRUE, session', security'),
                             ResetsActivity(Initialized(effect), TRUE, session', security'),
                             ResetsActivity(effect, FALSE, session', security')}
    <3>1. Quiet(effect)
      BY <2>1, QuietBetween DEF ConfirmInv
    <3>2. PICK e \in {effect, Initialized(effect)}, check \in BOOLEAN :
            effect' = ResetsActivity(e, check, session', security')
      BY <2>1
    <3>3. e \in Effects /\ Quiet(e)
      BY <1>1, <3>1, <3>2, EndedByInit DEF Quiet
    <3>4. /\ effect' \in Effects /\ effect'.jump = "IDLE" /\ ~effect'.change /\ ~effect'.startup
          /\ effect'.link = e.link /\ effect'.reset = e.reset /\ effect'.com = e.com
      BY <3>2, <3>3, EndedByReset
    <3>5. LastingOK(effect', session')
      BY <3>2, <3>3, LastingAfterReset DEF Quiet
    <3> QED BY <3>3, <3>4, <3>5 DEF Quiet
  <2>2. CASE effect' = Initialized(ResetsActivity(effect, FALSE, session', security'))
    <3> DEFINE f(check) == ResetsActivity(effect, check, session', security')
    <3>1. \A check \in BOOLEAN :
            /\ f(check) \in Effects
            /\ f(check).silent = DspStopCommunicationControl(effect, check, session', security')
            /\ f(check).dtcOff = DspEnableDTCSetting(effect, session', security')
      BY <1>1, EndedByReset
    <3>2. effect' = Initialized(f(FALSE))
      BY <2>2
    <3>3. DspStopCommunicationControl(effect, FALSE, session', security') = {}
      BY DEF DspStopCommunicationControl
    <3>4. ~DspEnableDTCSetting(effect, session', security')
      BY <1>1 DEF DspEnableDTCSetting
    <3>5. f(FALSE) \in Effects /\ f(FALSE).silent = {}
      BY <3>1, <3>3
    <3>6. ~f(FALSE).dtcOff
      BY <3>1, <3>4
    <3> HIDE DEF f
    <3>7. /\ effect' \in Effects /\ Quiet(effect') /\ ~effect'.startup /\ ~effect'.com
          /\ effect'.silent = {} /\ ~effect'.dtcOff
      BY <3>2, <3>5, <3>6, EndedByInit DEF Quiet
    <3> QED BY <3>7 DEF LastingOK
  <2> QED BY <2>1, <2>2 DEF ConfirmPreempted
<1> QED BY <1>1, <1>2, <1>3, LeftQuiet DEF StepOK

LEMMA KeptByRestart ==
  ASSUME ConfirmInv, Restart
  PROVE  StepOK
<1>1. /\ session' = DefaultSession /\ effect' = NoEffect /\ progConditions' = NoJob
      /\ stored' = NoJob /\ serving' = Idle /\ ecu' = "starting"
  BY DEF Restart
<1>2. /\ NoEffect \in Effects /\ Idle \in Servings /\ Idle.phase = "idle"
      /\ EffectOK(NoEffect, Idle.phase, Idle.positive, Idle.request)
      /\ LastingOK(NoEffect, DefaultSession)
  BY NothingPrepared, IdleServing
<1>3. ConditionsOK(NoEffect, Idle.request, NoJob, NoJob) /\ ~NoEffect.startup
  BY DEF NoEffect, ConditionsOK
<1> QED BY <1>1, <1>2, <1>3 DEF ConfirmInv, StepOK
-----------------------------------------------------------------------------
LEMMA ConfirmInitHolds == LevelsInit /\ ConfirmInit => ConfirmInv
<1> SUFFICES ASSUME LevelsInit, ConfirmInit PROVE ConfirmInv
  OBVIOUS
<1>1. /\ NoEffect \in Effects /\ Idle \in Servings /\ Idle.phase = "idle"
      /\ EffectOK(NoEffect, Idle.phase, Idle.positive, Idle.request)
      /\ LastingOK(NoEffect, DefaultSession)
  BY NothingPrepared, IdleServing
<1>2. ConditionsOK(NoEffect, Idle.request, NoJob, NoJob) /\ ~NoEffect.startup
  BY DEF NoEffect, ConditionsOK
<1> QED BY <1>1, <1>2 DEF ConfirmInv, LevelsInit, ConfirmInit

(* A jump of a running ECU is that of the request with the services. *)
JumpsForRequest == ecu = "running" /\ ecu' = "jump" => IsFor(stored', serving.request)

LEMMA ConfirmStepHolds ==
  ASSUME NoRefusal, ConfirmInv, [ConfirmNext]_<<levels, confirmVars>>
  PROVE  ConfirmInv' /\ JumpsForRequest
<1>1. CASE UNCHANGED <<levels, confirmVars>>
  BY <1>1 DEF ConfirmInv, JumpsForRequest, levels, confirmVars
<1>2. CASE ConfirmUnlock
  <2>1. UNCHANGED <<session, confirmVars>>
    BY <1>2 DEF ConfirmUnlock, DslInternal_SetSecurityLevel
  <2> QED BY <2>1 DEF ConfirmInv, JumpsForRequest, confirmVars
<1>3. CASE ConfirmNext /\ ~ConfirmUnlock
  <2>1. StepOK
    BY <1>3, KeptAtStart, KeptByStartupResponse, KeptByReception, KeptByServices, KeptByTimeout,
       KeptByConfirmation, KeptByLocalConfirmation, KeptBySessionReset, KeptByPreemption,
       KeptByRestart DEF ConfirmNext
  <2> QED BY <2>1 DEF StepOK, JumpsForRequest
<1> QED BY <1>1, <1>2, <1>3

(* EffectsOfAnswer: a response that was sent is followed by the effect of  *)
(* its own request and of no other, and what lasts can be undone in the    *)
(* session the ECU is in, for any sessions, rows and connections.          *)
THEOREM EffectsBelong ==
  ASSUME NoRefusal, Undisturbed
  PROVE  ConfirmSpec => []EffectsOfAnswer
<1>1. LevelsInit /\ ConfirmInit => ConfirmInv
  BY ConfirmInitHolds
<1>2. ConfirmInv /\ [ConfirmNext]_<<levels, confirmVars>> => ConfirmInv'
  BY ConfirmStepHolds
<1>3. ConfirmInv => EffectsOfAnswer
  BY DEF ConfirmInv, EffectOK, LastingOK, EffectsOfAnswer, Answering
<1> QED BY <1>1, <1>2, <1>3, PTL DEF ConfirmSpec

(* JumpIsPrepared: the ECU jumps to the bootloader with the conditions of  *)
(* the request that is with the services, stored before.                   *)
THEOREM JumpsArePrepared ==
  ASSUME NoRefusal
  PROVE  ConfirmSpec => JumpIsPrepared
<1>1. LevelsInit /\ ConfirmInit => ConfirmInv
  BY ConfirmInitHolds
<1>2. ConfirmInv /\ [ConfirmNext]_<<levels, confirmVars>> => ConfirmInv'
  BY ConfirmStepHolds
<1>3. ConfirmInv /\ [ConfirmNext]_<<levels, confirmVars>>
        => [JumpsForRequest]_<<levels, confirmVars>>
  BY ConfirmStepHolds
<1> HIDE DEF JumpsForRequest
<1>4. ConfirmSpec => [][JumpsForRequest]_<<levels, confirmVars>>
  BY <1>1, <1>2, <1>3, PTL DEF ConfirmSpec
<1>5. [JumpsForRequest]_<<levels, confirmVars>>
        => [ecu = "running" /\ ecu' = "jump"
              => /\ stored'.sid = serving.request.sid
                 /\ stored'.session = serving.request.session
                 /\ stored'.pdu = serving.request.pdu]_<<levels, confirmVars>>
  BY DEF JumpsForRequest, IsFor
<1> QED BY <1>4, <1>5, PTL DEF JumpIsPrepared
=============================================================================
