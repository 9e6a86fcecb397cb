-------------------------- MODULE DemDebounceProofs --------------------------
(* The fault detection counters of counter based events and the timers of  *)
(* time based ones, for any thresholds, steps and jumps.                   *)
EXTENDS DemDebounce, TLAPS

CounterParameters == {CounterEvents[e] : e \in DOMAIN CounterEvents}

LEMMA Parameters ==
  ASSUME NEW c \in CounterParameters
  PROVE  /\ c.failed \in Int /\ c.passed \in Int /\ c.passed < 0 /\ 0 < c.failed
         /\ c.up \in Nat \ {0} /\ c.down \in Nat \ {0}
         /\ c.jumpUp \subseteq Int /\ \A i, j \in c.jumpUp : i = j
         /\ c.jumpDown \subseteq Int /\ \A i, j \in c.jumpDown : i = j
BY DebounceAssumption DEF CounterParameters

-----------------------------------------------------------------------------
(* Scaling: a quotient reaches a whole number when its dividend does.      *)
LEMMA Divided ==
  ASSUME NEW a \in Nat, NEW b \in Nat \ {0}
  PROVE  a \div b \in Int /\ b * (a \div b) <= a /\ a < b * (a \div b) + b
OBVIOUS

LEMMA Product ==
  ASSUME NEW b \in Nat \ {0}, NEW p \in Int, NEW q \in Int
  PROVE  p < q => b * p + b <= b * q
OBVIOUS

LEMMA QuotientEnds ==
  ASSUME NEW b \in Nat \ {0}, NEW x \in Int, PassedFdc * b <= x, x <= FailedFdc * b
  PROVE  /\ Quotient(x, b) = FailedFdc <=> x = FailedFdc * b
         /\ Quotient(x, b) = PassedFdc <=> x = PassedFdc * b
<1>1. CASE x >= 0
  <2> DEFINE q == x \div b
  <2>1. q \in Int /\ b * q <= x /\ x < b * q + b
    BY <1>1, Divided
  <2>2. (q < 0 => b * q + b <= b * 0) /\ (q < 127 => b * q + b <= b * 127)
        /\ (127 < q => b * 127 + b <= b * q)
    BY <2>1, Product
  <2>3. Quotient(x, b) = q
    BY <1>1 DEF Quotient
  <2> HIDE DEF q
  <2> QED BY <1>1, <2>1, <2>2, <2>3 DEF FailedFdc, PassedFdc
<1>2. CASE x < 0
  <2> DEFINE q == (-x) \div b
  <2>1. -x \in Nat
    BY <1>2
  <2>2. q \in Int /\ b * q <= -x /\ -x < b * q + b
    BY <2>1, Divided
  <2>3. (q < 0 => b * q + b <= b * 0) /\ (q < 128 => b * q + b <= b * 128)
        /\ (128 < q => b * 128 + b <= b * q)
    BY <2>2, Product
  <2>4. Quotient(x, b) = -q
    BY <1>2 DEF Quotient
  <2> HIDE DEF q
  <2> QED BY <1>2, <2>2, <2>3, <2>4 DEF FailedFdc, PassedFdc
<1> QED BY <1>1, <1>2

(* The scaled counter is at an end exactly when the counter is.            *)
LEMMA ScaledEnds ==
  ASSUME NEW c \in CounterParameters, NEW n \in c.passed .. c.failed
  PROVE  /\ fdcInternalToUDSFdc(c, n) = FailedFdc <=> n = c.failed
         /\ fdcInternalToUDSFdc(c, n) = PassedFdc <=> n = c.passed
<1> DEFINE range == c.failed - c.passed
           x == (FailedFdc - PassedFdc) * (n - c.passed) + PassedFdc * range
<1>1. c.failed \in Int /\ c.passed \in Int /\ c.passed < c.failed /\ n \in Int
      /\ c.passed <= n /\ n <= c.failed
  BY Parameters
<1>2. range \in Nat \ {0} /\ x \in Int
  BY <1>1 DEF FailedFdc, PassedFdc
<1>3. PassedFdc * range <= x /\ x <= FailedFdc * range
  BY <1>1 DEF FailedFdc, PassedFdc
<1>4. (x = FailedFdc * range <=> n = c.failed) /\ (x = PassedFdc * range <=> n = c.passed)
  BY <1>1 DEF FailedFdc, PassedFdc
<1>5. fdcInternalToUDSFdc(c, n) = Quotient(x, range)
  BY DEF fdcInternalToUDSFdc
<1> HIDE DEF range, x
<1> QED BY <1>2, <1>3, <1>4, <1>5, QuotientEnds

-----------------------------------------------------------------------------
(* Counting: a jump goes up for a failure and down for a pass, and the     *)
(* step after it stops at the threshold.                                   *)
LEMMA CountedWithin ==
  ASSUME NEW c \in CounterParameters, NEW n \in c.passed .. c.failed, NEW report \in Reports
  PROVE  Counted(c, n, report) \in c.passed .. c.failed
<1>1. c.failed \in Int /\ c.passed \in Int /\ c.passed < c.failed /\ n \in Int
      /\ c.up \in Nat /\ c.down \in Nat /\ c.passed <= n /\ n <= c.failed
  BY Parameters
<1>2. JumpedUp(c, n) \in Int /\ n <= JumpedUp(c, n)
  <2>1. CASE c.jumpUp = {}
    BY <1>1, <2>1 DEF JumpedUp
  <2>2. CASE c.jumpUp # {}
    <3>1. (CHOOSE k \in c.jumpUp : TRUE) \in c.jumpUp
      BY <2>2
    <3> QED BY <1>1, <3>1, Parameters DEF JumpedUp
  <2> QED BY <2>1, <2>2
<1>3. JumpedDown(c, n) \in Int /\ JumpedDown(c, n) <= n
  <2>1. CASE c.jumpDown = {}
    BY <1>1, <2>1 DEF JumpedDown
  <2>2. CASE c.jumpDown # {}
    <3>1. (CHOOSE k \in c.jumpDown : TRUE) \in c.jumpDown
      BY <2>2
    <3> QED BY <1>1, <3>1, Parameters DEF JumpedDown
  <2> QED BY <2>1, <2>2
<1>4. CountUp(c, n) \in c.passed .. c.failed
  <2> DEFINE k == JumpedUp(c, n)
  <2>1. CountUp(c, n) = IF n >= c.failed THEN n ELSE IF k + c.up < c.failed THEN k + c.up ELSE c.failed
    BY DEF CountUp
  <2> HIDE DEF k
  <2> QED BY <1>1, <1>2, <2>1 DEF k
<1>5. CountDown(c, n) \in c.passed .. c.failed
  <2> DEFINE k == JumpedDown(c, n)
  <2>1. CountDown(c, n) = IF n <= c.passed THEN n ELSE IF k - c.down > c.passed THEN k - c.down ELSE c.passed
    BY DEF CountDown
  <2> HIDE DEF k
  <2> QED BY <1>1, <1>3, <2>1 DEF k
<1>6. CASE report = "PREFAILED"
  BY <1>4, <1>6 DEF Counted
<1>7. CASE report = "PREPASSED"
  BY <1>5, <1>7 DEF Counted
<1>8. CASE report = "FAILED"
  BY <1>1, <1>8 DEF Counted
<1>9. CASE report = "PASSED"
  BY <1>1, <1>9 DEF Counted
<1> QED BY <1>6, <1>7, <1>8, <1>9 DEF Reports

-----------------------------------------------------------------------------
(* The counter, what the tester reads of it and the result go together.    *)
Agrees(c, n, f, v) ==
  /\ n \in c.passed .. c.failed
  /\ f = fdcInternalToUDSFdc(c, n)
  /\ n = c.failed => v = "FAILED"
  /\ n = c.passed => v = "PASSED"

CounterInv ==
  /\ DOMAIN fdcInternal = DOMAIN CounterEvents
  /\ DOMAIN fdc = DebouncedEvents
  /\ DOMAIN verdict = DebouncedEvents
  /\ \A e \in DOMAIN CounterEvents : Agrees(CounterEvents[e], fdcInternal[e], fdc[e], verdict[e])

LEMMA AgreesAtZero ==
  ASSUME NEW c \in CounterParameters, NEW v
  PROVE  Agrees(c, 0, fdcInternalToUDSFdc(c, 0), v)
<1>1. 0 \in c.passed .. c.failed /\ 0 # c.failed /\ 0 # c.passed
  BY Parameters
<1> QED BY <1>1 DEF Agrees

LEMMA AgreesWhenCounted ==
  ASSUME NEW c \in CounterParameters, NEW n \in c.passed .. c.failed,
         NEW e, NEW report
  PROVE  Agrees(c, n, fdcInternalToUDSFdc(c, n), VerdictAfter(e, ReachedBy(c, n, report)))
<1>1. ASSUME n = c.failed
      PROVE  VerdictAfter(e, ReachedBy(c, n, report)) = "FAILED"
  <2>1. n >= c.failed /\ ~(n <= c.passed)
    BY <1>1, Parameters
  <2>2. ReachedBy(c, n, report) = "FAILED"
    BY <2>1, Zenon DEF ReachedBy
  <2> QED BY <2>2 DEF VerdictAfter
<1>2. ASSUME n = c.passed
      PROVE  VerdictAfter(e, ReachedBy(c, n, report)) = "PASSED"
  <2>1. ~(n >= c.failed) /\ n <= c.passed
    BY <1>2, Parameters
  <2>2. ReachedBy(c, n, report) = "PASSED"
    BY <2>1, Zenon DEF ReachedBy
  <2> QED BY <2>2 DEF VerdictAfter
<1> QED BY <1>1, <1>2 DEF Agrees

LEMMA CounterParameter ==
  ASSUME NEW e \in DOMAIN CounterEvents
  PROVE  CounterEvents[e] \in CounterParameters /\ e \in DebouncedEvents
BY DEF CounterParameters, DebouncedEvents

-----------------------------------------------------------------------------
(* One lemma per action: the steps that keep CounterInv.                   *)
LEMMA InitAgrees == DebounceInit => CounterInv
<1> SUFFICES ASSUME DebounceInit PROVE CounterInv
  OBVIOUS
<1>1. ASSUME NEW e \in DOMAIN CounterEvents
      PROVE  Agrees(CounterEvents[e], fdcInternal[e], fdc[e], verdict[e])
  <2>1. fdcInternal[e] = 0 /\ fdc[e] = fdcInternalToUDSFdc(CounterEvents[e], 0)
    BY CounterParameter DEF DebounceInit, getDefaultUDSFdc
  <2> QED BY <2>1, CounterParameter, AgreesAtZero
<1> QED BY <1>1 DEF DebounceInit, CounterInv

LEMMA CounterReportAgrees ==
  ASSUME CounterInv, NEW d \in DOMAIN CounterEvents, NEW report \in Reports,
         preDebounceCounterBased(d, report)
  PROVE  CounterInv'
<1> DEFINE n == Counted(CounterEvents[d], fdcInternal[d], report)
           v == VerdictAfter(d, ReachedBy(CounterEvents[d], n, report))
<1>1. fdcInternal[d] \in CounterEvents[d].passed .. CounterEvents[d].failed
  BY DEF CounterInv, Agrees
<1>2. n \in CounterEvents[d].passed .. CounterEvents[d].failed
  BY <1>1, CounterParameter, CountedWithin
<1>3. Agrees(CounterEvents[d], n, fdcInternalToUDSFdc(CounterEvents[d], n), v)
  BY <1>2, CounterParameter, AgreesWhenCounted
<1>4. /\ fdcInternal' = [fdcInternal EXCEPT ![d] = n]
      /\ fdc' = [fdc EXCEPT ![d] = fdcInternalToUDSFdc(CounterEvents[d], n)]
      /\ verdict' = [verdict EXCEPT ![d] = v]
  BY Zenon DEF preDebounceCounterBased
<1> HIDE DEF n, v
<1>5. ASSUME NEW e \in DOMAIN CounterEvents
      PROVE  Agrees(CounterEvents[e], fdcInternal'[e], fdc'[e], verdict'[e])
  <2>1. e \in DOMAIN fdcInternal /\ e \in DOMAIN fdc /\ e \in DOMAIN verdict
    BY CounterParameter DEF CounterInv
  <2>2. CASE e = d
    <3>1. fdcInternal'[e] = n /\ verdict'[e] = v
          /\ fdc'[e] = fdcInternalToUDSFdc(CounterEvents[d], n)
      BY <1>4, <2>1, <2>2
    <3> QED BY <1>3, <2>2, <3>1, Zenon
  <2>3. CASE e # d
    <3>1. fdcInternal'[e] = fdcInternal[e] /\ fdc'[e] = fdc[e] /\ verdict'[e] = verdict[e]
      BY <1>4, <2>1, <2>3
    <3> QED BY <3>1, Zenon DEF CounterInv
  <2> QED BY <2>2, <2>3
<1>6. DOMAIN fdcInternal' = DOMAIN fdcInternal /\ DOMAIN fdc' = DOMAIN fdc
      /\ DOMAIN verdict' = DOMAIN verdict
  BY <1>4
<1> QED BY <1>5, <1>6 DEF CounterInv

(* What the timer events do leaves the counter events as they are.         *)
LEMMA Untouched ==
  ASSUME CounterInv, UNCHANGED fdcInternal,
         DOMAIN fdc' = DebouncedEvents, DOMAIN verdict' = DebouncedEvents,
         \A e \in DOMAIN CounterEvents : fdc'[e] = fdc[e] /\ verdict'[e] = verdict[e]
  PROVE  CounterInv'
<1>1. ASSUME NEW e \in DOMAIN CounterEvents
      PROVE  Agrees(CounterEvents[e], fdcInternal'[e], fdc'[e], verdict'[e])
  BY Zenon DEF CounterInv
<1> QED BY <1>1 DEF CounterInv

LEMMA NotTimed ==
  ASSUME NEW e \in DOMAIN CounterEvents
  PROVE  e \notin DOMAIN TimerEvents
BY DebounceAssumption

LEMMA TimerReportAgrees ==
  ASSUME CounterInv, NEW d \in DOMAIN TimerEvents, NEW report \in Reports,
         preDebounceTimeBased(d, report)
  PROVE  CounterInv'
<1>1. PICK v : verdict' = [verdict EXCEPT ![d] = v]
  BY Zenon DEF preDebounceTimeBased
<1>2. UNCHANGED <<fdcInternal, fdc>>
  BY DEF preDebounceTimeBased
<1>3. ASSUME NEW e \in DOMAIN CounterEvents
      PROVE  verdict'[e] = verdict[e]
  BY <1>1, NotTimed, CounterParameter DEF CounterInv
<1> QED BY <1>1, <1>2, <1>3, Untouched DEF CounterInv

LEMMA MainFunctionAgrees ==
  ASSUME CounterInv, TimeBasedDebounceMainFunction
  PROVE  CounterInv'
<1>1. UNCHANGED fdcInternal /\ DOMAIN fdc' = DebouncedEvents /\ DOMAIN verdict' = DebouncedEvents
  BY DEF TimeBasedDebounceMainFunction
<1>2. ASSUME NEW e \in DOMAIN CounterEvents
      PROVE  fdc'[e] = fdc[e] /\ verdict'[e] = verdict[e]
  BY NotTimed, CounterParameter DEF TimeBasedDebounceMainFunction
<1> QED BY <1>1, <1>2, Untouched

(* A reset leaves a counter at zero, which belongs to no result.           *)
LEMMA ResetAgrees ==
  ASSUME CounterInv, NEW reset, resetDebounceCounter(reset),
         DOMAIN verdict' = DebouncedEvents,
         \A e \in DOMAIN CounterEvents : e \notin reset => verdict'[e] = verdict[e]
  PROVE  CounterInv'
<1>1. ASSUME NEW e \in DOMAIN CounterEvents
      PROVE  Agrees(CounterEvents[e], fdcInternal'[e], fdc'[e], verdict'[e])
  <2>1. CASE e \in reset
    <3>1. fdcInternal'[e] = 0 /\ fdc'[e] = fdcInternalToUDSFdc(CounterEvents[e], 0)
      BY <2>1, CounterParameter DEF resetDebounceCounter, getDefaultUDSFdc
    <3> QED BY <3>1, CounterParameter, AgreesAtZero
  <2>2. CASE e \notin reset
    <3>1. fdcInternal'[e] = fdcInternal[e] /\ fdc'[e] = fdc[e] /\ verdict'[e] = verdict[e]
      BY <2>2, CounterParameter DEF resetDebounceCounter
    <3> QED BY <3>1, Zenon DEF CounterInv
  <2> QED BY <2>1, <2>2
<1>2. DOMAIN fdcInternal' = DOMAIN CounterEvents /\ DOMAIN fdc' = DebouncedEvents
  BY DEF resetDebounceCounter
<1> QED BY <1>1, <1>2 DEF CounterInv

-----------------------------------------------------------------------------
LEMMA NextAgrees == CounterInv /\ [DebounceNext]_debounceVars => CounterInv'
<1> SUFFICES ASSUME CounterInv, [DebounceNext]_debounceVars PROVE CounterInv'
  OBVIOUS
<1>1. CASE ReportEvent
  BY <1>1, CounterReportAgrees, TimerReportAgrees DEF ReportEvent
<1>2. CASE TimeBasedDebounceMainFunction
  BY <1>2, MainFunctionAgrees
<1>3. CASE DebounceCycleStarts
  <2>1. resetDebounceCounter(DebouncedEvents) /\ UNCHANGED verdict
    BY <1>3 DEF DebounceCycleStarts
  <2> QED BY <2>1, ResetAgrees DEF CounterInv
<1>4. CASE DebounceReset
  <2>1. PICK d \in DebouncedEvents :
             resetDebounceCounter({d}) /\ verdict' = [verdict EXCEPT ![d] = "NONE"]
    BY <1>4 DEF DebounceReset
  <2>2. ASSUME NEW e \in DOMAIN CounterEvents, e \notin {d}
        PROVE  verdict'[e] = verdict[e]
    BY <2>1, <2>2, CounterParameter DEF CounterInv
  <2> QED BY <2>1, <2>2, ResetAgrees DEF CounterInv
<1>5. CASE DebounceCycleEnds \/ DtcSettingChanges \/ UNCHANGED debounceVars
  <2>1. UNCHANGED <<fdcInternal, fdc, verdict>>
    BY <1>5 DEF DebounceCycleEnds, DtcSettingChanges, debounceVars
  <2> QED BY <2>1, Untouched DEF CounterInv
<1> QED BY <1>1, <1>2, <1>3, <1>4, <1>5 DEF DebounceNext

LEMMA AgreementTells == CounterInv => FdcTellsVerdict
<1> SUFFICES ASSUME CounterInv, NEW e \in DOMAIN CounterEvents
             PROVE  /\ (fdc[e] = FailedFdc) <=> (fdcInternal[e] = CounterEvents[e].failed)
                    /\ (fdc[e] = PassedFdc) <=> (fdcInternal[e] = CounterEvents[e].passed)
                    /\ fdc[e] = FailedFdc => verdict[e] = "FAILED"
                    /\ fdc[e] = PassedFdc => verdict[e] = "PASSED"
  BY DEF FdcTellsVerdict
<1>1. Agrees(CounterEvents[e], fdcInternal[e], fdc[e], verdict[e])
  BY DEF CounterInv
<1> QED BY <1>1, CounterParameter, ScaledEnds DEF Agrees

(* For any thresholds, steps and jumps, and reports, main functions and    *)
(* resets in any order: the scaled counter a tester reads is at an end of  *)
(* its byte exactly when the event has the result of that end.             *)
THEOREM FdcTellsResult == DebounceSpec => []FdcTellsVerdict
<1>1. DebounceInit => CounterInv
  BY InitAgrees
<1>2. CounterInv /\ [DebounceNext]_debounceVars => CounterInv'
  BY NextAgrees
<1>3. CounterInv => FdcTellsVerdict
  BY AgreementTells
<1> QED BY <1>1, <1>2, <1>3, PTL DEF DebounceSpec

-----------------------------------------------------------------------------
(* The timers.  A timer that runs has counted no more main functions than  *)
(* the reports have pointed its way; or a final report ended it at once,   *)
(* and then the event has its result already.                              *)
Result(failing) == IF failing THEN "FAILED" ELSE "PASSED"
Timers == [started : BOOLEAN, failing : BOOLEAN, time : 0 .. MaxSteady, fresh : BOOLEAN]
Timed(e, t, v, s) ==
  /\ t \in Timers /\ s \in 0 .. MaxSteady
  /\ t.started => \/ t.time <= s
                  \/ ~t.fresh /\ t.time >= Threshold(e, t.failing) /\ v = Result(t.failing)
TimerInv ==
  /\ DOMAIN debounceTimer = DOMAIN TimerEvents /\ DOMAIN steady = DOMAIN TimerEvents
  /\ DOMAIN verdict = DebouncedEvents
  /\ \A e \in DOMAIN TimerEvents : Timed(e, debounceTimer[e], verdict[e], steady[e])

LEMMA TimeBound == MaxSteady \in Nat /\ 0 \in 0 .. MaxSteady
BY DebounceAssumption

LEMMA TimeLimits ==
  ASSUME NEW e \in DOMAIN TimerEvents, NEW failing \in BOOLEAN
  PROVE  Threshold(e, failing) \in 0 .. MaxSteady /\ MaxSteady \in Nat /\ e \in DebouncedEvents
BY DebounceAssumption DEF Threshold, Larger, DebouncedEvents

(* A timer that is started anew starts at nothing, or has its result.      *)
LEMMA StartedTimed ==
  ASSUME NEW e \in DOMAIN TimerEvents, NEW t \in Timers, NEW report \in Reports,
         NEW v, NEW s \in 0 .. MaxSteady, AtOnce(e, report) => v = FinalStatus(report)
  PROVE  Timed(e, TimerStarted(e, t, report), v, s)
<1>1. Fails(report) \in BOOLEAN /\ AtOnce(e, report) \in BOOLEAN
  BY DEF Fails, AtOnce
<1>2. Threshold(e, Fails(report)) \in 0 .. MaxSteady /\ MaxSteady \in Nat
  BY <1>1, TimeLimits
<1>3. CASE AtOnce(e, report)
  <2> DEFINE f == Fails(report)
             limit == Threshold(e, f)
  <2>1. TimerStarted(e, t, report)
          = [started |-> TRUE, failing |-> f, fresh |-> FALSE, time |-> limit]
    BY <1>3 DEF TimerStarted
  <2>2. v = Result(f) /\ limit = Threshold(e, f)
    BY <1>3 DEF FinalStatus, Result
  <2> HIDE DEF f, limit
  <2> DEFINE r == [started |-> TRUE, failing |-> f, fresh |-> FALSE, time |-> limit]
  <2>3. r.failing = f /\ r.time = limit /\ ~r.fresh
    OBVIOUS
  <2>4. r \in Timers
    BY <1>1, <1>2 DEF Timers, f, limit
  <2>5. limit >= Threshold(e, f)
    BY <1>2 DEF limit, f
  <2> HIDE DEF r
  <2> QED BY <2>1, <2>2, <2>3, <2>4, <2>5 DEF Timed, r
<1>4. CASE ~AtOnce(e, report)
  BY <1>1, <1>2, <1>4 DEF Timed, Timers, TimerStarted
<1> QED BY <1>3, <1>4

(* A report in the direction of a timer that runs can only bring the       *)
(* result of that direction.                                               *)
LEMMA ReportTimed ==
  ASSUME TimerInv, NEW d \in DOMAIN TimerEvents, NEW report \in Reports,
         preDebounceTimeBased(d, report)
  PROVE  TimerInv'
<1> DEFINE t == debounceTimer[d]
           starts == StartsTimer(t, Fails(report))
           r == IF starts THEN TimerStarted(d, t, report) ELSE t
           reached == IF starts /\ AtOnce(d, report) THEN FinalStatus(report) ELSE report
           v == VerdictAfter(d, reached)
           s == IF t.failing # Fails(report) THEN 0 ELSE steady[d]
<1>1. Timed(d, t, verdict[d], steady[d]) /\ MaxSteady \in Nat
  BY DebounceAssumption DEF TimerInv
<1>2. /\ debounceTimer' = [debounceTimer EXCEPT ![d] = r]
      /\ verdict' = [verdict EXCEPT ![d] = v]
      /\ steady' = [steady EXCEPT ![d] = s]
  BY DEF preDebounceTimeBased
<1>3. s \in 0 .. MaxSteady /\ t \in Timers
  BY <1>1 DEF Timed
<1>4. Timed(d, r, v, s)
  <2>1. CASE starts
    <3>1. AtOnce(d, report) => v = FinalStatus(report)
      BY <2>1 DEF VerdictAfter, FinalStatus
    <3> QED BY <1>3, <2>1, <3>1, StartedTimed
  <2>2. CASE ~starts
    <3>1. t.started /\ t.failing = Fails(report)
      BY <2>2 DEF StartsTimer
    <3>2. r = t /\ s = steady[d]
      BY <2>2, <3>1
    <3>3. v = verdict[d] \/ v = Result(t.failing)
      BY <2>2, <3>1 DEF VerdictAfter, Result, Fails, Reports
    <3> HIDE DEF v
    <3> QED BY <1>1, <3>2, <3>3 DEF Timed
  <2> QED BY <2>1, <2>2
<1> HIDE DEF r, v, s
<1>5. ASSUME NEW e \in DOMAIN TimerEvents
      PROVE  Timed(e, debounceTimer'[e], verdict'[e], steady'[e])
  <2>1. e \in DOMAIN debounceTimer /\ e \in DOMAIN steady /\ e \in DOMAIN verdict
    BY DEF TimerInv, DebouncedEvents
  <2>2. CASE e = d
    <3>1. debounceTimer'[e] = r /\ verdict'[e] = v /\ steady'[e] = s
      BY <1>2, <2>1, <2>2
    <3> QED BY <1>4, <2>2, <3>1
  <2>3. CASE e # d
    <3>1. debounceTimer'[e] = debounceTimer[e] /\ verdict'[e] = verdict[e]
          /\ steady'[e] = steady[e]
      BY <1>2, <2>1, <2>3
    <3> QED BY <3>1 DEF TimerInv
  <2> QED BY <2>2, <2>3
<1> QED BY <1>2, <1>5 DEF TimerInv

(* One main function: the time of a timer and the count of main functions  *)
(* go up together.                                                         *)
LEMMA Ticked ==
  ASSUME NEW e \in DOMAIN TimerEvents, NEW t, NEW v, NEW s, Timed(e, t, v, s), t.started
  PROVE  LET n == IF s < MaxSteady THEN s + 1 ELSE MaxSteady
         IN /\ Tick(e, t) \in Timers /\ n \in 0 .. MaxSteady
            /\ Tick(e, t).failing = t.failing /\ Tick(e, t).started
            /\ \/ Tick(e, t).time <= n
               \/ /\ Tick(e, t) = t /\ ~t.fresh
                  /\ t.time >= Threshold(e, t.failing) /\ v = Result(t.failing)
<1>1. t \in Timers /\ s \in 0 .. MaxSteady
  BY DEF Timed
<1>2. Threshold(e, t.failing) \in 0 .. MaxSteady /\ MaxSteady \in Nat
  BY <1>1, TimeLimits DEF Timers
<1>3. CASE t.fresh
  <2>1. Tick(e, t) = [t EXCEPT !.fresh = FALSE]
    BY <1>3 DEF Tick
  <2> DEFINE r == [t EXCEPT !.fresh = FALSE]
             n == IF s < MaxSteady THEN s + 1 ELSE MaxSteady
  <2>2. r \in Timers
    BY <1>1 DEF Timers
  <2>3. r.started = t.started /\ r.failing = t.failing /\ r.time = t.time
    BY <1>1 DEF Timers
  <2>4. t.time <= s /\ t.time \in 0 .. MaxSteady
    BY <1>1, <1>3 DEF Timed, Timers
  <2>5. n \in 0 .. MaxSteady /\ t.time <= n
    BY <1>1, <1>2, <2>4
  <2> HIDE DEF r, n
  <2> QED BY <2>1, <2>2, <2>3, <2>5 DEF r, n
<1>4. CASE ~t.fresh /\ t.time < Threshold(e, t.failing)
  BY <1>1, <1>2, <1>4 DEF Tick, Timers, Timed
<1>5. CASE ~t.fresh /\ ~(t.time < Threshold(e, t.failing))
  BY <1>1, <1>2, <1>5 DEF Tick, Timers, Timed
<1> QED BY <1>3, <1>4, <1>5

(* A reset timer does not run. *)
LEMMA TimersReset ==
  ASSUME NEW t \in Timers
  PROVE  [t EXCEPT !.started = FALSE, !.time = 0] \in Timers
         /\ ~[t EXCEPT !.started = FALSE, !.time = 0].started
<1>1. 0 \in 0 .. MaxSteady
  BY TimeBound
<1> QED BY <1>1 DEF Timers

(* What a main function does to one event: its result is that of a timer   *)
(* whose time the reports have lasted.                                     *)
LEMMA MainFunctionOfOne ==
  ASSUME TimerInv, TimeBasedDebounceMainFunction, NEW e \in DOMAIN TimerEvents
  PROVE  /\ Timed(e, debounceTimer'[e], verdict'[e], steady'[e])
         /\ verdict'[e] # verdict[e] => steady'[e] >= Threshold(e, verdict'[e] = "FAILED")
<1> DEFINE t == debounceTimer[e]
           n == IF steady[e] < MaxSteady THEN steady[e] + 1 ELSE MaxSteady
           over == allowed /\ debounceTimer'[e].started /\ TimeIsOver(e, t, debounceTimer'[e])
<1>1. Timed(e, t, verdict[e], steady[e]) /\ MaxSteady \in Nat /\ e \in DebouncedEvents
  BY TimeLimits DEF TimerInv
<1>2. /\ debounceTimer'[e] = AfterMain(e)
      /\ steady'[e] = n
      /\ verdict'[e] = IF over THEN Result(t.failing) ELSE verdict[e]
  BY <1>1 DEF TimeBasedDebounceMainFunction, Result
<1>3. t \in Timers /\ steady[e] \in 0 .. MaxSteady /\ n \in 0 .. MaxSteady
  BY <1>1 DEF Timed
<1>4. CASE cycleStarted /\ t.started
  <2>1. debounceTimer'[e] = Tick(e, t)
    BY <1>2, <1>4 DEF AfterMain
  <2>2. /\ Tick(e, t) \in Timers /\ Tick(e, t).failing = t.failing /\ Tick(e, t).started
        /\ \/ Tick(e, t).time <= n
           \/ /\ Tick(e, t) = t /\ ~t.fresh
              /\ t.time >= Threshold(e, t.failing) /\ verdict[e] = Result(t.failing)
    BY <1>1, <1>4, Ticked
  <2>3. verdict'[e] = verdict[e] \/ (verdict'[e] = Result(t.failing) /\ over)
    BY <1>2
  <2>4. (Result(t.failing) = "FAILED") = t.failing
    BY <1>3 DEF Result, Timers
  <2>5. Threshold(e, t.failing) \in 0 .. MaxSteady
    BY <1>3, TimeLimits DEF Timers
  <2>6. over => Tick(e, t).time >= Threshold(e, t.failing)
    BY <2>1 DEF TimeIsOver
  <2> HIDE DEF over, n, t
  <2>7. Timed(e, Tick(e, t), verdict'[e], n)
    BY <1>3, <2>2, <2>3 DEF Timed
  <2>8. ASSUME verdict'[e] # verdict[e] PROVE n >= Threshold(e, verdict'[e] = "FAILED")
    <3>1. verdict'[e] = Result(t.failing) /\ over
      BY <2>3, <2>8
    <3>2. Tick(e, t).time <= n
      BY <2>2, <2>8, <3>1
    <3>3. Threshold(e, verdict'[e] = "FAILED") = Threshold(e, t.failing)
      BY <2>4, <3>1
    <3>4. Tick(e, t).time \in Int /\ n \in Int
      BY <1>3, <2>2 DEF Timers
    <3> QED BY <2>5, <2>6, <3>1, <3>2, <3>3, <3>4
  <2> QED BY <1>2, <2>1, <2>7, <2>8
<1>5. CASE ~(cycleStarted /\ t.started)
  <2>1. debounceTimer'[e] = [t EXCEPT !.started = @ /\ cycleStarted]
    BY <1>2, <1>5 DEF AfterMain
  <2>2. debounceTimer'[e] \in Timers /\ ~debounceTimer'[e].started
    BY <1>3, <1>5, <2>1 DEF Timers
  <2> QED BY <1>2, <1>3, <2>2 DEF Timed
<1> QED BY <1>4, <1>5

LEMMA MainFunctionTimed ==
  ASSUME TimerInv, TimeBasedDebounceMainFunction
  PROVE  TimerInv'
<1>1. \A e \in DOMAIN TimerEvents : Timed(e, debounceTimer'[e], verdict'[e], steady'[e])
  BY MainFunctionOfOne
<1>2. DOMAIN debounceTimer' = DOMAIN TimerEvents /\ DOMAIN steady' = DOMAIN TimerEvents
      /\ DOMAIN verdict' = DebouncedEvents
  BY DEF TimeBasedDebounceMainFunction
<1> QED BY <1>1, <1>2 DEF TimerInv

LEMMA ResetTimed ==
  ASSUME TimerInv, NEW reset, resetDebounceCounter(reset), UNCHANGED steady,
         DOMAIN verdict' = DebouncedEvents,
         \A e \in DOMAIN TimerEvents : e \notin reset => verdict'[e] = verdict[e]
  PROVE  TimerInv'
<1>1. ASSUME NEW e \in DOMAIN TimerEvents
      PROVE  Timed(e, debounceTimer'[e], verdict'[e], steady'[e])
  <2>1. Timed(e, debounceTimer[e], verdict[e], steady[e])
    BY DEF TimerInv
  <2>2. CASE e \in reset
    <3>1. debounceTimer'[e] = [debounceTimer[e] EXCEPT !.started = FALSE, !.time = 0]
      BY <2>2 DEF resetDebounceCounter
    <3>2. debounceTimer'[e] \in Timers /\ ~debounceTimer'[e].started
      BY <2>1, <3>1, TimersReset DEF Timed
    <3> QED BY <2>1, <3>2 DEF Timed
  <2>3. CASE e \notin reset
    <3>1. debounceTimer'[e] = debounceTimer[e]
      BY <2>3 DEF resetDebounceCounter
    <3> QED BY <2>1, <2>3, <3>1
  <2> QED BY <2>2, <2>3
<1>2. DOMAIN debounceTimer' = DOMAIN TimerEvents
  BY DEF resetDebounceCounter
<1> QED BY <1>1, <1>2 DEF TimerInv

LEMMA InitTimed == DebounceInit => TimerInv
<1> SUFFICES ASSUME DebounceInit PROVE TimerInv
  OBVIOUS
<1>1. NewTimer \in Timers /\ ~NewTimer.started /\ 0 \in 0 .. MaxSteady
  BY DebounceAssumption DEF NewTimer, Timers
<1> QED BY <1>1 DEF DebounceInit, TimerInv, Timed

LEMMA NextTimed == TimerInv /\ [DebounceNext]_debounceVars => TimerInv'
<1> SUFFICES ASSUME TimerInv, [DebounceNext]_debounceVars PROVE TimerInv'
  OBVIOUS
<1>1. ASSUME NEW report \in Reports, NEW d \in DOMAIN CounterEvents,
             preDebounceCounterBased(d, report)
      PROVE  TimerInv'
  <2>1. UNCHANGED <<debounceTimer, steady>>
    BY <1>1 DEF preDebounceCounterBased
  <2>2. PICK v : verdict' = [verdict EXCEPT ![d] = v]
    BY <1>1, Zenon DEF preDebounceCounterBased
  <2>3. \A e \in DOMAIN TimerEvents : verdict'[e] = verdict[e]
    BY <2>2, NotTimed, TimeLimits DEF TimerInv
  <2> QED BY <2>1, <2>2, <2>3 DEF TimerInv
<1>2. CASE ReportEvent
  BY <1>1, <1>2, ReportTimed DEF ReportEvent
<1>3. CASE TimeBasedDebounceMainFunction
  BY <1>3, MainFunctionTimed
<1>4. CASE DebounceCycleStarts
  <2>1. resetDebounceCounter(DebouncedEvents) /\ UNCHANGED <<verdict, steady>>
    BY <1>4 DEF DebounceCycleStarts
  <2> QED BY <2>1, ResetTimed DEF TimerInv
<1>5. CASE DebounceReset
  <2>1. PICK d \in DebouncedEvents :
             resetDebounceCounter({d}) /\ verdict' = [verdict EXCEPT ![d] = "NONE"]
    BY <1>5 DEF DebounceReset
  <2>2. ASSUME NEW e \in DOMAIN TimerEvents, e \notin {d}
        PROVE  verdict'[e] = verdict[e]
    BY <2>1, <2>2 DEF TimerInv, DebouncedEvents
  <2>3. UNCHANGED steady
    BY <1>5 DEF DebounceReset
  <2> QED BY <2>1, <2>2, <2>3, ResetTimed DEF TimerInv
<1>6. CASE DebounceCycleEnds \/ DtcSettingChanges \/ UNCHANGED debounceVars
  <2>1. UNCHANGED <<debounceTimer, steady, verdict>>
    BY <1>6 DEF DebounceCycleEnds, DtcSettingChanges, debounceVars
  <2> QED BY <2>1 DEF TimerInv
<1> QED BY <1>2, <1>3, <1>4, <1>5, <1>6 DEF DebounceNext

(* For any thresholds, however reports change their direction, cycles end  *)
(* and start and resets come in between: a main function gives an event a  *)
(* result only after the reports have pointed its way for as long as the   *)
(* threshold of that direction says.                                       *)
THEOREM TimerWaits == DebounceSpec => NotBeforeTheThreshold
<1> DEFINE Waited == \A e \in DOMAIN TimerEvents :
             verdict'[e] # verdict[e] /\ TimeBasedDebounceMainFunction
               => steady'[e] >= Threshold(e, verdict'[e] = "FAILED")
<1>1. DebounceInit => TimerInv
  BY InitTimed
<1>2. TimerInv /\ [DebounceNext]_debounceVars => TimerInv'
  BY NextTimed
<1>3. TimerInv => Waited
  BY MainFunctionOfOne
<1>4. TimerInv /\ [DebounceNext]_debounceVars => [Waited]_debounceVars
  BY <1>3
<1> HIDE DEF Waited
<1>5. DebounceSpec => [][Waited]_debounceVars
  BY <1>1, <1>2, <1>4, PTL DEF DebounceSpec
<1> QED BY <1>5 DEF NotBeforeTheThreshold, Waited

-----------------------------------------------------------------------------
(* The byte a tester reads.  The code computes the fault detection counter *)
(* with 32 bits and stores it in a sint8: nothing is cut off.              *)
Fdc == PassedFdc .. FailedFdc
ByteOK(f, m) == f \in Fdc /\ m \in Fdc /\ f <= m
FdcInv ==
  /\ cycleStarted \in BOOLEAN /\ allowed \in BOOLEAN
  /\ DOMAIN fdc = DebouncedEvents /\ DOMAIN maxFdc = DebouncedEvents
  /\ \A e \in DebouncedEvents : ByteOK(fdc[e], maxFdc[e])

LEMMA QuotientWithin ==
  ASSUME NEW b \in Nat \ {0}, NEW x \in Int, PassedFdc * b <= x, x <= FailedFdc * b
  PROVE  Quotient(x, b) \in Fdc
<1>1. CASE x >= 0
  <2> DEFINE q == x \div b
  <2>1. q \in Int /\ b * q <= x /\ x < b * q + b
    BY <1>1, Divided
  <2>2. (q < 0 => b * q + b <= b * 0) /\ (127 < q => b * 127 + b <= b * q)
    BY <2>1, Product
  <2>3. Quotient(x, b) = q
    BY <1>1 DEF Quotient
  <2> HIDE DEF q
  <2> QED BY <1>1, <2>1, <2>2, <2>3 DEF FailedFdc, PassedFdc, Fdc
<1>2. CASE x < 0
  <2> DEFINE q == (-x) \div b
  <2>1. -x \in Nat
    BY <1>2
  <2>2. q \in Int /\ b * q <= -x /\ -x < b * q + b
    BY <2>1, Divided
  <2>3. (q < 0 => b * q + b <= b * 0) /\ (128 < q => b * 128 + b <= b * q)
    BY <2>2, Product
  <2>4. Quotient(x, b) = -q
    BY <1>2 DEF Quotient
  <2> HIDE DEF q
  <2> QED BY <1>2, <2>2, <2>3, <2>4 DEF FailedFdc, PassedFdc, Fdc
<1> QED BY <1>1, <1>2

LEMMA ScaledWithin ==
  ASSUME NEW c \in CounterParameters, NEW n \in c.passed .. c.failed
  PROVE  fdcInternalToUDSFdc(c, n) \in Fdc
<1> DEFINE range == c.failed - c.passed
           x == (FailedFdc - PassedFdc) * (n - c.passed) + PassedFdc * range
<1>1. c.failed \in Int /\ c.passed \in Int /\ c.passed < c.failed /\ n \in Int
      /\ c.passed <= n /\ n <= c.failed
  BY Parameters
<1>2. range \in Nat \ {0} /\ x \in Int
  BY <1>1 DEF FailedFdc, PassedFdc
<1>3. PassedFdc * range <= x /\ x <= FailedFdc * range
  BY <1>1 DEF FailedFdc, PassedFdc
<1>4. fdcInternalToUDSFdc(c, n) = Quotient(x, range)
  BY DEF fdcInternalToUDSFdc
<1> HIDE DEF range, x
<1> QED BY <1>2, <1>3, <1>4, QuotientWithin

LEMMA TimedWithin ==
  ASSUME NEW e \in DOMAIN TimerEvents, NEW t \in Timers
  PROVE  getTimeBasedFDC(e, t) \in Fdc
<1> DEFINE most == IF t.failing THEN FailedFdc ELSE PassedFdc
           limit == Threshold(e, t.failing)
<1>1. limit \in Nat /\ t.time \in Nat
  BY TimeLimits DEF Timers
<1>2. most \in Fdc /\ 0 \in Fdc
  BY DEF Fdc, FailedFdc, PassedFdc
<1>3. ASSUME limit # 0, t.time < limit
      PROVE  Quotient(t.time * most, limit) \in Fdc
  <2>1. t.time * most \in Int /\ PassedFdc * limit <= t.time * most
        /\ t.time * most <= FailedFdc * limit
    BY <1>1, <1>3 DEF FailedFdc, PassedFdc
  <2> HIDE DEF most, limit
  <2> QED BY <1>1, <1>3, <2>1, QuotientWithin
<1>4. getTimeBasedFDC(e, t) = IF ~t.started THEN 0
                              ELSE IF limit = 0 \/ t.time >= limit THEN most
                              ELSE Quotient(t.time * most, limit)
  BY DEF getTimeBasedFDC
<1> HIDE DEF most, limit
<1> QED BY <1>1, <1>2, <1>3, <1>4

LEMMA DefaultWithin ==
  ASSUME NEW e \in DebouncedEvents
  PROVE  getDefaultUDSFdc(e) \in Fdc
<1>1. CASE e \in DOMAIN CounterEvents
  <2>1. 0 \in CounterEvents[e].passed .. CounterEvents[e].failed
    BY <1>1, CounterParameter, Parameters
  <2> QED BY <1>1, <2>1, CounterParameter, ScaledWithin DEF getDefaultUDSFdc
<1>2. CASE e \notin DOMAIN CounterEvents
  BY <1>2 DEF getDefaultUDSFdc, Fdc, PassedFdc, FailedFdc
<1> QED BY <1>1, <1>2

(* The larger of the last maximum and a new value.                         *)
LEMMA MaximumWithin ==
  ASSUME NEW f \in Fdc, NEW m \in Fdc
  PROVE  ByteOK(f, Larger(m, f))
BY DEF ByteOK, Larger, Fdc, PassedFdc, FailedFdc

LEMMA ReportFits ==
  ASSUME FdcInv, CounterInv, NEW d \in DebouncedEvents, NEW f \in Fdc,
         DOMAIN fdc' = DOMAIN fdc, fdc'[d] = f,
         \A e \in DebouncedEvents : e # d => fdc'[e] = fdc[e],
         maxFdc' = [maxFdc EXCEPT ![d] = Larger(@, f)],
         UNCHANGED <<cycleStarted, allowed>>
  PROVE  FdcInv'
<1>1. ASSUME NEW e \in DebouncedEvents PROVE ByteOK(fdc'[e], maxFdc'[e])
  <2>1. ByteOK(fdc[e], maxFdc[e]) /\ e \in DOMAIN fdc /\ e \in DOMAIN maxFdc
    BY DEF FdcInv
  <2>2. CASE e = d
    <3>1. fdc'[e] = f /\ maxFdc'[e] = Larger(maxFdc[e], f)
      BY <2>1, <2>2
    <3> QED BY <2>1, <3>1, MaximumWithin DEF ByteOK
  <2>3. CASE e # d
    <3>1. fdc'[e] = fdc[e] /\ maxFdc'[e] = maxFdc[e]
      BY <2>1, <2>3
    <3> QED BY <2>1, <3>1
  <2> QED BY <2>2, <2>3
<1> QED BY <1>1 DEF FdcInv

LEMMA ResetFits ==
  ASSUME FdcInv, NEW reset, resetDebounceCounter(reset),
         cycleStarted' \in BOOLEAN, allowed' \in BOOLEAN
  PROVE  FdcInv'
<1>1. ASSUME NEW e \in DebouncedEvents PROVE ByteOK(fdc'[e], maxFdc'[e])
  <2>1. CASE e \in reset
    <3>1. fdc'[e] = getDefaultUDSFdc(e) /\ maxFdc'[e] = getDefaultUDSFdc(e)
      BY <2>1 DEF resetDebounceCounter
    <3> QED BY <3>1, DefaultWithin DEF ByteOK, Fdc, PassedFdc, FailedFdc
  <2>2. CASE e \notin reset
    <3>1. fdc'[e] = fdc[e] /\ maxFdc'[e] = maxFdc[e]
      BY <2>2 DEF resetDebounceCounter
    <3> QED BY <3>1 DEF FdcInv
  <2> QED BY <2>1, <2>2
<1>2. DOMAIN fdc' = DebouncedEvents /\ DOMAIN maxFdc' = DebouncedEvents
  BY DEF resetDebounceCounter
<1> QED BY <1>1, <1>2 DEF FdcInv

LEMMA NextFits ==
  ASSUME FdcInv, CounterInv, TimerInv, [DebounceNext]_debounceVars
  PROVE  FdcInv'
<1>1. cycleStarted \in BOOLEAN /\ allowed \in BOOLEAN
  BY DEF FdcInv
<1>2. CASE ReportEvent
  <2>1. UNCHANGED <<cycleStarted, allowed>>
    BY <1>2 DEF ReportEvent
  <2>2. ASSUME NEW d \in DOMAIN CounterEvents, NEW report \in Reports,
               preDebounceCounterBased(d, report)
        PROVE  FdcInv'
    <3> DEFINE n == Counted(CounterEvents[d], fdcInternal[d], report)
               f == fdcInternalToUDSFdc(CounterEvents[d], n)
    <3>1. fdcInternal[d] \in CounterEvents[d].passed .. CounterEvents[d].failed
      BY DEF CounterInv, Agrees
    <3>2. n \in CounterEvents[d].passed .. CounterEvents[d].failed
      BY <3>1, CounterParameter, CountedWithin
    <3>3. f \in Fdc /\ d \in DebouncedEvents
      BY <3>2, CounterParameter, ScaledWithin
    <3>4. fdc' = [fdc EXCEPT ![d] = f] /\ maxFdc' = [maxFdc EXCEPT ![d] = Larger(@, f)]
      BY <2>2, Zenon DEF preDebounceCounterBased
    <3> HIDE DEF f
    <3>5. d \in DOMAIN fdc
      BY <3>3 DEF FdcInv
    <3>6. /\ DOMAIN fdc' = DOMAIN fdc /\ fdc'[d] = f
          /\ \A e \in DebouncedEvents : e # d => fdc'[e] = fdc[e]
      <4>1. ASSUME NEW e \in DebouncedEvents, e # d PROVE fdc'[e] = fdc[e]
        <5>1. e \in DOMAIN fdc
          BY DEF FdcInv
        <5> QED BY <3>4, <4>1, <5>1
      <4> QED BY <3>4, <3>5, <4>1
    <3> QED BY <2>1, <3>3, <3>4, <3>6, ReportFits
  <2>3. ASSUME NEW d \in DOMAIN TimerEvents, NEW report \in Reports,
               preDebounceTimeBased(d, report)
        PROVE  FdcInv'
    <3>1. d \in DebouncedEvents /\ fdc[d] \in Fdc /\ d \in DOMAIN fdc
      BY DEF DebouncedEvents, FdcInv, ByteOK
    <3>2. maxFdc' = [maxFdc EXCEPT ![d] = Larger(@, fdc[d])] /\ fdc' = fdc
      BY <2>3 DEF preDebounceTimeBased
    <3> QED BY <2>1, <3>1, <3>2, ReportFits
  <2> QED BY <1>2, <2>2, <2>3 DEF ReportEvent
<1>3. CASE TimeBasedDebounceMainFunction
  <2>1. ASSUME NEW e \in DebouncedEvents PROVE ByteOK(fdc'[e], maxFdc'[e])
    <3>1. fdc[e] \in Fdc /\ maxFdc[e] \in Fdc
      BY DEF FdcInv, ByteOK
    <3>2. ASSUME e \in DOMAIN TimerEvents PROVE getTimeBasedFDC(e, debounceTimer'[e]) \in Fdc
      BY <1>3, <3>2, MainFunctionOfOne, TimedWithin DEF Timed
    <3>3. fdc'[e] = IF e \in DOMAIN TimerEvents /\ debounceTimer'[e].started
                    THEN getTimeBasedFDC(e, debounceTimer'[e]) ELSE fdc[e]
      BY <1>3 DEF TimeBasedDebounceMainFunction
    <3>4. maxFdc'[e] = Larger(maxFdc[e], fdc'[e])
      BY <1>3 DEF TimeBasedDebounceMainFunction
    <3>5. fdc'[e] \in Fdc
      BY <3>1, <3>2, <3>3
    <3> QED BY <3>1, <3>4, <3>5, MaximumWithin
  <2>2. UNCHANGED <<cycleStarted, allowed>>
        /\ DOMAIN fdc' = DebouncedEvents /\ DOMAIN maxFdc' = DebouncedEvents
    BY <1>3 DEF TimeBasedDebounceMainFunction
  <2> QED BY <1>1, <2>1, <2>2 DEF FdcInv
<1>4. CASE DebounceCycleStarts
  BY <1>1, <1>4, ResetFits DEF DebounceCycleStarts
<1>5. CASE DebounceReset
  BY <1>1, <1>5, ResetFits DEF DebounceReset
<1>6. CASE DebounceCycleEnds \/ DtcSettingChanges \/ UNCHANGED debounceVars
  <2>1. UNCHANGED <<fdc, maxFdc>> /\ cycleStarted' \in BOOLEAN /\ allowed' \in BOOLEAN
    BY <1>1, <1>6 DEF DebounceCycleEnds, DtcSettingChanges, debounceVars
  <2> QED BY <2>1 DEF FdcInv
<1> QED BY <1>2, <1>3, <1>4, <1>5, <1>6 DEF DebounceNext

(* For any thresholds, steps and jumps: counters stay between their        *)
(* thresholds, what is scaled from them or from a timer fits the sint8 it  *)
(* is stored in, and the maximum a tester reads is never behind it.        *)
THEOREM FdcFitsItsByte == DebounceSpec => []DebounceTypeOK
<1> DEFINE IInv == FdcInv /\ CounterInv /\ TimerInv
<1>1. DebounceInit => IInv
  <2> SUFFICES ASSUME DebounceInit PROVE FdcInv
    BY InitAgrees, InitTimed
  <2>1. \A e \in DebouncedEvents : fdc[e] = getDefaultUDSFdc(e) /\ maxFdc[e] = fdc[e]
    BY DEF DebounceInit
  <2>2. \A e \in DebouncedEvents : ByteOK(fdc[e], maxFdc[e])
    BY <2>1, DefaultWithin DEF ByteOK, Fdc, PassedFdc, FailedFdc
  <2> QED BY <2>2 DEF DebounceInit, FdcInv
<1>2. IInv /\ [DebounceNext]_debounceVars => IInv'
  BY NextFits, NextAgrees, NextTimed
<1>3. IInv => DebounceTypeOK
  <2> SUFFICES ASSUME IInv PROVE DebounceTypeOK
    OBVIOUS
  <2>1. \A e \in DebouncedEvents :
          fdc[e] \in PassedFdc .. FailedFdc /\ fdc[e] <= maxFdc[e] /\ maxFdc[e] <= FailedFdc
    BY DEF FdcInv, ByteOK, Fdc, PassedFdc, FailedFdc
  <2>2. \A e \in DOMAIN CounterEvents :
          fdcInternal[e] \in CounterEvents[e].passed .. CounterEvents[e].failed
    BY DEF CounterInv, Agrees
  <2>3. \A e \in DOMAIN TimerEvents : debounceTimer[e] \in Timers
    BY DEF TimerInv, Timed
  <2> QED BY <2>1, <2>2, <2>3 DEF DebounceTypeOK, FdcInv, Timers
<1> HIDE DEF IInv
<1> QED BY <1>1, <1>2, <1>3, PTL DEF DebounceSpec
=============================================================================
