----------------------------- MODULE DemDebounce -----------------------------
(***************************************************************************)
(* Debouncing of what the monitors report (dem/src/Dem_Debounce.c), by a   *)
(* counter or by a timer, and the fault detection counters (FDC) that show *)
(* how far it is.  An event is reported while its operation cycle runs and *)
(* its processing is allowed; a reset of the counter comes with the start  *)
(* of the cycle, a reset of the event and a clear.                         *)
(***************************************************************************)
EXTENDS Integers

CONSTANTS
  CounterEvents,     \* Dem_PreDebounceCounterBasedType of each event
  TimerEvents,       \* Dem_PreDebounceTimeBasedType: [failed, passed], in main functions
  MaxSteady          \* bound on the main functions counted

DebouncedEvents == DOMAIN CounterEvents \cup DOMAIN TimerEvents
Larger(m, n) == IF m >= n THEN m ELSE n

ASSUME DebounceAssumption ==
  /\ \A e \in DOMAIN CounterEvents :
       LET c == CounterEvents[e]
       IN /\ c.failed \in Int /\ c.passed \in Int /\ c.passed < 0 /\ 0 < c.failed
          /\ c.up \in Nat \ {0} /\ c.down \in Nat \ {0}
          /\ c.jumpUp \subseteq Int /\ \A i, j \in c.jumpUp : i = j
          /\ c.jumpDown \subseteq Int /\ \A i, j \in c.jumpDown : i = j
  /\ DOMAIN CounterEvents \cap DOMAIN TimerEvents = {}
  /\ \A e \in DOMAIN TimerEvents :
       LET t == TimerEvents[e]
       IN t.failed \in Nat /\ t.passed \in Nat /\ Larger(t.failed, t.passed) <= MaxSteady
  /\ MaxSteady \in Nat

VARIABLES
  cycleStarted,   \* operationCycleIsStarted
  allowed,        \* eventProcessingAllowed
  fdcInternal,    \* the counters
  debounceTimer,  \* DemTimeBaseBuffer
  fdc,            \* UDSFdc
  maxFdc,         \* maxUDSFdc
  verdict,        \* the last result: FAILED sets the test failed bit
  steady          \* main functions since the reports last changed direction

debounceVars == <<cycleStarted, allowed, fdcInternal, debounceTimer, fdc, maxFdc, verdict, steady>>

Reports == {"FAILED", "PASSED", "PREFAILED", "PREPASSED"}
FailedFdc == 127
PassedFdc == -128

(* Division of C truncates towards zero.                                   *)
Quotient(a, b) == IF a >= 0 THEN a \div b ELSE -((-a) \div b)

-----------------------------------------------------------------------------
(* fdcInternalToUDSFdc *)
RoundsUp(c, n) ==                             \* variation: rounded to the next
  LET range == c.failed - c.passed
  IN Quotient((FailedFdc - PassedFdc) * (n - c.passed) + PassedFdc * range + range - 1, range)
fdcInternalToUDSFdc(c, n) ==
  LET range == c.failed - c.passed
  IN Quotient((FailedFdc - PassedFdc) * (n - c.passed) + PassedFdc * range, range)

(* preDebounceCounterBased: a jump, if one is configured, then a step that *)
(* stops at the threshold.                                                 *)
JumpedUp(c, n) == IF \E j \in c.jumpUp : n < j THEN CHOOSE j \in c.jumpUp : TRUE ELSE n
JumpedDown(c, n) == IF \E j \in c.jumpDown : n > j THEN CHOOSE j \in c.jumpDown : TRUE ELSE n
CountUp(c, n) ==
  IF n >= c.failed THEN n
  ELSE IF JumpedUp(c, n) + c.up < c.failed THEN JumpedUp(c, n) + c.up ELSE c.failed
CountDown(c, n) ==
  IF n <= c.passed THEN n
  ELSE IF JumpedDown(c, n) - c.down > c.passed THEN JumpedDown(c, n) - c.down ELSE c.passed
Counted(c, n, report) ==
  CASE report = "PREFAILED" -> CountUp(c, n)
    [] report = "PREPASSED" -> CountDown(c, n)
    [] report = "FAILED" -> c.failed
    [] report = "PASSED" -> c.passed
ReachedBy(c, n, report) ==
  CASE n >= c.failed -> "FAILED" [] n <= c.passed -> "PASSED" [] OTHER -> report

VerdictAfter(e, status) == IF status \in {"FAILED", "PASSED"} THEN status ELSE verdict[e]

preDebounceCounterBased(e, report) ==
  LET c == CounterEvents[e]
      n == Counted(c, fdcInternal[e], report)
  IN /\ fdcInternal' = [fdcInternal EXCEPT ![e] = n]
     /\ fdc' = [fdc EXCEPT ![e] = fdcInternalToUDSFdc(c, n)]
     /\ maxFdc' = [maxFdc EXCEPT ![e] = Larger(@, fdcInternalToUDSFdc(c, n))]
     /\ verdict' = [verdict EXCEPT ![e] = VerdictAfter(e, ReachedBy(c, n, report))]
     /\ UNCHANGED <<debounceTimer, steady>>

-----------------------------------------------------------------------------
(* preDebounceTimeBased: a report starts the timer in its direction, unless *)
(* it runs there already; a final one ends it at once.                      *)
Fails(report) == report \in {"FAILED", "PREFAILED"}
Threshold(e, failing) == IF failing THEN TimerEvents[e].failed ELSE TimerEvents[e].passed
StartsTimer(t, failing) == ~t.started \/ t.failing # failing
AtOnce(e, report) == report \in {"FAILED", "PASSED"} \/ Threshold(e, Fails(report)) = 0
KeepsTime(e, t, report) ==                    \* variation: the time counted is kept
  [started |-> TRUE, failing |-> Fails(report), time |-> t.time, fresh |-> FALSE]
TimerStarted(e, t, report) ==
  [started |-> TRUE, failing |-> Fails(report), fresh |-> ~AtOnce(e, report),
   time |-> IF AtOnce(e, report) THEN Threshold(e, Fails(report)) ELSE 0]

FinalStatus(report) == IF Fails(report) THEN "FAILED" ELSE "PASSED"
preDebounceTimeBased(e, report) ==
  LET t == debounceTimer[e]
      starts == StartsTimer(t, Fails(report))
      reached == IF starts /\ AtOnce(e, report) THEN FinalStatus(report) ELSE report
  IN /\ debounceTimer' =
          [debounceTimer EXCEPT ![e] = IF starts THEN TimerStarted(e, t, report) ELSE t]
     /\ verdict' = [verdict EXCEPT ![e] = VerdictAfter(e, reached)]
     /\ steady' = [steady EXCEPT ![e] = IF t.failing # Fails(report) THEN 0 ELSE @]
     /\ maxFdc' = [maxFdc EXCEPT ![e] = Larger(@, fdc[e])]
     /\ UNCHANGED <<fdcInternal, fdc>>

(* handleEvent on a report of a monitor.                                   *)
ReportEvent ==
  /\ cycleStarted /\ allowed
  /\ \E report \in Reports :
       \/ \E e \in DOMAIN CounterEvents : preDebounceCounterBased(e, report)
       \/ \E e \in DOMAIN TimerEvents : preDebounceTimeBased(e, report)
  /\ UNCHANGED <<cycleStarted, allowed>>

(* getTimeBasedFDC *)
getTimeBasedFDC(e, t) ==
  LET most == IF t.failing THEN FailedFdc ELSE PassedFdc
      limit == Threshold(e, t.failing)
  IN IF ~t.started THEN 0
     ELSE IF limit = 0 \/ t.time >= limit THEN most
     ELSE Quotient(t.time * most, limit)

(* TimeBasedDebounceMainFunction, for one event: the first call after a    *)
(* start is not counted; at the threshold the status is handed to          *)
(* handleEvent in every call, until it takes it and after that.            *)
Tick(e, t) ==
  IF t.fresh THEN [t EXCEPT !.fresh = FALSE]
  ELSE IF t.time < Threshold(e, t.failing) THEN [t EXCEPT !.time = @ + 1] ELSE t
TimeIsOver(e, t, ticked) == ~t.fresh /\ ticked.time >= Threshold(e, t.failing)
AfterMain(e) ==
  IF cycleStarted /\ debounceTimer[e].started THEN Tick(e, debounceTimer[e])
  ELSE [debounceTimer[e] EXCEPT !.started = @ /\ cycleStarted]

TimeBasedDebounceMainFunction ==
  /\ debounceTimer' = [e \in DOMAIN TimerEvents |-> AfterMain(e)]
  /\ verdict' = [e \in DebouncedEvents |->
       IF e \in DOMAIN TimerEvents /\ allowed /\ debounceTimer'[e].started
            /\ TimeIsOver(e, debounceTimer[e], debounceTimer'[e])
       THEN IF debounceTimer[e].failing THEN "FAILED" ELSE "PASSED"
       ELSE verdict[e]]
  /\ fdc' = [e \in DebouncedEvents |->
       IF e \in DOMAIN TimerEvents /\ debounceTimer'[e].started
       THEN getTimeBasedFDC(e, debounceTimer'[e]) ELSE fdc[e]]
  /\ maxFdc' = [e \in DebouncedEvents |-> Larger(maxFdc[e], fdc'[e])]
  /\ steady' = [e \in DOMAIN TimerEvents |-> IF steady[e] < MaxSteady THEN steady[e] + 1 ELSE MaxSteady]
  /\ UNCHANGED <<cycleStarted, allowed, fdcInternal>>

-----------------------------------------------------------------------------
(* getDefaultUDSFdc, resetDebounceCounter *)
getDefaultUDSFdc(e) ==
  IF e \in DOMAIN CounterEvents THEN fdcInternalToUDSFdc(CounterEvents[e], 0) ELSE 0
resetDebounceCounter(reset) ==
  /\ fdcInternal' = [e \in DOMAIN CounterEvents |->
                       IF e \in reset THEN 0 ELSE fdcInternal[e]]
  /\ fdc' = [e \in DebouncedEvents |-> IF e \in reset THEN getDefaultUDSFdc(e) ELSE fdc[e]]
  /\ maxFdc' = [e \in DebouncedEvents |-> IF e \in reset THEN getDefaultUDSFdc(e) ELSE maxFdc[e]]
  /\ debounceTimer' = [e \in DOMAIN TimerEvents |->
       IF e \in reset THEN [debounceTimer[e] EXCEPT !.started = FALSE, !.time = 0] ELSE debounceTimer[e]]

DebounceCycleStarts ==
  /\ cycleStarted' = TRUE /\ resetDebounceCounter(DebouncedEvents)
  /\ UNCHANGED <<allowed, verdict, steady>>
DebounceCycleEnds ==
  /\ cycleStarted /\ cycleStarted' = FALSE
  /\ UNCHANGED <<allowed, fdcInternal, debounceTimer, fdc, maxFdc, verdict, steady>>
(* A clear, or the reset of an event: the result goes with the counter.    *)
DebounceReset ==
  /\ \E e \in DebouncedEvents :
       resetDebounceCounter({e}) /\ verdict' = [verdict EXCEPT ![e] = "NONE"]
  /\ UNCHANGED <<cycleStarted, allowed, steady>>
DtcSettingChanges ==
  /\ allowed' = ~allowed
  /\ UNCHANGED <<cycleStarted, fdcInternal, debounceTimer, fdc, maxFdc, verdict, steady>>

NewTimer == [started |-> FALSE, failing |-> FALSE, time |-> 0, fresh |-> FALSE]
DebounceInit ==
  /\ cycleStarted = FALSE /\ allowed = TRUE
  /\ fdcInternal = [e \in DOMAIN CounterEvents |-> 0]
  /\ debounceTimer = [e \in DOMAIN TimerEvents |-> NewTimer]
  /\ fdc = [e \in DebouncedEvents |-> getDefaultUDSFdc(e)] /\ maxFdc = fdc
  /\ verdict = [e \in DebouncedEvents |-> "NONE"] /\ steady = [e \in DOMAIN TimerEvents |-> 0]

DebounceNext ==
  \/ ReportEvent \/ TimeBasedDebounceMainFunction \/ DebounceCycleStarts \/ DebounceCycleEnds
  \/ DebounceReset \/ DtcSettingChanges

DebounceSpec == DebounceInit /\ [][DebounceNext]_debounceVars

-----------------------------------------------------------------------------
DebounceTypeOK ==
  /\ cycleStarted \in BOOLEAN /\ allowed \in BOOLEAN
  /\ \A e \in DOMAIN CounterEvents :
       fdcInternal[e] \in CounterEvents[e].passed .. CounterEvents[e].failed
  /\ \A e \in DOMAIN TimerEvents :
       debounceTimer[e] \in [started : BOOLEAN, failing : BOOLEAN, time : 0 .. MaxSteady, fresh : BOOLEAN]
  /\ \A e \in DebouncedEvents :
       fdc[e] \in PassedFdc .. FailedFdc /\ fdc[e] <= maxFdc[e] /\ maxFdc[e] <= FailedFdc

(* The fault detection counter a tester reads is at an end of its range    *)
(* exactly when the counter is at the threshold, and the event has the     *)
(* result that belongs to it.                                              *)
FdcTellsVerdict ==
  \A e \in DOMAIN CounterEvents :
    /\ (fdc[e] = FailedFdc) <=> (fdcInternal[e] = CounterEvents[e].failed)
    /\ (fdc[e] = PassedFdc) <=> (fdcInternal[e] = CounterEvents[e].passed)
    /\ fdc[e] = FailedFdc => verdict[e] = "FAILED"
    /\ fdc[e] = PassedFdc => verdict[e] = "PASSED"

(* The timer gives a result only after the reports have pointed one way    *)
(* for as long as the threshold says.                                      *)
NotBeforeTheThreshold ==
  [][\A e \in DOMAIN TimerEvents :
       verdict'[e] # verdict[e] /\ TimeBasedDebounceMainFunction
         => steady'[e] >= Threshold(e, verdict'[e] = "FAILED")]_debounceVars
=============================================================================
