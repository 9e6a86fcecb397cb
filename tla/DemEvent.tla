---------------------------- MODULE DemEvent ----------------------------
(***************************************************************************)
(* The event memory of the DEM: the status of each event, the entries of   *)
(* the primary memory, operation cycles, aging, displacement, Dem_Init's   *)
(* merge of what was stored with what was reported before, and             *)
(* Dem_ClearDTC.  Reports are qualified ones: the debouncing is left out,  *)
(* as are freeze frames, extended data and indicators, combined events,    *)
(* the suppression of a DTC and the record-update lock.                    *)
(***************************************************************************)
EXTENDS Naturals, FiniteSets

CONSTANTS
  NEvents,            \* events 1 .. NEvents, in the order of eventStatusBuffer
  MemSize,            \* DEM_MAX_NUMBER_EVENT_ENTRY_PRI
  Cycles,             \* the operation cycles
  Active,             \* DEM_ACTIVE, the cycle the DEM starts and ends itself
  Priority,           \* EventPriority of each event, 1 the most important
  OperationCycle, FailureCycle, AgingCycle,
  FailureThreshold, AgingThreshold,
  CounterMax,         \* DEM_FAILURE_CNTR_MAX and DEM_AGING_CNTR_MAX
  AgingClear,         \* which failures clear the aging counter
  Displacement,       \* DEM_EVENT_DISPLACEMENT_SUPPORT
  TestFailedStorage,  \* DEM_TEST_FAILED_STORAGE
  PreInitReports      \* when events are reported before Dem_Init has ended

Events == 1 .. NEvents

ASSUME EventsAssumption ==
  /\ NEvents \in Nat \ {0} /\ MemSize \in Nat \ {0} /\ CounterMax \in Nat \ {0}
  /\ Priority \in [Events -> Nat]
  /\ Active \in Cycles
  /\ OperationCycle \in [Events -> Cycles] /\ FailureCycle \in [Events -> Cycles]
  /\ AgingCycle \in [Events -> Cycles]
  /\ FailureThreshold \in [Events -> 1 .. CounterMax]
  /\ AgingThreshold \in [Events -> 1 .. CounterMax]
  /\ AgingClear \in {"failure cycle", "failure or aging cycle", "all"}
  /\ Displacement \in BOOLEAN /\ TestFailedStorage \in BOOLEAN
  /\ PreInitReports \subseteq {"before Dem_Init", "during Dem_Init"}

VARIABLES
  state,     \* demState
  status,    \* eventStatusBuffer
  mem,       \* priMemEventBuffer: the entries by event
  older,     \* the pairs of events whose first has the older time stamp
  overflow,  \* priMemOverflow and the flag in the memory's admin entry
  started,   \* operationCycleStateList
  job,       \* the loop over the events of a cycle's end or of Dem_Init
  clearing   \* the loop of Dem_ClearDTC

vars == <<state, status, mem, older, overflow, started, job, clearing>>

-----------------------------------------------------------------------------
(* Event status and memory entries *)

Bits == {"TF", "TFTOC", "PENDING", "CONFIRMED", "TNCSLC", "TFSLC", "TNCTOC"}
StoredBits == {"TFSLC", "TNCSLC", "PENDING", "CONFIRMED"} \cup (IF TestFailedStorage THEN {"TF"} ELSE {})
Counter == 0 .. CounterMax

StatusType == [bits : SUBSET Bits, failures : Counter, failedF : BOOLEAN, passedF : BOOLEAN,
               aging : Counter, failedA : BOOLEAN, passedA : BOOLEAN]
EntryType == [bits : SUBSET StoredBits, failures : Counter, aging : Counter]

DefaultStatus == [bits |-> {"TNCSLC", "TNCTOC"}, failures |-> 0, failedF |-> FALSE, passedF |-> FALSE,
                  aging |-> 0, failedA |-> FALSE, passedA |-> FALSE]
Entry(r) == [bits |-> r.bits \cap StoredBits, failures |-> r.failures, aging |-> r.aging]

Saturated(n) == IF n > CounterMax THEN CounterMax ELSE n
Without(r, bits) == [r EXCEPT !.bits = @ \ bits]

Stored == DOMAIN mem
Added(m, e, entry) == [f \in DOMAIN m \cup {e} |-> IF f = e THEN entry ELSE m[f]]
Removed(m, e) == [f \in DOMAIN m \ {e} |-> m[f]]

(* The time stamps of events other than e, and with e as the newest one. *)
NotOf(e) == {pair \in older : pair[1] # e /\ pair[2] # e}
Newest(e) == NotOf(e) \cup {<<f, e>> : f \in Events \ {e}}

-----------------------------------------------------------------------------
(* The primary memory *)

Passive(e) == status[e].bits \cap (IF TestFailedStorage THEN {"TF"} ELSE {"TF", "TNCTOC"}) = {}

Oldest(set) == {e \in set : \A f \in set \ {e} : <<e, f>> \in older}

(* getEventForDisplacement: the oldest passive event that is not more       *)
(* important, otherwise the oldest that is less important.                  *)
ToDisplace(e) ==
  LET passive == {f \in Stored : Passive(f) /\ Priority[e] <= Priority[f]}
      active == {f \in Stored : Priority[e] < Priority[f]}
  IN IF ~Displacement THEN {} ELSE IF passive # {} THEN Oldest(passive) ELSE Oldest(active)

DisplacedConfirmed(r) == [r EXCEPT !.failures = 0]   \* variation: still confirmed
(* findAndDisplaceEvent; the aging counter and flags are kept: the macro    *)
(* around their reset is misspelt.                                          *)
Displaced(r) == [Without(r, {"CONFIRMED"}) EXCEPT !.failures = 0, !.failedF = FALSE, !.passedF = FALSE]

HasRoomForOneMore(e) ==   \* variation: off by one
  e \in Stored \/ Cardinality(Stored) <= MemSize
HasRoom(e) == e \in Stored \/ Cardinality(Stored) < MemSize

(* storeEventMem for event e with status r; it is left with status refused *)
(* when there is no place for it.                                          *)
Store(e, r, refused) ==
  \/ /\ HasRoom(e)
     /\ mem' = Added(mem, e, Entry(r))
     /\ status' = [status EXCEPT ![e] = r]
     /\ UNCHANGED overflow
  \/ /\ ~HasRoom(e)
     /\ \E f \in ToDisplace(e) :
          /\ mem' = Added(Removed(mem, f), e, Entry(r))
          /\ status' = [status EXCEPT ![e] = r, ![f] = Displaced(status[f])]
     /\ UNCHANGED overflow
  \/ /\ ~HasRoom(e) /\ ToDisplace(e) = {}
     /\ overflow' = TRUE
     /\ status' = [status EXCEPT ![e] = refused]
     /\ UNCHANGED mem

KeepMemory(e, r) == status' = [status EXCEPT ![e] = r] /\ UNCHANGED <<mem, overflow>>

-----------------------------------------------------------------------------
(* Reports *)

ClearsAging(e) ==
  \/ AgingClear = "all"
  \/ FailureCycle[e] \in started
  \/ AgingClear = "failure or aging cycle" /\ AgingCycle[e] \in started

(* handleFaultConfirmation does something. *)
CountsFailure(e) == FailureCycle[e] \in started /\ ~status[e].failedF

Failures(e) == IF CountsFailure(e) THEN Saturated(status[e].failures + 1) ELSE status[e].failures

Confirms(e) == CountsFailure(e) /\ Failures(e) >= FailureThreshold[e]

OnFailed(e) ==
  [status[e] EXCEPT
     !.bits = (@ \ {"TNCSLC", "TNCTOC"}) \cup {"TF", "TFTOC", "TFSLC", "PENDING"}
                \cup (IF Confirms(e) THEN {"CONFIRMED"} ELSE {}),
     !.failures = Failures(e),
     !.failedF = @ \/ FailureCycle[e] \in started,
     !.failedA = @ \/ AgingCycle[e] \in started,
     !.aging = IF ClearsAging(e) THEN 0 ELSE @]

OnPassed(e) ==
  [status[e] EXCEPT
     !.bits = @ \ {"TF", "TNCSLC", "TNCTOC"},
     !.passedF = @ \/ FailureCycle[e] \in started,
     !.passedA = @ \/ AgingCycle[e] \in started]

ChangesByTestOnly(e, verdict) ==   \* variation: a counted failure is no change
  ("TF" \in status[e].bits) # (verdict = "FAILED")

(* errorStatusChanged.  A failure that is counted changes the counter or,   *)
(* when that is at its maximum, sets the confirmed bit.                     *)
Changes(e, verdict) ==
  CASE verdict = "FAILED" -> "TF" \notin status[e].bits \/ CountsFailure(e)
    [] verdict = "PASSED" -> "TF" \in status[e].bits

Updated(e, verdict) == IF verdict = "FAILED" THEN OnFailed(e) ELSE OnPassed(e)

SetTimeStamp(e, verdict) ==
  older' = IF verdict = "FAILED" /\ Changes(e, verdict) THEN Newest(e) ELSE older

(* The loops over a cycle's end run in the exclusive area, Dem_Init's and   *)
(* Dem_ClearDTC's do not.                                                   *)
AreaFree == job.kind \notin {"cycle end", "aging"}
Initialized == state = "INITIALIZED" /\ AreaFree

HandleEvent(e, verdict) ==
  /\ Initialized /\ OperationCycle[e] \in started
  /\ IF Changes(e, verdict)
     THEN Store(e, Updated(e, verdict), Without(Updated(e, verdict), {"CONFIRMED"}))
     ELSE KeepMemory(e, Updated(e, verdict))
  /\ SetTimeStamp(e, verdict)
  /\ UNCHANGED <<state, started, job, clearing>>

HandlePreInitEvent(e, verdict) ==
  /\ state = "PREINITIALIZED"
  /\ (IF job.kind = "none" THEN "before Dem_Init" ELSE "during Dem_Init") \in PreInitReports
  /\ OperationCycle[e] \in started
  /\ KeepMemory(e, Updated(e, verdict))
  /\ SetTimeStamp(e, verdict)
  /\ UNCHANGED <<state, started, job, clearing>>

ResetEventStatus(e) ==
  /\ Initialized /\ "TNCTOC" \in status[e].bits
  /\ KeepMemory(e, Without(status[e], {"TF"}))
  /\ UNCHANGED <<state, older, started, job, clearing>>

-----------------------------------------------------------------------------
(* Operation cycles *)

(* operationCycleStart for one event *)
AtCycleStart(e, c) ==
  LET r == status[e] IN
  [r EXCEPT
     !.bits = IF OperationCycle[e] = c THEN (@ \ {"TFTOC"}) \cup {"TNCTOC"} ELSE @,
     !.failedF = @ /\ FailureCycle[e] # c, !.passedF = @ /\ FailureCycle[e] # c,
     !.failedA = @ /\ AgingCycle[e] # c, !.passedA = @ /\ AgingCycle[e] # c]

StartCycle(c) ==
  /\ started' = started \cup {c}
  /\ status' = [e \in Events |-> AtCycleStart(e, c)]

OperationCycleStart(c) ==
  /\ Initialized /\ c # Active
  /\ StartCycle(c)
  /\ UNCHANGED <<state, mem, older, overflow, job, clearing>>

NoJob == [kind |-> "none", next |-> 1, cycle |-> Active, shutdown |-> FALSE, changed |-> {}]

EndCycle(c, shutdown) ==
  /\ c \in started
  /\ started' = started \ {c}
  /\ job' = [NoJob EXCEPT !.kind = "cycle end", !.cycle = c, !.shutdown = shutdown]
  /\ UNCHANGED <<state, status, mem, older, overflow, clearing>>

OperationCycleEnd(c) == Initialized /\ c # Active /\ EndCycle(c, FALSE)

Dem_Shutdown == Initialized /\ EndCycle(Active, TRUE)

(* The loop goes on to the next event, after the last one to the next loop. *)
Advance(j, kind) ==
  IF j.next < NEvents THEN [j EXCEPT !.next = @ + 1]
  ELSE IF kind = "none" THEN NoJob ELSE [j EXCEPT !.kind = kind, !.next = 1]

(* operationCycleEnd for one event *)
NotPendingIfComplete(e, c) ==   \* variation: failed in this cycle or not
  OperationCycle[e] = c /\ "TNCTOC" \notin status[e].bits
NotPending(e, c) ==
  OperationCycle[e] = c /\ status[e].bits \cap {"TFTOC", "TNCTOC"} = {}
NoFailure(e, c) ==
  FailureCycle[e] = c /\ status[e].passedF /\ ~status[e].failedF

AtCycleEnd(e, c) ==
  [status[e] EXCEPT !.bits = IF NotPending(e, c) THEN @ \ {"PENDING"} ELSE @,
                    !.failures = IF NoFailure(e, c) THEN 0 ELSE @]

CycleEndOfEvent ==
  LET e == job.next
      r == AtCycleEnd(e, job.cycle)
  IN /\ job.kind = "cycle end"
     /\ IF r # status[e] THEN Store(e, r, r) ELSE KeepMemory(e, r)
     /\ job' = Advance(job, "aging")
     /\ UNCHANGED <<state, older, started, clearing>>

PassedOnce(e) == "CONFIRMED" \in status[e].bits /\ status[e].passedA   \* variation
(* ageEvent; an aging counter is below its threshold, so below CounterMax. *)
PassesAging(e) == "CONFIRMED" \in status[e].bits /\ status[e].passedA /\ ~status[e].failedA
FailsAging(e) ==
  /\ "CONFIRMED" \in status[e].bits /\ ~PassesAging(e)
  /\ status[e].failedA /\ status[e].aging # 0
Aged(e) == Saturated(status[e].aging + 1) >= AgingThreshold[e]

Healed(e) == [Without(status[e], {"CONFIRMED", "PENDING"}) EXCEPT !.aging = 0, !.failures = 0]

AgeEvent(e) ==
  \/ /\ PassesAging(e) /\ Aged(e) /\ e \in Stored
     /\ status' = [status EXCEPT ![e] = Healed(e)]
     /\ mem' = Removed(mem, e)
     /\ UNCHANGED overflow
  \/ /\ PassesAging(e) /\ Aged(e) /\ e \notin Stored
     /\ Store(e, Healed(e), Healed(e))
  \/ /\ PassesAging(e) /\ ~Aged(e)
     /\ LET r == [status[e] EXCEPT !.aging = @ + 1] IN Store(e, r, r)
  \/ /\ FailsAging(e)
     /\ LET r == [status[e] EXCEPT !.aging = 0] IN Store(e, r, r)
  \/ /\ ~PassesAging(e) /\ ~FailsAging(e)
     /\ UNCHANGED <<status, mem, overflow>>

AgingOfEvent ==
  /\ job.kind = "aging"
  /\ IF AgingCycle[job.next] = job.cycle THEN AgeEvent(job.next) ELSE UNCHANGED <<status, mem, overflow>>
  /\ job' = Advance(job, "none")
  /\ state' = IF job'.kind = "none" /\ job.shutdown THEN "SHUTDOWN" ELSE state
  /\ UNCHANGED <<older, started, clearing>>

-----------------------------------------------------------------------------
(* Start-up *)

(* Dem_PreInit, after a power-on or a reset at any time.  What the NvM has  *)
(* may be older than mem: as if the reset had come earlier.                 *)
Dem_PreInit ==
  /\ state' = "PREINITIALIZED"
  /\ status' = [e \in Events |-> DefaultStatus]
  /\ older' = older \cap (Stored \X Stored)
  /\ started' = {Active}
  /\ job' = NoJob
  /\ clearing' = [next |-> 0, all |-> FALSE, ok |-> TRUE]
  /\ UNCHANGED <<mem, overflow>>

MergedKeepsLive(e) ==   \* variation: the TNCSLC bit of the entry is not looked at
  status[e].bits \cup (mem[e].bits \cap {"TFSLC", "PENDING", "CONFIRMED"})
(* mergeEventStatusRec *)
MergedBits(e) ==
  LET live == status[e].bits
      entry == mem[e].bits
      confirmed == status[e].failures + mem[e].failures >= FailureThreshold[e]
  IN (live \ (IF "TNCSLC" \in entry THEN {} ELSE {"TNCSLC"}))
       \cup (entry \cap {"TFSLC", "PENDING", "CONFIRMED"})
       \cup (IF confirmed THEN {"CONFIRMED"} ELSE {})
       \cup (IF TestFailedStorage /\ "TNCTOC" \in live THEN entry \cap {"TF"} ELSE {})

Merged(e) ==
  [status[e] EXCEPT !.bits = MergedBits(e),
                    !.failures = Saturated(@ + mem[e].failures),
                    !.aging = Saturated(@ + mem[e].aging)]

(* The status differs from the entry: in occurrences, if the event failed   *)
(* before Dem_Init, in failures or in the stored bits.                      *)
MergeChanges(e) ==
  \/ "TFTOC" \in status[e].bits
  \/ Merged(e).failures # mem[e].failures
  \/ Merged(e).bits \cap StoredBits # mem[e].bits

Dem_Init ==
  /\ state = "PREINITIALIZED" /\ job.kind = "none"
  /\ job' = [NoJob EXCEPT !.kind = "merge"]
  /\ UNCHANGED <<state, status, mem, older, overflow, started, clearing>>

MergeEvent ==
  LET e == job.next
      changed == e \in Stored /\ MergeChanges(e)
      j == [job EXCEPT !.changed = IF changed THEN @ \cup {e} ELSE @]
  IN /\ job.kind = "merge"
     /\ status' = IF e \in Stored THEN [status EXCEPT ![e] = Merged(e)] ELSE status
     /\ job' = Advance(j, "transfer")
     /\ UNCHANGED <<state, mem, older, overflow, started, clearing>>

(* "Transfer updated event data to event memory" *)
TransferEvent ==
  LET e == job.next IN
  /\ job.kind = "transfer"
  /\ IF e \in Stored /\ e \in job.changed
     THEN Store(e, status[e], status[e])
     ELSE UNCHANGED <<status, mem, overflow>>
  /\ job' = Advance(job, "store")
  /\ UNCHANGED <<state, older, started, clearing>>

(* "store events that was reported during preInit" *)
StorePreInitEvent ==
  LET e == job.next IN
  /\ job.kind = "store"
  /\ IF e \notin Stored /\ "TNCTOC" \notin status[e].bits /\ "TFTOC" \in status[e].bits
     THEN Store(e, status[e], status[e])
     ELSE UNCHANGED <<status, mem, overflow>>
  /\ job' = Advance(job, "none")
  /\ state' = IF job'.kind = "none" THEN "INITIALIZED" ELSE state
  /\ UNCHANGED <<older, started, clearing>>

(* Dem_Init without Dem_PreInit: the ECU wakes up. *)
WakeUp ==
  /\ state = "SHUTDOWN"
  /\ state' = "INITIALIZED"
  /\ StartCycle(Active)
  /\ UNCHANGED <<mem, older, overflow, job, clearing>>

-----------------------------------------------------------------------------
(* Dem_ClearDTC: the exclusive area is left between two events. *)

Dem_ClearDTC(all) ==
  /\ Initialized /\ clearing.next = 0
  /\ clearing' = [next |-> 1, all |-> all, ok |-> TRUE]
  /\ UNCHANGED <<state, status, mem, older, overflow, started, job>>

Cleared(e) ==
  /\ status' = [status EXCEPT ![e] = DefaultStatus]
  /\ mem' = Removed(mem, e)
  /\ older' = NotOf(e)

(* The DTC of the event is asked for and cleared, or CallbackClearEventAllowed *)
(* refuses, or it is not the one asked for.                                    *)
ClearEvent ==
  /\ clearing.next \in Events /\ AreaFree
  /\ \/ /\ Cleared(clearing.next)
        /\ clearing' = [clearing EXCEPT !.next = @ + 1]
     \/ /\ clearing' = [clearing EXCEPT !.next = @ + 1, !.ok = FALSE]
        /\ UNCHANGED <<status, mem, older>>
     \/ /\ ~clearing.all
        /\ clearing' = [clearing EXCEPT !.next = @ + 1]
        /\ UNCHANGED <<status, mem, older>>
  /\ UNCHANGED <<state, overflow, started, job>>

ClearEnds ==
  /\ clearing.next > NEvents /\ AreaFree
  /\ overflow' = (overflow /\ ~(clearing.all /\ clearing.ok))
  /\ clearing' = [next |-> 0, all |-> FALSE, ok |-> TRUE]
  /\ UNCHANGED <<state, status, mem, older, started, job>>

-----------------------------------------------------------------------------
Init ==
  /\ state = "PREINITIALIZED"
  /\ status = [e \in Events |-> DefaultStatus]
  /\ mem = [e \in {} |-> Entry(DefaultStatus)]
  /\ older = {}
  /\ overflow = FALSE
  /\ started = {Active}
  /\ job = NoJob
  /\ clearing = [next |-> 0, all |-> FALSE, ok |-> TRUE]

Next ==
  \/ \E e \in Events, verdict \in {"FAILED", "PASSED"} :
       HandleEvent(e, verdict) \/ HandlePreInitEvent(e, verdict)
  \/ \E e \in Events : ResetEventStatus(e)
  \/ \E c \in Cycles : OperationCycleStart(c) \/ OperationCycleEnd(c)
  \/ CycleEndOfEvent \/ AgingOfEvent
  \/ Dem_PreInit \/ Dem_Init \/ MergeEvent \/ TransferEvent \/ StorePreInitEvent
  \/ Dem_Shutdown \/ WakeUp
  \/ \E all \in BOOLEAN : Dem_ClearDTC(all)
  \/ ClearEvent \/ ClearEnds

Spec == Init /\ [][Next]_vars

-----------------------------------------------------------------------------
JobType ==
  [kind : {"none", "cycle end", "aging", "merge", "transfer", "store"},
   next : Events, cycle : Cycles, shutdown : BOOLEAN, changed : SUBSET Events]

(* The memory holds at most MemSize entries, of configured events. *)
TypeOK ==
  /\ state \in {"PREINITIALIZED", "INITIALIZED", "SHUTDOWN"}
  /\ status \in [Events -> StatusType]
  /\ Stored \subseteq Events /\ mem \in [Stored -> EntryType]
  /\ Cardinality(Stored) <= MemSize
  /\ older \subseteq Events \X Events
  /\ overflow \in BOOLEAN
  /\ started \subseteq Cycles
  /\ job \in JobType
  /\ clearing \in [next : 0 .. NEvents + 1, all : BOOLEAN, ok : BOOLEAN]

Has(e, bit) == bit \in status[e].bits

(* A confirmed event is stored: "If it is confirmed it should be stored in  *)
(* event memory" (ageEvent).  StorePreInitEvent breaks it.                  *)
ConfirmedIsStored ==
  state = "INITIALIZED" => \A e \in Events : Has(e, "CONFIRMED") => e \in Stored

(* A confirmed event that is not stored is not lost silently: the overflow  *)
(* indication is set, and no Dem_ClearDTC in between takes it down.         *)
ConfirmedStoredOrSignalled ==
  state = "INITIALIZED" =>
    \A e \in Events : Has(e, "CONFIRMED") => e \in Stored \/ overflow

(* An entry has the stored bits and the failure counter of its event, so    *)
(* that a reset brings back what was reported: every change of them is      *)
(* followed by a store (HandleEvent, the cycle's end, aging, the merge).    *)
StoredAgrees ==
  state = "INITIALIZED" =>
    \A e \in Stored : /\ mem[e].bits = status[e].bits \cap StoredBits
                       /\ mem[e].failures = status[e].failures

(* The bits of ISO 14229 fit together after every report, cycle, merge and  *)
(* clear: what failed once has failed since the last clear, a test that was *)
(* not run since then was not run in this cycle, and a failure in this      *)
(* cycle completes the test.                                                *)
StatusConsistent ==
  \A e \in Events :
    /\ Has(e, "TF") \/ Has(e, "PENDING") \/ Has(e, "CONFIRMED") \/ Has(e, "TFTOC") => Has(e, "TFSLC")
    /\ Has(e, "TNCSLC") => ~Has(e, "TFSLC") /\ Has(e, "TNCTOC")
    /\ ~(Has(e, "TFTOC") /\ Has(e, "TNCTOC"))

(* An event that failed in this cycle is pending, however its cycles end    *)
(* and whatever is healed by aging, if it ages in its own operation cycle.  *)
PendingCoversFailure ==
  \A e \in Events : AgingCycle[e] = OperationCycle[e] /\ Has(e, "TFTOC") => Has(e, "PENDING")

(* The entry of a failing event leaves the memory only by Dem_ClearDTC or   *)
(* for an event that is more important; neither aging nor Dem_Init loses it. *)
FailingEntryKept ==
  [][\A e \in Stored \ DOMAIN mem' :
       Has(e, "TF") => \/ clearing.next = e /\ clearing' # clearing
                      \/ \E f \in DOMAIN mem' \ Stored : Priority[f] < Priority[e]]_vars
=============================================================================
