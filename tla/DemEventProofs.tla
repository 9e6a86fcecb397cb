--------------------------- MODULE DemEventProofs ---------------------------
(***************************************************************************)
(* What the event memory promises, for any number of events, entries and   *)
(* cycles and any assignment of cycles, priorities and thresholds: first   *)
(* about its entries; then that the bits of a status fit together, that    *)
(* entries agree with their events, and that the entry of a failing event  *)
(* is kept.                                                                *)
(***************************************************************************)
EXTENDS DemEvent, FiniteSetTheorems, TLAPS

-----------------------------------------------------------------------------
(* The memory and the status records *)

\* What the steps below need of the constants.
LEMMA Sizes == /\ NEvents \in Nat /\ 1 \in Events /\ MemSize \in Nat /\ MemSize # 0 /\ CounterMax \in Nat
               /\ 0 \in Counter /\ \A n \in Nat : Saturated(n) \in Counter
               /\ \A e \in Events : e \in Nat /\ e # 0 /\ e <= NEvents
               /\ \A e \in Events : FailureThreshold[e] \in Counter /\ AgingThreshold[e] \in Counter
  <1>1. NEvents \in Nat /\ NEvents # 0 /\ MemSize \in Nat /\ MemSize # 0 /\ CounterMax \in Nat
    BY EventsAssumption
  <1>2. \A e \in Events : FailureThreshold[e] \in 1 .. CounterMax /\ AgingThreshold[e] \in 1 .. CounterMax
    BY EventsAssumption
  <1>3. 1 \in Events /\ \A e \in Events : e \in Nat /\ e # 0 /\ e <= NEvents
    BY <1>1 DEF Events
  <1> QED BY <1>1, <1>2, <1>3 DEF Counter, Saturated

MemType ==
  /\ Stored \subseteq Events /\ mem \in [Stored -> EntryType]
  /\ Cardinality(Stored) <= MemSize

\* The stored events can be counted.
LEMMA StoredFinite == ASSUME MemType
                      PROVE  IsFiniteSet(Stored) /\ Cardinality(Stored) \in Nat
  <1>1. IsFiniteSet(Events)
    BY Sizes, FS_Interval DEF Events
  <1>2. IsFiniteSet(Stored)
    BY <1>1, FS_Subset DEF MemType
  <1> QED BY <1>2, FS_CardinalityType

\* A status gives an entry.
LEMMA EntryOfStatus == ASSUME NEW r \in StatusType PROVE Entry(r) \in EntryType
  BY DEF StatusType, EntryType, Entry

\* Taking bits away, and displacement, leave a status.
LEMMA StatusKept == ASSUME NEW r \in StatusType, NEW bits
                    PROVE  Without(r, bits) \in StatusType /\ Displaced(r) \in StatusType
  <1>1. ASSUME NEW set PROVE Without(r, set) \in StatusType
    BY DEF StatusType, Without
  <1>2. ASSUME NEW q \in StatusType
        PROVE  [q EXCEPT !.failures = 0, !.failedF = FALSE, !.passedF = FALSE] \in StatusType
    BY Sizes DEF StatusType
  <1> QED BY <1>1, <1>2 DEF Displaced

\* Reports give a status.
LEMMA ReportType == ASSUME TypeOK, NEW e \in Events, NEW verdict
                    PROVE  Updated(e, verdict) \in StatusType
  <1> DEFINE confirmed == IF Confirms(e) THEN {"CONFIRMED"} ELSE {}
             failed == (status[e].bits \ {"TNCSLC", "TNCTOC"})
                         \cup {"TF", "TFTOC", "TFSLC", "PENDING"} \cup confirmed
  <1> status[e] \in StatusType BY DEF TypeOK
  <1>1. Failures(e) \in Counter
    <2>1. status[e].failures \in Counter BY DEF StatusType
    <2> QED BY <2>1, Sizes DEF Failures, Counter
  <1>2. failed \in SUBSET Bits
    BY DEF StatusType, Bits
  <1>3. OnFailed(e) \in StatusType
    <2>1. OnFailed(e) = [status[e] EXCEPT
             !.bits = failed, !.failures = Failures(e),
             !.failedF = @ \/ FailureCycle[e] \in started,
             !.failedA = @ \/ AgingCycle[e] \in started,
             !.aging = IF ClearsAging(e) THEN 0 ELSE @]
      BY DEF OnFailed
    <2> HIDE DEF failed
    <2> QED BY <1>1, <1>2, <2>1, Sizes DEF StatusType
  <1>4. OnPassed(e) \in StatusType
    BY DEF OnPassed, StatusType
  <1> QED BY <1>3, <1>4 DEF Updated

\* So do the start and the end of a cycle and aging.
LEMMA CycleType == ASSUME TypeOK, NEW e \in Events, NEW c
                   PROVE  /\ AtCycleStart(e, c) \in StatusType
                          /\ AtCycleEnd(e, c) \in StatusType
                          /\ Healed(e) \in StatusType
                          /\ [status[e] EXCEPT !.aging = 0] \in StatusType
                          /\ ~Aged(e) => [status[e] EXCEPT !.aging = @ + 1] \in StatusType
  <1> status[e] \in StatusType BY DEF TypeOK
  <1>1. AtCycleStart(e, c) \in StatusType
    <2> DEFINE bits == IF OperationCycle[e] = c THEN (status[e].bits \ {"TFTOC"}) \cup {"TNCTOC"}
                       ELSE status[e].bits
               failedF == status[e].failedF /\ FailureCycle[e] # c
               passedF == status[e].passedF /\ FailureCycle[e] # c
               failedA == status[e].failedA /\ AgingCycle[e] # c
               passedA == status[e].passedA /\ AgingCycle[e] # c
    <2>1. bits \in SUBSET Bits
      BY DEF StatusType, Bits
    <2>2. failedF \in BOOLEAN /\ passedF \in BOOLEAN /\ failedA \in BOOLEAN /\ passedA \in BOOLEAN
      OBVIOUS
    <2>3. AtCycleStart(e, c) = [status[e] EXCEPT !.bits = bits, !.failedF = failedF,
            !.passedF = passedF, !.failedA = failedA, !.passedA = passedA]
      BY DEF AtCycleStart
    <2> HIDE DEF bits, failedF, passedF, failedA, passedA
    <2> QED BY <2>1, <2>2, <2>3 DEF StatusType
  <1>2. AtCycleEnd(e, c) \in StatusType
    BY Sizes DEF AtCycleEnd, StatusType
  <1>3. Healed(e) \in StatusType
    <2>1. ASSUME NEW r \in StatusType PROVE [r EXCEPT !.aging = 0, !.failures = 0] \in StatusType
      BY Sizes DEF StatusType
    <2> QED BY <2>1, StatusKept DEF Healed
  <1>4. [status[e] EXCEPT !.aging = 0] \in StatusType
    BY Sizes DEF StatusType
  <1>5. ASSUME ~Aged(e) PROVE [status[e] EXCEPT !.aging = @ + 1] \in StatusType
    <2>1. status[e].aging \in Counter BY DEF StatusType
    <2>2. status[e].aging + 1 \in Counter
      BY <1>5, <2>1, Sizes DEF Aged, Saturated, Counter
    <2> QED BY <2>2 DEF StatusType
  <1> QED BY <1>1, <1>2, <1>3, <1>4, <1>5

\* The merge of a status with an entry is a status.
LEMMA MergeType == ASSUME TypeOK, NEW e \in Stored PROVE Merged(e) \in StatusType
  <1>1. e \in Events /\ status[e] \in StatusType /\ mem[e] \in EntryType
    BY DEF TypeOK
  <1>2. MergedBits(e) \in SUBSET Bits
    <2>1. status[e].bits \subseteq Bits /\ mem[e].bits \subseteq Bits
      BY <1>1 DEF StatusType, EntryType, StoredBits, Bits
    <2>2. "CONFIRMED" \in Bits
      BY DEF Bits
    <2> QED BY <2>1, <2>2 DEF MergedBits
  <1>3. /\ Saturated(status[e].failures + mem[e].failures) \in Counter
        /\ Saturated(status[e].aging + mem[e].aging) \in Counter
    <2>1. /\ status[e].failures \in Nat /\ mem[e].failures \in Nat
          /\ status[e].aging \in Nat /\ mem[e].aging \in Nat
      BY <1>1, Sizes DEF StatusType, EntryType, Counter
    <2> QED BY <2>1, Sizes
  <1> QED BY <1>1, <1>2, <1>3 DEF Merged, StatusType

\* Taking an entry out of the memory.
LEMMA RemovedMem == ASSUME MemType, NEW e
                    PROVE  /\ DOMAIN Removed(mem, e) = Stored \ {e}
                           /\ Removed(mem, e) \in [Stored \ {e} -> EntryType]
                           /\ Cardinality(Stored \ {e}) <= MemSize
                           /\ e \in Stored => Cardinality(Stored \ {e}) = Cardinality(Stored) - 1
  <1>1. Cardinality(Stored \ {e}) = IF e \in Stored THEN Cardinality(Stored) - 1 ELSE Cardinality(Stored)
    BY StoredFinite, FS_RemoveElement
  <1>2. Cardinality(Stored \ {e}) <= MemSize
    BY <1>1, StoredFinite, Sizes DEF MemType
  <1> QED BY <1>1, <1>2 DEF Removed, Stored, MemType

\* What storeEventMem does to the memory and to the statuses: event e gets its
\* entry, or finds no place and sets the overflow; another event keeps both its
\* status and its entry, or is displaced.
LEMMA StoreEffect ==
  ASSUME TypeOK, NEW e \in Events, NEW r \in StatusType, NEW refused \in StatusType,
         Store(e, r, refused)
  PROVE  /\ MemType'
         /\ status' \in [Events -> StatusType]
         /\ overflow' \in BOOLEAN
         /\ \/ e \in Stored' /\ status'[e] = r
            \/ e \notin Stored /\ e \notin Stored' /\ status'[e] = refused /\ overflow'
         /\ overflow => overflow'
         /\ \A f \in Events \ {e} :
              \/ status'[f] = status[f] /\ (f \in Stored <=> f \in Stored')
              \/ status'[f] = Displaced(status[f]) /\ f \notin Stored'
  <1> MemType BY DEF TypeOK, MemType
  <1> status \in [Events -> StatusType] /\ overflow \in BOOLEAN BY DEF TypeOK
  <1> Entry(r) \in EntryType BY EntryOfStatus
  <1>1. CASE HasRoom(e)
    <2>1. mem' = Added(mem, e, Entry(r)) /\ status' = [status EXCEPT ![e] = r] /\ overflow' = overflow
      BY <1>1 DEF Store
    <2>2. Stored' = Stored \cup {e} /\ mem' \in [Stored' -> EntryType]
      BY <2>1 DEF Stored, Added, MemType
    <2>3. Cardinality(Stored \cup {e}) = IF e \in Stored THEN Cardinality(Stored) ELSE Cardinality(Stored) + 1
      BY StoredFinite, FS_AddElement
    <2>4. Cardinality(Stored') <= MemSize
      <3>1. Cardinality(Stored) \in Nat BY StoredFinite
      <3>2. Cardinality(Stored \cup {e}) <= MemSize
        BY <1>1, <2>3, <3>1, Sizes DEF HasRoom, MemType
      <3> QED BY <2>2, <3>2
    <2> QED BY <2>1, <2>2, <2>4 DEF MemType
  <1>2. CASE ~HasRoom(e) /\ ToDisplace(e) = {}
    <2>1. mem' = mem /\ status' = [status EXCEPT ![e] = refused] /\ overflow' = TRUE
      BY <1>2 DEF Store
    <2>2. Stored' = Stored /\ e \notin Stored
      BY <1>2, <2>1 DEF Stored, HasRoom
    <2> QED BY <2>1, <2>2 DEF MemType
  <1>3. CASE ~HasRoom(e) /\ ToDisplace(e) # {}
    <2>1. PICK f \in ToDisplace(e) :
            /\ mem' = Added(Removed(mem, f), e, Entry(r))
            /\ status' = [status EXCEPT ![e] = r, ![f] = Displaced(status[f])]
            /\ overflow' = overflow
      BY <1>3 DEF Store
    <2>2. f \in Stored /\ f \in Events /\ e \notin Stored /\ f # e
      BY <1>3 DEF ToDisplace, Oldest, HasRoom, MemType
    <2>3. Stored' = (Stored \ {f}) \cup {e} /\ mem' \in [Stored' -> EntryType]
      BY <2>1, RemovedMem DEF Stored, Added
    <2>4. /\ IsFiniteSet(Stored \ {f})
          /\ Cardinality(Stored \ {f}) = Cardinality(Stored) - 1
      BY <2>2, StoredFinite, FS_RemoveElement
    <2>5. Cardinality(Stored') = Cardinality(Stored)
      <3>1. Cardinality((Stored \ {f}) \cup {e}) = Cardinality(Stored \ {f}) + 1
        BY <2>2, <2>4, FS_AddElement
      <3>2. Cardinality(Stored) \in Nat BY StoredFinite
      <3> QED BY <2>3, <2>4, <3>1, <3>2
    <2>6. Displaced(status[f]) \in StatusType
      BY <2>2, StatusKept
    <2> QED BY <2>1, <2>2, <2>3, <2>5, <2>6 DEF MemType
  <1> QED BY <1>1, <1>2, <1>3

-----------------------------------------------------------------------------
(* Type correctness *)

\* The loops' next steps are jobs again.
LEMMA AdvanceType ==
  /\ NoJob \in JobType
  /\ \A j \in JobType, kind \in {"none", "aging", "transfer", "store"} : Advance(j, kind) \in JobType
  <1>1. NoJob \in JobType
    BY Sizes, EventsAssumption DEF NoJob, JobType
  <1>2. ASSUME NEW j \in JobType, NEW kind \in {"none", "aging", "transfer", "store"}
        PROVE  Advance(j, kind) \in JobType
    <2>1. CASE j.next < NEvents
      <3>1. j.next \in Events
        BY DEF JobType
      <3>2. j.next + 1 \in Events
        BY <2>1, <3>1, Sizes DEF Events
      <3> QED BY <2>1, <3>2 DEF Advance, JobType
    <2>2. CASE ~(j.next < NEvents) /\ kind = "none"
      BY <1>1, <2>2 DEF Advance
    <2>3. CASE ~(j.next < NEvents) /\ kind # "none"
      BY <2>3, Sizes DEF Advance, JobType
    <2> QED BY <2>1, <2>2, <2>3
  <1> QED BY <1>1, <1>2

\* The parts of TypeOK an action on one event's status and entry changes.
LEMMA KeepEffect == ASSUME TypeOK, NEW e \in Events, NEW r \in StatusType, KeepMemory(e, r)
                    PROVE  /\ MemType' /\ status' \in [Events -> StatusType] /\ overflow' \in BOOLEAN
                           /\ Stored' = Stored /\ overflow' = overflow
                           /\ status' = [status EXCEPT ![e] = r]
  BY DEF KeepMemory, TypeOK, MemType, Stored

\* The statuses, the memory and the overflow flag keep their types.
LEMMA StoreType == ASSUME TypeOK, [Next]_vars
                   PROVE  MemType' /\ status' \in [Events -> StatusType] /\ overflow' \in BOOLEAN
  <1> USE DEF TypeOK
  <1> DEFINE Goal == MemType' /\ status' \in [Events -> StatusType] /\ overflow' \in BOOLEAN
  <1>a. ASSUME UNCHANGED <<mem, status, overflow>> PROVE Goal
    BY <1>a DEF MemType, Stored
  <1>b. ASSUME NEW c, StartCycle(c), UNCHANGED <<mem, overflow>> PROVE Goal
    BY <1>b, CycleType DEF MemType, Stored, StartCycle
  <1>c. DefaultStatus \in StatusType
    BY Sizes DEF DefaultStatus, StatusType, Bits
  <1>1. ASSUME NEW e \in Events, NEW verdict, HandleEvent(e, verdict) PROVE Goal
    <2>1. /\ Updated(e, verdict) \in StatusType
          /\ Without(Updated(e, verdict), {"CONFIRMED"}) \in StatusType
      BY ReportType, StatusKept
    <2> QED BY <1>1, <2>1, KeepEffect, StoreEffect DEF HandleEvent
  <1>2. ASSUME NEW e \in Events, NEW verdict, HandlePreInitEvent(e, verdict) PROVE Goal
    BY <1>2, ReportType, KeepEffect DEF HandlePreInitEvent
  <1>3. ASSUME NEW e \in Events, ResetEventStatus(e) PROVE Goal
    BY <1>3, StatusKept, KeepEffect DEF ResetEventStatus
  <1>4. ASSUME NEW c, OperationCycleStart(c) PROVE Goal
    BY <1>4, <1>b DEF OperationCycleStart
  <1>5. ASSUME NEW c, OperationCycleEnd(c) PROVE Goal
    BY <1>5, <1>a DEF OperationCycleEnd, EndCycle
  <1>6. CASE CycleEndOfEvent
    <2>1. job.next \in Events
      BY DEF JobType
    <2>2. AtCycleEnd(job.next, job.cycle) \in StatusType
      BY <2>1, CycleType
    <2> QED BY <1>6, <2>1, <2>2, KeepEffect, StoreEffect DEF CycleEndOfEvent
  <1>7. CASE AgingOfEvent
    <2>1. job.next \in Events
      BY DEF JobType
    <2>2. ASSUME NEW e \in Events, AgeEvent(e) PROVE Goal
      <3>1. Healed(e) \in StatusType /\ [status[e] EXCEPT !.aging = 0] \in StatusType
        BY CycleType
      <3>2. ~Aged(e) => [status[e] EXCEPT !.aging = @ + 1] \in StatusType
        BY CycleType
      <3>3. CASE PassesAging(e) /\ Aged(e) /\ e \in Stored
        <4>1. status' = [status EXCEPT ![e] = Healed(e)] /\ mem' = Removed(mem, e) /\ overflow' = overflow
          BY <2>2, <3>3 DEF AgeEvent, FailsAging
        <4>2. MemType'
          BY <4>1, RemovedMem DEF MemType, Stored
        <4> QED BY <3>1, <4>1, <4>2
      <3>4. CASE PassesAging(e) /\ Aged(e) /\ e \notin Stored
        BY <2>2, <3>1, <3>4, StoreEffect DEF AgeEvent, FailsAging
      <3>5. CASE PassesAging(e) /\ ~Aged(e)
        BY <2>2, <3>2, <3>5, StoreEffect DEF AgeEvent, FailsAging
      <3>6. CASE FailsAging(e)
        BY <2>2, <3>1, <3>6, StoreEffect DEF AgeEvent, FailsAging
      <3>7. CASE ~PassesAging(e) /\ ~FailsAging(e)
        BY <2>2, <3>7, <1>a DEF AgeEvent
      <3> QED BY <3>3, <3>4, <3>5, <3>6, <3>7
    <2> QED BY <1>7, <1>a, <2>1, <2>2 DEF AgingOfEvent
  <1>8. CASE Dem_PreInit
    BY <1>8, <1>c DEF Dem_PreInit, MemType, Stored
  <1>9. CASE Dem_Init
    BY <1>9, <1>a DEF Dem_Init
  <1>10. CASE MergeEvent
    BY <1>10, MergeType DEF MergeEvent, MemType, Stored
  <1>11. CASE TransferEvent
    BY <1>11, <1>a, StoreEffect DEF TransferEvent, JobType
  <1>12. CASE StorePreInitEvent
    BY <1>12, <1>a, StoreEffect DEF StorePreInitEvent, JobType
  <1>13. CASE Dem_Shutdown
    BY <1>13, <1>a DEF Dem_Shutdown, EndCycle
  <1>14. CASE WakeUp
    BY <1>14, <1>b DEF WakeUp
  <1>15. ASSUME NEW all, Dem_ClearDTC(all) PROVE Goal
    BY <1>15, <1>a DEF Dem_ClearDTC
  <1>16. CASE ClearEvent
    <2>1. CASE Cleared(clearing.next)
      <3>1. MemType'
        BY <1>16, <2>1, RemovedMem DEF Cleared, ClearEvent, MemType, Stored
      <3> QED BY <1>16, <2>1, <3>1, <1>c DEF Cleared, ClearEvent
    <2> QED BY <1>16, <2>1, <1>a DEF ClearEvent
  <1>17. CASE ClearEnds
    BY <1>17 DEF ClearEnds, MemType, Stored
  <1>18. CASE UNCHANGED vars
    BY <1>18, <1>a DEF vars
  <1> QED
    BY <1>1, <1>2, <1>3, <1>4, <1>5, <1>6, <1>7, <1>8, <1>9, <1>10, <1>11, <1>12, <1>13, <1>14,
       <1>15, <1>16, <1>17, <1>18 DEF Next

ControlType ==
  /\ state \in {"PREINITIALIZED", "INITIALIZED", "SHUTDOWN"}
  /\ older \subseteq Events \X Events
  /\ started \subseteq Cycles
  /\ job \in JobType
  /\ clearing \in [next : 0 .. NEvents + 1, all : BOOLEAN, ok : BOOLEAN]

\* So do the DEM's state, the time stamps, the cycles and the loops.
LEMMA ControlTypeKept == ASSUME TypeOK, [Next]_vars PROVE ControlType'
  <1> USE DEF ControlType
  <1>0. ControlType
    BY DEF TypeOK
  <1>a. ASSUME NEW e \in Events PROVE Newest(e) \subseteq Events \X Events /\ NotOf(e) \subseteq Events \X Events
    BY <1>0 DEF Newest, NotOf
  <1>b. NoJob \in JobType /\ Active \in Cycles
    BY AdvanceType, EventsAssumption
  <1>c. ASSUME NEW c \in Cycles, NEW b \in BOOLEAN, EndCycle(c, b)
        PROVE  started' \subseteq Cycles /\ job' \in JobType
    BY <1>0, <1>b, <1>c DEF EndCycle, JobType
  <1>1. ASSUME NEW e \in Events, NEW verdict, HandleEvent(e, verdict) PROVE ControlType'
    BY <1>0, <1>1, <1>a DEF HandleEvent, SetTimeStamp
  <1>2. ASSUME NEW e \in Events, NEW verdict, HandlePreInitEvent(e, verdict) PROVE ControlType'
    BY <1>0, <1>2, <1>a DEF HandlePreInitEvent, SetTimeStamp
  <1>3. ASSUME NEW e \in Events, ResetEventStatus(e) PROVE ControlType'
    BY <1>0, <1>3 DEF ResetEventStatus
  <1>4. ASSUME NEW c \in Cycles, OperationCycleStart(c) PROVE ControlType'
    BY <1>0, <1>4 DEF OperationCycleStart, StartCycle
  <1>5. ASSUME NEW c \in Cycles, OperationCycleEnd(c) PROVE ControlType'
    BY <1>0, <1>5, <1>c DEF OperationCycleEnd, EndCycle
  <1>6. CASE CycleEndOfEvent
    BY <1>0, <1>6, AdvanceType DEF CycleEndOfEvent
  <1>7. CASE AgingOfEvent
    BY <1>0, <1>7, AdvanceType DEF AgingOfEvent
  <1>8. CASE Dem_PreInit
    BY <1>0, <1>8, <1>b, Sizes DEF Dem_PreInit
  <1>9. CASE Dem_Init
    BY <1>0, <1>9, <1>b DEF Dem_Init, JobType
  <1>10. CASE MergeEvent
    <2>1. [job EXCEPT !.changed = IF job.next \in Stored /\ MergeChanges(job.next)
                                  THEN @ \cup {job.next} ELSE @] \in JobType
      BY <1>0 DEF JobType
    <2> QED BY <1>0, <1>10, <2>1, AdvanceType DEF MergeEvent
  <1>11. CASE TransferEvent
    BY <1>0, <1>11, AdvanceType DEF TransferEvent
  <1>12. CASE StorePreInitEvent
    BY <1>0, <1>12, AdvanceType DEF StorePreInitEvent
  <1>13. CASE Dem_Shutdown
    BY <1>0, <1>13, <1>b, <1>c DEF Dem_Shutdown, EndCycle
  <1>14. CASE WakeUp
    BY <1>0, <1>14, <1>b DEF WakeUp, StartCycle
  <1>15. ASSUME NEW all \in BOOLEAN, Dem_ClearDTC(all) PROVE ControlType'
    BY <1>0, <1>15, Sizes DEF Dem_ClearDTC
  <1>16. CASE ClearEvent
    <2>1. clearing.next \in Events
      BY <1>16 DEF ClearEvent
    <2>2. clearing.next + 1 \in 0 .. NEvents + 1
      BY <2>1, Sizes DEF Events
    <2>3. clearing' \in [next : 0 .. NEvents + 1, all : BOOLEAN, ok : BOOLEAN]
      BY <1>0, <1>16, <2>2 DEF ClearEvent
    <2>4. older' \subseteq Events \X Events
      BY <1>0, <1>16, <1>a, <2>1 DEF ClearEvent, Cleared
    <2> QED BY <1>0, <1>16, <2>3, <2>4 DEF ClearEvent
  <1>17. CASE ClearEnds
    BY <1>0, <1>17, Sizes DEF ClearEnds
  <1>18. CASE UNCHANGED vars
    BY <1>0, <1>18 DEF vars
  <1> QED
    BY <1>1, <1>2, <1>3, <1>4, <1>5, <1>6, <1>7, <1>8, <1>9, <1>10, <1>11, <1>12, <1>13, <1>14,
       <1>15, <1>16, <1>17, <1>18 DEF Next

\* The program starts with an empty memory.
LEMMA InitType == ASSUME Init PROVE TypeOK
  <1>1. DefaultStatus \in StatusType
    BY Sizes DEF DefaultStatus, StatusType, Bits
  <1>2. Stored = {} /\ mem \in [Stored -> EntryType] /\ Cardinality(Stored) <= MemSize
    <2>1. Stored = {} /\ mem \in [Stored -> EntryType]
      BY DEF Init, Stored
    <2>2. Cardinality(Stored) = 0
      BY <2>1, FS_EmptySet
    <2> QED BY <2>1, <2>2, Sizes
  <1>3. job \in JobType /\ started \subseteq Cycles
    BY AdvanceType, EventsAssumption DEF Init
  <1>4. clearing \in [next : 0 .. NEvents + 1, all : BOOLEAN, ok : BOOLEAN]
    BY Sizes DEF Init
  <1>5. status \in [Events -> StatusType]
    BY <1>1 DEF Init
  <1> QED BY <1>2, <1>3, <1>4, <1>5 DEF Init, TypeOK

\* The state is well typed in every state: the memory has an entry for at most
\* MemSize events whatever is stored, displaced, aged and cleared.
THEOREM TypeInvariant == Spec => []TypeOK
  <1>1. TypeOK /\ [Next]_vars => TypeOK'
    BY StoreType, ControlTypeKept DEF TypeOK, MemType, ControlType
  <1> QED BY <1>1, InitType, PTL DEF Spec

-----------------------------------------------------------------------------
(* Confirmed events *)

\* A loop runs in the state that starts it.
LoopsInPhase ==
  /\ state = "PREINITIALIZED" => clearing.next = 0
  /\ job.kind \in {"merge", "transfer", "store"} => state = "PREINITIALIZED"
  /\ job.kind \in {"cycle end", "aging"} => state = "INITIALIZED"

Lost(e) == Has(e, "CONFIRMED") /\ e \notin Stored

\* The loop that stores what was reported before Dem_Init is still to come to e.
StillToStore(e) == state = "PREINITIALIZED" /\ (job.kind = "store" => job.next <= e)

\* An event that is confirmed and not stored was reported before Dem_Init; the
\* store loop takes it if it is still to come, and signals the overflow if it
\* has no place; a Dem_ClearDTC that goes over the event clears it.
LostAccounted ==
  \A e \in Events : Lost(e) =>
    /\ "before Dem_Init" \in PreInitReports
    /\ IF StillToStore(e) THEN Has(e, "TFTOC") /\ ~Has(e, "TNCTOC")
       ELSE overflow /\ ~(clearing.all /\ clearing.ok /\ e < clearing.next)

IInv == TypeOK /\ LoopsInPhase /\ LostAccounted

\* A loop is followed by itself or by the next one.
LEMMA AdvanceKind == ASSUME NEW j \in JobType, NEW kind \in {"none", "aging", "transfer", "store"}
                     PROVE  Advance(j, kind).kind \in {kind, j.kind}
  BY DEF Advance, JobType, NoJob

\* The loops stay in their phases.
LEMMA LoopsKept == ASSUME TypeOK, LoopsInPhase, [Next]_vars PROVE LoopsInPhase'
  <1> USE DEF LoopsInPhase, AreaFree, Initialized
  <1>a. NoJob.kind = "none"
    BY DEF NoJob
  <1>b. job \in JobType
    BY DEF TypeOK
  <1>1. ASSUME NEW e, NEW verdict, HandleEvent(e, verdict) PROVE LoopsInPhase'
    BY <1>1 DEF HandleEvent
  <1>2. ASSUME NEW e, NEW verdict, HandlePreInitEvent(e, verdict) PROVE LoopsInPhase'
    BY <1>2 DEF HandlePreInitEvent
  <1>3. ASSUME NEW e, ResetEventStatus(e) PROVE LoopsInPhase'
    BY <1>3 DEF ResetEventStatus
  <1>4. ASSUME NEW c, OperationCycleStart(c) PROVE LoopsInPhase'
    BY <1>4 DEF OperationCycleStart
  <1>5. ASSUME NEW c, NEW b, Initialized, EndCycle(c, b) PROVE LoopsInPhase'
    <2>1. job'.kind = "cycle end" /\ state' = "INITIALIZED"
      BY <1>5 DEF EndCycle, NoJob
    <2> QED BY <2>1
  <1>6. CASE CycleEndOfEvent
    <2>1. job'.kind \in {"aging", "cycle end"}
      BY <1>6, AdvanceKind, <1>b DEF CycleEndOfEvent
    <2> QED BY <1>6, <2>1 DEF CycleEndOfEvent
  <1>7. CASE AgingOfEvent
    <2>1. job'.kind \in {"none", "aging"}
      BY <1>7, AdvanceKind, <1>b DEF AgingOfEvent
    <2> QED BY <1>7, <2>1 DEF AgingOfEvent
  <1>8. CASE Dem_PreInit
    BY <1>8, <1>a DEF Dem_PreInit
  <1>9. CASE Dem_Init
    <2>1. job'.kind = "merge"
      BY <1>9 DEF Dem_Init, NoJob
    <2> QED BY <1>9, <2>1 DEF Dem_Init
  <1>10. CASE MergeEvent
    <2> DEFINE j == [job EXCEPT !.changed = IF job.next \in Stored /\ MergeChanges(job.next)
                                            THEN @ \cup {job.next} ELSE @]
    <2>1. j \in JobType /\ j.kind = "merge"
      BY <1>b, <1>10 DEF JobType, MergeEvent
    <2>2. job' = Advance(j, "transfer")
      BY <1>10 DEF MergeEvent
    <2> HIDE DEF j
    <2>3. job'.kind \in {"merge", "transfer"}
      BY AdvanceKind, <2>1, <2>2
    <2> QED BY <1>10, <2>3 DEF MergeEvent
  <1>11. CASE TransferEvent
    <2>1. job'.kind \in {"transfer", "store"}
      BY <1>11, AdvanceKind, <1>b DEF TransferEvent
    <2> QED BY <1>11, <2>1 DEF TransferEvent
  <1>12. CASE StorePreInitEvent
    <2>1. job'.kind \in {"store", "none"}
      BY <1>12, AdvanceKind, <1>b DEF StorePreInitEvent
    <2> QED BY <1>12, <2>1 DEF StorePreInitEvent
  <1>13. CASE WakeUp
    BY <1>13 DEF WakeUp
  <1>14. ASSUME NEW all, Dem_ClearDTC(all) PROVE LoopsInPhase'
    BY <1>14 DEF Dem_ClearDTC
  <1>15. CASE ClearEvent
    <2>1. clearing.next \in Events
      BY <1>15 DEF ClearEvent
    <2>2. clearing.next # 0
      BY <2>1, Sizes
    <2> QED BY <1>15, <2>2 DEF ClearEvent
  <1>16. CASE ClearEnds
    BY <1>16 DEF ClearEnds
  <1>17. CASE UNCHANGED vars
    BY <1>17 DEF vars
  <1> QED
    BY <1>1, <1>2, <1>3, <1>4, <1>5, <1>6, <1>7, <1>8, <1>9, <1>10, <1>11, <1>12, <1>13, <1>14,
       <1>15, <1>16, <1>17 DEF Next, OperationCycleEnd, Dem_Shutdown

\* storeEventMem loses no other event, and event e only for want of a place,
\* with the overflow set.
LEMMA LostByStore ==
  ASSUME TypeOK, NEW e \in Events, NEW r \in StatusType, NEW refused \in StatusType,
         Store(e, r, refused)
  PROVE  /\ overflow => overflow'
         /\ Lost(e)' => e \notin Stored /\ "CONFIRMED" \in refused.bits /\ overflow'
         /\ \A f \in Events \ {e} : Lost(f)' => Lost(f) /\ status'[f] = status[f]
  <1>1. overflow => overflow'
    BY StoreEffect
  <1>2. Lost(e)' => e \notin Stored /\ "CONFIRMED" \in refused.bits /\ overflow'
    BY StoreEffect DEF Lost, Has
  <1>3. ASSUME NEW f \in Events \ {e}, Lost(f)' PROVE Lost(f) /\ status'[f] = status[f]
    <2>1. "CONFIRMED" \in status'[f].bits /\ f \notin Stored'
      BY <1>3 DEF Lost, Has
    <2>2. status[f] \in StatusType
      BY DEF TypeOK
    <2>3. "CONFIRMED" \notin Displaced(status[f]).bits
      BY <2>2 DEF Displaced, Without, StatusType
    <2>4. status'[f] = status[f] /\ f \notin Stored
      BY <2>1, <2>3, StoreEffect
    <2> QED BY <2>1, <2>4 DEF Lost, Has
  <1> QED BY <1>1, <1>2, <1>3

\* After Dem_Init no report, no cycle and no aging adds a lost event.
LEMMA NoneLostByReport ==
  ASSUME TypeOK, NEW e \in Events, NEW verdict, HandleEvent(e, verdict), NEW f \in Events, Lost(f)'
  PROVE  Lost(f) /\ (overflow => overflow')
  <1> USE DEF TypeOK
  <1> status[e] \in StatusType OBVIOUS
  <1> DEFINE r == Updated(e, verdict)
             refused == Without(r, {"CONFIRMED"})
  <1>1. r \in StatusType /\ refused \in StatusType
    BY ReportType, StatusKept
  <1>2. CASE Changes(e, verdict)
    <2>1. Store(e, r, refused)
      BY <1>2 DEF HandleEvent
    <2>2. "CONFIRMED" \notin refused.bits
      BY <1>1 DEF Without, StatusType
    <2> HIDE DEF r, refused
    <2> QED BY <1>1, <2>1, <2>2, LostByStore
  <1>3. CASE ~Changes(e, verdict)
    <2>1. KeepMemory(e, r)
      BY <1>3 DEF HandleEvent
    <2>2. "CONFIRMED" \in r.bits => "CONFIRMED" \in status[e].bits
      <3>1. CASE verdict = "FAILED"
        <4>1. ~Confirms(e)
          BY <1>3, <3>1 DEF Changes, Confirms
        <4> QED BY <3>1, <4>1 DEF Updated, OnFailed, StatusType
      <3>2. CASE verdict # "FAILED"
        BY <3>2 DEF Updated, OnPassed, StatusType
      <3> QED BY <3>1, <3>2
    <2> HIDE DEF r
    <2>3. Stored' = Stored /\ overflow' = overflow /\ status' = [status EXCEPT ![e] = r]
      BY <1>1, <2>1, KeepEffect
    <2> QED BY <2>2, <2>3 DEF Lost, Has
  <1> QED BY <1>2, <1>3

LEMMA NoneLostAtCycleEnd ==
  ASSUME TypeOK, CycleEndOfEvent, NEW f \in Events, Lost(f)'
  PROVE  Lost(f) /\ (overflow => overflow')
  <1> DEFINE e == job.next
             r == AtCycleEnd(e, job.cycle)
  <1>1. e \in Events /\ status[e] \in StatusType
    BY DEF TypeOK, JobType
  <1>2. r \in StatusType
    BY <1>1, CycleType
  <1>3. "CONFIRMED" \in r.bits => "CONFIRMED" \in status[e].bits
    BY <1>1 DEF AtCycleEnd, StatusType
  <1>4. Store(e, r, r) \/ KeepMemory(e, r)
    BY DEF CycleEndOfEvent
  <1>5. status \in [Events -> StatusType]
    BY DEF TypeOK
  <1> HIDE DEF e, r
  <1>6. CASE Store(e, r, r)
    BY <1>1, <1>2, <1>3, <1>6, LostByStore DEF Lost, Has
  <1>7. CASE KeepMemory(e, r)
    <2>1. Stored' = Stored /\ overflow' = overflow /\ status' = [status EXCEPT ![e] = r]
      BY <1>1, <1>2, <1>7, KeepEffect
    <2> QED BY <1>1, <1>3, <1>5, <2>1 DEF Lost, Has
  <1> QED BY <1>4, <1>6, <1>7

LEMMA NoneLostByAging ==
  ASSUME TypeOK, NEW e \in Events, AgeEvent(e), NEW f \in Events, Lost(f)'
  PROVE  Lost(f) /\ (overflow => overflow')
  <1>1. status[e] \in StatusType /\ status \in [Events -> StatusType] /\ MemType
    BY DEF TypeOK, MemType
  <1>2. Healed(e) \in StatusType /\ "CONFIRMED" \notin Healed(e).bits
    <2>1. Without(status[e], {"CONFIRMED", "PENDING"}) \in StatusType
      BY <1>1, StatusKept
    <2>2. Healed(e).bits = status[e].bits \ {"CONFIRMED", "PENDING"}
      BY <1>1, <2>1 DEF Healed, Without, StatusType
    <2> QED BY <2>2, CycleType
  <1>3. ASSUME NEW n, [status[e] EXCEPT !.aging = n] \in StatusType,
               Store(e, [status[e] EXCEPT !.aging = n], [status[e] EXCEPT !.aging = n])
        PROVE  Lost(f) /\ (overflow => overflow')
    <2> DEFINE r == [status[e] EXCEPT !.aging = n]
    <2>1. r.bits = status[e].bits
      BY <1>1 DEF StatusType
    <2> HIDE DEF r
    <2> QED BY <1>3, <2>1, LostByStore DEF Lost, Has, r
  <1>4. CASE PassesAging(e) /\ Aged(e) /\ e \in Stored
    <2>1. status' = [status EXCEPT ![e] = Healed(e)] /\ mem' = Removed(mem, e) /\ overflow' = overflow
      BY <1>4 DEF AgeEvent, FailsAging
    <2>2. Stored' = Stored \ {e}
      BY <1>1, <2>1, RemovedMem DEF Stored
    <2> QED BY <1>1, <1>2, <2>1, <2>2 DEF Lost, Has
  <1>5. CASE PassesAging(e) /\ Aged(e) /\ e \notin Stored
    <2>1. Store(e, Healed(e), Healed(e))
      BY <1>5 DEF AgeEvent, FailsAging
    <2> QED BY <1>2, <2>1, LostByStore
  <1>6. CASE PassesAging(e) /\ ~Aged(e)
    <2>1. [status[e] EXCEPT !.aging = status[e].aging + 1] \in StatusType
      BY <1>6, CycleType
    <2>2. Store(e, [status[e] EXCEPT !.aging = status[e].aging + 1],
                   [status[e] EXCEPT !.aging = status[e].aging + 1])
      BY <1>6 DEF AgeEvent, FailsAging
    <2> QED BY <1>3, <2>1, <2>2
  <1>7. CASE FailsAging(e)
    <2>1. [status[e] EXCEPT !.aging = 0] \in StatusType
      BY CycleType
    <2>2. Store(e, [status[e] EXCEPT !.aging = 0], [status[e] EXCEPT !.aging = 0])
      BY <1>7 DEF AgeEvent, FailsAging
    <2> QED BY <1>3, <2>1, <2>2
  <1>8. CASE ~PassesAging(e) /\ ~FailsAging(e)
    BY <1>8 DEF AgeEvent, Lost, Has, Stored
  <1> QED BY <1>4, <1>5, <1>6, <1>7, <1>8

\* The order of the events in the loops.
LEMMA LoopOrder == \A a, b \in Nat : /\ a # b /\ a < b + 1 => a < b
                                     /\ b + 1 <= a <=> b < a
                                     /\ a < b => a # b /\ ~(b <= a)
                                     /\ a # b => (b <= a <=> b < a)
                                     /\ a <= a /\ ~(a < a) /\ ~(a < 0)
                                     /\ a # 0 => 1 <= a /\ ~(a < 1)
  OBVIOUS

LEMMA LoopEnd == \A a, b, n \in Nat : /\ b <= n /\ ~(a < n) => ~(a < b)
                                      /\ b <= n /\ a > n => b < a /\ a # 0
  OBVIOUS

LEMMA LoopRange == \A n \in Nat : \A a \in 0 .. n + 1 : a \in Nat
  OBVIOUS

\* The reports before Dem_Init, its loops and Dem_ClearDTC keep LostAccounted.
LEMMA LostAccountedKept ==
  ASSUME IInv, [Next]_vars, "during Dem_Init" \notin PreInitReports
  PROVE  LostAccounted'
  <1> SUFFICES ASSUME NEW f \in Events, Lost(f)'
               PROVE  /\ "before Dem_Init" \in PreInitReports
                      /\ StillToStore(f)' => Has(f, "TFTOC")' /\ ~Has(f, "TNCTOC")'
                      /\ ~StillToStore(f)' => /\ overflow'
                                              /\ ~(clearing'.all /\ clearing'.ok /\ f < clearing'.next)
    BY DEF LostAccounted
  <1> DEFINE Goal == /\ "before Dem_Init" \in PreInitReports
                     /\ StillToStore(f)' => Has(f, "TFTOC")' /\ ~Has(f, "TNCTOC")'
                     /\ ~StillToStore(f)' => /\ overflow'
                                             /\ ~(clearing'.all /\ clearing'.ok /\ f < clearing'.next)
  <1>0. TypeOK /\ LoopsInPhase /\ LostAccounted
    BY DEF IInv
  <1>t. /\ status \in [Events -> StatusType] /\ job \in JobType /\ job.next \in Events
        /\ clearing.next \in Nat
    <2>1. clearing.next \in 0 .. NEvents + 1
      BY <1>0 DEF TypeOK
    <2>2. clearing.next \in Nat
      BY <2>1, Sizes, LoopRange, Zenon
    <2> QED BY <1>0, <2>2 DEF TypeOK, JobType
  \* After Dem_Init, with the loop of Dem_ClearDTC where it is.
  <1>a. ASSUME state # "PREINITIALIZED", state' # "PREINITIALIZED", clearing' = clearing,
               Lost(f), overflow => overflow'
        PROVE  Goal
    BY <1>0, <1>a DEF LostAccounted, StillToStore
  \* Nothing changes for f.
  <1>b. ASSUME StillToStore(f)' <=> StillToStore(f), clearing' = clearing, Lost(f),
               overflow => overflow', status'[f] = status[f]
        PROVE  Goal
    BY <1>0, <1>b DEF LostAccounted, Has
  <1>1. ASSUME NEW e \in Events, NEW verdict, HandleEvent(e, verdict) PROVE Goal
    <2>1. state = "INITIALIZED" /\ state' = state /\ clearing' = clearing
      BY <1>1 DEF HandleEvent, Initialized
    <2> QED BY <1>0, <1>1, <1>a, <2>1, NoneLostByReport
  <1>2. ASSUME NEW e \in Events, NEW verdict \in {"FAILED", "PASSED"}, HandlePreInitEvent(e, verdict)
        PROVE  Goal
    <2> DEFINE r == Updated(e, verdict)
    <2>1. /\ state = "PREINITIALIZED" /\ UNCHANGED <<state, job, clearing>> /\ job.kind = "none"
          /\ KeepMemory(e, r) /\ "before Dem_Init" \in PreInitReports
      BY <1>2 DEF HandlePreInitEvent
    <2>2. StillToStore(f) /\ StillToStore(f)'
      BY <2>1 DEF StillToStore
    <2>3. r \in StatusType
      BY <1>0, ReportType
    <2>4. Stored' = Stored /\ overflow' = overflow /\ status' = [status EXCEPT ![e] = r]
      BY <1>0, <2>1, <2>3, KeepEffect
    <2>5. CASE f # e
      BY <1>b, <1>t, <2>1, <2>2, <2>4, <2>5 DEF Lost, Has
    <2>6. CASE f = e /\ verdict = "FAILED"
      <3>1. "TFTOC" \in r.bits /\ "TNCTOC" \notin r.bits
        BY <1>t, <2>6 DEF Updated, OnFailed, StatusType
      <3> QED BY <1>t, <2>1, <2>2, <2>4, <2>6, <3>1 DEF Has
    <2>7. CASE f = e /\ verdict = "PASSED"
      <3>1. r.bits = status[e].bits \ {"TF", "TNCSLC", "TNCTOC"}
        BY <1>t, <2>7 DEF Updated, OnPassed, StatusType
      <3> HIDE DEF r
      <3>2. Lost(e)
        BY <1>t, <2>4, <2>7, <3>1 DEF Lost, Has
      <3>3. Has(e, "TFTOC")
        BY <1>0, <2>2, <2>7, <3>2 DEF LostAccounted
      <3> QED BY <1>t, <2>1, <2>2, <2>4, <2>7, <3>1, <3>3 DEF Has
    <2> QED BY <2>5, <2>6, <2>7
  <1>3. ASSUME NEW e \in Events, ResetEventStatus(e) PROVE Goal
    <2> DEFINE r == Without(status[e], {"TF"})
    <2>1. /\ state = "INITIALIZED" /\ UNCHANGED <<state, clearing>> /\ KeepMemory(e, r)
      BY <1>3 DEF ResetEventStatus, Initialized
    <2>2. r \in StatusType /\ r.bits \subseteq status[e].bits
      <3>1. status[e] \in StatusType
        BY <1>t
      <3> QED BY <3>1, StatusKept DEF Without, StatusType
    <2> HIDE DEF r
    <2>3. Stored' = Stored /\ overflow' = overflow /\ status' = [status EXCEPT ![e] = r]
      BY <1>0, <2>1, <2>2, KeepEffect
    <2>4. Lost(f)
      BY <1>t, <2>2, <2>3 DEF Lost, Has
    <2> QED BY <1>a, <2>1, <2>3, <2>4
  <1>c. ASSUME NEW c, StartCycle(c), UNCHANGED <<mem, overflow>> PROVE Lost(f) /\ (overflow => overflow')
    <2>1. status'[f].bits \subseteq status[f].bits \cup {"TNCTOC"}
      BY <1>c, <1>t DEF StartCycle, AtCycleStart, StatusType
    <2> QED BY <1>c, <2>1 DEF Lost, Has, Stored
  <1>4. ASSUME NEW c, OperationCycleStart(c) PROVE Goal
    BY <1>4, <1>a, <1>c DEF OperationCycleStart, Initialized
  <1>5. ASSUME NEW c, NEW shutdown, Initialized, EndCycle(c, shutdown) PROVE Goal
    BY <1>5, <1>a DEF EndCycle, Initialized, Lost, Has, Stored
  <1>6. CASE CycleEndOfEvent
    <2>1. state = "INITIALIZED" /\ state' = state /\ clearing' = clearing
      BY <1>0, <1>6 DEF CycleEndOfEvent, LoopsInPhase
    <2> QED BY <1>0, <1>6, <1>a, <2>1, NoneLostAtCycleEnd
  <1>7. CASE AgingOfEvent
    <2>1. state # "PREINITIALIZED" /\ state' # "PREINITIALIZED" /\ clearing' = clearing
      BY <1>0, <1>7 DEF AgingOfEvent, LoopsInPhase
    <2>2. CASE AgeEvent(job.next)
      BY <1>0, <1>t, <1>a, <2>1, <2>2, NoneLostByAging
    <2>3. CASE UNCHANGED <<status, mem, overflow>>
      BY <1>a, <2>1, <2>3 DEF Lost, Has, Stored
    <2> QED BY <1>7, <2>2, <2>3 DEF AgingOfEvent
  <1>8. CASE Dem_PreInit
    BY <1>8 DEF Dem_PreInit, Lost, Has, DefaultStatus
  <1>9. CASE Dem_Init
    <2>1. job.kind = "none" /\ job'.kind = "merge" /\ UNCHANGED <<state, status, mem, overflow, clearing>>
      BY <1>9 DEF Dem_Init, NoJob
    <2> QED BY <1>b, <2>1 DEF StillToStore, Lost, Has, Stored
  <1>10. CASE MergeEvent
    <2> DEFINE j == [job EXCEPT !.changed = IF job.next \in Stored /\ MergeChanges(job.next)
                                            THEN @ \cup {job.next} ELSE @]
    <2>1. j \in JobType /\ j.kind = "merge"
      BY <1>t, <1>10 DEF JobType, MergeEvent
    <2>2. job' = Advance(j, "transfer") /\ job.kind = "merge" /\ UNCHANGED <<state, mem, overflow, clearing>>
      BY <1>10 DEF MergeEvent
    <2> HIDE DEF j
    <2>3. job'.kind \in {"merge", "transfer"}
      BY AdvanceKind, <2>1, <2>2
    <2>4. Stored' = Stored /\ f \notin Stored
      BY <2>2 DEF Stored, Lost
    <2>5. status'[f] = status[f]
      BY <1>t, <1>10, <2>4 DEF MergeEvent
    <2>6. Lost(f)
      BY <2>4, <2>5 DEF Lost, Has
    <2> QED BY <1>b, <2>2, <2>3, <2>5, <2>6 DEF StillToStore
  <1>11. CASE TransferEvent
    <2> DEFINE e == job.next
    <2>1. /\ job.kind = "transfer" /\ job' = Advance(job, "store") /\ UNCHANGED <<state, clearing>>
          /\ state = "PREINITIALIZED"
      BY <1>0, <1>11 DEF TransferEvent, LoopsInPhase
    <2>2. Lost(f) /\ status'[f] = status[f] /\ (overflow => overflow')
      <3>1. CASE e \in Stored /\ Store(e, status[e], status[e])
        BY <1>0, <1>t, <3>1, LostByStore
      <3>2. CASE UNCHANGED <<status, mem, overflow>>
        BY <3>2 DEF Lost, Has, Stored
      <3> QED BY <1>11, <3>1, <3>2 DEF TransferEvent
    <2>3. job'.kind = "store" => job'.next = 1
      BY <1>t, <2>1 DEF Advance, JobType
    <2>4. f \in Nat /\ f # 0
      BY Sizes
    <2>5. StillToStore(f) /\ StillToStore(f)'
      <3>1. job'.kind = "store" => job'.next <= f
        BY <2>3, <2>4, LoopOrder, Zenon
      <3> QED BY <2>1, <3>1 DEF StillToStore
    <2> QED BY <1>b, <2>1, <2>2, <2>5
  <1>12. CASE StorePreInitEvent
    <2> DEFINE e == job.next
               takes == e \notin Stored /\ "TNCTOC" \notin status[e].bits /\ "TFTOC" \in status[e].bits
    <2>1. /\ job.kind = "store" /\ job' = Advance(job, "none") /\ UNCHANGED clearing
          /\ state' = IF job'.kind = "none" THEN "INITIALIZED" ELSE state
          /\ state = "PREINITIALIZED" /\ clearing.next = 0
      BY <1>0, <1>12 DEF StorePreInitEvent, LoopsInPhase
    <2>2. \/ takes /\ Store(e, status[e], status[e])
          \/ ~takes /\ UNCHANGED <<status, mem, overflow>>
      BY <1>12 DEF StorePreInitEvent
    <2>3. /\ e < NEvents => job'.kind = "store" /\ job'.next = e + 1
          /\ ~(e < NEvents) => job'.kind = "none"
      BY <1>t, <2>1 DEF Advance, JobType, NoJob
    <2>4. e \in Nat /\ f \in Nat /\ f <= NEvents /\ NEvents \in Nat
      BY <1>t, Sizes
    <2>5. StillToStore(f) <=> e <= f
      BY <2>1 DEF StillToStore
    <2>6. StillToStore(f)' <=> e < f
      <3>1. CASE e < NEvents
        <4>1. state' = "PREINITIALIZED" /\ job'.kind = "store" /\ job'.next = e + 1
          BY <2>1, <2>3, <3>1
        <4>2. StillToStore(f)' <=> e + 1 <= f
          BY <4>1, Zenon DEF StillToStore
        <4> QED BY <2>4, <4>2, LoopOrder, Zenon
      <3>2. CASE ~(e < NEvents)
        <4>1. state' = "INITIALIZED"
          BY <2>1, <2>3, <3>2
        <4>2. ~(e < f)
          BY <2>4, <3>2, LoopEnd, Zenon
        <4> QED BY <4>1, <4>2 DEF StillToStore
      <3> QED BY <3>1, <3>2
    <2>7. CASE f # e
      <3>1. Lost(f) /\ status'[f] = status[f] /\ (overflow => overflow')
        <4>1. CASE takes /\ Store(e, status[e], status[e])
          BY <1>0, <1>t, <2>7, <4>1, LostByStore
        <4>2. CASE UNCHANGED <<status, mem, overflow>>
          BY <4>2 DEF Lost, Has, Stored
        <4> QED BY <2>2, <4>1, <4>2
      <3>2. StillToStore(f)' <=> StillToStore(f)
        <4>1. e <= f <=> e < f
          BY <2>4, <2>7, LoopOrder, Zenon
        <4> QED BY <2>5, <2>6, <4>1
      <3> QED BY <1>b, <2>1, <3>1, <3>2
    <2>8. CASE f = e
      <3>1. ~StillToStore(f)' /\ StillToStore(f)
        BY <2>4, <2>5, <2>6, <2>8, LoopOrder, Zenon
      <3>2. ~(f < clearing'.next)
        <4>1. clearing'.next = 0
          BY <2>1
        <4> QED BY <2>4, <4>1, LoopOrder, Zenon
      <3>3. CASE takes /\ Store(e, status[e], status[e])
        <4>1. overflow' /\ "CONFIRMED" \in status[e].bits
          BY <1>0, <1>t, <2>8, <3>3, LostByStore
        <4>2. Lost(e)
          BY <3>3, <4>1 DEF Lost, Has
        <4>3. "before Dem_Init" \in PreInitReports
          BY <1>0, <1>t, <4>2 DEF LostAccounted
        <4> QED BY <3>1, <3>2, <4>1, <4>3
      <3>4. CASE ~takes /\ UNCHANGED <<status, mem, overflow>>
        <4>1. Lost(e)
          BY <2>8, <3>4 DEF Lost, Has, Stored
        <4>2. Has(e, "TFTOC") /\ ~Has(e, "TNCTOC")
          BY <1>0, <2>8, <3>1, <4>1 DEF LostAccounted
        <4> QED BY <3>4, <4>1, <4>2 DEF Lost, Has
      <3> QED BY <2>2, <3>3, <3>4
    <2> QED BY <2>7, <2>8
  <1>13. CASE WakeUp
    BY <1>13, <1>a, <1>c DEF WakeUp
  <1>d. ASSUME state # "PREINITIALIZED", state' # "PREINITIALIZED", Lost(f), overflow' = overflow,
               ~(clearing.all /\ clearing.ok /\ f < clearing.next)
                 => ~(clearing'.all /\ clearing'.ok /\ f < clearing'.next)
        PROVE  Goal
    BY <1>0, <1>d DEF LostAccounted, StillToStore
  <1>14. ASSUME NEW all \in BOOLEAN, Dem_ClearDTC(all) PROVE Goal
    <2>1. f \in Nat /\ f # 0
      BY Sizes
    <2>2. clearing'.next = 1
      BY <1>14 DEF Dem_ClearDTC
    <2>3. ~(f < clearing'.next)
      BY <2>1, <2>2, LoopOrder, Zenon
    <2> QED BY <1>14, <1>d, <2>3 DEF Dem_ClearDTC, Initialized, Lost, Has, Stored
  <1>15. CASE ClearEvent
    <2> DEFINE e == clearing.next
    <2>1. e \in Events /\ UNCHANGED <<state, overflow>>
      BY <1>15 DEF ClearEvent
    <2>2. e \in Nat /\ e # 0 /\ f \in Nat
      BY <2>1, Sizes
    <2>3. state # "PREINITIALIZED"
      BY <1>0, <2>2 DEF LoopsInPhase
    <2>4. CASE Cleared(e) /\ clearing' = [clearing EXCEPT !.next = @ + 1]
      <3>1. status' = [status EXCEPT ![e] = DefaultStatus] /\ mem' = Removed(mem, e)
        BY <2>4 DEF Cleared
      <3>2. f # e
        BY <1>t, <2>1, <3>1 DEF Lost, Has, DefaultStatus
      <3>3. Lost(f)
        BY <1>t, <3>1, <3>2 DEF Lost, Has, Stored, Removed
      <3>4. clearing'.all = clearing.all /\ clearing'.ok = clearing.ok /\ clearing'.next = e + 1
        BY <1>0, <2>4 DEF TypeOK
      <3>5. f < e + 1 => f < e
        BY <2>2, <3>2, LoopOrder, Zenon
      <3> QED BY <1>d, <2>1, <2>3, <3>3, <3>4, <3>5
    <2>5. CASE UNCHANGED <<status, mem>> /\ ~(clearing'.all /\ clearing'.ok)
      BY <1>d, <2>1, <2>3, <2>5 DEF Lost, Has, Stored
    <2>6. clearing' = [clearing EXCEPT !.next = @ + 1, !.ok = FALSE] => ~clearing'.ok
      BY <1>0 DEF TypeOK
    <2>7. clearing' = [clearing EXCEPT !.next = @ + 1] /\ ~clearing.all => ~clearing'.all
      BY <1>0 DEF TypeOK
    <2> QED BY <1>15, <2>4, <2>5, <2>6, <2>7 DEF ClearEvent
  <1>16. CASE ClearEnds
    <2>1. /\ clearing.next > NEvents /\ UNCHANGED <<state, status, mem>>
          /\ overflow' = (overflow /\ ~(clearing.all /\ clearing.ok)) /\ clearing'.next = 0
      BY <1>16 DEF ClearEnds
    <2>2. f < clearing.next /\ clearing.next # 0 /\ ~(f < clearing'.next)
      <3>1. f \in Nat /\ f <= NEvents /\ NEvents \in Nat
        BY Sizes
      <3>2. ~(f < clearing'.next)
        BY <2>1, <3>1, LoopOrder, Zenon
      <3> QED BY <1>t, <2>1, <3>1, <3>2, LoopEnd, Zenon
    <2>3. state # "PREINITIALIZED" /\ Lost(f)
      BY <1>0, <2>1, <2>2 DEF LoopsInPhase, Lost, Has, Stored
    <2>4. overflow' = overflow
      BY <1>0, <2>1, <2>2, <2>3 DEF LostAccounted, StillToStore, TypeOK
    <2> QED BY <1>d, <2>1, <2>2, <2>3, <2>4
  <1>17. CASE UNCHANGED vars
    BY <1>b, <1>17 DEF vars, StillToStore, Lost, Has, Stored
  <1> QED
    BY <1>1, <1>2, <1>3, <1>4, <1>5, <1>6, <1>7, <1>8, <1>9, <1>10, <1>11, <1>12, <1>13, <1>14,
       <1>15, <1>16, <1>17 DEF Next, OperationCycleEnd, Dem_Shutdown

\* The loops and the lost events in every state.
LEMMA IInvariant == ASSUME "during Dem_Init" \notin PreInitReports PROVE Spec => []IInv
  <1>1. Init => IInv
    <2> SUFFICES ASSUME Init PROVE IInv
      OBVIOUS
    <2>1. LoopsInPhase
      BY DEF Init, LoopsInPhase, NoJob
    <2>2. ASSUME NEW e \in Events PROVE ~Lost(e)
      BY DEF Init, Lost, Has, DefaultStatus
    <2> QED BY <2>1, <2>2, InitType DEF IInv, LostAccounted
  <1>2. IInv /\ [Next]_vars => IInv'
    BY StoreType, ControlTypeKept, LoopsKept, LostAccountedKept
       DEF IInv, TypeOK, MemType, ControlType
  <1> QED BY <1>1, <1>2, PTL DEF Spec

\* A confirmed event that finds no entry is signalled by the overflow, in every
\* order of reports, cycle ends, aging, displacement, clears and restarts, if
\* nothing is reported while Dem_Init runs.
THEOREM ConfirmedSafe == ASSUME "during Dem_Init" \notin PreInitReports
                         PROVE  Spec => []ConfirmedStoredOrSignalled
  <1>1. IInv => ConfirmedStoredOrSignalled
    BY DEF IInv, LostAccounted, ConfirmedStoredOrSignalled, Lost, StillToStore
  <1>2. Spec => []IInv
    BY IInvariant
  <1> QED BY <1>1, <1>2, PTL

\* Without reports before the end of Dem_Init every confirmed event is stored.
THEOREM ConfirmedStored == ASSUME PreInitReports = {}
                           PROVE  Spec => []ConfirmedIsStored
  <1>1. IInv => ConfirmedIsStored
    BY DEF IInv, LostAccounted, ConfirmedIsStored, Lost
  <1>2. Spec => []IInv
    BY IInvariant
  <1> QED BY <1>1, <1>2, PTL

-----------------------------------------------------------------------------
(* The inductive invariant *)

\* What holds of a status and of an entry alike.
Sound(r) ==
  /\ "TF" \in r.bits \/ "PENDING" \in r.bits \/ "CONFIRMED" \in r.bits \/ r.failures # 0
       => "TFSLC" \in r.bits
  /\ "TNCSLC" \in r.bits => "TFSLC" \notin r.bits
  /\ "TF" \in r.bits => "PENDING" \in r.bits

\* What holds of a status only: the bits about this cycle are not stored.
Fits(r) ==
  /\ Sound(r)
  /\ "TFTOC" \in r.bits => "TFSLC" \in r.bits /\ "TNCTOC" \notin r.bits
  /\ "TNCSLC" \in r.bits => "TNCTOC" \in r.bits
  /\ "TF" \in r.bits => "TFTOC" \in r.bits \/ "TNCTOC" \in r.bits

\* The aging cycle of the event runs, or its end is being handled.
Running(e) ==
  \/ AgingCycle[e] \in started
  \/ job.kind \in {"cycle end", "aging"} /\ job.cycle = AgingCycle[e]

\* The flags of the aging cycle say what the bits say: an event that heals at the
\* end of its aging cycle is not a failing one.
FlagsTell(e) ==
  /\ Running(e) /\ Has(e, "TF") => status[e].failedA \/ ~status[e].passedA
  /\ state = "PREINITIALIZED" /\ Has(e, "TNCTOC") => ~status[e].passedA
  /\ AgingCycle[e] = OperationCycle[e] /\ Has(e, "TFTOC") => status[e].failedA /\ Has(e, "PENDING")

\* The merge of Dem_Init has passed the event.
IsMerged(e) == job.kind = "transfer" \/ (job.kind = "merge" /\ e < job.next)

StatusInv ==
  /\ \A e \in Events : Fits(status[e]) /\ FlagsTell(e)
  /\ \A e \in Stored : /\ Sound(mem[e]) /\ "TNCSLC" \notin mem[e].bits
                       /\ IsMerged(e) => "TNCSLC" \notin status[e].bits

-----------------------------------------------------------------------------
(* The fields of what a status becomes *)

\* What a failure does to the bits, the counter and the flags.
LEMMA FailedFields ==
  ASSUME NEW e \in Events, status[e] \in StatusType
  PROVE  /\ OnFailed(e).bits = (status[e].bits \ {"TNCSLC", "TNCTOC"}) \cup {"TF", "TFTOC", "TFSLC", "PENDING"}
                                 \cup (IF Confirms(e) THEN {"CONFIRMED"} ELSE {})
         /\ OnFailed(e).failures = Failures(e)
         /\ OnFailed(e).failedA = (status[e].failedA \/ AgingCycle[e] \in started)
         /\ OnFailed(e).passedA = status[e].passedA
  <1> DEFINE bits == (status[e].bits \ {"TNCSLC", "TNCTOC"}) \cup {"TF", "TFTOC", "TFSLC", "PENDING"}
                       \cup (IF Confirms(e) THEN {"CONFIRMED"} ELSE {})
             failedF == status[e].failedF \/ FailureCycle[e] \in started
             failedA == status[e].failedA \/ AgingCycle[e] \in started
             aging == IF ClearsAging(e) THEN 0 ELSE status[e].aging
  <1>1. OnFailed(e) = [status[e] EXCEPT !.bits = bits, !.failures = Failures(e), !.failedF = failedF,
                                        !.failedA = failedA, !.aging = aging]
    BY Zenon DEF OnFailed
  <1> HIDE DEF bits, failedF, failedA, aging
  <1>2. /\ OnFailed(e).bits = bits /\ OnFailed(e).failures = Failures(e)
        /\ OnFailed(e).failedA = failedA /\ OnFailed(e).passedA = status[e].passedA
    BY <1>1, Zenon DEF StatusType
  <1> QED BY <1>2 DEF bits, failedA

\* What a passed report does to them.
LEMMA PassedFields ==
  ASSUME NEW e \in Events, status[e] \in StatusType
  PROVE  /\ OnPassed(e).bits = status[e].bits \ {"TF", "TNCSLC", "TNCTOC"}
         /\ OnPassed(e).failures = status[e].failures
         /\ OnPassed(e).failedA = status[e].failedA
  <1> DEFINE bits == status[e].bits \ {"TF", "TNCSLC", "TNCTOC"}
             passedF == status[e].passedF \/ FailureCycle[e] \in started
             passedA == status[e].passedA \/ AgingCycle[e] \in started
  <1>1. OnPassed(e) = [status[e] EXCEPT !.bits = bits, !.passedF = passedF, !.passedA = passedA]
    BY Zenon DEF OnPassed
  <1> HIDE DEF bits, passedF, passedA
  <1>2. /\ OnPassed(e).bits = bits /\ OnPassed(e).failures = status[e].failures
        /\ OnPassed(e).failedA = status[e].failedA
    BY <1>1, Zenon DEF StatusType
  <1> QED BY <1>2 DEF bits

\* Taking bits, and a displacement, leave the rest.
LEMMA WithoutFields ==
  ASSUME NEW r \in StatusType, NEW bits
  PROVE  /\ Without(r, bits).bits = r.bits \ bits
         /\ Without(r, bits).failures = r.failures
         /\ Without(r, bits).failedA = r.failedA /\ Without(r, bits).passedA = r.passedA
         /\ Displaced(r).bits = r.bits \ {"CONFIRMED"} /\ Displaced(r).failures = 0
         /\ Displaced(r).failedA = r.failedA /\ Displaced(r).passedA = r.passedA
  <1>1. ASSUME NEW set
        PROVE  /\ Without(r, set) \in StatusType
               /\ Without(r, set).bits = r.bits \ set /\ Without(r, set).failures = r.failures
               /\ Without(r, set).failedA = r.failedA /\ Without(r, set).passedA = r.passedA
    BY DEF Without, StatusType
  <1>2. ASSUME NEW q \in StatusType, q.bits = r.bits \ {"CONFIRMED"},
               q.failedA = r.failedA, q.passedA = r.passedA,
               Displaced(r) = [q EXCEPT !.failures = 0, !.failedF = FALSE, !.passedF = FALSE]
        PROVE  /\ Displaced(r).bits = r.bits \ {"CONFIRMED"} /\ Displaced(r).failures = 0
               /\ Displaced(r).failedA = r.failedA /\ Displaced(r).passedA = r.passedA
    BY <1>2 DEF StatusType
  <1> QED BY <1>1, <1>2 DEF Displaced

\* The start of a cycle touches only what belongs to it.
LEMMA CycleStartFields ==
  ASSUME NEW e \in Events, status[e] \in StatusType, NEW c
  PROVE  /\ OperationCycle[e] = c
              => AtCycleStart(e, c).bits = (status[e].bits \ {"TFTOC"}) \cup {"TNCTOC"}
         /\ OperationCycle[e] # c => AtCycleStart(e, c).bits = status[e].bits
         /\ AtCycleStart(e, c).failures = status[e].failures
         /\ AgingCycle[e] = c => ~AtCycleStart(e, c).passedA
         /\ AgingCycle[e] # c => /\ AtCycleStart(e, c).failedA = status[e].failedA
                                 /\ AtCycleStart(e, c).passedA = status[e].passedA
  <1> DEFINE bits == IF OperationCycle[e] = c THEN (status[e].bits \ {"TFTOC"}) \cup {"TNCTOC"}
                     ELSE status[e].bits
             failedF == status[e].failedF /\ FailureCycle[e] # c
             passedF == status[e].passedF /\ FailureCycle[e] # c
             failedA == status[e].failedA /\ AgingCycle[e] # c
             passedA == status[e].passedA /\ AgingCycle[e] # c
  <1>1. AtCycleStart(e, c) = [status[e] EXCEPT !.bits = bits, !.failedF = failedF,
            !.passedF = passedF, !.failedA = failedA, !.passedA = passedA]
    BY Zenon DEF AtCycleStart
  <1> HIDE DEF bits, failedF, passedF, failedA, passedA
  <1>2. /\ AtCycleStart(e, c).bits = bits /\ AtCycleStart(e, c).failures = status[e].failures
        /\ AtCycleStart(e, c).failedA = failedA /\ AtCycleStart(e, c).passedA = passedA
    BY <1>1, Zenon DEF StatusType
  <1>3. status[e].failedA \in BOOLEAN /\ status[e].passedA \in BOOLEAN
    BY DEF StatusType
  <1>4. /\ AgingCycle[e] = c => ~passedA
        /\ AgingCycle[e] # c => failedA = status[e].failedA /\ passedA = status[e].passedA
    BY <1>3 DEF failedA, passedA
  <1>5. /\ OperationCycle[e] = c => bits = (status[e].bits \ {"TFTOC"}) \cup {"TNCTOC"}
        /\ OperationCycle[e] # c => bits = status[e].bits
    BY DEF bits
  <1> QED BY <1>2, <1>4, <1>5, Zenon

\* So does its end.
LEMMA CycleEndFields ==
  ASSUME NEW e \in Events, status[e] \in StatusType, NEW c
  PROVE  /\ AtCycleEnd(e, c).bits = IF NotPending(e, c) THEN status[e].bits \ {"PENDING"} ELSE status[e].bits
         /\ AtCycleEnd(e, c).failures = IF NoFailure(e, c) THEN 0 ELSE status[e].failures
         /\ AtCycleEnd(e, c).failedA = status[e].failedA /\ AtCycleEnd(e, c).passedA = status[e].passedA
  BY DEF AtCycleEnd, StatusType

\* Healing by aging takes the confirmed and the pending bit.
LEMMA HealedFields ==
  ASSUME NEW e \in Events, status[e] \in StatusType
  PROVE  /\ Healed(e).bits = status[e].bits \ {"CONFIRMED", "PENDING"} /\ Healed(e).failures = 0
         /\ Healed(e).failedA = status[e].failedA /\ Healed(e).passedA = status[e].passedA
  <1> DEFINE q == Without(status[e], {"CONFIRMED", "PENDING"})
  <1>1. q \in StatusType /\ q.bits = status[e].bits \ {"CONFIRMED", "PENDING"}
        /\ q.failedA = status[e].failedA /\ q.passedA = status[e].passedA
    BY StatusKept, WithoutFields
  <1>2. Healed(e) = [q EXCEPT !.aging = 0, !.failures = 0]
    BY DEF Healed
  <1> HIDE DEF q
  <1> QED BY <1>1, <1>2 DEF StatusType

\* Counting the aging changes nothing else.
LEMMA AgingFields ==
  ASSUME NEW r \in StatusType, NEW n
  PROVE  /\ [r EXCEPT !.aging = n].bits = r.bits /\ [r EXCEPT !.aging = n].failures = r.failures
         /\ [r EXCEPT !.aging = n].failedA = r.failedA /\ [r EXCEPT !.aging = n].passedA = r.passedA
  BY DEF StatusType

\* The merge of Dem_Init adds the counters of status and entry, and leaves the flags.
LEMMA MergedFields ==
  ASSUME NEW e \in Events, status[e] \in StatusType
  PROVE  /\ Merged(e).bits = MergedBits(e)
         /\ Merged(e).failures = Saturated(status[e].failures + mem[e].failures)
         /\ Merged(e).failedA = status[e].failedA /\ Merged(e).passedA = status[e].passedA
  <1> DEFINE bits == MergedBits(e)
             failures == Saturated(status[e].failures + mem[e].failures)
             aging == Saturated(status[e].aging + mem[e].aging)
  <1>1. Merged(e) = [status[e] EXCEPT !.bits = bits, !.failures = failures, !.aging = aging]
    BY Zenon DEF Merged
  <1> HIDE DEF bits, failures, aging
  <1>2. /\ Merged(e).bits = bits /\ Merged(e).failures = failures
        /\ Merged(e).failedA = status[e].failedA /\ Merged(e).passedA = status[e].passedA
    BY <1>1, Zenon DEF StatusType
  <1> QED BY <1>2 DEF bits, failures

\* An entry has the bits that are stored, and the counter of failures.
LEMMA EntryFields ==
  ASSUME NEW r \in StatusType
  PROVE  Entry(r).bits = r.bits \cap StoredBits /\ Entry(r).failures = r.failures
  BY DEF Entry

-----------------------------------------------------------------------------
(* Each of them fits *)

\* The bits of an event fit each other after a failure, with and without a place for its entry.
LEMMA FailedFits ==
  ASSUME NEW e \in Events, status[e] \in StatusType, Fits(status[e])
  PROVE  /\ Fits(OnFailed(e)) /\ Fits(Without(OnFailed(e), {"CONFIRMED"}))
         /\ "TNCSLC" \notin OnFailed(e).bits
  <1> DEFINE r == OnFailed(e)
             confirmed == IF Confirms(e) THEN {"CONFIRMED"} ELSE {}
  <1>1. r.bits = (status[e].bits \ {"TNCSLC", "TNCTOC"}) \cup {"TF", "TFTOC", "TFSLC", "PENDING"} \cup confirmed
    BY FailedFields
  <1>2. "TNCSLC" \notin confirmed /\ "TNCTOC" \notin confirmed
    OBVIOUS
  <1> HIDE DEF r, confirmed
  <1>3. /\ "TF" \in r.bits /\ "TFTOC" \in r.bits /\ "TFSLC" \in r.bits /\ "PENDING" \in r.bits
        /\ "TNCSLC" \notin r.bits /\ "TNCTOC" \notin r.bits
    BY <1>1, <1>2
  <1>4. Without(r, {"CONFIRMED"}).bits = r.bits \ {"CONFIRMED"}
    BY DEF Without, r, OnFailed
  <1> QED BY <1>3, <1>4 DEF Fits, Sound, r

\* They do after a passed report.
LEMMA PassedFits ==
  ASSUME NEW e \in Events, status[e] \in StatusType, OnPassed(e) \in StatusType, Fits(status[e])
  PROVE  /\ Fits(OnPassed(e)) /\ Fits(Without(OnPassed(e), {"CONFIRMED"}))
         /\ "TNCSLC" \notin OnPassed(e).bits
  <1>1. /\ OnPassed(e).bits = status[e].bits \ {"TF", "TNCSLC", "TNCTOC"}
        /\ OnPassed(e).failures = status[e].failures
    BY PassedFields
  <1>2. /\ Without(OnPassed(e), {"CONFIRMED"}).bits = OnPassed(e).bits \ {"CONFIRMED"}
        /\ Without(OnPassed(e), {"CONFIRMED"}).failures = OnPassed(e).failures
    BY WithoutFields
  <1> QED BY <1>1, <1>2 DEF Fits, Sound

\* They do when the event is displaced or reset, and when its aging counter is set.
LEMMA LessFits ==
  ASSUME NEW r \in StatusType, Fits(r), NEW n
  PROVE  Fits(Displaced(r)) /\ Fits(Without(r, {"TF"})) /\ Fits([r EXCEPT !.aging = n])
  <1>1. Fits(Displaced(r))
    BY WithoutFields DEF Fits, Sound
  <1>2. Fits(Without(r, {"TF"}))
    <2>1. Without(r, {"TF"}).bits = r.bits \ {"TF"} /\ Without(r, {"TF"}).failures = r.failures
      BY WithoutFields
    <2> QED BY <2>1 DEF Fits, Sound
  <1>3. Fits([r EXCEPT !.aging = n])
    BY AgingFields, Zenon DEF Fits, Sound
  <1> QED BY <1>1, <1>2, <1>3

\* They do when a cycle starts or ends.
LEMMA CycleFits ==
  ASSUME NEW e \in Events, status[e] \in StatusType, Fits(status[e]), NEW c
  PROVE  Fits(AtCycleStart(e, c)) /\ Fits(AtCycleEnd(e, c))
  <1>1. Fits(AtCycleStart(e, c))
    <2>1. CASE OperationCycle[e] = c
      <3>1. AtCycleStart(e, c).bits = (status[e].bits \ {"TFTOC"}) \cup {"TNCTOC"}
            /\ AtCycleStart(e, c).failures = status[e].failures
        BY <2>1, CycleStartFields
      <3> QED BY <3>1 DEF Fits, Sound
    <2>2. CASE OperationCycle[e] # c
      <3>1. AtCycleStart(e, c).bits = status[e].bits /\ AtCycleStart(e, c).failures = status[e].failures
        BY <2>2, CycleStartFields
      <3> QED BY <3>1, Zenon DEF Fits, Sound
    <2> QED BY <2>1, <2>2
  <1>2. Fits(AtCycleEnd(e, c))
    <2>1. AtCycleEnd(e, c).failures # 0 => status[e].failures # 0
      BY CycleEndFields
    <2>2. CASE NotPending(e, c)
      <3>1. AtCycleEnd(e, c).bits = status[e].bits \ {"PENDING"}
        BY <2>2, CycleEndFields
      <3>2. "TFTOC" \notin status[e].bits /\ "TNCTOC" \notin status[e].bits
        BY <2>2 DEF NotPending
      <3> QED BY <2>1, <3>1, <3>2 DEF Fits, Sound
    <2>3. CASE ~NotPending(e, c)
      <3>1. AtCycleEnd(e, c).bits = status[e].bits
        BY <2>3, CycleEndFields
      <3> QED BY <2>1, <3>1 DEF Fits, Sound
    <2> QED BY <2>2, <2>3
  <1> QED BY <1>1, <1>2

\* They do when an event that is not failing is healed.
LEMMA HealedFits ==
  ASSUME NEW e \in Events, status[e] \in StatusType, Fits(status[e]), "TF" \notin status[e].bits
  PROVE  Fits(Healed(e))
  <1>1. Healed(e).bits = status[e].bits \ {"CONFIRMED", "PENDING"} /\ Healed(e).failures = 0
    BY HealedFields
  <1> QED BY <1>1 DEF Fits, Sound

\* A merge confirms only with a failure on either side.
LEMMA MergedFits ==
  ASSUME NEW e \in Events, status[e] \in StatusType, mem[e] \in EntryType,
         Fits(status[e]), Sound(mem[e]), "TNCSLC" \notin mem[e].bits
  PROVE  Fits(Merged(e)) /\ "TNCSLC" \notin Merged(e).bits
  <1> DEFINE live == status[e].bits
             entry == mem[e].bits
             confirmed == status[e].failures + mem[e].failures >= FailureThreshold[e]
  <1>1. status[e].failures \in Nat /\ mem[e].failures \in Nat /\ FailureThreshold[e] \in Nat \ {0}
    <2>1. FailureThreshold[e] \in 1 .. CounterMax /\ CounterMax \in Nat
      BY EventsAssumption
    <2>2. status[e].failures \in Counter /\ mem[e].failures \in Counter
      BY DEF StatusType, EntryType
    <2> QED BY <2>1, <2>2 DEF Counter
  <1>2. confirmed => "TFSLC" \in live \/ "TFSLC" \in entry
    BY <1>1 DEF Fits, Sound
  <1>3. Merged(e).failures # 0 => "TFSLC" \in live \/ "TFSLC" \in entry
    <2>1. status[e].failures + mem[e].failures = 0 => Merged(e).failures = 0
      BY <1>1, MergedFields, Sizes DEF Saturated
    <2> QED BY <1>1, <2>1 DEF Fits, Sound
  <1>4. Merged(e).bits = MergedBits(e)
    BY MergedFields
  <1>5. \A b \in Bits : b \in MergedBits(e) <=>
          \/ b \in live /\ b # "TNCSLC"
          \/ b \in entry /\ b \in {"TFSLC", "PENDING", "CONFIRMED"}
          \/ b = "CONFIRMED" /\ confirmed
          \/ b = "TF" /\ TestFailedStorage /\ "TNCTOC" \in live /\ "TF" \in entry
    BY DEF MergedBits
  <1> HIDE DEF confirmed, live, entry
  <1>6. /\ "TF" \in MergedBits(e) => "TF" \in live \/ ("TNCTOC" \in live /\ "TF" \in entry)
        /\ "TFTOC" \in MergedBits(e) <=> "TFTOC" \in live
        /\ "TNCTOC" \in MergedBits(e) <=> "TNCTOC" \in live
        /\ "PENDING" \in MergedBits(e) <=> "PENDING" \in live \/ "PENDING" \in entry
        /\ "CONFIRMED" \in MergedBits(e) => "CONFIRMED" \in live \/ "CONFIRMED" \in entry \/ confirmed
        /\ "TFSLC" \in MergedBits(e) <=> "TFSLC" \in live \/ "TFSLC" \in entry
        /\ "TNCSLC" \notin MergedBits(e)
    BY <1>5 DEF Bits
  <1> QED BY <1>2, <1>3, <1>4, <1>6 DEF Fits, Sound, live, entry

\* They do in an event that was cleared.
LEMMA DefaultFits == Fits(DefaultStatus)
  BY DEF Fits, Sound, DefaultStatus

\* What is stored of a fitting status is sound.
LEMMA EntryIsSound ==
  ASSUME NEW r \in StatusType, Fits(r)
  PROVE  Sound(Entry(r))
  <1>1. Entry(r).bits = r.bits \cap StoredBits /\ Entry(r).failures = r.failures
    BY EntryFields
  <1>2. {"TFSLC", "TNCSLC", "PENDING", "CONFIRMED"} \subseteq StoredBits
    BY DEF StoredBits
  <1> HIDE DEF StoredBits
  <1> QED BY <1>1, <1>2 DEF Fits, Sound

-----------------------------------------------------------------------------
(* The ways a status changes *)

\* The aging cycle of the event does not begin, and there is no restart.
Quiet(f) ==
  /\ Running(f)' => Running(f)
  /\ state' = "PREINITIALIZED" => state = "PREINITIALIZED"

Change(f) ==
  \/ Quiet(f) /\ status'[f] = status[f]
  \/ Quiet(f) /\ status'[f] = Displaced(status[f])
  \/ Quiet(f) /\ status'[f] = Without(status[f], {"TF"})
  \/ Quiet(f) /\ \E n : status'[f] = [status[f] EXCEPT !.aging = n]
  \/ Quiet(f) /\ \E c : status'[f] = AtCycleEnd(f, c)
  \/ Quiet(f) /\ PassesAging(f) /\ Running(f) /\ status'[f] = Healed(f)
  \/ /\ Quiet(f) /\ AreaFree /\ OperationCycle[f] \in started
     /\ \E r \in {OnFailed(f), OnPassed(f)} : status'[f] \in {r, Without(r, {"CONFIRMED"})}
  \/ /\ state' # "PREINITIALIZED" /\ job' = job
     /\ \E c : started' = started \cup {c} /\ status'[f] = AtCycleStart(f, c)
  \/ ~IsMerged(f)' /\ status'[f] = DefaultStatus
  \/ Quiet(f) /\ state = "PREINITIALIZED" /\ f \in Stored /\ status'[f] = Merged(f)

\* What storeEventMem, or leaving the memory alone, does to the status of any event.
LEMMA StoreChange ==
  ASSUME TypeOK, NEW e \in Events, NEW r \in StatusType, NEW refused \in StatusType,
         Store(e, r, refused) \/ KeepMemory(e, r), NEW f \in Events
  PROVE  \/ status'[f] = status[f] \/ status'[f] = Displaced(status[f])
         \/ f = e /\ status'[f] \in {r, refused}
  <1>1. CASE Store(e, r, refused)
    BY <1>1, StoreEffect
  <1>2. CASE KeepMemory(e, r)
    <2>1. status' = [status EXCEPT ![e] = r]
      BY <1>2, KeepEffect
    <2> QED BY <2>1 DEF TypeOK
  <1> QED BY <1>1, <1>2

\* A step that touches neither the state, the cycles nor the loop is quiet for every event.
LEMMA QuietIfSame == ASSUME NEW f, UNCHANGED <<state, started, job>> PROVE Quiet(f)
  BY DEF Quiet, Running

\* The aging loop: the event is aged at the end of its own aging cycle.
LEMMA AgingChange ==
  ASSUME TypeOK, NEW e \in Events, AgeEvent(e), NEW f \in Events
  PROVE  \/ status'[f] = status[f] \/ status'[f] = Displaced(status[f])
         \/ f = e /\ \E n : status'[f] = [status[f] EXCEPT !.aging = n]
         \/ f = e /\ PassesAging(f) /\ status'[f] = Healed(f)
  <1>1. Healed(e) \in StatusType /\ [status[e] EXCEPT !.aging = 0] \in StatusType
    BY CycleType
  <1>2. CASE PassesAging(e) /\ Aged(e) /\ e \in Stored
    <2>1. status' = [status EXCEPT ![e] = Healed(e)]
      BY <1>2 DEF AgeEvent, FailsAging
    <2> QED BY <1>2, <2>1 DEF TypeOK
  <1>3. CASE PassesAging(e) /\ Aged(e) /\ e \notin Stored
    <2>1. Store(e, Healed(e), Healed(e))
      BY <1>3 DEF AgeEvent, FailsAging
    <2> QED BY <1>1, <1>3, <2>1, StoreChange
  <1>4. CASE PassesAging(e) /\ ~Aged(e)
    <2> DEFINE r == [status[e] EXCEPT !.aging = status[e].aging + 1]
    <2>1. r \in StatusType
      BY <1>4, CycleType
    <2>2. Store(e, r, r)
      BY <1>4 DEF AgeEvent, FailsAging
    <2>3. \/ status'[f] = status[f] \/ status'[f] = Displaced(status[f])
          \/ f = e /\ status'[f] = r
      <3> HIDE DEF r
      <3> QED BY <2>1, <2>2, StoreChange
    <2> QED BY <2>3
  <1>5. CASE FailsAging(e)
    <2> DEFINE r == [status[e] EXCEPT !.aging = 0]
    <2>1. Store(e, r, r)
      BY <1>5 DEF AgeEvent, FailsAging
    <2>2. \/ status'[f] = status[f] \/ status'[f] = Displaced(status[f])
          \/ f = e /\ status'[f] = r
      <3>1. r \in StatusType
        BY <1>1
      <3> HIDE DEF r
      <3> QED BY <2>1, <3>1, StoreChange
    <2> QED BY <2>2
  <1>6. CASE ~PassesAging(e) /\ ~FailsAging(e)
    BY <1>6 DEF AgeEvent
  <1> QED BY <1>2, <1>3, <1>4, <1>5, <1>6

\* Every step changes a status in one of these ways.
LEMMA StepChanges ==
  ASSUME TypeOK, LoopsInPhase, [Next]_vars, NEW f \in Events
  PROVE  Change(f)
  <1>0. status[f] \in StatusType /\ status \in [Events -> StatusType] /\ job \in JobType /\ job.next \in Events
    BY DEF TypeOK, JobType
  <1>a. ASSUME UNCHANGED <<state, status, started, job>> PROVE Change(f)
    BY <1>a, QuietIfSame DEF Change
  <1>1. ASSUME NEW e \in Events, NEW verdict \in {"FAILED", "PASSED"}, HandleEvent(e, verdict)
        PROVE  Change(f)
    <2> DEFINE r == Updated(e, verdict)
               refused == Without(r, {"CONFIRMED"})
    <2>1. r \in StatusType /\ refused \in StatusType
      BY ReportType, StatusKept
    <2>2. Store(e, r, refused) \/ KeepMemory(e, r)
      BY <1>1 DEF HandleEvent
    <2>3. Quiet(f) /\ AreaFree /\ OperationCycle[e] \in started
      BY <1>1, QuietIfSame DEF HandleEvent, Initialized
    <2>4. r \in {OnFailed(e), OnPassed(e)}
      BY DEF Updated
    <2> HIDE DEF r
    <2>5. \/ status'[f] = status[f] \/ status'[f] = Displaced(status[f])
          \/ f = e /\ status'[f] \in {r, refused}
      BY <2>1, <2>2, StoreChange
    <2> QED BY <2>3, <2>4, <2>5, Zenon DEF Change
  <1>2. ASSUME NEW e \in Events, NEW verdict \in {"FAILED", "PASSED"}, HandlePreInitEvent(e, verdict)
        PROVE  Change(f)
    <2> DEFINE r == Updated(e, verdict)
    <2>1. r \in StatusType
      BY ReportType
    <2>2. KeepMemory(e, r)
      BY <1>2 DEF HandlePreInitEvent
    <2>3. Quiet(f) /\ AreaFree /\ OperationCycle[e] \in started
      BY <1>2, QuietIfSame DEF HandlePreInitEvent, AreaFree, LoopsInPhase
    <2>4. r \in {OnFailed(e), OnPassed(e)}
      BY DEF Updated
    <2> HIDE DEF r
    <2>5. \/ status'[f] = status[f] \/ status'[f] = Displaced(status[f])
          \/ f = e /\ status'[f] = r
      BY <2>1, <2>2, StoreChange
    <2> QED BY <2>3, <2>4, <2>5, Zenon DEF Change
  <1>3. ASSUME NEW e \in Events, ResetEventStatus(e) PROVE Change(f)
    <2>1. status' = [status EXCEPT ![e] = Without(status[e], {"TF"})] /\ Quiet(f)
      BY <1>3, QuietIfSame DEF ResetEventStatus, KeepMemory
    <2>2. status'[f] = status[f] \/ status'[f] = Without(status[f], {"TF"})
      BY <1>0, <2>1
    <2> QED BY <2>1, <2>2 DEF Change
  <1>b. ASSUME NEW c, StartCycle(c), job' = job, state' # "PREINITIALIZED" PROVE Change(f)
    <2>1. started' = started \cup {c} /\ status'[f] = AtCycleStart(f, c)
      BY <1>b DEF StartCycle
    <2> QED BY <1>b, <2>1 DEF Change
  <1>4. ASSUME NEW c, OperationCycleStart(c) PROVE Change(f)
    BY <1>4, <1>b DEF OperationCycleStart, Initialized
  <1>5. ASSUME NEW c, NEW shutdown, Initialized, EndCycle(c, shutdown) PROVE Change(f)
    <2>1. job'.cycle = c /\ c \in started /\ started' = started \ {c} /\ UNCHANGED <<state, status>>
      BY <1>5 DEF EndCycle, NoJob
    <2> QED BY <2>1 DEF Change, Quiet, Running
  <1>6. CASE CycleEndOfEvent
    <2> DEFINE e == job.next
               r == AtCycleEnd(e, job.cycle)
    <2>1. r \in StatusType
      BY <1>0, CycleType
    <2>2. Store(e, r, r) \/ KeepMemory(e, r)
      BY <1>6 DEF CycleEndOfEvent
    <2>3. job.kind = "cycle end" /\ job'.kind \in {"aging", "cycle end"} /\ job'.cycle = job.cycle
          /\ UNCHANGED <<state, started>>
      <3>1. Advance(job, "aging").cycle = job.cycle
        BY <1>0 DEF Advance, JobType
      <3> QED BY <1>0, <1>6, <3>1, AdvanceKind DEF CycleEndOfEvent
    <2>4. Quiet(f)
      BY <2>3 DEF Quiet, Running
    <2>5. \/ status'[f] = status[f] \/ status'[f] = Displaced(status[f])
          \/ f = e /\ status'[f] = r
      <3> HIDE DEF r
      <3> QED BY <1>0, <2>1, <2>2, StoreChange
    <2> QED BY <2>4, <2>5, Zenon DEF Change
  <1>7. CASE AgingOfEvent
    <2> DEFINE e == job.next
    <2>1. job.kind = "aging" /\ UNCHANGED started /\ state = "INITIALIZED" /\ state' # "PREINITIALIZED"
      BY <1>7 DEF AgingOfEvent, LoopsInPhase
    <2>2. job'.kind = "none" \/ (job'.kind = "aging" /\ job'.cycle = job.cycle)
      <3>1. Advance(job, "none").kind = "none" \/ Advance(job, "none").cycle = job.cycle
        BY <1>0 DEF Advance, JobType, NoJob
      <3> QED BY <1>0, <1>7, <2>1, <3>1, AdvanceKind DEF AgingOfEvent
    <2>3. Quiet(f)
      BY <2>1, <2>2 DEF Quiet, Running
    <2>4. CASE AgingCycle[e] = job.cycle /\ AgeEvent(e)
      <3>1. f = e => Running(f)
        BY <2>1, <2>4 DEF Running
      <3> QED BY <1>0, <2>3, <2>4, <3>1, AgingChange, Zenon DEF Change
    <2>5. CASE UNCHANGED status
      BY <2>3, <2>5 DEF Change
    <2> QED BY <1>7, <2>4, <2>5 DEF AgingOfEvent
  <1>8. CASE Dem_PreInit
    BY <1>8 DEF Dem_PreInit, Change, IsMerged, NoJob
  <1>9. CASE Dem_Init
    <2>1. job'.kind = "merge" /\ UNCHANGED <<state, status, started>>
      BY <1>9 DEF Dem_Init, NoJob
    <2> QED BY <2>1 DEF Change, Quiet, Running
  <1>c. ASSUME job'.kind \in {"none", "merge", "transfer", "store"}, started' = started,
               state = "PREINITIALIZED"
        PROVE  Quiet(f)
    BY <1>c DEF Quiet, Running
  <1>10. CASE MergeEvent
    <2> DEFINE j == [job EXCEPT !.changed = IF job.next \in Stored /\ MergeChanges(job.next)
                                            THEN @ \cup {job.next} ELSE @]
    <2>1. j \in JobType /\ j.kind = "merge" /\ state = "PREINITIALIZED"
      BY <1>0, <1>10 DEF JobType, MergeEvent, LoopsInPhase
    <2>2. job' = Advance(j, "transfer") /\ UNCHANGED started
      BY <1>10 DEF MergeEvent
    <2> HIDE DEF j
    <2>3. Quiet(f)
      BY <1>c, <2>1, <2>2, AdvanceKind
    <2>4. status'[f] = status[f] \/ (f \in Stored /\ status'[f] = Merged(f))
      BY <1>0, <1>10 DEF MergeEvent
    <2> QED BY <2>1, <2>3, <2>4 DEF Change
  <1>d. ASSUME NEW kind \in {"none", "store"}, job.kind \in {"transfer", "store"},
               job' = Advance(job, kind), started' = started,
               \/ Store(job.next, status[job.next], status[job.next])
               \/ UNCHANGED <<status, mem, overflow>>
        PROVE  Change(f)
    <2>1. job'.kind \in {kind, job.kind}
      BY <1>0, <1>d, AdvanceKind
    <2>2. Quiet(f)
      BY <1>c, <1>d, <2>1 DEF LoopsInPhase
    <2>3. status'[f] = status[f] \/ status'[f] = Displaced(status[f])
      BY <1>0, <1>d, StoreChange
    <2> QED BY <2>2, <2>3 DEF Change
  <1>11. CASE TransferEvent
    BY <1>11, <1>d, Zenon DEF TransferEvent
  <1>12. CASE StorePreInitEvent
    BY <1>12, <1>d, Zenon DEF StorePreInitEvent
  <1>13. CASE WakeUp
    BY <1>13, <1>b DEF WakeUp
  <1>14. ASSUME NEW all, Dem_ClearDTC(all) PROVE Change(f)
    BY <1>14, <1>a DEF Dem_ClearDTC
  <1>15. CASE ClearEvent
    <2>1. CASE Cleared(clearing.next)
      <3>1. UNCHANGED <<state, started, job>> /\ clearing.next \in Events
            /\ status' = [status EXCEPT ![clearing.next] = DefaultStatus]
        BY <1>15, <2>1 DEF ClearEvent, Cleared
      <3>2. status'[f] = status[f] \/ status'[f] = DefaultStatus
        BY <1>0, <3>1
      <3>3. ~IsMerged(f)'
        BY <3>1, Sizes DEF LoopsInPhase, IsMerged
      <3> QED BY <3>1, <3>2, <3>3, QuietIfSame DEF Change
    <2>2. CASE UNCHANGED status
      BY <1>15, <1>a, <2>2 DEF ClearEvent
    <2> QED BY <1>15, <2>1, <2>2 DEF ClearEvent
  <1>16. CASE ClearEnds
    BY <1>16, <1>a DEF ClearEnds
  <1>17. CASE UNCHANGED vars
    BY <1>17, <1>a DEF vars
  <1> QED
    BY <1>1, <1>2, <1>3, <1>4, <1>5, <1>6, <1>7, <1>8, <1>9, <1>10, <1>11, <1>12, <1>13, <1>14,
       <1>15, <1>16, <1>17 DEF Next, OperationCycleEnd, Dem_Shutdown

-----------------------------------------------------------------------------
(* Each way keeps the invariant of the event *)

\* A stored event is one of the events, and its entry is of its type.
LEMMA MemTypes == ASSUME TypeOK, NEW e \in Stored
                  PROVE  e \in Events /\ status[e] \in StatusType /\ mem[e] \in EntryType
  BY DEF TypeOK

\* An event that passes aging is not a failing one.
LEMMA NotFailingAtAging ==
  ASSUME NEW f, FlagsTell(f), PassesAging(f), Running(f)
  PROVE  "TF" \notin status[f].bits
  BY DEF FlagsTell, PassesAging, Has

\* However a status changes, its bits fit each other afterwards.
LEMMA ChangeFits ==
  ASSUME TypeOK, StatusInv, NEW f \in Events, Change(f)
  PROVE  Fits(status'[f])
  <1>0. status[f] \in StatusType /\ Fits(status[f]) /\ FlagsTell(f)
    BY DEF TypeOK, StatusInv
  <1>1. CASE \/ status'[f] = status[f] \/ status'[f] = Displaced(status[f])
             \/ status'[f] = Without(status[f], {"TF"})
             \/ \E n : status'[f] = [status[f] EXCEPT !.aging = n]
    BY <1>0, <1>1, LessFits, Zenon
  <1>2. CASE \/ \E c : status'[f] = AtCycleEnd(f, c)
             \/ \E c : status'[f] = AtCycleStart(f, c)
    BY <1>0, <1>2, CycleFits, Zenon
  <1>3. CASE PassesAging(f) /\ Running(f) /\ status'[f] = Healed(f)
    BY <1>0, <1>3, NotFailingAtAging, HealedFits
  <1>4. CASE \E r \in {OnFailed(f), OnPassed(f)} : status'[f] \in {r, Without(r, {"CONFIRMED"})}
    <2>1. OnPassed(f) \in StatusType
      <3>1. OnPassed(f) = Updated(f, "PASSED")
        BY DEF Updated
      <3> QED BY <3>1, ReportType
    <2> QED BY <1>0, <1>4, <2>1, FailedFits, PassedFits, Zenon
  <1>5. CASE status'[f] = DefaultStatus
    BY <1>5, DefaultFits
  <1>6. CASE f \in Stored /\ status'[f] = Merged(f)
    BY <1>0, <1>6, MemTypes, MergedFits DEF StatusInv
  <1> QED BY <1>1, <1>2, <1>3, <1>4, <1>5, <1>6, Zenon DEF Change

\* What the flags say is kept where they stay and no bit of a failure is new.
LEMMA FlagsKept ==
  ASSUME NEW f, FlagsTell(f), Quiet(f),
         status'[f].failedA = status[f].failedA, status'[f].passedA = status[f].passedA,
         "TF" \in status'[f].bits => "TF" \in status[f].bits,
         "TNCTOC" \in status'[f].bits => "TNCTOC" \in status[f].bits,
         "TFTOC" \in status'[f].bits => "TFTOC" \in status[f].bits,
         "PENDING" \in status[f].bits /\ "TFTOC" \in status'[f].bits => "PENDING" \in status'[f].bits
  PROVE  FlagsTell(f)'
  BY Zenon DEF FlagsTell, Quiet, Has

\* However it changes, the flags of its aging cycle tell what the bits do.
LEMMA ChangeFlags ==
  ASSUME TypeOK, StatusInv, NEW f \in Events, Change(f)
  PROVE  FlagsTell(f)'
  <1>0. status[f] \in StatusType /\ Fits(status[f]) /\ FlagsTell(f)
    BY DEF TypeOK, StatusInv
  <1>1. CASE Quiet(f) /\ status'[f] = status[f]
    BY <1>0, <1>1, FlagsKept, Zenon
  <1>2. CASE Quiet(f) /\ status'[f] = Displaced(status[f])
    BY <1>0, <1>2, FlagsKept, WithoutFields
  <1>3. CASE Quiet(f) /\ status'[f] = Without(status[f], {"TF"})
    <2>1. /\ status'[f].bits = status[f].bits \ {"TF"}
          /\ status'[f].failedA = status[f].failedA /\ status'[f].passedA = status[f].passedA
      BY <1>0, <1>3, WithoutFields
    <2> QED BY <1>0, <1>3, <2>1, FlagsKept
  <1>4. CASE Quiet(f) /\ \E n : status'[f] = [status[f] EXCEPT !.aging = n]
    <2> DEFINE r == status[f]
    <2>1. PICK n : status'[f] = [r EXCEPT !.aging = n]
      BY <1>4
    <2>2. r \in StatusType
      BY <1>0
    <2> HIDE DEF r
    <2>3. /\ status'[f].bits = r.bits
          /\ status'[f].failedA = r.failedA /\ status'[f].passedA = r.passedA
      BY <2>1, <2>2, AgingFields
    <2> QED BY <1>0, <1>4, <2>3, FlagsKept DEF r
  <1>5. CASE Quiet(f) /\ \E c : status'[f] = AtCycleEnd(f, c)
    <2>1. PICK c : status'[f] = AtCycleEnd(f, c)
      BY <1>5
    <2>2. /\ status'[f].bits = IF NotPending(f, c) THEN status[f].bits \ {"PENDING"} ELSE status[f].bits
          /\ status'[f].failedA = status[f].failedA /\ status'[f].passedA = status[f].passedA
      BY <1>0, <2>1, CycleEndFields
    <2>3. NotPending(f, c) => "TFTOC" \notin status[f].bits
      BY DEF NotPending
    <2> QED BY <1>0, <1>5, <2>2, <2>3, FlagsKept
  <1>6. CASE Quiet(f) /\ PassesAging(f) /\ Running(f) /\ status'[f] = Healed(f)
    <2>1. /\ status'[f].bits = status[f].bits \ {"CONFIRMED", "PENDING"}
          /\ status'[f].failedA = status[f].failedA /\ status'[f].passedA = status[f].passedA
      BY <1>0, <1>6, HealedFields
    <2>2. "TF" \notin status[f].bits /\ ~status[f].failedA
      BY <1>0, <1>6, NotFailingAtAging DEF PassesAging
    <2>3. "TF" \notin status'[f].bits
          /\ ("TNCTOC" \in status'[f].bits => "TNCTOC" \in status[f].bits)
          /\ ("TFTOC" \in status'[f].bits => "TFTOC" \in status[f].bits)
      BY <2>1, <2>2
    <2> QED BY <1>0, <1>6, <2>1, <2>2, <2>3, Zenon DEF FlagsTell, Quiet, Has
  <1>7. CASE /\ Quiet(f) /\ AreaFree /\ OperationCycle[f] \in started
             /\ status'[f] \in {OnFailed(f), Without(OnFailed(f), {"CONFIRMED"})}
    <2>1. OnFailed(f) \in StatusType
      <3>1. OnFailed(f) = Updated(f, "FAILED")
        BY DEF Updated
      <3> QED BY <3>1, ReportType
    <2>2. /\ "TNCTOC" \notin OnFailed(f).bits /\ "PENDING" \in OnFailed(f).bits
          /\ OnFailed(f).failedA = (status[f].failedA \/ AgingCycle[f] \in started)
      BY <1>0, FailedFields
    <2>3. /\ "TNCTOC" \notin status'[f].bits /\ "PENDING" \in status'[f].bits
          /\ status'[f].failedA = (status[f].failedA \/ AgingCycle[f] \in started)
      BY <1>7, <2>1, <2>2, WithoutFields
    <2>4. Running(f)' => AgingCycle[f] \in started
      BY <1>7 DEF Quiet, Running, AreaFree
    <2> QED BY <1>7, <2>3, <2>4, Zenon DEF FlagsTell, Has
  <1>8. CASE /\ Quiet(f) /\ status'[f] \in {OnPassed(f), Without(OnPassed(f), {"CONFIRMED"})}
    <2>1. OnPassed(f) \in StatusType
      <3>1. OnPassed(f) = Updated(f, "PASSED")
        BY DEF Updated
      <3> QED BY <3>1, ReportType
    <2>2. /\ OnPassed(f).bits = status[f].bits \ {"TF", "TNCSLC", "TNCTOC"}
          /\ OnPassed(f).failedA = status[f].failedA
      BY <1>0, PassedFields
    <2>3. /\ "TF" \notin status'[f].bits /\ "TNCTOC" \notin status'[f].bits
          /\ "TFTOC" \in status'[f].bits => "TFTOC" \in status[f].bits
          /\ "PENDING" \in status[f].bits => "PENDING" \in status'[f].bits
          /\ status'[f].failedA = status[f].failedA
      BY <1>8, <2>1, <2>2, WithoutFields
    <2> QED BY <1>0, <2>3, Zenon DEF FlagsTell, Has
  <1>9. CASE /\ state' # "PREINITIALIZED" /\ job' = job
             /\ \E c : started' = started \cup {c} /\ status'[f] = AtCycleStart(f, c)
    <2>1. PICK c : started' = started \cup {c} /\ status'[f] = AtCycleStart(f, c)
      BY <1>9
    <2>2. /\ OperationCycle[f] = c => status'[f].bits = (status[f].bits \ {"TFTOC"}) \cup {"TNCTOC"}
          /\ OperationCycle[f] # c => status'[f].bits = status[f].bits
          /\ AgingCycle[f] = c => ~status'[f].passedA
          /\ AgingCycle[f] # c => /\ status'[f].failedA = status[f].failedA
                                  /\ status'[f].passedA = status[f].passedA
      <3>1. status[f] \in StatusType
        BY <1>0
      <3>2. /\ OperationCycle[f] = c
                 => AtCycleStart(f, c).bits = (status[f].bits \ {"TFTOC"}) \cup {"TNCTOC"}
            /\ OperationCycle[f] # c => AtCycleStart(f, c).bits = status[f].bits
            /\ AgingCycle[f] = c => ~AtCycleStart(f, c).passedA
            /\ AgingCycle[f] # c => /\ AtCycleStart(f, c).failedA = status[f].failedA
                                    /\ AtCycleStart(f, c).passedA = status[f].passedA
        BY <3>1, CycleStartFields
      <3> QED BY <2>1, <3>2
    <2>3. "TF" \in status'[f].bits => "TF" \in status[f].bits
      BY <2>2
    <2>4. OperationCycle[f] = c => "TFTOC" \notin status'[f].bits
      BY <2>2
    <2>5. CASE AgingCycle[f] = c
      BY <1>9, <2>2, <2>4, <2>5 DEF FlagsTell, Has
    <2>6. CASE AgingCycle[f] # c
      <3>1. Running(f)' => Running(f)
        BY <1>9, <2>1, <2>6 DEF Running
      <3> QED BY <1>0, <1>9, <2>2, <2>3, <2>6, <3>1, Zenon DEF FlagsTell, Has
    <2> QED BY <2>5, <2>6
  <1>10. CASE status'[f] = DefaultStatus
    <2>1. /\ "TF" \notin DefaultStatus.bits /\ "TFTOC" \notin DefaultStatus.bits
          /\ ~DefaultStatus.passedA
      BY DEF DefaultStatus
    <2> QED BY <1>10, <2>1, Zenon DEF FlagsTell, Has
  <1>11. CASE Quiet(f) /\ state = "PREINITIALIZED" /\ f \in Stored /\ status'[f] = Merged(f)
    <2>1. /\ status'[f].bits = MergedBits(f)
          /\ status'[f].failedA = status[f].failedA /\ status'[f].passedA = status[f].passedA
      BY <1>0, <1>11, MergedFields
    <2>2. /\ "TF" \in status'[f].bits => "TF" \in status[f].bits \/ "TNCTOC" \in status[f].bits
          /\ "TNCTOC" \in status'[f].bits => "TNCTOC" \in status[f].bits
          /\ "TFTOC" \in status'[f].bits => "TFTOC" \in status[f].bits
          /\ "PENDING" \in status[f].bits => "PENDING" \in status'[f].bits
      BY <2>1 DEF MergedBits
    <2> QED BY <1>0, <1>11, <2>1, <2>2, Zenon DEF FlagsTell, Quiet, Has
  <1> QED BY <1>1, <1>2, <1>3, <1>4, <1>5, <1>6, <1>7, <1>8, <1>9, <1>10, <1>11, Zenon DEF Change

-----------------------------------------------------------------------------
(* Entries *)

\* storeEventMem writes the entry of one event; the others stay or are displaced.
LEMMA StoreEntries ==
  ASSUME TypeOK, NEW e \in Events, NEW r \in StatusType, NEW refused \in StatusType,
         Store(e, r, refused), NEW f \in Stored'
  PROVE  \/ f = e /\ mem'[f] = Entry(r) /\ status'[f] = r
         \/ f # e /\ f \in Stored /\ mem'[f] = mem[f]
  <1>0. status \in [Events -> StatusType]
    BY DEF TypeOK
  <1>1. CASE HasRoom(e)
    <2>1. mem' = Added(mem, e, Entry(r)) /\ status' = [status EXCEPT ![e] = r]
      BY <1>1 DEF Store
    <2> QED BY <1>0, <2>1 DEF Added, Stored
  <1>2. CASE ~HasRoom(e) /\ ToDisplace(e) = {}
    <2>1. mem' = mem /\ e \notin Stored
      BY <1>2 DEF Store, HasRoom
    <2> QED BY <2>1 DEF Stored
  <1>3. CASE ~HasRoom(e) /\ ToDisplace(e) # {}
    <2>1. PICK g \in ToDisplace(e) :
            /\ mem' = Added(Removed(mem, g), e, Entry(r))
            /\ status' = [status EXCEPT ![e] = r, ![g] = Displaced(status[g])]
      BY <1>3 DEF Store
    <2>2. g \in Stored /\ g # e
      BY <1>3 DEF ToDisplace, Oldest, HasRoom
    <2>3. f = e => mem'[f] = Entry(r) /\ status'[f] = r
      BY <1>0, <2>1, <2>2 DEF Added
    <2>4. f # e => f \in Stored /\ mem'[f] = mem[f]
      BY <2>1 DEF Added, Removed, Stored
    <2> QED BY <2>3, <2>4
  <1> QED BY <1>1, <1>2, <1>3

EntryChange(f) ==
  \/ f \in Stored /\ mem'[f] = mem[f]
  \/ mem'[f] = Entry(status'[f]) /\ "TNCSLC" \notin status'[f].bits

\* storeEventMem changes the entries as the invariant allows, for an event that was tested.
LEMMA StoredEntry ==
  ASSUME TypeOK, NEW e \in Events, NEW r \in StatusType, NEW refused \in StatusType,
         Store(e, r, refused), "TNCSLC" \notin r.bits, NEW f \in Stored'
  PROVE  EntryChange(f)
  BY StoreEntries DEF EntryChange

\* An entry that no step touches is no change.
LEMMA KeptEntry == ASSUME UNCHANGED mem, NEW f \in Stored' PROVE EntryChange(f)
  BY DEF EntryChange, Stored

\* What is stored at the end of a cycle failed once.
LEMMA CycleEndStores ==
  ASSUME NEW e \in Events, status[e] \in StatusType, Fits(status[e]), NEW c,
         AtCycleEnd(e, c) # status[e]
  PROVE  "TNCSLC" \notin AtCycleEnd(e, c).bits
  <1>1. "PENDING" \in status[e].bits \/ status[e].failures # 0
    <2> SUFFICES ASSUME "PENDING" \notin status[e].bits, status[e].failures = 0
                 PROVE  AtCycleEnd(e, c) = status[e]
      OBVIOUS
    <2> DEFINE bits == IF NotPending(e, c) THEN status[e].bits \ {"PENDING"} ELSE status[e].bits
               failures == IF NoFailure(e, c) THEN 0 ELSE status[e].failures
    <2>1. AtCycleEnd(e, c) = [status[e] EXCEPT !.bits = bits, !.failures = failures]
      BY Zenon DEF AtCycleEnd
    <2>2. bits = status[e].bits /\ failures = status[e].failures
      OBVIOUS
    <2> HIDE DEF bits, failures
    <2> QED BY <2>1, <2>2 DEF StatusType
  <1>2. "TNCSLC" \notin status[e].bits
    BY <1>1 DEF Fits, Sound
  <1>3. AtCycleEnd(e, c).bits \subseteq status[e].bits
    BY CycleEndFields
  <1> QED BY <1>2, <1>3

\* What aging stores was tested.
LEMMA AgingStores ==
  ASSUME TypeOK, StatusInv, NEW e \in Events, AgeEvent(e), NEW f \in Stored'
  PROVE  EntryChange(f)
  <1>0. status[e] \in StatusType /\ Fits(status[e])
    BY DEF TypeOK, StatusInv
  <1>1. Healed(e) \in StatusType /\ [status[e] EXCEPT !.aging = 0] \in StatusType
    BY CycleType
  <1>2. PassesAging(e) \/ FailsAging(e) => "TNCSLC" \notin status[e].bits
    BY <1>0 DEF PassesAging, FailsAging, Fits, Sound
  <1>a. ASSUME NEW n, [status[e] EXCEPT !.aging = n] \in StatusType, PassesAging(e) \/ FailsAging(e),
               Store(e, [status[e] EXCEPT !.aging = n], [status[e] EXCEPT !.aging = n])
        PROVE  EntryChange(f)
    <2> DEFINE r == [status[e] EXCEPT !.aging = n]
    <2>1. r.bits = status[e].bits
      BY <1>0, AgingFields
    <2> HIDE DEF r
    <2> QED BY <1>2, <1>a, <2>1, StoredEntry DEF r
  <1>3. CASE PassesAging(e) /\ Aged(e) /\ e \in Stored
    <2>1. mem' = Removed(mem, e)
      BY <1>3 DEF AgeEvent, FailsAging
    <2> QED BY <2>1 DEF EntryChange, Removed, Stored
  <1>4. CASE PassesAging(e) /\ Aged(e) /\ e \notin Stored
    <2>1. Store(e, Healed(e), Healed(e))
      BY <1>4 DEF AgeEvent, FailsAging
    <2>2. Healed(e).bits = status[e].bits \ {"CONFIRMED", "PENDING"}
      BY <1>0, HealedFields
    <2> QED BY <1>1, <1>2, <1>4, <2>1, <2>2, StoredEntry
  <1>5. CASE PassesAging(e) /\ ~Aged(e)
    <2>1. [status[e] EXCEPT !.aging = status[e].aging + 1] \in StatusType
      BY <1>5, CycleType
    <2>2. Store(e, [status[e] EXCEPT !.aging = status[e].aging + 1],
                   [status[e] EXCEPT !.aging = status[e].aging + 1])
      BY <1>5 DEF AgeEvent, FailsAging
    <2> QED BY <1>5, <1>a, <2>1, <2>2
  <1>6. CASE FailsAging(e)
    <2>1. Store(e, [status[e] EXCEPT !.aging = 0], [status[e] EXCEPT !.aging = 0])
      BY <1>6 DEF AgeEvent, FailsAging
    <2> QED BY <1>1, <1>6, <1>a, <2>1
  <1>7. CASE ~PassesAging(e) /\ ~FailsAging(e)
    BY <1>7, KeptEntry DEF AgeEvent
  <1> QED BY <1>3, <1>4, <1>5, <1>6, <1>7

\* Every entry is the old one, or what its event has become.
LEMMA StepEntries ==
  ASSUME TypeOK, StatusInv, [Next]_vars, NEW f \in Stored'
  PROVE  EntryChange(f)
  <1>0. status \in [Events -> StatusType] /\ job.next \in Events
    BY DEF TypeOK, JobType
  <1>1. ASSUME NEW e \in Events, NEW verdict \in {"FAILED", "PASSED"}, HandleEvent(e, verdict)
        PROVE  EntryChange(f)
    <2> DEFINE r == Updated(e, verdict)
               refused == Without(r, {"CONFIRMED"})
    <2>1. r \in StatusType /\ refused \in StatusType
      BY ReportType, StatusKept
    <2>2. "TNCSLC" \notin r.bits
      <3>1. Fits(status[e]) /\ status[e] \in StatusType
        BY <1>0 DEF StatusInv
      <3>2. OnPassed(e) \in StatusType
        <4>1. OnPassed(e) = Updated(e, "PASSED")
          BY DEF Updated
        <4> QED BY <4>1, ReportType
      <3> QED BY <3>1, <3>2, FailedFits, PassedFits DEF Updated
    <2>3. Store(e, r, refused) \/ UNCHANGED mem
      BY <1>1 DEF HandleEvent, KeepMemory
    <2> HIDE DEF r, refused
    <2> QED BY <2>1, <2>2, <2>3, StoredEntry, KeptEntry
  <1>2. CASE CycleEndOfEvent
    <2> DEFINE e == job.next
               r == AtCycleEnd(e, job.cycle)
    <2>1. r \in StatusType
      BY <1>0, CycleType
    <2>2. (Store(e, r, r) /\ r # status[e]) \/ UNCHANGED mem
      BY <1>2 DEF CycleEndOfEvent, KeepMemory
    <2>3. r # status[e] => "TNCSLC" \notin r.bits
      BY <1>0, CycleEndStores DEF StatusInv
    <2> HIDE DEF r
    <2> QED BY <1>0, <2>1, <2>2, <2>3, StoredEntry, KeptEntry
  <1>3. CASE AgingOfEvent
    BY <1>0, <1>3, AgingStores, KeptEntry DEF AgingOfEvent
  <1>4. CASE TransferEvent
    <2>1. \/ UNCHANGED mem
          \/ /\ Store(job.next, status[job.next], status[job.next])
             /\ job.next \in Stored /\ IsMerged(job.next)
      BY <1>4 DEF TransferEvent, IsMerged
    <2> QED BY <1>0, <2>1, StoredEntry, KeptEntry DEF StatusInv
  <1>5. CASE StorePreInitEvent
    <2>1. \/ UNCHANGED mem
          \/ /\ Store(job.next, status[job.next], status[job.next])
             /\ "TNCTOC" \notin status[job.next].bits
      BY <1>5 DEF StorePreInitEvent
    <2>2. "TNCTOC" \notin status[job.next].bits => "TNCSLC" \notin status[job.next].bits
      BY <1>0 DEF StatusInv, Fits
    <2> QED BY <1>0, <2>1, <2>2, StoredEntry, KeptEntry
  <1>6. CASE ClearEvent
    <2>1. CASE Cleared(clearing.next)
      BY <2>1 DEF Cleared, EntryChange, Removed, Stored
    <2> QED BY <1>6, <2>1, KeptEntry DEF ClearEvent
  <1>a. CASE UNCHANGED mem
    BY <1>a, KeptEntry
  <1> QED
    BY <1>1, <1>2, <1>3, <1>4, <1>5, <1>6, <1>a
       DEF Next, HandlePreInitEvent, KeepMemory, ResetEventStatus, OperationCycleStart, OperationCycleEnd,
           Dem_Shutdown, EndCycle, Dem_PreInit, Dem_Init, MergeEvent, WakeUp, Dem_ClearDTC, ClearEnds, vars

-----------------------------------------------------------------------------
(* The invariant in every state *)

\* Only the merge itself makes an event a merged one.
LEMMA StepMerges ==
  ASSUME TypeOK, LoopsInPhase, [Next]_vars, NEW f \in Events, IsMerged(f)'
  PROVE  IsMerged(f) \/ (MergeEvent /\ f = job.next)
  <1>0. job \in JobType /\ f \in Nat /\ f # 0 /\ f <= NEvents /\ NEvents \in Nat
    BY Sizes DEF TypeOK
  <1>1. CASE job' = job
    BY <1>1 DEF IsMerged
  <1>2. ASSUME job'.kind \notin {"merge", "transfer"} PROVE FALSE
    BY <1>2 DEF IsMerged
  <1>3. CASE CycleEndOfEvent
    BY <1>0, <1>2, <1>3, AdvanceKind DEF CycleEndOfEvent
  <1>4. CASE AgingOfEvent
    BY <1>0, <1>2, <1>4, AdvanceKind DEF AgingOfEvent
  <1>5. CASE Dem_PreInit
    BY <1>2, <1>5 DEF Dem_PreInit, NoJob
  <1>6. CASE Dem_Init
    <2>1. job'.kind = "merge" /\ job'.next = 1
      BY <1>6 DEF Dem_Init, NoJob
    <2> QED BY <1>0, <2>1, LoopOrder DEF IsMerged
  <1>7. CASE MergeEvent
    <2> DEFINE j == [job EXCEPT !.changed = IF job.next \in Stored /\ MergeChanges(job.next)
                                            THEN @ \cup {job.next} ELSE @]
    <2>1. j \in JobType /\ j.next = job.next /\ job' = Advance(j, "transfer") /\ job.kind = "merge"
          /\ j.kind = "merge"
      BY <1>0, <1>7 DEF JobType, MergeEvent
    <2> HIDE DEF j
    <2>2. job.next \in Nat /\ job.next <= NEvents
      BY <1>0, Sizes DEF JobType
    <2>3. CASE job.next < NEvents
      <3>1. job'.kind = "merge" /\ job'.next = job.next + 1
        BY <2>1, <2>3 DEF Advance, JobType
      <3>2. f < job.next + 1
        BY <3>1 DEF IsMerged
      <3> QED BY <1>0, <1>7, <2>1, <2>2, <3>2, LoopOrder DEF IsMerged
    <2>4. CASE ~(job.next < NEvents)
      <3>1. f = job.next \/ f < job.next
        BY <1>0, <2>2, <2>4
      <3> QED BY <1>7, <2>1, <3>1 DEF IsMerged
    <2> QED BY <2>3, <2>4
  <1>8. CASE TransferEvent
    BY <1>8 DEF TransferEvent, IsMerged
  <1>9. CASE StorePreInitEvent
    BY <1>0, <1>2, <1>9, AdvanceKind DEF StorePreInitEvent
  <1>10. ASSUME NEW c, NEW shutdown, EndCycle(c, shutdown) PROVE FALSE
    BY <1>2, <1>10 DEF EndCycle, NoJob
  <1> QED
    BY <1>1, <1>3, <1>4, <1>5, <1>6, <1>7, <1>8, <1>9, <1>10
       DEF Next, HandleEvent, HandlePreInitEvent, ResetEventStatus, OperationCycleStart, OperationCycleEnd,
           Dem_Shutdown, WakeUp, Dem_ClearDTC, ClearEvent, ClearEnds, vars

\* "Not completed since the last clear" comes back only with the status' reset.
LEMMA NotCompletedAgain ==
  ASSUME TypeOK, StatusInv, NEW f \in Events, Change(f), IsMerged(f)', "TNCSLC" \in status'[f].bits
  PROVE  "TNCSLC" \in status[f].bits
  <1>0. status[f] \in StatusType /\ Fits(status[f])
    BY DEF TypeOK, StatusInv
  <1>1. CASE status'[f] = Displaced(status[f]) \/ status'[f] = Without(status[f], {"TF"})
    BY <1>0, <1>1, WithoutFields
  <1>2. ASSUME NEW n, status'[f] = [status[f] EXCEPT !.aging = n] PROVE "TNCSLC" \in status[f].bits
    BY <1>0, <1>2, AgingFields
  <1>3. ASSUME NEW c, status'[f] = AtCycleEnd(f, c) PROVE "TNCSLC" \in status[f].bits
    BY <1>0, <1>3, CycleEndFields
  <1>4. CASE status'[f] = Healed(f)
    BY <1>0, <1>4, HealedFields
  <1>5. ASSUME NEW r \in {OnFailed(f), OnPassed(f)}, status'[f] \in {r, Without(r, {"CONFIRMED"})}
        PROVE  FALSE
    <2>1. OnPassed(f) = Updated(f, "PASSED") /\ OnFailed(f) = Updated(f, "FAILED")
      BY DEF Updated
    <2>2. r \in StatusType
      BY <1>5, <2>1, ReportType
    <2>3. OnPassed(f) \in StatusType
      BY <2>1, ReportType
    <2>4. "TNCSLC" \notin r.bits
      BY <1>0, <1>5, <2>3, FailedFits, PassedFits
    <2>5. Without(r, {"CONFIRMED"}).bits = r.bits \ {"CONFIRMED"}
      BY <2>2, WithoutFields
    <2> QED BY <1>5, <2>4, <2>5
  <1>6. ASSUME NEW c, status'[f] = AtCycleStart(f, c) PROVE "TNCSLC" \in status[f].bits
    <2>1. AtCycleStart(f, c).bits \subseteq status[f].bits \cup {"TNCTOC"}
      BY <1>0, CycleStartFields
    <2> QED BY <1>6, <2>1
  <1>7. CASE f \in Stored /\ status'[f] = Merged(f)
    BY <1>0, <1>7, MemTypes, MergedFits DEF StatusInv
  <1> QED BY <1>1, <1>2, <1>3, <1>4, <1>5, <1>6, <1>7, Zenon DEF Change

\* Every step keeps the inductive invariant.
LEMMA StatusInvKept ==
  ASSUME TypeOK, LoopsInPhase, StatusInv, [Next]_vars, TypeOK'
  PROVE  StatusInv'
  <1>1. ASSUME NEW f \in Events PROVE Fits(status'[f]) /\ FlagsTell(f)'
    BY StepChanges, ChangeFits, ChangeFlags
  <1>2. ASSUME NEW f \in Stored'
        PROVE  /\ Sound(mem'[f]) /\ "TNCSLC" \notin mem'[f].bits
               /\ IsMerged(f)' => "TNCSLC" \notin status'[f].bits
    <2>0. f \in Events /\ status'[f] \in StatusType
      BY DEF TypeOK
    <2>1. CASE mem'[f] = Entry(status'[f]) /\ "TNCSLC" \notin status'[f].bits
      <3>1. Sound(Entry(status'[f]))
        BY <1>1, <2>0, EntryIsSound
      <3>2. Entry(status'[f]).bits \subseteq status'[f].bits
        BY <2>0, EntryFields
      <3> QED BY <2>1, <3>1, <3>2
    <2>2. CASE f \in Stored /\ mem'[f] = mem[f]
      <3>1. Sound(mem'[f]) /\ "TNCSLC" \notin mem'[f].bits
        BY <2>2 DEF StatusInv
      <3>2. ASSUME IsMerged(f)' PROVE "TNCSLC" \notin status'[f].bits
        <4>1. IsMerged(f) \/ (MergeEvent /\ f = job.next)
          BY <2>0, <3>2, StepMerges
        <4>2. CASE IsMerged(f)
          BY <2>0, <2>2, <3>2, <4>2, StepChanges, NotCompletedAgain DEF StatusInv
        <4>3. CASE MergeEvent /\ f = job.next
          <5>1. status'[f] = Merged(f)
            BY <2>0, <2>2, <4>3 DEF MergeEvent, TypeOK
          <5> QED BY <2>0, <2>2, <5>1, MemTypes, MergedFits DEF StatusInv
        <4> QED BY <4>1, <4>2, <4>3
      <3> QED BY <3>1, <3>2
    <2> QED BY <2>1, <2>2, StepEntries DEF EntryChange
  <1> QED BY <1>1, <1>2 DEF StatusInv

SInv == TypeOK /\ LoopsInPhase /\ StatusInv

\* The inductive invariant holds throughout.
LEMMA StatusInvariant == Spec => []SInv
  <1>1. Init => SInv
    <2> SUFFICES ASSUME Init PROVE SInv
      OBVIOUS
    <2>1. LoopsInPhase
      BY DEF Init, LoopsInPhase, NoJob
    <2>2. ASSUME NEW e \in Events PROVE Fits(status[e]) /\ FlagsTell(e)
      <3>1. status[e] = DefaultStatus
        BY DEF Init
      <3>2. /\ "TF" \notin DefaultStatus.bits /\ "TFTOC" \notin DefaultStatus.bits
            /\ ~DefaultStatus.passedA
        BY DEF DefaultStatus
      <3> QED BY <3>1, <3>2, DefaultFits, Zenon DEF FlagsTell, Has
    <2>3. Stored = {}
      BY DEF Init, Stored
    <2> QED BY <2>1, <2>2, <2>3, InitType DEF SInv, StatusInv
  <1>2. SInv /\ [Next]_vars => SInv'
    <2> SUFFICES ASSUME SInv, [Next]_vars PROVE SInv'
      OBVIOUS
    <2>1. TypeOK' /\ LoopsInPhase'
      BY StoreType, ControlTypeKept, LoopsKept DEF SInv, TypeOK, MemType, ControlType
    <2> QED BY <2>1, StatusInvKept DEF SInv
  <1> QED BY <1>1, <1>2, PTL DEF Spec

-----------------------------------------------------------------------------
(* The theorems *)

\* The bits of every status fit together after every report, cycle end, aging,
\* displacement, merge of a stored entry and clear, in every configuration.
THEOREM BitsFit == Spec => []StatusConsistent
  <1>1. SInv => StatusConsistent
    BY DEF SInv, StatusInv, StatusConsistent, Fits, Sound, Has
  <1>2. Spec => []SInv
    BY StatusInvariant
  <1> QED BY <1>1, <1>2, PTL

\* An event that failed in this cycle stays pending, whatever its other cycles
\* do, if it ages in its operation cycle.
THEOREM PendingCovers == Spec => []PendingCoversFailure
  <1>1. SInv => PendingCoversFailure
    BY DEF SInv, StatusInv, PendingCoversFailure, FlagsTell
  <1>2. Spec => []SInv
    BY StatusInvariant
  <1> QED BY <1>1, <1>2, PTL

\* storeEventMem gives up the entry of a failing event only for a more important one.
LEMMA StoreGivesUp ==
  ASSUME TypeOK, NEW e \in Events, NEW r, NEW refused, Store(e, r, refused),
         NEW f \in Stored \ DOMAIN mem', Has(f, "TF")
  PROVE  e \in DOMAIN mem' \ Stored /\ Priority[e] < Priority[f]
  <1>1. CASE HasRoom(e)
    BY <1>1 DEF Store, Added, Stored
  <1>2. CASE ~HasRoom(e) /\ ToDisplace(e) = {}
    BY <1>2 DEF Store, Stored
  <1>3. CASE ~HasRoom(e) /\ ToDisplace(e) # {}
    <2>1. PICK g \in ToDisplace(e) : mem' = Added(Removed(mem, g), e, Entry(r))
      BY <1>3 DEF Store
    <2>2. e \in DOMAIN mem' \ Stored /\ f = g
      BY <1>3, <2>1 DEF Added, Removed, Stored, HasRoom
    <2>3. ~Passive(f)
      BY DEF Passive, Has
    <2>4. Priority[e] < Priority[f]
      BY <2>2, <2>3 DEF ToDisplace, Oldest
    <2> QED BY <2>2, <2>4
  <1> QED BY <1>1, <1>2, <1>3

\* The entry of a failing event leaves only by a clear or a displacement.
LEMMA StepKeepsFailing ==
  ASSUME SInv, [Next]_vars, NEW f \in Stored \ DOMAIN mem', Has(f, "TF")
  PROVE  \/ clearing.next = f /\ clearing' # clearing
         \/ \E e \in DOMAIN mem' \ Stored : Priority[e] < Priority[f]
  <1>0. TypeOK /\ job.next \in Events /\ f \in Events /\ FlagsTell(f)
    BY DEF SInv, TypeOK, JobType, StatusInv
  <1>a. ASSUME UNCHANGED mem PROVE FALSE
    BY <1>a DEF Stored
  <1>b. ASSUME NEW e \in Events, NEW r, NEW refused, Store(e, r, refused)
        PROVE  \E d \in DOMAIN mem' \ Stored : Priority[d] < Priority[f]
    BY <1>0, <1>b, StoreGivesUp
  <1>1. ASSUME NEW e \in Events, NEW verdict, HandleEvent(e, verdict)
        PROVE  \E d \in DOMAIN mem' \ Stored : Priority[d] < Priority[f]
    BY <1>1, <1>a, <1>b, Zenon DEF HandleEvent, KeepMemory
  <1>2. CASE CycleEndOfEvent
    BY <1>0, <1>2, <1>a, <1>b, Zenon DEF CycleEndOfEvent, KeepMemory
  <1>3. CASE AgingOfEvent
    <2> DEFINE e == job.next
    <2>1. AgingCycle[e] = job.cycle /\ AgeEvent(e) /\ job.kind = "aging"
      BY <1>3, <1>a DEF AgingOfEvent
    <2>2. Running(e)
      BY <2>1 DEF Running
    <2>3. CASE PassesAging(e) /\ mem' = Removed(mem, e)
      <3>1. f = e
        BY <2>3 DEF Removed, Stored
      <3> QED BY <1>0, <2>2, <2>3, <3>1, NotFailingAtAging DEF Has
    <2>4. ASSUME ~(PassesAging(e) /\ mem' = Removed(mem, e))
          PROVE  \E r, refused : Store(e, r, refused)
      BY <1>a, <2>1, <2>4, Zenon DEF AgeEvent
    <2> QED BY <1>0, <1>b, <2>3, <2>4
  <1>4. CASE TransferEvent
    BY <1>0, <1>4, <1>a, <1>b, Zenon DEF TransferEvent
  <1>5. CASE StorePreInitEvent
    BY <1>0, <1>5, <1>a, <1>b, Zenon DEF StorePreInitEvent
  <1>6. CASE ClearEvent
    <2>1. Cleared(clearing.next) /\ clearing' = [clearing EXCEPT !.next = @ + 1]
          /\ clearing.next \in Events
      BY <1>6, <1>a DEF ClearEvent
    <2>2. clearing.next = f
      BY <2>1 DEF Cleared, Removed, Stored
    <2>3. clearing'.next = clearing.next + 1
      BY <1>0, <2>1 DEF TypeOK
    <2>4. clearing.next \in Nat
      BY <2>1, Sizes
    <2> QED BY <2>2, <2>3, <2>4
  <1> QED
    BY <1>1, <1>2, <1>3, <1>4, <1>5, <1>6, <1>a
       DEF Next, HandlePreInitEvent, KeepMemory, ResetEventStatus, OperationCycleStart, OperationCycleEnd,
           Dem_Shutdown, EndCycle, Dem_PreInit, Dem_Init, MergeEvent, WakeUp, Dem_ClearDTC, ClearEnds, vars

\* Neither aging nor a full memory nor Dem_Init loses the entry of a failing
\* event, but for a more important one.
THEOREM FailingKept == Spec => FailingEntryKept
  <1> DEFINE Step == \A e \in Stored \ DOMAIN mem' :
                       Has(e, "TF") => \/ clearing.next = e /\ clearing' # clearing
                                      \/ \E f \in DOMAIN mem' \ Stored : Priority[f] < Priority[e]
  <1>1. SInv /\ [Next]_vars => [Step]_vars
    BY StepKeepsFailing
  <1>2. Spec => []SInv
    BY StatusInvariant
  <1>3. FailingEntryKept <=> [][Step]_vars
    BY DEF FailingEntryKept
  <1> HIDE DEF Step
  <1> QED BY <1>1, <1>2, <1>3, PTL DEF Spec

-----------------------------------------------------------------------------
(* Entries and statuses *)

Agreed(e) ==
  /\ mem[e].bits = status[e].bits \cap StoredBits
  /\ mem[e].failures = status[e].failures

\* Dem_Init has brought the entry and the status of the event together.
Settled(e) ==
  \/ state # "PREINITIALIZED" \/ job.kind = "store"
  \/ job.kind = "transfer" /\ e < job.next
  \/ IsMerged(e) /\ e \notin job.changed

AgreeInv == \A e \in Stored : Settled(e) => Agreed(e)

\* The event, its entry and what is stored of its status stay as they are.
Undisturbed(f) ==
  /\ f \in Stored /\ mem'[f] = mem[f] /\ Settled(f)
  /\ status'[f].bits \cap StoredBits = status[f].bits \cap StoredBits
  /\ status'[f].failures = status[f].failures

\* After storeEventMem the entry it wrote agrees with the status, and every other is as it was.
LEMMA StoreAgrees ==
  ASSUME TypeOK, NEW e \in Events, NEW r \in StatusType, NEW refused \in StatusType,
         Store(e, r, refused), NEW f \in Stored'
  PROVE  \/ f = e /\ Agreed(f)'
         \/ f # e /\ f \in Stored /\ mem'[f] = mem[f] /\ status'[f] = status[f]
  <1>1. CASE f = e /\ mem'[f] = Entry(r) /\ status'[f] = r
    BY <1>1, EntryFields DEF Agreed
  <1>2. CASE f # e /\ f \in Stored /\ mem'[f] = mem[f]
    <2>1. f \in Events
      BY <1>2, MemTypes
    <2>2. status'[f] = status[f]
      BY <1>2, <2>1, StoreEffect
    <2> QED BY <1>2, <2>2
  <1> QED BY <1>1, <1>2, StoreEntries

\* A report that is not stored changes nothing that is.
LEMMA ReportChangesNothing ==
  ASSUME TypeOK, StatusInv, ~TestFailedStorage, NEW e \in Stored, Agreed(e),
         NEW verdict \in {"FAILED", "PASSED"}, ~Changes(e, verdict)
  PROVE  /\ Updated(e, verdict).bits \cap StoredBits = status[e].bits \cap StoredBits
         /\ Updated(e, verdict).failures = status[e].failures
  <1>0. e \in Events /\ status[e] \in StatusType /\ Sound(status[e]) /\ "TNCSLC" \notin mem[e].bits
    BY MemTypes DEF StatusInv, Fits
  <1>1. StoredBits = {"TFSLC", "TNCSLC", "PENDING", "CONFIRMED"}
    BY DEF StoredBits
  <1>2. CASE verdict = "FAILED"
    <2>1. "TF" \in status[e].bits /\ ~CountsFailure(e)
      BY <1>2 DEF Changes
    <2>2. /\ Updated(e, verdict).bits = (status[e].bits \ {"TNCSLC", "TNCTOC"})
                                           \cup {"TF", "TFTOC", "TFSLC", "PENDING"}
          /\ Updated(e, verdict).failures = status[e].failures
      <3>1. OnFailed(e).bits = (status[e].bits \ {"TNCSLC", "TNCTOC"})
                                  \cup {"TF", "TFTOC", "TFSLC", "PENDING"}
                                  \cup (IF Confirms(e) THEN {"CONFIRMED"} ELSE {})
            /\ OnFailed(e).failures = Failures(e)
        BY <1>0, FailedFields
      <3>2. ~Confirms(e) /\ Failures(e) = status[e].failures
        BY <2>1 DEF Confirms, Failures
      <3> QED BY <1>2, <3>1, <3>2 DEF Updated
    <2>3. "TFSLC" \in status[e].bits /\ "PENDING" \in status[e].bits /\ "TNCSLC" \notin status[e].bits
      BY <1>0, <2>1 DEF Sound
    <2> QED BY <1>1, <2>2, <2>3
  <1>3. CASE verdict = "PASSED"
    <2>1. "TF" \notin status[e].bits
      BY <1>3 DEF Changes
    <2>2. /\ Updated(e, verdict).bits = status[e].bits \ {"TF", "TNCSLC", "TNCTOC"}
          /\ Updated(e, verdict).failures = status[e].failures
      BY <1>0, <1>3, PassedFields DEF Updated
    <2>3. "TNCSLC" \notin status[e].bits
      BY <1>0, <1>1 DEF Agreed
    <2> QED BY <1>1, <2>1, <2>2, <2>3
  <1> QED BY <1>2, <1>3

\* Every other event comes before the last one.
LEMMA LastOfLoop == \A a, b, n \in Nat : a <= n /\ b <= n /\ ~(b < n) /\ a # b => a < b
  OBVIOUS

\* What a step does to a stored event that is settled after it: its entry agrees with its status
\* again, or both are left as they were.
LEMMA StepAgrees ==
  ASSUME TypeOK, LoopsInPhase, StatusInv, AgreeInv, ~TestFailedStorage,
         "during Dem_Init" \notin PreInitReports,
         [Next]_vars, NEW f \in Stored', f \in Events, Settled(f)'
  PROVE  Agreed(f)' \/ Undisturbed(f)
  <1>0. /\ status \in [Events -> StatusType] /\ job \in JobType /\ job.next \in Events
        /\ f \in Nat /\ f # 0 /\ f <= NEvents /\ NEvents \in Nat /\ job.next \in Nat
    BY Sizes DEF TypeOK, JobType
  <1>t. "TF" \notin StoredBits /\ "TFTOC" \notin StoredBits /\ "TNCTOC" \notin StoredBits
    BY DEF StoredBits
  \* Nothing of f changes.
  <1>a. ASSUME f \in Stored, mem'[f] = mem[f], status'[f] = status[f], Settled(f) PROVE Undisturbed(f)
    BY <1>a DEF Undisturbed
  <1>b. ASSUME UNCHANGED <<mem, status, job>>, state' = state PROVE Undisturbed(f)
    BY <1>a, <1>b DEF Stored, Settled, IsMerged
  \* Another event is stored, or this one.
  <1>c. ASSUME NEW e \in Events, NEW r \in StatusType, NEW refused \in StatusType, Store(e, r, refused),
               f # e => Settled(f)
        PROVE  Agreed(f)' \/ Undisturbed(f)
    BY <1>a, <1>c, StoreAgrees
  <1>1. ASSUME NEW e \in Events, NEW verdict \in {"FAILED", "PASSED"}, HandleEvent(e, verdict)
        PROVE  Agreed(f)' \/ Undisturbed(f)
    <2> DEFINE r == Updated(e, verdict)
               refused == Without(r, {"CONFIRMED"})
    <2>1. r \in StatusType /\ refused \in StatusType
      BY ReportType, StatusKept
    <2>2. Settled(f)
      BY <1>1 DEF HandleEvent, Initialized, Settled
    <2>3. CASE Store(e, r, refused)
      <3> HIDE DEF r
      <3> QED BY <1>c, <2>1, <2>2, <2>3
    <2>4. CASE ~Changes(e, verdict) /\ KeepMemory(e, r)
      <3>1. mem' = mem /\ status' = [status EXCEPT ![e] = r] /\ f \in Stored
        BY <2>4 DEF KeepMemory, Stored
      <3>2. CASE f = e
        <4>1. Agreed(f)
          BY <2>2, <3>1 DEF AgreeInv
        <4>2. r.bits \cap StoredBits = status[f].bits \cap StoredBits /\ r.failures = status[f].failures
          BY <2>4, <3>1, <3>2, <4>1, ReportChangesNothing
        <4>3. status'[f] = r
          BY <1>0, <3>1, <3>2
        <4> HIDE DEF r
        <4> QED BY <2>2, <3>1, <4>2, <4>3 DEF Undisturbed
      <3>3. CASE f # e
        <4>1. status'[f] = status[f]
          BY <1>0, <3>1, <3>3
        <4> QED BY <1>a, <2>2, <3>1, <4>1
      <3> QED BY <3>2, <3>3
    <2> QED BY <1>1, <2>3, <2>4 DEF HandleEvent
  <1>2. ASSUME NEW e, NEW verdict, HandlePreInitEvent(e, verdict) PROVE FALSE
    <2>1. state' = "PREINITIALIZED" /\ job'.kind = "none"
      BY <1>2 DEF HandlePreInitEvent
    <2> QED BY <2>1 DEF Settled, IsMerged
  <1>3. ASSUME NEW e \in Events, ResetEventStatus(e) PROVE Undisturbed(f)
    <2>1. mem' = mem /\ status' = [status EXCEPT ![e] = Without(status[e], {"TF"})] /\ Settled(f)
          /\ f \in Stored
      BY <1>3 DEF ResetEventStatus, KeepMemory, Initialized, Settled, Stored
    <2>2. CASE f = e
      <3>1. /\ Without(status[f], {"TF"}).bits = status[f].bits \ {"TF"}
            /\ Without(status[f], {"TF"}).failures = status[f].failures
        <4>1. status[f] \in StatusType
          BY <1>0
        <4> QED BY <4>1, WithoutFields
      <3>2. status'[f] = Without(status[f], {"TF"})
        BY <1>0, <2>1, <2>2
      <3> QED BY <1>t, <2>1, <3>1, <3>2 DEF Undisturbed
    <2>3. CASE f # e
      BY <1>0, <1>a, <2>1, <2>3
    <2> QED BY <2>2, <2>3
  <1>d. ASSUME NEW c, StartCycle(c), mem' = mem, state # "PREINITIALIZED" PROVE Undisturbed(f)
    <2>1. f \in Stored /\ Settled(f) /\ status'[f] = AtCycleStart(f, c)
      BY <1>d DEF Stored, Settled, StartCycle
    <2>2. AtCycleStart(f, c).failures = status[f].failures
          /\ (AtCycleStart(f, c).bits = status[f].bits
              \/ AtCycleStart(f, c).bits = (status[f].bits \ {"TFTOC"}) \cup {"TNCTOC"})
      BY <1>0, CycleStartFields
    <2>3. AtCycleStart(f, c).bits \cap StoredBits = status[f].bits \cap StoredBits
      BY <1>t, <2>2
    <2> QED BY <1>d, <2>1, <2>2, <2>3 DEF Undisturbed
  <1>4. ASSUME NEW c, OperationCycleStart(c) PROVE Undisturbed(f)
    BY <1>4, <1>d DEF OperationCycleStart, Initialized
  <1>5. ASSUME NEW c, NEW shutdown, Initialized, EndCycle(c, shutdown) PROVE Undisturbed(f)
    BY <1>5, <1>a DEF EndCycle, Initialized, Settled, Stored
  <1>6. CASE CycleEndOfEvent
    <2> DEFINE e == job.next
               r == AtCycleEnd(e, job.cycle)
    <2>1. r \in StatusType /\ Settled(f)
      BY <1>0, <1>6, CycleType DEF CycleEndOfEvent, LoopsInPhase, Settled
    <2>2. CASE Store(e, r, r)
      <3> HIDE DEF r
      <3> QED BY <1>0, <1>c, <2>1, <2>2
    <2>3. CASE r = status[e] /\ KeepMemory(e, r)
      BY <1>0, <1>a, <2>1, <2>3 DEF KeepMemory, Stored
    <2> QED BY <1>6, <2>2, <2>3 DEF CycleEndOfEvent
  <1>7. CASE AgingOfEvent
    <2> DEFINE e == job.next
    <2>1. Settled(f)
      BY <1>7 DEF AgingOfEvent, LoopsInPhase, Settled
    <2>2. CASE UNCHANGED <<status, mem, overflow>>
      BY <1>a, <2>1, <2>2 DEF Stored
    <2>3. CASE AgeEvent(e)
      <3>1. Healed(e) \in StatusType /\ [status[e] EXCEPT !.aging = 0] \in StatusType
        BY <1>0, CycleType
      <3>2. CASE PassesAging(e) /\ Aged(e) /\ e \in Stored
        <4>1. mem' = Removed(mem, e) /\ status' = [status EXCEPT ![e] = Healed(e)]
          BY <2>3, <3>2 DEF AgeEvent, FailsAging
        <4>2. f # e /\ f \in Stored /\ mem'[f] = mem[f]
          BY <4>1 DEF Removed, Stored
        <4> QED BY <1>0, <1>a, <2>1, <4>1, <4>2
      <3>3. CASE PassesAging(e) /\ Aged(e) /\ e \notin Stored
        BY <1>0, <1>c, <2>1, <2>3, <3>1, <3>3 DEF AgeEvent, FailsAging
      <3>4. CASE PassesAging(e) /\ ~Aged(e)
        <4> DEFINE r == [status[e] EXCEPT !.aging = status[e].aging + 1]
        <4>1. r \in StatusType
          BY <1>0, <3>4, CycleType
        <4>2. Store(e, r, r)
          BY <2>3, <3>4 DEF AgeEvent, FailsAging
        <4> HIDE DEF r
        <4> QED BY <1>0, <1>c, <2>1, <4>1, <4>2
      <3>5. CASE FailsAging(e)
        <4> DEFINE r == [status[e] EXCEPT !.aging = 0]
        <4>1. r \in StatusType /\ Store(e, r, r)
          BY <2>3, <3>1, <3>5 DEF AgeEvent, FailsAging
        <4> HIDE DEF r
        <4> QED BY <1>0, <1>c, <2>1, <4>1
      <3>6. CASE ~PassesAging(e) /\ ~FailsAging(e)
        BY <2>2, <2>3, <3>6 DEF AgeEvent
      <3> QED BY <3>2, <3>3, <3>4, <3>5, <3>6
    <2> QED BY <1>7, <2>2, <2>3 DEF AgingOfEvent
  <1>8. CASE Dem_PreInit
    BY <1>8 DEF Dem_PreInit, NoJob, Settled, IsMerged
  <1>9. CASE Dem_Init
    <2>1. job'.kind = "merge" /\ job'.next = 1 /\ state' = "PREINITIALIZED"
      BY <1>9 DEF Dem_Init, NoJob
    <2> QED BY <1>0, <2>1, LoopOrder DEF Settled, IsMerged
  <1>10. CASE MergeEvent
    <2> DEFINE j == [job EXCEPT !.changed = IF job.next \in Stored /\ MergeChanges(job.next)
                                            THEN @ \cup {job.next} ELSE @]
    <2>1. /\ j \in JobType /\ j.kind = "merge" /\ j.next = job.next /\ job' = Advance(j, "transfer")
          /\ job.changed \subseteq j.changed
          /\ (job.next \in Stored /\ MergeChanges(job.next) => job.next \in j.changed)
          /\ mem' = mem /\ state' = "PREINITIALIZED" /\ job.kind = "merge" /\ f \in Stored
      BY <1>0, <1>10 DEF JobType, MergeEvent, LoopsInPhase, Stored
    <2> HIDE DEF j
    <2>2. job'.changed = j.changed /\ (job'.kind = "merge" \/ (job'.kind = "transfer" /\ job'.next = 1))
      BY <2>1 DEF Advance, JobType
    <2>3. IsMerged(f)' /\ f \notin j.changed
      BY <1>0, <2>1, <2>2, LoopOrder DEF Settled
    <2>4. CASE f = job.next
      <3>1. status'[f] = Merged(f) /\ ~MergeChanges(f)
        BY <1>0, <1>10, <2>1, <2>3, <2>4 DEF MergeEvent
      <3> QED BY <2>1, <3>1 DEF MergeChanges, Agreed
    <2>5. CASE f # job.next
      <3>1. IsMerged(f)
        BY <2>3, <2>5, StepMerges
      <3>2. Settled(f)
        BY <2>1, <2>3, <3>1 DEF Settled
      <3>3. status'[f] = status[f]
        BY <1>0, <1>10, <2>5 DEF MergeEvent
      <3> QED BY <1>a, <2>1, <3>2, <3>3
    <2> QED BY <2>4, <2>5
  <1>11. CASE TransferEvent
    <2> DEFINE e == job.next
    <2>1. /\ job.kind = "transfer" /\ job' = Advance(job, "store") /\ state' = "PREINITIALIZED"
          /\ e \in Events /\ status[e] \in StatusType
      BY <1>0, <1>11 DEF TransferEvent, LoopsInPhase
    <2>2. f # e => Settled(f)
      <3>1. CASE e < NEvents
        <4>1. job'.kind = "transfer" /\ job'.next = e + 1 /\ job'.changed = job.changed
          BY <1>0, <2>1, <3>1 DEF Advance, JobType
        <4>2. f < e + 1 \/ f \notin job.changed
          BY <2>1, <4>1 DEF Settled
        <4>3. f # e /\ f < e + 1 => f < e
          BY <1>0, LoopOrder
        <4> QED BY <2>1, <4>2, <4>3 DEF Settled, IsMerged
      <3>2. CASE ~(e < NEvents)
        <4>1. NEvents \in Nat /\ f \in Nat /\ f <= NEvents /\ e \in Nat /\ e <= NEvents
          BY <2>1, Sizes
        <4>2. f # e => f < e
          BY <3>2, <4>1, LastOfLoop
        <4> QED BY <2>1, <4>2 DEF Settled
      <3> QED BY <3>1, <3>2
    <2>3. CASE e \in Stored /\ e \in job.changed /\ Store(e, status[e], status[e])
      BY <1>c, <2>1, <2>2, <2>3
    <2>4. CASE ~(e \in Stored /\ e \in job.changed) /\ UNCHANGED <<status, mem, overflow>>
      <3>1. f \in Stored
        BY <2>4 DEF Stored
      <3>2. f = e => Settled(f)
        BY <2>1, <2>4, <3>1 DEF Settled, IsMerged
      <3> QED BY <1>a, <2>2, <2>4, <3>1, <3>2
    <2> QED BY <1>11, <2>3, <2>4 DEF TransferEvent
  <1>12. CASE StorePreInitEvent
    <2>1. Settled(f) /\ job.next \in Events /\ status[job.next] \in StatusType
      BY <1>0, <1>12 DEF StorePreInitEvent, Settled
    <2>2. CASE Store(job.next, status[job.next], status[job.next])
      BY <1>c, <2>1, <2>2
    <2>3. CASE UNCHANGED <<status, mem, overflow>>
      BY <1>a, <2>1, <2>3 DEF Stored
    <2> QED BY <1>12, <2>2, <2>3 DEF StorePreInitEvent
  <1>13. CASE WakeUp
    BY <1>13, <1>d DEF WakeUp
  <1>14. ASSUME NEW all, Dem_ClearDTC(all) PROVE Undisturbed(f)
    BY <1>14, <1>b DEF Dem_ClearDTC
  <1>15. CASE ClearEvent
    <2> DEFINE e == clearing.next
    <2>1. e \in Events /\ UNCHANGED <<state, job>>
      BY <1>15 DEF ClearEvent
    <2>2. Settled(f)
      BY <2>1 DEF Settled, IsMerged
    <2>3. CASE Cleared(e)
      <3>1. mem' = Removed(mem, e) /\ status' = [status EXCEPT ![e] = DefaultStatus]
        BY <2>3 DEF Cleared
      <3>2. f # e /\ f \in Stored /\ mem'[f] = mem[f]
        BY <3>1 DEF Removed, Stored
      <3> QED BY <1>0, <1>a, <2>2, <3>1, <3>2
    <2>4. CASE UNCHANGED <<status, mem>>
      BY <1>b, <2>1, <2>4
    <2> QED BY <1>15, <2>3, <2>4 DEF ClearEvent
  <1>16. CASE ClearEnds
    BY <1>16, <1>b DEF ClearEnds
  <1>17. CASE UNCHANGED vars
    BY <1>17, <1>b DEF vars
  <1> QED
    BY <1>1, <1>2, <1>3, <1>4, <1>5, <1>6, <1>7, <1>8, <1>9, <1>10, <1>11, <1>12, <1>13, <1>14,
       <1>15, <1>16, <1>17 DEF Next, OperationCycleEnd, Dem_Shutdown

\* Every step keeps the agreement of the settled events.
LEMMA AgreeKept ==
  ASSUME SInv, AgreeInv, ~TestFailedStorage, "during Dem_Init" \notin PreInitReports, [Next]_vars, TypeOK'
  PROVE  AgreeInv'
  <1> SUFFICES ASSUME NEW f \in Stored', Settled(f)' PROVE Agreed(f)'
    BY DEF AgreeInv
  <1>1. f \in Events
    BY DEF TypeOK
  <1>2. CASE Undisturbed(f)
    BY <1>2 DEF Undisturbed, AgreeInv, Agreed
  <1> QED BY <1>1, <1>2, StepAgrees DEF SInv

\* What a reset gives back is what was reported: if the test failed bit is not
\* stored and nothing is reported while Dem_Init runs, an entry has the stored bits
\* and the failure counter of its event from the end of Dem_Init on.
THEOREM EntriesAgree == ASSUME ~TestFailedStorage, "during Dem_Init" \notin PreInitReports
                        PROVE  Spec => []StoredAgrees
  <1>1. Init => AgreeInv
    BY DEF Init, AgreeInv, Stored
  <1>2. SInv /\ SInv' /\ AgreeInv /\ [Next]_vars => AgreeInv'
    BY AgreeKept DEF SInv
  <1>3. AgreeInv => StoredAgrees
    BY DEF AgreeInv, Agreed, Settled, StoredAgrees
  <1>4. Spec => []SInv
    BY StatusInvariant
  <1> QED BY <1>1, <1>2, <1>3, <1>4, PTL DEF Spec
=============================================================================
