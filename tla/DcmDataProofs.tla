---------------------------- MODULE DcmDataProofs ----------------------------
(***************************************************************************)
(* Services that hand data over, each on its own: reading DTCs, transfers, *)
(* reading identifiers, and the services that may leave a request pending. *)
(***************************************************************************)
EXTENDS DcmReadDtc, DcmTransfer, DcmPending, DcmReadDid,
        SequenceTheorems, FiniteSetTheorems, WellFoundedInduction, TLAPS

(* The least element of a set of natural numbers. *)
LEMMA LeastOf ==
  ASSUME NEW S \in SUBSET Nat, S # {}
  PROVE  \E i \in S : \A j \in S : i <= j
<1> DEFINE R == OpToRel(<, Nat)
<1>1. IsWellFoundedOn(R, Nat)
  BY NatLessThanWellFounded
<1>2. \A x, y \in Nat : x < y => <<x, y>> \in R
  BY DEF OpToRel
<1> HIDE DEF R
<1>3. PICK i \in S : \A j \in S : <<j, i>> \notin R
  BY <1>1, WFMin
<1>4. \A j \in S : i <= j
  <2> TAKE j \in S
  <2>1. i \in Nat /\ j \in Nat
    OBVIOUS
  <2>2. ~(j < i)
    BY <1>2, <1>3, <2>1, Zenon
  <2> QED BY <2>1, <2>2
<1> QED BY <1>4

-----------------------------------------------------------------------------
(* Reading DTCs, for any DTCs, events, masks and rooms.                     *)
Readings ==
  [service : {"none", "number", "list", "obd"}, phase : {"count", "walk", "done"},
   room : Nat, counted : Nat, listed : Seq(Dtcs), positive : BOOLEAN]
DtcFilters == [mask : SUBSET StatusBits, emission : BOOLEAN, index : 0 .. Len(DtcOrder)]

(* While it walks the service has listed, in order, DTCs up to the index   *)
(* of the filter, and all of those that have matched ever since; what is   *)
(* still to come matches.                                                  *)
ListedTo(listed, i) == \A k \in DOMAIN listed : \E m \in 1 .. i : DtcOrder[m] = listed[k]
Ordered(listed) ==
  \A i, j \in DOMAIN listed :
    i < j => \E m, n \in DOMAIN DtcOrder :
               m < n /\ DtcOrder[m] = listed[i] /\ DtcOrder[n] = listed[j]
NoneMissed(listed, i, S) ==
  \A m \in 1 .. i : DtcOrder[m] \in S => \E k \in DOMAIN listed : listed[k] = DtcOrder[m]
ReadDtcInv ==
  /\ dtcReading \in Readings /\ dtcFilter \in DtcFilters
  /\ stays \subseteq {d \in Dtcs : MatchesFilter(d)}
  /\ Ordered(dtcReading.listed)
  /\ dtcReading.phase = "count" => dtcReading.listed = <<>> /\ dtcFilter.index = 0
  /\ dtcReading.phase = "walk" =>
       /\ ListedTo(dtcReading.listed, dtcFilter.index)
       /\ NoneMissed(dtcReading.listed, dtcFilter.index, stays)
  /\ dtcReading.phase = "done" /\ dtcReading.positive /\ dtcReading.service \in {"list", "obd"}
       => NoneMissed(dtcReading.listed, Len(DtcOrder), stays)

LEMMA Positions ==
  /\ Len(DtcOrder) \in Nat /\ DOMAIN DtcOrder = 1 .. Len(DtcOrder)
  /\ \A m \in 1 .. Len(DtcOrder) : DtcOrder[m] \in Dtcs
BY ReadDtcAssumption

LEMMA ForemostOf ==
  ASSUME NEW i \in 0 .. Len(DtcOrder), MatchingFrom(i) # {}
  PROVE  /\ Foremost(MatchingFrom(i)) \in i + 1 .. Len(DtcOrder)
         /\ \A j \in MatchingFrom(i) : Foremost(MatchingFrom(i)) <= j
<1> DEFINE S == MatchingFrom(i)
<1>1. S \in SUBSET Nat /\ S \subseteq i + 1 .. Len(DtcOrder)
  BY Positions DEF MatchingFrom
<1> HIDE DEF S
<1>2. \E k \in S : \A j \in S : k <= j
  BY <1>1, LeastOf DEF S
<1>3. Foremost(S) \in S /\ \A j \in S : Foremost(S) <= j
  BY <1>2 DEF Foremost
<1> QED BY <1>1, <1>3 DEF S

(* One more DTC, further on than those that are listed. *)
LEMMA OneMoreListed ==
  ASSUME NEW listed \in Seq(Dtcs), NEW i \in 0 .. Len(DtcOrder), NEW n \in i + 1 .. Len(DtcOrder),
         ListedTo(listed, i), Ordered(listed)
  PROVE  /\ Append(listed, DtcOrder[n]) \in Seq(Dtcs)
         /\ ListedTo(Append(listed, DtcOrder[n]), n) /\ Ordered(Append(listed, DtcOrder[n]))
         /\ \A k \in DOMAIN listed : Append(listed, DtcOrder[n])[k] = listed[k]
         /\ \E k \in DOMAIN Append(listed, DtcOrder[n]) :
              Append(listed, DtcOrder[n])[k] = DtcOrder[n]
         /\ DOMAIN listed \subseteq DOMAIN Append(listed, DtcOrder[n])
<1> DEFINE more == Append(listed, DtcOrder[n])
           l == Len(listed)
<1>1. n \in DOMAIN DtcOrder /\ DtcOrder[n] \in Dtcs /\ l \in Nat /\ DOMAIN listed = 1 .. l
  BY Positions
<1>2. /\ more \in Seq(Dtcs) /\ DOMAIN more = 1 .. l + 1
      /\ \A k \in 1 .. l : more[k] = listed[k]
      /\ more[l + 1] = DtcOrder[n]
  BY <1>1
<1> HIDE DEF more, l
<1>3. ListedTo(more, n)
  <2> SUFFICES ASSUME NEW k \in DOMAIN more
               PROVE  \E m \in 1 .. n : DtcOrder[m] = more[k]
    BY DEF ListedTo
  <2>1. CASE k = l + 1
    <3>1. n \in 1 .. n
      BY Positions
    <3> QED BY <1>2, <2>1, <3>1
  <2>2. CASE k # l + 1
    <3>1. k \in 1 .. l
      BY <1>1, <1>2, <2>2
    <3>2. PICK m \in 1 .. i : DtcOrder[m] = listed[k]
      BY <1>1, <3>1 DEF ListedTo
    <3>3. m \in 1 .. n
      BY Positions
    <3> QED BY <1>2, <3>1, <3>2, <3>3
  <2> QED BY <2>1, <2>2
<1>4. Ordered(more)
  <2> SUFFICES ASSUME NEW a \in DOMAIN more, NEW b \in DOMAIN more, a < b
               PROVE  \E m, k \in DOMAIN DtcOrder :
                        m < k /\ DtcOrder[m] = more[a] /\ DtcOrder[k] = more[b]
    BY DEF Ordered
  <2>1. a \in 1 .. l
    BY <1>1, <1>2
  <2>2. CASE b = l + 1
    <3>1. PICK m \in 1 .. i : DtcOrder[m] = listed[a]
      BY <1>1, <2>1 DEF ListedTo
    <3>2. m \in DOMAIN DtcOrder /\ m < n
      BY Positions
    <3> QED BY <1>1, <1>2, <2>1, <2>2, <3>1, <3>2
  <2>3. CASE b # l + 1
    <3>1. b \in 1 .. l
      BY <1>1, <1>2, <2>3
    <3> QED BY <1>1, <1>2, <2>1, <3>1 DEF Ordered
  <2> QED BY <2>2, <2>3
<1>5. l + 1 \in DOMAIN more /\ DOMAIN listed \subseteq DOMAIN more
  BY <1>1, <1>2
<1> QED BY <1>1, <1>2, <1>3, <1>4, <1>5 DEF more

(* What other tasks do only lets fewer DTCs stay. *)
LEMMA KeptByOtherTasks ==
  ASSUME ReadDtcInv, StillMatching, UNCHANGED <<dtcFilter, dtcReading>>
  PROVE  ReadDtcInv'
<1>1. stays' \subseteq stays /\ stays' \subseteq {d \in Dtcs : MatchesFilter(d)}'
  BY DEF StillMatching
<1>2. \A i : NoneMissed(dtcReading.listed, i, stays) => NoneMissed(dtcReading.listed, i, stays')
  BY <1>1 DEF NoneMissed
<1>3. (stays \subseteq {d \in Dtcs : MatchesFilter(d)})'
  BY <1>1
<1> QED BY <1>2, <1>3 DEF ReadDtcInv

LEMMA KeptByRequest ==
  ASSUME ReadDtcRequest
  PROVE  ReadDtcInv'
<1>1. PICK service \in {"number", "list", "obd"}, mask \in FilterMasks, emission \in BOOLEAN,
           room \in ListRooms :
        /\ service = "obd" => emission
        /\ mask = {} => service = "list" /\ ~emission
        /\ SetDtcFilter(mask, emission)
        /\ dtcReading' = [NotReading EXCEPT !.service = service, !.room = room,
                                  !.phase = IF service = "obd" THEN "walk" ELSE "count"]
  BY DEF ReadDtcRequest
<1> DEFINE phase == IF service = "obd" THEN "walk" ELSE "count"
<1>2. dtcReading' = [service |-> service, phase |-> phase, room |-> room, counted |-> 0,
                     listed |-> <<>>, positive |-> FALSE]
  BY <1>1 DEF NotReading
<1>3. phase \in {"count", "walk"}
  OBVIOUS
<1> HIDE DEF phase
<1>4. dtcReading' \in Readings /\ dtcReading'.listed = <<>> /\ ~dtcReading'.positive
  BY <1>2, <1>3, ReadDtcAssumption DEF Readings
<1>5. dtcFilter' \in DtcFilters /\ dtcFilter'.index = 0
  BY <1>1, Positions, ReadDtcAssumption DEF SetDtcFilter, DtcFilters
<1>6. stays' = {d \in Dtcs : MatchesFilter(d)}'
  BY DEF ReadDtcRequest
<1>7. /\ Ordered(dtcReading'.listed) /\ ListedTo(dtcReading'.listed, 0)
      /\ NoneMissed(dtcReading'.listed, 0, stays')
  BY <1>4 DEF Ordered, ListedTo, NoneMissed
<1> QED BY <1>4, <1>5, <1>6, <1>7 DEF ReadDtcInv

LEMMA KeptByCount ==
  ASSUME ReadDtcInv, GetNumberOfFilteredDtc
  PROVE  ReadDtcInv'
<1> DEFINE number == Cardinality(MatchingFrom(0))
           phase == IF dtcReading.service = "list" /\ number <= dtcReading.room
                    THEN "walk" ELSE "done"
           positive == dtcReading.service = "number"
<1>1. /\ dtcReading' = [dtcReading EXCEPT !.counted = number, !.phase = phase,
                                          !.positive = positive]
      /\ dtcReading.phase = "count"
      /\ UNCHANGED <<eventBits, unavailable, suppressed, dtcFilter, stays>>
  BY DEF GetNumberOfFilteredDtc
<1>2. phase \in {"walk", "done"} /\ positive \in BOOLEAN
  OBVIOUS
<1>3. number \in Nat
  <2>1. IsFiniteSet(1 .. Len(DtcOrder)) /\ MatchingFrom(0) \subseteq 1 .. Len(DtcOrder)
    BY Positions, FS_Interval DEF MatchingFrom
  <2> QED BY <2>1, FS_Subset, FS_CardinalityType
<1>4. positive => dtcReading.service = "number"
  OBVIOUS
<1> HIDE DEF number, phase, positive
<1>5. /\ dtcReading' \in Readings /\ dtcReading'.phase = phase
      /\ dtcReading'.listed = dtcReading.listed /\ dtcReading'.service = dtcReading.service
  BY <1>1, <1>2, <1>3 DEF ReadDtcInv, Readings
<1>6. dtcReading'.positive => dtcReading'.service = "number"
  BY <1>1, <1>4, <1>5 DEF ReadDtcInv, Readings
<1>7. (stays \subseteq {d \in Dtcs : MatchesFilter(d)})'
  BY <1>1 DEF ReadDtcInv, MatchesFilter, StatusMatches, UdsStatus, AllBits, AvailableEvents,
       DtcIsAvailable
<1>8. dtcReading.listed = <<>> /\ dtcFilter.index = 0
  BY <1>1 DEF ReadDtcInv
<1>9. ListedTo(dtcReading.listed, dtcFilter.index)
      /\ NoneMissed(dtcReading.listed, dtcFilter.index, stays)
  BY <1>8 DEF ListedTo, NoneMissed
<1> QED BY <1>1, <1>2, <1>5, <1>6, <1>7, <1>9 DEF ReadDtcInv

LEMMA KeptByNext ==
  ASSUME ReadDtcInv, GetNextFilteredDtc
  PROVE  ReadDtcInv'
<1> DEFINE next == MatchingFrom(dtcFilter.index)
           n == Foremost(next)
<1>1. /\ dtcReading.phase = "walk" /\ UNCHANGED <<eventBits, unavailable, suppressed, stays>>
      /\ dtcReading \in Readings /\ dtcFilter \in DtcFilters
      /\ dtcFilter.index \in 0 .. Len(DtcOrder)
      /\ ListedTo(dtcReading.listed, dtcFilter.index) /\ Ordered(dtcReading.listed)
      /\ NoneMissed(dtcReading.listed, dtcFilter.index, stays)
      /\ stays \subseteq {d \in Dtcs : MatchesFilter(d)}
  BY DEF GetNextFilteredDtc, ReadDtcInv, DtcFilters
<1>2. ASSUME dtcFilter'.mask = dtcFilter.mask, dtcFilter'.emission = dtcFilter.emission
      PROVE  (stays \subseteq {d \in Dtcs : MatchesFilter(d)})'
  BY <1>1, <1>2 DEF MatchesFilter, StatusMatches, UdsStatus, AllBits, AvailableEvents,
       DtcIsAvailable
<1>3. \A m \in DOMAIN DtcOrder :
        DtcOrder[m] \in stays => m \in next \/ m \in 1 .. dtcFilter.index
  BY <1>1, Positions DEF MatchingFrom
<1>4. CASE /\ next = {} /\ dtcFilter' = [dtcFilter EXCEPT !.index = 0] /\ ReadingEnds(TRUE)
  <2>1. /\ dtcReading' \in Readings /\ dtcReading'.phase = "done"
        /\ dtcReading'.listed = dtcReading.listed
    BY <1>1, <1>4 DEF ReadingEnds, Readings
  <2>2. /\ dtcFilter' \in DtcFilters
        /\ dtcFilter'.mask = dtcFilter.mask /\ dtcFilter'.emission = dtcFilter.emission
    BY <1>1, <1>4, Positions DEF DtcFilters
  <2>3. NoneMissed(dtcReading.listed, Len(DtcOrder), stays)
    BY <1>1, <1>3, <1>4, Positions DEF NoneMissed
  <2> QED BY <1>1, <1>2, <2>1, <2>2, <2>3 DEF ReadDtcInv
<1>5. CASE next # {} /\ dtcFilter' = [dtcFilter EXCEPT !.index = n]
  <2>1. n \in dtcFilter.index + 1 .. Len(DtcOrder) /\ (\A j \in next : n <= j)
    BY <1>1, <1>5, ForemostOf
  <2>2. n \in 0 .. Len(DtcOrder)
    BY <1>1, <2>1, Positions
  <2> HIDE DEF n
  <2>3. /\ dtcFilter' \in DtcFilters /\ dtcFilter'.index = n
        /\ dtcFilter'.mask = dtcFilter.mask /\ dtcFilter'.emission = dtcFilter.emission
    BY <1>1, <1>5, <2>2 DEF DtcFilters
  <2>4. CASE ReadingEnds(FALSE)
    <3>1. /\ dtcReading' \in Readings /\ dtcReading'.phase = "done" /\ ~dtcReading'.positive
          /\ dtcReading'.listed = dtcReading.listed
      BY <1>1, <2>4 DEF ReadingEnds, Readings
    <3> QED BY <1>1, <1>2, <2>3, <3>1 DEF ReadDtcInv
  <2>5. CASE dtcReading' = [dtcReading EXCEPT !.listed = Append(@, DtcOrder[n])]
    <3> DEFINE listed == dtcReading.listed
               more == Append(listed, DtcOrder[n])
    <3>1. listed \in Seq(Dtcs)
      BY <1>1 DEF Readings
    <3>2. /\ more \in Seq(Dtcs) /\ ListedTo(more, n) /\ Ordered(more)
          /\ \A k \in DOMAIN listed : more[k] = listed[k]
          /\ \E k \in DOMAIN more : more[k] = DtcOrder[n]
          /\ DOMAIN listed \subseteq DOMAIN more
      BY <1>1, <2>1, <3>1, OneMoreListed
    <3>3. dtcReading' = [dtcReading EXCEPT !.listed = more]
      BY <2>5
    <3> HIDE DEF more
    <3>4. /\ dtcReading' \in Readings /\ dtcReading'.phase = "walk" /\ dtcReading'.listed = more
      BY <1>1, <3>2, <3>3 DEF Readings
    <3>5. NoneMissed(more, n, stays)
      <4> SUFFICES ASSUME NEW m \in 1 .. n, DtcOrder[m] \in stays
                   PROVE  \E k \in DOMAIN more : more[k] = DtcOrder[m]
        BY DEF NoneMissed
      <4>1. m \in DOMAIN DtcOrder
        BY <2>2, Positions
      <4>2. CASE m = n
        BY <3>2, <4>2
      <4>3. CASE m # n
        <5>1. m \notin next
          BY <2>1, <2>2, <4>1, <4>3, Positions
        <5>2. PICK k \in DOMAIN listed : listed[k] = DtcOrder[m]
          BY <1>1, <1>3, <4>1, <5>1 DEF NoneMissed
        <5> QED BY <3>2, <5>2
      <4> QED BY <4>2, <4>3
    <3> QED BY <1>1, <1>2, <2>3, <3>2, <3>4, <3>5 DEF ReadDtcInv
  <2>6. ReadingEnds(FALSE) \/ dtcReading' = [dtcReading EXCEPT !.listed = Append(@, DtcOrder[n])]
    BY <1>5 DEF GetNextFilteredDtc, n
  <2> QED BY <2>4, <2>5, <2>6
<1> QED BY <1>4, <1>5 DEF GetNextFilteredDtc

LEMMA ReadDtcStarts ==
  ASSUME ReadDtcInit
  PROVE  ReadDtcInv
<1>1. dtcReading \in Readings /\ dtcReading.listed = <<>> /\ dtcReading.phase = "done"
      /\ ~dtcReading.positive
  BY DEF ReadDtcInit, NotReading, Readings
<1>2. dtcFilter \in DtcFilters
  BY Positions DEF ReadDtcInit, DtcFilters
<1>3. Ordered(dtcReading.listed)
  BY <1>1 DEF Ordered
<1> QED BY <1>1, <1>2, <1>3 DEF ReadDtcInit, ReadDtcInv

LEMMA ReadDtcStepHolds ==
  ASSUME ReadDtcInv, [ReadDtcNext]_readDtcVars
  PROVE  ReadDtcInv'
<1>1. CASE UNCHANGED readDtcVars
  BY <1>1 DEF readDtcVars, ReadDtcInv, MatchesFilter, StatusMatches, UdsStatus, AllBits,
       AvailableEvents, DtcIsAvailable
<1>2. CASE EventStatusChanges \/ SetDtcSuppression \/ SetEventAvailable
  BY <1>2, KeptByOtherTasks DEF EventStatusChanges, SetDtcSuppression, SetEventAvailable
<1> QED BY <1>1, <1>2, KeptByRequest, KeptByCount, KeptByNext DEF ReadDtcNext

(* WhatStaysIsListed: a list names every DTC that has matched since the    *)
(* filter was set, once, in the order of the configuration, for any DTCs,  *)
(* events, masks and rooms.                                                *)
THEOREM StayingDtcsAreListed == ReadDtcSpec => []WhatStaysIsListed
<1>1. ReadDtcInit => ReadDtcInv
  BY ReadDtcStarts
<1>2. ReadDtcInv /\ [ReadDtcNext]_readDtcVars => ReadDtcInv'
  BY ReadDtcStepHolds
<1>3. ReadDtcInv => WhatStaysIsListed
  <2> SUFFICES ASSUME ReadDtcInv PROVE WhatStaysIsListed
    OBVIOUS
  <2>1. ASSUME dtcReading.service \in {"list", "obd"}, dtcReading.phase = "done",
               dtcReading.positive, NEW d \in stays
        PROVE  IsListed(d)
    <3>1. PICK m \in DOMAIN DtcOrder : DtcOrder[m] = d
      BY DEF ReadDtcInv, Dtcs
    <3>2. m \in 1 .. Len(DtcOrder)
      BY Positions
    <3> QED BY <2>1, <3>1, <3>2 DEF ReadDtcInv, NoneMissed, IsListed
  <2> QED BY <2>1 DEF ReadDtcInv, Ordered, WhatStaysIsListed
<1> QED BY <1>1, <1>2, <1>3, PTL DEF ReadDtcSpec

(* The type invariant: an event that is not available has no bit set, so   *)
(* that it has no part in the status of its DTC.                           *)
THEOREM ReadDtcWellTyped == ReadDtcSpec => []ReadDtcTypeOK
<1> DEFINE Bits == EventStatuses \cup {{}, {"incompleteCycle"}}
           Typed == eventBits \in [DtcEvents -> Bits] /\ unavailable \subseteq DtcEvents
                    /\ \A e \in unavailable : eventBits[e] = {}
<1>1. ReadDtcInit => ReadDtcInv /\ Typed
  BY ReadDtcStarts DEF ReadDtcInit
<1>2. Typed /\ [ReadDtcNext]_readDtcVars => Typed'
  <2> SUFFICES ASSUME Typed, [ReadDtcNext]_readDtcVars PROVE Typed'
    OBVIOUS
  <2>1. CASE SetEventAvailable
    BY <2>1 DEF SetEventAvailable
  <2>2. CASE EventStatusChanges
    BY <2>2 DEF EventStatusChanges
  <2>3. CASE UNCHANGED <<eventBits, unavailable>>
    BY <2>3
  <2> QED BY <2>1, <2>2, <2>3
      DEF ReadDtcNext, ReadDtcRequest, GetNumberOfFilteredDtc, GetNextFilteredDtc,
          SetDtcSuppression, readDtcVars
<1>3. ReadDtcInv /\ Typed => ReadDtcTypeOK
  BY DEF ReadDtcInv, Readings, DtcFilters, ReadDtcTypeOK
<1>4. ReadDtcInv /\ [ReadDtcNext]_readDtcVars => ReadDtcInv'
  BY ReadDtcStepHolds
<1> HIDE DEF Typed
<1> QED BY <1>1, <1>2, <1>3, <1>4, PTL DEF ReadDtcSpec

-----------------------------------------------------------------------------
(* The services that may leave a request pending, for any routines,        *)
(* identifiers, blocks and memory ranges.                                  *)

(* What PendingIsServed needs: the preemption of a request ends after the  *)
(* request has.                                                            *)
EndsBeforeTakeover == LastsOverTakeover = FALSE

(* The service whose state is not idle is the one that is served, and the  *)
(* callout of a routine that is pending is at work.                        *)
PendingInv ==
  /\ PendingIsServed
  /\ routine.state # "IDLE" => served = "routine" /\ routine.call \in routineWork
  /\ didWrite.state \in {"IDLE", "PENDING"} /\ (didWrite.state = "PENDING" => served = "write")
  /\ memoryState # "UNUSED" => served = "memory"
  /\ \A call \in routineWork : call[1] \in Routines

(* What the answers that went elsewhere may be. *)
Repeats == {<<"memory", Signalled>>}

(* The callouts of routines that are at work, each for a reason. *)
WorksFor(calls, for, r) ==
  \A call \in calls :
    /\ call[1] \in Routines
    /\ (for = "routine" /\ r.call = call /\ r.state # "IDLE") \/ RoutineRow[call[1]] # Everywhere

LEMMA WorkKept == PendingInv => WorksFor(routineWork, served, routine)
BY DEF PendingInv, PendingIsServed, WorksFor

LEMMA StatesAfter ==
  /\ RoutineStateAfter("PENDING") = "PENDING"
  /\ RoutineStateAfter("FORCE_RCRRP") = "AWAITING_SEND"
  /\ RoutineStateAfter("OK") = "IDLE" /\ RoutineStateAfter("NOT_OK") = "IDLE"
BY DEF RoutineStateAfter

(* A routine service that has ended its step: a new request finds it idle, *)
(* the main function goes on with what is pending.                         *)
LEMMA RoutineServed ==
  ASSUME PendingInv, NEW call, DspUdsRoutineControl(call, "routine"),
         \/ served = "none"
         \/ served = "routine" /\ routine.call = call /\ routine.state # "IDLE",
         UNCHANGED <<didWrite, memoryState>>
  PROVE  PendingInv'
<1>1. WorksFor(routineWork \ {call}, "none", NoRoutine)
  BY WorkKept DEF WorksFor, PendingInv, NoRoutine
<1>2. /\ didWrite.state = "IDLE" /\ memoryState = "UNUSED" /\ astray \subseteq Repeats /\ ~misdirected
      /\ GoesOn(routine.state) => call \in routineWork
  BY DEF PendingInv, PendingIsServed, GoesOn, Repeats
<1>3. CASE ~RoutineAllowed(call)
  <2>1. routine' = NoRoutine /\ served' = Signalled /\ astray' \subseteq Repeats
        /\ routineWork' = routineWork /\ misdirected' = misdirected
    BY <1>2, <1>3 DEF DspUdsRoutineControl, ProcessingDone
  <2>2. call \in routineWork => call[1] \in Routines /\ RoutineRow[call[1]] # Everywhere
    BY <1>3 DEF PendingInv, RoutineAllowed, Allows, Everywhere, DspCheckSessionLevel,
         DspCheckSecurityLevel
  <2>3. WorksFor(routineWork, "none", NoRoutine)
    BY <1>1, <2>2 DEF WorksFor
  <2> QED BY <1>2, <2>1, <2>3 DEF PendingInv, PendingIsServed, WorksFor, NoRoutine, Repeats, Signalled
<1>4. CASE RoutineAllowed(call)
  <2>1. PICK ret \in {"OK", "PENDING", "FORCE_RCRRP", "NOT_OK"} :
          /\ RoutineCallout(call, ret)
          /\ routine' = RoutineAfter(call, RoutineStateAfter(ret))
          /\ IF RoutineStateAfter(ret) = "IDLE" THEN ProcessingDone("routine", "routine")
             ELSE StillServes("routine")
    BY <1>4 DEF DspUdsRoutineControl
  <2>2. astray' \subseteq Repeats /\ ~misdirected' /\ call[1] \in Routines
    BY <1>2, <1>4, <2>1 DEF RoutineCallout, ProcessingDone, StillServes, RoutineAllowed
  <2>3. CASE ret \in {"PENDING", "FORCE_RCRRP"}
    <3>1. /\ routineWork' = (routineWork \ {call}) \cup {call}
          /\ served' = "routine" /\ routine'.call = call /\ routine'.state # "IDLE"
      BY <2>1, <2>3, StatesAfter DEF RoutineCallout, StillServes, RoutineAfter
    <3>2. WorksFor(routineWork', served', routine')
      BY <1>1, <2>2, <3>1 DEF WorksFor
    <3> QED BY <1>2, <2>2, <3>1, <3>2 DEF PendingInv, PendingIsServed, WorksFor, Repeats, Signalled
  <2>4. CASE ret \in {"OK", "NOT_OK"}
    <3>1. /\ routineWork' = routineWork \ {call}
          /\ served' = Signalled /\ routine' = NoRoutine
      BY <2>1, <2>4, StatesAfter DEF RoutineCallout, ProcessingDone, RoutineAfter
    <3> QED BY <1>1, <1>2, <2>2, <3>1
            DEF PendingInv, PendingIsServed, WorksFor, NoRoutine, Repeats, Signalled
  <2> QED BY <2>3, <2>4
<1> QED BY <1>3, <1>4

LEMMA KeptByRoutine ==
  ASSUME PendingInv, DspRoutineControlMainFunction
  PROVE  PendingInv'
<1>1. UNCHANGED <<didWrite, memoryState>>
  BY DEF DspRoutineControlMainFunction
<1>2. CASE routine.state \in {"PENDING", "FORCE_RCRRP"} /\ DspUdsRoutineControl(routine.call, served)
  <2>1. served = "routine" /\ routine.state # "IDLE"
    BY <1>2 DEF PendingInv
  <2> QED BY <1>1, <1>2, <2>1, RoutineServed
<1>3. CASE /\ routine.state = "AWAITING_SEND"
           /\ routine' = [routine EXCEPT !.state = "FORCE_RCRRP"]
           /\ UNCHANGED <<routineWork, misdirected, served, astray>>
  <2>1. routine'.call = routine.call /\ routine'.state # "IDLE"
    BY <1>3
  <2>2. served = "routine"
    BY <1>3 DEF PendingInv
  <2> QED BY <1>1, <1>3, <2>1, <2>2 DEF PendingInv, PendingIsServed, Signalled
<1> QED BY <1>2, <1>3 DEF DspRoutineControlMainFunction

LEMMA WriteServed ==
  ASSUME PendingInv, NEW d, DspUdsWriteDataByIdentifier(d, "write"), served \in {"none", "write"},
         UNCHANGED <<routine, routineWork, memoryState, misdirected>>
  PROVE  PendingInv'
<1>1. /\ routine.state = "IDLE" /\ memoryState = "UNUSED" /\ astray \subseteq Repeats
      /\ WorksFor(routineWork, "none", routine)
  BY WorkKept DEF PendingInv, PendingIsServed, WorksFor, Repeats
<1>2. PICK end :
        /\ didWrite' = IF end = "PENDING" THEN [state |-> "PENDING", did |-> d] ELSE NoWrite
        /\ IF end = "PENDING" THEN StillServes("write") ELSE ProcessingDone("write", "write")
  BY DEF DspUdsWriteDataByIdentifier
<1>3. /\ astray' \subseteq Repeats
      /\ \/ served' = Signalled /\ didWrite'.state = "IDLE"
         \/ served' = "write" /\ didWrite'.state = "PENDING"
  BY <1>1, <1>2 DEF StillServes, ProcessingDone, NoWrite
<1> QED BY <1>1, <1>3 DEF PendingInv, PendingIsServed, WorksFor, Repeats, Signalled

(* PendingIsServed: whatever the main functions answer is the request that *)
(* is being served, and once it is answered they answer nothing more: only *)
(* the write of memory that is done at once repeats its answer.  For any    *)
(* routines, identifiers, blocks and ranges.                               *)
THEOREM PendingAnswersItsOwn ==
  ASSUME EndsBeforeTakeover
  PROVE  PendingSpec => []PendingIsServed
<1>1. LevelsInit /\ PendingInit => PendingInv
  BY DEF PendingInit, PendingInv, PendingIsServed, NoRoutine, NoWrite, Signalled
<1>2. PendingInv /\ [PendingNext]_<<levels, pendingVars>> => PendingInv'
  <2> SUFFICES ASSUME PendingInv, [PendingNext]_<<levels, pendingVars>> PROVE PendingInv'
    OBVIOUS
  <2>1. CASE RoutineRequested
    BY <2>1, RoutineServed DEF RoutineRequested
  <2>2. CASE WriteRequested
    BY <2>2, WriteServed DEF WriteRequested
  <2>3. CASE MemoryRequested
    <3>1. /\ routine.state = "IDLE" /\ didWrite.state = "IDLE" /\ memoryState = "UNUSED"
          /\ astray \subseteq Repeats /\ ~misdirected
          /\ UNCHANGED <<routine, routineWork, didWrite, misdirected>>
      BY <2>3 DEF MemoryRequested, PendingInv, PendingIsServed, Repeats
    <3>2. \/ StillServes("memory")
          \/ ProcessingDone("memory", "memory") /\ UNCHANGED memoryState
          \/ RepeatedAnswers /\ UNCHANGED memoryState
      BY <2>3 DEF MemoryRequested, DspUdsReadMemoryByAddress, DspUdsWriteMemoryByAddress, MemoryPends
    <3>3. /\ astray' \subseteq Repeats
          /\ \/ served' = "memory"
             \/ served' = Signalled /\ memoryState' = "UNUSED"
      BY <3>1, <3>2 DEF StillServes, ProcessingDone, RepeatedAnswers, Repeats
    <3> QED BY <2>3, <3>1, <3>3 DEF MemoryRequested, PendingInv, PendingIsServed, Repeats, Signalled
  <2>4. CASE DspRoutineControlMainFunction
    BY <2>4, KeptByRoutine
  <2>5. CASE DspWriteDidMainFunction
    BY <2>5, WriteServed DEF DspWriteDidMainFunction, PendingInv
  <2>6. CASE DspMemoryMainFunction
    <3>1. /\ served = "memory" /\ routine.state = "IDLE" /\ didWrite.state = "IDLE"
          /\ memoryState' = "UNUSED" /\ served' = Signalled /\ astray' = astray
          /\ UNCHANGED <<routine, routineWork, didWrite, misdirected>>
      BY <2>6 DEF DspMemoryMainFunction, ProcessingDone, PendingInv
    <3> QED BY <3>1 DEF PendingInv, PendingIsServed, Signalled
  <2>7. CASE NvMJobEnds \/ PendingUnlock
    BY <2>7 DEF NvMJobEnds, PendingUnlock, pendingVars, PendingInv, PendingIsServed
  <2>8. CASE PendingCancelled
    BY <2>8 DEF PendingCancelled, CancelledRoutine, NoRoutine, NoWrite, PendingInv, PendingIsServed,
               Signalled
  <2>9. CASE PendingSessionChange
    BY <2>9 DEF PendingSessionChange, PendingInv, PendingIsServed
  <2>10. CASE PendingTakenOver
    BY <2>10 DEF PendingTakenOver, EndsBeforeTakeover, PendingInv, PendingIsServed, Signalled
  <2>11. CASE ResponseTaken
    BY <2>11 DEF ResponseTaken, PendingInv, PendingIsServed, Signalled
  <2>12. CASE UNCHANGED <<levels, pendingVars>>
    BY <2>12 DEF pendingVars, PendingInv, PendingIsServed
  <2> QED BY <2>1, <2>2, <2>3, <2>4, <2>5, <2>6, <2>7, <2>8, <2>9, <2>10, <2>11, <2>12 DEF PendingNext
<1>3. PendingInv => PendingIsServed
  BY DEF PendingInv
<1> QED BY <1>1, <1>2, <1>3, PTL DEF PendingSpec

-----------------------------------------------------------------------------
(* Transfers, for any sizes, blocks and counters.                           *)
Transfers ==
  [type : {"none", "download", "upload"}, counter : 0 .. CounterModulus - 1,
   first : BOOLEAN, next : Nat, left : Nat]
Testers ==
  [phase : {"none", "download", "upload"}, counter : 0 .. CounterModulus - 1,
   units : 0 .. MaxSize]

(* The first n units of a download are in memory, each at its address. *)
Written(m, n) == \A a \in 0 .. n - 1 : m[a] = a

(* A service is in step with the tester of a download, or one block ahead  *)
(* whose response was lost: the tester repeats it with the counter before. *)
InStep(t, k) == t.counter = k.counter /\ t.next = k.units
BlockOf(k) == Smaller(DownloadBlock, MaxSize - k.units)
OneAhead(t, k, m) ==
  /\ t.first /\ t.counter = Next1(k.counter) /\ t.next = k.units + BlockOf(k)
  /\ Written(m, t.next)
DownloadOK(t, k, m) ==
  k.phase = "download" =>
    /\ t.type # "upload" /\ Written(m, k.units)
    /\ t.type = "download" => InStep(t, k) \/ OneAhead(t, k, m)

(* A block that is pending is the one the tester would send. *)
BlockAsked(k) ==
  [sid |-> "data", counter |-> k.counter, first |-> k.units,
   len |-> IF k.phase = "upload" THEN 0 ELSE BlockOf(k)]
RequestOK(r, k) ==
  /\ r.sid = "upload" => r.size \in Nat
  /\ r.sid = "data" => r = BlockAsked(k) /\ k.phase # "none"

TransferInv ==
  /\ transfer \in Transfers /\ tester \in Testers
  /\ memory \in [0 .. MaxSize -> Nat]
  /\ RequestOK(ulRequest, tester)
  /\ DownloadOK(transfer, tester, memory)

(* A finite set of natural numbers has a largest element: the one that the *)
(* fewest are greater than.                                                *)
LEMMA LargestOf ==
  ASSUME NEW S \in SUBSET Nat, S # {}, IsFiniteSet(S)
  PROVE  \E n \in S : \A m \in S : m <= n
<1> DEFINE above(n) == {m \in S : m > n}
           sizes == {Cardinality(above(n)) : n \in S}
<1>1. \A n \in S : IsFiniteSet(above(n)) /\ Cardinality(above(n)) \in Nat
  BY FS_Subset, FS_CardinalityType
<1>2. sizes \in SUBSET Nat /\ sizes # {}
  BY <1>1
<1>3. PICK k \in sizes : \A j \in sizes : k <= j
  BY <1>2, LeastOf
<1>4. PICK n \in S : k = Cardinality(above(n))
  OBVIOUS
<1>5. ASSUME NEW m \in S, m > n PROVE FALSE
  <2>1. m \in Nat /\ n \in Nat
    OBVIOUS
  <2>2. above(m) \subseteq above(n)
    <3>1. ASSUME NEW i \in S, i > m PROVE i > n
      <4>1. i \in Nat
        OBVIOUS
      <4> QED BY <1>5, <2>1, <3>1, <4>1
    <3> QED BY <3>1
  <2>3. m \in above(n) /\ m \notin above(m)
    BY <1>5, <2>1
  <2>4. IsFiniteSet(above(n)) /\ Cardinality(above(m)) \in Nat /\ Cardinality(above(n)) \in Nat
    BY <1>1
  <2> HIDE DEF above
  <2>6. above(m) # above(n)
    BY <2>3
  <2>7. /\ Cardinality(above(m)) <= Cardinality(above(n))
        /\ Cardinality(above(m)) # Cardinality(above(n))
    BY <2>2, <2>4, <2>6, FS_Subset
  <2>5. Cardinality(above(n)) <= Cardinality(above(m))
    BY <1>3, <1>4
  <2> QED BY <2>4, <2>5, <2>7
<1>6. \A m \in S : m <= n
  <2> TAKE m \in S
  <2>1. m \in Nat /\ n \in Nat
    OBVIOUS
  <2> QED BY <1>5, <2>1
<1> QED BY <1>6

LEMMA TransferConstants ==
  /\ MaxSize \in Nat /\ CounterModulus \in Nat /\ CounterModulus > 1
  /\ DownloadBlock \in Nat /\ DownloadBlock > 0 /\ UploadBlock \in Nat
  /\ TransferSizes \subseteq Nat
<1>1. \E n \in TransferSizes : \A m \in TransferSizes : m <= n
  BY TransferAssumption, LargestOf
<1>2. MaxSize \in TransferSizes
  BY <1>1 DEF MaxSize
<1> QED BY <1>2, TransferAssumption

LEMMA NextCounter ==
  ASSUME NEW c \in 0 .. CounterModulus - 1
  PROVE  /\ Next1(c) \in 0 .. CounterModulus - 1 /\ Next1(c) # c
         /\ Previous(Next1(c)) = c
<1>1. CASE c = CounterModulus - 1
  <2>1. Next1(c) = 0
    BY <1>1, TransferConstants DEF Next1
  <2> QED BY <1>1, <2>1, TransferConstants DEF Previous
<1>2. CASE c # CounterModulus - 1
  <2>1. c + 1 \in 0 .. CounterModulus - 1
    BY <1>2, TransferConstants
  <2>2. Next1(c) = c + 1
    BY <2>1, TransferConstants DEF Next1
  <2> QED BY <2>1, <2>2, TransferConstants DEF Previous
<1> QED BY <1>1, <1>2

LEMMA BlockFits ==
  ASSUME NEW k \in Testers
  PROVE  BlockOf(k) \in Nat /\ k.units + BlockOf(k) <= MaxSize
BY TransferConstants DEF BlockOf, Smaller, Testers

LEMMA NewTransfer ==
  ASSUME NEW type \in {"none", "download", "upload"}, NEW left \in Nat,
         NEW phase \in {"none", "download", "upload"}
  PROVE  /\ Negotiated(type, left) \in Transfers /\ Negotiated(type, left).type = type
         /\ KnowsStart(phase) \in Testers /\ KnowsStart(phase).phase = phase
         /\ KnowsStart(phase).units = 0
         /\ InStep(Negotiated(type, left), KnowsStart(phase))
BY TransferConstants DEF Negotiated, KnowsStart, Transfers, Testers, InStep

(* A request that goes on waiting left the tester without an answer.       *)
LEMMA RequestKept ==
  ASSUME NEW r, NEW ret, RequestOK(r, tester), Concludes(r, ret),
         Waits(ret) => tester' = tester
  PROVE  RequestOK(ulRequest', tester')
BY DEF Concludes, RequestOK, NoRequest

(* The tester, once it missed the answer to a request of a transfer. *)
LEMMA Doubts ==
  ASSUME NEW k \in Testers
  PROVE  /\ [k EXCEPT !.phase = "none"] \in Testers
         /\ [k EXCEPT !.phase = "none"].phase = "none"
BY DEF Testers

(* A response that the tester hears may start or end a transfer for it;    *)
(* only the one to a download makes it count what is written.              *)
LEMMA NegotiationHeard ==
  ASSUME TransferInv, NEW after \in Testers, TesterHears("OK", after)
  PROVE  /\ tester' \in Testers
         /\ tester' = after \/ tester'.phase = "none"
BY Doubts DEF TesterHears, TransferInv

LEMMA DownloadServed ==
  ASSUME TransferInv, NEW r, RequestOK(r, tester), DspUdsRequestDownload(r)
  PROVE  TransferInv'
<1>1. PICK ret \in {"OK", "PENDING", "FORCE_RCRRP", "NOT_OK"} :
        /\ transfer' = IF ret = "OK" THEN Negotiated("download", transfer.left) ELSE transfer
        /\ memory' = IF ret = "OK" THEN Empty ELSE memory
        /\ TesterHears(ret, KnowsStart("download"))
        /\ Concludes(r, ret)
  BY DEF DspUdsRequestDownload
<1>2. CASE ret = "OK"
  <2>1. transfer.left \in Nat
    BY DEF TransferInv, Transfers
  <2>2. /\ transfer' \in Transfers /\ transfer'.type = "download"
        /\ KnowsStart("download") \in Testers /\ KnowsStart("download").units = 0
        /\ InStep(transfer', KnowsStart("download"))
    BY <1>1, <1>2, <2>1, NewTransfer
  <2>3. /\ tester' \in Testers
        /\ tester' = KnowsStart("download") \/ tester'.phase = "none"
    BY <1>1, <1>2, <2>2, NegotiationHeard
  <2>4. memory' \in [0 .. MaxSize -> Nat]
    BY <1>1, <1>2, TransferConstants DEF Empty, Unwritten
  <2>5. RequestOK(ulRequest', tester')
    BY <1>1, <1>2, RequestKept DEF Waits
  <2>6. Written(memory', 0)
    BY DEF Written
  <2>7. DownloadOK(transfer', tester', memory')
    BY <2>2, <2>3, <2>6 DEF DownloadOK
  <2> QED BY <2>2, <2>3, <2>4, <2>5, <2>7 DEF TransferInv
<1>3. CASE ret # "OK"
  <2>1. UNCHANGED <<transfer, memory, tester>>
    BY <1>1, <1>3 DEF TesterHears
  <2>2. RequestOK(ulRequest', tester')
    BY <1>1, <2>1, RequestKept
  <2> QED BY <2>1, <2>2 DEF TransferInv
<1> QED BY <1>2, <1>3

LEMMA UploadServed ==
  ASSUME TransferInv, NEW r, RequestOK(r, tester), r.sid = "upload", DspUdsRequestUpload(r)
  PROVE  TransferInv'
<1>1. PICK ret \in {"OK", "PENDING", "FORCE_RCRRP", "NOT_OK"} :
        /\ transfer' = IF ret = "OK" THEN Negotiated("upload", r.size)
                       ELSE [transfer EXCEPT !.left = r.size]
        /\ TesterHears(ret, KnowsStart("upload"))
        /\ Concludes(r, ret)
        /\ UNCHANGED memory
  BY DEF DspUdsRequestUpload
<1>2. r.size \in Nat
  BY DEF RequestOK
<1>3. CASE ret = "OK"
  <2>1. /\ transfer' \in Transfers
        /\ KnowsStart("upload") \in Testers /\ KnowsStart("upload").phase = "upload"
    BY <1>1, <1>2, <1>3, NewTransfer
  <2>2. tester' \in Testers /\ tester'.phase # "download"
    BY <1>1, <1>3, <2>1, NegotiationHeard
  <2>3. RequestOK(ulRequest', tester')
    BY <1>1, <1>3, RequestKept DEF Waits
  <2> QED BY <1>1, <2>1, <2>2, <2>3 DEF TransferInv, DownloadOK
<1>4. CASE ret # "OK"
  <2>1. UNCHANGED <<memory, tester>> /\ transfer' = [transfer EXCEPT !.left = r.size]
    BY <1>1, <1>4 DEF TesterHears
  <2>2. /\ transfer' \in Transfers /\ transfer'.type = transfer.type
        /\ transfer'.counter = transfer.counter /\ transfer'.first = transfer.first
        /\ transfer'.next = transfer.next
    BY <1>2, <2>1 DEF TransferInv, Transfers
  <2>3. RequestOK(ulRequest', tester')
    BY <1>1, <2>1, RequestKept
  <2>4. DownloadOK(transfer', tester', memory')
    BY <2>1, <2>2 DEF TransferInv, DownloadOK, InStep, OneAhead
  <2> QED BY <2>1, <2>2, <2>3, <2>4 DEF TransferInv
<1> QED BY <1>3, <1>4

(* The tester hears the answer to a block, or is where it was. *)
Counted(k, units) == [k EXCEPT !.counter = Next1(@), !.units = @ + units]
LEMMA BlockHeard ==
  ASSUME TransferInv, NEW ret, NEW units, HearsBlock(ret, units)
  PROVE  tester' = tester \/ (ret = "OK" /\ tester' = Counted(tester, units))
BY DEF HearsBlock, Counted

LEMMA Counts ==
  ASSUME NEW k \in Testers, NEW units \in {0, BlockOf(k)}
  PROVE  /\ Counted(k, units) \in Testers /\ Counted(k, units).phase = k.phase
         /\ Counted(k, units).counter = Next1(k.counter)
         /\ Counted(k, units).units = k.units + units
<1>1. /\ k.counter \in 0 .. CounterModulus - 1 /\ k.units \in 0 .. MaxSize
      /\ MaxSize \in Nat
  BY TransferConstants DEF Testers
<1>2. Next1(k.counter) \in 0 .. CounterModulus - 1
  BY <1>1, NextCounter
<1>3. k.units + units \in 0 .. MaxSize
  BY <1>1, BlockFits
<1> QED BY <1>2, <1>3 DEF Counted, Testers

LEMMA Advances ==
  ASSUME TransferInv, NEW units \in Nat
  PROVE  /\ Advanced(units) \in Transfers /\ Advanced(units).type = transfer.type
         /\ Advanced(units).first /\ Advanced(units).counter = Next1(transfer.counter)
         /\ Advanced(units).next = transfer.next + units
         /\ Advanced(units).left = transfer.left
<1>1. transfer.counter \in 0 .. CounterModulus - 1 /\ transfer.next \in Nat
  BY DEF TransferInv, Transfers
<1>2. Next1(transfer.counter) \in 0 .. CounterModulus - 1
  BY <1>1, NextCounter
<1>3. transfer.next + units \in Nat
  BY <1>1
<1> QED BY <1>2, <1>3 DEF TransferInv, Advanced, Transfers

(* The expected block is written right behind what is in memory, and the   *)
(* service is one block ahead of the tester until it hears the answer.     *)
LEMMA BlockReceived ==
  ASSUME TransferInv, NEW r, RequestOK(r, tester), r.sid = "data",
         transfer.type = "download", r.len > 0, Expected(r), ReceivesBlock(r)
  PROVE  TransferInv'
<1> DEFINE n == BlockOf(tester)
<1>1. /\ tester.phase = "download" /\ r.counter = tester.counter
      /\ r.first = tester.units /\ r.len = n
  BY DEF RequestOK, BlockAsked, TransferInv, Testers
<1>2. n \in Nat /\ n > 0 /\ tester.units \in Nat /\ tester.units + n <= MaxSize
  BY <1>1, BlockFits, TransferConstants DEF TransferInv, Testers
<1>3. tester.counter = transfer.counter /\ tester.counter \in 0 .. CounterModulus - 1
  BY <1>1 DEF Expected, TransferInv, Testers
<1>4. transfer.next = tester.units /\ Written(memory, tester.units)
  BY <1>1, <1>3, NextCounter DEF TransferInv, DownloadOK, InStep, OneAhead
<1>5. PICK ret \in {"OK", "PENDING", "FORCE_RCRRP", "FAILED"} :
        /\ transfer' = IF ret = "OK" THEN Advanced(r.len) ELSE transfer
        /\ memory' = IF ret # "OK" THEN memory
                     ELSE [a \in DOMAIN memory |->
                            IF a \in transfer.next .. transfer.next + r.len - 1
                            THEN r.first + (a - transfer.next) ELSE memory[a]]
        /\ HearsBlock(ret, r.len)
        /\ Concludes(r, ret)
  BY DEF ReceivesBlock
<1> HIDE DEF n
<1>6. CASE ret = "OK"
  <2>1. /\ transfer' \in Transfers /\ transfer'.type = "download" /\ transfer'.first
        /\ transfer'.counter = Next1(tester.counter) /\ transfer'.next = tester.units + n
    BY <1>1, <1>2, <1>3, <1>4, <1>5, <1>6, Advances
  <2>2. DOMAIN memory = 0 .. MaxSize /\ \A a \in 0 .. MaxSize : memory[a] \in Nat
    BY DEF TransferInv
  <2>3. memory' = [a \in 0 .. MaxSize |->
                    IF a \in tester.units .. tester.units + n - 1
                    THEN tester.units + (a - tester.units) ELSE memory[a]]
    BY <1>1, <1>4, <1>5, <1>6, <2>2
  <2>4. memory' \in [0 .. MaxSize -> Nat]
    <3>1. ASSUME NEW a \in 0 .. MaxSize PROVE memory'[a] \in Nat
      BY <1>2, <2>2, <2>3, <3>1, TransferConstants
    <3> QED BY <2>3, <3>1
  <2>5. Written(memory', tester.units + n)
    <3>1. ASSUME NEW a \in 0 .. (tester.units + n) - 1 PROVE memory'[a] = a
      <4>1. a \in 0 .. MaxSize
        BY <1>2, TransferConstants
      <4>2. CASE a \in tester.units .. tester.units + n - 1
        BY <1>2, <2>3, <4>1, <4>2
      <4>3. CASE a \notin tester.units .. tester.units + n - 1
        <5>1. a \in 0 .. tester.units - 1
          BY <1>2, <4>3
        <5> QED BY <1>4, <2>3, <4>1, <4>3, <5>1 DEF Written
      <4> QED BY <4>2, <4>3
    <3> QED BY <3>1 DEF Written
  <2>6. Written(memory', tester.units)
    BY <1>2, <2>5 DEF Written
  <2>7. RequestOK(ulRequest', tester')
    BY <1>5, <1>6, RequestKept DEF Waits
  <2>8. tester' = tester \/ tester' = Counted(tester, n)
    BY <1>1, <1>5, BlockHeard
  <2>9. CASE tester' = tester
    <3>1. OneAhead(transfer', tester', memory')
      BY <2>1, <2>5, <2>9 DEF OneAhead, n
    <3>2. DownloadOK(transfer', tester', memory')
      BY <2>1, <2>6, <2>9, <3>1 DEF DownloadOK
    <3> QED BY <2>1, <2>4, <2>7, <2>9, <3>2 DEF TransferInv
  <2>10. CASE tester' = Counted(tester, n)
    <3>1. /\ tester' \in Testers /\ tester'.counter = Next1(tester.counter)
          /\ tester'.units = tester.units + n
      BY <2>10, Counts DEF TransferInv, n
    <3>2. DownloadOK(transfer', tester', memory')
      BY <2>1, <2>5, <3>1 DEF DownloadOK, InStep
    <3> QED BY <2>1, <2>4, <2>7, <3>1, <3>2 DEF TransferInv
  <2> QED BY <2>8, <2>9, <2>10
<1>7. CASE ret # "OK"
  <2>1. UNCHANGED <<transfer, memory, tester>>
    BY <1>5, <1>7, BlockHeard
  <2>2. RequestOK(ulRequest', tester')
    BY <1>5, <2>1, RequestKept
  <2> QED BY <2>1, <2>2 DEF TransferInv
<1> QED BY <1>6, <1>7

(* The block before the expected one: the tester did not hear its answer,  *)
(* and is in step again once it hears this one.                            *)
LEMMA BlockRepeated ==
  ASSUME TransferInv, NEW r, RequestOK(r, tester), r.sid = "data",
         transfer.type = "download", r.len > 0, Repeated(r), RepeatsBlock(r)
  PROVE  TransferInv'
<1> DEFINE n == BlockOf(tester)
<1>1. /\ tester.phase = "download" /\ r.counter = tester.counter /\ r.len = n
  BY DEF RequestOK, BlockAsked, TransferInv, Testers
<1>2. OneAhead(transfer, tester, memory)
  BY <1>1 DEF Repeated, Expected, TransferInv, DownloadOK, InStep
<1>3. UNCHANGED <<transfer, memory>> /\ HearsBlock("OK", n) /\ Concludes(r, "OK")
  BY <1>1 DEF RepeatsBlock
<1> HIDE DEF n
<1>4. RequestOK(ulRequest', tester')
  BY <1>3, RequestKept DEF Waits
<1>5. tester' = tester \/ tester' = Counted(tester, n)
  BY <1>3, BlockHeard
<1>6. CASE tester' = Counted(tester, n)
  <2>1. /\ tester' \in Testers /\ tester'.counter = Next1(tester.counter)
        /\ tester'.units = tester.units + n
    BY <1>6, Counts DEF TransferInv, n
  <2>2. DownloadOK(transfer', tester', memory')
    BY <1>2, <1>3, <2>1 DEF DownloadOK, OneAhead, InStep, TransferInv, n
  <2> QED BY <1>3, <1>4, <2>1, <2>2 DEF TransferInv
<1>7. CASE tester' = tester
  BY <1>3, <1>4, <1>7 DEF TransferInv
<1> QED BY <1>5, <1>6, <1>7

(* During an upload the tester takes no download for running, so what it   *)
(* hears changes nothing the invariant says of the memory.                 *)
LEMMA UploadHeard ==
  ASSUME TransferInv, transfer.type = "upload", NEW r, NEW ret, RequestOK(r, tester),
         HearsBlock(ret, 0), Concludes(r, ret),
         transfer' \in Transfers, UNCHANGED memory
  PROVE  TransferInv'
<1>1. tester.phase # "download"
  BY DEF TransferInv, DownloadOK
<1>2. /\ tester' = tester \/ (ret = "OK" /\ tester' = Counted(tester, 0))
      /\ Counted(tester, 0) \in Testers /\ Counted(tester, 0).phase = tester.phase
  BY BlockHeard, Counts DEF TransferInv
<1>3. tester' \in Testers /\ tester'.phase # "download"
  BY <1>1, <1>2 DEF TransferInv
<1>4. RequestOK(ulRequest', tester')
  BY <1>2, RequestKept DEF Waits
<1> QED BY <1>3, <1>4 DEF TransferInv, DownloadOK

LEMMA BlockSent ==
  ASSUME TransferInv, transfer.type = "upload", NEW r, RequestOK(r, tester), SendsBlock(r)
  PROVE  TransferInv'
<1>1. PICK ret \in {"OK", "PENDING", "FAILED"} :
        /\ transfer' = IF ret # "OK" THEN transfer
                       ELSE [Advanced(UnitsRead) EXCEPT !.left = @ - UnitsRead]
        /\ HearsBlock(ret, 0)
        /\ Concludes(r, ret)
        /\ UNCHANGED memory
  BY DEF SendsBlock
<1>2. transfer.left \in Nat
  BY DEF TransferInv, Transfers
<1>3. UnitsRead \in Nat /\ UnitsRead <= transfer.left
  BY <1>2, TransferConstants DEF UnitsRead, Smaller
<1>4. Advanced(UnitsRead) \in Transfers /\ Advanced(UnitsRead).left = transfer.left
  BY <1>3, Advances
<1>5. [Advanced(UnitsRead) EXCEPT !.left = @ - UnitsRead] \in Transfers
  <2>1. Advanced(UnitsRead).left - UnitsRead \in Nat
    BY <1>2, <1>3, <1>4
  <2> QED BY <1>4, <2>1 DEF Transfers
<1>6. transfer' \in Transfers
  BY <1>1, <1>5 DEF TransferInv
<1> QED BY <1>1, <1>6, UploadHeard

LEMMA DataServed ==
  ASSUME TransferInv, NEW r, RequestOK(r, tester), r.sid = "data", DspUdsTransferData(r)
  PROVE  TransferInv'
<1>1. CASE transfer.type = "download" /\ r.len > 0 /\ Expected(r) /\ ReceivesBlock(r)
  BY <1>1, BlockReceived
<1>2. CASE transfer.type = "download" /\ r.len > 0 /\ Repeated(r) /\ RepeatsBlock(r)
  BY <1>2, BlockRepeated
<1>3. CASE transfer.type = "upload" /\ Expected(r) /\ SendsBlock(r)
  BY <1>3, BlockSent
<1>4. CASE transfer.type = "upload" /\ Repeated(r) /\ SendsAgain(r)
  <2>1. transfer' \in Transfers /\ UNCHANGED memory
    BY <1>4 DEF SendsAgain, TransferInv
  <2> QED BY <1>4, <2>1, UploadHeard DEF SendsAgain
<1>5. CASE Refuses(r)
  BY <1>5, RequestKept DEF Refuses, TransferInv
<1> QED BY <1>1, <1>2, <1>3, <1>4, <1>5 DEF DspUdsTransferData

(* Without a transfer the tester's download is not going on any more, and  *)
(* what it was told is written still is.                                   *)
LEMMA TransferEnds ==
  ASSUME TransferInv, NEW t \in Transfers, t.type = "none"
  PROVE  DownloadOK(t, tester, memory)
BY DEF TransferInv, DownloadOK

LEMMA ExitServed ==
  ASSUME TransferInv, NEW r, RequestOK(r, tester), DspUdsRequestTransferExit(r)
  PROVE  TransferInv'
<1>1. CASE Refuses(r)
  BY <1>1, RequestKept DEF Refuses, TransferInv
<1>2. ASSUME NEW ret \in {"OK", "PENDING", "FORCE_RCRRP", "NOT_OK"},
             transfer' = IF ret = "OK" THEN [transfer EXCEPT !.type = "none"] ELSE transfer,
             TesterHears(ret, [tester EXCEPT !.phase = "none"]),
             Concludes(r, ret), UNCHANGED memory
      PROVE  TransferInv'
  <2>1. CASE ret = "OK"
    <3>1. transfer' \in Transfers
      BY <1>2, <2>1 DEF TransferInv, Transfers
    <3>2. tester' \in Testers /\ tester'.phase = "none"
      BY <1>2, <2>1, Doubts, NegotiationHeard DEF TransferInv
    <3>3. RequestOK(ulRequest', tester')
      BY <1>2, <2>1, RequestKept DEF Waits
    <3> QED BY <1>2, <3>1, <3>2, <3>3 DEF TransferInv, DownloadOK
  <2>2. CASE ret # "OK"
    <3>1. UNCHANGED <<transfer, memory, tester>>
      BY <1>2, <2>2 DEF TesterHears
    <3>2. RequestOK(ulRequest', tester')
      BY <1>2, <3>1, RequestKept
    <3> QED BY <3>1, <3>2 DEF TransferInv
  <2> QED BY <2>1, <2>2
<1> QED BY <1>1, <1>2 DEF DspUdsRequestTransferExit

LEMMA ServiceKeepsTransfer ==
  ASSUME TransferInv, NEW r, RequestOK(r, tester), DspUploadDownload(r)
  PROVE  TransferInv'
BY DownloadServed, UploadServed, DataServed, ExitServed DEF DspUploadDownload

LEMMA TransferStarts == LevelsInit /\ TransferInit => TransferInv
<1> SUFFICES ASSUME TransferInit PROVE TransferInv
  OBVIOUS
<1>1. Empty \in [0 .. MaxSize -> Nat]
  BY TransferConstants DEF Empty, Unwritten
<1>2. transfer \in Transfers /\ tester \in Testers /\ tester.phase = "none"
  BY TransferConstants DEF TransferInit, NoTransfer, Transfers, Testers
<1>3. RequestOK(ulRequest, tester)
  BY DEF TransferInit, RequestOK, NoRequest
<1> QED BY <1>1, <1>2, <1>3 DEF TransferInit, TransferInv, DownloadOK

LEMMA Initialized ==
  ASSUME TransferInv
  PROVE  DspInitTransfer \in Transfers /\ DspInitTransfer.type = "none"
<1>1. transfer \in Transfers /\ 0 \in 0 .. CounterModulus - 1
  BY TransferConstants DEF TransferInv
<1> QED BY <1>1 DEF DspInitTransfer, Transfers

LEMMA TransferInvStep ==
  TransferInv /\ [TransferNext]_<<levels, transferVars>> => TransferInv'
<1> SUFFICES ASSUME TransferInv, [TransferNext]_<<levels, transferVars>> PROVE TransferInv'
  OBVIOUS
<1> USE DEF TransferInv
<1>1. ASSUME NEW initializes, ChangesTransfer(initializes),
             UNCHANGED <<ulRequest, memory, tester>>
      PROVE  TransferInv'
  <2>1. DspInitTransfer \in Transfers /\ DspInitTransfer.type = "none"
    BY Initialized
  <2> QED BY <1>1, <2>1, TransferEnds DEF ChangesTransfer
<1>2. CASE TransferRequest
  <2>1. PICK r \in TransferRequests : DspUploadDownload(r)
    BY <1>2 DEF TransferRequest
  <2>2. RequestOK(r, tester)
    <3>1. CASE r \in [sid : {"download", "upload"}, size : TransferSizes]
      BY <3>1, TransferConstants DEF RequestOK
    <3>2. CASE r = NextBlock /\ tester.phase # "none"
      BY <3>2 DEF RequestOK, NextBlock, BlockAsked, BlockOf
    <3>3. CASE r = [sid |-> "exit"]
      BY <3>3 DEF RequestOK
    <3> QED BY <2>1, <3>1, <3>2, <3>3 DEF TransferRequests
  <2> QED BY <2>1, <2>2, ServiceKeepsTransfer
<1>3. CASE ShortUploadRequest
  BY <1>3 DEF ShortUploadRequest, RequestOK
<1>4. CASE DspUploadDownloadMainFunction
  <2>1. CASE DspUploadDownload(ulRequest)
    BY <2>1, ServiceKeepsTransfer
  <2>2. CASE UNCHANGED <<transfer, ulRequest, memory, tester>>
    BY <2>2
  <2> QED BY <1>4, <2>1, <2>2 DEF DspUploadDownloadMainFunction
<1>5. CASE DspCancelPendingUploadDownload
  BY <1>5 DEF DspCancelPendingUploadDownload, RequestOK, NoRequest
<1>6. CASE TransferSessionChange
  BY <1>1, <1>6 DEF TransferSessionChange
<1>7. CASE TransferPreempted
  BY <1>1, <1>7 DEF TransferPreempted
<1>8. CASE UNCHANGED <<levels, transferVars>>
  BY <1>8 DEF transferVars
<1> QED BY <1>2, <1>3, <1>4, <1>5, <1>6, <1>7, <1>8 DEF TransferNext

(* DownloadComplete: what the tester was told is written is in memory, for *)
(* any counter that wraps around, any sizes and any blocks.                *)
THEOREM DownloadIsComplete == TransferSpec => []DownloadComplete
<1>1. TransferInv => DownloadComplete
  BY DEF TransferInv, DownloadOK, DownloadComplete, Written
<1> QED BY <1>1, TransferStarts, TransferInvStep, PTL DEF TransferSpec

-----------------------------------------------------------------------------
(* The order of reading: a finite set of signals is put in order by how    *)
(* many come before each.                                                  *)
LEMMA FiniteImage ==
  ASSUME NEW S, IsFiniteSet(S), NEW f, DOMAIN f = S
  PROVE  IsFiniteSet({f[x] : x \in S})
<1> DEFINE T == {f[x] : x \in S}
           g == [x \in S |-> f[x]]
<1>1. g \in Surjection(S, T)
  BY DEF Surjection
<1> QED BY <1>1, FS_Surjection

SignalPlaces == [did : Nat, node : Nat, signal : Nat]
LEMMA BeforeIsTotal ==
  ASSUME NEW u \in SignalPlaces, NEW v \in SignalPlaces
  PROVE  /\ ~Before(u, u) /\ (Before(u, v) => ~Before(v, u))
         /\ u = v \/ Before(u, v) \/ Before(v, u)
<1>1. u = v \/ u.did # v.did \/ u.node # v.node \/ u.signal # v.signal
  BY DEF SignalPlaces
<1>2. /\ u.did \in Nat /\ u.node \in Nat /\ u.signal \in Nat
      /\ v.did \in Nat /\ v.node \in Nat /\ v.signal \in Nat
  BY DEF SignalPlaces
<1> QED BY <1>1, <1>2 DEF Before, NodeBefore, SameNode

LEMMA BeforeIsTransitive ==
  ASSUME NEW u \in SignalPlaces, NEW v \in SignalPlaces, NEW w \in SignalPlaces,
         Before(u, v), Before(v, w)
  PROVE  Before(u, w)
<1>1. /\ u.did \in Nat /\ u.node \in Nat /\ u.signal \in Nat
      /\ v.did \in Nat /\ v.node \in Nat /\ v.signal \in Nat
      /\ w.did \in Nat /\ w.node \in Nat /\ w.signal \in Nat
  BY DEF SignalPlaces
<1> QED BY <1>1 DEF Before, NodeBefore, SameNode

LEMMA EarlierThan ==
  ASSUME NEW units \in SUBSET SignalPlaces, IsFiniteSet(units),
         NEW u \in units
  PROVE  /\ Earlier(units, u) \in 0 .. Cardinality(units) - 1
         /\ \A v \in units : Before(v, u) => Earlier(units, v) < Earlier(units, u)
<1> DEFINE below(w) == {v \in units : Before(v, w)}
<1>1. \A w \in units : /\ below(w) \in SUBSET units /\ IsFiniteSet(below(w))
                       /\ Cardinality(below(w)) \in Nat
                       /\ Earlier(units, w) = Cardinality(below(w))
  BY FS_Subset, FS_CardinalityType DEF Earlier
<1>2. Cardinality(units) \in Nat
  BY FS_CardinalityType
<1>3. Cardinality(below(u)) <= Cardinality(units) /\ Cardinality(below(u)) # Cardinality(units)
  <2>1. u \in SignalPlaces
    OBVIOUS
  <2>2. u \notin below(u)
    BY <2>1, BeforeIsTotal
  <2> HIDE DEF below
  <2>3. below(u) # units /\ below(u) \in SUBSET units
    BY <1>1, <2>2
  <2> QED BY <2>3, FS_Subset
<1>4. ASSUME NEW v \in units, Before(v, u) PROVE Cardinality(below(v)) < Cardinality(below(u))
  <2>1. u \in SignalPlaces /\ v \in SignalPlaces
    OBVIOUS
  <2>2. below(v) \subseteq below(u)
    <3>1. ASSUME NEW w \in units, Before(w, v) PROVE Before(w, u)
      <4>1. w \in SignalPlaces
        OBVIOUS
      <4> QED BY <1>4, <2>1, <3>1, <4>1, BeforeIsTransitive
    <3> QED BY <3>1
  <2>3. v \in below(u) /\ v \notin below(v)
    BY <1>4, <2>1, BeforeIsTotal
  <2>4. /\ IsFiniteSet(below(u))
        /\ Cardinality(below(u)) \in Nat /\ Cardinality(below(v)) \in Nat
    BY <1>1
  <2> HIDE DEF below
  <2>5. below(v) # below(u) /\ below(v) \in SUBSET below(u)
    BY <2>2, <2>3
  <2>6. /\ Cardinality(below(v)) <= Cardinality(below(u))
        /\ Cardinality(below(v)) # Cardinality(below(u))
    BY <2>4, <2>5, FS_Subset
  <2> QED BY <2>4, <2>6
<1> HIDE DEF below
<1>5. Earlier(units, u) \in 0 .. Cardinality(units) - 1
  BY <1>1, <1>2, <1>3
<1>6. \A v \in units : Before(v, u) => Earlier(units, v) < Earlier(units, u)
  BY <1>1, <1>4
<1> QED BY <1>5, <1>6

LEMMA InOrderIsASequence ==
  ASSUME NEW units \in SUBSET SignalPlaces, IsFiniteSet(units)
  PROVE  InOrder(units) \in Seq(units) /\ Len(InOrder(units)) = Cardinality(units)
<1> DEFINE c == Cardinality(units)
           T == 0 .. c - 1
           rank == [u \in units |-> Earlier(units, u)]
<1>1. c \in Nat
  BY FS_CardinalityType
<1>2. rank \in [units -> T]
  BY EarlierThan
<1>3. ASSUME NEW u \in units, NEW v \in units, Earlier(units, u) = Earlier(units, v)
      PROVE  u = v
  <2>1. u \in SignalPlaces /\ v \in SignalPlaces
    OBVIOUS
  <2>2. Earlier(units, u) \in Int /\ Earlier(units, v) \in Int
    BY <1>1, EarlierThan
  <2>3. ~Before(u, v) /\ ~Before(v, u)
    BY <1>3, <2>2, EarlierThan
  <2> QED BY <2>1, <2>3, BeforeIsTotal
<1>4. rank \in Injection(units, T)
  BY <1>2, <1>3 DEF Injection, IsInjective
<1>5. IsFiniteSet(T) /\ Cardinality(T) = c
  <2>1. c - 1 \in Int /\ 0 \in Int
    BY <1>1
  <2> HIDE DEF c
  <2> QED BY <1>1, <2>1, FS_Interval
<1>6. rank \in Surjection(units, T)
  <2> HIDE DEF rank, T
  <2> QED BY <1>4, <1>5, FS_Injection
<1>7. ASSUME NEW n \in 1 .. c PROVE InOrder(units)[n] \in units
  <2>1. n - 1 \in T
    BY <1>1
  <2>2. \E u \in units : Earlier(units, u) = n - 1
    BY <1>6, <2>1 DEF Surjection
  <2>3. InOrder(units)[n] = CHOOSE u \in units : Earlier(units, u) = n - 1
    BY <1>1 DEF InOrder
  <2> QED BY <2>2, <2>3
<1>8. InOrder(units) = [n \in 1 .. c |-> InOrder(units)[n]]
  BY DEF InOrder
<1> HIDE DEF c
<1>9. InOrder(units) \in [1 .. c -> units]
  BY <1>7, <1>8
<1>10. InOrder(units) \in Seq(units)
  BY <1>1, <1>9, SeqDef
<1>11. DOMAIN InOrder(units) = 1 .. c
  BY <1>9
<1>12. Len(InOrder(units)) = c
  BY <1>1, <1>10, <1>11, LenProperties
<1> QED BY <1>10, <1>12 DEF c

LEMMA NodesAreASequence ==
  ASSUME NEW d \in KnownDids
  PROVE  Nodes(d) \in Seq(KnownDids)
<1>1. DidRefs[d] \in Seq({e \in KnownDids : DidRefs[e] = <<>>})
  BY ReadAssumption
<1>2. DidRefs[d] \in Seq(KnownDids)
  BY <1>1, SeqMonotonic
<1> QED BY <1>2 DEF Nodes

LEMMA NodesOfRequest ==
  ASSUME NEW dids \in ReadRequests
  PROVE  /\ IsFiniteSet(NodesOf(dids))
         /\ \A n \in NodesOf(dids) :
              /\ n.did \in DOMAIN dids /\ n.did \in Nat
              /\ dids[n.did] \in KnownDids
              /\ n.node \in DOMAIN Nodes(dids[n.did]) /\ n.node \in Nat
              /\ DidOf(dids, n) \in KnownDids
<1> DEFINE asked == {n \in DOMAIN dids : dids[n] \in KnownDids}
           of(i) == {[did |-> i, node |-> j] : j \in DOMAIN Nodes(dids[i])}
<1>1. dids \in Seq(Range(dids))
  BY ReadAssumption
<1>2. Len(dids) \in Nat /\ DOMAIN dids = 1 .. Len(dids)
  BY <1>1, LenProperties
<1>3. IsFiniteSet(asked) /\ asked \subseteq Nat
  <2>1. IsFiniteSet(1 .. Len(dids))
    BY <1>2, FS_Interval
  <2>2. asked \in SUBSET (1 .. Len(dids))
    BY <1>2
  <2> HIDE DEF asked
  <2>3. asked \subseteq Nat
    BY <1>2, <2>2
  <2>4. IsFiniteSet(asked)
    BY <2>1, <2>2, FS_Subset
  <2> QED BY <2>3, <2>4
<1>4. ASSUME NEW i \in asked
      PROVE  /\ Nodes(dids[i]) \in Seq(KnownDids)
             /\ DOMAIN Nodes(dids[i]) = 1 .. Len(Nodes(dids[i]))
             /\ Len(Nodes(dids[i])) \in Nat
  <2>1. Nodes(dids[i]) \in Seq(KnownDids)
    BY NodesAreASequence
  <2> QED BY <2>1, LenProperties
<1>5. ASSUME NEW i \in asked PROVE IsFiniteSet(of(i))
  <2> DEFINE f == [j \in DOMAIN Nodes(dids[i]) |-> [did |-> i, node |-> j]]
  <2>1. IsFiniteSet(DOMAIN Nodes(dids[i]))
    BY <1>4, FS_Interval
  <2>2. IsFiniteSet({f[j] : j \in DOMAIN Nodes(dids[i])})
    BY <2>1, FiniteImage
  <2>3. {f[j] : j \in DOMAIN Nodes(dids[i])} = of(i)
    OBVIOUS
  <2> QED BY <2>2, <2>3
<1>6. NodesOf(dids) = UNION {of(i) : i \in asked}
  BY DEF NodesOf
<1>7. IsFiniteSet(NodesOf(dids))
  <2> DEFINE g == [i \in asked |-> of(i)]
  <2>1. IsFiniteSet({g[i] : i \in asked})
    <3> HIDE DEF asked, of
    <3> QED BY <1>3, FiniteImage
  <2>2. {g[i] : i \in asked} = {of(i) : i \in asked}
    OBVIOUS
  <2> HIDE DEF asked, of, g
  <2> QED BY <1>5, <1>6, <2>1, <2>2, FS_UNION
<1>8. ASSUME NEW n \in NodesOf(dids)
      PROVE  /\ n.did \in DOMAIN dids /\ n.did \in Nat
             /\ dids[n.did] \in KnownDids
             /\ n.node \in DOMAIN Nodes(dids[n.did]) /\ n.node \in Nat
             /\ DidOf(dids, n) \in KnownDids
  <2>1. PICK i \in asked : n \in of(i)
    BY <1>6
  <2>2. n.did = i /\ n.node \in DOMAIN Nodes(dids[i])
    BY <2>1
  <2>3. n.node \in 1 .. Len(Nodes(dids[i])) /\ Nodes(dids[i]) \in Seq(KnownDids)
    BY <1>4, <2>2
  <2>4. Nodes(dids[i])[n.node] \in KnownDids
    BY <2>3, <1>4
  <2>5. DidOf(dids, n) \in KnownDids
    BY <2>2, <2>4 DEF DidOf
  <2> QED BY <1>3, <1>4, <2>2, <2>3, <2>5
<1> QED BY <1>7, <1>8

LEMMA UnitsOfRequest ==
  ASSUME NEW dids \in ReadRequests
  PROVE  /\ IsFiniteSet(UnitsOf(dids)) /\ UnitsOf(dids) \in SUBSET SignalPlaces
         /\ \A u \in UnitsOf(dids) :
              /\ u.did \in DOMAIN dids /\ dids[u.did] \in KnownDids
              /\ u.node \in DOMAIN Nodes(dids[u.did])
<1> DEFINE of(n) == {[did |-> n.did, node |-> n.node, signal |-> k]
                       : k \in DOMAIN DidSignals[DidOf(dids, n)]}
<1>1. ASSUME NEW n \in NodesOf(dids)
      PROVE  /\ DOMAIN DidSignals[DidOf(dids, n)] = 1 .. Len(DidSignals[DidOf(dids, n)])
             /\ Len(DidSignals[DidOf(dids, n)]) \in Nat
  <2>1. DidSignals[DidOf(dids, n)] \in Seq(Ports)
    BY NodesOfRequest, ReadAssumption
  <2> QED BY <2>1, LenProperties
<1>2. ASSUME NEW n \in NodesOf(dids) PROVE IsFiniteSet(of(n))
  <2> DEFINE f == [k \in DOMAIN DidSignals[DidOf(dids, n)] |->
                     [did |-> n.did, node |-> n.node, signal |-> k]]
  <2>1. IsFiniteSet(DOMAIN DidSignals[DidOf(dids, n)])
    BY <1>1, FS_Interval
  <2>2. IsFiniteSet({f[k] : k \in DOMAIN DidSignals[DidOf(dids, n)]})
    BY <2>1, FiniteImage
  <2>3. {f[k] : k \in DOMAIN DidSignals[DidOf(dids, n)]} = of(n)
    OBVIOUS
  <2> QED BY <2>2, <2>3
<1>3. UnitsOf(dids) = UNION {of(n) : n \in NodesOf(dids)}
  BY DEF UnitsOf
<1>4. IsFiniteSet(UnitsOf(dids))
  <2> DEFINE g == [n \in NodesOf(dids) |-> of(n)]
  <2>1. IsFiniteSet({g[n] : n \in NodesOf(dids)})
    <3> HIDE DEF of
    <3> QED BY NodesOfRequest, FiniteImage
  <2>2. {g[n] : n \in NodesOf(dids)} = {of(n) : n \in NodesOf(dids)}
    OBVIOUS
  <2> HIDE DEF of, g
  <2> QED BY <1>2, <1>3, <2>1, <2>2, FS_UNION
<1>5. ASSUME NEW u \in UnitsOf(dids)
      PROVE  /\ u \in SignalPlaces
             /\ u.did \in DOMAIN dids /\ dids[u.did] \in KnownDids
             /\ u.node \in DOMAIN Nodes(dids[u.did])
  <2>1. PICK n \in NodesOf(dids) : u \in of(n)
    BY <1>3
  <2>2. PICK k \in DOMAIN DidSignals[DidOf(dids, n)] :
          u = [did |-> n.did, node |-> n.node, signal |-> k]
    BY <2>1
  <2>3. k \in Nat
    BY <1>1
  <2> HIDE DEF of
  <2> QED BY <2>2, <2>3, NodesOfRequest DEF SignalPlaces
<1> QED BY <1>4, <1>5

LEMMA OrderOfRequest ==
  ASSUME NEW dids \in ReadRequests
  PROVE  /\ Order[dids] \in Seq(UnitsOf(dids))
         /\ Len(Order[dids]) \in Nat
         /\ \A n \in 1 .. Len(Order[dids]) : Order[dids][n] \in UnitsOf(dids)
<1>1. Order[dids] = InOrder(UnitsOf(dids))
  BY DEF Order
<1>2. Order[dids] \in Seq(UnitsOf(dids))
  BY <1>1, UnitsOfRequest, InOrderIsASequence
<1> QED BY <1>2, LenProperties

(* What is read before a signal and from it on is what is read to the end. *)
LEMMA ReadInOrder ==
  ASSUME NEW dids \in ReadRequests, NEW at \in 1 .. Len(Order[dids]),
         NEW n \in at - 1 .. Len(Order[dids])
  PROVE  SubSeq(Order[dids], 1, at - 1) \o SubSeq(Order[dids], at, n) = SubSeq(Order[dids], 1, n)
<1>1. Order[dids] \in Seq(UnitsOf(dids)) /\ Len(Order[dids]) \in Nat
  BY OrderOfRequest
<1>2. /\ at \in Int /\ n \in Int /\ (at - 1) + 1 = at
      /\ 1 \in 1 .. Len(Order[dids]) + 1
      /\ at - 1 \in 1 - 1 .. Len(Order[dids])
      /\ n \in at - 1 .. Len(Order[dids])
  BY <1>1
<1>3. \A k \in 1 - 1 .. Len(Order[dids]) : \A m \in k .. Len(Order[dids]) :
        SubSeq(Order[dids], 1, k) \o SubSeq(Order[dids], k + 1, m) = SubSeq(Order[dids], 1, m)
  BY <1>1, <1>2, ConcatAdjacentSubSeq
<1> HIDE DEF Order
<1>4. SubSeq(Order[dids], 1, at - 1) \o SubSeq(Order[dids], (at - 1) + 1, n)
        = SubSeq(Order[dids], 1, n)
  BY <1>2, <1>3
<1> QED BY <1>2, <1>4

LEMMA WholeOrder ==
  ASSUME NEW dids \in ReadRequests
  PROVE  SubSeq(Order[dids], 1, Len(Order[dids])) = Order[dids]
<1>1. Order[dids] \in Seq(UnitsOf(dids))
  BY OrderOfRequest
<1> QED BY <1>1, SubSeqFull

(* A request that is read up to one of its signals, and why it is there.   *)
CallAt(dids, n, kind) ==
  [dids |-> dids, at |-> n, state |-> kind, data |-> SubSeq(Order[dids], 1, n - 1)]
Waited(w) == DidSignals[w.did][w.signal] = "asynch" /\ AlwaysReadable(w.did)

(* No callout that is waited for is left at work but the pending one. *)
OnlyWorks(work, r) ==
  \A w \in work : Waited(w) => r.state # "IDLE" /\ w = WorkOf(r, r.at, r.state)
ReadInv ==
  /\ readAnswer # NoAnswer => readAnswer.data = Order[readAnswer.dids]
  /\ "read" \notin readMisled
  /\ reading = NoReading => \A w \in readWork : ~Waited(w)
  /\ reading # NoReading =>
       \E dids \in ReadRequests : \E n \in 1 .. Len(Order[dids]), kind \in {"CHECK", "READ"} :
         reading = CallAt(dids, n, kind) /\ OnlyWorks(readWork, reading)

LEMMA NeverMisled ==
  ASSUME NEW r, NEW n, "read" \notin readMisled
  PROVE  "read" \notin readMisled \cup MisledBy(r, n)
BY DEF MisledBy, StatusOfRead

(* An identifier that may always be read is reached by every call that     *)
(* goes on with it: nothing visited on the way is refused.                 *)
LEMMA AlwaysReached ==
  ASSUME NEW dids \in ReadRequests, NEW n \in 1 .. Len(Order[dids]),
         NEW r, r.dids = dids, r.at = n, AlwaysReadable(DidOf(dids, Unit(r, n)))
  PROVE  Reachable(r, n) /\ n \in Ahead(r)
<1> DEFINE u == Unit(r, n)
<1>1. u = Order[dids][n] /\ u \in UnitsOf(dids)
  BY OrderOfRequest DEF Unit
<1>2. /\ u \in SignalPlaces /\ dids[u.did] \in KnownDids
      /\ u.node \in DOMAIN Nodes(dids[u.did])
  BY <1>1, UnitsOfRequest
<1>3. n \in Ahead(r)
  BY OrderOfRequest DEF Ahead
<1>4. ASSUME NEW v \in Visited(r), ~NodeBefore(u, v) PROVE Readable(r, v)
  <2>1. v \in NodesOf(dids) /\ v.did >= u.did
    BY <1>3, <1>4 DEF Visited, AllNodes
  <2>2. v.did \in Nat /\ v.node \in DOMAIN Nodes(dids[v.did])
    BY <2>1, NodesOfRequest
  <2>3. v.did = u.did
    BY <1>2, <1>4, <2>1, <2>2 DEF NodeBefore, SignalPlaces
  <2>4. /\ DidOf(dids, v) = Nodes(dids[u.did])[v.node]
        /\ DidOf(dids, u) = Nodes(dids[u.did])[u.node]
    BY <2>3 DEF DidOf
  <2>5. /\ DidOf(dids, v) \in Range(Nodes(dids[u.did]))
        /\ DidOf(dids, u) \in Range(Nodes(dids[u.did]))
    BY <1>2, <2>2, <2>3, <2>4 DEF Range
  <2>6. DidReadRow[DidOf(dids, v)] = Everywhere
    BY <1>2, <2>5 DEF AlwaysReadable
  <2> QED BY <2>6 DEF Readable, Allows, DspCheckSessionLevel, DspCheckSecurityLevel, Everywhere
<1> QED BY <1>3, <1>4 DEF Reachable

LEMMA ReadServed ==
  ASSUME ReadInv, NEW dids \in ReadRequests, NEW at \in Nat,
         NEW kind \in {"IDLE", "CHECK", "READ"}, NEW r, r = CallAt(dids, at, kind),
         at = 1 \/ at \in 1 .. Len(Order[dids]),
         kind # "IDLE" => at \in 1 .. Len(Order[dids]),
         OnlyWorks(readWork, r), DspUdsReadDataByIdentifier(r)
  PROVE  ReadInv'
<1>1. /\ r.dids = dids /\ r.at = at /\ r.state = kind
      /\ r.data = SubSeq(Order[dids], 1, at - 1)
      /\ Len(Order[dids]) \in Nat
  BY OrderOfRequest DEF CallAt
<1>2. EndedBy(r) = IF kind = "IDLE" THEN {} ELSE {WorkOf(r, at, kind)}
  BY <1>1 DEF EndedBy
<1>3. \A w \in readWork \ EndedBy(r) : ~Waited(w)
  BY <1>1, <1>2 DEF OnlyWorks
<1>4. ASSUME NEW n \in Ahead(r)
      PROVE  /\ n \in 1 .. Len(Order[dids]) /\ at \in 1 .. Len(Order[dids])
             /\ n \in at - 1 .. Len(Order[dids]) /\ n - 1 \in at - 1 .. Len(Order[dids])
  BY <1>1, <1>4 DEF Ahead
<1>5. CASE Answered(r)
  <2> DEFINE last == Len(Order[dids])
  <2>1. at \in 1 .. last /\ last \in at - 1 .. last
    BY <1>1, <1>4, <1>5 DEF Answered
  <2>2. ReadTo(r, last) = Order[dids]
    BY <1>1, <2>1, ReadInOrder, WholeOrder DEF ReadTo
  <2>3. readAnswer' = [dids |-> dids, data |-> Order[dids]] /\ reading' = NoReading
        /\ readWork' = readWork \ EndedBy(r)
        /\ readMisled' = readMisled \cup MisledBy(r, last)
    BY <1>1, <1>5, <2>2 DEF Answered
  <2>4. "read" \notin readMisled'
    BY <2>3, NeverMisled DEF ReadInv
  <2> QED BY <1>3, <2>3, <2>4 DEF ReadInv, Waited
<1>6. CASE ReadRefused(r)
  <2>1. reading' = NoReading /\ UNCHANGED <<readMisled, readAnswer>>
        /\ readWork' \in {readWork \ EndedBy(r), readWork}
    BY <1>6 DEF ReadRefused
  <2>2. ASSUME NEW w \in readWork', Waited(w) PROVE FALSE
    <3>1. w \in EndedBy(r)
      BY <1>3, <2>1, <2>2
    <3>2. kind # "IDLE" /\ w = WorkOf(r, at, kind)
      BY <1>2, <3>1
    <3>3. at \in 1 .. Len(Order[dids]) /\ w.did = DidOf(dids, Unit(r, at))
      BY <1>1, <3>2 DEF WorkOf
    <3>4. AlwaysReadable(DidOf(dids, Unit(r, at)))
      BY <2>2, <3>3 DEF Waited
    <3>5. Reachable(r, at) /\ at \in Ahead(r)
      BY <1>1, <3>3, <3>4, AlwaysReached
    <3>6. readWork' = readWork \ EndedBy(r)
      BY <1>1, <1>6, <3>5 DEF ReadRefused
    <3> QED BY <2>2, <3>1, <3>6
  <2> QED BY <2>1, <2>2 DEF ReadInv, Waited
<1>7. ASSUME NEW n \in Ahead(r), NEW end \in {"CHECK", "READ"}, StaysAt(r, n, end)
      PROVE  ReadInv'
  <2>1. ReadTo(r, n - 1) = SubSeq(Order[dids], 1, n - 1)
    BY <1>1, <1>4, ReadInOrder DEF ReadTo
  <2>2. reading' = CallAt(dids, n, end)
    BY <1>1, <1>7, <2>1 DEF StaysAt, PendingAt, CallAt
  <2>3. readWork' = (readWork \ EndedBy(r)) \cup {WorkOf(r, n, end)} /\ UNCHANGED readAnswer
    BY <1>7 DEF StaysAt
  <2>4. /\ reading'.at = n /\ reading'.state = end /\ reading'.dids = dids
    BY <2>2 DEF CallAt
  <2>5. WorkOf(reading', n, end) = WorkOf(r, n, end)
    BY <1>1, <2>4 DEF WorkOf, Unit
  <2>6. OnlyWorks(readWork', reading')
    BY <1>3, <2>3, <2>4, <2>5 DEF OnlyWorks
  <2>7. "read" \notin readMisled'
    BY <1>7, NeverMisled DEF StaysAt, ReadInv
  <2>8. reading' # NoReading
    BY <2>4 DEF NoReading
  <2>9. n \in 1 .. Len(Order[dids])
    BY <1>4
  <2> QED BY <2>2, <2>3, <2>6, <2>7, <2>8, <2>9 DEF ReadInv
<1> QED BY <1>5, <1>6, <1>7 DEF DspUdsReadDataByIdentifier

LEMMA ReadInvStep ==
  ReadInv /\ [ReadNext]_<<levels, readVars>> => ReadInv'
<1> SUFFICES ASSUME ReadInv, [ReadNext]_<<levels, readVars>> PROVE ReadInv'
  OBVIOUS
<1>1. CASE ReadRequested
  <2>1. PICK dids \in ReadRequests :
          DspUdsReadDataByIdentifier([dids |-> dids, at |-> 1, state |-> "IDLE", data |-> <<>>])
    BY <1>1 DEF ReadRequested
  <2> DEFINE r == CallAt(dids, 1, "IDLE")
  <2>2. SubSeq(Order[dids], 1, 1 - 1) = <<>>
    BY SubSeqEmpty
  <2>3. r = [dids |-> dids, at |-> 1, state |-> "IDLE", data |-> <<>>]
    BY <2>2 DEF CallAt
  <2>4. OnlyWorks(readWork, r)
    BY <1>1 DEF ReadRequested, ReadInv, OnlyWorks
  <2> HIDE DEF r
  <2> QED BY <2>1, <2>3, <2>4, ReadServed DEF r
<1>2. ASSUME reading # NoReading
      PROVE  \E dids \in ReadRequests : \E n \in 1 .. Len(Order[dids]), kind \in {"CHECK", "READ"} :
               /\ reading = CallAt(dids, n, kind) /\ OnlyWorks(readWork, reading)
               /\ n \in Nat
  BY <1>2, OrderOfRequest DEF ReadInv
<1>3. CASE DspReadDidMainFunction
  <2>1. reading # NoReading /\ DspUdsReadDataByIdentifier(reading)
    BY <1>3 DEF DspReadDidMainFunction
  <2>2. PICK dids \in ReadRequests : \E n \in 1 .. Len(Order[dids]), kind \in {"CHECK", "READ"} :
          /\ reading = CallAt(dids, n, kind) /\ OnlyWorks(readWork, reading)
          /\ n \in Nat
    BY <1>2, <2>1
  <2>3. PICK n \in 1 .. Len(Order[dids]), kind \in {"CHECK", "READ"} :
          /\ reading = CallAt(dids, n, kind) /\ OnlyWorks(readWork, reading)
          /\ n \in Nat
    BY <2>2
  <2> QED BY <2>1, <2>3, ReadServed
<1>4. CASE DspCancelPendingDid
  <2>1. reading # NoReading /\ reading' = NoReading
        /\ readWork' = readWork \ Cancelled(reading)
        /\ UNCHANGED <<readMisled, readAnswer>>
    BY <1>4 DEF DspCancelPendingDid
  <2>2. reading.state # "IDLE" /\ OnlyWorks(readWork, reading)
    BY <1>2, <2>1 DEF CallAt
  <2>3. ASSUME NEW w \in readWork', Waited(w) PROVE FALSE
    <3>1. w \in readWork /\ w = WorkOf(reading, reading.at, reading.state)
      BY <2>1, <2>2, <2>3 DEF OnlyWorks
    <3>2. w.did = DidOf(reading.dids, Unit(reading, reading.at))
          /\ w.signal = Unit(reading, reading.at).signal
      BY <3>1 DEF WorkOf
    <3>3. Asynch(reading, reading.at)
      BY <2>3, <3>2 DEF Waited, Asynch, Port
    <3>4. w \in Cancelled(reading)
      BY <2>2, <3>1, <3>3 DEF Cancelled, EndedBy
    <3> QED BY <2>1, <2>3, <3>4
  <2> QED BY <2>1, <2>3 DEF ReadInv
<1>5. CASE NvMReadEnds
  BY <1>5 DEF NvMReadEnds, ReadInv
<1>6. CASE ReadLevelsChange
  BY <1>6 DEF ReadLevelsChange, readVars, ReadInv
<1>7. CASE UNCHANGED <<levels, readVars>>
  BY <1>7 DEF readVars, ReadInv
<1> QED BY <1>1, <1>3, <1>4, <1>5, <1>6, <1>7 DEF ReadNext

(* ReadGoesOn: a request that had to wait goes on where it was, for any    *)
(* identifiers, references, signals, rows and requests.                    *)
THEOREM RequestGoesOn == ReadSpec => []ReadGoesOn
<1>1. LevelsInit /\ ReadInit => ReadInv
  BY DEF ReadInit, ReadInv, NoAnswer
<1>2. ReadInv => ReadGoesOn
  <2> SUFFICES ASSUME ReadInv, NEW w \in readWork, Waited(w)
               PROVE  reading # NoReading /\ w = WorkOf(reading, reading.at, reading.state)
    BY DEF ReadInv, ReadGoesOn, WorkIsPending, Waited
  <2> QED BY DEF ReadInv, OnlyWorks
<1> QED BY <1>1, <1>2, ReadInvStep, PTL DEF ReadSpec
=============================================================================
