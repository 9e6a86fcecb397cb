------------------------------ MODULE DcmReadDtc ------------------------------
(***************************************************************************)
(* Reading DTCs: ReadDTCInformation (0x19: 01, 02, 0A, 12, 13) and the OBD *)
(* services 03 and 07 of Dcm_Dsp.c, on the one DTC filter of the DEM       *)
(* (Dem_Filter_impl.c), for the DTCs of the primary memory.                *)
(* The DEM's exclusive area is left between two calls of a service:        *)
(* reports, suppression and availability may change what matches.          *)
(***************************************************************************)
EXTENDS Naturals, Sequences, FiniteSets

CONSTANTS
  DtcOrder,        \* the DTCs in the order of their configuration
  EventsOf,        \* the events of each DTC: a combined one has several
  EmissionDtcs,    \* those with an OBD number
  EventStatuses,   \* the status bits an available event may have
  FilterMasks,     \* the status masks testers ask for; none of the bits: every status
  ListRooms        \* how many DTCs fit into a response

StatusBits == {"failedCycle", "incompleteCycle", "confirmed", "pending"}
Dtcs == {DtcOrder[i] : i \in DOMAIN DtcOrder}
DtcEvents == UNION {EventsOf[d] : d \in Dtcs}

ASSUME ReadDtcAssumption ==
  /\ DtcOrder \in Seq(Dtcs)
  /\ \A i, j \in DOMAIN DtcOrder : DtcOrder[i] = DtcOrder[j] => i = j
  /\ EmissionDtcs \subseteq Dtcs /\ ListRooms \subseteq Nat
  /\ FilterMasks \subseteq SUBSET StatusBits
  /\ \A s \in EventStatuses :
       s \subseteq StatusBits /\ ~({"failedCycle", "incompleteCycle"} \subseteq s)

VARIABLES
  eventBits,     \* eventStatusExtended of each event
  unavailable,   \* the events that are not isAvailable
  suppressed,    \* DemDTCSuppressed[].SuppressedByDTC
  dtcFilter,     \* dtcFilter: status mask, kind, DTCIndex
  dtcReading,    \* the service that reads, and what it has got so far
  stays          \* the DTCs that have matched ever since the filter was set

readDtcVars == <<eventBits, unavailable, suppressed, dtcFilter, dtcReading, stays>>

NotReading == [service |-> "none", phase |-> "done", room |-> 0, counted |-> 0, listed |-> <<>>,
         positive |-> FALSE]

ReadDtcInit ==
  /\ eventBits \in [DtcEvents -> {{"incompleteCycle"}}]
  /\ unavailable = {} /\ suppressed = {}
  /\ dtcFilter = [mask |-> {}, emission |-> FALSE, index |-> 0]
  /\ dtcReading = NotReading /\ stays = {}

-----------------------------------------------------------------------------
(* GetDTCUDSStatus: the bits of all events, but of the tests that are not  *)
(* completed only those that none of the events has failed.                *)
AvailableEvents(d) == EventsOf[d] \ unavailable
AllBits(d) == UNION {eventBits[e] : e \in AvailableEvents(d)}
UdsStatus(d) ==
  IF Cardinality(EventsOf[d]) > 1 /\ "failedCycle" \in AllBits(d)
  THEN AllBits(d) \ {"incompleteCycle"} ELSE AllBits(d)

(* DTCIsAvailable: SuppressedByEvent is kept up by Dem_SetEventAvailable.  *)
DtcIsAvailable(d) == d \notin suppressed /\ AvailableEvents(d) # {}
StatusMatches(mask, d) == mask = {} \/ mask \cap UdsStatus(d) # {}
MatchesFilter(d) ==
  /\ StatusMatches(dtcFilter.mask, d)
  /\ dtcFilter.emission => d \in EmissionDtcs
  /\ DtcIsAvailable(d)
MatchingFrom(i) == {j \in DOMAIN DtcOrder : j > i /\ MatchesFilter(DtcOrder[j])}
Foremost(positions) == CHOOSE i \in positions : \A j \in positions : i <= j

(* Dem_SetDTCFilter *)
KeepsIndex(mask, emission) ==                \* variation: the walk is not started again
  dtcFilter' = [dtcFilter EXCEPT !.mask = mask, !.emission = emission]
SetDtcFilter(mask, emission) ==
  dtcFilter' = [mask |-> mask, emission |-> emission, index |-> 0]

-----------------------------------------------------------------------------
(* udsReadDtcInfoSub_0x01.., _0x02.., OBD_Sevice_03_07_0A: a request sets  *)
(* the filter, and the first two count what matches.                       *)
ReadingEnds(positive) == dtcReading' = [dtcReading EXCEPT !.phase = "done", !.positive = positive]

ReadDtcRequest ==
  /\ dtcReading.phase = "done"
  /\ \E service \in {"number", "list", "obd"}, mask \in FilterMasks, emission \in BOOLEAN,
        room \in ListRooms :
       /\ service = "obd" => emission
       /\ mask = {} => service = "list" /\ ~emission     \* 0x0A; else answered with none
       /\ SetDtcFilter(mask, emission)
       /\ dtcReading' = [NotReading EXCEPT !.service = service, !.room = room,
                                  !.phase = IF service = "obd" THEN "walk" ELSE "count"]
  /\ UNCHANGED <<eventBits, unavailable, suppressed>>
  /\ stays' = {d \in Dtcs : MatchesFilter(d)}'

(* Dem_GetNumberOfFilteredDtc, and whether the list will fit.              *)
GetNumberOfFilteredDtc ==
  /\ dtcReading.phase = "count"
  /\ LET number == Cardinality(MatchingFrom(0))
         fits == number <= dtcReading.room
     IN dtcReading' = [dtcReading EXCEPT
                     !.counted = number,
                     !.phase = IF dtcReading.service = "list" /\ fits THEN "walk" ELSE "done",
                     !.positive = dtcReading.service = "number"]
  /\ UNCHANGED <<eventBits, unavailable, suppressed, dtcFilter, stays>>

(* Dem_GetNextFilteredDTC until there is none; the OBD services look at    *)
(* the room for each DTC, and give up in the middle.                       *)
NoRoom == dtcReading.service = "obd" /\ Len(dtcReading.listed) >= dtcReading.room
GetNextFilteredDtc ==
  /\ dtcReading.phase = "walk"
  /\ LET next == MatchingFrom(dtcFilter.index)
     IN \/ /\ next = {}
           /\ dtcFilter' = [dtcFilter EXCEPT !.index = 0]
           /\ ReadingEnds(TRUE)
        \/ /\ next # {}
           /\ dtcFilter' = [dtcFilter EXCEPT !.index = Foremost(next)]
           /\ IF NoRoom THEN ReadingEnds(FALSE)
              ELSE dtcReading' = [dtcReading EXCEPT !.listed = Append(@, DtcOrder[Foremost(next)])]
  /\ UNCHANGED <<eventBits, unavailable, suppressed, stays>>

-----------------------------------------------------------------------------
(* What other tasks do meanwhile.  handleEvent and the operation cycles    *)
(* pass over events that are not available.                                *)
StillMatching == stays' = stays \cap {d \in Dtcs : MatchesFilter(d)}'

EventStatusChanges ==
  /\ \E e \in DtcEvents \ unavailable, bits \in EventStatuses :
       eventBits' = [eventBits EXCEPT ![e] = bits]
  /\ UNCHANGED <<unavailable, suppressed, dtcFilter, dtcReading>> /\ StillMatching
SetDtcSuppression ==
  /\ \E d \in Dtcs : suppressed' \in {suppressed \cup {d}, suppressed \ {d}}
  /\ UNCHANGED <<eventBits, unavailable, dtcFilter, dtcReading>> /\ StillMatching

(* Dem_SetEventAvailable, of an event that is neither failed nor stored.   *)
SetEventAvailable ==
  /\ \E e \in DtcEvents :
       \/ /\ e \in unavailable /\ unavailable' = unavailable \ {e}
          /\ eventBits' = [eventBits EXCEPT ![e] = {"incompleteCycle"}]
       \/ /\ e \notin unavailable /\ eventBits[e] \cap {"confirmed", "pending"} = {}
          /\ unavailable' = unavailable \cup {e}
          /\ eventBits' = [eventBits EXCEPT ![e] = {}]
  /\ UNCHANGED <<suppressed, dtcFilter, dtcReading>> /\ StillMatching

ReadDtcNext ==
  \/ ReadDtcRequest \/ GetNumberOfFilteredDtc \/ GetNextFilteredDtc
  \/ EventStatusChanges \/ SetDtcSuppression \/ SetEventAvailable

ReadDtcSpec == ReadDtcInit /\ [][ReadDtcNext]_readDtcVars

-----------------------------------------------------------------------------
ReadDtcTypeOK ==
  /\ \A e \in DtcEvents : eventBits[e] \in EventStatuses \cup {{}, {"incompleteCycle"}}
  /\ \A e \in unavailable : eventBits[e] = {}
  /\ dtcFilter.index \in 0 .. Len(DtcOrder)
  /\ dtcReading.phase \in {"count", "walk", "done"} /\ stays \subseteq Dtcs

(* A list a tester is given names every DTC that has matched all the       *)
(* while, once, in the order of the configuration, whatever reports,       *)
(* suppressions and an earlier service that gave up have done.             *)
IsListed(d) == \E i \in DOMAIN dtcReading.listed : dtcReading.listed[i] = d
WhatStaysIsListed ==
  /\ dtcReading.service \in {"list", "obd"} /\ dtcReading.phase = "done" /\ dtcReading.positive
       => \A d \in stays : IsListed(d)
  /\ \A i, j \in DOMAIN dtcReading.listed :
       i < j => \E m, n \in DOMAIN DtcOrder :
                  m < n /\ DtcOrder[m] = dtcReading.listed[i] /\ DtcOrder[n] = dtcReading.listed[j]
=============================================================================
