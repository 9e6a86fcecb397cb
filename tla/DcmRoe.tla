------------------------------- MODULE DcmRoe -------------------------------
(***************************************************************************)
(* Response on event (Dcm_ROE.c, service 0x86): the list of data           *)
(* identifiers a tester wants to hear of, the polling of those whose data  *)
(* changed, the events the application triggers, and what NvM keeps of it  *)
(* over a power cycle.                                                     *)
(*                                                                         *)
(* An event is its identifier; the service to respond to goes with it.     *)
(***************************************************************************)
EXTENDS Naturals, Sequences, FiniteSets, Functions

CONSTANTS
  RoeDids,          \* the identifiers
  ExternalDids,     \* those with a DspDidRoeActivateFnc: triggered by the application
  RoePreconfig,     \* Dcm_Arc_GetROEPreConfig: identifiers, in their order
  RoeTesters,       \* rxPduIds
  MaxRoeEvents,     \* DCM_MAX_NUMBER_OF_ROE_EVENTS
  DidLength,        \* length of each identifier with what it refers to
  MaxAllocated,     \* bound on Dcm_ROE_FirstFreeBufferIndex
  ReadsFail         \* reading an identifier may fail

PreconfiguredDids == Range(RoePreconfig)

ASSUME RoeAssumption ==
  /\ ExternalDids \subseteq RoeDids /\ RoePreconfig \in Seq(RoeDids)
  /\ IsInjective(RoePreconfig) /\ Len(RoePreconfig) <= MaxRoeEvents
  /\ MaxRoeEvents \in Nat \ {0} /\ DidLength \in [RoeDids -> Nat \ {0}]
  /\ IsFiniteSet(RoeDids)
  /\ MaxAllocated \in Nat /\ ReadsFail \in BOOLEAN

VARIABLES
  roeState,     \* Dcm_ROE_InternalState
  roePdu,       \* DCM_ROE_RxPduId
  roeEvents,    \* Dcm_ROE_Events
  roeFree,      \* Dcm_ROE_FirstFreeBufferIndex
  roePolled,    \* indx of DCM_ROE_PollDataIdentifiers
  changed,      \* the identifiers whose data differ from their reference
  roeSent,      \* what the last poll or trigger asked the DSL to send
  roeStore,     \* Dcm_ROE_StorageBuffer
  roeNvM        \* NvM: the stored copy, whether it is to be written, is at work

roeVars == <<roeState, roePdu, roeEvents, roeFree, roePolled, changed, roeSent, roeStore, roeNvM>>

NoTester == "no pdu"
NothingSent == "nothing"
NewStore == [active |-> FALSE, pdu |-> NoTester, dids |-> {}, pendingMark |-> FALSE]

-----------------------------------------------------------------------------
Listed(list) == {list[i].did : i \in 1 .. Len(list)}
RoeAppended(list, free, did) == Append(list, [did |-> did, start |-> free])
InternalEvents(list) == {i \in 1 .. Len(list) : list[i].did \notin ExternalDids}

(* setNvMBlockChanged: refused while NvM works on the block; Dcm_ROE_Main- *)
(* Function tries again.                                                   *)
MarkIsLost(store) == roeStore' = store        \* variation: refused and forgotten
RefusedMark(store) == roeStore' = [store EXCEPT !.pendingMark = TRUE]
SetNvMBlockChanged(store) ==
  IF roeNvM.busy THEN RefusedMark(store) /\ UNCHANGED roeNvM
  ELSE roeStore' = store /\ roeNvM' = [roeNvM EXCEPT !.marked = TRUE]

(* storeROEActive: the tester is noted only if the flag changes. *)
storeROEActive(active, pdu) ==
  IF roeStore.active = active THEN UNCHANGED <<roeStore, roeNvM>>
  ELSE SetNvMBlockChanged([roeStore EXCEPT !.active = active, !.pdu = pdu])

-----------------------------------------------------------------------------
(* DCM_ROE_AddDataIdentifierEvent: the reference data are taken at the     *)
(* next start only.                                                        *)
AddRefused(list, did) == did \in Listed(list) \/ Len(list) >= MaxRoeEvents
AddDataIdentifierEvent ==
  \E did \in RoeDids, store \in BOOLEAN :
    /\ ~AddRefused(roeEvents, did) /\ roeFree + DidLength[did] <= MaxAllocated
    /\ roeEvents' = RoeAppended(roeEvents, roeFree, did)
    /\ roeFree' = roeFree + DidLength[did]
    /\ changed' \in {changed, changed \cup {did}}
    /\ IF store /\ Cardinality(roeStore.dids \cup {did}) <= MaxRoeEvents
       THEN SetNvMBlockChanged([roeStore EXCEPT !.dids = @ \cup {did}])
       ELSE UNCHANGED <<roeStore, roeNvM>>
    /\ UNCHANGED <<roeState, roePdu, roePolled, roeSent>>

(* Dcm_RestartROE: the external events are activated one by one until one  *)
(* refuses; the data of the others become the reference.                   *)
References(list) ==
  {c \in SUBSET changed : \A d \in changed \ c : d \in Listed(list) \ ExternalDids
                          /\ (~ReadsFail => c \cap (Listed(list) \ ExternalDids) = {})}
Dcm_RestartROE ==
  /\ roeState # "INIT" /\ roeState' = "ACTIVE" /\ changed' \in References(roeEvents)
  /\ UNCHANGED <<roePdu, roeEvents, roeFree, roePolled, roeSent, roeStore, roeNvM>>

(* DCM_ROE_Start.  A start that an external event refuses stops what was   *)
(* running.                                                                *)
ROE_Start(pdu, store) ==
  /\ roePdu' = pdu
  /\ \/ /\ roeState' = "ACTIVE" /\ changed' \in References(roeEvents)
        /\ IF store THEN storeROEActive(TRUE, pdu) ELSE UNCHANGED <<roeStore, roeNvM>>
     \/ /\ Listed(roeEvents) \cap ExternalDids # {} /\ roeState' = "INACTIVE"
        /\ UNCHANGED <<changed, roeStore, roeNvM>>
DCM_ROE_Start ==
  /\ \E pdu \in RoeTesters, store \in BOOLEAN : ROE_Start(pdu, store)
  /\ UNCHANGED <<roeEvents, roeFree, roePolled, roeSent>>

(* Dcm_StopROE and DCM_ROE_Stop; an external event that refuses keeps it   *)
(* running.                                                                *)
StoppedState == IF roeState = "INIT" THEN "INIT" ELSE "INACTIVE"
DCM_ROE_Stop ==
  /\ roeState' = StoppedState
  /\ \E store \in BOOLEAN :
       IF store THEN storeROEActive(FALSE, NoTester) ELSE UNCHANGED <<roeStore, roeNvM>>
  /\ UNCHANGED <<roePdu, roeEvents, roeFree, roePolled, changed, roeSent>>

(* A session change or a preemption stops it, if no external event refuses. *)
RoeSessionChange ==
  /\ roeState = "ACTIVE" /\ roeState' = StoppedState
  /\ UNCHANGED <<roePdu, roeEvents, roeFree, roePolled, changed, roeSent, roeStore, roeNvM>>

(* DCM_ROE_ClearEventList: the areas of the reference buffer stay taken.   *)
RemoveStored(store) ==
  IF roeStore.dids = {} THEN UNCHANGED <<roeStore, roeNvM>> ELSE SetNvMBlockChanged(store)
DCM_ROE_ClearEventList ==
  /\ roeState' = IF roeState = "ACTIVE" THEN StoppedState ELSE roeState
  /\ roeEvents' = <<>> /\ roeFree' = roeFree
  /\ RemoveStored([roeStore EXCEPT !.dids = {}])
  /\ UNCHANGED <<roePdu, roePolled, changed, roeSent>>

-----------------------------------------------------------------------------
(* DCM_ROE_PollDataIdentifiers goes on where it stopped; an event found    *)
(* changed ends the poll where it is.                                      *)
PollFrom == IF roePolled > Len(roeEvents) THEN 1 ELSE roePolled
Found(readable) ==
  {i \in InternalEvents(roeEvents) : i >= PollFrom /\ roeEvents[i].did \in readable \cap changed}
FirstFound(found) == CHOOSE i \in found : \A j \in found : i <= j
PollDataIdentifiers ==
  /\ roeState = "ACTIVE"
  /\ \E readable \in (IF ReadsFail THEN SUBSET RoeDids ELSE {RoeDids}) :
       LET found == Found(readable)
       IN /\ roePolled' = IF found = {} THEN Len(roeEvents) + 1 ELSE FirstFound(found)
          /\ roeSent' = IF found = {} THEN NothingSent ELSE roeEvents[FirstFound(found)].did
  /\ UNCHANGED <<roeState, roePdu, roeEvents, roeFree, changed, roeStore, roeNvM>>

Dcm_TriggerOnEvent ==
  /\ roeState = "ACTIVE"
  /\ \E d \in Listed(roeEvents) \cap ExternalDids : roeSent' = d
  /\ UNCHANGED <<roeState, roePdu, roeEvents, roeFree, roePolled, changed, roeStore, roeNvM>>

DidChanges ==
  /\ \E d \in RoeDids \ ExternalDids : changed' = changed \cup {d} \/ changed' = changed \ {d}
  /\ UNCHANGED <<roeState, roePdu, roeEvents, roeFree, roePolled, roeSent, roeStore, roeNvM>>

(* Dcm_ROE_MainFunction *)
Dcm_ROE_MainFunction ==
  /\ roeStore.pendingMark /\ ~roeNvM.busy
  /\ roeStore' = [roeStore EXCEPT !.pendingMark = FALSE]
  /\ roeNvM' = [roeNvM EXCEPT !.marked = TRUE]
  /\ UNCHANGED <<roeState, roePdu, roeEvents, roeFree, roePolled, changed, roeSent>>

-----------------------------------------------------------------------------
(* NvM: a job on the block, and NvM_WriteAll at an orderly shutdown, which *)
(* writes the block if it is marked.                                       *)
Kept(store) == [active |-> store.active, pdu |-> store.pdu, dids |-> store.dids]
NvMWritesBlock ==
  /\ IF roeNvM.busy THEN roeNvM' = [roeNvM EXCEPT !.busy = FALSE]
     ELSE /\ roeNvM.marked
          /\ roeNvM' = [copy |-> Kept(roeStore), marked |-> FALSE, busy |-> TRUE]
  /\ UNCHANGED <<roeState, roePdu, roeEvents, roeFree, roePolled, changed, roeSent, roeStore>>

(* DCM_ROE_Init: the preconfigured events first, then those of the stored  *)
(* ones that still fit, each in the slot a request left it in; the others  *)
(* are taken out of the buffer, and the block is not marked.  Then the     *)
(* first main function asks for a protocol if it was active.               *)
InSomeOrder(dids) ==
  {order \in [1 .. Cardinality(dids) -> dids] : IsInjective(order) /\ Range(order) = dids}
ThatFit(dids) == SubSeq(dids, 1, IF Len(dids) <= MaxRoeEvents THEN Len(dids) ELSE MaxRoeEvents)
Allocated(list) ==
  IF list = <<>> THEN 0 ELSE list[Len(list)].start + DidLength[list[Len(list)].did]
AllAdded(dids) ==
  LET start[i \in DOMAIN dids] == IF i = 1 THEN 0 ELSE start[i - 1] + DidLength[dids[i - 1]]
  IN [i \in DOMAIN dids |-> [did |-> dids[i], start |-> start[i]]]

RoeStartsWith(copy) ==
  \E stored \in InSomeOrder(copy.dids \ PreconfiguredDids) :
    LET list == AllAdded(ThatFit(RoePreconfig \o stored))
        kept == copy.dids \cap (Listed(list) \ PreconfiguredDids)
        requested == copy.active /\ copy.pdu # NoTester
    IN /\ roeEvents' = list /\ roeFree' = Allocated(list)
       /\ roeState' \in IF requested THEN {"INIT", "ACTIVE"} ELSE {"INIT"}
       /\ roePdu' = IF roeState' = "ACTIVE" THEN copy.pdu ELSE NoTester
       /\ roePolled' = 1 /\ roeSent' = NothingSent
       /\ changed' = {}
       /\ roeStore' = [active |-> copy.active, pdu |-> copy.pdu, dids |-> kept,
                       pendingMark |-> FALSE]
       /\ roeNvM' = [copy |-> copy, marked |-> FALSE, busy |-> FALSE]

EmptyCopy == [active |-> FALSE, pdu |-> NoTester, dids |-> {}]
RoePowerCycle == RoeStartsWith(roeNvM.copy)
RoeShutdown == RoeStartsWith(IF roeNvM.marked THEN Kept(roeStore) ELSE roeNvM.copy)

RoeInit ==
  /\ roeEvents = AllAdded(RoePreconfig) /\ roeFree = Allocated(roeEvents)
  /\ roeState = "INIT" /\ roePdu = NoTester /\ roePolled = 1 /\ roeSent = NothingSent /\ changed = {}
  /\ roeStore = NewStore /\ roeNvM = [copy |-> EmptyCopy, marked |-> FALSE, busy |-> FALSE]

RoeNext ==
  \/ AddDataIdentifierEvent \/ DCM_ROE_Start \/ DCM_ROE_Stop \/ DCM_ROE_ClearEventList
  \/ Dcm_RestartROE \/ RoeSessionChange \/ PollDataIdentifiers \/ Dcm_TriggerOnEvent
  \/ DidChanges \/ Dcm_ROE_MainFunction \/ NvMWritesBlock \/ RoePowerCycle \/ RoeShutdown
RoeBehaviour == RoeInit /\ [][RoeNext]_roeVars

-----------------------------------------------------------------------------
(* Responses are sent only for a tester that is known.                     *)
RoeTypeOK ==
  /\ roeState \in {"INIT", "ACTIVE", "INACTIVE"} /\ roePdu \in RoeTesters \cup {NoTester}
  /\ roeState # "INIT" => roePdu # NoTester
  /\ Len(roeEvents) <= MaxRoeEvents /\ roePolled \in 1 .. MaxRoeEvents + 1
  /\ roeFree \in 0 .. MaxAllocated

(* What a tester has had stored, or removed, differs from what NvM has     *)
(* only as long as the block is marked or waits to be.  What NvM has and   *)
(* the buffer has not is preconfigured, or found the list full at start.   *)
StoredIsMarked ==
  roeNvM.marked \/ roeStore.pendingMark \/
    /\ roeStore.active = roeNvM.copy.active
    /\ roeStore.dids \subseteq roeNvM.copy.dids
    /\ \/ roeNvM.copy.dids \ roeStore.dids \subseteq PreconfiguredDids
       \/ Cardinality(roeStore.dids \cup PreconfiguredDids) = MaxRoeEvents

(* An event whose data stay changed is sent.                               *)
RoeDue(d) == roeState = "ACTIVE" /\ d \in changed /\ d \in Listed(roeEvents) \ ExternalDids
EventReported == \A d \in RoeDids : RoeDue(d) ~> (roeSent = d \/ ~RoeDue(d))
=============================================================================
