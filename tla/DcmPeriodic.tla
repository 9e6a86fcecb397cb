---------------------------- MODULE DcmPeriodic -----------------------------
(***************************************************************************)
(* Periodic transmission and dynamically defined identifiers of Dcm_Dsp.c: *)
(* ReadDataByPeriodicIdentifier (0x2A), DynamicallyDefineDataIdentifier    *)
(* (0x2C) and the main function that sends the scheduled identifiers as    *)
(* requests of its own, which go through the reception like a tester's.    *)
(***************************************************************************)
EXTENDS DcmLevels, SequencesExt

CONSTANTS
  ReadRow,            \* DspDidRead of each identifier: the configuration row
  DynamicDids,        \* the identifiers that have to be defined first
  WriteRow,           \* DspDidWrite of the dynamic ones: who may define them
  AddressRow,         \* the readable memory ranges and their levels
  ServiceRow,         \* the row of service 0x2A itself
  Connections,        \* receive PDUs of periodic connections
  Periods,            \* mode -> period of it, in main function calls
  PdidLimit,          \* DCM_LIMITNUMBER_PERIODDATA
  DddLimit,           \* DCM_MAX_DDD_NUMBER
  SourceLimit,        \* DCM_MAX_DDDSOURCE_NUMBER
  MaxPDidLength,      \* sources of a dynamic identifier that fit a frame
  DidLists,           \* the identifier lists testers send
  SourceLists,        \* the source lists testers send, of one kind each
  PeriodicBudget      \* bound: requests and session changes in a behaviour

Dids == DOMAIN ReadRow
Addresses == DOMAIN AddressRow
NoDid == "no identifier"
NoSource == "no source"

(* What occupies the reception and the service, besides a request for one  *)
(* identifier that the main function made.                                 *)
Occupies(what) == [did |-> NoDid, rx |-> what]
Nothing == Occupies("none")
FromTester == Occupies("tester")
Response == Occupies("response")

ASSUME PeriodicAssumption ==
  /\ DynamicDids \subseteq Dids /\ NoDid \notin Dids
  /\ \A m \in DOMAIN Periods : Periods[m] \in Nat \ {0}
  /\ {PdidLimit, DddLimit, SourceLimit, MaxPDidLength} \subseteq Nat \ {0}
  /\ DidLists \subseteq Seq(Dids)
  /\ SourceLists \subseteq Seq(Dids \cup Addresses)
  /\ PeriodicBudget \in Nat

VARIABLES
  synch,       \* the build: DCM_PERIODIC_DID_SYNCH_SAMPLING
  pdids,       \* dspPDidRef.dspPDid, as long as PDidNofUsed
  nextStart,   \* dspPDidRef.nextStartIndex
  ddd,         \* dspDDD: what a free slot was left with stays in it
  inbox,       \* the request that occupies the reception and the service
  passed,      \* history: how often each was due and another one was sent
  phase,       \* of Dcm_MainFunction: DspPreDsdMain, then DsdMain
  answer,      \* of the last step: what a tester's request was answered
  budget       \* requests the testers have left

periodicVars == <<synch, pdids, nextStart, ddd, inbox, passed, phase, answer, budget>>

Samples == {"not_sampled", "ok", "failed"}
FreeSlot == [did |-> NoDid, source |-> [i \in 1 .. SourceLimit |-> NoSource]]
NoSlots == [i \in 1 .. DddLimit |-> FreeSlot]
Internal == [did : Dids, rx : Connections]
NobodyPassed == [k \in Internal |-> 0]

PeriodicInit ==
  /\ synch \in BOOLEAN
  /\ pdids = <<>> /\ nextStart = 0 /\ ddd = NoSlots
  /\ inbox = Nothing /\ passed = NobodyPassed /\ phase = "pre" /\ answer = "none"
  /\ budget = PeriodicBudget

-----------------------------------------------------------------------------
(* The table of periodic identifiers, as a record t of the two variables.   *)

Table == [pdid |-> pdids, next |-> nextStart]
EmptyTable == [pdid |-> <<>>, next |-> 0]
BecomesTable(t) == pdids' = t.pdid /\ nextStart' = t.next

KeyOf(e) == [did |-> e.did, rx |-> e.rx]
Holds(t, k) == \E i \in DOMAIN t.pdid : KeyOf(t.pdid[i]) = k
Place(t, k) == CHOOSE i \in DOMAIN t.pdid : KeyOf(t.pdid[i]) = k

(* DspPdidRemove: the last entry moves to the place of the removed one. *)
RemovedOnly(t, k) ==   \* variation: the start index is left alone
  IF ~Holds(t, k) THEN t
  ELSE [t EXCEPT !.pdid = Front([@ EXCEPT ![Place(t, k)] = Last(t.pdid)])]
DspPdidRemove(t, k) ==
  IF ~Holds(t, k) THEN t
  ELSE [pdid |-> Front([t.pdid EXCEPT ![Place(t, k)] = Last(t.pdid)]),
        next |-> IF t.next >= Len(t.pdid) - 1 THEN 0 ELSE t.next]

NewEntry(k, period) ==
  [did |-> k.did, rx |-> k.rx, period |-> period, counter |-> 0, sample |-> "not_sampled"]

(* DspPdidAddOrUpdate; period 0 comes from the main function's requests. *)
Full(t, k) == ~Holds(t, k) /\ Len(t.pdid) >= PdidLimit
DspPdidAddOrUpdate(t, k, period) ==
  CASE Holds(t, k) /\ period # 0 -> [t EXCEPT !.pdid[Place(t, k)] = NewEntry(k, period)]
    [] ~Holds(t, k) /\ ~Full(t, k) -> [t EXCEPT !.pdid = Append(@, NewEntry(k, period))]
    [] OTHER -> t

(* A loop over identifiers adds, updates or removes one after the other, or *)
(* passes it over; the table after n of them, as a function of n.          *)
Adding(k, period) == [does |-> "add", key |-> k, period |-> period]
Removing(k) == [does |-> "remove", key |-> k, period |-> 0]
Passing(k) == [does |-> "pass", key |-> k, period |-> 0]
OneStep(t, op) ==
  CASE op.does = "add" -> DspPdidAddOrUpdate(t, op.key, op.period)
    [] op.does = "remove" -> DspPdidRemove(t, op.key)
    [] OTHER -> t
Stepwise(t, ops) ==
  LET after[n \in 0 .. Len(ops)] == IF n = 0 THEN t ELSE OneStep(after[n - 1], ops[n])
  IN after
Final(t, ops) == Stepwise(t, ops)[Len(ops)]

(* DspSynchronizePdids *)
DspSynchronizePdids(t, period, rx) ==
  [t EXCEPT !.pdid = [i \in DOMAIN @ |->
     IF @[i].period = period /\ @[i].rx = rx THEN NewEntry(KeyOf(@[i]), period) ELSE @[i]]]

-----------------------------------------------------------------------------
(* The dynamic definitions.                                                *)

Defined(d) == \E n \in 1 .. DddLimit : ddd[n].did = d
SlotOf(d) == CHOOSE n \in 1 .. DddLimit : ddd[n].did = d
FreeSlots == {n \in 1 .. DddLimit : ddd[n].did = NoDid}

(* The sources of a slot end at the first empty one. *)
SourcesUsed(slot) ==
  {i \in 1 .. SourceLimit : \A j \in 1 .. i : slot.source[j] # NoSource}
SourceCount(slot) == Cardinality(SourcesUsed(slot))
SourcesOf(slot) == {slot.source[i] : i \in SourcesUsed(slot)}

(* An address is checked for its security level only. *)
SourceAllowed(source, s, l) ==
  IF source \in Addresses THEN DspCheckSecurityLevel(AddressRow[source], l)
  ELSE Allows(ReadRow[source], s, l)

(* checkPDidSupported, with checkDDDConditions: a positive response. *)
checkPDidSupported(d, s, l) ==
  /\ Allows(ReadRow[d], s, l)
  /\ d \in DynamicDids =>
       Defined(d) /\ \A source \in SourcesOf(ddd[SlotOf(d)]) : SourceAllowed(source, s, l)
(* Only for a dynamic identifier a length is found. *)
Fits(d) == d \in DynamicDids => SourceCount(ddd[SlotOf(d)]) <= MaxPDidLength
Accepted(d) == checkPDidSupported(d, session, security) /\ Fits(d)

(* getPDidData: the read callout of a configured identifier may fail; the  *)
(* sources of a dynamic one are checked for their security only.           *)
getPDidData(d) ==
  IF d \notin DynamicDids THEN {"ok", "failed"}
  ELSE IF /\ Defined(d) /\ Fits(d)
          /\ \A source \in SourcesOf(ddd[SlotOf(d)]) :
               DspCheckSecurityLevel(IF source \in Addresses THEN AddressRow[source]
                                     ELSE ReadRow[source], security)
       THEN {"ok"} ELSE {"failed"}

-----------------------------------------------------------------------------
(* DspPeriodicDIDMainFunction                                              *)

Ticked(e) == IF e.period > e.counter THEN [e EXCEPT !.counter = @ + 1] ELSE e
Due(e) == e.period <= e.counter
Place1(i) == ((nextStart + i) % Len(pdids)) + 1

(* An entry that is due and not sampled has all of its period and          *)
(* connection sampled at once.                                             *)
Sampled(t, trying, i) ==
  synch /\ \E j \in trying : /\ t[j].sample = "not_sampled"
                             /\ t[j].period = t[i].period /\ t[j].rx = t[i].rx
SampleOutcomes(t, trying) ==
  {o \in [DOMAIN t -> Samples] :
     \A i \in DOMAIN t :
       IF Sampled(t, trying, i) THEN o[i] \in getPDidData(t[i].did) ELSE o[i] = t[i].sample}

(* One identifier is sent in a call, the first one due from nextStart on.   *)
(* While something is in process every one that is due tries in vain.       *)
SameStart(i) == nextStart                      \* variation: no round robin
StartAfter(i) == (nextStart + i + 1) % Len(pdids)
DspPeriodicDIDMainFunction ==
  LET t == [i \in DOMAIN pdids |-> Ticked(pdids[i])]
      due == {i \in 0 .. Len(pdids) - 1 : Due(t[Place1(i)])}
      sends == inbox = Nothing /\ due # {}
      first == CHOOSE i \in due : \A j \in due : i <= j
      trying == {Place1(i) : i \in IF sends THEN {first} ELSE due}
  IN \E o \in SampleOutcomes(t, trying) :
       LET u == [i \in DOMAIN t |-> [t[i] EXCEPT !.sample = o[i]]]
       IN IF sends
          THEN /\ pdids' = [u EXCEPT ![Place1(first)].counter = 0]
               /\ nextStart' = StartAfter(first)
               /\ inbox' = KeyOf(u[Place1(first)])
               /\ passed' = [k \in Internal |->
                    IF k # inbox' /\ \E i \in due : KeyOf(u[Place1(i)]) = k
                    THEN passed[k] + 1 ELSE 0]
          ELSE pdids' = u /\ UNCHANGED <<nextStart, inbox, passed>>

DspPreDsdMain ==
  /\ phase = "pre"
  /\ DspPeriodicDIDMainFunction
  /\ phase' = "dsd" /\ answer' = "none"
  /\ UNCHANGED <<levels, synch, ddd, budget>>

-----------------------------------------------------------------------------
(* DspReadDataByPeriodicIdentifier                                         *)

(* An internal request for one identifier: sent, or no longer scheduled.   *)
InternalRead(k) ==
  LET t == DspPdidAddOrUpdate(Table, k, 0)
      sample == t.pdid[Place(t, k)].sample
  IN IF ~Accepted(k.did) \/ Full(Table, k) THEN BecomesTable(Table)
     ELSE \E outcome \in IF synch THEN {sample} ELSE getPDidData(k.did) :
            BecomesTable(IF outcome # "ok" THEN DspPdidRemove(t, k)
                         ELSE [t EXCEPT !.pdid[Place(t, k)].sample = "not_sampled"])

(* A tester's request: identifiers that are not supported are passed over; *)
(* when the table is full the added ones are removed again.                *)
Additions(period, list, rx) ==
  [i \in DOMAIN list |-> LET k == [did |-> list[i], rx |-> rx]
                         IN IF Accepted(k.did) THEN Adding(k, period) ELSE Passing(k)]
Added(ops) == {n \in DOMAIN ops : ops[n].does = "add"}
Overflow(after, ops) == {n \in Added(ops) : Full(after[n - 1], ops[n].key)}
Undoing(ops) ==
  [n \in DOMAIN ops |-> IF n \in Added(ops) /\ ~Holds(Table, ops[n].key)
                        THEN Removing(ops[n].key) ELSE Passing(ops[n].key)]
Schedule(period, list, rx) ==
  LET ops == Additions(period, list, rx)
      after == Stepwise(Table, ops)
      overflow == Overflow(after, ops)
      last == (CHOOSE n \in overflow : \A m \in overflow : n <= m) - 1
      all == after[Len(ops)]
  IN CASE overflow # {} -> [table |-> Final(after[last], Undoing(SubSeq(ops, 1, last))),
                            ret |-> "refused"]
       [] overflow = {} /\ Added(ops) = {} -> [table |-> Table, ret |-> "refused"]
       [] OTHER -> [table |-> IF synch THEN DspSynchronizePdids(all, period, rx) ELSE all,
                    ret |-> "positive"]

KeepsDdd(ret) == answer' = ret /\ ddd' = ddd
ScheduleRequest ==
  \E m \in DOMAIN Periods, list \in DidLists, rx \in Connections :
    LET result == Schedule(Periods[m], list, rx)
    IN BecomesTable(result.table) /\ KeepsDdd(result.ret)

(* ClearPeriodicIdentifier *)
StopRequest ==
  \E list \in DidLists, rx \in Connections :
    /\ BecomesTable(Final(Table, [i \in DOMAIN list |-> Removing([did |-> list[i], rx |-> rx])]))
    /\ KeepsDdd("positive")

StopAllRequest == BecomesTable(EmptyTable) /\ KeepsDdd("positive")

-----------------------------------------------------------------------------
(* DspDynamicallyDefineDataIdentifier                                      *)

MayDefine(d) == Allows(WriteRow[d], session, security)
IsAddresses(list) == list[1] \in Addresses

(* Where a definition of d goes: its slot, or the first free one.  A new    *)
(* definition starts at the first source of its slot.                      *)
HasPlace(d) == Defined(d) \/ FreeSlots # {}
Target(d) == IF Defined(d) THEN SlotOf(d) ELSE CHOOSE n \in FreeSlots : \A m \in FreeSlots : n <= m
Offset(d) == IF Defined(d) THEN SourceCount(ddd[SlotOf(d)]) ELSE 0
Written(d, list) ==
  [i \in 1 .. SourceLimit |-> IF i - Offset(d) \in DOMAIN list THEN list[i - Offset(d)]
                              ELSE ddd[Target(d)].source[i]]

(* Sources are written one by one until one is refused; those by address   *)
(* are emptied again, those by identifier stay.                            *)
AllowedPrefix(list) ==
  LET refused == {i \in DOMAIN list : ~SourceAllowed(list[i], session, security)}
  IN IF refused = {} THEN list
     ELSE SubSeq(list, 1, (CHOOSE i \in refused : \A j \in refused : i <= j) - 1)
EmptiedFromStart(d, list) ==   \* variation: as if the definition were new
  [i \in 1 .. SourceLimit |-> IF i \in DOMAIN list THEN NoSource ELSE ddd[Target(d)].source[i]]
Emptied(d, list) ==
  [i \in 1 .. SourceLimit |-> IF i - Offset(d) \in DOMAIN list THEN NoSource
                              ELSE ddd[Target(d)].source[i]]
TooLong(d, list) ==
  \/ Offset(d) + Len(list) > SourceLimit
  \/ IsAddresses(list) /\ Defined(d) /\ Offset(d) = SourceLimit
RefusedDefinition(d, list) ==
  [ddd EXCEPT ![Target(d)].source =
     IF IsAddresses(list) THEN Emptied(d, list) ELSE Written(d, AllowedPrefix(list))]

DefineRequest ==
  /\ UNCHANGED <<pdids, nextStart>>
  /\ \E d \in DynamicDids, list \in SourceLists :
       CASE ~MayDefine(d) \/ ~HasPlace(d) \/ TooLong(d, list) -> KeepsDdd("refused")
         [] MayDefine(d) /\ HasPlace(d) /\ ~TooLong(d, list) /\ AllowedPrefix(list) = list ->
              /\ answer' = "positive"
              /\ ddd' = [ddd EXCEPT ![Target(d)] = [did |-> d, source |-> Written(d, list)]]
         [] OTHER -> answer' = "refused" /\ ddd' = RefusedDefinition(d, list)

(* isInPDidBuffer: on whatever connection. *)
isInPDidBuffer(d) == \E i \in DOMAIN pdids : pdids[i].did = d

(* ClearDynamicallyDefinedDid: the definitions left move together, the one *)
(* at the bottom to the first free slot.                                   *)
Compacted(slots) ==
  LET used(n) == slots[n].did # NoDid
      gap == {n \in DOMAIN slots : ~used(n) /\ \E m \in DOMAIN slots : m > n /\ used(m)}
      bottom == CHOOSE n \in DOMAIN slots : used(n) /\ \A m \in DOMAIN slots : m > n => ~used(m)
  IN IF gap = {} THEN slots
     ELSE [slots EXCEPT ![CHOOSE n \in gap : \A m \in gap : n <= m] = slots[bottom],
                        ![bottom] = FreeSlot]
ClearRequest ==
  /\ UNCHANGED <<pdids, nextStart>>
  /\ \E d \in DynamicDids :
       IF MayDefine(d) /\ Defined(d) /\ ~isInPDidBuffer(d)
       THEN answer' = "positive" /\ ddd' = Compacted([ddd EXCEPT ![SlotOf(d)] = FreeSlot])
       ELSE KeepsDdd("refused")

(* Clearing all asks for no session and no level. *)
ClearAllRequest ==
  /\ UNCHANGED <<pdids, nextStart>>
  /\ IF \E d \in DynamicDids : Defined(d) /\ isInPDidBuffer(d) THEN KeepsDdd("refused")
     ELSE answer' = "positive" /\ ddd' = NoSlots

-----------------------------------------------------------------------------
TesterRequest ==
  \/ Allows(ServiceRow, session, security)
     /\ (ScheduleRequest \/ StopRequest \/ StopAllRequest)
  \/ DefineRequest \/ ClearRequest \/ ClearAllRequest

(* DsdMain: the request is served and its response is in transmission. *)
DsdServesPeriodic ==
  /\ phase = "dsd" /\ inbox \notin {Nothing, Response}
  /\ \/ inbox = FromTester /\ TesterRequest
     \/ inbox \in Internal /\ answer' = "none" /\ ddd' = ddd
        /\ IF Allows(ServiceRow, session, security) THEN InternalRead(inbox)
           ELSE BecomesTable(Table)
  /\ inbox' = Response /\ phase' = "pre"
  /\ UNCHANGED <<levels, synch, budget>>

DsdIdle ==
  /\ phase = "dsd" /\ inbox \in {Nothing, Response}
  /\ phase' = "pre" /\ answer' = "none"
  /\ UNCHANGED <<levels, synch, pdids, nextStart, ddd, inbox, budget>>

PeriodicConfirmation ==
  /\ inbox = Response /\ inbox' = Nothing /\ answer' = "none"
  /\ UNCHANGED <<levels, synch, pdids, nextStart, ddd, phase, budget>>

PeriodicReception ==
  /\ inbox = Nothing /\ budget > 0
  /\ inbox' = FromTester /\ budget' = budget - 1 /\ answer' = "none"
  /\ UNCHANGED <<levels, synch, pdids, nextStart, ddd, phase>>

(* DspStopPeriodicDids: what the new session and level do not support ends; *)
(* all of it ends when they do not support the service.                    *)
StopsNothing(t, s, l) == IF Allows(ServiceRow, s, l) THEN t ELSE EmptyTable  \* variation
DspStopPeriodicDids(t, s, l) ==
  LET check(e) == IF checkPDidSupported(e.did, s, l) THEN Passing(KeyOf(e))
                  ELSE Removing(KeyOf(e))
  IN IF Allows(ServiceRow, s, l) THEN Final(t, [i \in DOMAIN t.pdid |-> check(t.pdid[i])])
     ELSE EmptyTable

(* A session change by a tester, by the S3 timer or, whatever is going on, *)
(* by the application; leaving the default session initializes the module. *)
PeriodicSessionChange ==
  /\ \E s \in DspSessions :
       /\ budget > 0 /\ budget' = budget - 1
       /\ inbox \in {Nothing, Response} \/ s = DefaultSession
       /\ ChangesSession(s)
       /\ IF InitializesDsp THEN BecomesTable(EmptyTable) /\ ddd' = NoSlots
          ELSE BecomesTable(DspStopPeriodicDids(Table, s, LevelAfter)) /\ ddd' = ddd
  /\ answer' = "none"
  /\ UNCHANGED <<synch, inbox, phase>>

PeriodicUnlock ==
  /\ session # DefaultSession /\ inbox = Nothing
  /\ \E l \in DspLevels : DslInternal_SetSecurityLevel(l)
  /\ answer' = "none"
  /\ UNCHANGED <<synch, pdids, nextStart, ddd, inbox, phase, budget>>

PeriodicPreempted ==
  /\ inbox = Nothing /\ budget > 0 /\ budget' = budget - 1
  /\ ProtocolTakesOver /\ BecomesTable(EmptyTable) /\ ddd' \in {ddd, NoSlots}
  /\ answer' = "none"
  /\ UNCHANGED <<synch, inbox, phase>>

(* The turns are counted for as long as nothing is scheduled, updated or   *)
(* ended in between.                                                       *)
Turns == [i \in DOMAIN pdids |-> <<KeyOf(pdids[i]), pdids[i].counter>>]
KeepsTurns == passed' = IF Turns' = Turns THEN passed ELSE NobodyPassed

PeriodicNext ==
  \/ DspPreDsdMain
  \/ /\ \/ DsdServesPeriodic \/ DsdIdle \/ PeriodicConfirmation
        \/ PeriodicReception \/ PeriodicSessionChange \/ PeriodicUnlock \/ PeriodicPreempted
     /\ KeepsTurns
PeriodicSpec == LevelsInit /\ PeriodicInit /\ [][PeriodicNext]_<<levels, periodicVars>>

-----------------------------------------------------------------------------
PeriodicTypeOK ==
  /\ LevelsTypeOK /\ synch \in BOOLEAN
  /\ Len(pdids) <= PdidLimit
  /\ \A i \in DOMAIN pdids :
       pdids[i] \in [did : Dids, rx : Connections, period : Nat, counter : Nat, sample : Samples]
  /\ \A i, j \in DOMAIN pdids : KeyOf(pdids[i]) = KeyOf(pdids[j]) => i = j
  /\ nextStart = 0 \/ nextStart < Len(pdids)
  /\ \A m, n \in 1 .. DddLimit :                    \* the definitions leave no gap
       m < n /\ ddd[n].did # NoDid => ddd[m].did \notin {NoDid, ddd[n].did}
  /\ inbox \in {Nothing, FromTester, Response} \cup Internal

(* What is scheduled may be read in the current session, however it was    *)
(* entered, and is defined if it is dynamic: nothing clears a definition   *)
(* that is being sent, on whatever connection.                             *)
ScheduledIsReadable ==
  \A i \in DOMAIN pdids :
    /\ DspCheckSessionLevel(ReadRow[pdids[i].did], session)
    /\ pdids[i].did \in DynamicDids => Defined(pdids[i].did)

(* What a refused request may leave.  In the table: identifiers it names   *)
(* and that were scheduled already start anew with its period (3851-3858);  *)
(* none comes, goes or moves.  In one definition, or in a free slot: behind *)
(* the sources that are there, sources the tester may read (4300-4303), or  *)
(* nothing.                                                                *)
LeavesTable ==
  /\ Len(pdids') = Len(pdids) /\ nextStart' = nextStart
  /\ \/ pdids' = pdids
     \/ \E m \in DOMAIN Periods, list \in DidLists, rx \in Connections :
          LET named == {[did |-> list[n], rx |-> rx] : n \in DOMAIN list}
          IN \A i \in DOMAIN pdids :
               \/ pdids'[i] = pdids[i]
               \/ /\ KeyOf(pdids[i]) \in named
                  /\ pdids'[i] = NewEntry(KeyOf(pdids[i]), Periods[m])
LeavesDefinitions ==
  \E n \in 1 .. DddLimit :
    /\ \A k \in 1 .. DddLimit \ {n} : ddd'[k] = ddd[k]
    /\ ddd'[n].did = ddd[n].did
    /\ \A i \in 1 .. SourceLimit :
         \/ ddd'[n].source[i] = ddd[n].source[i]
         \/ /\ ddd[n].did = NoDid \/ i > SourceCount(ddd[n])
            /\ \/ ddd'[n].source[i] = NoSource
               \/ SourceAllowed(ddd'[n].source[i], session, security)
RefusedTakesNothing ==
  [][answer' = "refused" => LeavesTable /\ LeavesDefinitions]_<<levels, periodicVars>>

(* Nobody starves: an identifier that is due waits while each of the      *)
(* others is sent once, however short their periods are.                   *)
EachInTurn == \A k \in Internal : passed[k] <= PdidLimit - 1
=============================================================================
