# TLA+ models of the AUTOSAR diagnostic stack

The repository holds a diagnostic stack in C: the Diagnostic Communication
Manager (DCM, `src/core/dcm`), the Diagnostic Event Manager (DEM, `src/dem`),
and thin layers over the operating system, memory and transport
(`src/abstraction`, `src/hal`, `src/main.cpp`). This directory models its
control logic in TLA+, checks the models with TLC on small instances, and
proves what matters most with TLAPS for every value of the constants.

    tlc -workers 2 -config OneProtocol.cfg MCDcmDsl     # one run
    tlapm DcmDslProofs.tla                              # one proof module

`PROJECT.json` lists the runs, the source lines of every definition (`map`), a
mutant of the code for every property, the hazards and the theorems.

## The system

### DCM

| Part | State | Operations |
|---|---|---|
| Session layer, `Dcm_Dsl.c` | per protocol row (`Dcm_DslRunTimeProtocolParametersType`): status of the external and the local buffers, session, security level, `protocolStarted`, timers S3, P2, preempt; per buffer a flag; global: `activeProtocol`, the preemption flags | callbacks `DslStartOfReception`, `DslCopyDataToRxBuffer`, `DslTpRxIndicationFromPduR`, `DslCopyTxData`, `DslTpTxConfirmation`; the periodic `DslMain`; `DslDsdProcessingDone` and `DslDsdSendResponsePending` for the dispatcher; setters of session and security |
| Dispatcher, `Dcm_Dsd.c` | the one request being served, "suppress positive response" | `DsdDslDataIndication`, `DsdMain`, `DsdDspProcessingDone` |
| Service processor, `Dcm_Dsp.c` | pending services (memory, DID, routine, security), pending session change, seed and attempts, periodic and dynamic DIDs | the `DspUds...` services, `DspMain`, `DspDcmConfirmation`, `DspInit` |
| Entry points, `Dcm.c`, `Dcm_Internal.c` | first call after start | `Dcm_Init`, `Dcm_MainFunction`, `Dcm_ResetToDefaultSession` |
| Response on event, `Dcm_ROE.c` | the list of events with their reference data, the polling index, the copy for NvM | start, stop, clear, add, trigger, `DCM_ROE_PollDataIdentifiers`, `Dcm_ROE_Init` |

`Dcm_MainFunction` runs, in one task, a pending protocol start, `DsdMain`,
`DspMain`, `DslMain`; the transport layer calls the session layer back from
another task or interrupt at any time. A request goes
`StartOfReception -> TpRxIndication -> (DSD, DSP) -> response signalled ->
PduR_DcmTransmit -> TpTxConfirmation`, and each step moves the status of the
row's buffers. Negative responses and responsePending use a second, local
buffer on the same PDU. A second protocol may *preempt* the active one.

What is hard: every callback may come between any two steps of the main
function; `DslTpTxConfirmation` guesses from buffer states which transmission
was confirmed; some state is global where it speaks of one row
(`activeProtocol`, the preemption flags, the DSD's request, the pending session
change); a preemption is decided in a callback and carried out cycles later;
responses race with P2, keys with session changes. Every service keeps, between
two main functions, what it has begun: a callout that works on, a transfer,
signals taken from the ECU, identifiers to send. A session change, an
application's reset of the session, a cancelled request or another
protocol may come at each of these points, and the next request finds what was left.

What makes it correct: a buffer is held exactly while it is in use; a request is
not overwritten while it is served; a confirmation reaches the buffer it
belongs to; one protocol is active at a time; sessions and security levels
change only on the request of their own tester; every request and every
preemption ends. Of the services: what a tester was told was done is done and stays
done, what was given up or is no longer allowed leaves nothing behind, and what was
refused takes nothing from anybody (it may leave something: see `DcmPeriodic`).

### DEM

| Part | State | Operations |
|---|---|---|
| Event memory, `impl/Dem_Private_impl.c`, `impl/Dem_Core_impl.c` | per event the UDS status byte, occurrence, failure and aging counters; the primary memory (10 entries), freeze frames, extended data; operation cycles | `Dem_SetEventStatus`, `Dem_ResetEventStatus`, `Dem_SetOperationCycleState`, storing, displacing, aging, clearing |
| Debouncing, `Dem_Debounce.c` | per event a counter or a timer, and the fault detection counter | pre-debouncing of a report, the periodic time-based step, resets |
| NvM handling, `Dem_NvM.c` | per block `State`, `Dirty`, `PendingWrite` | `Dem_NvM_Set...BlockChanged`, `Dem_NvM_MainFunction` |
| Start and shutdown, `impl/Dem_Init_impl.c` | DEM state | `Dem_PreInit`, `Dem_Init`, `Dem_Shutdown` |
| Interface to the DCM, `impl/Dem_Dcm_impl.c`, `impl/Dem_Filter_impl.c`, `impl/Dem_ExtData_impl.c` | DTC filter, record-update lock, DTC setting | `Dem_ClearDTC`, `Dem_SetDTCFilter`, readers |

Reports come from several tasks. Exclusive areas (`SchM_Enter_Dem_EA_0`) are
entered around a report and around each event of `Dem_ClearDTC`, not around
the NvM handling; in the simulation build they are empty macros
(`SchM_Dem.h`). The NvM handling is compiled with `USE_NVM` only, which the
repository's own build does not set.

What makes it correct: no change of a memory is forgotten before it is stored;
the status bits agree with the memory (a confirmed event has an entry); a full
memory gives up the right entry; aging and clearing leave no trace of one in
the other.

### Not part of the diagnostic logic

`src/main.cpp` is an echo loop over UDP that links neither DCM nor DEM logic;
`src/abstraction` and `src/hal` wrap sockets, files and mutexes; `src/build` is
generated; `src/tests` holds one unit test.

## The modules

| Module | Models |
|---|---|
| `DcmDsl` | the session layer with the parts of DSD and DSP it talks to, the main function, the callbacks and the transport layer around them |
| `DcmRequest` | abstract: one request's way through one protocol; `DcmDsl` maps its `stage` to the buffers (`Stage`) |
| `MCDcmDsl` | instances of `DcmDsl`; the progress of its requests |
| `DcmDslProofs`, `DcmDslRequestProofs` | theorems about `DcmDsl`: for many rows, and for one |
| `DcmLevels` | the session and the security level as the services see them, and what changes them |
| `DcmTransfer` | RequestDownload, RequestUpload, TransferData, RequestTransferExit |
| `DcmPeriodic` | ReadDataByPeriodicIdentifier, DynamicallyDefineDataIdentifier, the scheduler |
| `DcmIoControl` | InputOutputControlByIdentifier |
| `DcmConfirm` | session control, jump to the bootloader, reset, link control, communication control, DTC setting |
| `DcmSecurity` | SecurityAccess |
| `DcmReadDid` | ReadDataByIdentifier with asynchronous signals and references |
| `DcmPending` | RoutineControl, WriteDataByIdentifier, reading and writing memory |
| `DcmRoe` | ResponseOnEvent |
| `DcmReadDtc` | numbers and lists of DTCs over the DEM's one filter, with suppression and availability |
| `DemDebounce` | debouncing by counter and by timer, fault detection counters |
| `MCServices`, `MCDcmRoe` | the instances of these modules |
| `DcmControlProofs` | theorems about `DcmSecurity`, `DcmIoControl` and `DcmConfirm` |
| `DcmDataProofs` | theorems about `DcmReadDtc`, `DcmPending`, `DcmTransfer` and `DcmReadDid` |
| `DcmListProofs` | theorems about `DcmPeriodic` and `DcmRoe` |
| `DemDebounceProofs` | theorems about `DemDebounce` |
| `DemNvM` | the flags and states of `Dem_NvM.c`, the tasks that set them, and the NvM |
| `MCDemNvM`, `DemNvMProofs` | its instances and theorems |
| `DemEvent` | the status of the events and the primary event memory: reports, cycles, aging, displacement, start-up, clearing |
| `MCDemEvent` | its instances |
| `DemEventProofs` | theorems about the entries and the status bits of `DemEvent` |

### DcmDsl

`rt[p]` is the runtime record of row `p` and the status of the receive buffer it
points to (`busy` is the buffer's own flag); `active`, `preemption`, `msg`
and `dsp` are the globals of the three files; `main` says which step of
`Dcm_MainFunction` comes next. The main function is one action per step
(start-up request, `DsdMain`, `DspMain`, then for each row the S3 timer and the
response machine of `DslMain`), so that callbacks interleave between them.
Each callback is one action: it runs to its end once called, as an interrupt
does. `tpRx` and `tpTx` are the transport layer: which receptions and
transmissions are under way. It is external; it takes one transmission per
PDU, may refuse one when `Refusals` says so, may fail one, and ends each.

A service is abstracted to how it ends: at once (positive, negative,
suppressed), pending, a session change, a seed, a key. `DspMain` lets a pending
one go on, answer or force responsePending. Messages carry no bytes; a
message is short (fits the local buffer), long, or fits neither.

Where code dereferences `activeProtocol` while it is NULL the model goes to phase
"crashed" and stops. Runs without OBD rows check for deadlock, which shows
that they never get there; `Obd.cfg` and `Sessions.cfg` turn the check off because there it does.

### The services

`DcmDsl` abstracts a service to how it ends; the service modules abstract the
session layer to what a service can meet. `DcmLevels` is that interface: `session` and
`security`, `ChangesSession` (leaving the default session initializes the DSP, leaving another
one locks), `DslInternal_SetSecurityLevel`, `ProtocolTakesOver` (another row becomes the active
one, in the default session, at the level it was left with), and `Allows` for a
configuration row. Each service module extends it and says in its own
session-change, preemption and cancel actions what `DspInit`,
`DspResetDiagnosticActivityOnSessionChange` and `DspCancelPendingRequests` do to its state.
A pending callout is external: a set of what it works on, from which the main function's
next call gets a result, another "pending" or a request for responsePending.

- `DcmTransfer`: `transfer` is `TransferStatus`, `ulPending`
  `dspUdsUploadDownloadPending`. The tester is in the model: it repeats a block if the
  response got lost, and remembers what it was told. The block counter is taken modulo
  `CounterModulus`, and so wraps within a transfer.
- `DcmPeriodic`: `pdids` is `dspPDidRef` in its order (a removal moves the last
  one into the gap), `ddd` is `dspDDD` with its slots. The scheduler sends what is due as a
  request of the ECU to itself, one per main function. A request with a list is a sequence of
  additions or removals, and `Stepwise` the table after each of them: the code's loops, as a recursive
  function. `inbox` is the reception the scheduler shares
  with the testers, `synch` the two builds of the sampling. `passed` is a history variable:
  how often others were sent while one was due. It starts again at each change of the table, so that
  what a removal does to the round (it shifts the list under the index) is outside `EachInTurn`.
  A refused request is not without effect. Identifiers that were scheduled already and come before the
  one that does not fit keep their new period (`Dcm_Dsp.c:3851-3858`; only the new entries are
  taken back, l.4165-4167). The sources of a refused definition by identifier stay appended up to the one
  that is refused (l.4300-4303, which l.4332-4341 do not take back): behind those of a definition that
  is there, or in a free slot, where they become part of the next definition that takes the slot. A later
  and longer definition may then no longer fit. `LeavesTable` and `LeavesDefinitions` say that this is all.
- `DcmIoControl`: `ioList` is `IOControlStateList`, `held` what the application has given away.
- `DcmConfirm`: `effect` is what waits for a confirmation and what is in effect (the global
  variables of `Dcm_Dsp.c`), `serving` the one request with its response, `localTx` a
  response in the local buffer, whose confirmation arrives like one.
- `DcmSecurity`: `seedKey` and `delays` are `dspUdsSecurityAccesData`, whose row index
  is that of the last request, whatever level it named. So a seed request for another level moves the
  row, also a refused one, and a wrong key for the level before is then charged to that row, though
  compared with the limit of its own (`Dcm_Dsp.c:2752`, 2883-2889). `guesses` is a history variable: the wrong
  keys of each level since its delay last started, without those the code charges to another row.
- `DcmReadDid`: `reading` is `dspUdsReadDidPending`. The code walks the whole request again in every
  main function and knows by a count and an index where it was; the model keeps both, and
  what has been written into the response.
- `DcmPending`: a state for each of three services, which the main functions look at
  whatever request is served (`served`). Of the memory ranges the first that matches decides, and its
  level only. A write of memory that is done at once is answered in a loop, once for each byte of its
  address and size (`Dcm_Dsp.c:3647-3655`, `RepeatedAnswers`): the answers after the first serve nobody. With the main
  function in one task they signal the same buffer again; the build that splits it is not modelled. The
  uint32 sum in `findRange` wraps (l.3565-3567), so that an access that begins in a range at the
  end of the address space and passes its end is accepted; `PendingTypeOK` says that it is the only one
  outside a range.
- `DcmRoe`: `roeEvents` is `Dcm_ROE_Events`, `roePolled` the static index of the poll, `roeStore` and
  `roeNvM` the RAM block and what NvM has of it. At start the preconfigured events are added first, then the
  stored ones while there is room; one that finds none is taken out of the RAM block without marking it
  (`Dcm_ROE.c:167-177`), which is the exception `StoredIsMarked` makes.
- `DcmReadDtc`: `dtcFilter` is the DEM's global filter with its index, `dtcReading` the service between two
  of its calls to the DEM, `stays` a history variable.
- `DemDebounce`: `fdcInternal`, `debounceTimer`, `fdc` and `maxFdc` as in the code, the scaling of the
  counter to a byte included; `verdict` is the last result passed on, `steady` a history variable.

`MCServices` gives each an instance. They have only the session and the level in
common, which is why a behaviour is one of the service it starts with.

A *variation* in these modules (and a mutant in `DemNvM`) is an operator no specification uses: a plausible
slip in the code, kept beside the operator it varies, with which the property named in
`PROJECT.json` fails.

### DemNvM

`status[b]` is `DemNvMBlockStatus[b]`; `main` is the block the loop looks at and
the statement it stands before, since a setter of another task may run between
any two statements. `ram` abstracts the RAM block of a handle to what the NvM
has not copied yet: nothing, a change to store at shutdown (`lazy`) or one with
ImmediateStorage (`urgent`). `Change` is the task's write to the memory and comes
before the setter, as in `storeEventMem`. The NvM is external: one job for a
handle, copied when it starts. It is taken not to run *between two
statements of* `Dem_NvM_MainFunction`: that function calls `NvM_WriteBlock` and
only then clears the flag, so an NvM that preempted it there could copy before
a change whose flag is then cleared. A reset (`Restart`) finds RAM and NvM the same: what was not stored is
lost with the power, and no property speaks of it.

### DemEvent

`status[e]` is the event's record in `eventStatusBuffer`: the bits of the UDS status
byte the memory depends on, the failure and aging counters and the flags of
the failure and the aging cycle. `mem` is `priMemEventBuffer`, a function whose
domain (`Stored`) are the events that have an entry; `EventRecType` keeps only
the bits of `GET_STORED_STATUS_BITS` and the counters. Time stamps are
abstracted to their order: `older` holds the pairs of which the first is the older
one. `overflow` is the overflow flag of the memory's administration entry, which
`priMemOverflow` equals once `Dem_Init` has ended.

`Store` is `storeEventMem` with its search for a place: the event's own entry,
a free one, the one of an event it displaces, or none and the overflow is set. It
is part of every action whose handler calls it. Three functions loop over all
events: the end of a cycle (`operationCycleEnd`, then `handleAging`), `Dem_Init` (the
merge of the stored entries, the transfer of the changed ones, the store of
what was reported before), and `Dem_ClearDTC`. A loop is one action per event
(`CycleEndOfEvent`, `AgingOfEvent`, `MergeEvent`, ...), with `job` or `clearing` as
its place. The first runs in the exclusive area, so that nothing but a reset comes
between two events; `Dem_ClearDTC` leaves the area after every event, so that
reports and the ends of cycles come between; the exclusive area of `Dem_Init` is commented
out, so that the model can let reports in there (`PreInitReports`).

A reset (`Dem_PreInit`) may come at any step. `mem` survives it. What the NvM gives
back may be older than the RAM was; that is a behaviour in which the reset
came earlier. The NvM's own way of losing or keeping a change is `DemNvM`.

`Dem_ClearDTC` either clears an event, is refused for it by
`CallbackClearEventAllowed`, or passes over it as it was not asked for. Reports are
qualified ones (the debouncing is a separate component).

## The runs

| Run | Checks | Shows |
|---|---|---|
| `one_protocol` | `TypeOK`, `BufferHeldIffInUse`, `RequestLocked`, `ConfirmationNotMixed`, `LocalResponseSent`, `RequestImplemented`, `EveryRequestEnds` | One UDS row with a physical and a functional PDU, parallel reception, two pending services, application resets, refused starts, stops and transmissions (107 thousand states). |
| `preemption` | `DsdServesOneRow`, `ActiveIsStarted`, `PreemptingRowTracked`, `EveryPreemptionEnds` | Two rows of different priority in the default session, where each may preempt the other, with a pending service; a preemption waits, the tester of the preempting row is told and repeats its request (595 thousand states). |
| `sessions` | `SessionFollowsRequester` | Two rows with an extended session, the second an OBD one whose S3 timeout closes the active protocol, up to the step that dereferences a NULL `activeProtocol`: a session change lands on the row that asked for it although it is carried out through `activeProtocol` (383 thousand states). |
| `obd` | `UnlockedInSecuritySession`, `PendingChangeHasResponse` | One OBD row with warm starts, three sessions, seeds and keys. |
| `locked_after_preemption` | `RequestLocked` is violated | The end of a preemption frees buffers whose response is still being made or sent. |
| `priority_lost` | `PriorityRespected` is violated | A preemption decided while the active row is in the default session closes it after it left that session. |
| `security_at_start` | `ProtocolStartLocks` is violated | A row starts again with the security level it had. |
| `nvm` | `ChangeNotForgotten`, `ImmediateStaysImmediate`, `ImmediateIsStored`, `WriteRequestServed` | Two blocks on one handle, `NvM_SetRamBlockStatus` in use, any call refused, power cuts (63 thousand states). |
| `event_memory` | `TypeOK`, `ConfirmedStoredOrSignalled`, `StoredAgrees`, `StatusConsistent`, `PendingCoversFailure`, `FailingEntryKept` | Two events of different priority and one entry; one event is confirmed by its second failing cycle and heals after one passed cycle, the other the opposite; reports before `Dem_Init`, displacement, clears and resets (1.4 million states). |
| `confirmed_not_stored` | `ConfirmedIsStored` is violated | The same without displacement: an event confirmed before `Dem_Init` finds the memory full and stays confirmed without an entry. |
| `services` | `ServicesTypeOK` and the properties of the next table | Each service with everything that may come between its steps (757 thousand states). |
| `roe_starvation` | `EventReported` is violated | An event whose data stay changed hides the events behind it at every poll. |

| Property of `services` | Of | Says |
|---|---|---|
| `DownloadComplete` | `DcmTransfer` | what the tester was told is written is in memory, at its place, whatever was repeated, refused or given up |
| `ScheduledIsReadable` | `DcmPeriodic` | what is scheduled may be read in the current session, and is defined |
| `EachInTurn` | `DcmPeriodic` | an identifier that is due waits at most while each of the others is sent once |
| `RefusedTakesNothing` | `DcmPeriodic` | a refused request takes nothing from the table or a definition, and leaves at most new periods of what it names, and sources the tester may read in one definition or free slot |
| `HeldIsListed` | `DcmIoControl` | a signal a tester holds is in the list that brings it back, in a session for it |
| `OthersKeepControl` | `DcmIoControl` | a request returns only signals of its own identifier that it touched, however it ends |
| `EffectsOfAnswer` | `DcmConfirm` | what waits for a confirmation waits for that of its own response; no channel stays silent, no DTC setting off, in a session without the service |
| `JumpIsPrepared` | `DcmConfirm` | the ECU jumps only with the conditions of the request in service stored |
| `LockoutHolds` | `DcmSecurity` | among as many wrong keys of a level as its limit there is one that starts the delay, and no seed of it waits for a key while that runs |
| `ReadGoesOn` | `DcmReadDid` | a response read in several steps has each signal once and in its place |
| `PendingIsServed` | `DcmPending` | a late result answers the request it belongs to, or none; only the write of memory that is done at once answers twice |
| `StoredIsMarked` | `DcmRoe` | the ROE block differs from NvM only while it is marked, or waits to be, but for events the list had no place for at start |
| `WhatStaysIsListed` | `DcmReadDtc` | a list has every DTC that matched all the while, once, in order |
| `FdcTellsVerdict` | `DemDebounce` | the fault detection counter is at an end exactly with the counter, and with that result |
| `NotBeforeTheThreshold` | `DemDebounce` | a timer gives a result only after its time in one direction |

Bounds. Timers are counted down from 1 or 2 main cycles: every comparison in the
code is with 0, so that 2 has all the cases "not yet", "now" and "stopped"; a
longer one only repeats "not yet". The preemption timer has 2 in `preemption`, so that a preemption
waits for at least one visit of `DslMain`, and the request that waits can be answered and repeated. Two PDUs give a row a second reception while
the first is served; two rows give every preemption between two protocols (a
third one, see the hazards, is not covered). Two blocks on one handle are the least that
can wait for each other. Counters that nothing reads until they are set again
are cleared when they lose their meaning (see the comments in `DcmDsl`). Two events
and one entry let each event find the memory full and displace or be displaced;
with one entry there is never a choice among several that might be given up, so
the order of the time stamps decides nothing in these runs. Counters go to 2, the largest
threshold, so that saturation and both sides of a threshold occur. The second
event ages in a cycle that starts and ends on its own.

In `services`: a block counter modulo 3 wraps in a transfer of four blocks (`MaxUnits` 5). The table of
periodic identifiers has three places on one connection; two lists of three name five
identifiers between them, so that one may overflow the table, with entries of its own to take back and old
ones it has renewed. Four dynamic identifiers compete for two slots with three sources each: definitions are refused for
want of a slot and of room in one, and the lists `<<P1, X1>>` and `<<A0, A1>>` in their middle, for a source
that may not be read. Three
requests or session changes of a tester (`PeriodicBudget`) schedule, define, and withdraw, or
define twice and meet what a refused one left. Reads have signals of every kind, references and unknown
identifiers in between. Addresses are modulo 8; the ranges 2..3 and 2..2 overlap, with different levels, and
7..7 ends with the address space, so that two bytes from 7 pass it. Two levels have a delay of 2 and 1 after
two and three wrong keys, and the first one also at start. Of the two DTCs one is of one event and the other
combines two, with lists that fit and do not. The ROE list has two places for three identifiers, one of them
preconfigured, so that a stored one may find it full at start, and its buffer for reference data two
(`MaxAllocated`). The default session,
one extended session, the one of the bootloader and the one of the application are those
`DspSessionForBoot` tells apart.

Where a property is checked under a restriction, it fails without it, and no
text of the repository promises it: `LocalResponseSent` without refused local
transmissions (`sendResponseWithStatus` leaves the buffer signalled),
`PendingChangeHasResponse` without refused transmissions (no confirmation comes and
the change waits for a later one), `UnlockedInSecuritySession` without
`Dcm_ResetToDefaultSession` and, for a UDS row, without parallel reception (a key comparison
that is pending when the reset comes, or when the session timer that a parallel
TesterPresent has restarted runs out, unlocks the default session), `EveryRequestEnds` unless a service
forces responsePending for ever (nothing in the code bounds it);
`EffectsOfAnswer` without refused transmissions (`TransmitRefusals`), for the same reason as
`PendingChangeHasResponse`; `PendingIsServed` without a takeover at the end of the
preemption timeout (`LastsOverTakeover`), where `DslMain` cancels nothing and the pending service goes
on for the next request.

`LockoutHolds` counts less than all wrong keys: not those of a level without a delay time, which is never
locked out, and not those before which a seed of another level was asked for. The code charges the latter to
the row of that other level, and compares with the limit of the level that was tried. No
text of the repository says how the rows share their attempts.

What the models leave as it is, since nothing says otherwise: reaching another level does not end
periodic identifiers, taken signals or silent channels that were for the old one (only a session change
does); a refused RequestUpload has overwritten the number of bytes left; a
RequestUpload of fewer than five bytes is never answered; clearing the ROE list gives back the events,
not their reference data.

`ConfirmedStoredOrSignalled` is checked with reports before `Dem_Init`, not while it
runs. It also depends on the record-update lock being free: `Dem_ClearDTC` passes over
an event whose record the DCM has disabled and resets the overflow nevertheless.
`PendingCoversFailure` is about events that age in their operation cycle: aging in
another one clears the pending bit of an event that failed in this operation
cycle. `StoredAgrees` leaves the aging counter out, which `OnFailed` may clear
without a store.

Fairness. `MainFunction` is weakly fair: it is called periodically. The transport
layer ends every transmission and reception it began, as its own timeouts
make it. `EveryPreemptionEnds` holds under the fairness of the main function alone (`CyclicSpec`):
its timer ends it, whatever the transport layer does. No fairness is asked of testers, applications or services. In `DemNvM` the
main function, the setter of a task that has begun, and the NvM are weakly fair, and each
block's step that a refusal would undo is strongly fair: an NvM refuses while its queue is
full, and not the same block for ever. The poll of `MCDcmRoe` is weakly fair, so that the
starvation it shows is not due to a poll that is never called. `services` asks for no fairness: `EachInTurn` is a bound on `passed`.

## The proofs

`DcmDslProofs` assumes `ConfigAssumption` only: any number of rows, PDUs, sessions,
any timing, any refusals.

- `TypeCorrect`, `BufferHeld`: the inductive invariant is `TypeOK` and
  `BufferHeldIffInUse`, joined row by row (`GoodRow`), with `RequestKnown`: while
  the DSD or a pending service has a request to answer, its PDU is a configured
  one. Without it the row that an answer goes to would not be known to exist. The
  lemmas say what each helper does to a row and to all rows, then
  there is one lemma per action.
- `OneProtocolAtATime`: `ActiveIsStarted` under
  `NoWarmStart` and `OneObdProtocol`, inductive on top of that invariant. Both are
  needed: a warm start starts a row without stopping another one, and `DslMain`
  clears `activeProtocol` when the session of any OBD row times out. The work is in
  showing which helpers leave every row's `protocolStarted` alone (`SameStarted`).
- `RequesterStaysActive`: the one request the DSD holds is the active protocol's, from its indication to
  its answer (`RequesterIsActive`), under the same two hypotheses. It is the invariant the
  next three go on from.
- `SessionsAreAskedFor` (`SessionFollowsRequester`): `DslSetSesCtrlType` writes to whatever protocol is active
  when it is called; with the invariant above that is the one whose tester asked.
- `OneRowIsServed` (`DsdServesOneRow`), without OBD rows (`NoObdProtocol`): `ServesActive` says that a row whose
  request is being served is the active one. With an OBD row it fails: the end of its S3 time closes it
  while its service still runs, and the next row's request overwrites `msgData`.
- `PreemptionIsTracked` (`PreemptingRowTracked`), for two rows (`TwoProtocols`): `PreemptsActive` adds that the row
  that waits to preempt is the only one, and not the active one. With three rows two may
  wait at once, and the first to end takes down the flags of both (`Dcm_Dsl.c:951`).
- `RequestStaysLocked`, `ConfirmationsReachTheirBuffer`, `LocalResponsesGoOut`,
  `ChangesHaveResponses` and `RequestRefined` (`DcmDslRequestProofs`): `RequestLocked`,
  `ConfirmationNotMixed`, `LocalResponseSent`, `PendingChangeHasResponse` and the refinement of `DcmRequest`, for one row (`OneProtocol`; with two
  `locked_after_preemption` refutes the first) and any timing, services, sessions and
  warm starts, refused starts and transmissions included (refused local ones excepted for
  `LocalResponseSent`, refused responses for `PendingChangeHasResponse`). They rest on one invariant, `LockInv`: a response buffer in
  use has the request with the DSD (`Locked`), a service that is pending has the
  buffers (`InService`), and a request the DSD has not seen is not rejected
  before the next `DsdMain` (`SeenInTime`). The last one needs P2 to outlast one main
  function or a responsePending to prolong it (`P2Lasts`): without both, TLC finds that
  `DslMain` rejects the request, gives the buffers back, and `DsdMain` then answers it.
  Each action is shown to keep the invariant and to be a step of `DcmRequest` at once (`Kept`).
- `UnlockedWhereServed` (`DcmDslRequestProofs`): `UnlockedInSecuritySession` for one row, warm start and OBD
  included, on top of that invariant. `KeyInv` adds that while a key is being compared, and once the row is
  unlocked, the row is in a session that serves SecurityAccess, and that S3 does not run out during the comparison.
  So nothing may restart or end the session meanwhile: no request in parallel
  (`NoParallelRequests`), no `Dcm_ResetToDefaultSession` (`NoApplicationReset`), an S3 time (`S3Lasts`), and a
  default session that serves no SecurityAccess (`DefaultIsLocked`). TLC finds the property
  violated without either of the first two.

`DemNvMProofs` proves `ChangeNotForgotten` and `ImmediateStaysImmediate`
(`NothingForgotten`, `NothingDowngraded`) for any number of blocks and any
sharing of handles. They are about the RAM of a handle and need to know where the flags
of its blocks are in flight: `AskedInWindow` (between the statement that starts a job and
the one that clears the flag the job is still queued), `CopiedIsFlagged` (a
change after the copy has its flag or its task on the way).

`DemEventProofs` assumes `EventsAssumption` only: any number of events, entries and
cycles, any thresholds, with and without displacement.

- `TypeInvariant`: `TypeOK`, with the bound on the number of entries, which is what
  `StoreEffect` says of a store: one more only where there is room, and one for
  one in a displacement.
- `ConfirmedSafe` (`ConfirmedStoredOrSignalled`, if nothing is reported while
  `Dem_Init` runs) and `ConfirmedStored` (`ConfirmedIsStored`, if nothing is reported before
  `Dem_Init` has ended). The invariant alone is not inductive. An event may be confirmed
  and without an entry before `Dem_Init` while no overflow is set, and it must be
  known that the store loop is still to come to it and will take it; a `Dem_ClearDTC` of all
  events takes the overflow down in the end, and it must be known that no event it has
  gone over is lost again. `LostAccounted` says both, with `LoopsInPhase` (which
  loop runs in which state). TLC confirms the strengthened invariant on the instance of
  `event_memory`. The lemmas `NoneLostByReport`, `NoneLostAtCycleEnd` and
  `NoneLostByAging` show that after `Dem_Init` no event becomes lost that was not, so
  that the gap in `MergeBuffer` that `confirmed_not_stored` shows is the only one.

Its second half, on the status bits, goes on from that invariant, for the same constants.

- `BitsFit` (`StatusConsistent`) and `PendingCovers` (`PendingCoversFailure`) follow from `StatusInv`. An event's
  own bits fit each other (`Fits`), but a merge with its entry keeps that only if the entry, which is of
  an earlier run of the ECU, is sound too (`Sound`). The bits must agree with the flags of the cycles
  that run (`FlagsTell`, `Running`), or an event that is healed at the end of its aging cycle
  could still be failing; and it must be known which events `Dem_Init` has merged (`IsMerged`), as before that a
  stored event may look untested. The lemmas say what each way in which a status may change (`Change`) does to these.
- `FailingKept` (`FailingEntryKept`): aging removes only an event that is not failing, `Dem_Init` removes
  nothing, and a displaced event is less important.
- `EntriesAgree` (`StoredAgrees`), where the test-failed bit is not stored and nothing is reported
  while `Dem_Init` runs. Both are needed: `Dem_ResetEventStatus` takes the bit without a store, and a
  report during the merge meets a status that is half merged. An entry agrees with its event once the event
  is `Settled`: no loop of `Dem_Init` has it still to merge or to write.

`DcmControlProofs` is about three services that take something and must give it back.

- `NoKeyInLockout` (`LockoutHolds`), for any levels, limits, delays and pending callouts. The inductive
  invariant adds that a level for which a callout still makes a seed is not delayed (the seed would come with
  the delay running), and that the wrong keys counted in `guesses` are among the attempts of their own row.
- `HeldComesBack` and `OthersAreKept` (`HeldIsListed`, `OthersKeepControl`), for any identifiers, signals and
  sessions. `ControlInv` adds what the pending request has done so far: what it has touched is of
  its own identifier, and what is listed may be held in the present session.
- `EffectsBelong` and `JumpsArePrepared` (`EffectsOfAnswer`, `JumpIsPrepared`), where no transmission is refused
  (`NoRefusal`). `ConfirmInv` ties the data that waits for the confirmation (`stored`, the session, the
  channels) to the request whose response is under way. `EffectsBelong` also needs that no reset to the
  default session falls between a response and its confirmation, and that DTC setting is not served
  in the default session (`Undisturbed`): CommunicationControl would otherwise silence channels in a session
  that cannot open them again.

- `SecurityWellTyped` and `ControlWellTyped` (`SecurityTypeOK`, `ControlTypeOK`): the first from `SecurityInv` and
  the type of the callouts at work, the second from `ControlInv`.

`DcmDataProofs` is about four services that go on over several calls.

- `StayingDtcsAreListed` (`WhatStaysIsListed`), for any DTCs, events, masks and rooms. `ReadDtcInv` says how far
  the list has come in terms of the filter's index: everything before the index that stayed is listed,
  in order, nothing after it is.
- `PendingAnswersItsOwn` (`PendingIsServed`), where a service ends before another row takes over
  (`EndsBeforeTakeover`), the repeated answer of an immediate write of memory excepted. `PendingInv` says which
  service each pending state belongs to, and that nothing is pending once an answer is signalled.
- `DownloadIsComplete` (`DownloadComplete`), for any modulus of the block counter, sizes and blocks. `TransferInv`
  says that the server is in step with the tester (`InStep`), or one written block ahead of it (`OneAhead`), when the
  response was lost and the tester repeats the block.
- `RequestGoesOn` (`ReadGoesOn`), for any identifiers, references and signals. `ReadInv` says that a
  request waits at a place of its own, has read what comes before it and nothing else, and has left no
  callout at work but the one it waits for. The property is about identifiers that can be read in every
  session and level, and so is what is visited with them through references (`AlwaysReadable`).
- `ReadDtcWellTyped` (`ReadDtcTypeOK`).

`DcmListProofs` is about the two services that work on a list of a tester's.

- `RefusalTakesNothing` (`RefusedTakesNothing`), for lists of any length. What `Stepwise` computes is shown by
  induction over its steps without an induction theorem: of the steps at which a
  formula fails there would be a least one (`LeastOf`, `UpTo`), and it is neither the first nor follows one
  at which the formula holds. `RemovesAll` and `AddsUntilFull` say in this way what a list does to the set of entries (`Keys`):
  it loses what is named for removal, or gains what is named for addition before the table is full. `Renews` follows
  a list of additions entry by entry: the old ones stay at their places, renewed if they are named; taking
  back what was added removes from the end, so that they stay (`Stays`, `Spared`). For
  the definitions, `Packed` says that their slots leave no gap and name no identifier twice.
- `ScheduledStaysReadable` (`ScheduledIsReadable`): `Readable` speaks of the set of entries, so that the
  lemmas on lists carry it, and a definition in use is neither cleared nor moved out of reach.
- `PeriodicInTurn` (`EachInTurn`), for any table. `passed <= PdidLimit - 1` is not inductive; `InTurn` says
  where the identifier is: if it has been passed over `n` times it is among the next
  `Len(pdids) - n` from the start index, which moves past the one that is sent. The work is in the arithmetic
  of the index, modulo the size of the table (`Wraps`, `WrapsFurther`).
- `PeriodicWellTyped` (`PeriodicTypeOK`): also that the start index stays in the table whatever is removed.
- `StoredListIsMarked` (`StoredIsMarked`), for any preconfiguration and room. The property is inductive once
  the records have their types (`RoeInv`). A start is the hard step: what is added from the store up to the
  room is a subsequence of distinct identifiers, so the list is full or has all of them.

`DemDebounceProofs` proves `FdcTellsResult` (`FdcTellsVerdict`) from `DebounceAssumption`: any thresholds and steps,
and at most one jump value each way. The arithmetic is in the lemmas `ScaledEnds` (the truncating division
reaches an end of the byte's range only from the threshold) and `CountedWithin` (no step, jump or saturation
leaves the thresholds). `TimerWaits` (`NotBeforeTheThreshold`) rests on `TimerInv`: a running timer has counted no
more calls than the reports have pointed its way, or is over its threshold and has given its result.
`FdcFitsItsByte` (`DebounceTypeOK`) says that no scaling leaves the sint8 (`QuotientWithin`): a counter is between
its thresholds, and a timer has not passed the one that ends it.

Model-checked only:

- what holds in time under fairness, which is out of the prover's reach: `EveryRequestEnds`, `EveryPreemptionEnds`,
  `WriteRequestServed`, `ImmediateIsStored`;
- `ServicesTypeOK` as a whole. Its conjuncts for `DcmPeriodic`, `DcmIoControl`, `DcmSecurity`, `DcmReadDtc` and
  `DemDebounce` are theorems; those for `DcmTransfer`, `DcmConfirm`, `DcmPending` and `DcmRoe` state bounds the
  models put on their counters or what a single guard says, and what the proofs need of these types is a part of each invariant above.

Every safety invariant and action property of the passing runs is otherwise the subject of a theorem, some under
the hypotheses given here.

## Not modelled

Type 2 transmission of periodic identifiers, ComM and the split-task option in the session layer; external
service tables; the bytes of every message; what the services compute; ReadScalingData, the OBD services
but 03 and 07, ClearDiagnosticInformation's way through the DCM; the freeze frames and the extended data that
ReadDTCInformation gives out, and the lists of it the code does not support. Of the DEM: freeze frames,
extended data, indicators, the secondary and the permanent memory, combined events (but for the status that
`DcmReadDtc` reads), OBD displacement, IUMPR and the record-update lock. They are data of an event's
entry rather than control of their own, and are compiled only where the configuration switches them on. The
abstraction layers and the simulator hold no diagnostic logic.

Two things the models stop short of are known to go wrong, and no text of the repository says they should not:
a list of DTCs may outgrow the room that was counted for it, since the DEM's exclusive area
is left between the count and the list (`Dcm_Dsp.c:1778-1789`), and the list of freeze frames of subfunction 0x03
counts first in the same way.

`DcmDsl` and the service modules are not composed: their product is out of TLC's reach. `DcmLevels` is
what they agree on, and `DcmDsl`'s own abstract services (`DspType`) are the same requests seen from the
other side.

## What is left

1. Proofs: `ConfirmationNotMixed` and the others of `DcmDslRequestProofs` for more than one row, under what
   preemption leaves of them; the type invariants of the four services named above.
2. `DemEvent`: the record-update lock, three events for two entries so that the oldest is a choice, freeze
   frames and their own displacement.
3. Freeze frames and extended data in `DcmReadDtc`; the composition of `DemEvent` with `DemNvM`'s setters.
