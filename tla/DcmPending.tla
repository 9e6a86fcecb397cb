----------------------------- MODULE DcmPending -----------------------------
(***************************************************************************)
(* Three services of Dcm_Dsp.c that may leave a request pending:           *)
(* RoutineControl (0x31), WriteDataByIdentifier (0x2E) and reading and     *)
(* writing memory by address (0x23, 0x3D).  The DSD serves one request at  *)
(* a time; each service keeps a state of its own, which the main functions *)
(* look at whatever request is being served.                               *)
(***************************************************************************)
EXTENDS DcmLevels, Sequences

CONSTANTS
  RoutineRow,       \* DspRoutineAuthorization of each routine
  DidWriteRow,      \* DspDidWrite of each identifier
  WriteSignals,     \* the signals of each: "synch", "asynch" or an NvM block
  NvMBlocks,        \* the NvM blocks
  MemoryRanges,     \* the ranges [id, service, low, high, levels], in the order of the configuration
  UseMemoryId,      \* DcmDspUseMemoryId
  AddressModulus,   \* 2^32: addresses are uint32
  MemoryLengths,    \* lengths a tester asks for
  LastsOverTakeover \* a preemption may end before the request it preempts has

MemoryServices == {"READ", "WRITE"}
MemoryIds == {MemoryRanges[i].id : i \in DOMAIN MemoryRanges}
Routines == DOMAIN RoutineRow
WriteDids == DOMAIN DidWriteRow

ASSUME PendingAssumption ==
  /\ WriteSignals \in [WriteDids -> Seq({"synch", "asynch"} \cup NvMBlocks)]
  /\ AddressModulus \in Nat \ {0} /\ MemoryLengths \subseteq 0 .. AddressModulus - 1
  /\ \A i \in DOMAIN MemoryRanges : MemoryRanges[i].high \in 0 .. AddressModulus - 1
  /\ UseMemoryId \in BOOLEAN
  /\ LastsOverTakeover \in BOOLEAN

VARIABLES
  served,        \* the service the DSD waits for an answer of, until the answer is sent
  routine,       \* dspUdsRoutineControlPending, with the request it names
  routineWork,   \* the routine callouts at work
  didWrite,      \* dspUdsWriteDidPending, with the identifier it names
  block,         \* the NvM blocks: lock and result of the last job
  memoryState,   \* dspMemoryState
  memoryWork,    \* the area Dcm_ReadMemory or Dcm_WriteMemory works on
  misdirected,   \* a routine callout was told to go on with what it does not do
  astray         \* the answers that went elsewhere: the service, and what was served

pendingVars == <<served, routine, routineWork, didWrite, block, memoryState, memoryWork,
                 misdirected, astray>>

NoRoutine == [state |-> "IDLE", call |-> <<>>]
NoWrite == [state |-> "IDLE", did |-> "none"]
NoArea == [service |-> "UNUSED"]

PendingInit ==
  /\ served = "none" /\ routine = NoRoutine /\ routineWork = {}
  /\ didWrite = NoWrite /\ block = [b \in NvMBlocks |-> [locked |-> TRUE, status |-> "OK"]]
  /\ memoryState = "UNUSED" /\ memoryWork = NoArea
  /\ misdirected = FALSE /\ astray = {}

(* DsdDspProcessingDone answers the request that is being served, whichever *)
(* service calls it.  The response is signalled, and waits for DslMain.    *)
Signalled == "signalled"
ProcessingDone(service, for) ==
  /\ astray' = IF service = for THEN astray ELSE astray \cup {<<service, for>>}
  /\ served' = Signalled
StillServes(for) == served' = for /\ UNCHANGED astray

-----------------------------------------------------------------------------
(* RoutineControl *)
(* SetOpStatusDependingOnState: DCM_PENDING or DCM_FORCE_RCRRP_OK. *)
GoesOn(state) == state \in {"PENDING", "FORCE_RCRRP"}
RoutineStateAfter(ret) ==
  CASE ret = "PENDING" -> "PENDING" [] ret = "FORCE_RCRRP" -> "AWAITING_SEND" [] OTHER -> "IDLE"

(* startRoutine, stopRoutine and requestRoutineResults differ in the       *)
(* callout.  One that is told to go on and is not at work is misdirected.  *)
RoutineCallout(call, ret) ==
  /\ routineWork' = IF ret \in {"PENDING", "FORCE_RCRRP"} THEN routineWork \cup {call}
                    ELSE routineWork \ {call}
  /\ misdirected' = (misdirected \/ (GoesOn(routine.state) /\ call \notin routineWork))
RoutineAfter(call, state) ==
  IF state = "IDLE" THEN NoRoutine ELSE [state |-> state, call |-> call]
RoutineAllowed(call) == call[1] \in Routines /\ Allows(RoutineRow[call[1]], session, security)

DspUdsRoutineControl(call, for) ==
  \/ /\ RoutineAllowed(call)
     /\ \E ret \in {"OK", "PENDING", "FORCE_RCRRP", "NOT_OK"} :
          /\ RoutineCallout(call, ret)
          /\ routine' = RoutineAfter(call, RoutineStateAfter(ret))
          /\ IF RoutineStateAfter(ret) = "IDLE" THEN ProcessingDone("routine", for)
             ELSE StillServes(for)
  \/ /\ ~RoutineAllowed(call)
     /\ routine' = NoRoutine /\ ProcessingDone("routine", for)
     /\ UNCHANGED <<routineWork, misdirected>>

DspRoutineControlMainFunction ==
  /\ \/ /\ routine.state = "AWAITING_SEND"
        /\ routine' = [routine EXCEPT !.state = "FORCE_RCRRP"]
        /\ UNCHANGED <<routineWork, misdirected, served, astray>>
     \/ routine.state \in {"PENDING", "FORCE_RCRRP"} /\ DspUdsRoutineControl(routine.call, served)
  /\ UNCHANGED <<levels, didWrite, block, memoryState, memoryWork>>

-----------------------------------------------------------------------------
(* WriteDataByIdentifier: every call goes through the signals from the     *)
(* first one on, with the state of the request for all of them.            *)
SignalOutcomes(signal, pending) ==
  CASE signal = "synch" -> {"OK", "NOT_OK"}
    [] signal = "asynch" -> {"OK", "PENDING", "NOT_OK"}
    [] signal \in NvMBlocks /\ pending -> {block[signal].status}
    [] OTHER -> IF block[signal].status = "PENDING" THEN {"NOT_OK"} ELSE {"PENDING", "NOT_OK"}

(* The outcomes of writeDidData: where and how the walk ends. *)
WriteWalks(signals, pending) ==
  LET Passes(n) == \A i \in 1 .. n : "OK" \in SignalOutcomes(signals[i], pending)
  IN {[end |-> "OK", at |-> Len(signals) + 1] : n \in {m \in {Len(signals)} : Passes(m)}}
       \cup UNION {{[end |-> e, at |-> n] : e \in SignalOutcomes(signals[n], pending) \ {"OK"}}
                     : n \in {m \in 1 .. Len(signals) : Passes(m - 1)}}

(* writeDataToNvMBlock *)
BlockAfter(b, signals, pending, walk) ==
  LET called == \E i \in 1 .. Len(signals) : i <= walk.at /\ signals[i] = b
      asks == ~pending /\ called /\ walk.end = "PENDING"
  IN [locked |-> IF called THEN ~asks /\ ~(pending /\ block[b].status = "PENDING") ELSE block[b].locked,
      status |-> IF asks THEN "PENDING" ELSE block[b].status]

WriteAllowed(d) == d \in WriteDids /\ Allows(DidWriteRow[d], session, security)

DspUdsWriteDataByIdentifier(d, for) ==
  LET pending == didWrite.state = "PENDING"
      Concluded(end) ==
        /\ didWrite' = IF end = "PENDING" THEN [state |-> "PENDING", did |-> d] ELSE NoWrite
        /\ IF end = "PENDING" THEN StillServes(for) ELSE ProcessingDone("write", for)
  IN \/ /\ WriteAllowed(d)
        /\ \E walk \in WriteWalks(WriteSignals[d], pending) :
             /\ block' = [b \in NvMBlocks |-> BlockAfter(b, WriteSignals[d], pending, walk)]
             /\ Concluded(walk.end)
     \/ ~WriteAllowed(d) /\ Concluded("NOT_OK") /\ UNCHANGED block

DspWriteDidMainFunction ==
  /\ didWrite.state = "PENDING" /\ DspUdsWriteDataByIdentifier(didWrite.did, served)
  /\ UNCHANGED <<levels, routine, routineWork, memoryState, memoryWork, misdirected>>

NvMJobEnds ==
  /\ \E b \in NvMBlocks, result \in {"OK", "FAILED"} :
       block[b].status = "PENDING" /\ block' = [block EXCEPT ![b].status = result]
  /\ UNCHANGED <<levels, served, routine, routineWork, didWrite, memoryState, memoryWork,
                 misdirected, astray>>

-----------------------------------------------------------------------------
(* Reading and writing memory *)
LastAddress(addr, length) == (addr + length + AddressModulus - 1) % AddressModulus
findRange(range, addr, length) ==
  addr >= range.low /\ addr <= range.high /\ LastAddress(addr, length) <= range.high

(* The first range that fits decides, and its security level only.         *)
MatchingRanges(service, id, addr, length) ==
  {i \in DOMAIN MemoryRanges :
     /\ MemoryRanges[i].service = service /\ (UseMemoryId => MemoryRanges[i].id = id)
     /\ findRange(MemoryRanges[i], addr, length)}
checkAddressRange(service, id, addr, length) ==
  LET found == MatchingRanges(service, id, addr, length)
  IN \E i \in found : /\ \A j \in found : i <= j
                      /\ DspCheckSecurityLevel(MemoryRanges[i], security)

(* The callout may answer at once; a main function asks for the rest.      *)
MemoryPends(service) ==
  /\ \E id \in MemoryIds, addr \in 0 .. AddressModulus - 1, length \in MemoryLengths :
       /\ checkAddressRange(service, id, addr, length)
       /\ memoryWork' = [service |-> service, from |-> addr, length |-> length]
  /\ memoryState' = service /\ StillServes("memory")

(* A write that is done at once is answered in the loop over the bytes of   *)
(* its address and its size: once for each, and there are two at least.    *)
RepeatedAnswers == astray' = astray \cup {<<"memory", Signalled>>} /\ served' = Signalled

DspUdsReadMemoryByAddress ==
  \/ MemoryPends("READ")
  \/ ProcessingDone("memory", "memory") /\ UNCHANGED <<memoryState, memoryWork>>
DspUdsWriteMemoryByAddress ==
  \/ MemoryPends("WRITE")
  \/ /\ ProcessingDone("memory", "memory")                        \* refused or failed
     /\ UNCHANGED <<memoryState, memoryWork>>
  \/ /\ \E id \in MemoryIds, addr \in 0 .. AddressModulus - 1, length \in MemoryLengths :
          checkAddressRange("WRITE", id, addr, length)
     /\ RepeatedAnswers /\ UNCHANGED <<memoryState, memoryWork>>

DspMemoryMainFunction ==
  /\ memoryState # "UNUSED"
  /\ memoryState' = "UNUSED" /\ memoryWork' = NoArea /\ ProcessingDone("memory", served)
  /\ UNCHANGED <<levels, routine, routineWork, didWrite, block, misdirected>>

-----------------------------------------------------------------------------
UnknownRoutine == "unknown routine"
RoutineCalls == (Routines \cup {UnknownRoutine}) \X {"start", "stop", "results"}

RoutineRequested ==
  /\ served = "none" /\ \E call \in RoutineCalls : DspUdsRoutineControl(call, "routine")
  /\ UNCHANGED <<levels, didWrite, block, memoryState, memoryWork>>
WriteRequested ==
  /\ served = "none" /\ \E d \in WriteDids : DspUdsWriteDataByIdentifier(d, "write")
  /\ UNCHANGED <<levels, routine, routineWork, memoryState, memoryWork, misdirected>>
MemoryRequested ==
  /\ served = "none" /\ (DspUdsReadMemoryByAddress \/ DspUdsWriteMemoryByAddress)
  /\ UNCHANGED <<levels, routine, routineWork, didWrite, block, misdirected>>

(* DslMain sends the response; the next request can come.                  *)
ResponseTaken ==
  /\ served = Signalled /\ served' = "none"
  /\ UNCHANGED <<levels, routine, routineWork, didWrite, block, memoryState, memoryWork,
                 misdirected, astray>>

(* DspCancelPendingRequests, when the DSL gives the request up.  Only a    *)
(* routine is told: the memory callout and NvM work on, and the block      *)
(* stays unlocked.  A forced pending response has just restarted the timer. *)
CancelsNothing == {}                          \* variation: the routine is not told
CancelledRoutine == {routine.call}
PendingCancelled ==
  /\ served \notin {"none", Signalled} /\ routine.state # "AWAITING_SEND"
  /\ routineWork' = IF routine.state = "IDLE" THEN routineWork ELSE routineWork \ CancelledRoutine
  /\ routine' = NoRoutine
  /\ didWrite' = NoWrite
  /\ memoryState' = "UNUSED" /\ served' = "none"
  /\ UNCHANGED <<levels, block, memoryWork, misdirected, astray>>

(* The session changes: on a request, or reset by the application.  The    *)
(* main functions go on with the levels they find.                         *)
PendingSessionChange ==
  /\ \E s \in (IF served = "none" THEN DspSessions ELSE {DefaultSession}) : ChangesSession(s)
  /\ memoryState' = IF InitializesDsp THEN "UNUSED" ELSE memoryState
  /\ UNCHANGED <<served, routine, routineWork, didWrite, block, memoryWork, misdirected, astray>>
PendingUnlock ==
  /\ served = "none" /\ \E l \in DspLevels : DslInternal_SetSecurityLevel(l)
  /\ UNCHANGED pendingVars

(* Another protocol takes over, between two requests or when the preempted *)
(* one is out of time: DcmDspResetDiagnosticActivity and DspInit leave the *)
(* routine and the write as they are.                                      *)
PendingTakenOver ==
  /\ served \in {"none", Signalled} \/ LastsOverTakeover
  /\ ProtocolTakesOver
  /\ served' = "none" /\ memoryState' = "UNUSED"
  /\ UNCHANGED <<routine, routineWork, didWrite, block, memoryWork, misdirected, astray>>

PendingNext ==
  \/ RoutineRequested \/ WriteRequested \/ MemoryRequested \/ ResponseTaken
  \/ DspRoutineControlMainFunction \/ DspWriteDidMainFunction \/ DspMemoryMainFunction
  \/ NvMJobEnds \/ PendingCancelled
  \/ PendingSessionChange \/ PendingUnlock \/ PendingTakenOver

PendingSpec == LevelsInit /\ PendingInit /\ [][PendingNext]_<<levels, pendingVars>>

-----------------------------------------------------------------------------
PendingTypeOK ==
  /\ LevelsTypeOK /\ served \in {"none", "routine", "write", "memory", Signalled}
  /\ routine.state \in {"IDLE", "PENDING", "AWAITING_SEND", "FORCE_RCRRP"}
  /\ routineWork \subseteq Routines \X {"start", "stop", "results"}
  /\ didWrite \in [state : {"IDLE", "PENDING"}, did : WriteDids \cup {"none"}]
  /\ block \in [NvMBlocks -> [locked : BOOLEAN, status : {"OK", "PENDING", "FAILED"}]]
  /\ memoryState \in MemoryServices \cup {"UNUSED"}
  /\ memoryWork # NoArea =>       \* in a configured range, but for an end that wraps
       \E i \in DOMAIN MemoryRanges :
         /\ MemoryRanges[i].service = memoryWork.service
         /\ memoryWork.from \in MemoryRanges[i].low .. MemoryRanges[i].high
         /\ \/ memoryWork.from + memoryWork.length <= MemoryRanges[i].high + 1
            \/ memoryWork.from + memoryWork.length > AddressModulus

(* An answer is that of the service whose request is served, and while it  *)
(* waits to be sent nothing is pending that could answer again.  The code  *)
(* has one exception: a write of memory that is done at once is answered    *)
(* again, in the same call, for every further byte of its address and its   *)
(* size.  A routine callout is told to go on only with what it left         *)
(* pending itself, and one that works is that of the request in service,   *)
(* unless the session or the level no longer lets it go on.                *)
PendingIsServed ==
  /\ astray \subseteq {<<"memory", Signalled>>} /\ ~misdirected
  /\ served = Signalled =>
       routine.state = "IDLE" /\ didWrite.state = "IDLE" /\ memoryState = "UNUSED"
  /\ \A call \in routineWork :
       \/ served = "routine" /\ routine.call = call /\ routine.state # "IDLE"
       \/ RoutineRow[call[1]] # Everywhere
=============================================================================
