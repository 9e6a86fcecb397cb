---------------------------- MODULE DcmIoControl ----------------------------
(***************************************************************************)
(* InputOutputControlByIdentifier (0x2F) of Dcm_Dsp.c: a tester takes      *)
(* signals of an identifier out of the hands of the ECU, one callout after *)
(* the other, any of which may answer later or refuse; a session change or *)
(* a preemption returns what IOControlStateList says is taken.             *)
(*                                                                         *)
(* Resetting, freezing and adjusting a signal are one action, "take".  A   *)
(* callout that returns control is taken to do so at once: the code does   *)
(* not look at its answer.                                                 *)
(***************************************************************************)
EXTENDS DcmLevels, FiniteSets

CONSTANTS
  ControlRow,      \* DspDidControl of each identifier with IO control
  SignalCount,     \* DspNofSignals of each of them
  ControlService,  \* the row of service 0x2F itself
  IoSlots,         \* DCM_NOF_IOCONTROL_DIDS
  ControlResets    \* the application may reset the session

ControlDids == DOMAIN ControlRow
Unlisted == "unlisted"      \* a slot never used
UnknownDid == "unknown"     \* what a request names that is not configured

ASSUME ControlAssumption ==
  /\ SignalCount \in [ControlDids -> Nat \ {0}]
  /\ IsFiniteSet(ControlDids) /\ IoSlots \in Nat /\ IoSlots >= Cardinality(ControlDids)
  /\ ControlDids \cap {Unlisted, UnknownDid} = {}

VARIABLES
  io,        \* IOControlData
  ioList,    \* IOControlStateList
  ioRequest, \* the request that is with the service
  held,      \* the signals the application has given away
  ioCallout  \* the callout that works on, with the signal it is for

controlVars == <<io, ioList, ioRequest, held, ioCallout>>

Signals(d) == IF d \in ControlDids THEN 1 .. SignalCount[d] ELSE {}
AllSignals == UNION {{d} \X Signals(d) : d \in ControlDids}
NoIoRequest == [did |-> Unlisted, action |-> "none", mask |-> {}]
NoCallout == [did |-> Unlisted, signal |-> 0, kind |-> "none"]

NewControl == [pending |-> FALSE, signal |-> 1, control |-> TRUE, affected |-> {}]

ControlInit ==
  /\ io = NewControl
  /\ ioList = [i \in 1 .. IoSlots |-> [did |-> Unlisted, signals |-> {}]]
  /\ ioRequest = NoIoRequest /\ held = {} /\ ioCallout = NoCallout

-----------------------------------------------------------------------------
(* A slot is in use (controlActive) if it has a signal.  DspIOControlSetActive *)
(* takes the slot of the identifier, or an unused one to take control.     *)
SlotsOf(list, d) == {i \in 1 .. IoSlots : list[i].did = d}
Unused(list) == {i \in 1 .. IoSlots : list[i].signals = {}}
FirstOf(S) == CHOOSE i \in S : \A j \in S : i <= j
SlotFor(list, d, active) ==
  IF SlotsOf(list, d) # {} THEN {FirstOf(SlotsOf(list, d))}
  ELSE IF active /\ Unused(list) # {} THEN {FirstOf(Unused(list))} ELSE {}
OverwritesSlot(list, d, signals, active) ==   \* variation: earlier signals are forgotten
  [i \in 1 .. IoSlots |->
     IF i \notin SlotFor(list, d, active) THEN list[i]
     ELSE [did |-> d, signals |-> IF active THEN signals ELSE list[i].signals \ signals]]
DspIOControlSetActive(list, d, signals, active) ==
  [i \in 1 .. IoSlots |->
     IF i \notin SlotFor(list, d, active) THEN list[i]
     ELSE [did |-> d, signals |-> IF active THEN list[i].signals \cup signals
                                  ELSE list[i].signals \ signals]]

(* DspIOControlStopActivated: returns what the request has taken; the list *)
(* still has it.                                                           *)
ReturnsAnyones(list, d, signals) ==           \* variation: of whatever identifier
  UNION {{list[i].did} \X (list[i].signals \cap signals) : i \in 1 .. IoSlots}
StopActivated(list, d, signals) ==
  UNION {{d} \X (list[i].signals \cap signals) : i \in SlotsOf(list, d)}

(* DspStopInputOutputControl                                               *)
Returns(slot, check, s, l) ==
  /\ slot.did \in ControlDids /\ slot.signals # {}
  /\ ~(check /\ Allows(ControlService, s, l) /\ Allows(ControlRow[slot.did], s, l))
DspStopInputOutputControl(check, s, l) ==
  LET stopped == {i \in 1 .. IoSlots : Returns(ioList[i], check, s, l)}
  IN /\ held' = held \ UNION {{ioList[i].did} \X ioList[i].signals : i \in stopped}
     /\ ioList' = [i \in 1 .. IoSlots |->
                     IF i \in stopped THEN [ioList[i] EXCEPT !.signals = {}] ELSE ioList[i]]
     /\ io' = [io EXCEPT !.pending = FALSE]

-----------------------------------------------------------------------------
(* IOControlExecute and IOControlReadData: signals one after the other     *)
(* from where it stopped; the first one that does not answer at once, or   *)
(* refuses, ends the walk.  Its outcome: how it ended, the signals done    *)
(* and the one it ended at.                                                *)
Walks(signals, from) ==
  LET todo == {i \in signals : i >= from}
      Done(i) == {j \in todo : j < i}
  IN [end : {"OK"}, done : {todo}, at : {1}]
       \cup {[end |-> e, done |-> Done(i), at |-> i] : e \in {"PENDING", "NOT_OK"}, i \in todo}

MayControl(r) ==
  r.did \in ControlDids /\ Allows(ControlRow[r.did], session, security)

(* The control part; done already if a read was pending. *)
Controls(r, c) ==
  IF ~c.control THEN {[end |-> "OK", done |-> {}, at |-> c.signal]}
  ELSE IF ~MayControl(r) THEN {[end |-> "NOT_OK", done |-> {}, at |-> c.signal]}
  ELSE Walks(r.mask, c.signal)

(* DspIOControlByDataIdentifier.  The signals taken so far are listed even *)
(* while the request is pending; pendingControl tells a pending callout    *)
(* from a pending read.                                                    *)
DspIOControlByDataIdentifier(r) ==
  LET c == IF io.pending THEN io ELSE NewControl IN
  \E walk \in Controls(r, c) :
    \E read \in IF walk.end = "OK" THEN Walks(Signals(r.did), IF c.control THEN 1 ELSE c.signal)
                ELSE {walk} :
      LET affected == c.affected \cup walk.done
          taken == IF r.action = "take" THEN held \cup {r.did} \X walk.done
                   ELSE held \ ({r.did} \X walk.done)
          list == IF r.action = "none" THEN ioList
                  ELSE DspIOControlSetActive(ioList, r.did, affected, r.action = "take")
          refused == read.end = "NOT_OK"
          kind == IF walk.end = "PENDING" THEN "control" ELSE "read"
      IN /\ io' = [pending |-> read.end = "PENDING", signal |-> read.at,
                   control |-> IF read.end = "PENDING" THEN kind = "control" ELSE c.control,
                   affected |-> affected]
         /\ ioList' = list
         /\ held' = IF refused /\ r.action = "take" /\ affected # {}
                    THEN taken \ StopActivated(list, r.did, affected) ELSE taken
         /\ ioRequest' = IF read.end = "PENDING" THEN r ELSE NoIoRequest
         /\ ioCallout' = IF read.end = "PENDING"
                         THEN [did |-> r.did, signal |-> read.at, kind |-> kind] ELSE NoCallout
         /\ UNCHANGED levels

(* Requests: the mask selects signals if there are several. *)
IoRequests ==
  (UNION {[did : {d}, action : {"take", "return"},
           mask : IF SignalCount[d] = 1 THEN {{1}} ELSE SUBSET Signals(d)] : d \in ControlDids})
    \cup [did : {UnknownDid}, action : {"take", "return"}, mask : {{}}]

IoControlRequest ==
  /\ ioRequest = NoIoRequest /\ Allows(ControlService, session, security)
  /\ \E r \in IoRequests : DspIOControlByDataIdentifier(r)

DspIOControlMainFunction == io.pending /\ DspIOControlByDataIdentifier(ioRequest)

(* DspCancelPendingRequests: what the request has taken is returned and    *)
(* the callout that works is told to stop.                                 *)
DspCancelPendingIOControl ==
  /\ ioRequest # NoIoRequest
  /\ held' = IF io.pending THEN held \ StopActivated(ioList, ioRequest.did, io.affected) ELSE held
  /\ ioCallout' = IF io.pending THEN NoCallout ELSE ioCallout
  /\ io' = [io EXCEPT !.pending = FALSE]
  /\ ioRequest' = NoIoRequest
  /\ UNCHANGED <<levels, ioList>>

(* A session change, between two requests or, by the application, any time. *)
ControlSessionChange ==
  \E s \in DspSessions :
    /\ ioRequest = NoIoRequest \/ (ControlResets /\ s = DefaultSession)
    /\ ChangesSession(s)
    /\ DspStopInputOutputControl(TRUE, s, LevelAfter)
    /\ UNCHANGED <<ioRequest, ioCallout>>

ControlUnlock ==
  /\ ioRequest = NoIoRequest
  /\ \E l \in DspLevels : DslInternal_SetSecurityLevel(l)
  /\ UNCHANGED controlVars

ControlPreempted ==
  /\ ioRequest = NoIoRequest
  /\ ProtocolTakesOver
  /\ DspStopInputOutputControl(FALSE, session', security')
  /\ UNCHANGED <<ioRequest, ioCallout>>

ControlNext ==
  \/ IoControlRequest \/ DspIOControlMainFunction \/ DspCancelPendingIOControl
  \/ ControlSessionChange \/ ControlUnlock \/ ControlPreempted

ControlSpec == LevelsInit /\ ControlInit /\ [][ControlNext]_<<levels, controlVars>>

-----------------------------------------------------------------------------
ControlTypeOK ==
  /\ LevelsTypeOK
  /\ io.pending \in BOOLEAN /\ io.signal \in Nat /\ io.control \in BOOLEAN
  /\ held \subseteq AllSignals
  /\ \A i, j \in 1 .. IoSlots :
       ioList[i].did = ioList[j].did /\ ioList[i].did # Unlisted => i = j
  /\ \A i \in 1 .. IoSlots : ioList[i].signals \subseteq Signals(ioList[i].did)

(* A signal in the hands of a tester is in the list, wherever the request  *)
(* that took it was interrupted: nothing else can bring it back.  And none *)
(* is held in a session its control is not for.                            *)
HeldIsListed ==
  \A h \in held :
    /\ \E i \in 1 .. IoSlots : ioList[i].did = h[1] /\ h[2] \in ioList[i].signals
    /\ DspCheckSessionLevel(ControlRow[h[1]], session)

(* A request that is answered, refused or given up leaves the signals of   *)
(* the other identifiers, and those of its own it has not touched, with    *)
(* the tester.                                                             *)
Touched(r, h) == h[1] = r.did /\ h[2] \in io'.affected
OthersKeepControl ==
  [][\A h \in held \ held' :
       /\ DspIOControlMainFunction \/ DspCancelPendingIOControl => Touched(ioRequest, h)
       /\ \A r \in IoRequests :
            ioRequest = NoIoRequest /\ DspIOControlByDataIdentifier(r)
              => Touched(r, h)]_<<levels, controlVars>>
=============================================================================
