------------------------------- MODULE DcmDsl -------------------------------
(***************************************************************************)
(* The diagnostic session layer of the DCM (core/dcm/src/Dcm_Dsl.c) with   *)
(* the parts of the service dispatcher (Dcm_Dsd.c) and of the service      *)
(* processor (Dcm_Dsp.c) it hands requests to and takes responses from.    *)
(*                                                                         *)
(* Two kinds of processes share this state: the periodic Dcm_MainFunction  *)
(* (one thread, DsdMain; DspMain; DslMain row by row) and the callbacks of *)
(* the transport layer, which may run between any two of its steps:        *)
(* Dcm_StartOfReception, Dcm_TpRxIndication, Dcm_CopyTxData and            *)
(* Dcm_TpTxConfirmation.  The application may call                         *)
(* Dcm_ResetToDefaultSession at any time too.                              *)
(*                                                                         *)
(* Abstracted: bytes and lengths of messages, ComM, type-2 (periodic)      *)
(* transmission, external services, the build options for split tasks and  *)
(* for the jump to the bootloader.                                         *)
(***************************************************************************)
EXTENDS Naturals

CONSTANTS
  NProtocols,        \* rows of DslProtocolRowList
  RxPdus,            \* receive PDU ids
  ProtocolOf,        \* RxPdus -> rows: the row a receive PDU belongs to
  FunctionalPdus,    \* the PDUs with functional addressing
  ParallelPdus,      \* the PDUs a tester may send on while a request is served
  Priority,          \* DslProtocolPriority of each row: a lower number wins
  ObdProtocols,      \* rows whose DslProtocolID is DCM_OBD_ON_CAN
  ExtraSessions,     \* configured sessions besides the default and OBD ones
  SecuritySessions,  \* sessions in which SecurityAccess is served
  PendingServices,   \* kinds of services built in that may leave a request pending
  S3Server, P2Server, P2StarServer, PreemptTimeout,  \* in main cycles
  MaxNumRespPend,    \* DslDiagRespMaxNumRespPend
  ForceRespPend,     \* DslDiagRespForceRespPendEn
  StartupProtocols,  \* rows a warm start from the bootloader may start
  AppResets,         \* the application calls Dcm_ResetToDefaultSession
  Refusals           \* external calls that may fail

Protocols == 1 .. NProtocols
NoProtocol == 0      \* activeProtocol == NULL
NoPdu == 0           \* DCM_INVALID_PDU_ID
Sessions == {"DEFAULT", "OBD"} \cup ExtraSessions

ASSUME ConfigAssumption ==
  /\ NProtocols \in Nat \ {0}
  /\ RxPdus \subseteq Nat \ {0}
  /\ ProtocolOf \in [RxPdus -> Protocols]
  /\ FunctionalPdus \subseteq RxPdus
  /\ ParallelPdus \subseteq RxPdus
  /\ Priority \in [Protocols -> Nat]
  /\ ObdProtocols \subseteq Protocols
  /\ ExtraSessions \cap {"DEFAULT", "OBD"} = {}
  /\ SecuritySessions \subseteq Sessions
  /\ S3Server \in Nat /\ P2Server \in Nat /\ P2StarServer \in Nat
  /\ PreemptTimeout \in Nat /\ MaxNumRespPend \in Nat
  /\ ForceRespPend \in BOOLEAN
  /\ StartupProtocols \subseteq Protocols
  /\ PendingServices \subseteq {"memory", "did"}
  /\ AppResets \in BOOLEAN
  /\ Refusals \subseteq {"start", "stop", "transmit", "transmitLocal"}

VARIABLES
  rt,          \* DslRunTimeProtocolParameters and the rx buffer of each row
  active,      \* DcmDslRunTimeData.activeProtocol
  preemption,  \* PreemptionNotProcessingDone, and BusySent while it is set
  msg,         \* Dcm_Dsd.c: dsdDslDataIndication, msgData.rxPduId, suppressPosRspMsg
  dsp,         \* Dcm_Dsp.c: the pending service, the pending session change, the seed
  main,        \* where Dcm_MainFunction is: [phase, row]
  tpRx,        \* transport layer: receive PDUs with a reception going on
  tpTx         \* transport layer: what it is transmitting for each row

vars == <<rt, active, preemption, msg, dsp, main, tpRx, tpTx>>

RxStatus == {"NOT_IN_USE", "PROVIDED_TO_PDUR", "PROVIDED_TO_DSD"}
TxStatus == {"NOT_IN_USE", "PROVIDED_TO_DSD", "DSD_PENDING_RESPONSE_SIGNALED",
             "DCM_TRANSMIT_SIGNALED", "PROVIDED_TO_PDUR", "PREEMPT_TRANSMIT_NRC"}
LocalStatus == {"NOT_IN_USE", "DCM_TRANSMIT_SIGNALED", "PROVIDED_TO_PDUR"}
Transmitting == {"DCM_TRANSMIT_SIGNALED", "PROVIDED_TO_PDUR"}

RuntimeType ==
  [extRx : RxStatus, busy : BOOLEAN, pdu : RxPdus \cup {NoPdu},
   extTx : TxStatus, locRx : RxStatus, locPdu : RxPdus \cup {NoPdu},
   locTx : LocalStatus, session : Sessions, unlocked : BOOLEAN,
   started : BOOLEAN, s3On : BOOLEAN, s3 : Nat, p2 : Nat, pend : Nat,
   preempt : Nat]
NoRequest == [indication |-> FALSE, pdu |-> NoPdu, suppress |-> FALSE]
MsgType == [indication : BOOLEAN, pdu : RxPdus \cup {NoPdu}, suppress : BOOLEAN]
SessionChange == [by : Protocols, to : Sessions]
NoChange == [by |-> NoProtocol, to |-> "DEFAULT"]
DspType == [work : {"none", "memory", "did", "key"},
            change : SessionChange \cup {NoChange}, seed : BOOLEAN]
MainType == [phase : {"first", "dsd", "dsp", "s3", "tx", "crashed"}, row : Protocols]

TypeOK ==
  /\ rt \in [Protocols -> RuntimeType]
  /\ active \in Protocols \cup {NoProtocol}
  /\ preemption \in {"none", "waiting", "told"}
  /\ msg \in MsgType
  /\ dsp \in DspType
  /\ main \in MainType
  /\ tpRx \subseteq RxPdus
  /\ tpTx \in [Protocols -> {"idle", "ext", "local"}]

InitialRuntime ==
  [extRx |-> "NOT_IN_USE", busy |-> FALSE, pdu |-> NoPdu, extTx |-> "NOT_IN_USE",
   locRx |-> "NOT_IN_USE", locPdu |-> NoPdu, locTx |-> "NOT_IN_USE",
   session |-> "DEFAULT", unlocked |-> FALSE, started |-> FALSE, s3On |-> FALSE,
   s3 |-> 0, p2 |-> 0, pend |-> 0, preempt |-> 0]

Init ==
  /\ rt = [p \in Protocols |-> InitialRuntime]
  /\ active = NoProtocol
  /\ preemption = "none"
  /\ msg = NoRequest
  /\ dsp = [work |-> "none", change |-> NoChange, seed |-> FALSE]
  /\ main = [phase |-> "first", row |-> 1]
  /\ tpRx = {}
  /\ tpTx = [p \in Protocols |-> "idle"]

-----------------------------------------------------------------------------
(* The helpers of Dcm_Dsl.c, as functions of a row's runtime r or of all rows. *)
(* A counter or flag that nothing reads before it is set again is cleared:     *)
(* p2 and pend count while the row is PROVIDED_TO_DSD, preempt while it is     *)
(* PREEMPT_TRANSMIT_NRC, pdu names the owner of a buffer in use.               *)

NeverDecremented(n) == n   \* variation: the timer does not count
Decremented(n) == IF n > 0 THEN n - 1 ELSE 0

StartS3(r) == [r EXCEPT !.s3 = S3Server, !.s3On = TRUE]

ReleaseRxKeepsFlag(r) == [r EXCEPT !.extRx = "NOT_IN_USE", !.pdu = NoPdu]  \* variation
ReleaseRx(r) == [r EXCEPT !.extRx = "NOT_IN_USE", !.busy = FALSE, !.pdu = NoPdu]

ReleaseForgetsTx(r) == [ReleaseRx(r) EXCEPT !.p2 = 0, !.pend = 0, !.preempt = 0]  \* variation
ReleaseBuffers(r) ==
  [ReleaseRx(r) EXCEPT !.extTx = "NOT_IN_USE", !.p2 = 0, !.pend = 0, !.preempt = 0]

ResponseReady(r) == [r EXCEPT !.extTx = "DSD_PENDING_RESPONSE_SIGNALED", !.p2 = 0, !.pend = 0]

(* changeDiagnosticSession: leaving a non-default session locks security,  *)
(* leaving the default one resets the service processor instead.           *)
ChangeSessionKeepsLevel(r, new) == [r EXCEPT !.session = new]  \* variation
ChangeSession(r, new) ==
  [r EXCEPT !.session = new, !.unlocked = @ /\ r.session = "DEFAULT"]

(* DspInit(FALSE): the pending memory service, session change and seed go, *)
(* the pending DID, routine and security services stay.                    *)
DspInit(d) ==
  [d EXCEPT !.work = IF @ = "memory" THEN "none" ELSE @, !.change = NoChange, !.seed = FALSE]

DspAfterChange(d, r) ==
  IF r.session = "DEFAULT" THEN DspInit(d) ELSE [d EXCEPT !.change = NoChange]

CancelsNothing(d) == d     \* variation: the service goes on
CancelPending(d) == [d EXCEPT !.work = "none"]

(* DslResetSessionTimeoutTimer: the timer of the active row, whoever called. *)
ResetSessionTimeoutTimer(rts) ==
  IF active = NoProtocol THEN rts ELSE [rts EXCEPT ![active] = StartS3(@)]

(* DslSetSesCtrlType: likewise the session of the active row. *)
SetSesCtrlType(rts, new) ==
  IF active = NoProtocol THEN rts
  ELSE [rts EXCEPT ![active] = StartS3(ChangeSession(@, new))]
SetSesCtrlTypeDsp(rts, d) ==
  IF active = NoProtocol THEN d ELSE DspAfterChange(d, rts[active])

(* sendResponseWithStatus: an NRC through the local buffer, if it is free. *)
(* A refused transmission leaves the local buffer signalled.               *)
SendLocalUnsignalled(rts, p) == [rts EXCEPT ![p].locTx = "PROVIDED_TO_DSD"]  \* variation
SendLocal(rts, p) ==
  [rts EXCEPT ![p].locTx = IF @ = "NOT_IN_USE" THEN "DCM_TRANSMIT_SIGNALED" ELSE @]
FreeLocalIfCopied(rts, p) ==   \* variation: a missing fall-through
  [rts EXCEPT ![p].locTx = IF @ = "PROVIDED_TO_PDUR" THEN "NOT_IN_USE" ELSE @]
FreeLocal(rts, p) == [rts EXCEPT ![p].locTx = "NOT_IN_USE"]
LocalFree(p) == rt[p].locTx = "NOT_IN_USE"
TpAfterLocal(p, accepted) ==
  [tpTx EXCEPT ![p] = IF LocalFree(p) /\ accepted THEN "local" ELSE @]

(* PduR_DcmTransmit: the transport layer takes one transmission per PDU. *)
Accepts(p, refusal) ==
  (IF tpTx[p] = "idle" THEN {TRUE} ELSE {FALSE})
    \cup (IF refusal \in Refusals THEN {FALSE} ELSE {})

(* DsdDslDataIndication and the assignments before it: row p's request and *)
(* response buffers now belong to the DSD.                                 *)
HandToDsd(r) ==
  [r EXCEPT !.extRx = "PROVIDED_TO_DSD", !.extTx = "PROVIDED_TO_DSD",
            !.p2 = P2Server, !.pend = MaxNumRespPend, !.preempt = 0]
Indicated(pdu) == [msg EXCEPT !.indication = TRUE, !.pdu = pdu]

StartedSession(p) == IF p \in ObdProtocols THEN "OBD" ELSE "DEFAULT"
StartRow(r, p) ==
  [ChangeSession(r, "DEFAULT") EXCEPT !.started = TRUE, !.session = StartedSession(p)]

-----------------------------------------------------------------------------
(* The transport layer's callbacks. *)

Running == main.phase # "crashed"

(* DslStartOfReception.  A short message fits the local buffer, a long one *)
(* only the external one; a message that fits neither changes nothing.     *)
StartOfReception(pdu) ==
  LET p == ProtocolOf[pdu]
      external == rt[p].extRx = "NOT_IN_USE" /\ ~rt[p].busy
      Stopped(r) == [r EXCEPT !.s3On = FALSE]
  IN /\ Running /\ pdu \notin tpRx
     /\ tpRx' = tpRx \cup {pdu}
     /\ \/ /\ external
           /\ rt' = [rt EXCEPT ![p] = [Stopped(@) EXCEPT !.extRx = "PROVIDED_TO_PDUR",
                                                         !.busy = TRUE, !.pdu = pdu]]
        \/ /\ ~external /\ rt[p].locRx = "NOT_IN_USE" /\ pdu \in ParallelPdus
           /\ rt' = [rt EXCEPT ![p] = [Stopped(@) EXCEPT !.locRx = "PROVIDED_TO_PDUR",
                                                         !.locPdu = pdu]]
     /\ UNCHANGED <<active, preemption, msg, dsp, main, tpTx>>

InExternal(pdu) ==
  rt[ProtocolOf[pdu]].extRx = "PROVIDED_TO_PDUR" /\ rt[ProtocolOf[pdu]].pdu = pdu
InLocal(pdu) ==
  /\ ~InExternal(pdu)
  /\ rt[ProtocolOf[pdu]].locRx = "PROVIDED_TO_PDUR" /\ rt[ProtocolOf[pdu]].locPdu = pdu

Received(pdu) == Running /\ pdu \in tpRx /\ tpRx' = tpRx \ {pdu}

(* DslTpRxIndicationFromPduR, result not OK or length mismatch. *)
RxFailed(pdu) ==
  LET p == ProtocolOf[pdu] IN
  /\ Received(pdu) /\ InExternal(pdu)
  /\ rt' = [ResetSessionTimeoutTimer(rt) EXCEPT ![p] = ReleaseRx(@)]
  /\ UNCHANGED <<active, preemption, msg, dsp, main, tpTx>>

(* A TesterPresent without response never reaches the DSD. *)
RxTesterPresent(pdu) ==
  LET p == ProtocolOf[pdu] IN
  /\ Received(pdu) /\ InExternal(pdu)
  /\ rt' = [rt EXCEPT ![p] = StartS3(ReleaseRx(@))]
  /\ UNCHANGED <<active, preemption, msg, dsp, main, tpTx>>

(* A request on a protocol that is running. *)
RxRequest(pdu) ==
  LET p == ProtocolOf[pdu] IN
  /\ Received(pdu) /\ InExternal(pdu) /\ rt[p].started
  /\ rt' = [rt EXCEPT ![p] = HandToDsd(@)]
  /\ msg' = Indicated(pdu)
  /\ UNCHANGED <<active, preemption, dsp, main, tpTx>>

(* A request that starts its protocol, because none is active. *)
RxStartsProtocol(pdu) ==
  LET p == ProtocolOf[pdu] IN
  /\ Received(pdu) /\ InExternal(pdu) /\ ~rt[p].started
  /\ active = NoProtocol
  /\ rt' = [rt EXCEPT ![p] = HandToDsd(StartRow(@, p))]
  /\ dsp' = DspAfterChange(dsp, rt[p])
  /\ active' = p
  /\ msg' = Indicated(pdu)
  /\ UNCHANGED <<preemption, main, tpTx>>

(* A request of another protocol than the active one preempts it when its  *)
(* priority is higher or the active one is in the default session.         *)
Outranks(p) ==
  /\ active # NoProtocol
  /\ Priority[p] < Priority[active] \/ rt[active].session = "DEFAULT"

(* The active protocol has no response to finish. *)
ActiveTakenForIdle == TRUE   \* variation: nobody looks
ActiveIdle == rt[active].extTx = "NOT_IN_USE"

ClosesNothing(rts) == rts    \* variation
CloseActive(rts) == [rts EXCEPT ![active].started = FALSE]

RxPreemptsIdle(pdu) ==
  LET p == ProtocolOf[pdu] IN
  /\ Received(pdu) /\ InExternal(pdu) /\ ~rt[p].started
  /\ Outranks(p) /\ ActiveIdle
  /\ rt' = [CloseActive(rt) EXCEPT ![p] = HandToDsd(StartRow(@, p))]
  /\ dsp' = DspAfterChange(dsp, rt[p])
  /\ active' = p
  /\ msg' = Indicated(pdu)
  /\ UNCHANGED <<preemption, main, tpTx>>

(* The active protocol is still at work: DslMain will close it later.  The *)
(* request itself is kept in the buffer; sent again, it waits no longer.   *)
TimerAnew(r) == PreemptTimeout          \* variation: each request restarts it
PreemptTimer(r) ==
  IF r.extTx = "PREEMPT_TRANSMIT_NRC" THEN r.preempt ELSE PreemptTimeout
RxPreemptsBusy(pdu) ==
  LET p == ProtocolOf[pdu] IN
  /\ Received(pdu) /\ InExternal(pdu) /\ ~rt[p].started
  /\ Outranks(p) /\ ~ActiveIdle
  /\ preemption' = "waiting"
  /\ rt' = [rt EXCEPT ![p].extTx = "PREEMPT_TRANSMIT_NRC", ![p].pend = MaxNumRespPend,
                      ![p].preempt = PreemptTimer(rt[p])]
  /\ UNCHANGED <<active, msg, dsp, main, tpTx>>

(* A StartProtocol or StopProtocol callback refuses: the handler does       *)
(* nothing, and the buffer stays with the transport layer.                 *)
RxStartRefused(pdu) ==
  LET p == ProtocolOf[pdu] IN
  /\ Received(pdu) /\ InExternal(pdu) /\ ~rt[p].started
  /\ \/ "start" \in Refusals /\ active = NoProtocol
     \/ "start" \in Refusals /\ Outranks(p) /\ ActiveIdle
     \/ "stop" \in Refusals /\ Outranks(p)
  /\ UNCHANGED <<rt, active, preemption, msg, dsp, main, tpTx>>

(* A request of a lower priority is dropped. *)
RxOutranked(pdu) ==
  LET p == ProtocolOf[pdu] IN
  /\ Received(pdu) /\ InExternal(pdu) /\ ~rt[p].started
  /\ active # NoProtocol /\ ~Outranks(p)
  /\ rt' = [rt EXCEPT ![p] = ReleaseRx(@)]
  /\ UNCHANGED <<active, preemption, msg, dsp, main, tpTx>>

(* The local buffer takes a TesterPresent in parallel to a request; any    *)
(* other message in it is dropped.                                         *)
RxLocal(pdu) ==
  LET p == ProtocolOf[pdu]
      Freed(r) == [r EXCEPT !.locRx = "NOT_IN_USE", !.locPdu = NoPdu]
  IN /\ Received(pdu) /\ InLocal(pdu)
     /\ \/ rt' = [rt EXCEPT ![p] = Freed(StartS3(@))]
        \/ rt' = [rt EXCEPT ![p] = Freed(@)]
        \/ rt' = [ResetSessionTimeoutTimer(rt) EXCEPT ![p] = Freed(@)]
     /\ UNCHANGED <<active, preemption, msg, dsp, main, tpTx>>

(* The buffer was taken back while the message arrived: nothing to indicate. *)
RxOrphan(pdu) ==
  /\ Received(pdu) /\ ~InExternal(pdu) /\ ~InLocal(pdu)
  /\ UNCHANGED <<rt, active, preemption, msg, dsp, main, tpTx>>

TpRxIndication(pdu) ==
  \/ RxFailed(pdu) \/ RxTesterPresent(pdu) \/ RxRequest(pdu) \/ RxStartsProtocol(pdu)
  \/ RxPreemptsIdle(pdu) \/ RxPreemptsBusy(pdu) \/ RxStartRefused(pdu)
  \/ RxOutranked(pdu) \/ RxLocal(pdu) \/ RxOrphan(pdu)

(* DslCopyTxData: the first call moves the signalled buffer on, the external *)
(* one before the local one, whichever transmission the layer meant.       *)
CopyTxData(p) ==
  /\ Running /\ tpTx[p] # "idle"
  /\ \/ /\ rt[p].extTx = "DCM_TRANSMIT_SIGNALED"
        /\ rt' = [rt EXCEPT ![p].extTx = "PROVIDED_TO_PDUR"]
     \/ /\ rt[p].extTx \notin Transmitting /\ rt[p].locTx = "DCM_TRANSMIT_SIGNALED"
        /\ rt' = [rt EXCEPT ![p].locTx = "PROVIDED_TO_PDUR"]
  /\ UNCHANGED <<active, preemption, msg, dsp, main, tpRx, tpTx>>

(* DspDcmConfirmation: a session change waits for its response to be sent. *)
ConfirmedRt(rts, d, p, ok) ==
  LET timed == ResetSessionTimeoutTimer(rts) IN
  IF ok /\ d.change.by = p THEN SetSesCtrlType(timed, d.change.to) ELSE timed
ConfirmedKeepsChange(rts, d, p, ok) == d   \* variation: the change stays pending
ConfirmedDsp(rts, d, p, ok) ==
  IF d.change.by = p
  THEN [(IF ok THEN SetSesCtrlTypeDsp(rts, d) ELSE d) EXCEPT !.change = NoChange]
  ELSE d

(* DslTpTxConfirmation: the state of the buffers decides which of the two  *)
(* was sent, the external one first.  OK before any data was copied is an  *)
(* error.                                                                  *)
TpTxConfirmation(p, ok) ==
  LET external == rt[p].extTx \in Transmitting
      sent == ok /\ rt[p].extTx = "PROVIDED_TO_PDUR"
      released == [rt EXCEPT ![p] = StartS3(ReleaseBuffers(@))]
  IN /\ Running /\ tpTx[p] # "idle"
     /\ tpTx' = [tpTx EXCEPT ![p] = "idle"]
     /\ \/ /\ external
           /\ rt' = ConfirmedRt(released, dsp, p, sent)
           /\ dsp' = ConfirmedDsp(released, dsp, p, sent)
        \/ /\ ~external /\ rt[p].locTx \in Transmitting
           /\ rt' = FreeLocal(rt, p)
           /\ dsp' = dsp
        \/ /\ ~external /\ rt[p].locTx \notin Transmitting
           /\ UNCHANGED <<rt, dsp>>
     /\ UNCHANGED <<active, preemption, msg, main, tpRx>>

-----------------------------------------------------------------------------
(* The DSD and the service processor.  A response always goes to the       *)
(* protocol of the last indicated request, whoever began the service.      *)

Requester == ProtocolOf[msg.pdu]

(* DsdDspProcessingDone, positive: sent, or confirmed at once if suppressed. *)
AnswerPositive(rts, d, suppress) ==
  LET q == Requester IN
  IF suppress
  THEN /\ rt' = [ConfirmedRt(rts, d, q, TRUE) EXCEPT ![q] = ReleaseBuffers(@)]
       /\ dsp' = ConfirmedDsp(rts, d, q, TRUE)
  ELSE /\ rt' = [rts EXCEPT ![q] = ResponseReady(@)]
       /\ dsp' = d

Suppressed(rts) == [rts EXCEPT ![Requester] = ReleaseBuffers(@)]

(* createAndSendNcr: serviceNotSupported, subFunctionNotSupported and      *)
(* requestOutOfRange are suppressed on functional addressing.              *)
AnswerNegative(rts, d) ==
  /\ \/ rt' = [rts EXCEPT ![Requester] = ResponseReady(@)]
     \/ msg.pdu \in FunctionalPdus /\ rt' = Suppressed(rts)
  /\ dsp' = d

(* The request and its suppressPosRspMsg stay while a service is pending;  *)
(* once nothing is, no one reads them again.                               *)
Remember(m, suppress) ==
  IF dsp'.work # "none" THEN [m EXCEPT !.suppress = suppress]
  ELSE IF m.indication THEN [m EXCEPT !.suppress = FALSE] ELSE NoRequest

(* DslDsdSendResponsePending: it clears suppressPosRspMsg. *)
ForceResponsePending(m, suppress) ==
  LET q == Requester IN
  /\ rt' = [SendLocal(rt, q) EXCEPT ![q].p2 = P2StarServer + 1,
                                    ![q].pend = Decremented(@)]
  /\ \E accepted \in Accepts(q, "transmitLocal") : tpTx' = TpAfterLocal(q, accepted)
  /\ msg' = Remember(m, suppress /\ ~LocalFree(q))

(* DslInternal_SetSecurityLevel: on the active protocol. *)
Unlock(rts) == [rts EXCEPT ![active].unlocked = TRUE]

Taken == [msg EXCEPT !.indication = FALSE]

DsdIdle ==
  /\ main.phase = "dsd" /\ ~msg.indication
  /\ main' = [main EXCEPT !.phase = "dsp"]
  /\ UNCHANGED <<rt, active, preemption, msg, dsp, tpRx, tpTx>>

DsdTakes ==
  /\ main.phase = "dsd" /\ msg.indication
  /\ main' = [main EXCEPT !.phase = "dsp"]
  /\ UNCHANGED <<active, preemption, tpRx>>

(* No service identifier, a response identifier, or a request the          *)
(* manufacturer's notification does not accept.                            *)
DsdDiscards ==
  /\ DsdTakes
  /\ rt' = Suppressed(rt)
  /\ UNCHANGED <<dsp, tpTx>>
  /\ msg' = Remember(Taken, msg.suppress)

(* The service is unknown, or not served in this session or security level. *)
DsdRefuses ==
  /\ DsdTakes
  /\ AnswerNegative(rt, dsp)
  /\ msg' = Remember(Taken, msg.suppress)
  /\ UNCHANGED tpTx

(* The service runs: the session and security checks need an active protocol. *)
DsdServes ==
  /\ DsdTakes /\ active # NoProtocol
  /\ \E suppress \in BOOLEAN :
       \/ /\ \/ AnswerPositive(rt, dsp, suppress)
             \/ AnswerNegative(rt, dsp)
             \/ \E work \in PendingServices :
                  dsp' = [dsp EXCEPT !.work = work] /\ rt' = rt
          /\ msg' = Remember(Taken, suppress)
          /\ tpTx' = tpTx
       \/ /\ "did" \in PendingServices
          /\ dsp' = [dsp EXCEPT !.work = "did"]
          /\ ForceResponsePending(Taken, suppress)

(* DspUdsDiagnosticSessionControl. *)
DsdSessionControl ==
  /\ DsdTakes /\ active # NoProtocol
  /\ \E suppress \in BOOLEAN, new \in {"DEFAULT"} \cup ExtraSessions :
       /\ AnswerPositive(rt, [dsp EXCEPT !.change = [by |-> Requester, to |-> new]], suppress)
       /\ msg' = Remember(Taken, suppress)
  /\ UNCHANGED tpTx

(* DspUdsSecurityAccess: a seed opens the exchange, a key ends it. *)
DsdSecurityAccess ==
  /\ DsdTakes /\ active # NoProtocol /\ rt[active].session \in SecuritySessions
  /\ \E suppress \in BOOLEAN :
       /\ \/ AnswerPositive(rt, [dsp EXCEPT !.seed = TRUE], suppress)
          \/ dsp.seed /\ AnswerPositive(Unlock(rt), [dsp EXCEPT !.seed = FALSE], suppress)
          \/ dsp.seed /\ AnswerNegative(rt, [dsp EXCEPT !.seed = FALSE])
          \/ /\ dsp.seed
             /\ dsp' = [dsp EXCEPT !.work = "key"] /\ rt' = rt
       /\ msg' = Remember(Taken, suppress)
  /\ UNCHANGED tpTx

DsdMain == DsdIdle \/ DsdDiscards \/ DsdRefuses \/ DsdServes \/ DsdSessionControl
           \/ DsdSecurityAccess

DspRuns ==
  /\ main.phase = "dsp"
  /\ main' = [phase |-> "s3", row |-> 1]
  /\ UNCHANGED <<active, preemption, tpRx>>

DspWaits ==
  /\ DspRuns
  /\ dsp.work = "key" => dsp.seed
  /\ UNCHANGED <<rt, msg, dsp, tpTx>>

DspAnswers ==
  /\ DspRuns /\ dsp.work \in {"memory", "did"}
  /\ \/ AnswerPositive(rt, [dsp EXCEPT !.work = "none"], msg.suppress)
     \/ AnswerNegative(rt, [dsp EXCEPT !.work = "none"])
  /\ msg' = Remember(msg, msg.suppress)
  /\ UNCHANGED tpTx

DspForcesResponsePending ==
  /\ DspRuns /\ dsp.work = "did"
  /\ UNCHANGED dsp
  /\ ForceResponsePending(msg, msg.suppress)

(* DspSecurityAccessMainFunction: the key comparison that was pending ends. *)
DspComparesKey ==
  LET done == [dsp EXCEPT !.work = "none", !.seed = FALSE] IN
  /\ DspRuns /\ dsp.work = "key"
  /\ \/ AnswerNegative(rt, done)
     \/ /\ dsp.seed /\ active # NoProtocol
        /\ AnswerPositive(Unlock(rt), done, msg.suppress)
  /\ msg' = Remember(msg, msg.suppress)
  /\ UNCHANGED tpTx

DspMain == DspWaits \/ DspAnswers \/ DspForcesResponsePending \/ DspComparesKey

-----------------------------------------------------------------------------
(* DslMain: for each row the session timer, then the response buffer. *)

(* The first main function after a warm start may start a protocol, without *)
(* asking anyone.                                                          *)
DcmExecuteStartProtocolRequest ==
  /\ main.phase = "first"
  /\ main' = [main EXCEPT !.phase = "dsd"]
  /\ \/ UNCHANGED <<rt, active>>
     \/ \E p \in StartupProtocols, new \in {"DEFAULT"} \cup ExtraSessions :
          LET begun == [rt[p] EXCEPT !.started = TRUE, !.session = new, !.unlocked = FALSE]
          IN /\ rt' = [rt EXCEPT ![p] = IF new = "DEFAULT" THEN begun ELSE StartS3(begun)]
             /\ active' = p
  /\ UNCHANGED <<preemption, msg, dsp, tpRx, tpTx>>

S3Left(p) == IF rt[p].s3On THEN Decremented(rt[p].s3) ELSE rt[p].s3
S3Expired(p) == rt[p].session # "DEFAULT" /\ S3Left(p) = 0

S3Running ==
  LET p == main.row IN
  /\ main.phase = "s3" /\ ~S3Expired(p)
  /\ rt' = [rt EXCEPT ![p].s3 = IF rt[p].session = "DEFAULT" THEN @ ELSE S3Left(p)]
  /\ main' = [main EXCEPT !.phase = "tx"]
  /\ UNCHANGED <<active, preemption, msg, dsp, tpRx, tpTx>>

KeepsActive(p) == active     \* variation
ActiveAfterTimeout(p) ==
  IF p \in ObdProtocols /\ active \in ObdProtocols THEN NoProtocol ELSE active

(* The session falls back to the default one; an OBD protocol closes too.  *)
S3Timeout ==
  LET p == main.row
      fallen == [ChangeSession(rt[p], "DEFAULT") EXCEPT !.s3 = 0]
  IN /\ main.phase = "s3" /\ S3Expired(p)
     /\ p \in ObdProtocols => active # NoProtocol
     /\ rt' = [rt EXCEPT ![p] = [fallen EXCEPT !.started = @ /\ p \notin ObdProtocols]]
     /\ dsp' = DspAfterChange(dsp, rt[p])
     /\ active' = ActiveAfterTimeout(p)
     /\ main' = [main EXCEPT !.phase = "tx"]
     /\ UNCHANGED <<preemption, msg, tpRx, tpTx>>

(* The next row, or the next main function after the last one. *)
NextRow ==
  /\ main.phase = "tx"
  /\ main' = IF main.row < NProtocols THEN [phase |-> "s3", row |-> main.row + 1]
             ELSE [phase |-> "dsd", row |-> 1]
  /\ tpRx' = tpRx

TxNothing ==
  LET r == rt[main.row] IN
  /\ NextRow
  /\ \/ r.extTx \in {"NOT_IN_USE"} \cup Transmitting
     \/ r.extTx = "PREEMPT_TRANSMIT_NRC" /\ preemption = "none"
     \/ r.extTx = "DSD_PENDING_RESPONSE_SIGNALED" /\ r.locTx # "NOT_IN_USE"
  /\ UNCHANGED <<rt, active, preemption, msg, dsp, tpTx>>

TxP2Running ==
  LET p == main.row IN
  /\ NextRow /\ rt[p].extTx = "PROVIDED_TO_DSD" /\ Decremented(rt[p].p2) # 0
  /\ rt' = [rt EXCEPT ![p].p2 = Decremented(@)]
  /\ UNCHANGED <<active, preemption, msg, dsp, tpTx>>

(* P2 is over: responsePending while the configured number lasts. *)
TxResponsePending ==
  LET p == main.row IN
  /\ NextRow /\ rt[p].extTx = "PROVIDED_TO_DSD" /\ Decremented(rt[p].p2) = 0
  /\ ForceRespPend /\ rt[p].pend # 0
  /\ rt' = [SendLocal(rt, p) EXCEPT ![p].p2 = P2StarServer, ![p].pend = Decremented(@)]
  /\ \E accepted \in Accepts(p, "transmitLocal") : tpTx' = TpAfterLocal(p, accepted)
  /\ msg' = [msg EXCEPT !.suppress = @ /\ ~LocalFree(p)]
  /\ UNCHANGED <<active, preemption, dsp>>

(* Then the service is cancelled, generalReject goes out and the buffers    *)
(* are free again.                                                         *)
TxGeneralReject ==
  LET p == main.row IN
  /\ NextRow /\ rt[p].extTx = "PROVIDED_TO_DSD" /\ Decremented(rt[p].p2) = 0
  /\ ~(ForceRespPend /\ rt[p].pend # 0)
  /\ rt' = [SendLocal(rt, p) EXCEPT ![p] = ReleaseBuffers(@)]
  /\ \E accepted \in Accepts(p, "transmitLocal") : tpTx' = TpAfterLocal(p, accepted)
  /\ dsp' = CancelPending(dsp)
  /\ msg' = Remember(msg, FALSE)
  /\ UNCHANGED <<active, preemption>>

(* The response is sent once the local buffer is confirmed. *)
TxResponse ==
  LET p == main.row IN
  /\ NextRow /\ rt[p].extTx = "DSD_PENDING_RESPONSE_SIGNALED" /\ LocalFree(p)
  /\ \E accepted \in Accepts(p, "transmit") :
       IF accepted
       THEN /\ rt' = [rt EXCEPT ![p].extTx = "DCM_TRANSMIT_SIGNALED"]
            /\ tpTx' = [tpTx EXCEPT ![p] = "ext"]
       ELSE /\ rt' = [rt EXCEPT ![p] = ReleaseBuffers(StartS3(@))]
            /\ tpTx' = tpTx
  /\ UNCHANGED <<active, preemption, msg, dsp>>

(* A preemption waits for the active protocol to finish, tells its own      *)
(* tester to repeat the request, and gives up the active protocol when its  *)
(* timer is over.                                                          *)
TxPreempting ==
  LET p == main.row
      tell == preemption = "waiting" /\ LocalFree(p)
  IN /\ NextRow /\ rt[p].extTx = "PREEMPT_TRANSMIT_NRC" /\ preemption # "none"
     /\ active # NoProtocol
     /\ msg' = msg
     /\ \E accepted \in Accepts(p, "transmitLocal") :
          LET told == IF ~tell THEN rt
                      ELSE [SendLocal(rt, p) EXCEPT
                              ![p] = IF accepted THEN ReleaseRx(@) ELSE @]
              timed == [told EXCEPT ![p].preempt = Decremented(@)]
              idle == timed[active].extTx = "NOT_IN_USE"
              over == timed[p].preempt = 0
              closed == CloseActive(timed)
              freed == IF idle THEN closed
                       ELSE [closed EXCEPT ![active] = ReleaseBuffers(@)]
              reset == [dsp EXCEPT !.change = NoChange]
          IN /\ tpTx' = IF tell THEN TpAfterLocal(p, accepted) ELSE tpTx
             /\ \/ /\ idle \/ over
                   /\ rt' = [freed EXCEPT ![p] = ReleaseBuffers(@)]
                   /\ active' = NoProtocol
                   /\ preemption' = "none"
                   /\ dsp' = IF idle THEN reset ELSE DspInit(reset)
                \/ /\ ~idle /\ ~over
                   /\ rt' = timed
                   /\ preemption' = IF tell /\ accepted THEN "told" ELSE preemption
                   /\ UNCHANGED <<active, dsp>>

DslMain ==
  \/ S3Running \/ S3Timeout
  \/ TxNothing \/ TxP2Running \/ TxResponsePending \/ TxGeneralReject \/ TxResponse
  \/ TxPreempting

(* Three places use activeProtocol without a check: the S3 timeout of an    *)
(* OBD row, a preemption, and a key comparison that succeeds.              *)
DereferencesNull ==
  /\ active = NoProtocol
  /\ \/ main.phase = "s3" /\ S3Expired(main.row) /\ main.row \in ObdProtocols
     \/ main.phase = "tx" /\ preemption # "none"
        /\ rt[main.row].extTx = "PREEMPT_TRANSMIT_NRC"
     \/ main.phase = "dsp" /\ dsp.work = "key" /\ dsp.seed
  /\ main' = [main EXCEPT !.phase = "crashed"]
  /\ UNCHANGED <<rt, active, preemption, msg, dsp, tpRx, tpTx>>

MainFunction == DereferencesNull \/ DcmExecuteStartProtocolRequest \/ DsdMain \/ DspMain \/ DslMain

(* Dcm_ResetToDefaultSession, called by the application. *)
ResetToDefaultSession ==
  /\ Running /\ AppResets
  /\ rt' = SetSesCtrlType(rt, "DEFAULT")
  /\ dsp' = SetSesCtrlTypeDsp(rt, dsp)
  /\ UNCHANGED <<active, preemption, msg, main, tpRx, tpTx>>

Receive(pdu) == StartOfReception(pdu) \/ TpRxIndication(pdu)
Transmit(p) == CopyTxData(p) \/ \E ok \in BOOLEAN : TpTxConfirmation(p, ok)

Next ==
  \/ MainFunction
  \/ ResetToDefaultSession
  \/ \E pdu \in RxPdus : Receive(pdu)
  \/ \E p \in Protocols : Transmit(p)

Spec == Init /\ [][Next]_vars

-----------------------------------------------------------------------------
(* Properties. *)

(* The flag of a row's receive buffer and the row's own view of it agree:  *)
(* a buffer marked busy while its row holds nothing would refuse every      *)
(* later request, a free one held by its row would be overwritten.         *)
BufferHeldIffInUse ==
  \A p \in Protocols : rt[p].busy <=> rt[p].extRx # "NOT_IN_USE"

(* The request stays locked in its buffer while its service runs and while *)
(* its response waits or is sent: a tester can not overwrite it.           *)
RequestLocked ==
  \A p \in Protocols :
    rt[p].extTx \notin {"NOT_IN_USE", "PREEMPT_TRANSMIT_NRC"}
      => rt[p].extRx = "PROVIDED_TO_DSD"

(* DslTpTxConfirmation guesses from the buffers what was confirmed.  It     *)
(* guesses right: while the transport layer sends a local response no       *)
(* external one is under way, and conversely.                              *)
ConfirmationNotMixed ==
  \A p \in Protocols :
    /\ tpTx[p] = "local" => rt[p].locTx \in Transmitting /\ rt[p].extTx \notin Transmitting
    /\ tpTx[p] = "ext" => rt[p].extTx \in Transmitting

(* A local buffer in use is being sent: an NRC never stays behind in it,    *)
(* which would block every later response of the row.                      *)
LocalResponseSent ==
  \A p \in Protocols : rt[p].locTx # "NOT_IN_USE" => tpTx[p] = "local"

(* The one request the DSD holds is the one the serving row handed over:   *)
(* no second row overwrote it.                                             *)
DsdServesOneRow ==
  \A p \in Protocols :
    rt[p].extTx = "PROVIDED_TO_DSD" => msg.pdu \in RxPdus /\ Requester = p

(* The active protocol is the one that is started, no other one is.        *)
ActiveIsStarted == \A p \in Protocols : rt[p].started <=> active = p

(* A session change that waits for its response has that response ahead of *)
(* it: no later response of the tester can trigger it.                     *)
PendingChangeHasResponse ==
  \A p \in Protocols :
    dsp.change.by = p => rt[p].extTx \in {"DSD_PENDING_RESPONSE_SIGNALED"} \cup Transmitting

(* A protocol is unlocked only in a session that serves SecurityAccess.    *)
UnlockedInSecuritySession ==
  \A p \in Protocols : rt[p].unlocked => rt[p].session \in SecuritySessions

(* The flag DslMain needs is set while a row is preempting.                *)
PreemptingRowTracked ==
  \A p \in Protocols : rt[p].extTx = "PREEMPT_TRANSMIT_NRC" => preemption # "none"

(* A protocol that starts has its security state reset.                    *)
ProtocolStartLocks ==
  [][\A p \in Protocols : ~rt[p].started /\ rt'[p].started => ~rt'[p].unlocked]_vars

(* A session other than the default and OBD ones is entered only by a       *)
(* protocol whose own tester asked for it.                                 *)
SessionFollowsRequester ==
  [][\A p \in Protocols :
       rt'[p].session \in ExtraSessions /\ rt'[p].session # rt[p].session
         => \/ dsp.change = [by |-> p, to |-> rt'[p].session]
            \/ main.phase = "dsd" /\ msg.indication /\ Requester = p
            \/ main.phase = "first"]_vars

(* A protocol in a non-default session makes way only for a protocol of a   *)
(* higher priority.                                                        *)
PriorityRespected ==
  [][\A p \in Protocols :
       rt[p].session # "DEFAULT" /\ rt[p].started /\ ~rt'[p].started
         => \/ p \in ObdProtocols /\ main.phase = "s3"
            \/ \E q \in Protocols : Priority[q] < Priority[p] /\ rt[q].extRx # "NOT_IN_USE"]_vars

-----------------------------------------------------------------------------
(* The main function runs periodically, and the transport layer ends every *)
(* transmission and every reception it began.                              *)
Fairness ==
  /\ WF_vars(MainFunction)
  /\ \A p \in Protocols : WF_vars(\E ok \in BOOLEAN : TpTxConfirmation(p, ok))
  /\ \A pdu \in RxPdus : WF_vars(TpRxIndication(pdu))

LiveSpec == Spec /\ Fairness
CyclicSpec == Spec /\ WF_vars(MainFunction)   \* whatever the transport layer does

(* The stage of a row's request, as its buffers show it. *)
StageOf(r) ==
  CASE r.extTx = "PROVIDED_TO_DSD" -> "serving"
    [] r.extTx = "DSD_PENDING_RESPONSE_SIGNALED" -> "answered"
    [] r.extTx \in Transmitting -> "sending"
    [] r.extTx \in {"NOT_IN_USE", "PREEMPT_TRANSMIT_NRC"} /\ r.extRx = "PROVIDED_TO_PDUR"
         -> "receiving"
    [] OTHER -> "free"
Stage(p) == StageOf(rt[p])

(* One protocol alone implements the request cycle: a request is received, *)
(* served, answered and sent in that order, and its buffers come back      *)
(* (DslMain, DslDsdProcessingDone, DslTpTxConfirmation).                   *)
Request == INSTANCE DcmRequest WITH stage <- Stage(1)
RequestImplemented == Request!Spec

(* A preemption never stays: its timer or the active protocol's response    *)
(* ends it, even if the transport layer ends no transmission.              *)
EveryPreemptionEnds ==
  \A p \in Protocols :
    []<>(rt[p].extTx # "PREEMPT_TRANSMIT_NRC")
=============================================================================
