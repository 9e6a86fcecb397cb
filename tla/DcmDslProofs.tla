---------------------------- MODULE DcmDslProofs ----------------------------
(***************************************************************************)
(* Theorems about DcmDsl, for every configuration that satisfies           *)
(* ConfigAssumption.                                                       *)
(***************************************************************************)
EXTENDS DcmDsl, TLAPS

(* A row whose receive buffer and flag agree. *)
GoodRow == {r \in RuntimeType : r.busy <=> r.extRx # "NOT_IN_USE"}
Rows == [Protocols -> GoodRow]

-----------------------------------------------------------------------------
(* What the helpers do to a row. *)

(* Starting the S3 timer keeps a row well-formed (startS3SessionTimer). *)
LEMMA StartS3Row == ASSUME NEW r \in GoodRow PROVE StartS3(r) \in GoodRow
  BY ConfigAssumption DEF GoodRow, RuntimeType, StartS3

(* Releasing the receive buffer gives the row and the flag back together. *)
LEMMA ReleaseRxRow == ASSUME NEW r \in GoodRow PROVE ReleaseRx(r) \in GoodRow
  BY DEF GoodRow, RuntimeType, ReleaseRx, RxStatus

(* So does releasing both buffers (releaseExternalRxTxBuffers). *)
LEMMA ReleaseBuffersRow == ASSUME NEW r \in GoodRow PROVE ReleaseBuffers(r) \in GoodRow
  BY ReleaseRxRow DEF GoodRow, RuntimeType, ReleaseBuffers, TxStatus

(* Signalling a response touches no receive buffer (DslDsdProcessingDone). *)
LEMMA ResponseReadyRow == ASSUME NEW r \in GoodRow PROVE ResponseReady(r) \in GoodRow
  BY DEF GoodRow, RuntimeType, ResponseReady, TxStatus

(* A session change keeps a row well-formed (changeDiagnosticSession). *)
LEMMA ChangeSessionRow ==
  ASSUME NEW r \in GoodRow, NEW new \in Sessions
  PROVE ChangeSession(r, new) \in GoodRow
  BY DEF GoodRow, RuntimeType, ChangeSession

(* So does the start of a protocol. *)
LEMMA StartRowRow ==
  ASSUME NEW r \in GoodRow, NEW p \in Protocols
  PROVE StartRow(r, p) \in GoodRow
  <1>1. "DEFAULT" \in Sessions /\ "OBD" \in Sessions  BY DEF Sessions
  <1>2. ChangeSession(r, "DEFAULT") \in GoodRow  BY <1>1, ChangeSessionRow
  <1> QED BY <1>1, <1>2 DEF GoodRow, RuntimeType, StartRow, StartedSession

(* A request goes to the DSD in a buffer that is marked busy. *)
LEMMA HandToDsdRow ==
  ASSUME NEW r \in GoodRow, r.extRx # "NOT_IN_USE"
  PROVE HandToDsd(r) \in GoodRow
  BY ConfigAssumption DEF GoodRow, RuntimeType, HandToDsd, RxStatus, TxStatus

-----------------------------------------------------------------------------
(* What they do to all rows, to the service processor and to the request. *)

(* Replacing one row by a well-formed one keeps all rows well-formed. *)
LEMMA UpdateRows ==
  ASSUME NEW rts \in Rows, NEW p \in Protocols, NEW r \in GoodRow
  PROVE [rts EXCEPT ![p] = r] \in Rows
  BY DEF Rows

(* DslResetSessionTimeoutTimer keeps the rows well-formed. *)
LEMMA ResetSessionTimeoutTimerRows ==
  ASSUME NEW rts \in Rows, active \in Protocols \cup {NoProtocol}
  PROVE ResetSessionTimeoutTimer(rts) \in Rows
  <1>1. CASE active = NoProtocol  BY <1>1 DEF ResetSessionTimeoutTimer
  <1>2. CASE active \in Protocols
    <2>1. StartS3(rts[active]) \in GoodRow  BY <1>2, StartS3Row DEF Rows
    <2> QED BY <1>2, <2>1, UpdateRows DEF ResetSessionTimeoutTimer
  <1> QED BY <1>1, <1>2

(* DslSetSesCtrlType keeps the rows well-formed. *)
LEMMA SetSesCtrlTypeRows ==
  ASSUME NEW rts \in Rows, NEW new \in Sessions, active \in Protocols \cup {NoProtocol}
  PROVE SetSesCtrlType(rts, new) \in Rows
  <1>1. CASE active = NoProtocol  BY <1>1 DEF SetSesCtrlType
  <1>2. CASE active \in Protocols
    <2>1. StartS3(ChangeSession(rts[active], new)) \in GoodRow
      BY <1>2, StartS3Row, ChangeSessionRow DEF Rows
    <2> QED BY <1>2, <2>1, UpdateRows DEF SetSesCtrlType
  <1> QED BY <1>1, <1>2

(* sendResponseWithStatus keeps the rows well-formed. *)
LEMMA SendLocalRows ==
  ASSUME NEW rts \in Rows, NEW p \in Protocols
  PROVE SendLocal(rts, p) \in Rows
  <1>1. [rts[p] EXCEPT !.locTx = IF @ = "NOT_IN_USE" THEN "DCM_TRANSMIT_SIGNALED" ELSE @] \in GoodRow
    BY DEF Rows, GoodRow, RuntimeType, LocalStatus
  <1> QED BY <1>1 DEF SendLocal, Rows

(* So does the confirmation of a local response. *)
LEMMA FreeLocalRows ==
  ASSUME NEW rts \in Rows, NEW p \in Protocols
  PROVE FreeLocal(rts, p) \in Rows
  <1>1. [rts[p] EXCEPT !.locTx = "NOT_IN_USE"] \in GoodRow
    BY DEF Rows, GoodRow, RuntimeType, LocalStatus
  <1> QED BY <1>1 DEF FreeLocal, Rows

(* A pending session change names a configured session. *)
LEMMA ChangeToSession ==
  ASSUME NEW d \in DspType, d.change.by \in Protocols
  PROVE d.change.to \in Sessions
  BY DEF DspType, SessionChange, NoChange, Protocols, NoProtocol

(* Resets and cancellations keep the type of the service processor. *)
LEMMA DspHelpers ==
  ASSUME NEW d \in DspType, NEW r \in GoodRow
  PROVE /\ DspInit(d) \in DspType
        /\ DspInit(d).work # "none" => d.work # "none"
        /\ DspAfterChange(d, r) \in DspType
        /\ DspAfterChange(d, r).work # "none" => d.work # "none"
  BY DEF DspType, DspInit, DspAfterChange

(* So does a session change of the active protocol. *)
LEMMA SetSesCtrlTypeDspType ==
  ASSUME NEW rts \in Rows, NEW d \in DspType, active \in Protocols \cup {NoProtocol}
  PROVE /\ SetSesCtrlTypeDsp(rts, d) \in DspType
        /\ SetSesCtrlTypeDsp(rts, d).work # "none" => d.work # "none"
  BY DspHelpers DEF SetSesCtrlTypeDsp, Rows

(* DspDcmConfirmation keeps the rows well-formed. *)
LEMMA ConfirmedRows ==
  ASSUME NEW rts \in Rows, NEW d \in DspType, NEW p \in Protocols, NEW ok \in BOOLEAN,
         active \in Protocols \cup {NoProtocol}
  PROVE ConfirmedRt(rts, d, p, ok) \in Rows
  <1>1. ResetSessionTimeoutTimer(rts) \in Rows  BY ResetSessionTimeoutTimerRows
  <1>2. CASE ok /\ d.change.by = p
    <2>1. d.change.to \in Sessions  BY <1>2, ChangeToSession
    <2> QED BY <1>1, <1>2, <2>1, SetSesCtrlTypeRows DEF ConfirmedRt
  <1>3. CASE ~(ok /\ d.change.by = p)  BY <1>1, <1>3 DEF ConfirmedRt
  <1> QED BY <1>2, <1>3

(* It keeps the type of the service processor. *)
LEMMA ConfirmedDspType ==
  ASSUME NEW rts \in Rows, NEW d \in DspType, NEW p \in Protocols, NEW ok \in BOOLEAN,
         active \in Protocols \cup {NoProtocol}
  PROVE /\ ConfirmedDsp(rts, d, p, ok) \in DspType
        /\ ConfirmedDsp(rts, d, p, ok).work # "none" => d.work # "none"
  <1>1. ASSUME NEW e \in DspType
        PROVE /\ [e EXCEPT !.change = NoChange] \in DspType
              /\ [e EXCEPT !.change = NoChange].work = e.work
    BY DEF DspType
  <1> DEFINE e == IF ok THEN SetSesCtrlTypeDsp(rts, d) ELSE d
  <1>2. e \in DspType /\ (e.work # "none" => d.work # "none")  BY SetSesCtrlTypeDspType
  <1> QED BY <1>1, <1>2 DEF ConfirmedDsp

-----------------------------------------------------------------------------
(* The inductive invariant.  A request is known while the DSD or a pending *)
(* service still has to answer it: Requester names a row then.             *)

RequestKnown == msg.indication \/ dsp.work # "none" => msg.pdu \in RxPdus

RestOK ==
  /\ active \in Protocols \cup {NoProtocol}
  /\ preemption \in {"none", "waiting", "told"}
  /\ msg \in MsgType
  /\ dsp \in DspType
  /\ main \in MainType
  /\ tpRx \subseteq RxPdus
  /\ tpTx \in [Protocols -> {"idle", "ext", "local"}]

IInv == rt \in Rows /\ RestOK /\ RequestKnown

(* A response goes to a configured row. *)
LEMMA RequesterRow == ASSUME msg.pdu \in RxPdus PROVE Requester \in Protocols
  BY ConfigAssumption DEF Requester

(* A positive response keeps rows and service processor in order (DsdDspProcessingDone). *)
LEMMA AnswerPositiveStep ==
  ASSUME RestOK, msg.pdu \in RxPdus, NEW rts \in Rows, NEW d \in DspType,
         NEW suppress \in BOOLEAN, AnswerPositive(rts, d, suppress)
  PROVE rt' \in Rows /\ dsp' \in DspType /\ (dsp'.work # "none" => d.work # "none")
  <1>1. Requester \in Protocols  BY RequesterRow
  <1>2. CASE suppress
    <2>1. ConfirmedRt(rts, d, Requester, TRUE) \in Rows  BY <1>1, ConfirmedRows DEF RestOK
    <2>2. ReleaseBuffers(ConfirmedRt(rts, d, Requester, TRUE)[Requester]) \in GoodRow
      BY <1>1, <2>1, ReleaseBuffersRow DEF Rows
    <2>3. rt' \in Rows  BY <1>1, <1>2, <2>1, <2>2, UpdateRows DEF AnswerPositive
    <2>4. dsp' = ConfirmedDsp(rts, d, Requester, TRUE)  BY <1>2 DEF AnswerPositive
    <2>5. TRUE \in BOOLEAN /\ active \in Protocols \cup {NoProtocol}  BY DEF RestOK
    <2>6. /\ ConfirmedDsp(rts, d, Requester, TRUE) \in DspType
          /\ ConfirmedDsp(rts, d, Requester, TRUE).work # "none" => d.work # "none"
      BY <1>1, <2>5, ConfirmedDspType
    <2> QED BY <2>3, <2>4, <2>6
  <1>3. CASE ~suppress
    <2>1. ResponseReady(rts[Requester]) \in GoodRow  BY <1>1, ResponseReadyRow DEF Rows
    <2> QED BY <1>1, <1>3, <2>1, UpdateRows DEF AnswerPositive
  <1> QED BY <1>2, <1>3

(* A suppressed response gives both buffers back. *)
LEMMA SuppressedRows ==
  ASSUME msg.pdu \in RxPdus, NEW rts \in Rows
  PROVE Suppressed(rts) \in Rows
  <1>1. Requester \in Protocols  BY RequesterRow
  <1>2. ReleaseBuffers(rts[Requester]) \in GoodRow  BY <1>1, ReleaseBuffersRow DEF Rows
  <1> QED BY <1>1, <1>2, UpdateRows DEF Suppressed

(* A negative response keeps rows and service processor in order (createAndSendNcr). *)
LEMMA AnswerNegativeStep ==
  ASSUME msg.pdu \in RxPdus, NEW rts \in Rows, NEW d \in DspType, AnswerNegative(rts, d)
  PROVE rt' \in Rows /\ dsp' = d
  <1>1. Requester \in Protocols  BY RequesterRow
  <1>2. ResponseReady(rts[Requester]) \in GoodRow  BY <1>1, ResponseReadyRow DEF Rows
  <1>3. [rts EXCEPT ![Requester] = ResponseReady(@)] \in Rows  BY <1>1, <1>2, UpdateRows
  <1> QED BY <1>3, SuppressedRows DEF AnswerNegative

(* While a service is pending its request is known. *)
LEMMA RememberMsg ==
  ASSUME NEW m \in MsgType, NEW suppress \in BOOLEAN,
         m.indication \/ dsp'.work # "none" => m.pdu \in RxPdus
  PROVE /\ Remember(m, suppress) \in MsgType
        /\ Remember(m, suppress).indication \/ dsp'.work # "none"
             => Remember(m, suppress).pdu \in RxPdus
  BY DEF Remember, MsgType, NoRequest

(* Taking the request off the flag keeps its PDU. *)
LEMMA TakenMsg ==
  ASSUME RestOK
  PROVE Taken \in MsgType /\ ~Taken.indication /\ Taken.pdu = msg.pdu
        /\ msg.suppress \in BOOLEAN
  BY DEF Taken, MsgType, RestOK

(* A local transmission occupies the PDU of a configured row. *)
LEMMA TpAfterLocalType ==
  ASSUME RestOK, NEW p, NEW accepted
  PROVE TpAfterLocal(p, accepted) \in [Protocols -> {"idle", "ext", "local"}]
  BY DEF TpAfterLocal, RestOK

(* Unlocking the active row keeps the rows well-formed (DslInternal_SetSecurityLevel). *)
LEMMA UnlockRows ==
  ASSUME NEW rts \in Rows, active \in Protocols
  PROVE Unlock(rts) \in Rows
  <1>1. ASSUME NEW r \in GoodRow PROVE [r EXCEPT !.unlocked = TRUE] \in GoodRow
    BY DEF GoodRow, RuntimeType
  <1>2. [rts[active] EXCEPT !.unlocked = TRUE] \in GoodRow  BY <1>1 DEF Rows
  <1> QED BY <1>2, UpdateRows DEF Unlock

(* A timer never counts below zero (DECREMENT). *)
LEMMA DecrementedNat == ASSUME NEW n \in Nat PROVE Decremented(n) \in Nat
  BY DEF Decremented

(* A forced responsePending keeps the invariant (DslDsdSendResponsePending). *)
LEMMA ForceResponsePendingStep ==
  ASSUME IInv, msg.pdu \in RxPdus, NEW m \in MsgType, m.pdu = msg.pdu,
         NEW suppress \in BOOLEAN, ForceResponsePending(m, suppress)
  PROVE /\ rt' \in Rows
        /\ tpTx' \in [Protocols -> {"idle", "ext", "local"}]
        /\ msg' \in MsgType
        /\ msg'.indication \/ dsp'.work # "none" => msg'.pdu \in RxPdus
  <1>1. Requester \in Protocols  BY RequesterRow
  <1>2. SendLocal(rt, Requester) \in Rows  BY <1>1, SendLocalRows DEF IInv
  <1> DEFINE r == SendLocal(rt, Requester)[Requester]
             s == [r EXCEPT !.p2 = P2StarServer + 1, !.pend = Decremented(@)]
  <1>3. r \in GoodRow  BY <1>1, <1>2 DEF Rows
  <1>4. Decremented(r.pend) \in Nat /\ P2StarServer + 1 \in Nat
    BY <1>3, DecrementedNat, ConfigAssumption DEF GoodRow, RuntimeType
  <1>5. s \in GoodRow  BY <1>3, <1>4 DEF GoodRow, RuntimeType
  <1>6. rt' = [SendLocal(rt, Requester) EXCEPT ![Requester] = s]
    BY <1>1, <1>2 DEF ForceResponsePending, Rows
  <1>7. rt' \in Rows  BY <1>1, <1>2, <1>5, <1>6, UpdateRows
  <1>8. tpTx' \in [Protocols -> {"idle", "ext", "local"}]
    BY TpAfterLocalType DEF ForceResponsePending, IInv
  <1>9. (suppress /\ ~LocalFree(Requester)) \in BOOLEAN  OBVIOUS
  <1>10. msg' = Remember(m, suppress /\ ~LocalFree(Requester))
    BY DEF ForceResponsePending
  <1> QED BY <1>7, <1>8, <1>9, <1>10, RememberMsg

-----------------------------------------------------------------------------
(* The transport layer's callbacks keep it. *)

(* Every receive PDU belongs to a configured row. *)
LEMMA RowOfPdu ==
  ASSUME IInv, NEW pdu \in RxPdus
  PROVE ProtocolOf[pdu] \in Protocols /\ rt[ProtocolOf[pdu]] \in GoodRow
  BY ConfigAssumption DEF IInv, Rows

(* The start of a reception keeps the invariant: it takes free buffers only. *)
LEMMA StartOfReceptionStep ==
  ASSUME IInv, NEW pdu \in RxPdus, StartOfReception(pdu)
  PROVE IInv'
  <1> DEFINE p == ProtocolOf[pdu]
             stopped == [rt[p] EXCEPT !.s3On = FALSE]
             ext == [stopped EXCEPT !.extRx = "PROVIDED_TO_PDUR", !.busy = TRUE, !.pdu = pdu]
             loc == [stopped EXCEPT !.locRx = "PROVIDED_TO_PDUR", !.locPdu = pdu]
  <1>1. p \in Protocols /\ rt[p] \in GoodRow  BY RowOfPdu
  <1>2. ASSUME NEW r \in GoodRow
        PROVE /\ [r EXCEPT !.s3On = FALSE] \in GoodRow
              /\ [r EXCEPT !.extRx = "PROVIDED_TO_PDUR", !.busy = TRUE, !.pdu = pdu] \in GoodRow
              /\ [r EXCEPT !.locRx = "PROVIDED_TO_PDUR", !.locPdu = pdu] \in GoodRow
    BY DEF GoodRow, RuntimeType, RxStatus
  <1>3. ext \in GoodRow /\ loc \in GoodRow  BY <1>1, <1>2
  <1>4. rt' = [rt EXCEPT ![p] = ext] \/ rt' = [rt EXCEPT ![p] = loc]
    BY DEF StartOfReception
  <1>5. rt' \in Rows  BY <1>1, <1>3, <1>4, UpdateRows DEF IInv
  <1> QED BY <1>5 DEF StartOfReception, IInv, RestOK, RequestKnown

(* An indicated request names its PDU (DsdDslDataIndication). *)
LEMMA IndicatedMsg ==
  ASSUME RestOK, NEW pdu \in RxPdus
  PROVE Indicated(pdu) \in MsgType /\ Indicated(pdu).pdu = pdu
  BY DEF RestOK, MsgType, Indicated

(* A free receive buffer is not marked busy. *)
LEMMA NotInUse ==
  ASSUME NEW pdu, InExternal(pdu)
  PROVE rt[ProtocolOf[pdu]].extRx # "NOT_IN_USE"
  BY DEF InExternal

(* A row that starts and hands its request over stays well-formed. *)
LEMMA StartedHandedToDsd ==
  ASSUME IInv, NEW pdu \in RxPdus, InExternal(pdu)
  PROVE /\ HandToDsd(rt[ProtocolOf[pdu]]) \in GoodRow
        /\ HandToDsd(StartRow(rt[ProtocolOf[pdu]], ProtocolOf[pdu])) \in GoodRow
  <1> DEFINE p == ProtocolOf[pdu]
  <1>1. p \in Protocols /\ rt[p] \in GoodRow  BY RowOfPdu
  <1>2. StartRow(rt[p], p) \in GoodRow  BY <1>1, StartRowRow
  <1>3. StartRow(rt[p], p).extRx = rt[p].extRx
    BY <1>1 DEF GoodRow, RuntimeType, StartRow, ChangeSession
  <1> QED BY <1>1, <1>2, <1>3, HandToDsdRow, NotInUse

(* Closing the active row keeps the rows well-formed. *)
LEMMA CloseActiveRows ==
  ASSUME NEW rts \in Rows, active \in Protocols
  PROVE CloseActive(rts) \in Rows
  <1>1. ASSUME NEW r \in GoodRow PROVE [r EXCEPT !.started = FALSE] \in GoodRow
    BY DEF GoodRow, RuntimeType
  <1>2. [rts[active] EXCEPT !.started = FALSE] \in GoodRow  BY <1>1 DEF Rows
  <1> QED BY <1>2, UpdateRows DEF CloseActive

(* Every branch of DslTpRxIndicationFromPduR keeps the invariant. *)
LEMMA TpRxIndicationStep ==
  ASSUME IInv, NEW pdu \in RxPdus, TpRxIndication(pdu)
  PROVE IInv'
  <1> DEFINE p == ProtocolOf[pdu]
  <1>1. p \in Protocols /\ rt[p] \in GoodRow /\ rt \in Rows  BY RowOfPdu DEF IInv
  <1>2. ReleaseRx(rt[p]) \in GoodRow  BY <1>1, ReleaseRxRow
  <1>3. active \in Protocols \cup {NoProtocol} /\ ResetSessionTimeoutTimer(rt) \in Rows
    BY <1>1, ResetSessionTimeoutTimerRows DEF IInv, RestOK
  <1>4. Indicated(pdu) \in MsgType /\ Indicated(pdu).pdu \in RxPdus
    BY IndicatedMsg DEF IInv
  <1>5. CASE RxFailed(pdu)
    <2>1. ReleaseRx(ResetSessionTimeoutTimer(rt)[p]) \in GoodRow
      BY <1>1, <1>3, ReleaseRxRow DEF Rows
    <2>2. rt' \in Rows  BY <1>1, <1>3, <1>5, <2>1, UpdateRows DEF RxFailed
    <2> QED BY <1>5, <2>2 DEF RxFailed, Received, IInv, RestOK, RequestKnown
  <1>6. CASE RxTesterPresent(pdu)
    <2>1. StartS3(ReleaseRx(rt[p])) \in GoodRow  BY <1>2, StartS3Row
    <2>2. rt' \in Rows  BY <1>1, <1>6, <2>1, UpdateRows DEF RxTesterPresent
    <2> QED BY <1>6, <2>2 DEF RxTesterPresent, Received, IInv, RestOK, RequestKnown
  <1>7. CASE RxRequest(pdu)
    <2>1. HandToDsd(rt[p]) \in GoodRow  BY <1>7, StartedHandedToDsd DEF RxRequest
    <2>2. rt' \in Rows  BY <1>1, <1>7, <2>1, UpdateRows DEF RxRequest
    <2> QED BY <1>4, <1>7, <2>2 DEF RxRequest, Received, IInv, RestOK, RequestKnown
  <1>8. CASE RxStartsProtocol(pdu)
    <2>1. HandToDsd(StartRow(rt[p], p)) \in GoodRow
      BY <1>8, StartedHandedToDsd DEF RxStartsProtocol
    <2>2. rt' \in Rows  BY <1>1, <1>8, <2>1, UpdateRows DEF RxStartsProtocol
    <2>3. dsp' \in DspType  BY <1>1, <1>8, DspHelpers DEF RxStartsProtocol, IInv, RestOK
    <2> QED BY <1>1, <1>4, <1>8, <2>2, <2>3
         DEF RxStartsProtocol, Received, IInv, RestOK, RequestKnown
  <1>9. CASE RxPreemptsIdle(pdu)
    <2>1. HandToDsd(StartRow(rt[p], p)) \in GoodRow
      BY <1>9, StartedHandedToDsd DEF RxPreemptsIdle
    <2>2. active \in Protocols  BY <1>3, <1>9 DEF RxPreemptsIdle, Outranks
    <2>3. CloseActive(rt) \in Rows  BY <1>1, <2>2, CloseActiveRows
    <2>4. HandToDsd(StartRow(CloseActive(rt)[p], p)) \in GoodRow
      <3>1. CloseActive(rt)[p].extRx = rt[p].extRx
        BY <1>1, <2>2 DEF CloseActive, Rows, GoodRow, RuntimeType
      <3>2. CloseActive(rt)[p] \in GoodRow  BY <1>1, <2>3 DEF Rows
      <3>3. StartRow(CloseActive(rt)[p], p) \in GoodRow  BY <1>1, <3>2, StartRowRow
      <3>4. StartRow(CloseActive(rt)[p], p).extRx = rt[p].extRx
        BY <3>1, <3>2 DEF GoodRow, RuntimeType, StartRow, ChangeSession
      <3> QED BY <1>9, <3>3, <3>4, NotInUse, HandToDsdRow DEF RxPreemptsIdle
    <2>5. rt' \in Rows  BY <1>1, <1>9, <2>3, <2>4, UpdateRows DEF RxPreemptsIdle
    <2>6. dsp' \in DspType  BY <1>1, <1>9, DspHelpers DEF RxPreemptsIdle, IInv, RestOK
    <2> QED BY <1>1, <1>4, <1>9, <2>5, <2>6
         DEF RxPreemptsIdle, Received, IInv, RestOK, RequestKnown
  <1>10. CASE RxPreemptsBusy(pdu)
    <2> DEFINE n == PreemptTimer(rt[p])
               r == [rt[p] EXCEPT !.extTx = "PREEMPT_TRANSMIT_NRC", !.pend = MaxNumRespPend,
                                  !.preempt = n]
    <2>1. n \in Nat  BY <1>1, ConfigAssumption DEF PreemptTimer, GoodRow, RuntimeType
    <2> HIDE DEF n
    <2>2. r \in GoodRow
      BY <1>1, <2>1, ConfigAssumption, ZenonT(45) DEF GoodRow, RuntimeType, TxStatus
    <2>3. rt' = [rt EXCEPT ![p] = r]  BY <1>1, <1>10 DEF RxPreemptsBusy, Rows, n
    <2>4. rt' \in Rows  BY <1>1, <2>2, <2>3, UpdateRows
    <2> QED BY <1>10, <2>4 DEF RxPreemptsBusy, Received, IInv, RestOK, RequestKnown
  <1>11. CASE RxStartRefused(pdu)
    BY <1>11 DEF RxStartRefused, Received, IInv, RestOK, RequestKnown
  <1>12. CASE RxOutranked(pdu)
    <2>1. rt' \in Rows  BY <1>1, <1>2, <1>12, UpdateRows DEF RxOutranked
    <2> QED BY <1>12, <2>1 DEF RxOutranked, Received, IInv, RestOK, RequestKnown
  <1>13. CASE RxLocal(pdu)
    <2> DEFINE Freed(r) == [r EXCEPT !.locRx = "NOT_IN_USE", !.locPdu = NoPdu]
    <2>1. ASSUME NEW r \in GoodRow PROVE Freed(r) \in GoodRow
      BY DEF GoodRow, RuntimeType, RxStatus
    <2>2. /\ Freed(rt[p]) \in GoodRow /\ Freed(StartS3(rt[p])) \in GoodRow
          /\ Freed(ResetSessionTimeoutTimer(rt)[p]) \in GoodRow
      BY <1>1, <1>3, <2>1, StartS3Row DEF Rows
    <2> HIDE DEF Freed
    <2>3. \/ rt' = [rt EXCEPT ![p] = Freed(StartS3(@))]
          \/ rt' = [rt EXCEPT ![p] = Freed(@)]
          \/ rt' = [ResetSessionTimeoutTimer(rt) EXCEPT ![p] = Freed(@)]
      BY <1>13 DEF RxLocal, Freed
    <2>4. rt' \in Rows  BY <1>1, <1>3, <2>2, <2>3, UpdateRows
    <2> QED BY <1>13, <2>4 DEF RxLocal, Received, IInv, RestOK, RequestKnown
  <1>14. CASE RxOrphan(pdu)
    BY <1>14 DEF RxOrphan, Received, IInv, RestOK, RequestKnown
  <1> QED BY <1>5, <1>6, <1>7, <1>8, <1>9, <1>10, <1>11, <1>12, <1>13, <1>14
       DEF TpRxIndication

(* DslCopyTxData keeps the invariant. *)
LEMMA CopyTxDataStep ==
  ASSUME IInv, NEW p \in Protocols, CopyTxData(p)
  PROVE IInv'
  <1>1. rt \in Rows /\ rt[p] \in GoodRow  BY DEF IInv, Rows
  <1>2. ASSUME NEW r \in GoodRow
        PROVE [r EXCEPT !.extTx = "PROVIDED_TO_PDUR"] \in GoodRow
              /\ [r EXCEPT !.locTx = "PROVIDED_TO_PDUR"] \in GoodRow
    BY DEF GoodRow, RuntimeType, TxStatus, LocalStatus
  <1>3. \/ rt' = [rt EXCEPT ![p] = [rt[p] EXCEPT !.extTx = "PROVIDED_TO_PDUR"]]
        \/ rt' = [rt EXCEPT ![p] = [rt[p] EXCEPT !.locTx = "PROVIDED_TO_PDUR"]]
    BY DEF CopyTxData
  <1>4. rt' \in Rows  BY <1>1, <1>2, <1>3, UpdateRows, ZenonT(45)
  <1> QED BY <1>4 DEF CopyTxData, IInv, RestOK, RequestKnown

(* DslTpTxConfirmation keeps the invariant, whichever buffer it takes for confirmed. *)
LEMMA TpTxConfirmationStep ==
  ASSUME IInv, NEW p \in Protocols, NEW ok \in BOOLEAN, TpTxConfirmation(p, ok)
  PROVE IInv'
  <1> DEFINE sent == ok /\ rt[p].extTx = "PROVIDED_TO_PDUR"
             released == [rt EXCEPT ![p] = StartS3(ReleaseBuffers(@))]
  <1>1. rt \in Rows /\ rt[p] \in GoodRow /\ dsp \in DspType
        /\ active \in Protocols \cup {NoProtocol}
    BY DEF IInv, Rows, RestOK
  <1>2. StartS3(ReleaseBuffers(rt[p])) \in GoodRow  BY <1>1, ReleaseBuffersRow, StartS3Row
  <1>3. released \in Rows /\ sent \in BOOLEAN  BY <1>1, <1>2, UpdateRows
  <1>4. ConfirmedRt(released, dsp, p, sent) \in Rows  BY <1>1, <1>3, ConfirmedRows
  <1>5. /\ ConfirmedDsp(released, dsp, p, sent) \in DspType
        /\ ConfirmedDsp(released, dsp, p, sent).work # "none" => dsp.work # "none"
    BY <1>1, <1>3, ConfirmedDspType
  <1>6. \/ /\ rt' = ConfirmedRt(released, dsp, p, sent)
           /\ dsp' = ConfirmedDsp(released, dsp, p, sent)
        \/ rt' = FreeLocal(rt, p) /\ dsp' = dsp
        \/ rt' = rt /\ dsp' = dsp
    BY DEF TpTxConfirmation
  <1>7. FreeLocal(rt, p) \in Rows  BY <1>1, FreeLocalRows
  <1>8. rt' \in Rows /\ dsp' \in DspType /\ (dsp'.work # "none" => dsp.work # "none")
    BY <1>1, <1>4, <1>5, <1>6, <1>7
  <1>9. /\ UNCHANGED <<active, preemption, msg, main, tpRx>>
        /\ tpTx' \in [Protocols -> {"idle", "ext", "local"}]
    BY DEF TpTxConfirmation, IInv, RestOK
  <1> QED BY <1>8, <1>9 DEF IInv, RestOK, RequestKnown

-----------------------------------------------------------------------------
(* So does the main function. *)

(* A step that answers, refuses or keeps a request in the service processor. *)
LEMMA ServedStep ==
  ASSUME IInv, msg.pdu \in RxPdus, rt' \in Rows, dsp' \in DspType, main' \in MainType,
         UNCHANGED <<active, preemption, tpRx, tpTx>>,
         NEW m \in MsgType, m.pdu = msg.pdu, NEW suppress \in BOOLEAN,
         msg' = Remember(m, suppress)
  PROVE IInv'
  BY RememberMsg DEF IInv, RestOK, RequestKnown

(* DsdMain keeps the invariant, whatever becomes of the request. *)
LEMMA DsdMainStep == ASSUME IInv, DsdMain PROVE IInv'
  <1>1. rt \in Rows /\ dsp \in DspType  BY DEF IInv, RestOK
  <1>2. /\ Taken \in MsgType /\ ~Taken.indication /\ Taken.pdu = msg.pdu
        /\ msg.suppress \in BOOLEAN
    BY TakenMsg DEF IInv
  <1>3. CASE DsdIdle
    BY <1>3 DEF DsdIdle, IInv, RestOK, RequestKnown, MainType
  <1>4. ASSUME DsdTakes
        PROVE /\ msg.pdu \in RxPdus /\ main' \in MainType
              /\ UNCHANGED <<active, preemption, tpRx>>
    BY <1>4 DEF DsdTakes, IInv, RestOK, RequestKnown, MainType
  <1>5. CASE DsdDiscards
    <2>1. rt' \in Rows /\ dsp' \in DspType  BY <1>1, <1>4, <1>5, SuppressedRows DEF DsdDiscards
    <2> QED BY <1>2, <1>4, <1>5, <2>1, ServedStep DEF DsdDiscards
  <1>6. CASE DsdRefuses
    <2>1. rt' \in Rows /\ dsp' \in DspType
      BY <1>1, <1>4, <1>6, AnswerNegativeStep DEF DsdRefuses
    <2> QED BY <1>2, <1>4, <1>6, <2>1, ServedStep DEF DsdRefuses
  <1>7. CASE DsdServes
    <2>1. DsdTakes  BY <1>7 DEF DsdServes
    <2>2. ASSUME NEW work \in PendingServices
          PROVE [dsp EXCEPT !.work = work] \in DspType
      BY <1>1, ConfigAssumption DEF DspType
    <2>3. PICK suppress \in BOOLEAN :
            \/ /\ \/ AnswerPositive(rt, dsp, suppress)
                  \/ AnswerNegative(rt, dsp)
                  \/ \E work \in PendingServices :
                       dsp' = [dsp EXCEPT !.work = work] /\ rt' = rt
               /\ msg' = Remember(Taken, suppress)
               /\ tpTx' = tpTx
            \/ /\ "did" \in PendingServices
               /\ dsp' = [dsp EXCEPT !.work = "did"]
               /\ ForceResponsePending(Taken, suppress)
      BY <1>7 DEF DsdServes
    <2>4. CASE msg' = Remember(Taken, suppress) /\ tpTx' = tpTx
               /\ AnswerPositive(rt, dsp, suppress)
      <3>1. rt' \in Rows /\ dsp' \in DspType
        BY <1>1, <1>4, <2>1, <2>4, AnswerPositiveStep DEF IInv
      <3> QED BY <1>2, <1>4, <2>1, <2>4, <3>1, ServedStep
    <2>5. CASE msg' = Remember(Taken, suppress) /\ tpTx' = tpTx /\ AnswerNegative(rt, dsp)
      <3>1. rt' \in Rows /\ dsp' \in DspType
        BY <1>1, <1>4, <2>1, <2>5, AnswerNegativeStep
      <3> QED BY <1>2, <1>4, <2>1, <2>5, <3>1, ServedStep
    <2>6. CASE /\ msg' = Remember(Taken, suppress) /\ tpTx' = tpTx
               /\ \E work \in PendingServices :
                    dsp' = [dsp EXCEPT !.work = work] /\ rt' = rt
      <3>1. rt' \in Rows /\ dsp' \in DspType  BY <1>1, <2>2, <2>6
      <3> QED BY <1>2, <1>4, <2>1, <2>6, <3>1, ServedStep
    <2>7. CASE /\ "did" \in PendingServices
               /\ dsp' = [dsp EXCEPT !.work = "did"]
               /\ ForceResponsePending(Taken, suppress)
      <3>1. dsp' \in DspType  BY <2>2, <2>7
      <3> QED BY <1>2, <1>4, <2>1, <2>7, <3>1, ForceResponsePendingStep
           DEF IInv, RestOK, RequestKnown
    <2> QED BY <2>3, <2>4, <2>5, <2>6, <2>7
  <1>8. CASE DsdSessionControl
    <2>1. DsdTakes  BY <1>8 DEF DsdSessionControl
    <2>2. Requester \in Protocols  BY <1>4, <2>1, RequesterRow
    <2>3. PICK suppress \in BOOLEAN, new \in {"DEFAULT"} \cup ExtraSessions :
            /\ AnswerPositive(rt, [dsp EXCEPT !.change = [by |-> Requester, to |-> new]], suppress)
            /\ msg' = Remember(Taken, suppress)
      BY <1>8 DEF DsdSessionControl
    <2>4. [dsp EXCEPT !.change = [by |-> Requester, to |-> new]] \in DspType
      <3>1. [by |-> Requester, to |-> new] \in SessionChange
        BY <2>2 DEF SessionChange, Sessions
      <3> QED BY <1>1, <3>1 DEF DspType
    <2>5. rt' \in Rows /\ dsp' \in DspType
      BY <1>1, <1>4, <2>1, <2>3, <2>4, AnswerPositiveStep DEF IInv
    <2>6. tpTx' = tpTx  BY <1>8 DEF DsdSessionControl
    <2> QED BY <1>2, <1>4, <2>1, <2>3, <2>5, <2>6, ServedStep
  <1>9. CASE DsdSecurityAccess
    <2>1. DsdTakes /\ active \in Protocols
      BY <1>9 DEF DsdSecurityAccess, IInv, RestOK
    <2>2. PICK suppress \in BOOLEAN :
            /\ \/ AnswerPositive(rt, [dsp EXCEPT !.seed = TRUE], suppress)
               \/ dsp.seed /\ AnswerPositive(Unlock(rt), [dsp EXCEPT !.seed = FALSE], suppress)
               \/ dsp.seed /\ AnswerNegative(rt, [dsp EXCEPT !.seed = FALSE])
               \/ /\ dsp.seed
                  /\ dsp' = [dsp EXCEPT !.work = "key"] /\ rt' = rt
            /\ msg' = Remember(Taken, suppress)
      BY <1>9 DEF DsdSecurityAccess
    <2>3. /\ [dsp EXCEPT !.seed = TRUE] \in DspType
          /\ [dsp EXCEPT !.seed = FALSE] \in DspType
          /\ [dsp EXCEPT !.work = "key"] \in DspType
      BY <1>1 DEF DspType
    <2>4. Unlock(rt) \in Rows  BY <1>1, <2>1, UnlockRows
    <2>5. rt' \in Rows /\ dsp' \in DspType
      BY <1>1, <1>4, <2>1, <2>2, <2>3, <2>4, AnswerPositiveStep, AnswerNegativeStep DEF IInv
    <2>6. tpTx' = tpTx  BY <1>9 DEF DsdSecurityAccess
    <2> QED BY <1>2, <1>4, <2>1, <2>2, <2>5, <2>6, ServedStep
  <1> QED BY <1>3, <1>5, <1>6, <1>7, <1>8, <1>9 DEF DsdMain

(* DspMain keeps the invariant. *)
LEMMA DspMainStep == ASSUME IInv, DspMain PROVE IInv'
  <1>1. rt \in Rows /\ dsp \in DspType /\ msg \in MsgType /\ msg.suppress \in BOOLEAN
    BY DEF IInv, RestOK, MsgType
  <1>2. ASSUME DspRuns
        PROVE main' \in MainType /\ UNCHANGED <<active, preemption, tpRx>>
    BY <1>2, ConfigAssumption DEF DspRuns, MainType, Protocols
  <1>3. dsp.work # "none" => msg.pdu \in RxPdus  BY DEF IInv, RequestKnown
  <1>4. CASE DspWaits
    BY <1>2, <1>4 DEF DspWaits, IInv, RestOK, RequestKnown
  <1>5. CASE DspAnswers
    <2> DEFINE d == [dsp EXCEPT !.work = "none"]
    <2>1. d \in DspType  BY <1>1 DEF DspType
    <2>2. DspRuns /\ msg.pdu \in RxPdus /\ tpTx' = tpTx /\ msg' = Remember(msg, msg.suppress)
          /\ (AnswerPositive(rt, d, msg.suppress) \/ AnswerNegative(rt, d))
      BY <1>3, <1>5 DEF DspAnswers
    <2>3. rt' \in Rows /\ dsp' \in DspType
      BY <1>1, <2>1, <2>2, AnswerPositiveStep, AnswerNegativeStep DEF IInv
    <2> QED BY <1>1, <1>2, <2>2, <2>3, ServedStep
  <1>6. CASE DspForcesResponsePending
    <2>1. DspRuns /\ msg.pdu \in RxPdus /\ dsp' = dsp
      BY <1>3, <1>6 DEF DspForcesResponsePending
    <2> QED BY <1>1, <1>2, <1>6, <2>1, ForceResponsePendingStep
         DEF DspForcesResponsePending, IInv, RestOK, RequestKnown
  <1>7. CASE DspComparesKey
    <2> DEFINE d == [dsp EXCEPT !.work = "none", !.seed = FALSE]
    <2>1. d \in DspType  BY <1>1 DEF DspType
    <2>2. DspRuns /\ msg.pdu \in RxPdus /\ tpTx' = tpTx /\ msg' = Remember(msg, msg.suppress)
          /\ \/ AnswerNegative(rt, d)
             \/ active # NoProtocol /\ AnswerPositive(Unlock(rt), d, msg.suppress)
      BY <1>3, <1>7 DEF DspComparesKey
    <2>3. active # NoProtocol => Unlock(rt) \in Rows
      BY <1>1, UnlockRows DEF IInv, RestOK
    <2>4. rt' \in Rows /\ dsp' \in DspType
      BY <1>1, <2>1, <2>2, <2>3, AnswerPositiveStep, AnswerNegativeStep DEF IInv
    <2> QED BY <1>1, <1>2, <2>2, <2>4, ServedStep
  <1> QED BY <1>4, <1>5, <1>6, <1>7 DEF DspMain

(* A warm start keeps the invariant (DcmExecuteStartProtocolRequest). *)
LEMMA StartProtocolRequestStep == ASSUME IInv, DcmExecuteStartProtocolRequest PROVE IInv'
  <1>1. main' \in MainType  BY DEF DcmExecuteStartProtocolRequest, IInv, RestOK, MainType
  <1>2. CASE rt' = rt /\ active' = active
    BY <1>1, <1>2 DEF DcmExecuteStartProtocolRequest, IInv, RestOK, RequestKnown
  <1>3. CASE ~(rt' = rt /\ active' = active)
    <2>1. PICK p \in StartupProtocols, new \in {"DEFAULT"} \cup ExtraSessions :
            LET begun == [rt[p] EXCEPT !.started = TRUE, !.session = new, !.unlocked = FALSE]
            IN /\ rt' = [rt EXCEPT ![p] = IF new = "DEFAULT" THEN begun ELSE StartS3(begun)]
               /\ active' = p
      BY <1>3 DEF DcmExecuteStartProtocolRequest
    <2> DEFINE begun == [rt[p] EXCEPT !.started = TRUE, !.session = new, !.unlocked = FALSE]
    <2>2. p \in Protocols /\ rt \in Rows /\ rt[p] \in GoodRow /\ new \in Sessions
      BY ConfigAssumption DEF IInv, Rows, Sessions
    <2>3. begun \in GoodRow  BY <2>2 DEF GoodRow, RuntimeType
    <2>4. (IF new = "DEFAULT" THEN begun ELSE StartS3(begun)) \in GoodRow
      BY <2>3, StartS3Row
    <2>5. rt' \in Rows  BY <2>1, <2>2, <2>4, UpdateRows
    <2> QED BY <1>1, <2>1, <2>2, <2>5
         DEF DcmExecuteStartProtocolRequest, IInv, RestOK, RequestKnown
  <1> QED BY <1>2, <1>3

(* The session timer of DslMain keeps the invariant. *)
LEMMA S3Step == ASSUME IInv, S3Running \/ S3Timeout PROVE IInv'
  <1> DEFINE p == main.row
  <1>1. p \in Protocols /\ rt \in Rows /\ rt[p] \in GoodRow /\ dsp \in DspType
    BY DEF IInv, RestOK, MainType, Rows
  <1>2. [main EXCEPT !.phase = "tx"] \in MainType  BY DEF IInv, RestOK, MainType
  <1>3. CASE S3Running
    <2> DEFINE n == IF rt[p].session = "DEFAULT" THEN rt[p].s3 ELSE S3Left(p)
    <2>1. n \in Nat  BY <1>1, DecrementedNat DEF S3Left, GoodRow, RuntimeType
    <2>2. [rt[p] EXCEPT !.s3 = n] \in GoodRow  BY <1>1, <2>1 DEF GoodRow, RuntimeType
    <2>3. rt' = [rt EXCEPT ![p] = [rt[p] EXCEPT !.s3 = n]]  BY <1>1, <1>3 DEF S3Running, Rows
    <2>4. rt' \in Rows  BY <1>1, <2>2, <2>3, UpdateRows
    <2> QED BY <1>2, <1>3, <2>4 DEF S3Running, IInv, RestOK, RequestKnown
  <1>4. CASE S3Timeout
    <2> DEFINE fallen == [ChangeSession(rt[p], "DEFAULT") EXCEPT !.s3 = 0]
               r == [fallen EXCEPT !.started = @ /\ p \notin ObdProtocols]
    <2>1. ChangeSession(rt[p], "DEFAULT") \in GoodRow
      BY <1>1, ChangeSessionRow DEF Sessions
    <2>2. ASSUME NEW q \in GoodRow, NEW b \in BOOLEAN
          PROVE /\ [q EXCEPT !.s3 = 0] \in GoodRow
                /\ [q EXCEPT !.started = @ /\ b] \in GoodRow
      BY DEF GoodRow, RuntimeType
    <2>3. fallen \in GoodRow  BY <2>1, <2>2
    <2>4. r \in GoodRow
      <3>1. (p \notin ObdProtocols) \in BOOLEAN  OBVIOUS
      <3> QED BY <2>2, <2>3, <3>1
    <2>5. rt' = [rt EXCEPT ![p] = r]  BY <1>4 DEF S3Timeout
    <2>6. rt' \in Rows  BY <1>1, <2>4, <2>5, UpdateRows
    <2>7. dsp' \in DspType /\ (dsp'.work # "none" => dsp.work # "none")
      BY <1>1, <1>4, DspHelpers DEF S3Timeout
    <2>8. active' \in Protocols \cup {NoProtocol}
      BY <1>4 DEF S3Timeout, ActiveAfterTimeout, IInv, RestOK
    <2> QED BY <1>2, <1>4, <2>6, <2>7, <2>8 DEF S3Timeout, IInv, RestOK, RequestKnown
  <1> QED BY <1>3, <1>4

(* DslMain stays on the configured rows. *)
LEMMA NextRowType == ASSUME IInv, NextRow PROVE main' \in MainType /\ tpRx' = tpRx
  <1>1. main.row \in Protocols /\ NProtocols \in Nat \ {0}
    BY ConfigAssumption DEF IInv, RestOK, MainType
  <1>2. main.row < NProtocols => main.row + 1 \in Protocols  BY <1>1 DEF Protocols
  <1>3. 1 \in Protocols  BY <1>1 DEF Protocols
  <1> QED BY <1>1, <1>2, <1>3 DEF NextRow, MainType

(* A step on the response buffer of a row, with or without a new request. *)
LEMMA TxStep ==
  ASSUME IInv, NextRow, rt' \in Rows, dsp' \in DspType, preemption' \in {"none", "waiting", "told"},
         active' \in Protocols \cup {NoProtocol}, msg' \in MsgType,
         tpTx' \in [Protocols -> {"idle", "ext", "local"}],
         msg'.indication \/ dsp'.work # "none" => msg'.pdu \in RxPdus
  PROVE IInv'
  BY NextRowType DEF IInv, RestOK, RequestKnown

(* A responsePending of DslMain keeps the invariant. *)
LEMMA TxResponsePendingStep == ASSUME IInv, TxResponsePending PROVE IInv'
  <1> DEFINE p == main.row
             r == SendLocal(rt, p)[p]
             s == [r EXCEPT !.p2 = P2StarServer, !.pend = Decremented(@)]
  <1>1. p \in Protocols /\ rt \in Rows  BY DEF IInv, RestOK, MainType
  <1>2. SendLocal(rt, p) \in Rows /\ r \in GoodRow  BY <1>1, SendLocalRows DEF Rows
  <1>3. Decremented(r.pend) \in Nat  BY <1>2, DecrementedNat DEF GoodRow, RuntimeType
  <1>4. s \in GoodRow  BY <1>2, <1>3, ConfigAssumption DEF GoodRow, RuntimeType
  <1>5. rt' = [SendLocal(rt, p) EXCEPT ![p] = s]
    BY <1>1, <1>2 DEF TxResponsePending, Rows
  <1>6. rt' \in Rows  BY <1>1, <1>2, <1>4, <1>5, UpdateRows
  <1>7. tpTx' \in [Protocols -> {"idle", "ext", "local"}]
    BY TpAfterLocalType DEF TxResponsePending, IInv
  <1>8. msg' \in MsgType /\ msg'.indication = msg.indication /\ msg'.pdu = msg.pdu
    BY DEF TxResponsePending, IInv, RestOK, MsgType
  <1>9. NextRow /\ UNCHANGED <<active, preemption, dsp>>  BY DEF TxResponsePending
  <1> QED BY <1>6, <1>7, <1>8, <1>9, TxStep DEF IInv, RestOK, RequestKnown

(* The generalReject at the end of the responsePendings keeps the invariant. *)
LEMMA TxGeneralRejectStep == ASSUME IInv, TxGeneralReject PROVE IInv'
  <1> DEFINE p == main.row
  <1>1. p \in Protocols /\ rt \in Rows /\ dsp \in DspType /\ msg \in MsgType
    BY DEF IInv, RestOK, MainType
  <1>2. SendLocal(rt, p) \in Rows /\ SendLocal(rt, p)[p] \in GoodRow
    BY <1>1, SendLocalRows DEF Rows
  <1>3. ReleaseBuffers(SendLocal(rt, p)[p]) \in GoodRow  BY <1>2, ReleaseBuffersRow
  <1>4. rt' \in Rows  BY <1>1, <1>2, <1>3, UpdateRows DEF TxGeneralReject
  <1>5. dsp' \in DspType /\ dsp'.work = "none"
    BY <1>1 DEF TxGeneralReject, CancelPending, DspType
  <1>6. tpTx' \in [Protocols -> {"idle", "ext", "local"}]
    BY TpAfterLocalType DEF TxGeneralReject, IInv
  <1>7. msg' \in MsgType /\ (msg'.indication \/ dsp'.work # "none" => msg'.pdu \in RxPdus)
    <2>1. msg' = Remember(msg, FALSE)  BY DEF TxGeneralReject
    <2>2. msg.indication \/ dsp'.work # "none" => msg.pdu \in RxPdus
      BY <1>5 DEF IInv, RequestKnown
    <2>3. FALSE \in BOOLEAN  OBVIOUS
    <2> QED BY <1>1, <2>1, <2>2, <2>3, RememberMsg
  <1>8. NextRow /\ UNCHANGED <<active, preemption>>  BY DEF TxGeneralReject
  <1> QED BY <1>4, <1>5, <1>6, <1>7, <1>8, TxStep DEF IInv, RestOK

(* Transmitting the response, or failing to, keeps the invariant. *)
LEMMA TxResponseStep == ASSUME IInv, TxResponse PROVE IInv'
  <1> DEFINE p == main.row
             signalled == [rt[p] EXCEPT !.extTx = "DCM_TRANSMIT_SIGNALED"]
             freed == ReleaseBuffers(StartS3(rt[p]))
  <1>1. p \in Protocols /\ rt \in Rows /\ rt[p] \in GoodRow
    BY DEF IInv, RestOK, MainType, Rows
  <1>2. signalled \in GoodRow  BY <1>1 DEF GoodRow, RuntimeType, TxStatus
  <1>3. freed \in GoodRow  BY <1>1, StartS3Row, ReleaseBuffersRow
  <1>4. \/ rt' = [rt EXCEPT ![p] = signalled] /\ tpTx' = [tpTx EXCEPT ![p] = "ext"]
        \/ rt' = [rt EXCEPT ![p] = freed] /\ tpTx' = tpTx
    BY DEF TxResponse
  <1>5. rt' \in Rows  BY <1>1, <1>2, <1>3, <1>4, UpdateRows
  <1>6. tpTx' \in [Protocols -> {"idle", "ext", "local"}]  BY <1>4 DEF IInv, RestOK
  <1>7. NextRow /\ UNCHANGED <<active, preemption, msg, dsp>>  BY DEF TxResponse
  <1> QED BY <1>5, <1>6, <1>7, TxStep DEF IInv, RestOK, RequestKnown

(* A preemption in progress keeps the invariant. *)
LEMMA TxPreemptingStep == ASSUME IInv, TxPreempting PROVE IInv'
  <1> DEFINE p == main.row
             tell == preemption = "waiting" /\ LocalFree(p)
             reset == [dsp EXCEPT !.change = NoChange]
             told(accepted) == IF ~tell THEN rt
                               ELSE [SendLocal(rt, p) EXCEPT
                                       ![p] = IF accepted THEN ReleaseRx(@) ELSE @]
             timed(accepted) == [told(accepted) EXCEPT ![p].preempt = Decremented(@)]
             closed(accepted) == CloseActive(timed(accepted))
             freed(accepted) == IF timed(accepted)[active].extTx = "NOT_IN_USE"
                                THEN closed(accepted)
                                ELSE [closed(accepted) EXCEPT ![active] = ReleaseBuffers(@)]
  <1>1. p \in Protocols /\ rt \in Rows /\ dsp \in DspType /\ active \in Protocols
    BY ZenonT(45) DEF TxPreempting, IInv, RestOK, MainType
  <1>2. NextRow /\ msg' = msg  BY DEF TxPreempting
  <1>3. ASSUME NEW accepted \in BOOLEAN
        PROVE told(accepted) \in Rows
    <2>1. SendLocal(rt, p) \in Rows /\ SendLocal(rt, p)[p] \in GoodRow
      BY <1>1, SendLocalRows DEF Rows
    <2>2. (IF accepted THEN ReleaseRx(SendLocal(rt, p)[p]) ELSE SendLocal(rt, p)[p]) \in GoodRow
      BY <2>1, ReleaseRxRow
    <2> QED BY <1>1, <2>1, <2>2, UpdateRows
  <1>4. ASSUME NEW accepted \in BOOLEAN
        PROVE timed(accepted) \in Rows
    <2> HIDE DEF told
    <2>1. told(accepted) \in Rows /\ told(accepted)[p] \in GoodRow  BY <1>1, <1>3 DEF Rows
    <2>2. Decremented(told(accepted)[p].preempt) \in Nat
      BY <2>1, DecrementedNat DEF GoodRow, RuntimeType
    <2>3. [told(accepted)[p] EXCEPT !.preempt = Decremented(@)] \in GoodRow
      BY <2>1, <2>2 DEF GoodRow, RuntimeType
    <2>4. timed(accepted) = [told(accepted) EXCEPT ![p] =
                               [told(accepted)[p] EXCEPT !.preempt = Decremented(@)]]
      BY <1>1, <2>1 DEF Rows
    <2> QED BY <1>1, <2>1, <2>3, <2>4, UpdateRows
  <1>5. ASSUME NEW accepted \in BOOLEAN
        PROVE [freed(accepted) EXCEPT ![p] = ReleaseBuffers(@)] \in Rows
    <2> HIDE DEF timed
    <2>1. closed(accepted) \in Rows /\ closed(accepted)[active] \in GoodRow
      BY <1>1, <1>4, CloseActiveRows DEF Rows
    <2>2. ReleaseBuffers(closed(accepted)[active]) \in GoodRow  BY <2>1, ReleaseBuffersRow
    <2>3. freed(accepted) \in Rows  BY <1>1, <2>1, <2>2, UpdateRows
    <2>4. ReleaseBuffers(freed(accepted)[p]) \in GoodRow  BY <1>1, <2>3, ReleaseBuffersRow DEF Rows
    <2> QED BY <1>1, <2>3, <2>4, UpdateRows
  <1>6. reset \in DspType /\ reset.work = dsp.work  BY <1>1 DEF DspType
  <1>7. DspInit(reset) \in DspType /\ (DspInit(reset).work # "none" => dsp.work # "none")
    BY <1>6 DEF DspType, DspInit
  <1>8. PICK accepted \in Accepts(p, "transmitLocal") :
          /\ tpTx' = IF tell THEN TpAfterLocal(p, accepted) ELSE tpTx
          /\ \/ /\ rt' = [freed(accepted) EXCEPT ![p] = ReleaseBuffers(@)]
                /\ active' = NoProtocol
                /\ preemption' = "none"
                /\ dsp' = IF timed(accepted)[active].extTx = "NOT_IN_USE"
                          THEN reset ELSE DspInit(reset)
             \/ /\ rt' = timed(accepted)
                /\ preemption' = IF tell /\ accepted THEN "told" ELSE preemption
                /\ UNCHANGED <<active, dsp>>
    BY ZenonT(45) DEF TxPreempting
  <1>9. accepted \in BOOLEAN  BY DEF Accepts
  <1>10. tpTx' \in [Protocols -> {"idle", "ext", "local"}]
    BY <1>8, TpAfterLocalType DEF IInv, RestOK
  <1> HIDE DEF freed, timed, told, reset, tell
  <1>11. /\ rt' \in Rows /\ dsp' \in DspType /\ (dsp'.work # "none" => dsp.work # "none")
         /\ active' \in Protocols \cup {NoProtocol}
         /\ preemption' \in {"none", "waiting", "told"}
    BY <1>1, <1>4, <1>5, <1>6, <1>7, <1>8, <1>9 DEF IInv, RestOK
  <1> QED BY <1>2, <1>10, <1>11, TxStep, SMTT(30) DEF IInv, RestOK, RequestKnown

(* DslMain keeps the invariant. *)
LEMMA DslMainStep == ASSUME IInv, DslMain PROVE IInv'
  <1>1. CASE S3Running \/ S3Timeout  BY <1>1, S3Step
  <1>2. CASE TxNothing
    BY <1>2, NextRowType DEF TxNothing, IInv, RestOK, RequestKnown
  <1>3. CASE TxP2Running
    <2> DEFINE p == main.row
               n == Decremented(rt[p].p2)
    <2>1. p \in Protocols /\ rt \in Rows /\ rt[p] \in GoodRow
      BY DEF IInv, RestOK, MainType, Rows
    <2>2. n \in Nat  BY <2>1, DecrementedNat DEF GoodRow, RuntimeType
    <2>3. [rt[p] EXCEPT !.p2 = n] \in GoodRow  BY <2>1, <2>2 DEF GoodRow, RuntimeType
    <2>4. rt' = [rt EXCEPT ![p] = [rt[p] EXCEPT !.p2 = n]]  BY <1>3 DEF TxP2Running
    <2>5. rt' \in Rows  BY <2>1, <2>3, <2>4, UpdateRows
    <2> QED BY <1>3, <2>5, TxStep DEF TxP2Running, IInv, RestOK, RequestKnown
  <1> QED BY <1>1, <1>2, <1>3, TxResponsePendingStep, TxGeneralRejectStep, TxResponseStep,
             TxPreemptingStep DEF DslMain

(* Dcm_MainFunction keeps the invariant. *)
LEMMA MainFunctionStep == ASSUME IInv, MainFunction PROVE IInv'
  <1>1. CASE DereferencesNull
    BY <1>1 DEF DereferencesNull, IInv, RestOK, RequestKnown, MainType
  <1> QED BY <1>1, StartProtocolRequestStep, DsdMainStep, DspMainStep, DslMainStep
       DEF MainFunction

(* Dcm_ResetToDefaultSession keeps the invariant. *)
LEMMA ResetToDefaultSessionStep == ASSUME IInv, ResetToDefaultSession PROVE IInv'
  <1>1. rt \in Rows /\ dsp \in DspType /\ active \in Protocols \cup {NoProtocol}
    BY DEF IInv, RestOK
  <1>2. rt' \in Rows
    <2>1. "DEFAULT" \in Sessions  BY DEF Sessions
    <2> QED BY <1>1, <2>1, SetSesCtrlTypeRows DEF ResetToDefaultSession
  <1>3. dsp' \in DspType /\ (dsp'.work # "none" => dsp.work # "none")
    BY <1>1, SetSesCtrlTypeDspType DEF ResetToDefaultSession
  <1> QED BY <1>2, <1>3 DEF ResetToDefaultSession, IInv, RestOK, RequestKnown

-----------------------------------------------------------------------------
(* The theorems. *)

(* Dcm_Init establishes the invariant. *)
LEMMA InitIInv == Init => IInv
  <1> SUFFICES ASSUME Init PROVE IInv  OBVIOUS
  <1>1. InitialRuntime \in GoodRow
    BY DEF InitialRuntime, GoodRow, RuntimeType, RxStatus, TxStatus, LocalStatus, Sessions
  <1>2. rt \in Rows  BY <1>1 DEF Init, Rows
  <1>3. 1 \in Protocols  BY ConfigAssumption DEF Protocols
  <1> QED BY <1>2, <1>3 DEF Init, IInv, RestOK, RequestKnown, MsgType, NoRequest, DspType, MainType

(* Every step keeps the invariant. *)
LEMMA NextIInv == IInv /\ [Next]_vars => IInv'
  <1> SUFFICES ASSUME IInv, [Next]_vars PROVE IInv'  OBVIOUS
  <1>1. ASSUME NEW pdu \in RxPdus, Receive(pdu) PROVE IInv'
    BY <1>1, StartOfReceptionStep, TpRxIndicationStep DEF Receive
  <1>2. ASSUME NEW p \in Protocols, Transmit(p) PROVE IInv'
    BY <1>2, CopyTxDataStep, TpTxConfirmationStep DEF Transmit
  <1>3. CASE UNCHANGED vars  BY <1>3 DEF vars, IInv, RestOK, RequestKnown
  <1> QED BY <1>1, <1>2, <1>3, MainFunctionStep, ResetToDefaultSessionStep DEF Next

(* In every reachable state the rows are well-formed, their buffers agree with the
   busy flags and a pending service knows its request (Dcm_Dsl.c, Dcm_Dsd.c). *)
THEOREM Consistency == Spec => []IInv
  <1> QED BY InitIInv, NextIInv, PTL DEF Spec

(* Every variable keeps its type, for any number of protocols, PDUs and     *)
(* sessions and any timer values (Dcm_Dsl.c, Dcm_Dsd.c and Dcm_Dsp.c).     *)
THEOREM TypeCorrect == Spec => []TypeOK
  <1>1. IInv => TypeOK  BY DEF IInv, RestOK, TypeOK, Rows, GoodRow
  <1> QED BY <1>1, Consistency, PTL

(* The busy flag of a receive buffer never disagrees with the row that      *)
(* owns the buffer: releaseExternalRxTxBuffers and the two places that      *)
(* release only the receive side always undo what DslStartOfReception set. *)
THEOREM BufferHeld == Spec => []BufferHeldIffInUse
  <1>1. IInv => BufferHeldIffInUse  BY DEF IInv, Rows, GoodRow, BufferHeldIffInUse
  <1> QED BY <1>1, Consistency, PTL

-----------------------------------------------------------------------------
(***************************************************************************)
(* One protocol at a time: the started row is the active one.  It holds    *)
(* when no warm start picks the first protocol (Dcm_Dsl.c,                 *)
(* DslDspSilentlyStartProtocol starts a row without stopping another one)  *)
(* and when at most one row is an OBD one (DslMain forgets the active      *)
(* protocol when the session of any OBD row times out).                    *)
(***************************************************************************)
NoWarmStart == StartupProtocols = {}
OneObdProtocol == \A p, q \in ObdProtocols : p = q

SameStarted(old, new) == \A q \in Protocols : new[q].started = old[q].started

-----------------------------------------------------------------------------
(* The helpers start and stop no protocol. *)

(* The helpers on one row leave protocolStarted alone. *)
LEMMA RowStarted ==
  ASSUME NEW r \in GoodRow
  PROVE /\ StartS3(r).started = r.started
        /\ ReleaseRx(r).started = r.started
        /\ ReleaseBuffers(r).started = r.started
        /\ ResponseReady(r).started = r.started
        /\ HandToDsd(r).started = r.started
        /\ \A new : ChangeSession(r, new).started = r.started
  BY DEF GoodRow, RuntimeType, StartS3, ReleaseRx, ReleaseBuffers, ResponseReady, HandToDsd,
         ChangeSession

(* An update of a row that leaves its protocolStarted alone changes none. *)
LEMMA SameUpdate ==
  ASSUME NEW rts \in Rows, NEW p \in Protocols, NEW r, r.started = rts[p].started
  PROVE SameStarted(rts, [rts EXCEPT ![p] = r])
  BY DEF SameStarted, Rows

(* Such updates compose. *)
LEMMA SameTransitive ==
  ASSUME NEW a, NEW b, NEW c, SameStarted(a, b), SameStarted(b, c)
  PROVE SameStarted(a, c)
  BY DEF SameStarted

(* No update changes none. *)
LEMMA SameReflexive == ASSUME NEW a PROVE SameStarted(a, a)
  BY DEF SameStarted

(* DslResetSessionTimeoutTimer starts and closes no protocol. *)
LEMMA TimerSame ==
  ASSUME NEW rts \in Rows, active \in Protocols \cup {NoProtocol}
  PROVE SameStarted(rts, ResetSessionTimeoutTimer(rts))
  <1>1. CASE active = NoProtocol
    BY <1>1, SameReflexive DEF ResetSessionTimeoutTimer
  <1>2. CASE active # NoProtocol
    <2>1. StartS3(rts[active]).started = rts[active].started  BY <1>2, RowStarted DEF Rows
    <2> QED BY <1>2, <2>1, SameUpdate DEF ResetSessionTimeoutTimer
  <1> QED BY <1>1, <1>2

(* DslSetSesCtrlType starts and closes no protocol. *)
LEMMA SetSesCtrlTypeSame ==
  ASSUME NEW rts \in Rows, NEW new \in Sessions, active \in Protocols \cup {NoProtocol}
  PROVE SameStarted(rts, SetSesCtrlType(rts, new))
  <1>1. CASE active = NoProtocol
    BY <1>1, SameReflexive DEF SetSesCtrlType
  <1>2. CASE active # NoProtocol
    <2>1. rts[active] \in GoodRow  BY <1>2 DEF Rows
    <2>2. ChangeSession(rts[active], new) \in GoodRow  BY <2>1, ChangeSessionRow
    <2>3. StartS3(ChangeSession(rts[active], new)).started = rts[active].started
      BY <2>1, <2>2, RowStarted
    <2> QED BY <1>2, <2>3, SameUpdate DEF SetSesCtrlType
  <1> QED BY <1>1, <1>2

(* Local responses start and close no protocol. *)
LEMMA LocalSame ==
  ASSUME NEW rts \in Rows, NEW p \in Protocols
  PROVE SameStarted(rts, SendLocal(rts, p)) /\ SameStarted(rts, FreeLocal(rts, p))
  <1>1. ASSUME NEW r \in GoodRow, NEW x PROVE [r EXCEPT !.locTx = x].started = r.started
    BY DEF GoodRow, RuntimeType
  <1> QED BY <1>1, SameUpdate DEF SendLocal, FreeLocal, Rows

(* DspDcmConfirmation starts and closes no protocol. *)
LEMMA ConfirmedSame ==
  ASSUME NEW rts \in Rows, NEW d \in DspType, NEW p \in Protocols, NEW ok \in BOOLEAN,
         active \in Protocols \cup {NoProtocol}
  PROVE SameStarted(rts, ConfirmedRt(rts, d, p, ok))
  <1> DEFINE timed == ResetSessionTimeoutTimer(rts)
  <1>1. timed \in Rows /\ SameStarted(rts, timed)
    BY ResetSessionTimeoutTimerRows, TimerSame
  <1>2. CASE ok /\ d.change.by = p
    <2>1. d.change.to \in Sessions  BY <1>2, ChangeToSession
    <2>2. SameStarted(timed, SetSesCtrlType(timed, d.change.to))
      BY <1>1, <2>1, SetSesCtrlTypeSame
    <2> QED BY <1>1, <1>2, <2>2, SameTransitive DEF ConfirmedRt
  <1>3. CASE ~(ok /\ d.change.by = p)  BY <1>1, <1>3 DEF ConfirmedRt
  <1> QED BY <1>2, <1>3

(* A suppressed response starts and closes no protocol. *)
LEMMA SuppressedSame ==
  ASSUME msg.pdu \in RxPdus, NEW rts \in Rows
  PROVE SameStarted(rts, Suppressed(rts))
  <1>1. Requester \in Protocols /\ rts[Requester] \in GoodRow  BY RequesterRow DEF Rows
  <1> QED BY <1>1, RowStarted, SameUpdate DEF Suppressed

(* A signalled response starts and closes no protocol. *)
LEMMA ReadySame ==
  ASSUME msg.pdu \in RxPdus, NEW rts \in Rows
  PROVE SameStarted(rts, [rts EXCEPT ![Requester] = ResponseReady(@)])
  <1>1. Requester \in Protocols /\ rts[Requester] \in GoodRow  BY RequesterRow DEF Rows
  <1> QED BY <1>1, RowStarted, SameUpdate

(* Nor does a positive response. *)
LEMMA AnswerPositiveSame ==
  ASSUME RestOK, msg.pdu \in RxPdus, NEW rts \in Rows, NEW d \in DspType,
         NEW suppress \in BOOLEAN, AnswerPositive(rts, d, suppress)
  PROVE SameStarted(rts, rt')
  <1>1. Requester \in Protocols  BY RequesterRow
  <1>2. CASE suppress
    <2> DEFINE confirmed == ConfirmedRt(rts, d, Requester, TRUE)
    <2>1. TRUE \in BOOLEAN /\ active \in Protocols \cup {NoProtocol}  BY DEF RestOK
    <2>2. confirmed \in Rows /\ SameStarted(rts, confirmed)
      BY <1>1, <2>1, ConfirmedRows, ConfirmedSame
    <2>3. confirmed[Requester] \in GoodRow  BY <1>1, <2>2 DEF Rows
    <2>4. rt' = [confirmed EXCEPT ![Requester] = ReleaseBuffers(@)]
      BY <1>2 DEF AnswerPositive
    <2> HIDE DEF confirmed
    <2>5. SameStarted(confirmed, rt')  BY <1>1, <2>2, <2>3, <2>4, RowStarted, SameUpdate
    <2> QED BY <2>2, <2>5, SameTransitive
  <1>3. CASE ~suppress  BY <1>3, ReadySame DEF AnswerPositive
  <1> QED BY <1>2, <1>3

(* Nor does a negative one. *)
LEMMA AnswerNegativeSame ==
  ASSUME msg.pdu \in RxPdus, NEW rts \in Rows, NEW d, AnswerNegative(rts, d)
  PROVE SameStarted(rts, rt')
  BY ReadySame, SuppressedSame DEF AnswerNegative

(* Nor does unlocking. *)
LEMMA UnlockSame ==
  ASSUME NEW rts \in Rows, active \in Protocols
  PROVE SameStarted(rts, Unlock(rts))
  <1>1. ASSUME NEW r \in GoodRow PROVE [r EXCEPT !.unlocked = TRUE].started = r.started
    BY DEF GoodRow, RuntimeType
  <1> QED BY <1>1, SameUpdate DEF Unlock, Rows

(* Nor does a forced responsePending. *)
LEMMA ForceResponsePendingSame ==
  ASSUME IInv, msg.pdu \in RxPdus, NEW m, NEW suppress, ForceResponsePending(m, suppress)
  PROVE SameStarted(rt, rt')
  <1> DEFINE sent == SendLocal(rt, Requester)
  <1>1. Requester \in Protocols /\ rt \in Rows  BY RequesterRow DEF IInv
  <1>2. sent \in Rows /\ SameStarted(rt, sent)  BY <1>1, SendLocalRows, LocalSame
  <1>3. ASSUME NEW r \in GoodRow, NEW x, NEW y
        PROVE [r EXCEPT !.p2 = x, !.pend = y].started = r.started
    BY DEF GoodRow, RuntimeType
  <1>4. rt' = [sent EXCEPT ![Requester] =
                 [sent[Requester] EXCEPT !.p2 = P2StarServer + 1, !.pend = Decremented(@)]]
    BY <1>1, <1>2 DEF ForceResponsePending, Rows
  <1> HIDE DEF sent
  <1>5. SameStarted(sent, rt')  BY <1>1, <1>2, <1>3, <1>4, SameUpdate DEF Rows
  <1> QED BY <1>2, <1>5, SameTransitive

-----------------------------------------------------------------------------
(* Every step keeps the started row and the active one together. *)

(* A step that starts and closes no protocol and keeps the active one keeps the property. *)
LEMMA SameStep ==
  ASSUME ActiveIsStarted, SameStarted(rt, rt'), active' = active
  PROVE ActiveIsStarted'
  BY DEF ActiveIsStarted, SameStarted

(* The start of a reception keeps the property. *)
LEMMA StartOfReceptionActive ==
  ASSUME IInv, ActiveIsStarted, NEW pdu \in RxPdus, StartOfReception(pdu)
  PROVE ActiveIsStarted'
  <1> DEFINE p == ProtocolOf[pdu]
             stopped == [rt[p] EXCEPT !.s3On = FALSE]
             ext == [stopped EXCEPT !.extRx = "PROVIDED_TO_PDUR", !.busy = TRUE, !.pdu = pdu]
             loc == [stopped EXCEPT !.locRx = "PROVIDED_TO_PDUR", !.locPdu = pdu]
  <1>1. p \in Protocols /\ rt[p] \in GoodRow /\ rt \in Rows  BY RowOfPdu DEF IInv
  <1>2. ext.started = rt[p].started /\ loc.started = rt[p].started
    BY <1>1 DEF GoodRow, RuntimeType
  <1>3. rt' = [rt EXCEPT ![p] = ext] \/ rt' = [rt EXCEPT ![p] = loc]
    BY DEF StartOfReception
  <1> HIDE DEF ext, loc
  <1>4. SameStarted(rt, rt')  BY <1>1, <1>2, <1>3, SameUpdate
  <1> QED BY <1>4, SameStep DEF StartOfReception

(* A row that starts while no other one is started. *)
LEMMA StartsRow ==
  ASSUME NEW rts \in Rows, NEW p \in Protocols,
         \A q \in Protocols : ~rts[q].started,
         rt' = [rts EXCEPT ![p] = HandToDsd(StartRow(@, p))], active' = p
  PROVE ActiveIsStarted'
  <1>1. rts[p] \in GoodRow  BY DEF Rows
  <1>2. StartRow(rts[p], p) \in GoodRow  BY <1>1, StartRowRow
  <1>3. StartRow(rts[p], p).started  BY <1>1 DEF GoodRow, RuntimeType, StartRow, ChangeSession
  <1>4. HandToDsd(StartRow(rts[p], p)).started  BY <1>2, <1>3, RowStarted
  <1> QED BY <1>4 DEF ActiveIsStarted, Rows

(* Closing the active row leaves none started. *)
LEMMA ClosesActive ==
  ASSUME NEW rts \in Rows, active \in Protocols,
         \A q \in Protocols : rts[q].started <=> active = q
  PROVE \A q \in Protocols : ~CloseActive(rts)[q].started
  <1>1. ASSUME NEW r \in GoodRow PROVE ~[r EXCEPT !.started = FALSE].started
    BY DEF GoodRow, RuntimeType
  <1> QED BY <1>1 DEF CloseActive, Rows

(* Every branch of DslTpRxIndicationFromPduR keeps it: a protocol starts only
   as the active one, after the one before it was closed. *)
LEMMA TpRxIndicationActive ==
  ASSUME IInv, ActiveIsStarted, NEW pdu \in RxPdus, TpRxIndication(pdu)
  PROVE ActiveIsStarted'
  <1> DEFINE p == ProtocolOf[pdu]
             timed == ResetSessionTimeoutTimer(rt)
  <1>1. p \in Protocols /\ rt[p] \in GoodRow /\ rt \in Rows
        /\ active \in Protocols \cup {NoProtocol}
    BY RowOfPdu DEF IInv, RestOK
  <1>2. timed \in Rows /\ SameStarted(rt, timed) /\ timed[p] \in GoodRow
    BY <1>1, ResetSessionTimeoutTimerRows, TimerSame DEF Rows
  <1>3. CASE RxFailed(pdu)
    <2>1. rt' = [timed EXCEPT ![p] = ReleaseRx(@)] /\ active' = active
      BY <1>3 DEF RxFailed
    <2> HIDE DEF timed
    <2>2. SameStarted(timed, rt')  BY <1>1, <1>2, <2>1, RowStarted, SameUpdate
    <2> QED BY <1>2, <2>1, <2>2, SameTransitive, SameStep
  <1>4. CASE RxTesterPresent(pdu)
    <2>1. ReleaseRx(rt[p]) \in GoodRow  BY <1>1, ReleaseRxRow
    <2>2. StartS3(ReleaseRx(rt[p])).started = rt[p].started  BY <1>1, <2>1, RowStarted
    <2> QED BY <1>1, <1>4, <2>2, SameUpdate, SameStep DEF RxTesterPresent
  <1>5. CASE RxRequest(pdu)
    <2>1. HandToDsd(rt[p]).started = rt[p].started  BY <1>1, RowStarted
    <2> QED BY <1>1, <1>5, <2>1, SameUpdate, SameStep DEF RxRequest
  <1>6. CASE RxStartsProtocol(pdu)
    <2>1. \A q \in Protocols : ~rt[q].started
      BY <1>6 DEF RxStartsProtocol, ActiveIsStarted, Protocols, NoProtocol
    <2> QED BY <1>1, <1>6, <2>1, StartsRow DEF RxStartsProtocol
  <1>7. CASE RxPreemptsIdle(pdu)
    <2>1. active \in Protocols  BY <1>1, <1>7 DEF RxPreemptsIdle, Outranks
    <2>2. CloseActive(rt) \in Rows  BY <1>1, <2>1, CloseActiveRows
    <2>3. \A q \in Protocols : ~CloseActive(rt)[q].started
      BY <1>1, <2>1, ClosesActive DEF ActiveIsStarted
    <2> QED BY <1>1, <1>7, <2>2, <2>3, StartsRow DEF RxPreemptsIdle
  <1>8. CASE RxPreemptsBusy(pdu)
    <2> DEFINE n == PreemptTimer(rt[p])
               r == [rt[p] EXCEPT !.extTx = "PREEMPT_TRANSMIT_NRC", !.pend = MaxNumRespPend,
                                  !.preempt = n]
    <2>1. r.started = rt[p].started  BY <1>1 DEF GoodRow, RuntimeType
    <2>2. rt' = [rt EXCEPT ![p] = r]  BY <1>1, <1>8 DEF RxPreemptsBusy, Rows
    <2> HIDE DEF r
    <2>3. SameStarted(rt, rt')  BY <1>1, <2>1, <2>2, SameUpdate
    <2>4. active' = active  BY <1>8 DEF RxPreemptsBusy
    <2> QED BY <2>3, <2>4, SameStep
  <1>9. CASE RxStartRefused(pdu)
    BY <1>9, SameReflexive, SameStep DEF RxStartRefused
  <1>10. CASE RxOutranked(pdu)
    BY <1>1, <1>10, RowStarted, SameUpdate, SameStep DEF RxOutranked
  <1>11. CASE RxLocal(pdu)
    <2> DEFINE Freed(r) == [r EXCEPT !.locRx = "NOT_IN_USE", !.locPdu = NoPdu]
    <2>1. ASSUME NEW r \in GoodRow PROVE Freed(r).started = r.started
      BY DEF GoodRow, RuntimeType
    <2>2. StartS3(rt[p]) \in GoodRow /\ StartS3(rt[p]).started = rt[p].started
      BY <1>1, StartS3Row, RowStarted
    <2> HIDE DEF Freed, timed
    <2>3. /\ \/ rt' = [rt EXCEPT ![p] = Freed(StartS3(@))]
             \/ rt' = [rt EXCEPT ![p] = Freed(@)]
             \/ rt' = [timed EXCEPT ![p] = Freed(@)]
          /\ active' = active
      BY <1>11 DEF RxLocal, Freed, timed
    <2>4. CASE rt' = [rt EXCEPT ![p] = Freed(StartS3(@))] \/ rt' = [rt EXCEPT ![p] = Freed(@)]
      BY <1>1, <2>1, <2>2, <2>3, <2>4, SameUpdate, SameStep
    <2>5. CASE rt' = [timed EXCEPT ![p] = Freed(@)]
      <3>1. SameStarted(timed, rt')  BY <1>1, <1>2, <2>1, <2>5, SameUpdate
      <3> QED BY <1>2, <2>3, <3>1, SameTransitive, SameStep
    <2> QED BY <2>3, <2>4, <2>5
  <1>12. CASE RxOrphan(pdu)
    BY <1>12, SameReflexive, SameStep DEF RxOrphan
  <1> QED BY <1>3, <1>4, <1>5, <1>6, <1>7, <1>8, <1>9, <1>10, <1>11, <1>12 DEF TpRxIndication

(* The callbacks for transmissions keep it. *)
LEMMA TransmitActive ==
  ASSUME IInv, ActiveIsStarted, NEW p \in Protocols, Transmit(p)
  PROVE ActiveIsStarted'
  <1>1. rt \in Rows /\ rt[p] \in GoodRow /\ dsp \in DspType
        /\ active \in Protocols \cup {NoProtocol}
    BY DEF IInv, Rows, RestOK
  <1>2. CASE CopyTxData(p)
    <2>1. /\ [rt[p] EXCEPT !.extTx = "PROVIDED_TO_PDUR"].started = rt[p].started
          /\ [rt[p] EXCEPT !.locTx = "PROVIDED_TO_PDUR"].started = rt[p].started
      BY <1>1 DEF GoodRow, RuntimeType
    <2>2. \/ rt' = [rt EXCEPT ![p] = [rt[p] EXCEPT !.extTx = "PROVIDED_TO_PDUR"]]
          \/ rt' = [rt EXCEPT ![p] = [rt[p] EXCEPT !.locTx = "PROVIDED_TO_PDUR"]]
      BY <1>2 DEF CopyTxData
    <2> QED BY <1>1, <1>2, <2>1, <2>2, SameUpdate, SameStep, ZenonT(45) DEF CopyTxData
  <1>3. CASE \E ok \in BOOLEAN : TpTxConfirmation(p, ok)
    <2>1. PICK ok \in BOOLEAN : TpTxConfirmation(p, ok)  BY <1>3
    <2> DEFINE sent == ok /\ rt[p].extTx = "PROVIDED_TO_PDUR"
               released == [rt EXCEPT ![p] = StartS3(ReleaseBuffers(@))]
    <2>2. \/ rt' = ConfirmedRt(released, dsp, p, sent)
          \/ rt' = FreeLocal(rt, p) \/ rt' = rt
      BY <2>1 DEF TpTxConfirmation
    <2>3. active' = active  BY <2>1 DEF TpTxConfirmation
    <2>4. ReleaseBuffers(rt[p]) \in GoodRow  BY <1>1, ReleaseBuffersRow
    <2>5. /\ StartS3(ReleaseBuffers(rt[p])) \in GoodRow
          /\ StartS3(ReleaseBuffers(rt[p])).started = rt[p].started
      BY <1>1, <2>4, StartS3Row, RowStarted
    <2>6. released \in Rows /\ SameStarted(rt, released) /\ sent \in BOOLEAN
      BY <1>1, <2>5, UpdateRows, SameUpdate
    <2> HIDE DEF released, sent
    <2>7. SameStarted(released, ConfirmedRt(released, dsp, p, sent))
      BY <1>1, <2>6, ConfirmedSame
    <2>8. SameStarted(rt, rt')
      BY <1>1, <2>2, <2>6, <2>7, SameTransitive, SameReflexive, LocalSame
    <2> QED BY <2>3, <2>8, SameStep
  <1> QED BY <1>2, <1>3 DEF Transmit

(* DsdMain keeps it. *)
LEMMA DsdMainActive == ASSUME IInv, ActiveIsStarted, DsdMain PROVE ActiveIsStarted'
  <1>1. rt \in Rows /\ dsp \in DspType /\ RestOK  BY DEF IInv, RestOK
  <1>2. ASSUME DsdTakes PROVE msg.pdu \in RxPdus /\ active' = active
    BY <1>2 DEF DsdTakes, IInv, RequestKnown
  <1>3. CASE DsdIdle  BY <1>3, SameReflexive, SameStep DEF DsdIdle
  <1>4. CASE DsdDiscards
    BY <1>1, <1>2, <1>4, SuppressedSame, SameStep DEF DsdDiscards
  <1>5. CASE DsdRefuses
    BY <1>1, <1>2, <1>5, AnswerNegativeSame, SameStep DEF DsdRefuses
  <1>6. CASE DsdServes
    <2>1. DsdTakes  BY <1>6 DEF DsdServes
    <2>2. \/ \E suppress \in BOOLEAN : AnswerPositive(rt, dsp, suppress)
          \/ AnswerNegative(rt, dsp)
          \/ rt' = rt
          \/ \E suppress \in BOOLEAN : ForceResponsePending(Taken, suppress)
      BY <1>6 DEF DsdServes
    <2>3. SameStarted(rt, rt')
      BY <1>1, <1>2, <2>1, <2>2, AnswerPositiveSame, AnswerNegativeSame, SameReflexive,
         ForceResponsePendingSame
    <2> QED BY <1>2, <2>1, <2>3, SameStep
  <1>7. CASE DsdSessionControl
    <2>1. DsdTakes  BY <1>7 DEF DsdSessionControl
    <2>2. PICK suppress \in BOOLEAN, new \in {"DEFAULT"} \cup ExtraSessions :
            AnswerPositive(rt, [dsp EXCEPT !.change = [by |-> Requester, to |-> new]], suppress)
      BY <1>7 DEF DsdSessionControl
    <2>3. [dsp EXCEPT !.change = [by |-> Requester, to |-> new]] \in DspType
      <3>1. Requester \in Protocols  BY <1>2, <2>1, RequesterRow
      <3>2. [by |-> Requester, to |-> new] \in SessionChange
        BY <3>1 DEF SessionChange, Sessions
      <3> QED BY <1>1, <3>2 DEF DspType
    <2>4. SameStarted(rt, rt')  BY <1>1, <1>2, <2>1, <2>2, <2>3, AnswerPositiveSame
    <2> QED BY <1>2, <2>1, <2>4, SameStep
  <1>8. CASE DsdSecurityAccess
    <2> DEFINE opened == [dsp EXCEPT !.seed = TRUE]
               ended == [dsp EXCEPT !.seed = FALSE]
    <2>1. DsdTakes /\ active \in Protocols
      BY <1>8 DEF DsdSecurityAccess, IInv, RestOK
    <2>2. opened \in DspType /\ ended \in DspType  BY <1>1 DEF DspType
    <2>3. \/ \E suppress \in BOOLEAN : AnswerPositive(rt, opened, suppress)
          \/ \E suppress \in BOOLEAN : AnswerPositive(Unlock(rt), ended, suppress)
          \/ AnswerNegative(rt, ended)
          \/ rt' = rt
      BY <1>8 DEF DsdSecurityAccess
    <2>4. Unlock(rt) \in Rows /\ SameStarted(rt, Unlock(rt))
      BY <1>1, <2>1, UnlockRows, UnlockSame
    <2> HIDE DEF opened, ended
    <2>5. SameStarted(rt, rt')
      BY <1>1, <1>2, <2>1, <2>2, <2>3, <2>4, AnswerPositiveSame, AnswerNegativeSame,
         SameReflexive, SameTransitive
    <2> QED BY <1>2, <2>1, <2>5, SameStep
  <1> QED BY <1>3, <1>4, <1>5, <1>6, <1>7, <1>8 DEF DsdMain

(* DspMain keeps it. *)
LEMMA DspMainActive == ASSUME IInv, ActiveIsStarted, DspMain PROVE ActiveIsStarted'
  <1>1. rt \in Rows /\ dsp \in DspType /\ msg.suppress \in BOOLEAN /\ RestOK
        /\ active \in Protocols \cup {NoProtocol}
    BY DEF IInv, RestOK, MsgType
  <1>2. active' = active
    BY DEF DspMain, DspWaits, DspAnswers, DspForcesResponsePending, DspComparesKey, DspRuns
  <1>3. dsp.work # "none" => msg.pdu \in RxPdus  BY DEF IInv, RequestKnown
  <1>4. CASE DspWaits  BY <1>2, <1>4, SameReflexive, SameStep DEF DspWaits
  <1>5. CASE DspAnswers
    <2> DEFINE d == [dsp EXCEPT !.work = "none"]
    <2>1. d \in DspType  BY <1>1 DEF DspType
    <2>2. msg.pdu \in RxPdus /\ (AnswerPositive(rt, d, msg.suppress) \/ AnswerNegative(rt, d))
      BY <1>3, <1>5 DEF DspAnswers
    <2> HIDE DEF d
    <2>3. SameStarted(rt, rt')
      BY <1>1, <2>1, <2>2, AnswerPositiveSame, AnswerNegativeSame
    <2> QED BY <1>2, <2>3, SameStep
  <1>6. CASE DspForcesResponsePending
    <2>1. msg.pdu \in RxPdus /\ ForceResponsePending(msg, msg.suppress)
      BY <1>3, <1>6 DEF DspForcesResponsePending
    <2>2. SameStarted(rt, rt')  BY <2>1, ForceResponsePendingSame
    <2> QED BY <1>2, <2>2, SameStep
  <1>7. CASE DspComparesKey
    <2> DEFINE d == [dsp EXCEPT !.work = "none", !.seed = FALSE]
    <2>1. d \in DspType  BY <1>1 DEF DspType
    <2>2. /\ msg.pdu \in RxPdus
          /\ \/ AnswerNegative(rt, d)
             \/ active # NoProtocol /\ AnswerPositive(Unlock(rt), d, msg.suppress)
      BY <1>3, <1>7 DEF DspComparesKey
    <2>3. active # NoProtocol => Unlock(rt) \in Rows /\ SameStarted(rt, Unlock(rt))
      BY <1>1, UnlockRows, UnlockSame
    <2> HIDE DEF d
    <2>4. SameStarted(rt, rt')
      BY <1>1, <2>1, <2>2, <2>3, AnswerPositiveSame, AnswerNegativeSame, SameTransitive
    <2> QED BY <1>2, <2>4, SameStep
  <1> QED BY <1>4, <1>5, <1>6, <1>7 DEF DspMain

(* The session timeout of the only OBD row closes it as the active one. *)
LEMMA S3Active ==
  ASSUME IInv, ActiveIsStarted, OneObdProtocol, S3Running \/ S3Timeout
  PROVE ActiveIsStarted'
  <1> DEFINE p == main.row
  <1>1. p \in Protocols /\ rt \in Rows /\ rt[p] \in GoodRow
        /\ active \in Protocols \cup {NoProtocol}
    BY DEF IInv, RestOK, MainType, Rows
  <1>2. CASE S3Running
    <2>1. \A x : [rt[p] EXCEPT !.s3 = x].started = rt[p].started
      BY <1>1 DEF GoodRow, RuntimeType
    <2>2. PICK x : rt' = [rt EXCEPT ![p] = [rt[p] EXCEPT !.s3 = x]]
      BY <1>1, <1>2 DEF S3Running, Rows
    <2>3. SameStarted(rt, rt')
      <3>1. [rt[p] EXCEPT !.s3 = x].started = rt[p].started  BY <2>1
      <3> QED BY <1>1, <2>2, <3>1, SameUpdate
    <2>4. active' = active  BY <1>2 DEF S3Running
    <2> QED BY <2>3, <2>4, SameStep
  <1>3. CASE S3Timeout
    <2> DEFINE fallen == [ChangeSession(rt[p], "DEFAULT") EXCEPT !.s3 = 0]
               r == [fallen EXCEPT !.started = @ /\ p \notin ObdProtocols]
    <2>1. ChangeSession(rt[p], "DEFAULT") \in GoodRow
          /\ ChangeSession(rt[p], "DEFAULT").started = rt[p].started
      BY <1>1, ChangeSessionRow, RowStarted DEF Sessions
    <2>2. r.started <=> rt[p].started /\ p \notin ObdProtocols
      BY <2>1 DEF GoodRow, RuntimeType
    <2>3. rt' = [rt EXCEPT ![p] = r]  BY <1>3 DEF S3Timeout
    <2>4. active' = IF p \in ObdProtocols /\ active \in ObdProtocols THEN NoProtocol ELSE active
      BY <1>3 DEF S3Timeout, ActiveAfterTimeout
    <2> HIDE DEF r
    <2>5. \A q \in Protocols : rt'[q].started <=> rt[q].started /\ (q = p => p \notin ObdProtocols)
      BY <1>1, <2>2, <2>3 DEF Rows
    <2>6. p \in ObdProtocols /\ active \in ObdProtocols => active = p
      BY DEF OneObdProtocol
    <2>7. NoProtocol \notin Protocols  BY DEF NoProtocol, Protocols
    <2> HIDE DEF p
    <2> QED BY <1>1, <2>4, <2>5, <2>6, <2>7 DEF ActiveIsStarted
  <1> QED BY <1>2, <1>3

(* The transmit part of DslMain keeps it: the end of a preemption closes the active row. *)
LEMMA TxActive ==
  ASSUME IInv, ActiveIsStarted, TxNothing \/ TxP2Running \/ TxResponsePending \/ TxGeneralReject \/ TxResponse
  PROVE ActiveIsStarted'
  <1> DEFINE p == main.row
             sent == SendLocal(rt, p)
  <1>1. p \in Protocols /\ rt \in Rows /\ rt[p] \in GoodRow
    BY DEF IInv, RestOK, MainType, Rows
  <1>2. sent \in Rows /\ sent[p] \in GoodRow /\ SameStarted(rt, sent)
    BY <1>1, SendLocalRows, LocalSame DEF Rows
  <1>3. active' = active
    BY DEF TxNothing, TxP2Running, TxResponsePending, TxGeneralReject, TxResponse
  <1>4. ASSUME NEW r \in GoodRow
        PROVE /\ \A x : [r EXCEPT !.p2 = x].started = r.started
              /\ \A x, y : [r EXCEPT !.p2 = x, !.pend = y].started = r.started
              /\ [r EXCEPT !.extTx = "DCM_TRANSMIT_SIGNALED"].started = r.started
    BY DEF GoodRow, RuntimeType
  <1>5. CASE TxNothing  BY <1>3, <1>5, SameReflexive, SameStep DEF TxNothing
  <1>6. CASE TxP2Running
    <2>1. rt' = [rt EXCEPT ![p] = [rt[p] EXCEPT !.p2 = Decremented(rt[p].p2)]]
      BY <1>6 DEF TxP2Running
    <2>2. SameStarted(rt, rt')  BY <1>1, <1>4, <2>1, SameUpdate
    <2> QED BY <1>3, <2>2, SameStep
  <1>7. CASE TxResponsePending
    <2> DEFINE r == [sent[p] EXCEPT !.p2 = P2StarServer, !.pend = Decremented(@)]
    <2>1. rt' = [sent EXCEPT ![p] = r]
      BY <1>1, <1>2, <1>7 DEF TxResponsePending, Rows
    <2>2. r.started = sent[p].started  BY <1>2, <1>4
    <2> HIDE DEF sent, r
    <2>3. SameStarted(sent, rt')  BY <1>1, <1>2, <2>1, <2>2, SameUpdate
    <2> QED BY <1>2, <1>3, <2>3, SameTransitive, SameStep
  <1>8. CASE TxGeneralReject
    <2>1. rt' = [sent EXCEPT ![p] = ReleaseBuffers(@)]  BY <1>8 DEF TxGeneralReject
    <2> HIDE DEF sent
    <2>2. SameStarted(sent, rt')  BY <1>1, <1>2, <2>1, RowStarted, SameUpdate
    <2> QED BY <1>2, <1>3, <2>2, SameTransitive, SameStep
  <1>9. CASE TxResponse
    <2> DEFINE signalled == [rt[p] EXCEPT !.extTx = "DCM_TRANSMIT_SIGNALED"]
    <2>1. \/ rt' = [rt EXCEPT ![p] = signalled]
          \/ rt' = [rt EXCEPT ![p] = ReleaseBuffers(StartS3(@))]
      BY <1>9 DEF TxResponse
    <2>2. StartS3(rt[p]) \in GoodRow  BY <1>1, StartS3Row
    <2>3. ReleaseBuffers(StartS3(rt[p])).started = rt[p].started
      BY <1>1, <2>2, RowStarted
    <2>4. signalled.started = rt[p].started  BY <1>1, <1>4
    <2> HIDE DEF signalled
    <2>5. SameStarted(rt, rt')  BY <1>1, <2>1, <2>3, <2>4, SameUpdate
    <2> QED BY <1>3, <2>5, SameStep
  <1> QED BY <1>5, <1>6, <1>7, <1>8, <1>9

(* A preemption that ends closes the active row and starts none. *)
LEMMA TxPreemptingActive ==
  ASSUME IInv, ActiveIsStarted, TxPreempting
  PROVE ActiveIsStarted'
  <1> DEFINE p == main.row
             tell == preemption = "waiting" /\ LocalFree(p)
             sent == SendLocal(rt, p)
             told(accepted) == IF ~tell THEN rt
                               ELSE [sent EXCEPT ![p] = IF accepted THEN ReleaseRx(@) ELSE @]
             timed(accepted) == [told(accepted) EXCEPT ![p].preempt = Decremented(@)]
             closed(accepted) == CloseActive(timed(accepted))
             freed(accepted) == IF timed(accepted)[active].extTx = "NOT_IN_USE"
                                THEN closed(accepted)
                                ELSE [closed(accepted) EXCEPT ![active] = ReleaseBuffers(@)]
  <1>1. p \in Protocols /\ rt \in Rows /\ active \in Protocols
    BY ZenonT(45) DEF TxPreempting, IInv, RestOK, MainType
  <1>2. PICK accepted \in Accepts(p, "transmitLocal") :
          \/ /\ rt' = [freed(accepted) EXCEPT ![p] = ReleaseBuffers(@)]
             /\ active' = NoProtocol
          \/ rt' = timed(accepted) /\ active' = active
    BY DEF TxPreempting
  <1>3. sent \in Rows /\ sent[p] \in GoodRow /\ SameStarted(rt, sent)
    BY <1>1, SendLocalRows, LocalSame DEF Rows
  <1> HIDE DEF sent, tell
  <1>4. told(accepted) \in Rows /\ SameStarted(rt, told(accepted))
    <2> DEFINE r == IF accepted THEN ReleaseRx(sent[p]) ELSE sent[p]
    <2>1. r \in GoodRow /\ r.started = sent[p].started  BY <1>3, ReleaseRxRow, RowStarted
    <2>2. told(accepted) = IF ~tell THEN rt ELSE [sent EXCEPT ![p] = r]  OBVIOUS
    <2> HIDE DEF r
    <2>3. [sent EXCEPT ![p] = r] \in Rows /\ SameStarted(sent, [sent EXCEPT ![p] = r])
      BY <1>1, <1>3, <2>1, UpdateRows, SameUpdate
    <2> QED BY <1>1, <1>3, <2>2, <2>3, SameTransitive, SameReflexive
  <1> HIDE DEF told
  <1>5. timed(accepted) \in Rows /\ SameStarted(rt, timed(accepted))
    <2> DEFINE r == [told(accepted)[p] EXCEPT !.preempt = Decremented(@)]
    <2>1. told(accepted)[p] \in GoodRow  BY <1>1, <1>4 DEF Rows
    <2>2. Decremented(told(accepted)[p].preempt) \in Nat
      BY <2>1, DecrementedNat DEF GoodRow, RuntimeType
    <2>3. r \in GoodRow /\ r.started = told(accepted)[p].started
      BY <2>1, <2>2 DEF GoodRow, RuntimeType
    <2>4. timed(accepted) = [told(accepted) EXCEPT ![p] = r]  BY <1>1, <1>4 DEF Rows
    <2> HIDE DEF r
    <2>5. timed(accepted) \in Rows /\ SameStarted(told(accepted), timed(accepted))
      BY <1>1, <1>4, <2>3, <2>4, UpdateRows, SameUpdate
    <2> QED BY <1>4, <2>5, SameTransitive
  <1> HIDE DEF timed
  <1>6. closed(accepted) \in Rows /\ \A q \in Protocols : ~closed(accepted)[q].started
    BY <1>1, <1>5, CloseActiveRows, ClosesActive DEF ActiveIsStarted, SameStarted
  <1> HIDE DEF closed
  <1>7. freed(accepted) \in Rows /\ \A q \in Protocols : ~freed(accepted)[q].started
    <2>1. closed(accepted)[active] \in GoodRow  BY <1>1, <1>6 DEF Rows
    <2>2. ReleaseBuffers(closed(accepted)[active]) \in GoodRow
          /\ ReleaseBuffers(closed(accepted)[active]).started = closed(accepted)[active].started
      BY <2>1, ReleaseBuffersRow, RowStarted
    <2> QED BY <1>1, <1>6, <2>2, UpdateRows, SameUpdate DEF SameStarted
  <1> HIDE DEF freed
  <1>8. CASE rt' = timed(accepted) /\ active' = active
    BY <1>5, <1>8, SameStep
  <1>9. CASE rt' = [freed(accepted) EXCEPT ![p] = ReleaseBuffers(@)] /\ active' = NoProtocol
    <2>1. freed(accepted)[p] \in GoodRow  BY <1>1, <1>7 DEF Rows
    <2>2. ReleaseBuffers(freed(accepted)[p]).started = freed(accepted)[p].started
      BY <2>1, RowStarted
    <2>3. SameStarted(freed(accepted), rt')  BY <1>1, <1>7, <1>9, <2>2, SameUpdate
    <2>4. \A q \in Protocols : ~rt'[q].started  BY <1>7, <2>3 DEF SameStarted
    <2> QED BY <1>9, <2>4 DEF ActiveIsStarted, NoProtocol, Protocols
  <1> QED BY <1>2, <1>8, <1>9, SMTT(30)

-----------------------------------------------------------------------------

(* Every step keeps it. *)
LEMMA NextActive ==
  ASSUME IInv, ActiveIsStarted, NoWarmStart, OneObdProtocol, [Next]_vars
  PROVE ActiveIsStarted'
  <1>1. ASSUME NEW pdu \in RxPdus, Receive(pdu) PROVE ActiveIsStarted'
    BY <1>1, StartOfReceptionActive, TpRxIndicationActive DEF Receive
  <1>2. ASSUME NEW p \in Protocols, Transmit(p) PROVE ActiveIsStarted'
    BY <1>2, TransmitActive
  <1>3. CASE ResetToDefaultSession
    <2>1. rt \in Rows /\ "DEFAULT" \in Sessions /\ active \in Protocols \cup {NoProtocol}
      BY DEF IInv, RestOK, Sessions
    <2> QED BY <1>3, <2>1, SetSesCtrlTypeSame, SameStep DEF ResetToDefaultSession
  <1>4. CASE MainFunction
    <2>1. CASE DereferencesNull  BY <2>1, SameReflexive, SameStep DEF DereferencesNull
    <2>2. CASE DcmExecuteStartProtocolRequest
      <3>1. rt' = rt /\ active' = active
        BY <2>2 DEF DcmExecuteStartProtocolRequest, NoWarmStart
      <3> QED BY <3>1, SameReflexive, SameStep
    <2> QED BY <1>4, <2>1, <2>2, DsdMainActive, DspMainActive, S3Active, TxActive,
               TxPreemptingActive DEF MainFunction, DslMain
  <1>5. CASE UNCHANGED vars  BY <1>5, SameReflexive, SameStep DEF vars
  <1> QED BY <1>1, <1>2, <1>3, <1>4, <1>5 DEF Next

(* The started protocol is the active one, whatever the priorities, timers  *)
(* and sessions: every start (DslTpRxIndicationFromPduR) and every end      *)
(* (DslMain: session timeout and preemption) of a protocol keeps the two    *)
(* records of it together.                                                 *)
THEOREM OneProtocolAtATime ==
  ASSUME NoWarmStart, OneObdProtocol
  PROVE Spec => []ActiveIsStarted
  <1>1. Init => ActiveIsStarted
    BY DEF Init, ActiveIsStarted, InitialRuntime, Protocols, NoProtocol
  <1>2. IInv /\ ActiveIsStarted /\ [Next]_vars => ActiveIsStarted'
    BY NextActive
  <1> QED BY <1>1, <1>2, Consistency, PTL DEF Spec

-----------------------------------------------------------------------------
(***************************************************************************)
(* Who is served, who preempts and whose session changes.  Most steps hand *)
(* no row to the DSD, let no row preempt and enter no extra session but    *)
(* the one a pending change c asks for, in the row that asked for it.      *)
(***************************************************************************)
Stages == {"PROVIDED_TO_DSD", "PREEMPT_TRANSMIT_NRC"}
RowQuiet(r, s, p, c) ==
  /\ s.extTx \in Stages => s.extTx = r.extTx
  /\ \/ s.session = r.session \/ s.session \notin ExtraSessions
     \/ c = [by |-> p, to |-> s.session]
Quiet(old, new, c) == \A q \in Protocols : RowQuiet(old[q], new[q], q, c)

(* The helpers on one row: what they do to its response and its session.   *)
LEMMA RowStages ==
  ASSUME NEW r \in GoodRow
  PROVE /\ StartS3(r).extTx = r.extTx /\ StartS3(r).session = r.session
        /\ ReleaseRx(r).extTx = r.extTx /\ ReleaseRx(r).session = r.session
        /\ ReleaseBuffers(r).extTx = "NOT_IN_USE" /\ ReleaseBuffers(r).session = r.session
        /\ ResponseReady(r).extTx = "DSD_PENDING_RESPONSE_SIGNALED"
        /\ ResponseReady(r).session = r.session
        /\ HandToDsd(r).extTx = "PROVIDED_TO_DSD" /\ HandToDsd(r).session = r.session
        /\ \A new : ChangeSession(r, new).extTx = r.extTx /\ ChangeSession(r, new).session = new
  BY DEF GoodRow, RuntimeType, StartS3, ReleaseRx, ReleaseBuffers, ResponseReady, HandToDsd,
         ChangeSession

(* An update of one row that is quiet is quiet, and such updates compose. *)
LEMMA QuietUpdate ==
  ASSUME NEW rts \in Rows, NEW p \in Protocols, NEW c, NEW r, RowQuiet(rts[p], r, p, c)
  PROVE Quiet(rts, [rts EXCEPT ![p] = r], c)
  BY DEF Quiet, RowQuiet, Rows

LEMMA QuietTransitive ==
  ASSUME NEW a, NEW b, NEW d, NEW c, Quiet(a, b, c), Quiet(b, d, c)
  PROVE Quiet(a, d, c)
  BY DEF Quiet, RowQuiet

LEMMA QuietReflexive == ASSUME NEW a, NEW c PROVE Quiet(a, a, c)
  BY DEF Quiet, RowQuiet

LEMMA RowQuietHelpers ==
  ASSUME NEW r \in GoodRow, NEW p, NEW c
  PROVE /\ RowQuiet(r, StartS3(r), p, c) /\ RowQuiet(r, ReleaseRx(r), p, c)
        /\ RowQuiet(r, ReleaseBuffers(r), p, c) /\ RowQuiet(r, ResponseReady(r), p, c)
        /\ RowQuiet(r, StartS3(ReleaseRx(r)), p, c)
        /\ RowQuiet(r, StartS3(ReleaseBuffers(r)), p, c)
        /\ RowQuiet(r, ReleaseBuffers(StartS3(r)), p, c)
  <1>1. ReleaseRx(r) \in GoodRow /\ ReleaseBuffers(r) \in GoodRow /\ StartS3(r) \in GoodRow
    BY ReleaseRxRow, ReleaseBuffersRow, StartS3Row
  <1> QED BY <1>1, RowStages DEF RowQuiet, Stages

(* Assignments to the other fields of a row. *)
LEMMA RowQuietFields ==
  ASSUME NEW r \in GoodRow, NEW p, NEW c, NEW x, NEW y
  PROVE /\ RowQuiet(r, [r EXCEPT !.s3 = x], p, c)
        /\ RowQuiet(r, [r EXCEPT !.p2 = x], p, c)
        /\ RowQuiet(r, [r EXCEPT !.p2 = x, !.pend = y], p, c)
        /\ RowQuiet(r, [r EXCEPT !.preempt = x], p, c)
        /\ RowQuiet(r, [r EXCEPT !.locTx = x], p, c)
        /\ RowQuiet(r, [r EXCEPT !.locRx = x, !.locPdu = y], p, c)
        /\ RowQuiet(r, [r EXCEPT !.unlocked = x], p, c)
        /\ RowQuiet(r, [r EXCEPT !.started = x], p, c)
        /\ RowQuiet(r, [r EXCEPT !.extTx = "DCM_TRANSMIT_SIGNALED"], p, c)
        /\ RowQuiet(r, [r EXCEPT !.extTx = "PROVIDED_TO_PDUR"], p, c)
  BY DEF GoodRow, RuntimeType, RowQuiet, Stages

(* DslResetSessionTimeoutTimer is quiet. *)
LEMMA TimerQuiet ==
  ASSUME NEW rts \in Rows, active \in Protocols \cup {NoProtocol}, NEW c
  PROVE Quiet(rts, ResetSessionTimeoutTimer(rts), c)
  <1>1. CASE active = NoProtocol
    BY <1>1, QuietReflexive DEF ResetSessionTimeoutTimer
  <1>2. CASE active # NoProtocol
    <2>1. rts[active] \in GoodRow  BY <1>2 DEF Rows
    <2> QED BY <1>2, <2>1, RowQuietHelpers, QuietUpdate DEF ResetSessionTimeoutTimer
  <1> QED BY <1>1, <1>2

(* DslSetSesCtrlType is, when it changes to the default session or to the  *)
(* one that the active protocol asked for.                                 *)
LEMMA SetSesCtrlTypeQuiet ==
  ASSUME NEW rts \in Rows, NEW new \in Sessions, active \in Protocols \cup {NoProtocol},
         NEW c, new \notin ExtraSessions \/ c = [by |-> active, to |-> new]
  PROVE Quiet(rts, SetSesCtrlType(rts, new), c)
  <1>1. CASE active = NoProtocol
    BY <1>1, QuietReflexive DEF SetSesCtrlType
  <1>2. CASE active # NoProtocol
    <2> DEFINE r == StartS3(ChangeSession(rts[active], new))
    <2>1. rts[active] \in GoodRow  BY <1>2 DEF Rows
    <2>2. ChangeSession(rts[active], new) \in GoodRow  BY <2>1, ChangeSessionRow
    <2>3. r.extTx = rts[active].extTx /\ r.session = new
      BY <2>1, <2>2, RowStages
    <2>4. RowQuiet(rts[active], r, active, c)
      BY <2>3 DEF RowQuiet
    <2> HIDE DEF r
    <2>5. SetSesCtrlType(rts, new) = [rts EXCEPT ![active] = r]
      BY <1>2 DEF SetSesCtrlType, r
    <2>6. active \in Protocols  BY <1>2
    <2>7. Quiet(rts, [rts EXCEPT ![active] = r], c)  BY <2>4, <2>6, QuietUpdate
    <2> QED BY <2>5, <2>7
  <1> QED BY <1>1, <1>2

(* Local responses are quiet. *)
LEMMA LocalQuiet ==
  ASSUME NEW rts \in Rows, NEW p \in Protocols, NEW c
  PROVE Quiet(rts, SendLocal(rts, p), c) /\ Quiet(rts, FreeLocal(rts, p), c)
  <1>1. rts[p] \in GoodRow  BY DEF Rows
  <1>2. \A x : Quiet(rts, [rts EXCEPT ![p] = [rts[p] EXCEPT !.locTx = x]], c)
    BY <1>1, RowQuietFields, QuietUpdate
  <1>3. /\ SendLocal(rts, p)
             = [rts EXCEPT ![p] = [rts[p] EXCEPT !.locTx =
                                     IF rts[p].locTx = "NOT_IN_USE" THEN "DCM_TRANSMIT_SIGNALED"
                                     ELSE rts[p].locTx]]
        /\ FreeLocal(rts, p) = [rts EXCEPT ![p] = [rts[p] EXCEPT !.locTx = "NOT_IN_USE"]]
    BY DEF SendLocal, FreeLocal
  <1> QED BY <1>2, <1>3

(* A pending session change is one of a row, as it was asked for. *)
LEMMA ChangeRecord ==
  ASSUME NEW d \in DspType, d.change.by \in Protocols
  PROVE d.change = [by |-> d.change.by, to |-> d.change.to]
  BY DEF DspType, SessionChange, NoChange, Protocols, NoProtocol

(* DspDcmConfirmation enters the session the confirmed row asked for, when *)
(* that row is the active one.                                             *)
LEMMA ConfirmedQuiet ==
  ASSUME NEW rts \in Rows, NEW d \in DspType, NEW p \in Protocols, NEW ok \in BOOLEAN,
         active \in Protocols \cup {NoProtocol}, d.change.by = p => active = p
  PROVE Quiet(rts, ConfirmedRt(rts, d, p, ok), d.change)
  <1> DEFINE timed == ResetSessionTimeoutTimer(rts)
  <1>1. timed \in Rows /\ Quiet(rts, timed, d.change)
    BY ResetSessionTimeoutTimerRows, TimerQuiet
  <1>2. CASE ok /\ d.change.by = p
    <2>1. d.change.to \in Sessions /\ d.change = [by |-> active, to |-> d.change.to]
      BY <1>2, ChangeToSession, ChangeRecord
    <2>2. Quiet(timed, SetSesCtrlType(timed, d.change.to), d.change)
      BY <1>1, <2>1, SetSesCtrlTypeQuiet
    <2> QED BY <1>1, <1>2, <2>2, QuietTransitive DEF ConfirmedRt
  <1>3. CASE ~(ok /\ d.change.by = p)  BY <1>1, <1>3 DEF ConfirmedRt
  <1> QED BY <1>2, <1>3

(* A response or its suppression is quiet, and takes the requester's row   *)
(* from the DSD.                                                           *)
LEMMA GivenBackQuiet ==
  ASSUME msg.pdu \in RxPdus, NEW rts \in Rows, NEW c
  PROVE /\ Quiet(rts, Suppressed(rts), c)
        /\ Suppressed(rts)[Requester].extTx = "NOT_IN_USE"
        /\ Quiet(rts, [rts EXCEPT ![Requester] = ResponseReady(@)], c)
        /\ [rts EXCEPT ![Requester] = ResponseReady(@)][Requester].extTx
             = "DSD_PENDING_RESPONSE_SIGNALED"
  <1>1. Requester \in Protocols /\ rts[Requester] \in GoodRow  BY RequesterRow DEF Rows
  <1>2. /\ RowQuiet(rts[Requester], ReleaseBuffers(rts[Requester]), Requester, c)
        /\ RowQuiet(rts[Requester], ResponseReady(rts[Requester]), Requester, c)
        /\ ReleaseBuffers(rts[Requester]).extTx = "NOT_IN_USE"
        /\ ResponseReady(rts[Requester]).extTx = "DSD_PENDING_RESPONSE_SIGNALED"
    BY <1>1, RowQuietHelpers, RowStages
  <1>3. /\ Suppressed(rts) = [rts EXCEPT ![Requester] = ReleaseBuffers(rts[Requester])]
        /\ [rts EXCEPT ![Requester] = ResponseReady(@)]
             = [rts EXCEPT ![Requester] = ResponseReady(rts[Requester])]
    BY DEF Suppressed
  <1>4. DOMAIN rts = Protocols  BY DEF Rows
  <1> QED BY <1>1, <1>2, <1>3, <1>4, QuietUpdate

LEMMA AnswerPositiveQuiet ==
  ASSUME RestOK, msg.pdu \in RxPdus, NEW rts \in Rows, NEW d \in DspType,
         NEW suppress \in BOOLEAN, AnswerPositive(rts, d, suppress),
         d.change.by = Requester => active = Requester
  PROVE Quiet(rts, rt', d.change) /\ rt'[Requester].extTx \notin Stages
  <1>1. Requester \in Protocols  BY RequesterRow
  <1>2. CASE suppress
    <2> DEFINE confirmed == ConfirmedRt(rts, d, Requester, TRUE)
    <2>1. TRUE \in BOOLEAN /\ active \in Protocols \cup {NoProtocol}  BY DEF RestOK
    <2>2. confirmed \in Rows /\ Quiet(rts, confirmed, d.change)
      BY <1>1, <2>1, ConfirmedRows, ConfirmedQuiet
    <2>3. rt' = Suppressed(confirmed)
      BY <1>2 DEF AnswerPositive, Suppressed
    <2> HIDE DEF confirmed
    <2>4. Quiet(confirmed, rt', d.change) /\ rt'[Requester].extTx = "NOT_IN_USE"
      BY <2>2, <2>3, GivenBackQuiet
    <2> QED BY <2>2, <2>4, QuietTransitive DEF Stages
  <1>3. CASE ~suppress
    BY <1>3, GivenBackQuiet DEF AnswerPositive, Stages
  <1> QED BY <1>2, <1>3

LEMMA AnswerNegativeQuiet ==
  ASSUME msg.pdu \in RxPdus, NEW rts \in Rows, NEW d, AnswerNegative(rts, d), NEW c
  PROVE Quiet(rts, rt', c) /\ rt'[Requester].extTx \notin Stages
  BY GivenBackQuiet DEF AnswerNegative, Stages

(* Unlocking and a forced responsePending are quiet. *)
LEMMA UnlockQuiet ==
  ASSUME NEW rts \in Rows, active \in Protocols, NEW c
  PROVE Quiet(rts, Unlock(rts), c)
  <1>1. RowQuiet(rts[active], [rts[active] EXCEPT !.unlocked = TRUE], active, c)
    BY RowQuietFields DEF Rows
  <1> DEFINE r == [rts[active] EXCEPT !.unlocked = TRUE]
  <1>2. Unlock(rts) = [rts EXCEPT ![active] = r]
    BY DEF Unlock
  <1> HIDE DEF r
  <1>3. Quiet(rts, [rts EXCEPT ![active] = r], c)
    BY <1>1, QuietUpdate DEF r
  <1> QED BY <1>2, <1>3

LEMMA ForceResponsePendingQuiet ==
  ASSUME IInv, msg.pdu \in RxPdus, NEW m, NEW suppress, ForceResponsePending(m, suppress), NEW c
  PROVE Quiet(rt, rt', c)
  <1> DEFINE sent == SendLocal(rt, Requester)
             r == [sent[Requester] EXCEPT !.p2 = P2StarServer + 1, !.pend = Decremented(@)]
  <1>1. Requester \in Protocols /\ rt \in Rows  BY RequesterRow DEF IInv
  <1>2. sent \in Rows /\ Quiet(rt, sent, c)  BY <1>1, SendLocalRows, LocalQuiet
  <1>3. RowQuiet(sent[Requester], r, Requester, c)
    BY <1>1, <1>2, RowQuietFields DEF Rows
  <1>4. rt' = [sent EXCEPT ![Requester] = r]
    BY <1>1, <1>2 DEF ForceResponsePending, Rows
  <1> HIDE DEF sent, r
  <1>5. Quiet(sent, rt', c)  BY <1>1, <1>2, <1>3, <1>4, QuietUpdate
  <1> QED BY <1>2, <1>5, QuietTransitive

(* Closing the active row is quiet; the start of a row enters no extra     *)
(* session.                                                                *)
LEMMA CloseActiveQuiet ==
  ASSUME NEW rts \in Rows, active \in Protocols, NEW c
  PROVE Quiet(rts, CloseActive(rts), c)
  <1>1. RowQuiet(rts[active], [rts[active] EXCEPT !.started = FALSE], active, c)
    BY RowQuietFields DEF Rows
  <1> DEFINE r == [rts[active] EXCEPT !.started = FALSE]
  <1>2. CloseActive(rts) = [rts EXCEPT ![active] = r]
    BY DEF CloseActive
  <1> HIDE DEF r
  <1>3. Quiet(rts, [rts EXCEPT ![active] = r], c)
    BY <1>1, QuietUpdate DEF r
  <1> QED BY <1>2, <1>3, SMTT(30)

LEMMA StartedStages ==
  ASSUME NEW r \in GoodRow, NEW p \in Protocols
  PROVE /\ HandToDsd(StartRow(r, p)).extTx = "PROVIDED_TO_DSD"
        /\ HandToDsd(StartRow(r, p)).session \notin ExtraSessions
  <1>1. StartRow(r, p) \in GoodRow  BY StartRowRow
  <1>2. StartRow(r, p).session = StartedSession(p)
    BY DEF GoodRow, RuntimeType, StartRow, ChangeSession
  <1>3. StartedSession(p) \notin ExtraSessions
    BY ConfigAssumption DEF StartedSession
  <1> QED BY <1>1, <1>2, <1>3, RowStages

-----------------------------------------------------------------------------
(* The request the DSD has is the active protocol's, and so is a session   *)
(* change that waits for its response.                                     *)
RequesterIsActive ==
  /\ msg.indication /\ active # NoProtocol => Requester = active
  /\ dsp.change.by \in Protocols => active = dsp.change.by

(* With a row that is served the DSD's request is this row's. *)
ServesActive ==
  \A p \in Protocols :
    rt[p].extTx = "PROVIDED_TO_DSD" => active = p /\ msg.pdu \in RxPdus /\ Requester = p

(* One row at most waits to preempt, and not the active one. *)
PreemptsActive ==
  /\ \A p \in Protocols :
       rt[p].extTx = "PREEMPT_TRANSMIT_NRC" => preemption # "none" /\ active # p
  /\ \A p, q \in Protocols :
       rt[p].extTx = "PREEMPT_TRANSMIT_NRC" /\ rt[q].extTx = "PREEMPT_TRANSMIT_NRC" => p = q

(* The step of SessionFollowsRequester. *)
SessionsFollow ==
  \A p \in Protocols :
    rt'[p].session \in ExtraSessions /\ rt'[p].session # rt[p].session
      => \/ dsp.change = [by |-> p, to |-> rt'[p].session]
         \/ main.phase = "dsd" /\ msg.indication /\ Requester = p
         \/ main.phase = "first"

(* A quiet step: the same protocol stays active, preemptions stay, and no  *)
(* request or session change comes that is not the active protocol's.      *)
(* KeepsServed: nor does the DSD forget a request before it is answered.   *)
QuietStep ==
  /\ \E c : /\ Quiet(rt, rt', c)
            /\ c = dsp.change \/ c.by \notin Protocols
                 \/ (main.phase = "dsd" /\ msg.indication /\ c.by = Requester)
  /\ UNCHANGED <<active, preemption>>
  /\ msg'.indication => msg.indication /\ msg'.pdu = msg.pdu
  /\ dsp'.change.by \in Protocols =>
       dsp'.change = dsp.change \/ (msg.indication /\ active = dsp'.change.by)
KeepsServed ==
  \A p \in Protocols : rt'[p].extTx = "PROVIDED_TO_DSD" /\ Requester = p => msg'.pdu = msg.pdu

LEMMA QuietStepKeeps ==
  ASSUME QuietStep
  PROVE /\ RequesterIsActive => RequesterIsActive'
        /\ ServesActive /\ KeepsServed => ServesActive'
        /\ PreemptsActive => PreemptsActive'
        /\ SessionsFollow
  <1>1. PICK c : /\ Quiet(rt, rt', c)
                 /\ c = dsp.change \/ c.by \notin Protocols
                      \/ (main.phase = "dsd" /\ msg.indication /\ c.by = Requester)
    BY DEF QuietStep
  <1>2. ASSUME NEW p \in Protocols
        PROVE /\ rt'[p].extTx \in Stages => rt'[p].extTx = rt[p].extTx
              /\ \/ rt'[p].session = rt[p].session \/ rt'[p].session \notin ExtraSessions
                 \/ c = [by |-> p, to |-> rt'[p].session]
    BY <1>1 DEF Quiet, RowQuiet
  <1>3. RequesterIsActive => RequesterIsActive'
    BY DEF QuietStep, RequesterIsActive, Requester
  <1>4. ServesActive /\ KeepsServed => ServesActive'
    BY <1>2 DEF QuietStep, ServesActive, KeepsServed, Requester, Stages
  <1>5. PreemptsActive => PreemptsActive'
    BY <1>2 DEF QuietStep, PreemptsActive, Stages
  <1>6. SessionsFollow
    <2> SUFFICES ASSUME NEW p \in Protocols, rt'[p].session \in ExtraSessions,
                        rt'[p].session # rt[p].session
                 PROVE \/ dsp.change = [by |-> p, to |-> rt'[p].session]
                       \/ main.phase = "dsd" /\ msg.indication /\ Requester = p
      BY DEF SessionsFollow
    <2>1. c = [by |-> p, to |-> rt'[p].session]  BY <1>2
    <2>2. c.by = p  BY <2>1
    <2> QED BY <1>1, <2>1, <2>2
  <1> QED BY <1>3, <1>4, <1>5, <1>6

LEMMA IsQuiet ==
  ASSUME Quiet(rt, rt', dsp.change), UNCHANGED <<active, preemption>>,
         msg'.pdu = msg.pdu, msg'.indication = msg.indication,
         dsp'.change \in {dsp.change, NoChange}
  PROVE QuietStep /\ KeepsServed
  <1>1. NoChange.by \notin Protocols  BY DEF NoChange, NoProtocol, Protocols
  <1> QED BY <1>1 DEF QuietStep, KeepsServed

(* The callbacks that hand nothing to the DSD. *)
LEMMA ReceiveQuiet ==
  ASSUME IInv, NEW pdu \in RxPdus,
         StartOfReception(pdu) \/ RxFailed(pdu) \/ RxTesterPresent(pdu) \/ RxStartRefused(pdu)
           \/ RxOutranked(pdu) \/ RxLocal(pdu) \/ RxOrphan(pdu)
  PROVE QuietStep /\ KeepsServed
  <1> DEFINE p == ProtocolOf[pdu]
             c == dsp.change
             timed == ResetSessionTimeoutTimer(rt)
  <1>1. p \in Protocols /\ rt[p] \in GoodRow /\ rt \in Rows
        /\ active \in Protocols \cup {NoProtocol}
    BY RowOfPdu DEF IInv, RestOK
  <1>2. timed \in Rows /\ Quiet(rt, timed, c) /\ timed[p] \in GoodRow
    BY <1>1, ResetSessionTimeoutTimerRows, TimerQuiet DEF Rows
  <1>3. UNCHANGED <<active, preemption, msg, dsp>>
    BY DEF StartOfReception, RxFailed, RxTesterPresent, RxStartRefused, RxOutranked, RxLocal,
           RxOrphan
  <1> SUFFICES Quiet(rt, rt', c)
    BY <1>3, IsQuiet
  <1>4. CASE StartOfReception(pdu)
    <2> DEFINE stopped == [rt[p] EXCEPT !.s3On = FALSE]
               ext == [stopped EXCEPT !.extRx = "PROVIDED_TO_PDUR", !.busy = TRUE, !.pdu = pdu]
               loc == [stopped EXCEPT !.locRx = "PROVIDED_TO_PDUR", !.locPdu = pdu]
    <2>1. /\ ext.extTx = rt[p].extTx /\ ext.session = rt[p].session
          /\ loc.extTx = rt[p].extTx /\ loc.session = rt[p].session
      BY <1>1 DEF GoodRow, RuntimeType
    <2>2. rt' = [rt EXCEPT ![p] = ext] \/ rt' = [rt EXCEPT ![p] = loc]
      BY <1>4 DEF StartOfReception
    <2> HIDE DEF ext, loc
    <2>3. RowQuiet(rt[p], ext, p, c) /\ RowQuiet(rt[p], loc, p, c)
      BY <2>1 DEF RowQuiet
    <2> QED BY <1>1, <2>2, <2>3, QuietUpdate
  <1>5. CASE RxFailed(pdu)
    <2>1. rt' = [timed EXCEPT ![p] = ReleaseRx(@)]  BY <1>5 DEF RxFailed
    <2> HIDE DEF timed
    <2>2. Quiet(timed, rt', c)  BY <1>1, <1>2, <2>1, RowQuietHelpers, QuietUpdate
    <2> QED BY <1>2, <2>2, QuietTransitive
  <1>6. CASE RxTesterPresent(pdu) \/ RxOutranked(pdu)
    <2> DEFINE again == StartS3(ReleaseRx(rt[p]))
               dropped == ReleaseRx(rt[p])
    <2>1. rt' = [rt EXCEPT ![p] = again] \/ rt' = [rt EXCEPT ![p] = dropped]
      BY <1>6 DEF RxTesterPresent, RxOutranked
    <2>2. RowQuiet(rt[p], again, p, c) /\ RowQuiet(rt[p], dropped, p, c)
      BY <1>1, RowQuietHelpers
    <2> HIDE DEF again, dropped
    <2>3. /\ Quiet(rt, [rt EXCEPT ![p] = again], c)
          /\ Quiet(rt, [rt EXCEPT ![p] = dropped], c)
      BY <1>1, <2>2, QuietUpdate
    <2> QED BY <2>1, <2>3
  <1>7. CASE RxStartRefused(pdu) \/ RxOrphan(pdu)
    BY <1>7, QuietReflexive DEF RxStartRefused, RxOrphan
  <1>8. CASE RxLocal(pdu)
    <2> DEFINE Freed(r) == [r EXCEPT !.locRx = "NOT_IN_USE", !.locPdu = NoPdu]
    <2>1. ASSUME NEW r \in GoodRow PROVE RowQuiet(r, Freed(r), p, c)
      BY RowQuietFields
    <2>2. StartS3(rt[p]) \in GoodRow /\ RowQuiet(rt[p], StartS3(rt[p]), p, c)
      BY <1>1, StartS3Row, RowQuietHelpers
    <2> HIDE DEF Freed, timed
    <2>3. \/ rt' = [rt EXCEPT ![p] = Freed(StartS3(@))]
          \/ rt' = [rt EXCEPT ![p] = Freed(@)]
          \/ rt' = [timed EXCEPT ![p] = Freed(@)]
      BY <1>8 DEF RxLocal, Freed, timed
    <2>4. RowQuiet(rt[p], Freed(StartS3(rt[p])), p, c)
      BY <2>1, <2>2 DEF RowQuiet
    <2>5. CASE rt' = [rt EXCEPT ![p] = Freed(StartS3(@))] \/ rt' = [rt EXCEPT ![p] = Freed(@)]
      BY <1>1, <2>1, <2>4, <2>5, QuietUpdate
    <2>6. CASE rt' = [timed EXCEPT ![p] = Freed(@)]
      <3>1. Quiet(timed, rt', c)  BY <1>1, <1>2, <2>1, <2>6, QuietUpdate
      <3> QED BY <1>2, <3>1, QuietTransitive
    <2> QED BY <2>3, <2>5, <2>6
  <1> QED BY <1>4, <1>5, <1>6, <1>7, <1>8

(* What a confirmation leaves of a pending session change. *)
LEMMA ConfirmedChange ==
  ASSUME NEW rts \in Rows, NEW d \in DspType, NEW p \in Protocols, NEW ok \in BOOLEAN,
         active \in Protocols \cup {NoProtocol}
  PROVE ConfirmedDsp(rts, d, p, ok).change \in {d.change, NoChange}
  <1>1. ASSUME NEW e \in DspType PROVE [e EXCEPT !.change = NoChange].change = NoChange
    BY DEF DspType
  <1>2. SetSesCtrlTypeDsp(rts, d) \in DspType  BY SetSesCtrlTypeDspType
  <1> QED BY <1>1, <1>2 DEF ConfirmedDsp

LEMMA DspChange ==
  ASSUME NEW d \in DspType, NEW r
  PROVE /\ DspInit(d).change = NoChange
        /\ DspAfterChange(d, r).change = NoChange
        /\ CancelPending(d).change = d.change
        /\ [d EXCEPT !.change = NoChange].change = NoChange
        /\ DspInit([d EXCEPT !.change = NoChange]).change = NoChange
  BY DEF DspType, DspInit, DspAfterChange, CancelPending

LEMMA TransmitQuiet ==
  ASSUME IInv, RequesterIsActive, NEW p \in Protocols, Transmit(p)
  PROVE QuietStep /\ KeepsServed
  <1>1. rt \in Rows /\ rt[p] \in GoodRow /\ dsp \in DspType
        /\ active \in Protocols \cup {NoProtocol}
    BY DEF IInv, Rows, RestOK
  <1>2. CASE CopyTxData(p)
    <2> DEFINE ext == [rt[p] EXCEPT !.extTx = "PROVIDED_TO_PDUR"]
               loc == [rt[p] EXCEPT !.locTx = "PROVIDED_TO_PDUR"]
    <2>1. rt' = [rt EXCEPT ![p] = ext] \/ rt' = [rt EXCEPT ![p] = loc]
      BY <1>2, SMTT(30) DEF CopyTxData
    <2>2. RowQuiet(rt[p], ext, p, dsp.change) /\ RowQuiet(rt[p], loc, p, dsp.change)
      BY <1>1, RowQuietFields
    <2> HIDE DEF ext, loc
    <2>3. /\ Quiet(rt, [rt EXCEPT ![p] = ext], dsp.change)
          /\ Quiet(rt, [rt EXCEPT ![p] = loc], dsp.change)
      BY <1>1, <2>2, QuietUpdate
    <2>4. Quiet(rt, rt', dsp.change)  BY <2>1, <2>3
    <2> QED BY <1>2, <2>4, IsQuiet DEF CopyTxData
  <1>3. CASE \E ok \in BOOLEAN : TpTxConfirmation(p, ok)
    <2>1. PICK ok \in BOOLEAN : TpTxConfirmation(p, ok)  BY <1>3
    <2> DEFINE sent == ok /\ rt[p].extTx = "PROVIDED_TO_PDUR"
               released == [rt EXCEPT ![p] = StartS3(ReleaseBuffers(@))]
    <2>2. /\ \/ /\ rt' = ConfirmedRt(released, dsp, p, sent)
                /\ dsp' = ConfirmedDsp(released, dsp, p, sent)
             \/ rt' = FreeLocal(rt, p) /\ dsp' = dsp
             \/ rt' = rt /\ dsp' = dsp
          /\ UNCHANGED <<active, preemption, msg>>
      BY <2>1 DEF TpTxConfirmation
    <2>3. ReleaseBuffers(rt[p]) \in GoodRow  BY <1>1, ReleaseBuffersRow
    <2>4. StartS3(ReleaseBuffers(rt[p])) \in GoodRow  BY <2>3, StartS3Row
    <2>5. released \in Rows /\ Quiet(rt, released, dsp.change) /\ sent \in BOOLEAN
      BY <1>1, <2>4, UpdateRows, QuietUpdate, RowQuietHelpers
    <2> HIDE DEF released, sent
    <2>6. dsp.change.by = p => active = p  BY DEF RequesterIsActive
    <2>7. Quiet(released, ConfirmedRt(released, dsp, p, sent), dsp.change)
      BY <1>1, <2>5, <2>6, ConfirmedQuiet
    <2>8. ConfirmedDsp(released, dsp, p, sent).change \in {dsp.change, NoChange}
      BY <1>1, <2>5, ConfirmedChange
    <2>9. Quiet(rt, rt', dsp.change)
      BY <1>1, <2>2, <2>5, <2>7, QuietTransitive, QuietReflexive, LocalQuiet
    <2>10. dsp'.change \in {dsp.change, NoChange}
      BY <2>2, <2>8
    <2> QED BY <2>2, <2>9, <2>10, IsQuiet
  <1> QED BY <1>2, <1>3 DEF Transmit

(* A request that goes on or is forgotten is the one that was there. *)
LEMMA RememberQuiet ==
  ASSUME IInv, NEW m \in {msg, Taken}, NEW suppress, msg' = Remember(m, suppress)
  PROVE /\ msg'.indication => msg.indication /\ msg'.pdu = msg.pdu
        /\ dsp'.work # "none" => msg'.pdu = msg.pdu
  BY DEF IInv, RestOK, MsgType, Remember, Taken, NoRequest

(* A response leaves no session change but its own or the pending one. *)
LEMMA AnsweredQuiet ==
  ASSUME IInv, RequesterIsActive, msg.pdu \in RxPdus, NEW d \in DspType, NEW rts \in Rows,
         Quiet(rt, rts, d.change), NEW suppress \in BOOLEAN,
         AnswerPositive(rts, d, suppress) \/ AnswerNegative(rts, d),
         NEW m \in {msg, Taken}, NEW kept, msg' = Remember(m, kept),
         UNCHANGED <<active, preemption>>,
         \/ d.change = dsp.change
         \/ main.phase = "dsd" /\ msg.indication /\ active # NoProtocol
            /\ d.change.by = Requester
  PROVE QuietStep /\ KeepsServed
  <1>1. Requester \in Protocols /\ RestOK /\ active \in Protocols \cup {NoProtocol}
    BY RequesterRow DEF IInv, RestOK
  <1>2. d.change.by = Requester => active = Requester
    BY <1>1 DEF RequesterIsActive
  <1>3. Quiet(rts, rt', d.change) /\ rt'[Requester].extTx \notin Stages
    BY <1>1, <1>2, AnswerPositiveQuiet, AnswerNegativeQuiet
  <1>4. Quiet(rt, rt', d.change)
    BY <1>3, QuietTransitive
  <1>5. dsp'.change \in {d.change, NoChange}
    <2>1. CASE AnswerPositive(rts, d, suppress) /\ suppress
      <3>1. TRUE \in BOOLEAN  OBVIOUS
      <3> QED BY <1>1, <2>1, <3>1, ConfirmedChange DEF AnswerPositive
    <2>2. CASE AnswerPositive(rts, d, suppress) /\ ~suppress
      BY <2>2 DEF AnswerPositive
    <2>3. CASE AnswerNegative(rts, d)
      BY <2>3 DEF AnswerNegative
    <2> QED BY <2>1, <2>2, <2>3
  <1>6. NoChange.by \notin Protocols  BY DEF NoChange, NoProtocol, Protocols
  <1>7. msg'.indication => msg.indication /\ msg'.pdu = msg.pdu
    BY RememberQuiet
  <1>8. dsp'.change.by \in Protocols =>
          dsp'.change = dsp.change \/ (msg.indication /\ active = dsp'.change.by)
    BY <1>2, <1>5, <1>6
  <1>9. KeepsServed  BY <1>3 DEF KeepsServed, Stages
  <1>10. QuietStep
    BY <1>4, <1>7, <1>8 DEF QuietStep
  <1> QED BY <1>9, <1>10

(* A service that waits or forces a responsePending keeps the request. *)
LEMMA WaitingQuiet ==
  ASSUME IInv, Quiet(rt, rt', dsp.change), dsp'.change = dsp.change, dsp'.work # "none",
         NEW m \in {msg, Taken}, NEW kept, msg' = Remember(m, kept),
         UNCHANGED <<active, preemption>>
  PROVE QuietStep /\ KeepsServed
  <1>1. /\ msg'.indication => msg.indication /\ msg'.pdu = msg.pdu
        /\ msg'.pdu = msg.pdu
    BY RememberQuiet
  <1> QED BY <1>1 DEF QuietStep, KeepsServed

(* The service dispatcher. *)
LEMMA DsdMainQuiet ==
  ASSUME IInv, RequesterIsActive, DsdMain
  PROVE QuietStep /\ KeepsServed
  <1>1. rt \in Rows /\ dsp \in DspType /\ RestOK /\ active \in Protocols \cup {NoProtocol}
    BY DEF IInv, RestOK
  <1>2. CASE DsdIdle
    <2>1. Quiet(rt, rt', dsp.change)  BY <1>2, QuietReflexive DEF DsdIdle
    <2> QED BY <1>2, <2>1, IsQuiet DEF DsdIdle
  <1> SUFFICES ASSUME DsdTakes PROVE QuietStep /\ KeepsServed
    BY <1>2 DEF DsdMain, DsdDiscards, DsdRefuses, DsdServes, DsdSessionControl, DsdSecurityAccess
  <1>3. /\ main.phase = "dsd" /\ msg.indication /\ UNCHANGED <<active, preemption>>
        /\ msg.pdu \in RxPdus /\ Taken \in {msg, Taken}
    BY DEF DsdTakes, IInv, RequestKnown
  <1>4. Requester \in Protocols  BY <1>3, RequesterRow
  <1>5. Quiet(rt, rt, dsp.change)  BY QuietReflexive
  <1>6. CASE DsdDiscards
    <2>1. Quiet(rt, rt', dsp.change) /\ rt'[Requester].extTx \notin Stages
      BY <1>1, <1>3, <1>6, GivenBackQuiet DEF DsdDiscards, Stages
    <2>2. msg'.indication => msg.indication /\ msg'.pdu = msg.pdu
      BY <1>3, <1>6, RememberQuiet DEF DsdDiscards
    <2> QED BY <1>3, <1>6, <2>1, <2>2 DEF DsdDiscards, QuietStep, KeepsServed, Stages
  <1>7. CASE DsdRefuses
    <2>1. TRUE \in BOOLEAN /\ AnswerNegative(rt, dsp) /\ msg' = Remember(Taken, msg.suppress)
      BY <1>7 DEF DsdRefuses
    <2> QED BY <1>1, <1>3, <1>5, <2>1, AnsweredQuiet
  <1>8. CASE DsdServes
    <2>1. PICK suppress \in BOOLEAN :
            \/ /\ \/ AnswerPositive(rt, dsp, suppress)
                  \/ AnswerNegative(rt, dsp)
                  \/ \E work \in PendingServices :
                       dsp' = [dsp EXCEPT !.work = work] /\ rt' = rt
               /\ msg' = Remember(Taken, suppress)
               /\ tpTx' = tpTx
            \/ /\ "did" \in PendingServices
               /\ dsp' = [dsp EXCEPT !.work = "did"]
               /\ ForceResponsePending(Taken, suppress)
      BY <1>8 DEF DsdServes
    <2>2. CASE (AnswerPositive(rt, dsp, suppress) \/ AnswerNegative(rt, dsp))
               /\ msg' = Remember(Taken, suppress)
      BY <1>1, <1>3, <1>5, <2>2, AnsweredQuiet
    <2>3. ASSUME NEW work \in PendingServices, dsp' = [dsp EXCEPT !.work = work], rt' = rt,
                 msg' = Remember(Taken, suppress)
          PROVE QuietStep /\ KeepsServed
      <3>1. dsp'.change = dsp.change /\ dsp'.work # "none"
        BY <1>1, <2>3, ConfigAssumption DEF DspType
      <3> QED BY <1>3, <1>5, <2>3, <3>1, WaitingQuiet
    <2>4. CASE dsp' = [dsp EXCEPT !.work = "did"] /\ ForceResponsePending(Taken, suppress)
      <3>1. dsp'.change = dsp.change /\ dsp'.work # "none"  BY <1>1, <2>4 DEF DspType
      <3>2. Quiet(rt, rt', dsp.change)  BY <1>3, <2>4, ForceResponsePendingQuiet
      <3>3. msg' = Remember(Taken, suppress /\ ~LocalFree(Requester))
        BY <2>4 DEF ForceResponsePending
      <3> QED BY <1>3, <3>1, <3>2, <3>3, WaitingQuiet
    <2> QED BY <2>1, <2>2, <2>3, <2>4
  <1>9. CASE DsdSessionControl
    <2>1. PICK suppress \in BOOLEAN, new \in {"DEFAULT"} \cup ExtraSessions :
            /\ AnswerPositive(rt, [dsp EXCEPT !.change = [by |-> Requester, to |-> new]], suppress)
            /\ msg' = Remember(Taken, suppress)
      BY <1>9 DEF DsdSessionControl
    <2> DEFINE d == [dsp EXCEPT !.change = [by |-> Requester, to |-> new]]
    <2>2. new \in Sessions /\ [by |-> Requester, to |-> new] \in SessionChange
      BY <1>4 DEF Sessions, SessionChange
    <2>3. d \in DspType /\ d.change.by = Requester
      BY <1>1, <2>2 DEF DspType
    <2>4. AnswerPositive(rt, d, suppress) /\ active # NoProtocol
      BY <1>9, <2>1 DEF DsdSessionControl
    <2> HIDE DEF d
    <2>5. Quiet(rt, rt, d.change)  BY QuietReflexive
    <2> QED BY <1>1, <1>3, <2>1, <2>3, <2>4, <2>5, AnsweredQuiet
  <1>10. CASE DsdSecurityAccess
    <2>1. PICK suppress \in BOOLEAN :
            /\ \/ AnswerPositive(rt, [dsp EXCEPT !.seed = TRUE], suppress)
               \/ dsp.seed /\ AnswerPositive(Unlock(rt), [dsp EXCEPT !.seed = FALSE], suppress)
               \/ dsp.seed /\ AnswerNegative(rt, [dsp EXCEPT !.seed = FALSE])
               \/ /\ dsp.seed
                  /\ dsp' = [dsp EXCEPT !.work = "key"] /\ rt' = rt
            /\ msg' = Remember(Taken, suppress)
      BY <1>10 DEF DsdSecurityAccess
    <2> DEFINE opened == [dsp EXCEPT !.seed = TRUE]
               closed == [dsp EXCEPT !.seed = FALSE]
    <2>2. /\ opened \in DspType /\ opened.change = dsp.change
          /\ closed \in DspType /\ closed.change = dsp.change
      BY <1>1 DEF DspType
    <2>3. active \in Protocols  BY <1>1, <1>10 DEF DsdSecurityAccess
    <2>4. Unlock(rt) \in Rows /\ Quiet(rt, Unlock(rt), dsp.change)
      BY <1>1, <2>3, UnlockRows, UnlockQuiet
    <2>5. CASE dsp' = [dsp EXCEPT !.work = "key"] /\ rt' = rt
      <3>1. dsp'.change = dsp.change /\ dsp'.work # "none"  BY <1>1, <2>5 DEF DspType
      <3> QED BY <1>3, <1>5, <2>1, <2>5, <3>1, WaitingQuiet
    <2>6. CASE AnswerPositive(rt, opened, suppress)
      <3> HIDE DEF opened
      <3>1. Quiet(rt, rt, opened.change)  BY QuietReflexive
      <3> QED BY <1>1, <1>3, <2>1, <2>2, <2>6, <3>1, AnsweredQuiet
    <2>7. CASE AnswerPositive(Unlock(rt), closed, suppress)
      <3> HIDE DEF closed
      <3>1. Quiet(rt, Unlock(rt), closed.change)  BY <2>2, <2>4
      <3> QED BY <1>3, <2>1, <2>2, <2>4, <2>7, <3>1, AnsweredQuiet
    <2>8. CASE AnswerNegative(rt, closed)
      <3> HIDE DEF closed
      <3>1. Quiet(rt, rt, closed.change)  BY QuietReflexive
      <3> QED BY <1>1, <1>3, <2>1, <2>2, <2>8, <3>1, AnsweredQuiet
    <2> QED BY <2>1, <2>5, <2>6, <2>7, <2>8
  <1> QED BY <1>2, <1>6, <1>7, <1>8, <1>9, <1>10 DEF DsdMain

(* The service processor. *)
LEMMA DspMainQuiet ==
  ASSUME IInv, RequesterIsActive, DspMain
  PROVE QuietStep /\ KeepsServed
  <1>1. rt \in Rows /\ dsp \in DspType /\ msg.suppress \in BOOLEAN /\ RestOK
        /\ active \in Protocols \cup {NoProtocol}
    BY DEF IInv, RestOK, MsgType
  <1>2. UNCHANGED <<active, preemption>>
    BY DEF DspMain, DspWaits, DspAnswers, DspForcesResponsePending, DspComparesKey, DspRuns
  <1>3. dsp.work # "none" => msg.pdu \in RxPdus  BY DEF IInv, RequestKnown
  <1>4. msg \in {msg, Taken}  OBVIOUS
  <1>5. CASE DspWaits
    <2>1. Quiet(rt, rt', dsp.change)  BY <1>5, QuietReflexive DEF DspWaits
    <2> QED BY <1>2, <1>5, <2>1, IsQuiet DEF DspWaits
  <1>6. CASE DspAnswers
    <2> DEFINE d == [dsp EXCEPT !.work = "none"]
    <2>1. d \in DspType /\ d.change = dsp.change  BY <1>1 DEF DspType
    <2>2. /\ msg.pdu \in RxPdus /\ msg' = Remember(msg, msg.suppress)
          /\ AnswerPositive(rt, d, msg.suppress) \/ AnswerNegative(rt, d)
      BY <1>3, <1>6 DEF DspAnswers
    <2> HIDE DEF d
    <2>3. Quiet(rt, rt, d.change)  BY QuietReflexive
    <2> QED BY <1>1, <1>2, <1>4, <2>1, <2>2, <2>3, AnsweredQuiet
  <1>7. CASE DspForcesResponsePending
    <2>1. /\ msg.pdu \in RxPdus /\ dsp' = dsp /\ dsp.work # "none"
          /\ ForceResponsePending(msg, msg.suppress)
      BY <1>3, <1>7 DEF DspForcesResponsePending
    <2>2. Quiet(rt, rt', dsp.change)  BY <2>1, ForceResponsePendingQuiet
    <2>3. msg' = Remember(msg, msg.suppress /\ ~LocalFree(Requester))
      BY <2>1 DEF ForceResponsePending
    <2> QED BY <1>2, <1>4, <2>1, <2>2, <2>3, WaitingQuiet
  <1>8. CASE DspComparesKey
    <2> DEFINE d == [dsp EXCEPT !.work = "none", !.seed = FALSE]
    <2>1. d \in DspType /\ d.change = dsp.change  BY <1>1 DEF DspType
    <2>2. /\ msg.pdu \in RxPdus /\ msg' = Remember(msg, msg.suppress)
          /\ \/ AnswerNegative(rt, d)
             \/ active # NoProtocol /\ AnswerPositive(Unlock(rt), d, msg.suppress)
      BY <1>3, <1>8 DEF DspComparesKey
    <2> HIDE DEF d
    <2>3. Quiet(rt, rt, d.change)  BY QuietReflexive
    <2>4. active # NoProtocol => Unlock(rt) \in Rows /\ Quiet(rt, Unlock(rt), d.change)
      BY <1>1, UnlockRows, UnlockQuiet
    <2>5. CASE AnswerNegative(rt, d)
      BY <1>1, <1>2, <1>4, <2>1, <2>2, <2>3, <2>5, AnsweredQuiet
    <2>6. CASE active # NoProtocol /\ AnswerPositive(Unlock(rt), d, msg.suppress)
      BY <1>1, <1>2, <1>4, <2>1, <2>2, <2>4, <2>6, AnsweredQuiet
    <2> QED BY <2>2, <2>5, <2>6
  <1> QED BY <1>5, <1>6, <1>7, <1>8 DEF DspMain

(* The session timer of a row that falls back to the default session. *)
FallenRow(p) ==
  [[ChangeSession(rt[p], "DEFAULT") EXCEPT !.s3 = 0] EXCEPT !.started = @ /\ p \notin ObdProtocols]
LEMMA FallenQuiet ==
  ASSUME rt \in Rows, NEW p \in Protocols, NEW c
  PROVE RowQuiet(rt[p], FallenRow(p), p, c) /\ FallenRow(p).extTx = rt[p].extTx
        /\ FallenRow(p).session = "DEFAULT"
  <1>1. rt[p] \in GoodRow /\ "DEFAULT" \in Sessions /\ "DEFAULT" \notin ExtraSessions
    BY ConfigAssumption DEF Rows, Sessions
  <1>2. ChangeSession(rt[p], "DEFAULT") \in GoodRow  BY <1>1, ChangeSessionRow
  <1>3. FallenRow(p).extTx = ChangeSession(rt[p], "DEFAULT").extTx
        /\ FallenRow(p).session = ChangeSession(rt[p], "DEFAULT").session
    BY <1>2 DEF FallenRow, GoodRow, RuntimeType
  <1>4. FallenRow(p).extTx = rt[p].extTx /\ FallenRow(p).session = "DEFAULT"
    BY <1>1, <1>3, RowStages
  <1> QED BY <1>1, <1>4 DEF RowQuiet

LEMMA S3Quiet ==
  ASSUME IInv, S3Running \/ S3Timeout, active' = active
  PROVE QuietStep /\ KeepsServed
  <1> DEFINE p == main.row
  <1>1. p \in Protocols /\ rt \in Rows /\ rt[p] \in GoodRow /\ dsp \in DspType
    BY DEF IInv, RestOK, MainType, Rows
  <1>2. CASE S3Running
    <2> DEFINE r == [rt[p] EXCEPT !.s3 = IF rt[p].session = "DEFAULT" THEN @ ELSE S3Left(p)]
    <2>1. rt' = [rt EXCEPT ![p] = r]
      BY <1>1, <1>2, SMTT(30) DEF S3Running, Rows
    <2>2. RowQuiet(rt[p], r, p, dsp.change)  BY <1>1, RowQuietFields
    <2> HIDE DEF r
    <2>3. Quiet(rt, rt', dsp.change)  BY <1>1, <2>1, <2>2, QuietUpdate
    <2> QED BY <1>2, <2>3, IsQuiet DEF S3Running
  <1>3. CASE S3Timeout
    <2>1. rt' = [rt EXCEPT ![p] = FallenRow(p)]  BY <1>3 DEF S3Timeout, FallenRow
    <2>2. RowQuiet(rt[p], FallenRow(p), p, dsp.change)  BY <1>1, FallenQuiet
    <2>3. Quiet(rt, rt', dsp.change)  BY <1>1, <2>1, <2>2, QuietUpdate
    <2>4. dsp'.change = NoChange  BY <1>1, <1>3, DspChange DEF S3Timeout
    <2> QED BY <1>3, <2>3, <2>4, IsQuiet DEF S3Timeout
  <1> QED BY <1>2, <1>3

(* The transmit part of DslMain, but for a preemption. *)
LEMMA TxQuiet ==
  ASSUME IInv, TxNothing \/ TxP2Running \/ TxResponsePending \/ TxGeneralReject \/ TxResponse
  PROVE QuietStep /\ (ServesActive => KeepsServed)
  <1> DEFINE p == main.row
             c == dsp.change
             sent == SendLocal(rt, p)
  <1>1. p \in Protocols /\ rt \in Rows /\ rt[p] \in GoodRow /\ dsp \in DspType
    BY DEF IInv, RestOK, MainType, Rows
  <1>2. sent \in Rows /\ sent[p] \in GoodRow /\ Quiet(rt, sent, c)
    BY <1>1, SendLocalRows, LocalQuiet DEF Rows
  <1>3. UNCHANGED <<active, preemption>>
    BY DEF TxNothing, TxP2Running, TxResponsePending, TxGeneralReject, TxResponse
  <1>4. CASE TxNothing
    <2>1. Quiet(rt, rt', c)  BY <1>4, QuietReflexive DEF TxNothing
    <2> QED BY <1>3, <1>4, <2>1, IsQuiet DEF TxNothing
  <1>5. CASE TxP2Running
    <2> DEFINE r == [rt[p] EXCEPT !.p2 = Decremented(@)]
    <2>1. rt' = [rt EXCEPT ![p] = r]
      BY <1>1, <1>5, SMTT(30) DEF TxP2Running, Rows
    <2>2. RowQuiet(rt[p], r, p, c)  BY <1>1, RowQuietFields
    <2> HIDE DEF r
    <2>3. Quiet(rt, rt', c)  BY <1>1, <2>1, <2>2, QuietUpdate
    <2> QED BY <1>3, <1>5, <2>3, IsQuiet DEF TxP2Running
  <1>6. CASE TxResponsePending
    <2> DEFINE r == [sent[p] EXCEPT !.p2 = P2StarServer, !.pend = Decremented(@)]
    <2>1. rt' = [sent EXCEPT ![p] = r]
      BY <1>1, <1>2, <1>6 DEF TxResponsePending, Rows
    <2>2. RowQuiet(sent[p], r, p, c)  BY <1>2, RowQuietFields
    <2> HIDE DEF sent, r
    <2>3. Quiet(rt, rt', c)  BY <1>1, <1>2, <2>1, <2>2, QuietUpdate, QuietTransitive
    <2>4. msg'.pdu = msg.pdu /\ msg'.indication = msg.indication
      BY <1>6 DEF TxResponsePending, IInv, RestOK, MsgType
    <2> QED BY <1>3, <1>6, <2>3, <2>4, IsQuiet DEF TxResponsePending
  <1>7. CASE TxGeneralReject
    <2> DEFINE r == ReleaseBuffers(sent[p])
    <2>1. rt' = [sent EXCEPT ![p] = r]  BY <1>7 DEF TxGeneralReject
    <2>2. RowQuiet(sent[p], r, p, c) /\ r.extTx = "NOT_IN_USE"
      BY <1>2, RowQuietHelpers, RowStages
    <2> HIDE DEF sent, r
    <2>3. Quiet(rt, rt', c)  BY <1>1, <1>2, <2>1, <2>2, QuietUpdate, QuietTransitive
    <2>4. rt'[p].extTx = "NOT_IN_USE"  BY <1>1, <1>2, <2>1, <2>2 DEF Rows
    <2>5. dsp'.change = dsp.change  BY <1>1, <1>7, DspChange DEF TxGeneralReject
    <2>6. msg' = Remember(msg, FALSE) /\ rt[p].extTx = "PROVIDED_TO_DSD"
      BY <1>7 DEF TxGeneralReject
    <2>7. msg \in {msg, Taken}  OBVIOUS
    <2>8. msg'.indication => msg.indication /\ msg'.pdu = msg.pdu
      BY <2>6, <2>7, RememberQuiet
    <2>9. ServesActive => Requester = p  BY <1>1, <2>6 DEF ServesActive
    <2>10. ServesActive => KeepsServed  BY <2>4, <2>9 DEF KeepsServed
    <2> QED BY <1>3, <2>3, <2>5, <2>8, <2>10 DEF QuietStep
  <1>8. CASE TxResponse
    <2> DEFINE signalled == [rt[p] EXCEPT !.extTx = "DCM_TRANSMIT_SIGNALED"]
               freed == ReleaseBuffers(StartS3(rt[p]))
    <2>1. rt' = [rt EXCEPT ![p] = signalled] \/ rt' = [rt EXCEPT ![p] = freed]
      BY <1>8, SMTT(30) DEF TxResponse
    <2>2. RowQuiet(rt[p], signalled, p, c) /\ RowQuiet(rt[p], freed, p, c)
      BY <1>1, RowQuietFields, RowQuietHelpers
    <2> HIDE DEF signalled, freed
    <2>3. /\ Quiet(rt, [rt EXCEPT ![p] = signalled], c)
          /\ Quiet(rt, [rt EXCEPT ![p] = freed], c)
      BY <1>1, <2>2, QuietUpdate
    <2>4. Quiet(rt, rt', c)  BY <2>1, <2>3
    <2> QED BY <1>3, <1>8, <2>4, IsQuiet DEF TxResponse
  <1> QED BY <1>4, <1>5, <1>6, <1>7, <1>8

(* The steps that touch neither request nor response buffers. *)
LEMMA OtherQuiet ==
  ASSUME IInv, NoWarmStart,
         DereferencesNull \/ DcmExecuteStartProtocolRequest \/ ResetToDefaultSession
           \/ UNCHANGED vars
  PROVE QuietStep /\ KeepsServed
  <1>1. rt \in Rows /\ dsp \in DspType /\ active \in Protocols \cup {NoProtocol}
    BY DEF IInv, RestOK
  <1>2. CASE DereferencesNull \/ DcmExecuteStartProtocolRequest \/ UNCHANGED vars
    <2>1. UNCHANGED <<rt, active, preemption, msg, dsp>>
      BY <1>2 DEF DereferencesNull, DcmExecuteStartProtocolRequest, NoWarmStart, vars
    <2>2. Quiet(rt, rt', dsp.change)  BY <2>1, QuietReflexive
    <2> QED BY <2>1, <2>2, IsQuiet
  <1>3. CASE ResetToDefaultSession
    <2>1. "DEFAULT" \in Sessions /\ "DEFAULT" \notin ExtraSessions
      BY ConfigAssumption DEF Sessions
    <2>2. Quiet(rt, rt', dsp.change)
      BY <1>1, <1>3, <2>1, SetSesCtrlTypeQuiet DEF ResetToDefaultSession
    <2>3. dsp'.change \in {dsp.change, NoChange}
      BY <1>1, <1>3, DspChange DEF ResetToDefaultSession, SetSesCtrlTypeDsp
    <2> QED BY <1>3, <2>2, <2>3, IsQuiet DEF ResetToDefaultSession
  <1> QED BY <1>2, <1>3

-----------------------------------------------------------------------------
(* The steps that are not quiet: a request comes to the DSD, a row begins   *)
(* to preempt or ends it.                                                  *)
Keeps ==
  /\ RequesterIsActive => RequesterIsActive'
  /\ ServesActive => ServesActive'
  /\ PreemptsActive => PreemptsActive'
  /\ SessionsFollow

(* Row p now holds the request the DSD has; no other row was served. *)
LEMMA HandingKeeps ==
  ASSUME NEW pdu \in RxPdus, NEW p \in Protocols, p = ProtocolOf[pdu],
         rt'[p].extTx = "PROVIDED_TO_DSD",
         rt'[p].session = rt[p].session \/ rt'[p].session \notin ExtraSessions,
         \A q \in Protocols \ {p} : rt'[q].extTx = rt[q].extTx /\ rt'[q].session = rt[q].session,
         active' = p, preemption' = preemption, msg'.pdu = pdu,
         \A q \in Protocols : active = q => q = p \/ rt[q].extTx = "NOT_IN_USE",
         dsp'.change = NoChange \/ (dsp' = dsp /\ active = p)
  PROVE Keeps
  <1>1. NoChange.by \notin Protocols  BY DEF NoChange, NoProtocol, Protocols
  <1>2. Requester' = p  BY DEF Requester
  <1>3. RequesterIsActive => RequesterIsActive'
    BY <1>1, <1>2 DEF RequesterIsActive
  <1>4. ServesActive => ServesActive'
    BY <1>2 DEF ServesActive
  <1>5. PreemptsActive => PreemptsActive'
    BY DEF PreemptsActive
  <1>6. SessionsFollow
    BY DEF SessionsFollow
  <1> QED BY <1>3, <1>4, <1>5, <1>6 DEF Keeps

LEMMA ClosedRows ==
  ASSUME NEW rts \in Rows, active \in Protocols
  PROVE \A q \in Protocols : CloseActive(rts)[q].extTx = rts[q].extTx
                             /\ CloseActive(rts)[q].session = rts[q].session
  <1>1. ASSUME NEW r \in GoodRow
        PROVE [r EXCEPT !.started = FALSE].extTx = r.extTx
              /\ [r EXCEPT !.started = FALSE].session = r.session
    BY DEF GoodRow, RuntimeType
  <1> QED BY <1>1 DEF CloseActive, Rows

LEMMA HandedKeeps ==
  ASSUME IInv, ActiveIsStarted, NEW pdu \in RxPdus,
         RxRequest(pdu) \/ RxStartsProtocol(pdu) \/ RxPreemptsIdle(pdu)
  PROVE Keeps
  <1> DEFINE p == ProtocolOf[pdu]
  <1>1. p \in Protocols /\ rt[p] \in GoodRow /\ rt \in Rows /\ dsp \in DspType
        /\ active \in Protocols \cup {NoProtocol} /\ Indicated(pdu).pdu = pdu
    BY RowOfPdu, IndicatedMsg DEF IInv, RestOK
  <1>2. msg'.pdu = pdu /\ preemption' = preemption
    BY <1>1 DEF RxRequest, RxStartsProtocol, RxPreemptsIdle
  <1>3. CASE RxRequest(pdu)
    <2>1. rt' = [rt EXCEPT ![p] = HandToDsd(rt[p])] /\ dsp' = dsp /\ active' = active
      BY <1>3 DEF RxRequest
    <2>2. active = p  BY <1>1, <1>3 DEF RxRequest, ActiveIsStarted
    <2>3. HandToDsd(rt[p]).extTx = "PROVIDED_TO_DSD" /\ HandToDsd(rt[p]).session = rt[p].session
      BY <1>1, RowStages
    <2>4. /\ rt'[p].extTx = "PROVIDED_TO_DSD" /\ rt'[p].session = rt[p].session
          /\ \A q \in Protocols \ {p} : rt'[q] = rt[q]
      BY <1>1, <2>1, <2>3 DEF Rows
    <2> HIDE DEF p
    <2> QED BY <1>1, <1>2, <2>1, <2>2, <2>4, HandingKeeps DEF p
  <1>4. CASE RxStartsProtocol(pdu)
    <2>1. /\ rt' = [rt EXCEPT ![p] = HandToDsd(StartRow(rt[p], p))] /\ active' = p
          /\ active = NoProtocol
      BY <1>4 DEF RxStartsProtocol
    <2>2. dsp'.change = NoChange  BY <1>1, <1>4, DspChange DEF RxStartsProtocol
    <2>3. /\ HandToDsd(StartRow(rt[p], p)).extTx = "PROVIDED_TO_DSD"
          /\ HandToDsd(StartRow(rt[p], p)).session \notin ExtraSessions
      BY <1>1, StartedStages
    <2>4. /\ rt'[p].extTx = "PROVIDED_TO_DSD" /\ rt'[p].session \notin ExtraSessions
          /\ \A q \in Protocols \ {p} : rt'[q] = rt[q]
      BY <1>1, <2>1, <2>3 DEF Rows
    <2>5. NoProtocol \notin Protocols  BY DEF NoProtocol, Protocols
    <2> HIDE DEF p
    <2> QED BY <1>1, <1>2, <2>1, <2>2, <2>4, <2>5, HandingKeeps DEF p
  <1>5. CASE RxPreemptsIdle(pdu)
    <2> DEFINE closed == CloseActive(rt)
    <2>1. /\ rt' = [closed EXCEPT ![p] = HandToDsd(StartRow(@, p))] /\ active' = p
          /\ active # NoProtocol /\ rt[active].extTx = "NOT_IN_USE"
      BY <1>5 DEF RxPreemptsIdle, Outranks, ActiveIdle
    <2>2. dsp'.change = NoChange  BY <1>1, <1>5, DspChange DEF RxPreemptsIdle
    <2>3. /\ closed \in Rows
          /\ \A q \in Protocols : closed[q].extTx = rt[q].extTx /\ closed[q].session = rt[q].session
      BY <1>1, <2>1, CloseActiveRows, ClosedRows
    <2> HIDE DEF closed
    <2>4. closed[p] \in GoodRow  BY <1>1, <2>3 DEF Rows
    <2>5. /\ HandToDsd(StartRow(closed[p], p)).extTx = "PROVIDED_TO_DSD"
          /\ HandToDsd(StartRow(closed[p], p)).session \notin ExtraSessions
      BY <1>1, <2>4, StartedStages
    <2>6. /\ rt'[p].extTx = "PROVIDED_TO_DSD" /\ rt'[p].session \notin ExtraSessions
          /\ \A q \in Protocols \ {p} : rt'[q] = closed[q]
      BY <1>1, <2>1, <2>3, <2>5 DEF Rows
    <2> HIDE DEF p
    <2> QED BY <1>1, <1>2, <2>1, <2>2, <2>3, <2>6, HandingKeeps DEF p
  <1> QED BY <1>3, <1>4, <1>5

(* Two protocols: only the one that is not active can preempt. *)
TwoProtocols == NProtocols <= 2

LEMMA PreemptsBusyKeeps ==
  ASSUME IInv, ActiveIsStarted, NEW pdu \in RxPdus, RxPreemptsBusy(pdu)
  PROVE /\ RequesterIsActive => RequesterIsActive'
        /\ ServesActive => ServesActive'
        /\ TwoProtocols /\ PreemptsActive => PreemptsActive'
        /\ SessionsFollow
  <1> DEFINE p == ProtocolOf[pdu]
             n == PreemptTimer(rt[p])
             r == [rt[p] EXCEPT !.extTx = "PREEMPT_TRANSMIT_NRC", !.pend = MaxNumRespPend,
                                !.preempt = n]
  <1>1. p \in Protocols /\ rt[p] \in GoodRow /\ rt \in Rows
        /\ active \in Protocols \cup {NoProtocol}
    BY RowOfPdu DEF IInv, RestOK
  <1>2. r.extTx = "PREEMPT_TRANSMIT_NRC" /\ r.session = rt[p].session
    BY <1>1 DEF GoodRow, RuntimeType
  <1>3. rt' = [rt EXCEPT ![p] = r]  BY <1>1 DEF RxPreemptsBusy, Rows
  <1> HIDE DEF r
  <1>4. /\ rt'[p].extTx = "PREEMPT_TRANSMIT_NRC" /\ rt'[p].session = rt[p].session
        /\ \A q \in Protocols \ {p} : rt'[q] = rt[q]
    BY <1>1, <1>2, <1>3 DEF Rows
  <1>5. /\ UNCHANGED <<active, msg, dsp>> /\ preemption' = "waiting"
        /\ active \in Protocols /\ active # p
    BY <1>1 DEF RxPreemptsBusy, Outranks, ActiveIsStarted
  <1> HIDE DEF p
  <1>6. RequesterIsActive => RequesterIsActive'
    BY <1>5 DEF RequesterIsActive, Requester
  <1>7. ServesActive => ServesActive'
    BY <1>1, <1>4, <1>5 DEF ServesActive, Requester
  <1>8. TwoProtocols /\ PreemptsActive => PreemptsActive'
    <2> SUFFICES ASSUME TwoProtocols, PreemptsActive PROVE PreemptsActive'
      OBVIOUS
    <2>1. ASSUME NEW q \in Protocols, q # p PROVE q = active
      BY <1>1, <1>5, <2>1, ConfigAssumption DEF TwoProtocols, Protocols
    <2>2. ASSUME NEW q \in Protocols, rt'[q].extTx = "PREEMPT_TRANSMIT_NRC" PROVE q = p
      BY <1>4, <2>1, <2>2 DEF PreemptsActive
    <2> QED BY <1>5, <2>2 DEF PreemptsActive
  <1>9. SessionsFollow
    BY <1>4 DEF SessionsFollow
  <1> QED BY <1>6, <1>7, <1>8, <1>9

(* The end of a preemption leaves no row with the DSD and none preempting. *)
LEMMA TxPreemptingKeeps ==
  ASSUME IInv, TxPreempting
  PROVE Keeps
  <1> DEFINE p == main.row
             c == dsp.change
             tell == preemption = "waiting" /\ LocalFree(p)
             sent == SendLocal(rt, p)
             told(accepted) == IF ~tell THEN rt
                               ELSE [sent EXCEPT ![p] = IF accepted THEN ReleaseRx(@) ELSE @]
             timed(accepted) == [told(accepted) EXCEPT ![p].preempt = Decremented(@)]
             closed(accepted) == CloseActive(timed(accepted))
             freed(accepted) == IF timed(accepted)[active].extTx = "NOT_IN_USE"
                                THEN closed(accepted)
                                ELSE [closed(accepted) EXCEPT ![active] = ReleaseBuffers(@)]
  <1>1. /\ p \in Protocols /\ rt \in Rows /\ active \in Protocols /\ dsp \in DspType
        /\ msg' = msg /\ rt[p].extTx = "PREEMPT_TRANSMIT_NRC" /\ preemption # "none"
    BY ZenonT(45) DEF TxPreempting, IInv, RestOK, MainType
  <1>2. PICK accepted \in Accepts(p, "transmitLocal") :
          \/ /\ rt' = [freed(accepted) EXCEPT ![p] = ReleaseBuffers(@)]
             /\ active' = NoProtocol
             /\ preemption' = "none"
             /\ dsp' = (IF timed(accepted)[active].extTx = "NOT_IN_USE"
                        THEN [dsp EXCEPT !.change = NoChange]
                        ELSE DspInit([dsp EXCEPT !.change = NoChange]))
          \/ /\ rt' = timed(accepted)
             /\ preemption' = IF tell /\ accepted THEN "told" ELSE preemption
             /\ UNCHANGED <<active, dsp>>
    BY DEF TxPreempting
  <1>3. sent \in Rows /\ sent[p] \in GoodRow /\ Quiet(rt, sent, c)
    BY <1>1, SendLocalRows, LocalQuiet DEF Rows
  <1> HIDE DEF sent
  <1>4. told(accepted) \in Rows /\ Quiet(rt, told(accepted), c)
    <2> DEFINE r == IF accepted THEN ReleaseRx(sent[p]) ELSE sent[p]
    <2>1. r \in GoodRow /\ RowQuiet(sent[p], r, p, c)
      BY <1>3, ReleaseRxRow, RowQuietHelpers DEF RowQuiet
    <2>2. told(accepted) = IF ~tell THEN rt ELSE [sent EXCEPT ![p] = r]  OBVIOUS
    <2> HIDE DEF r, tell
    <2>3. [sent EXCEPT ![p] = r] \in Rows /\ Quiet(sent, [sent EXCEPT ![p] = r], c)
      BY <1>1, <1>3, <2>1, UpdateRows, QuietUpdate
    <2> QED BY <1>1, <1>3, <2>2, <2>3, QuietTransitive, QuietReflexive
  <1> HIDE DEF told
  <1>5. timed(accepted) \in Rows /\ Quiet(rt, timed(accepted), c)
    <2> DEFINE r == [told(accepted)[p] EXCEPT !.preempt = Decremented(@)]
    <2>1. told(accepted)[p] \in GoodRow  BY <1>1, <1>4 DEF Rows
    <2>2. Decremented(told(accepted)[p].preempt) \in Nat
      BY <2>1, DecrementedNat, SMTT(30) DEF GoodRow, RuntimeType
    <2>3. r \in GoodRow /\ RowQuiet(told(accepted)[p], r, p, c)
      BY <2>1, <2>2, RowQuietFields DEF GoodRow, RuntimeType
    <2>4. timed(accepted) = [told(accepted) EXCEPT ![p] = r]  BY <1>1, <1>4 DEF Rows
    <2> HIDE DEF r
    <2>5. timed(accepted) \in Rows /\ Quiet(told(accepted), timed(accepted), c)
      BY <1>1, <1>4, <2>3, <2>4, UpdateRows, QuietUpdate
    <2> QED BY <1>4, <2>5, QuietTransitive
  <1> HIDE DEF timed
  <1>6. CASE /\ rt' = timed(accepted) /\ UNCHANGED <<active, dsp>>
             /\ preemption' = IF tell /\ accepted THEN "told" ELSE preemption
    <2>1. preemption' # "none"  BY <1>1, <1>6
    <2>2. ASSUME NEW q \in Protocols
          PROVE /\ rt'[q].extTx \in Stages => rt'[q].extTx = rt[q].extTx
                /\ \/ rt'[q].session = rt[q].session \/ rt'[q].session \notin ExtraSessions
                   \/ c = [by |-> q, to |-> rt'[q].session]
      BY <1>5, <1>6 DEF Quiet, RowQuiet
    <2> HIDE DEF p
    <2>3. RequesterIsActive => RequesterIsActive'
      BY <1>1, <1>6 DEF RequesterIsActive, Requester
    <2>4. ServesActive => ServesActive'
      BY <1>1, <1>6, <2>2 DEF ServesActive, Requester, Stages
    <2>5. PreemptsActive => PreemptsActive'
      BY <1>6, <2>1, <2>2 DEF PreemptsActive, Stages
    <2>6. SessionsFollow  BY <2>2 DEF SessionsFollow
    <2> QED BY <2>3, <2>4, <2>5, <2>6 DEF Keeps
  <1>7. closed(accepted) \in Rows /\ Quiet(rt, closed(accepted), c)
        /\ closed(accepted)[active].extTx = timed(accepted)[active].extTx
    BY <1>1, <1>5, CloseActiveRows, CloseActiveQuiet, ClosedRows, QuietTransitive
  <1> HIDE DEF closed
  <1>8. freed(accepted) \in Rows /\ Quiet(rt, freed(accepted), c)
        /\ freed(accepted)[active].extTx = "NOT_IN_USE"
    <2> DEFINE r == ReleaseBuffers(closed(accepted)[active])
    <2>1. closed(accepted)[active] \in GoodRow  BY <1>1, <1>7 DEF Rows
    <2>2. r \in GoodRow /\ RowQuiet(closed(accepted)[active], r, active, c)
          /\ r.extTx = "NOT_IN_USE"
      BY <2>1, ReleaseBuffersRow, RowQuietHelpers, RowStages
    <2>3. freed(accepted) = IF timed(accepted)[active].extTx = "NOT_IN_USE" THEN closed(accepted)
                            ELSE [closed(accepted) EXCEPT ![active] = r]
      OBVIOUS
    <2> HIDE DEF r, freed
    <2>4. /\ [closed(accepted) EXCEPT ![active] = r] \in Rows
          /\ Quiet(closed(accepted), [closed(accepted) EXCEPT ![active] = r], c)
          /\ [closed(accepted) EXCEPT ![active] = r][active].extTx = "NOT_IN_USE"
      BY <1>1, <1>7, <2>2, UpdateRows, QuietUpdate DEF Rows
    <2> QED BY <1>7, <2>3, <2>4, QuietTransitive
  <1> HIDE DEF freed
  <1>9. CASE /\ rt' = [freed(accepted) EXCEPT ![p] = ReleaseBuffers(@)]
             /\ active' = NoProtocol /\ preemption' = "none"
             /\ dsp'.change = NoChange
    <2> DEFINE r == ReleaseBuffers(freed(accepted)[p])
    <2>1. freed(accepted)[p] \in GoodRow  BY <1>1, <1>8 DEF Rows
    <2>2. RowQuiet(freed(accepted)[p], r, p, c) /\ r.extTx = "NOT_IN_USE"
      BY <2>1, RowQuietHelpers, RowStages
    <2>3. rt' = [freed(accepted) EXCEPT ![p] = r]  BY <1>9
    <2> HIDE DEF r, p
    <2>4. Quiet(rt, rt', c)  BY <1>1, <1>8, <2>2, <2>3, QuietUpdate, QuietTransitive
    <2>5. rt'[p].extTx = "NOT_IN_USE" /\ rt'[active].extTx = "NOT_IN_USE"
      BY <1>1, <1>8, <2>2, <2>3 DEF Rows
    <2>6. ASSUME NEW q \in Protocols
          PROVE /\ rt'[q].extTx \in Stages => rt'[q].extTx = rt[q].extTx
                /\ \/ rt'[q].session = rt[q].session \/ rt'[q].session \notin ExtraSessions
                   \/ c = [by |-> q, to |-> rt'[q].session]
      BY <2>4 DEF Quiet, RowQuiet
    <2>7. NoChange.by \notin Protocols /\ NoProtocol \notin Protocols
      BY DEF NoChange, NoProtocol, Protocols
    <2>8. RequesterIsActive'
      BY <1>9, <2>7 DEF RequesterIsActive
    <2>9. ServesActive => ServesActive'
      BY <2>5, <2>6 DEF ServesActive, Stages
    <2>10. PreemptsActive => PreemptsActive'
      BY <1>1, <2>5, <2>6 DEF PreemptsActive, Stages
    <2>11. SessionsFollow  BY <2>6 DEF SessionsFollow
    <2> QED BY <2>8, <2>9, <2>10, <2>11 DEF Keeps
  <1>10. dsp' = (IF timed(accepted)[active].extTx = "NOT_IN_USE"
                 THEN [dsp EXCEPT !.change = NoChange]
                 ELSE DspInit([dsp EXCEPT !.change = NoChange]))
           => dsp'.change = NoChange
    BY <1>1, DspChange
  <1> QED BY <1>2, <1>6, <1>9, <1>10

(* The session timeout of an OBD protocol, which is closed with the request *)
(* it may still be serving.                                                *)
LEMMA ObdTimeoutKeeps ==
  ASSUME IInv, S3Timeout, active' # active
  PROVE /\ RequesterIsActive'
        /\ ObdProtocols # {}
        /\ PreemptsActive => PreemptsActive'
        /\ SessionsFollow
  <1> DEFINE p == main.row
  <1>1. p \in Protocols /\ rt \in Rows /\ dsp \in DspType
    BY DEF IInv, RestOK, MainType
  <1>2. active' = NoProtocol /\ p \in ObdProtocols
    BY DEF S3Timeout, ActiveAfterTimeout
  <1>3. rt' = [rt EXCEPT ![p] = FallenRow(p)]  BY DEF S3Timeout, FallenRow
  <1>4. FallenRow(p).extTx = rt[p].extTx /\ FallenRow(p).session \notin ExtraSessions
    <2>1. FallenRow(p).extTx = rt[p].extTx /\ FallenRow(p).session = "DEFAULT"
      BY <1>1, FallenQuiet
    <2> QED BY <2>1, ConfigAssumption
  <1>5. dsp'.change = NoChange /\ preemption' = preemption
    BY <1>1, DspChange DEF S3Timeout
  <1> HIDE DEF p
  <1>6. \A q \in Protocols : rt'[q].extTx = rt[q].extTx
          /\ (rt'[q].session = rt[q].session \/ rt'[q].session \notin ExtraSessions)
    BY <1>1, <1>3, <1>4 DEF Rows
  <1>7. NoChange.by \notin Protocols /\ NoProtocol \notin Protocols
    BY DEF NoChange, NoProtocol, Protocols
  <1>8. RequesterIsActive'  BY <1>2, <1>5, <1>7 DEF RequesterIsActive
  <1>9. PreemptsActive => PreemptsActive'
    BY <1>2, <1>5, <1>6, <1>7 DEF PreemptsActive
  <1>10. SessionsFollow  BY <1>6 DEF SessionsFollow
  <1> QED BY <1>2, <1>8, <1>9, <1>10

-----------------------------------------------------------------------------
(* Every step keeps them, under what each one needs. *)
NoObdProtocol == ObdProtocols = {}

LEMMA NextKeeps ==
  ASSUME IInv, ActiveIsStarted, RequesterIsActive, NoWarmStart, [Next]_vars
  PROVE /\ RequesterIsActive'
        /\ NoObdProtocol /\ ServesActive => ServesActive'
        /\ TwoProtocols /\ PreemptsActive => PreemptsActive'
        /\ SessionsFollow
  <1>1. CASE QuietStep /\ (ServesActive => KeepsServed)
    BY <1>1, QuietStepKeeps
  <1>2. CASE Keeps  BY <1>2 DEF Keeps
  <1>3. ASSUME NEW pdu \in RxPdus, Receive(pdu)
        PROVE /\ RequesterIsActive'
              /\ NoObdProtocol /\ ServesActive => ServesActive'
              /\ TwoProtocols /\ PreemptsActive => PreemptsActive'
              /\ SessionsFollow
    <2>1. CASE RxRequest(pdu) \/ RxStartsProtocol(pdu) \/ RxPreemptsIdle(pdu)
      BY <1>2, <2>1, HandedKeeps
    <2>2. CASE RxPreemptsBusy(pdu)
      BY <2>2, PreemptsBusyKeeps
    <2>3. CASE StartOfReception(pdu) \/ RxFailed(pdu) \/ RxTesterPresent(pdu)
               \/ RxStartRefused(pdu) \/ RxOutranked(pdu) \/ RxLocal(pdu) \/ RxOrphan(pdu)
      BY <1>1, <2>3, ReceiveQuiet
    <2> QED BY <1>3, <2>1, <2>2, <2>3 DEF Receive, TpRxIndication
  <1>4. ASSUME NEW p \in Protocols, Transmit(p) PROVE QuietStep /\ KeepsServed
    BY <1>4, TransmitQuiet
  <1>5. CASE S3Timeout /\ active' # active
    BY <1>5, ObdTimeoutKeeps DEF NoObdProtocol
  <1>6. CASE (S3Running \/ S3Timeout) /\ active' = active
    BY <1>1, <1>6, S3Quiet
  <1>7. CASE S3Running
    BY <1>6, <1>7 DEF S3Running
  <1>8. CASE TxNothing \/ TxP2Running \/ TxResponsePending \/ TxGeneralReject \/ TxResponse
    BY <1>1, <1>8, TxQuiet
  <1>9. CASE DsdMain \/ DspMain
    BY <1>1, <1>9, DsdMainQuiet, DspMainQuiet
  <1>10. CASE TxPreempting  BY <1>2, <1>10, TxPreemptingKeeps
  <1>11. CASE DereferencesNull \/ DcmExecuteStartProtocolRequest \/ ResetToDefaultSession
              \/ UNCHANGED vars
    BY <1>1, <1>11, OtherQuiet
  <1> QED BY <1>1, <1>3, <1>4, <1>5, <1>6, <1>7, <1>8, <1>9, <1>10, <1>11
          DEF Next, MainFunction, DslMain

LEMMA InitKeeps == Init => RequesterIsActive /\ ServesActive /\ PreemptsActive
  BY DEF Init, RequesterIsActive, ServesActive, PreemptsActive, InitialRuntime, NoRequest,
         NoChange, NoProtocol, Protocols

(* The DSD's request is the active protocol's (Dcm_Dsd.c, one msgData for   *)
(* all rows): the inductive invariant the next theorems rest on.           *)
THEOREM RequesterStaysActive ==
  ASSUME NoWarmStart, OneObdProtocol
  PROVE Spec => []RequesterIsActive
  <1>1. Init => RequesterIsActive  BY InitKeeps
  <1>2. IInv /\ ActiveIsStarted /\ RequesterIsActive /\ [Next]_vars => RequesterIsActive'
    BY NextKeeps
  <1> QED BY <1>1, <1>2, Consistency, OneProtocolAtATime, PTL DEF Spec

(* A session other than the default and OBD ones is entered only by the     *)
(* protocol whose own tester asked for it, in its DiagnosticSessionControl  *)
(* or when the response to it has been sent (DspDcmConfirmation), although  *)
(* DslSetSesCtrlType writes to whichever protocol is active then.          *)
THEOREM SessionsAreAskedFor ==
  ASSUME NoWarmStart, OneObdProtocol
  PROVE Spec => SessionFollowsRequester
  <1>1. IInv /\ ActiveIsStarted /\ RequesterIsActive /\ [Next]_vars => SessionsFollow
    BY NextKeeps
  <1>2. SessionsFollow =>
          \A p \in Protocols :
            rt'[p].session \in ExtraSessions /\ rt'[p].session # rt[p].session
              => \/ dsp.change = [by |-> p, to |-> rt'[p].session]
                 \/ main.phase = "dsd" /\ msg.indication /\ Requester = p
                 \/ main.phase = "first"
    BY DEF SessionsFollow
  <1> QED BY <1>1, <1>2, Consistency, OneProtocolAtATime, RequesterStaysActive, PTL
          DEF Spec, SessionFollowsRequester

(* No second row overwrites the one request the DSD holds: whatever         *)
(* receptions, preemptions and timeouts come between, a row that is being   *)
(* served is the requester (Dcm_Dsd.c, msgData and pduTxData).  Without an  *)
(* OBD protocol, whose session timeout closes it in the middle of a service. *)
THEOREM OneRowIsServed ==
  ASSUME NoWarmStart, NoObdProtocol
  PROVE Spec => []DsdServesOneRow
  <1>1. OneObdProtocol  BY DEF NoObdProtocol, OneObdProtocol
  <1>2. Init => ServesActive  BY InitKeeps
  <1>3. IInv /\ ActiveIsStarted /\ RequesterIsActive /\ ServesActive /\ [Next]_vars
          => ServesActive'
    BY NextKeeps
  <1>4. ServesActive => DsdServesOneRow  BY DEF ServesActive, DsdServesOneRow
  <1> QED BY <1>1, <1>2, <1>3, <1>4, Consistency, OneProtocolAtATime, RequesterStaysActive, PTL
          DEF Spec

(* With two protocols the global flag of DslMain is set while a row waits   *)
(* to preempt: the flag that is cleared with one preemption is never        *)
(* another's (Dcm_Dsl.c, PreemptionNotProcessingDone).                     *)
THEOREM PreemptionIsTracked ==
  ASSUME NoWarmStart, OneObdProtocol, TwoProtocols
  PROVE Spec => []PreemptingRowTracked
  <1>1. Init => PreemptsActive  BY InitKeeps
  <1>2. IInv /\ ActiveIsStarted /\ RequesterIsActive /\ PreemptsActive /\ [Next]_vars
          => PreemptsActive'
    BY NextKeeps
  <1>3. PreemptsActive => PreemptingRowTracked  BY DEF PreemptsActive, PreemptingRowTracked
  <1> QED BY <1>1, <1>2, <1>3, Consistency, OneProtocolAtATime, RequesterStaysActive, PTL
          DEF Spec
=============================================================================
