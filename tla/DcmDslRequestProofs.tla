------------------------- MODULE DcmDslRequestProofs -------------------------
(***************************************************************************)
(* One protocol alone: its request stays locked while it is served and     *)
(* answered, a confirmation reaches the buffer it is for, and the request  *)
(* goes through its stages in order.  A preemption breaks the first of     *)
(* them, so that there must be one row; and P2 must last for more than one *)
(* main function, or be prolonged once by a responsePending, or else a     *)
(* request that comes in after DsdMain is rejected before DsdMain sees it. *)
(***************************************************************************)
EXTENDS DcmDslProofs

OneProtocol == NProtocols = 1
P2Lasts == P2Server > 1 \/ (ForceRespPend /\ MaxNumRespPend # 0)
LocalAccepted == "transmitLocal" \notin Refusals
TransmitAccepted == "transmit" \notin Refusals

-----------------------------------------------------------------------------
(* The inductive invariant *)

\* A row whose response buffer is in use has its request in the DSD's hands.
Locked == /\ rt[1].extTx # "PREEMPT_TRANSMIT_NRC"
          /\ rt[1].extTx # "NOT_IN_USE" => rt[1].extRx = "PROVIDED_TO_DSD"

\* What the DSD has not seen yet, or a service still works on, is the row's request.
InService == msg.indication \/ dsp.work # "none" => rt[1].extTx = "PROVIDED_TO_DSD"

\* A request the DSD has not seen yet is not rejected before the next DsdMain.
InTime(r) == r.p2 > 1 \/ (ForceRespPend /\ r.pend # 0)
SeenInTime ==
  msg.indication => /\ dsp.work = "none"
                    /\ main.phase \in {"dsp", "s3", "tx"} => InTime(rt[1])

LockInv == Locked /\ InService /\ SeenInTime

\* What holds of every step: the parts of the invariant and the step of DcmRequest.
StageStep == [Request!Next]_(Stage(1))
Kept == /\ LockInv' /\ ConfirmationNotMixed' /\ StageStep
        /\ LocalAccepted /\ LocalResponseSent => LocalResponseSent'
        /\ TransmitAccepted /\ PendingChangeHasResponse => PendingChangeHasResponse'
Before == IInv /\ ActiveIsStarted /\ LockInv /\ ConfirmationNotMixed /\ OneProtocol /\ P2Lasts

-----------------------------------------------------------------------------
(* The row, its stages and what the helpers do to it *)

\* There is one row.
LEMMA OneRow ==
  ASSUME OneProtocol
  PROVE  Protocols = {1} /\ \A p \in Protocols : p = 1
  BY DEF OneProtocol, Protocols

\* The stage, by the two buffers.
LEMMA StageValues ==
  ASSUME NEW r
  PROVE  /\ r.extTx = "PROVIDED_TO_DSD" => StageOf(r) = "serving"
         /\ r.extTx = "DSD_PENDING_RESPONSE_SIGNALED" => StageOf(r) = "answered"
         /\ r.extTx \in Transmitting => StageOf(r) = "sending"
         /\ r.extTx = "NOT_IN_USE" /\ r.extRx = "PROVIDED_TO_PDUR" => StageOf(r) = "receiving"
         /\ r.extTx = "NOT_IN_USE" /\ r.extRx # "PROVIDED_TO_PDUR" => StageOf(r) = "free"
  <1> DEFINE Waiting == {"NOT_IN_USE", "PREEMPT_TRANSMIT_NRC"}
  <1>1. r.extTx = "PROVIDED_TO_DSD" => StageOf(r) = "serving"
    <2>1. r.extTx = "PROVIDED_TO_DSD"
            => /\ r.extTx # "DSD_PENDING_RESPONSE_SIGNALED"
               /\ r.extTx \notin Transmitting /\ r.extTx \notin Waiting
      BY DEF Transmitting
    <2> QED BY <2>1, Zenon DEF StageOf
  <1>2. r.extTx = "DSD_PENDING_RESPONSE_SIGNALED" => StageOf(r) = "answered"
    <2>1. r.extTx = "DSD_PENDING_RESPONSE_SIGNALED"
            => /\ r.extTx # "PROVIDED_TO_DSD"
               /\ r.extTx \notin Transmitting /\ r.extTx \notin Waiting
      BY DEF Transmitting
    <2> QED BY <2>1, Zenon DEF StageOf
  <1>3. r.extTx \in Transmitting => StageOf(r) = "sending"
    <2>1. r.extTx \in Transmitting
            => /\ r.extTx # "PROVIDED_TO_DSD" /\ r.extTx # "DSD_PENDING_RESPONSE_SIGNALED"
               /\ r.extTx \notin Waiting
      BY DEF Transmitting
    <2> QED BY <2>1, Zenon DEF StageOf
  <1>4. r.extTx = "NOT_IN_USE"
          => /\ r.extTx # "PROVIDED_TO_DSD" /\ r.extTx # "DSD_PENDING_RESPONSE_SIGNALED"
             /\ r.extTx \notin Transmitting /\ r.extTx \in Waiting
    BY DEF Transmitting
  <1>5. r.extTx = "NOT_IN_USE" /\ r.extRx = "PROVIDED_TO_PDUR" => StageOf(r) = "receiving"
    BY <1>4, Zenon DEF StageOf
  <1>6. r.extTx = "NOT_IN_USE" /\ r.extRx # "PROVIDED_TO_PDUR" => StageOf(r) = "free"
    BY <1>4, Zenon DEF StageOf
  <1> QED BY <1>1, <1>2, <1>3, <1>5, <1>6

\* The steps of DcmRequest.
LEMMA StageSteps ==
  ASSUME \/ StageOf(rt'[1]) = StageOf(rt[1])
         \/ StageOf(rt[1]) = "free" /\ StageOf(rt'[1]) = "receiving"
         \/ StageOf(rt[1]) = "receiving" /\ StageOf(rt'[1]) \in {"serving", "free"}
         \/ StageOf(rt[1]) = "serving" /\ StageOf(rt'[1]) \in {"answered", "free"}
         \/ StageOf(rt[1]) = "answered" /\ StageOf(rt'[1]) \in {"sending", "free"}
         \/ StageOf(rt[1]) = "sending" /\ StageOf(rt'[1]) = "free"
  PROVE  StageStep
  BY DEF StageStep, Stage, Request!Next, Request!Receive, Request!Indicate, Request!Serve,
         Request!Send, Request!Confirm

\* Two rows whose buffers, P2 timer and number of responsePendings left agree.
SameBuffers(a, b) ==
  /\ b.extRx = a.extRx /\ b.extTx = a.extTx /\ b.locTx = a.locTx
  /\ b.p2 = a.p2 /\ b.pend = a.pend

\* What each helper does to the buffers of a row.
LEMMA RowBuffers ==
  ASSUME NEW r \in GoodRow
  PROVE  /\ SameBuffers(r, StartS3(r))
         /\ \A new : SameBuffers(r, ChangeSession(r, new))
         /\ \A p : SameBuffers(r, StartRow(r, p))
         /\ SameBuffers(r, [r EXCEPT !.unlocked = TRUE])
         /\ ReleaseRx(r).extRx = "NOT_IN_USE" /\ ReleaseRx(r).extTx = r.extTx
         /\ ReleaseRx(r).locTx = r.locTx
         /\ ReleaseBuffers(r).extRx = "NOT_IN_USE" /\ ReleaseBuffers(r).extTx = "NOT_IN_USE"
         /\ ReleaseBuffers(r).locTx = r.locTx
         /\ ResponseReady(r).extRx = r.extRx /\ ResponseReady(r).locTx = r.locTx
         /\ ResponseReady(r).extTx = "DSD_PENDING_RESPONSE_SIGNALED"
         /\ HandToDsd(r).extRx = "PROVIDED_TO_DSD" /\ HandToDsd(r).extTx = "PROVIDED_TO_DSD"
         /\ HandToDsd(r).locTx = r.locTx
         /\ HandToDsd(r).p2 = P2Server /\ HandToDsd(r).pend = MaxNumRespPend
  BY DEF GoodRow, RuntimeType, SameBuffers, StartS3, ChangeSession, StartRow, ReleaseRx,
         ReleaseBuffers, ResponseReady, HandToDsd
-----------------------------------------------------------------------------
(* The four kinds of steps *)

\* What the types and the invariant say of the one row.
LEMMA RowFacts ==
  ASSUME Before
  PROVE  /\ Protocols = {1} /\ rt \in Rows /\ rt[1] \in GoodRow
         /\ rt[1].extTx \in TxStatus /\ rt[1].extRx \in RxStatus /\ rt[1].locTx \in LocalStatus
         /\ tpTx[1] \in {"idle", "ext", "local"} /\ main.row = 1
         /\ tpTx[1] = "local" => rt[1].locTx \in Transmitting /\ rt[1].extTx \notin Transmitting
         /\ tpTx[1] = "ext" => rt[1].extTx \in Transmitting
  <1>1. Protocols = {1}
    BY OneRow DEF Before
  <1>2. rt \in Rows /\ rt[1] \in GoodRow
    BY <1>1 DEF Before, IInv, Rows
  <1>3. tpTx[1] \in {"idle", "ext", "local"} /\ main.row = 1
    BY <1>1 DEF Before, IInv, RestOK, MainType
  <1> QED BY <1>1, <1>2, <1>3 DEF Before, ConfirmationNotMixed, GoodRow, RuntimeType

\* A session change of the row that waits has its response ahead of it.
Answered == {"DSD_PENDING_RESPONSE_SIGNALED"} \cup Transmitting
ChangeHasResponse == dsp.change.by = 1 => rt[1].extTx \in Answered

\* The service processor begins no service and prepares no session change.
Settles(d, e) ==
  (e.work # "none" => d.work # "none") /\ (e.change.by = 1 => d.change.by = 1)

\* The parts of what has to be shown, for the one row.
LEMMA KeptParts ==
  ASSUME Before, LockInv', StageStep,
         tpTx'[1] = "local" => rt'[1].locTx \in Transmitting /\ rt'[1].extTx \notin Transmitting,
         tpTx'[1] = "ext" => rt'[1].extTx \in Transmitting,
         LocalAccepted /\ (rt[1].locTx # "NOT_IN_USE" => tpTx[1] = "local")
           => (rt'[1].locTx # "NOT_IN_USE" => tpTx'[1] = "local"),
         TransmitAccepted /\ ChangeHasResponse => ChangeHasResponse'
  PROVE  Kept
  BY RowFacts DEF Kept, ConfirmationNotMixed, LocalResponseSent, PendingChangeHasResponse,
     ChangeHasResponse, Answered

\* A step that leaves the buffers alone.
LEMMA Undisturbed ==
  ASSUME Before, SameBuffers(rt[1], rt'[1]), tpTx' = tpTx,
         msg'.indication => msg.indication, Settles(dsp, dsp'),
         msg'.indication /\ main'.phase \in {"dsp", "s3", "tx"} => main.phase \in {"dsp", "s3", "tx"}
  PROVE  Kept
  <1>1. LockInv'
    BY DEF Before, LockInv, Locked, InService, SeenInTime, InTime, SameBuffers, Settles
  <1>2. /\ rt[1].extTx \in Transmitting \/ rt[1].extTx = "PROVIDED_TO_DSD"
           \/ rt[1].extTx = "DSD_PENDING_RESPONSE_SIGNALED" \/ rt[1].extTx = "NOT_IN_USE"
    BY RowFacts DEF Before, LockInv, Locked, TxStatus, Transmitting
  <1>3. StageOf(rt'[1]) = StageOf(rt[1])
    BY <1>2, StageValues DEF SameBuffers
  <1>4. StageStep
    BY <1>3, StageSteps
  <1>5. ChangeHasResponse => ChangeHasResponse'
    BY DEF ChangeHasResponse, Settles, SameBuffers
  <1> QED BY <1>1, <1>4, <1>5, RowFacts, KeptParts DEF SameBuffers

\* While a request is served no session change waits.
LEMMA NoChangeWaits ==
  ASSUME ChangeHasResponse, rt[1].extTx \notin Answered
  PROVE  dsp.change.by # 1
  BY DEF ChangeHasResponse

\* A service ends: with a response, or without one and the buffers free.
LEMMA ServiceEnds ==
  ASSUME Before, rt[1].extTx = "PROVIDED_TO_DSD", rt'[1].locTx = rt[1].locTx, tpTx' = tpTx,
         \/ rt'[1].extTx = "DSD_PENDING_RESPONSE_SIGNALED" /\ rt'[1].extRx = rt[1].extRx
         \/ rt'[1].extTx = "NOT_IN_USE" /\ rt'[1].extRx = "NOT_IN_USE",
         ~msg'.indication, dsp'.work = "none",
         ChangeHasResponse /\ dsp'.change.by = 1 => rt'[1].extTx = "DSD_PENDING_RESPONSE_SIGNALED"
  PROVE  Kept
  <1>1. LockInv'
    BY DEF Before, LockInv, Locked, InService, SeenInTime
  <1>2. StageStep
    BY StageValues, StageSteps
  <1>3. ChangeHasResponse => ChangeHasResponse'
    BY DEF ChangeHasResponse, Answered
  <1> QED BY <1>1, <1>2, <1>3, RowFacts, KeptParts DEF Transmitting

\* A local response goes out for the request in service, which goes on or is given up.
LEMMA LocalSent ==
  ASSUME Before, rt[1].extTx = "PROVIDED_TO_DSD",
         msg'.indication => /\ rt'[1].extTx = rt[1].extTx
                            /\ dsp'.work = "none" /\ main'.phase = "dsd",
         rt'[1].locTx = IF LocalFree(1) THEN "DCM_TRANSMIT_SIGNALED" ELSE rt[1].locTx,
         NEW accepted \in Accepts(1, "transmitLocal"), tpTx' = TpAfterLocal(1, accepted),
         \/ rt'[1].extTx = rt[1].extTx /\ rt'[1].extRx = rt[1].extRx
         \/ rt'[1].extTx = "NOT_IN_USE" /\ rt'[1].extRx = "NOT_IN_USE" /\ dsp'.work = "none",
         dsp'.change = dsp.change
  PROVE  Kept
  <1>1. LockInv'
    BY DEF Before, LockInv, Locked, InService, SeenInTime
  <1>2. StageStep
    BY StageValues, StageSteps
  <1>3. tpTx[1] # "ext" /\ (LocalFree(1) => tpTx[1] = "idle")
    BY RowFacts DEF LocalFree, Transmitting
  <1>4. tpTx'[1] = IF LocalFree(1) /\ accepted THEN "local" ELSE tpTx[1]
    BY RowFacts DEF TpAfterLocal, Before, IInv, RestOK
  <1>5. LocalAccepted /\ LocalFree(1) => accepted
    BY <1>3 DEF Accepts, LocalAccepted
  <1>6. rt'[1].extTx \notin Transmitting
    BY DEF Transmitting
  <1>7. tpTx'[1] = "local" => rt'[1].locTx \in Transmitting
    BY <1>4, RowFacts DEF LocalFree, Transmitting
  <1>8. tpTx'[1] # "ext"
    BY <1>3, <1>4
  <1>9. LocalAccepted /\ (rt[1].locTx # "NOT_IN_USE" => tpTx[1] = "local")
           => (rt'[1].locTx # "NOT_IN_USE" => tpTx'[1] = "local")
    BY <1>4, <1>5 DEF LocalFree
  <1>10. ChangeHasResponse => ChangeHasResponse'
    BY NoChangeWaits DEF ChangeHasResponse, Answered, Transmitting
  <1> QED BY <1>1, <1>2, <1>6, <1>7, <1>8, <1>9, <1>10, KeptParts

-----------------------------------------------------------------------------
(* The helpers on the rows leave its buffers alone. *)

\* The timer and the session of the active row are no buffers.
LEMMA SessionBuffers ==
  ASSUME NEW rts \in Rows, 1 \in Protocols, active \in Protocols \cup {NoProtocol},
         NEW new \in Sessions
  PROVE  /\ SameBuffers(rts[1], ResetSessionTimeoutTimer(rts)[1])
         /\ SameBuffers(rts[1], SetSesCtrlType(rts, new)[1])
         /\ active \in Protocols => SameBuffers(rts[1], Unlock(rts)[1])
  <1>1. CASE active = NoProtocol
    BY <1>1 DEF ResetSessionTimeoutTimer, SetSesCtrlType, SameBuffers, NoProtocol, Protocols
  <1>2. CASE active # NoProtocol
    <2>1. active \in Protocols /\ rts[active] \in GoodRow
      BY <1>2 DEF Rows
    <2>2. ChangeSession(rts[active], new) \in GoodRow
      BY <2>1, ChangeSessionRow
    <2>3. /\ SameBuffers(rts[active], StartS3(rts[active]))
          /\ SameBuffers(rts[active], StartS3(ChangeSession(rts[active], new)))
          /\ SameBuffers(rts[active], [rts[active] EXCEPT !.unlocked = TRUE])
      BY <2>1, <2>2, RowBuffers DEF SameBuffers
    <2>4. ASSUME NEW r, SameBuffers(rts[active], r)
          PROVE  SameBuffers(rts[1], [rts EXCEPT ![active] = r][1])
      BY <2>1, <2>4 DEF Rows, SameBuffers
    <2> QED BY <1>2, <2>3, <2>4 DEF ResetSessionTimeoutTimer, SetSesCtrlType, Unlock
  <1> QED BY <1>1, <1>2

\* Nor does a confirmation touch them, which may carry out a session change.
LEMMA ConfirmedBuffers ==
  ASSUME NEW rts \in Rows, 1 \in Protocols, active \in Protocols \cup {NoProtocol},
         NEW d \in DspType, NEW ok \in BOOLEAN
  PROVE  SameBuffers(rts[1], ConfirmedRt(rts, d, 1, ok)[1])
  <1> DEFINE timed == ResetSessionTimeoutTimer(rts)
  <1>1. timed \in Rows
    BY ResetSessionTimeoutTimerRows
  <1>2. "DEFAULT" \in Sessions
    BY DEF Sessions
  <1>3. SameBuffers(rts[1], timed[1])
    BY <1>2, SessionBuffers
  <1> HIDE DEF timed
  <1>4. CASE ok /\ d.change.by = 1
    <2>1. d.change.to \in Sessions
      BY <1>4, ChangeToSession
    <2>2. SameBuffers(timed[1], SetSesCtrlType(timed, d.change.to)[1])
      BY <1>1, <2>1, SessionBuffers
    <2> QED BY <1>3, <1>4, <2>2 DEF ConfirmedRt, SameBuffers, timed
  <1>5. CASE ~(ok /\ d.change.by = 1)
    BY <1>3, <1>5 DEF ConfirmedRt, timed
  <1> QED BY <1>4, <1>5

\* A confirmation takes the session change, carried out or not.
LEMMA ChangeConfirmed ==
  ASSUME NEW rts \in Rows, NEW d \in DspType, NEW ok \in BOOLEAN,
         active \in Protocols \cup {NoProtocol}
  PROVE  ConfirmedDsp(rts, d, 1, ok).change.by # 1
  <1> DEFINE e == IF ok THEN SetSesCtrlTypeDsp(rts, d) ELSE d
  <1>1. e \in DspType
    BY SetSesCtrlTypeDspType
  <1>2. ConfirmedDsp(rts, d, 1, ok) = IF d.change.by = 1 THEN [e EXCEPT !.change = NoChange] ELSE d
    BY DEF ConfirmedDsp
  <1> HIDE DEF e
  <1>3. [e EXCEPT !.change = NoChange].change.by = 0
    BY <1>1 DEF DspType, NoChange, NoProtocol
  <1>4. CASE d.change.by = 1
    <2> DEFINE f == [e EXCEPT !.change = NoChange]
    <2>1. ConfirmedDsp(rts, d, 1, ok) = f
      BY <1>2, <1>4
    <2>2. f.change.by = 0
      BY <1>3
    <2> HIDE DEF f
    <2> QED BY <2>1, <2>2
  <1>5. CASE d.change.by # 1
    BY <1>2, <1>5
  <1> QED BY <1>4, <1>5

\* A session change leaves no other one waiting.
LEMMA ChangeSettles ==
  ASSUME NEW d \in DspType
  PROVE  /\ \A r \in GoodRow : Settles(d, DspAfterChange(d, r))
         /\ \A rts \in Rows : active \in Protocols \cup {NoProtocol}
              => Settles(d, SetSesCtrlTypeDsp(rts, d))
  <1>1. ASSUME NEW r \in GoodRow PROVE Settles(d, DspAfterChange(d, r))
    <2>1. DspAfterChange(d, r).change.by = 0
      BY DEF DspType, DspInit, DspAfterChange, NoChange, NoProtocol
    <2> QED BY <2>1, DspHelpers DEF Settles
  <1>2. ASSUME NEW rts \in Rows, active \in Protocols \cup {NoProtocol}
        PROVE  Settles(d, SetSesCtrlTypeDsp(rts, d))
    <2>1. active # NoProtocol => rts[active] \in GoodRow
      BY <1>2 DEF Rows
    <2> QED BY <1>1, <2>1 DEF SetSesCtrlTypeDsp, Settles
  <1> QED BY <1>1, <1>2

\* An answer ends the service of the one row.
LEMMA AnswerBuffers ==
  ASSUME Before, msg.pdu \in RxPdus, NEW rts \in Rows, SameBuffers(rt[1], rts[1]),
         NEW d \in DspType, NEW suppress \in BOOLEAN,
         \/ AnswerPositive(rts, d, suppress) \/ AnswerNegative(rts, d)
         \/ rt' = Suppressed(rts)
  PROVE  /\ rt'[1].locTx = rt[1].locTx
         /\ \/ rt'[1].extTx = "DSD_PENDING_RESPONSE_SIGNALED" /\ rt'[1].extRx = rt[1].extRx
            \/ rt'[1].extTx = "NOT_IN_USE" /\ rt'[1].extRx = "NOT_IN_USE"
  <1>1. Requester = 1 /\ 1 \in Protocols /\ active \in Protocols \cup {NoProtocol}
    BY RequesterRow, RowFacts DEF Before, IInv, RestOK
  <1>2. rts[1] \in GoodRow
    BY <1>1 DEF Rows
  <1>3. ASSUME NEW r PROVE [rts EXCEPT ![1] = r][1] = r
    BY <1>1 DEF Rows
  <1>4. CASE rt' = [rts EXCEPT ![1] = ResponseReady(@)]
    BY <1>2, <1>3, <1>4, RowBuffers DEF SameBuffers
  <1>5. CASE rt' = [rts EXCEPT ![1] = ReleaseBuffers(@)]
    BY <1>2, <1>3, <1>5, RowBuffers DEF SameBuffers
  <1>6. CASE rt' = [ConfirmedRt(rts, d, 1, TRUE) EXCEPT ![1] = ReleaseBuffers(@)]
    <2> DEFINE c == ConfirmedRt(rts, d, 1, TRUE)
    <2>1. c \in Rows /\ SameBuffers(rts[1], c[1])
      BY <1>1, ConfirmedRows, ConfirmedBuffers
    <2>3. rt' = [c EXCEPT ![1] = ReleaseBuffers(@)]
      BY <1>6
    <2> HIDE DEF c
    <2>2. c[1] \in GoodRow /\ [c EXCEPT ![1] = ReleaseBuffers(@)][1] = ReleaseBuffers(c[1])
      BY <1>1, <2>1 DEF Rows
    <2> QED BY <2>1, <2>2, <2>3, RowBuffers DEF SameBuffers
  <1> QED BY <1>1, <1>4, <1>5, <1>6 DEF AnswerPositive, AnswerNegative, Suppressed

\* A positive answer leaves a session change waiting only if it is transmitted.
LEMMA AnswerChange ==
  ASSUME Before, msg.pdu \in RxPdus, NEW rts \in Rows, NEW d \in DspType,
         NEW suppress \in BOOLEAN, AnswerPositive(rts, d, suppress), dsp'.change.by = 1
  PROVE  rt'[1].extTx = "DSD_PENDING_RESPONSE_SIGNALED"
  <1>1. Requester = 1 /\ rts[1] \in GoodRow /\ active \in Protocols \cup {NoProtocol}
    BY RequesterRow, RowFacts DEF Before, IInv, RestOK, Rows
  <1>2. CASE suppress
    <2>1. dsp' = ConfirmedDsp(rts, d, 1, TRUE)
      BY <1>1, <1>2 DEF AnswerPositive
    <2>2. ConfirmedDsp(rts, d, 1, TRUE).change.by # 1
      BY <1>1, ChangeConfirmed
    <2> QED BY <2>1, <2>2
  <1>3. CASE ~suppress
    <2>1. rt' = [rts EXCEPT ![1] = ResponseReady(@)]
      BY <1>1, <1>3 DEF AnswerPositive
    <2>2. rt'[1] = ResponseReady(rts[1])
      BY <2>1, RowFacts DEF Rows
    <2> QED BY <1>1, <2>2 DEF ResponseReady, GoodRow, RuntimeType
  <1> QED BY <1>2, <1>3

\* Once nothing is pending the request is forgotten.
LEMMA Forgotten ==
  ASSUME NEW m \in MsgType, ~m.indication, NEW suppress
  PROVE  ~Remember(m, suppress).indication
  BY DEF Remember, NoRequest, MsgType

\* A forced responsePending goes out for the request in service.
LEMMA ForcedKept ==
  ASSUME Before, msg.pdu \in RxPdus, rt[1].extTx = "PROVIDED_TO_DSD",
         NEW m \in MsgType, ~m.indication, NEW suppress, ForceResponsePending(m, suppress),
         dsp'.change = dsp.change
  PROVE  Kept
  <1>1. Requester = 1 /\ 1 \in Protocols /\ rt \in Rows
    BY RequesterRow, RowFacts
  <1> DEFINE sent == SendLocal(rt, 1)
             r == [sent[1] EXCEPT !.p2 = P2StarServer + 1, !.pend = Decremented(@)]
  <1>2. sent \in Rows
    BY <1>1, SendLocalRows
  <1>3. rt' = [sent EXCEPT ![1] = r]
    BY <1>1, <1>2 DEF ForceResponsePending, Rows
  <1>4. sent[1] \in GoodRow
    BY <1>1, <1>2 DEF Rows
  <1>5. /\ sent[1].extTx = rt[1].extTx /\ sent[1].extRx = rt[1].extRx
        /\ sent[1].locTx = IF LocalFree(1) THEN "DCM_TRANSMIT_SIGNALED" ELSE rt[1].locTx
    BY <1>1 DEF SendLocal, LocalFree, Rows, GoodRow, RuntimeType
  <1> HIDE DEF sent
  <1>6. r.extTx = sent[1].extTx /\ r.extRx = sent[1].extRx /\ r.locTx = sent[1].locTx
    BY <1>4 DEF GoodRow, RuntimeType
  <1> HIDE DEF r
  <1>7. rt'[1] = r
    BY <1>1, <1>2, <1>3 DEF Rows
  <1>8. PICK accepted \in Accepts(1, "transmitLocal") : tpTx' = TpAfterLocal(1, accepted)
    BY <1>1 DEF ForceResponsePending
  <1>9. ~msg'.indication
    BY Forgotten DEF ForceResponsePending
  <1> QED BY <1>5, <1>6, <1>7, <1>8, <1>9, LocalSent

-----------------------------------------------------------------------------
(* The callbacks *)

\* While the receive buffer is not with the DSD there is nothing to answer.
LEMMA NothingToAnswer ==
  ASSUME Before, rt[1].extRx # "PROVIDED_TO_DSD"
  PROVE  /\ rt[1].extTx = "NOT_IN_USE" /\ ~msg.indication /\ dsp.work = "none"
  BY DEF Before, LockInv, Locked, InService

\* A reception begins, or ends without a request.
LEMMA Reception ==
  ASSUME Before, UNCHANGED <<msg, dsp, tpTx>>,
         rt'[1].extTx = rt[1].extTx, rt'[1].locTx = rt[1].locTx,
         \/ rt[1].extRx = "NOT_IN_USE" /\ rt'[1].extRx = "PROVIDED_TO_PDUR"
         \/ rt[1].extRx = "PROVIDED_TO_PDUR" /\ rt'[1].extRx = "NOT_IN_USE"
  PROVE  Kept
  <1>1. LockInv'
    BY NothingToAnswer DEF LockInv, Locked, InService, SeenInTime
  <1>2. StageStep
    BY NothingToAnswer, StageValues, StageSteps
  <1>3. ChangeHasResponse => ChangeHasResponse'
    BY DEF ChangeHasResponse
  <1> QED BY <1>1, <1>2, <1>3, RowFacts, KeptParts

\* A reception ends in a request for the DSD.
LEMMA Indication ==
  ASSUME Before, rt[1].extRx = "PROVIDED_TO_PDUR", tpTx' = tpTx,
         rt'[1].extRx = "PROVIDED_TO_DSD", rt'[1].extTx = "PROVIDED_TO_DSD",
         rt'[1].locTx = rt[1].locTx, rt'[1].p2 = P2Server, rt'[1].pend = MaxNumRespPend,
         Settles(dsp, dsp')
  PROVE  Kept
  <1>1. InTime(rt'[1])
    BY DEF Before, P2Lasts, InTime
  <1>2. LockInv'
    BY <1>1, NothingToAnswer DEF LockInv, Locked, InService, SeenInTime, Settles
  <1>3. StageStep
    BY NothingToAnswer, StageValues, StageSteps
  <1>4. rt'[1].extTx \notin Transmitting /\ rt[1].extTx \notin Transmitting
    BY NothingToAnswer DEF Transmitting
  <1>5. ChangeHasResponse => ChangeHasResponse'
    BY NothingToAnswer DEF ChangeHasResponse, Answered, Transmitting, Settles
  <1> QED BY <1>2, <1>3, <1>4, <1>5, RowFacts, KeptParts

\* A reception starts.
LEMMA StartOfReceptionKept ==
  ASSUME Before, NEW pdu \in RxPdus, StartOfReception(pdu)
  PROVE  Kept
  <1>1. ProtocolOf[pdu] = 1
    BY RowOfPdu, RowFacts DEF Before
  <1>2. rt[1] \in GoodRow /\ rt \in Rows /\ 1 \in Protocols
    BY RowFacts
  <1> DEFINE stopped == [rt[1] EXCEPT !.s3On = FALSE]
             ext == [stopped EXCEPT !.extRx = "PROVIDED_TO_PDUR", !.busy = TRUE, !.pdu = pdu]
             loc == [stopped EXCEPT !.locRx = "PROVIDED_TO_PDUR", !.locPdu = pdu]
  <1>3. /\ SameBuffers(rt[1], loc)
        /\ ext.extRx = "PROVIDED_TO_PDUR" /\ ext.extTx = rt[1].extTx /\ ext.locTx = rt[1].locTx
    BY <1>2 DEF GoodRow, RuntimeType, SameBuffers
  <1>4. \/ rt[1].extRx = "NOT_IN_USE" /\ rt' = [rt EXCEPT ![1] = ext]
        \/ rt' = [rt EXCEPT ![1] = loc]
    BY <1>1 DEF StartOfReception
  <1> HIDE DEF ext, loc
  <1>5. UNCHANGED <<msg, dsp, tpTx, main>>
    BY DEF StartOfReception
  <1>6. CASE rt[1].extRx = "NOT_IN_USE" /\ rt' = [rt EXCEPT ![1] = ext]
    <2>1. rt'[1] = ext
      BY <1>2, <1>6 DEF Rows
    <2> QED BY <1>3, <1>5, <1>6, <2>1, Reception
  <1>7. CASE rt' = [rt EXCEPT ![1] = loc]
    <2>1. rt'[1] = loc
      BY <1>2, <1>7 DEF Rows
    <2> QED BY <1>3, <1>5, <2>1, Undisturbed DEF Settles
  <1> QED BY <1>4, <1>6, <1>7

\* A reception ends.
LEMMA TpRxIndicationKept ==
  ASSUME Before, NEW pdu \in RxPdus, TpRxIndication(pdu)
  PROVE  Kept
  <1>1. ProtocolOf[pdu] = 1
    BY RowOfPdu, RowFacts DEF Before
  <1>2. /\ rt[1] \in GoodRow /\ rt \in Rows /\ 1 \in Protocols /\ dsp \in DspType
        /\ active \in Protocols \cup {NoProtocol} /\ "DEFAULT" \in Sessions
    BY RowFacts DEF Before, IInv, RestOK, Sessions
  <1>3. ASSUME NEW rts \in Rows, NEW r, rt' = [rts EXCEPT ![1] = r] PROVE rt'[1] = r
    BY <1>2, <1>3 DEF Rows
  <1>4. InExternal(pdu) => rt[1].extRx = "PROVIDED_TO_PDUR"
    BY <1>1 DEF InExternal
  <1> DEFINE timed == ResetSessionTimeoutTimer(rt)
  <1>5. timed \in Rows /\ SameBuffers(rt[1], timed[1]) /\ timed[1] \in GoodRow
    BY <1>2, ResetSessionTimeoutTimerRows, SessionBuffers DEF Rows
  <1> HIDE DEF timed
  <1>6. active = 1 <=> rt[1].started
    BY <1>2 DEF Before, ActiveIsStarted
  <1>7. CASE RxFailed(pdu)
    <2>1. rt' = [timed EXCEPT ![1] = ReleaseRx(timed[1])] /\ UNCHANGED <<msg, dsp, tpTx>>
      BY <1>1, <1>7 DEF RxFailed, timed
    <2>2. rt'[1] = ReleaseRx(timed[1])
      BY <1>3, <1>5, <2>1
    <2> QED BY <1>4, <1>5, <1>7, <2>1, <2>2, RowBuffers, Reception DEF RxFailed, SameBuffers
  <1>8. CASE RxTesterPresent(pdu)
    <2>1. rt'[1] = StartS3(ReleaseRx(rt[1])) /\ UNCHANGED <<msg, dsp, tpTx>>
      BY <1>1, <1>2, <1>3, <1>8 DEF RxTesterPresent
    <2>2. ReleaseRx(rt[1]) \in GoodRow
      BY <1>2, ReleaseRxRow
    <2> QED BY <1>2, <1>4, <1>8, <2>1, <2>2, RowBuffers, Reception DEF RxTesterPresent, SameBuffers
  <1>9. CASE RxRequest(pdu)
    <2>1. rt'[1] = HandToDsd(rt[1]) /\ UNCHANGED <<dsp, tpTx>>
      BY <1>1, <1>2, <1>3, <1>9 DEF RxRequest
    <2>2. rt[1].extRx = "PROVIDED_TO_PDUR"
      BY <1>4, <1>9 DEF RxRequest
    <2>3. /\ rt'[1].extRx = "PROVIDED_TO_DSD" /\ rt'[1].extTx = "PROVIDED_TO_DSD"
          /\ rt'[1].locTx = rt[1].locTx /\ rt'[1].p2 = P2Server /\ rt'[1].pend = MaxNumRespPend
      BY <1>2, <2>1 DEF GoodRow, RuntimeType, HandToDsd
    <2> QED BY <2>1, <2>2, <2>3, Indication DEF Settles
  <1>10. CASE RxStartsProtocol(pdu)
    <2>1. /\ rt'[1] = HandToDsd(StartRow(rt[1], 1)) /\ tpTx' = tpTx
          /\ dsp' = DspAfterChange(dsp, rt[1])
      BY <1>1, <1>2, <1>3, <1>10 DEF RxStartsProtocol
    <2>2. StartRow(rt[1], 1) \in GoodRow
      BY <1>2, StartRowRow
    <2>3. Settles(dsp, dsp')
      BY <1>2, <2>1, ChangeSettles
    <2> QED BY <1>2, <1>4, <1>10, <2>1, <2>2, <2>3, RowBuffers, Indication
         DEF RxStartsProtocol, SameBuffers
  <1>11. ~RxPreemptsIdle(pdu) /\ ~RxPreemptsBusy(pdu) /\ ~RxOutranked(pdu)
    BY <1>1, <1>2, <1>6, RowFacts DEF RxPreemptsIdle, RxPreemptsBusy, RxOutranked, Outranks
  <1>12. CASE RxStartRefused(pdu) \/ RxOrphan(pdu)
    BY <1>12, Undisturbed DEF RxStartRefused, RxOrphan, SameBuffers, Settles
  <1>13. CASE RxLocal(pdu)
    <2> DEFINE Freed(r) == [r EXCEPT !.locRx = "NOT_IN_USE", !.locPdu = NoPdu]
    <2>1. ASSUME NEW r \in GoodRow PROVE SameBuffers(r, Freed(r))
      BY DEF GoodRow, RuntimeType, SameBuffers
    <2>2. \/ rt' = [rt EXCEPT ![1] = Freed(StartS3(rt[1]))]
          \/ rt' = [rt EXCEPT ![1] = Freed(rt[1])]
          \/ rt' = [timed EXCEPT ![1] = Freed(timed[1])]
      BY <1>1, <1>13 DEF RxLocal, timed
    <2>3. UNCHANGED <<msg, dsp, tpTx, main>>
      BY <1>13 DEF RxLocal
    <2> HIDE DEF Freed
    <2>4. \/ rt'[1] = Freed(StartS3(rt[1])) \/ rt'[1] = Freed(rt[1]) \/ rt'[1] = Freed(timed[1])
      BY <1>2, <1>3, <1>5, <2>2
    <2>5. StartS3(rt[1]) \in GoodRow /\ SameBuffers(rt[1], StartS3(rt[1]))
      BY <1>2, StartS3Row, RowBuffers
    <2>6. SameBuffers(rt[1], rt'[1])
      BY <1>2, <1>5, <2>1, <2>4, <2>5 DEF SameBuffers
    <2> QED BY <2>3, <2>6, Undisturbed DEF Settles
  <1> QED BY <1>7, <1>8, <1>9, <1>10, <1>11, <1>12, <1>13 DEF TpRxIndication

\* A transmission begins to copy its data.
LEMMA CopyTxDataKept ==
  ASSUME Before, CopyTxData(1)
  PROVE  Kept
  <1>1. rt[1] \in GoodRow /\ rt \in Rows /\ 1 \in Protocols
    BY RowFacts
  <1> DEFINE ext == [rt[1] EXCEPT !.extTx = "PROVIDED_TO_PDUR"]
             loc == [rt[1] EXCEPT !.locTx = "PROVIDED_TO_PDUR"]
  <1>2. /\ ext.extTx = "PROVIDED_TO_PDUR" /\ ext.extRx = rt[1].extRx /\ ext.locTx = rt[1].locTx
        /\ loc.extTx = rt[1].extTx /\ loc.extRx = rt[1].extRx
        /\ loc.p2 = rt[1].p2 /\ loc.pend = rt[1].pend
        /\ loc.locTx = "PROVIDED_TO_PDUR"
    BY <1>1 DEF GoodRow, RuntimeType
  <1>3. /\ tpTx[1] # "idle" /\ UNCHANGED <<msg, dsp, main, tpTx>>
        /\ \/ rt[1].extTx = "DCM_TRANSMIT_SIGNALED" /\ rt' = [rt EXCEPT ![1] = ext]
           \/ /\ rt[1].extTx \notin Transmitting /\ rt[1].locTx = "DCM_TRANSMIT_SIGNALED"
              /\ rt' = [rt EXCEPT ![1] = loc]
    BY DEF CopyTxData
  <1> HIDE DEF ext, loc
  <1>4. CASE rt[1].extTx = "DCM_TRANSMIT_SIGNALED" /\ rt' = [rt EXCEPT ![1] = ext]
    <2>1. rt'[1] = ext
      BY <1>1, <1>4 DEF Rows
    <2>2. LockInv'
      BY <1>2, <1>3, <1>4, <2>1 DEF Before, LockInv, Locked, InService, SeenInTime
    <2>3. rt[1].extTx \in Transmitting /\ rt'[1].extTx \in Transmitting
      BY <1>2, <1>4, <2>1 DEF Transmitting
    <2>4. StageStep
      BY <2>3, StageValues, StageSteps
    <2> QED BY <1>2, <1>3, <2>1, <2>2, <2>3, <2>4, RowFacts, KeptParts DEF ChangeHasResponse, Answered
  <1>5. CASE /\ rt[1].extTx \notin Transmitting /\ rt[1].locTx = "DCM_TRANSMIT_SIGNALED"
             /\ rt' = [rt EXCEPT ![1] = loc]
    <2>1. rt'[1] = loc
      BY <1>1, <1>5 DEF Rows
    <2>2. LockInv'
      BY <1>2, <1>3, <2>1 DEF Before, LockInv, Locked, InService, SeenInTime, InTime
    <2>3. StageOf(rt'[1]) = StageOf(rt[1])
      <3>1. \/ rt[1].extTx = "PROVIDED_TO_DSD" \/ rt[1].extTx = "DSD_PENDING_RESPONSE_SIGNALED"
            \/ rt[1].extTx = "NOT_IN_USE"
        BY <1>5, RowFacts DEF Before, LockInv, Locked, TxStatus, Transmitting
      <3> QED BY <1>2, <2>1, <3>1, StageValues
    <2>4. StageStep
      BY <2>3, StageSteps
    <2>5. rt'[1].locTx \in Transmitting /\ rt'[1].extTx \notin Transmitting /\ tpTx'[1] = "local"
      BY <1>2, <1>3, <1>5, <2>1, RowFacts DEF Transmitting
    <2>6. ChangeHasResponse => ChangeHasResponse'
      BY <1>2, <1>3, <2>1 DEF ChangeHasResponse
    <2> QED BY <2>2, <2>4, <2>5, <2>6, KeptParts
  <1> QED BY <1>3, <1>4, <1>5

\* A transmission ends: the buffers tell which one it was, and tell it right.
LEMMA TpTxConfirmationKept ==
  ASSUME Before, NEW ok \in BOOLEAN, TpTxConfirmation(1, ok)
  PROVE  Kept
  <1>1. /\ rt[1] \in GoodRow /\ rt \in Rows /\ 1 \in Protocols /\ dsp \in DspType
        /\ active \in Protocols \cup {NoProtocol}
    BY RowFacts DEF Before, IInv, RestOK
  <1> DEFINE sent == ok /\ rt[1].extTx = "PROVIDED_TO_PDUR"
             free == StartS3(ReleaseBuffers(rt[1]))
             released == [rt EXCEPT ![1] = free]
  <1>2. tpTx[1] # "idle" /\ UNCHANGED <<msg, main>> /\ tpTx'[1] = "idle"
    BY <1>1 DEF TpTxConfirmation, Before, IInv, RestOK
  <1>3. CASE rt[1].extTx \in Transmitting
    <2>1. rt' = ConfirmedRt(released, dsp, 1, sent) /\ dsp' = ConfirmedDsp(released, dsp, 1, sent)
      BY <1>3 DEF TpTxConfirmation
    <2>2. ReleaseBuffers(rt[1]) \in GoodRow
      BY <1>1, ReleaseBuffersRow
    <2>3. /\ free \in GoodRow /\ free.extTx = "NOT_IN_USE" /\ free.extRx = "NOT_IN_USE"
          /\ free.locTx = rt[1].locTx
      BY <1>1, <2>2, StartS3Row, RowBuffers DEF SameBuffers
    <2> HIDE DEF free
    <2>4. released \in Rows /\ released[1] = free /\ sent \in BOOLEAN
      BY <1>1, <2>3, UpdateRows DEF Rows
    <2> HIDE DEF released, sent
    <2>5. SameBuffers(free, rt'[1])
      BY <1>1, <2>1, <2>4, ConfirmedBuffers
    <2>6. ~msg.indication /\ dsp.work = "none"
      BY <1>3 DEF Before, LockInv, InService, Transmitting
    <2>7. dsp'.work = "none"
      BY <1>1, <2>1, <2>4, <2>6, ConfirmedDspType
    <2>8. LockInv'
      BY <1>2, <2>3, <2>5, <2>6, <2>7 DEF LockInv, Locked, InService, SeenInTime, SameBuffers
    <2>9. StageStep
      BY <1>3, <2>3, <2>5, StageValues, StageSteps DEF SameBuffers
    <2>10. tpTx[1] = "ext"
      BY <1>2, <1>3, RowFacts
    <2>11. ChangeHasResponse'
      BY <1>1, <2>1, <2>4, ChangeConfirmed DEF ChangeHasResponse
    <2> QED BY <1>2, <2>3, <2>5, <2>8, <2>9, <2>10, <2>11, KeptParts DEF SameBuffers
  <1>4. CASE rt[1].extTx \notin Transmitting
    <2>1. tpTx[1] = "local" /\ rt[1].locTx \in Transmitting
      BY <1>2, <1>4, RowFacts
    <2>2. rt' = FreeLocal(rt, 1) /\ dsp' = dsp
      BY <1>4, <2>1 DEF TpTxConfirmation
    <2>3. /\ rt'[1].extTx = rt[1].extTx /\ rt'[1].extRx = rt[1].extRx
          /\ rt'[1].p2 = rt[1].p2 /\ rt'[1].pend = rt[1].pend
          /\ rt'[1].locTx = "NOT_IN_USE"
      BY <1>1, <2>2 DEF FreeLocal, Rows, GoodRow, RuntimeType
    <2>4. LockInv'
      BY <1>2, <2>2, <2>3 DEF Before, LockInv, Locked, InService, SeenInTime, InTime
    <2>5. \/ rt[1].extTx = "PROVIDED_TO_DSD" \/ rt[1].extTx = "DSD_PENDING_RESPONSE_SIGNALED"
          \/ rt[1].extTx = "NOT_IN_USE"
      BY <1>4, RowFacts DEF Before, LockInv, Locked, TxStatus, Transmitting
    <2>6. StageOf(rt'[1]) = StageOf(rt[1])
      BY <2>3, <2>5, StageValues
    <2>7. StageStep
      BY <2>6, StageSteps
    <2>8. ChangeHasResponse => ChangeHasResponse'
      BY <2>2, <2>3 DEF ChangeHasResponse
    <2> QED BY <1>2, <2>3, <2>4, <2>7, <2>8, KeptParts
  <1> QED BY <1>3, <1>4
-----------------------------------------------------------------------------
(* The DSD and the service processor *)

\* The DSD took the request and the service goes on.
LEMMA ServicePending ==
  ASSUME Before, rt[1].extTx = "PROVIDED_TO_DSD", rt' = rt, tpTx' = tpTx, ~msg'.indication,
         dsp'.change = dsp.change
  PROVE  Kept
  <1>1. LockInv'
    BY DEF Before, LockInv, Locked, InService, SeenInTime
  <1>2. StageStep
    BY StageSteps
  <1> QED BY <1>1, <1>2, RowFacts, KeptParts DEF ChangeHasResponse

\* A service that was not pending answers at once, or the DSD does.
LEMMA ServiceAnswers ==
  ASSUME Before, msg.pdu \in RxPdus, rt[1].extTx = "PROVIDED_TO_DSD", tpTx' = tpTx,
         NEW rts \in Rows, SameBuffers(rt[1], rts[1]), NEW d \in DspType, d.work = "none",
         NEW suppress \in BOOLEAN,
         \/ AnswerPositive(rts, d, suppress)
         \/ AnswerNegative(rts, d) /\ d.change = dsp.change,
         NEW m \in MsgType, ~m.indication, NEW remembered, msg' = Remember(m, remembered)
  PROVE  Kept
  <1>1. dsp'.work = "none"
    BY AnswerPositiveStep, AnswerNegativeStep DEF Before, IInv
  <1>2. ~msg'.indication
    BY Forgotten
  <1>3. /\ rt'[1].locTx = rt[1].locTx
        /\ \/ rt'[1].extTx = "DSD_PENDING_RESPONSE_SIGNALED" /\ rt'[1].extRx = rt[1].extRx
           \/ rt'[1].extTx = "NOT_IN_USE" /\ rt'[1].extRx = "NOT_IN_USE"
    BY AnswerBuffers
  <1>4. ChangeHasResponse /\ dsp'.change.by = 1 => rt'[1].extTx = "DSD_PENDING_RESPONSE_SIGNALED"
    <2>1. CASE AnswerPositive(rts, d, suppress)
      BY <2>1, AnswerChange
    <2>2. CASE AnswerNegative(rts, d) /\ d.change = dsp.change
      BY <2>2, NoChangeWaits DEF AnswerNegative, Answered, Transmitting
    <2> QED BY <2>1, <2>2
  <1> QED BY <1>1, <1>2, <1>3, <1>4, ServiceEnds

\* Unlocking changes no buffer.
LEMMA UnlockBuffers ==
  ASSUME Before, active # NoProtocol
  PROVE  Unlock(rt) \in Rows /\ SameBuffers(rt[1], Unlock(rt)[1])
  <1>1. rt \in Rows /\ 1 \in Protocols /\ active \in Protocols /\ "DEFAULT" \in Sessions
    BY RowFacts DEF Before, IInv, RestOK, Sessions
  <1> QED BY <1>1, UnlockRows, SessionBuffers

\* DsdMain takes the request and answers it, or leaves its service pending.
LEMMA DsdMainKept ==
  ASSUME Before, DsdMain
  PROVE  Kept
  <1>1. rt \in Rows /\ dsp \in DspType /\ SameBuffers(rt[1], rt[1])
    BY RowFacts DEF Before, IInv, RestOK, SameBuffers
  <1>2. Taken \in MsgType /\ ~Taken.indication /\ msg.suppress \in BOOLEAN
    BY TakenMsg DEF Before, IInv
  <1>3. CASE DsdIdle
    <2>1. UNCHANGED <<rt, msg, dsp, tpTx>> /\ ~msg.indication
      BY <1>3 DEF DsdIdle
    <2> QED BY <1>1, <2>1, Undisturbed DEF Settles
  <1>4. ASSUME DsdTakes
        PROVE msg.pdu \in RxPdus /\ rt[1].extTx = "PROVIDED_TO_DSD" /\ dsp.work = "none"
    BY <1>4 DEF DsdTakes, Before, IInv, RequestKnown, LockInv, InService, SeenInTime
  <1>5. CASE DsdDiscards
    <2>1. /\ DsdTakes /\ rt' = Suppressed(rt) /\ dsp' = dsp /\ tpTx' = tpTx
          /\ msg' = Remember(Taken, msg.suppress)
      BY <1>5 DEF DsdDiscards
    <2>2. ~msg'.indication
      BY <1>2, <2>1, Forgotten
    <2>3. /\ rt'[1].locTx = rt[1].locTx
          /\ \/ rt'[1].extTx = "DSD_PENDING_RESPONSE_SIGNALED" /\ rt'[1].extRx = rt[1].extRx
             \/ rt'[1].extTx = "NOT_IN_USE" /\ rt'[1].extRx = "NOT_IN_USE"
      BY <1>1, <1>2, <1>4, <2>1, AnswerBuffers
    <2>4. ChangeHasResponse => dsp'.change.by # 1
      BY <1>4, <2>1, NoChangeWaits DEF Answered, Transmitting
    <2> QED BY <1>4, <2>1, <2>2, <2>3, <2>4, ServiceEnds
  <1>6. CASE DsdRefuses
    <2>1. /\ DsdTakes /\ AnswerNegative(rt, dsp) /\ tpTx' = tpTx
          /\ msg' = Remember(Taken, msg.suppress)
      BY <1>6 DEF DsdRefuses
    <2> QED BY <1>1, <1>2, <1>4, <2>1, ServiceAnswers
  <1>7. CASE DsdServes
    <2>1. DsdTakes
      BY <1>7 DEF DsdServes
    <2>2. PICK suppress \in BOOLEAN :
            \/ /\ \/ AnswerPositive(rt, dsp, suppress)
                  \/ AnswerNegative(rt, dsp)
                  \/ rt' = rt /\ dsp'.change = dsp.change
               /\ msg' = Remember(Taken, suppress)
               /\ tpTx' = tpTx
            \/ ForceResponsePending(Taken, suppress) /\ dsp'.change = dsp.change
      BY <1>1, <1>7 DEF DsdServes, DspType
    <2>3. CASE /\ AnswerPositive(rt, dsp, suppress) \/ AnswerNegative(rt, dsp)
               /\ msg' = Remember(Taken, suppress) /\ tpTx' = tpTx
      BY <1>1, <1>2, <1>4, <2>1, <2>3, ServiceAnswers
    <2>4. CASE /\ rt' = rt /\ msg' = Remember(Taken, suppress) /\ tpTx' = tpTx
               /\ dsp'.change = dsp.change
      BY <1>2, <1>4, <2>1, <2>4, Forgotten, ServicePending
    <2>5. CASE ForceResponsePending(Taken, suppress) /\ dsp'.change = dsp.change
      BY <1>2, <1>4, <2>1, <2>5, ForcedKept
    <2> QED BY <2>2, <2>3, <2>4, <2>5
  <1>8. CASE DsdSessionControl
    <2>1. DsdTakes /\ tpTx' = tpTx
      BY <1>8 DEF DsdSessionControl
    <2>2. PICK suppress \in BOOLEAN, new \in {"DEFAULT"} \cup ExtraSessions :
            /\ AnswerPositive(rt, [dsp EXCEPT !.change = [by |-> Requester, to |-> new]], suppress)
            /\ msg' = Remember(Taken, suppress)
      BY <1>8 DEF DsdSessionControl
    <2>3. /\ [dsp EXCEPT !.change = [by |-> Requester, to |-> new]] \in DspType
          /\ [dsp EXCEPT !.change = [by |-> Requester, to |-> new]].work = dsp.work
      <3>1. Requester \in Protocols
        BY <1>4, <2>1, RequesterRow
      <3>2. [by |-> Requester, to |-> new] \in SessionChange
        BY <3>1 DEF SessionChange, Sessions
      <3> QED BY <1>1, <3>2 DEF DspType
    <2> QED BY <1>1, <1>2, <1>4, <2>1, <2>2, <2>3, ServiceAnswers
  <1>9. CASE DsdSecurityAccess
    <2> DEFINE opened == [dsp EXCEPT !.seed = TRUE]
               ended == [dsp EXCEPT !.seed = FALSE]
    <2>1. DsdTakes /\ active # NoProtocol /\ tpTx' = tpTx
      BY <1>9 DEF DsdSecurityAccess
    <2>2. /\ opened \in DspType /\ ended \in DspType
          /\ opened.work = dsp.work /\ ended.work = dsp.work /\ ended.change = dsp.change
      BY <1>1 DEF DspType
    <2>3. PICK suppress \in BOOLEAN :
            /\ \/ AnswerPositive(rt, opened, suppress)
               \/ AnswerPositive(Unlock(rt), ended, suppress)
               \/ AnswerNegative(rt, ended)
               \/ rt' = rt /\ dsp'.change = dsp.change
            /\ msg' = Remember(Taken, suppress)
      BY <1>1, <1>9 DEF DsdSecurityAccess, DspType
    <2> HIDE DEF opened, ended
    <2>4. CASE AnswerPositive(rt, opened, suppress)
      BY <1>1, <1>2, <1>4, <2>1, <2>2, <2>3, <2>4, ServiceAnswers
    <2>5. CASE AnswerPositive(Unlock(rt), ended, suppress)
      BY <1>2, <1>4, <2>1, <2>2, <2>3, <2>5, UnlockBuffers, ServiceAnswers
    <2>6. CASE AnswerNegative(rt, ended)
      BY <1>1, <1>2, <1>4, <2>1, <2>2, <2>3, <2>6, ServiceAnswers
    <2>7. CASE rt' = rt /\ dsp'.change = dsp.change
      BY <1>2, <1>4, <2>1, <2>3, <2>7, Forgotten, ServicePending
    <2> QED BY <2>3, <2>4, <2>5, <2>6, <2>7
  <1> QED BY <1>3, <1>5, <1>6, <1>7, <1>8, <1>9 DEF DsdMain

\* DspMain lets a pending service go on, answers it, or asks for more time.
LEMMA DspMainKept ==
  ASSUME Before, DspMain
  PROVE  Kept
  <1>1. /\ rt \in Rows /\ dsp \in DspType /\ SameBuffers(rt[1], rt[1])
        /\ msg \in MsgType /\ msg.suppress \in BOOLEAN
    BY RowFacts DEF Before, IInv, RestOK, SameBuffers, MsgType
  <1>2. dsp.work # "none"
          => msg.pdu \in RxPdus /\ rt[1].extTx = "PROVIDED_TO_DSD" /\ ~msg.indication
    BY DEF Before, IInv, RequestKnown, LockInv, InService, SeenInTime
  <1>3. CASE DspWaits
    <2>1. UNCHANGED <<rt, msg, dsp, tpTx>> /\ main.phase = "dsp"
      BY <1>3 DEF DspWaits, DspRuns
    <2> QED BY <1>1, <2>1, Undisturbed DEF Settles
  <1>4. CASE DspAnswers
    <2> DEFINE d == [dsp EXCEPT !.work = "none"]
    <2>1. d \in DspType /\ d.work = "none" /\ d.change = dsp.change
      BY <1>1 DEF DspType
    <2>2. /\ dsp.work # "none" /\ tpTx' = tpTx /\ msg' = Remember(msg, msg.suppress)
          /\ AnswerPositive(rt, d, msg.suppress) \/ AnswerNegative(rt, d)
      BY <1>4 DEF DspAnswers
    <2> HIDE DEF d
    <2> QED BY <1>1, <1>2, <2>1, <2>2, ServiceAnswers
  <1>5. CASE DspForcesResponsePending
    <2>1. dsp.work # "none" /\ ForceResponsePending(msg, msg.suppress) /\ dsp' = dsp
      BY <1>5 DEF DspForcesResponsePending
    <2> QED BY <1>1, <1>2, <2>1, ForcedKept
  <1>6. CASE DspComparesKey
    <2> DEFINE d == [dsp EXCEPT !.work = "none", !.seed = FALSE]
    <2>1. d \in DspType /\ d.work = "none" /\ d.change = dsp.change
      BY <1>1 DEF DspType
    <2>2. /\ dsp.work # "none" /\ tpTx' = tpTx /\ msg' = Remember(msg, msg.suppress)
          /\ \/ AnswerNegative(rt, d)
             \/ active # NoProtocol /\ AnswerPositive(Unlock(rt), d, msg.suppress)
      BY <1>6 DEF DspComparesKey
    <2> HIDE DEF d
    <2>3. CASE AnswerNegative(rt, d)
      BY <1>1, <1>2, <2>1, <2>2, <2>3, ServiceAnswers
    <2>4. CASE active # NoProtocol /\ AnswerPositive(Unlock(rt), d, msg.suppress)
      BY <1>1, <1>2, <2>1, <2>2, <2>4, UnlockBuffers, ServiceAnswers
    <2> QED BY <2>2, <2>3, <2>4
  <1> QED BY <1>3, <1>4, <1>5, <1>6 DEF DspMain

-----------------------------------------------------------------------------
(* DslMain *)

\* A warm start opens a protocol without a request.
LEMMA StartProtocolKept ==
  ASSUME Before, DcmExecuteStartProtocolRequest
  PROVE  Kept
  <1>1. /\ rt \in Rows /\ rt[1] \in GoodRow /\ 1 \in Protocols
    BY RowFacts
  <1>2. /\ UNCHANGED <<msg, dsp, tpTx>> /\ main'.phase = "dsd"
    BY DEF DcmExecuteStartProtocolRequest, Before, IInv, RestOK, MainType
  <1>3. SameBuffers(rt[1], rt'[1])
    <2>1. CASE rt' = rt
      BY <2>1 DEF SameBuffers
    <2>2. CASE rt' # rt
      <3> DEFINE begun(new) == [rt[1] EXCEPT !.started = TRUE, !.session = new, !.unlocked = FALSE]
      <3>1. PICK new \in {"DEFAULT"} \cup ExtraSessions :
              rt' = [rt EXCEPT ![1] = IF new = "DEFAULT" THEN begun(new) ELSE StartS3(begun(new))]
        <4>1. \A p \in StartupProtocols : p = 1
          BY OneRow, ConfigAssumption DEF Before
        <4> QED BY <2>2, <4>1 DEF DcmExecuteStartProtocolRequest
      <3>2. begun(new) \in GoodRow /\ SameBuffers(rt[1], begun(new))
        BY <1>1 DEF GoodRow, RuntimeType, SameBuffers, Sessions
      <3> HIDE DEF begun
      <3>3. SameBuffers(begun(new), StartS3(begun(new)))
        BY <3>2, RowBuffers
      <3>4. rt'[1] = begun(new) \/ rt'[1] = StartS3(begun(new))
        BY <1>1, <3>1 DEF Rows
      <3> QED BY <3>2, <3>3, <3>4 DEF SameBuffers
    <2> QED BY <2>1, <2>2
  <1> QED BY <1>2, <1>3, Undisturbed DEF Settles

\* The session timer is no buffer.
LEMMA S3Kept ==
  ASSUME Before, S3Running \/ S3Timeout
  PROVE  Kept
  <1>1. /\ rt \in Rows /\ rt[1] \in GoodRow /\ 1 \in Protocols /\ main.row = 1
        /\ dsp \in DspType
    BY RowFacts DEF Before, IInv, RestOK
  <1>2. UNCHANGED <<msg, tpTx>> /\ main.phase = "s3"
    BY DEF S3Running, S3Timeout
  <1>3. CASE S3Running
    <2>1. PICK n : rt' = [rt EXCEPT ![1] = [rt[1] EXCEPT !.s3 = n]]
      BY <1>1, <1>3 DEF S3Running, Rows
    <2>2. SameBuffers(rt[1], [rt[1] EXCEPT !.s3 = n])
      BY <1>1 DEF GoodRow, RuntimeType, SameBuffers
    <2>3. rt'[1] = [rt[1] EXCEPT !.s3 = n]
      BY <1>1, <2>1 DEF Rows
    <2>4. dsp' = dsp
      BY <1>3 DEF S3Running
    <2> QED BY <1>2, <2>2, <2>3, <2>4, Undisturbed DEF Settles
  <1>4. CASE S3Timeout
    <2> DEFINE fallen == ChangeSession(rt[1], "DEFAULT")
               closed == [[fallen EXCEPT !.s3 = 0] EXCEPT !.started = @ /\ 1 \notin ObdProtocols]
    <2>1. fallen \in GoodRow
      BY <1>1, ChangeSessionRow DEF Sessions
    <2>6. SameBuffers(rt[1], fallen)
      BY <1>1 DEF GoodRow, RuntimeType, SameBuffers, ChangeSession
    <2>2. rt' = [rt EXCEPT ![1] = closed]
      BY <1>1, <1>4 DEF S3Timeout
    <2> HIDE DEF fallen
    <2>3. SameBuffers(fallen, closed)
      BY <2>1 DEF GoodRow, RuntimeType, SameBuffers
    <2> HIDE DEF closed
    <2>4. SameBuffers(rt[1], rt'[1])
      BY <1>1, <2>2, <2>3, <2>6 DEF Rows, SameBuffers
    <2>5. Settles(dsp, dsp')
      BY <1>1, <1>4, ChangeSettles DEF S3Timeout
    <2> QED BY <1>2, <2>4, <2>5, Undisturbed
  <1> QED BY <1>3, <1>4

\* A responsePending keeps the request; a generalReject goes out only after the DSD saw it.
LEMMA TxLocalKept ==
  ASSUME Before, TxResponsePending \/ TxGeneralReject
  PROVE  Kept
  <1>1. /\ rt \in Rows /\ rt[1] \in GoodRow /\ 1 \in Protocols /\ main.row = 1
        /\ dsp \in DspType /\ msg \in MsgType
    BY RowFacts DEF Before, IInv, RestOK
  <1> DEFINE sent == SendLocal(rt, 1)
  <1>2. sent \in Rows /\ sent[1] \in GoodRow
    BY <1>1, SendLocalRows DEF Rows
  <1>3. /\ sent[1].extTx = rt[1].extTx /\ sent[1].extRx = rt[1].extRx
        /\ sent[1].locTx = IF LocalFree(1) THEN "DCM_TRANSMIT_SIGNALED" ELSE rt[1].locTx
    BY <1>1 DEF SendLocal, LocalFree, Rows, GoodRow, RuntimeType
  <1>4. /\ main.phase = "tx" /\ rt[1].extTx = "PROVIDED_TO_DSD" /\ Decremented(rt[1].p2) = 0
    BY <1>1 DEF TxResponsePending, TxGeneralReject, NextRow
  <1>5. msg.indication => dsp.work = "none" /\ ForceRespPend /\ rt[1].pend # 0
    BY <1>1, <1>4 DEF Before, LockInv, SeenInTime, InTime, Decremented, GoodRow, RuntimeType
  <1>6. PICK accepted \in Accepts(1, "transmitLocal") : tpTx' = TpAfterLocal(1, accepted)
    BY <1>1 DEF TxResponsePending, TxGeneralReject
  <1>7. CASE TxResponsePending
    <2> DEFINE r == [sent[1] EXCEPT !.p2 = P2StarServer, !.pend = Decremented(@)]
    <2>1. rt' = [sent EXCEPT ![1] = r]
      BY <1>1, <1>2, <1>7 DEF TxResponsePending, Rows
    <2> HIDE DEF sent
    <2>2. r.extTx = sent[1].extTx /\ r.extRx = sent[1].extRx /\ r.locTx = sent[1].locTx
      BY <1>2 DEF GoodRow, RuntimeType
    <2> HIDE DEF r
    <2>3. rt'[1] = r
      BY <1>1, <1>2, <2>1 DEF Rows
    <2>4. msg'.indication => dsp'.work = "none" /\ main'.phase = "dsd"
      BY <1>1, <1>5, <1>7 DEF TxResponsePending, MsgType, NextRow, Before, OneProtocol
    <2>5. dsp' = dsp
      BY <1>7 DEF TxResponsePending
    <2> QED BY <1>3, <1>4, <1>6, <2>2, <2>3, <2>4, <2>5, LocalSent
  <1>8. CASE TxGeneralReject
    <2>1. rt' = [sent EXCEPT ![1] = ReleaseBuffers(sent[1])]
      BY <1>1, <1>8 DEF TxGeneralReject
    <2> HIDE DEF sent
    <2>2. rt'[1] = ReleaseBuffers(sent[1])
      BY <1>1, <1>2, <2>1 DEF Rows
    <2>3. /\ rt'[1].extTx = "NOT_IN_USE" /\ rt'[1].extRx = "NOT_IN_USE"
          /\ rt'[1].locTx = sent[1].locTx
      BY <1>2, <2>2 DEF GoodRow, RuntimeType, ReleaseBuffers, ReleaseRx
    <2>4. dsp'.work = "none" /\ dsp'.change = dsp.change
      BY <1>1, <1>8 DEF TxGeneralReject, CancelPending, DspType
    <2>5. ~msg'.indication
      BY <1>1, <1>5, <1>8, Forgotten DEF TxGeneralReject
    <2> QED BY <1>3, <1>4, <1>6, <2>3, <2>4, <2>5, LocalSent
  <1> QED BY <1>7, <1>8

\* P2 runs on, and the DSD is next.
LEMMA TxP2RunningKept ==
  ASSUME Before, TxP2Running
  PROVE  Kept
  <1>1. rt \in Rows /\ rt[1] \in GoodRow /\ 1 \in Protocols /\ main.row = 1
    BY RowFacts
  <1> DEFINE r == [rt[1] EXCEPT !.p2 = Decremented(rt[1].p2)]
  <1>2. rt' = [rt EXCEPT ![1] = r]
    BY <1>1 DEF TxP2Running
  <1>3. /\ r.extTx = rt[1].extTx /\ r.extRx = rt[1].extRx /\ r.locTx = rt[1].locTx
        /\ r.p2 = Decremented(rt[1].p2)
    BY <1>1 DEF GoodRow, RuntimeType
  <1> HIDE DEF r
  <1>4. rt'[1] = r
    BY <1>1, <1>2 DEF Rows
  <1>5. /\ rt[1].extTx = "PROVIDED_TO_DSD" /\ Decremented(rt[1].p2) # 0
        /\ UNCHANGED <<msg, dsp, tpTx>>
    BY <1>1 DEF TxP2Running
  <1>6. main'.phase = "dsd"
    BY <1>1 DEF TxP2Running, NextRow, Before, OneProtocol
  <1>7. LockInv'
    BY <1>3, <1>4, <1>5, <1>6 DEF Before, LockInv, Locked, InService, SeenInTime
  <1>8. StageOf(rt'[1]) = StageOf(rt[1])
    BY <1>3, <1>4, <1>5, StageValues
  <1>9. StageStep
    BY <1>8, StageSteps
  <1> QED BY <1>3, <1>4, <1>5, <1>7, <1>9, RowFacts, KeptParts DEF ChangeHasResponse

\* The response is handed to the transport layer, which takes it or not.
LEMMA TxResponseKept ==
  ASSUME Before, TxResponse
  PROVE  Kept
  <1>1. /\ rt \in Rows /\ rt[1] \in GoodRow /\ 1 \in Protocols /\ main.row = 1
        /\ tpTx \in [Protocols -> {"idle", "ext", "local"}]
    BY RowFacts DEF Before, IInv, RestOK
  <1> DEFINE signalled == [rt[1] EXCEPT !.extTx = "DCM_TRANSMIT_SIGNALED"]
             freed == ReleaseBuffers(StartS3(rt[1]))
  <1>2. /\ rt[1].extTx = "DSD_PENDING_RESPONSE_SIGNALED" /\ rt[1].locTx = "NOT_IN_USE"
        /\ UNCHANGED <<msg, dsp>>
    BY <1>1 DEF TxResponse, LocalFree
  <1>3. tpTx[1] = "idle" /\ ~msg.indication /\ dsp.work = "none"
    BY <1>2, RowFacts DEF Before, LockInv, InService, Transmitting
  <1>4. \/ rt' = [rt EXCEPT ![1] = signalled] /\ tpTx' = [tpTx EXCEPT ![1] = "ext"]
        \/ /\ rt' = [rt EXCEPT ![1] = freed] /\ tpTx' = tpTx
           /\ ~TransmitAccepted
    <2>1. PICK accepted \in Accepts(1, "transmit") :
            IF accepted THEN rt' = [rt EXCEPT ![1] = signalled] /\ tpTx' = [tpTx EXCEPT ![1] = "ext"]
            ELSE rt' = [rt EXCEPT ![1] = freed] /\ tpTx' = tpTx
      BY <1>1 DEF TxResponse
    <2>2. accepted \/ ~TransmitAccepted
      BY <1>3 DEF Accepts, TransmitAccepted
    <2>3. accepted \in BOOLEAN
      BY DEF Accepts
    <2> HIDE DEF signalled, freed
    <2>4. CASE accepted
      BY <2>1, <2>4
    <2>5. CASE ~accepted
      BY <2>1, <2>2, <2>5
    <2> QED BY <2>4, <2>5
  <1>5. StartS3(rt[1]) \in GoodRow
    BY <1>1, StartS3Row
  <1>6. /\ signalled.extTx = "DCM_TRANSMIT_SIGNALED" /\ signalled.extRx = rt[1].extRx
        /\ signalled.locTx = rt[1].locTx
    BY <1>1 DEF GoodRow, RuntimeType
  <1>7. freed.extTx = "NOT_IN_USE" /\ freed.extRx = "NOT_IN_USE" /\ freed.locTx = rt[1].locTx
    BY <1>1, <1>5 DEF GoodRow, RuntimeType, ReleaseBuffers, ReleaseRx, StartS3
  <1> HIDE DEF signalled, freed
  <1>8. CASE rt' = [rt EXCEPT ![1] = signalled] /\ tpTx' = [tpTx EXCEPT ![1] = "ext"]
    <2>1. rt'[1] = signalled /\ tpTx'[1] = "ext"
      BY <1>1, <1>8 DEF Rows
    <2>2. LockInv'
      BY <1>2, <1>3, <1>6, <2>1 DEF Before, LockInv, Locked, InService, SeenInTime
    <2>3. rt'[1].extTx \in Transmitting
      BY <1>6, <2>1 DEF Transmitting
    <2>4. StageStep
      BY <1>2, <2>3, StageValues, StageSteps
    <2> QED BY <1>2, <1>6, <2>1, <2>2, <2>3, <2>4, KeptParts DEF ChangeHasResponse, Answered
  <1>9. CASE rt' = [rt EXCEPT ![1] = freed] /\ tpTx' = tpTx /\ ~TransmitAccepted
    <2>1. rt'[1] = freed
      BY <1>1, <1>9 DEF Rows
    <2>2. LockInv'
      BY <1>2, <1>3, <1>7, <2>1 DEF LockInv, Locked, InService, SeenInTime
    <2>3. StageStep
      BY <1>2, <1>7, <2>1, StageValues, StageSteps
    <2> QED BY <1>2, <1>3, <1>7, <1>9, <2>1, <2>2, <2>3, KeptParts
  <1> QED BY <1>4, <1>8, <1>9

\* DslMain on the one row, which is never preempting.
LEMMA DslMainKept ==
  ASSUME Before, DslMain
  PROVE  Kept
  <1>1. main.row = 1 /\ SameBuffers(rt[1], rt[1])
    BY RowFacts DEF SameBuffers
  <1>2. CASE TxNothing
    <2>1. UNCHANGED <<rt, msg, dsp, tpTx>> /\ main.phase = "tx"
      BY <1>2 DEF TxNothing, NextRow
    <2> QED BY <1>1, <2>1, Undisturbed DEF Settles
  <1>3. ~TxPreempting
    BY <1>1 DEF TxPreempting, Before, LockInv, Locked
  <1> QED BY <1>2, <1>3, S3Kept, TxLocalKept, TxP2RunningKept, TxResponseKept DEF DslMain

-----------------------------------------------------------------------------
(* The theorems *)

\* The started row is the active one, with a warm start too: there is no other row.
LEMMA OneRowActive ==
  ASSUME Before, [Next]_vars
  PROVE  ActiveIsStarted'
  <1>1. \A p \in Protocols : p = 1
    BY OneRow DEF Before
  <1>2. OneObdProtocol /\ IInv /\ ActiveIsStarted
    BY <1>1, ConfigAssumption DEF Before, OneObdProtocol
  <1>3. ASSUME NEW pdu \in RxPdus, Receive(pdu) PROVE ActiveIsStarted'
    BY <1>2, <1>3, StartOfReceptionActive, TpRxIndicationActive DEF Receive
  <1>4. ASSUME NEW p \in Protocols, Transmit(p) PROVE ActiveIsStarted'
    BY <1>2, <1>4, TransmitActive
  <1>5. CASE ResetToDefaultSession
    <2>1. rt \in Rows /\ "DEFAULT" \in Sessions /\ active \in Protocols \cup {NoProtocol}
      BY <1>2 DEF IInv, RestOK, Sessions
    <2> QED BY <1>2, <1>5, <2>1, SetSesCtrlTypeSame, SameStep DEF ResetToDefaultSession
  <1>6. CASE DcmExecuteStartProtocolRequest
    <2>1. CASE rt' = rt /\ active' = active
      BY <1>2, <2>1, SameReflexive, SameStep
    <2>2. CASE ~(rt' = rt /\ active' = active)
      <3> DEFINE begun(new) == [rt[1] EXCEPT !.started = TRUE, !.session = new, !.unlocked = FALSE]
      <3>1. PICK new \in {"DEFAULT"} \cup ExtraSessions :
              /\ rt' = [rt EXCEPT ![1] = IF new = "DEFAULT" THEN begun(new) ELSE StartS3(begun(new))]
              /\ active' = 1
        <4>1. \A p \in StartupProtocols : p = 1
          BY <1>1, ConfigAssumption
        <4> QED BY <1>6, <2>2, <4>1 DEF DcmExecuteStartProtocolRequest
      <3>2. rt \in Rows /\ rt[1] \in GoodRow /\ 1 \in Protocols
        BY RowFacts
      <3>3. begun(new) \in GoodRow /\ begun(new).started
        BY <3>2 DEF GoodRow, RuntimeType, Sessions
      <3> HIDE DEF begun
      <3>4. StartS3(begun(new)).started = begun(new).started
        BY <3>3, RowStarted
      <3>5. rt'[1].started
        BY <3>1, <3>2, <3>3, <3>4 DEF Rows
      <3> QED BY <1>1, <3>1, <3>5 DEF ActiveIsStarted
    <2> QED BY <2>1, <2>2
  <1>7. CASE DereferencesNull
    BY <1>2, <1>7, SameReflexive, SameStep DEF DereferencesNull
  <1>8. CASE UNCHANGED vars
    BY <1>2, <1>8, SameReflexive, SameStep DEF vars
  <1> QED BY <1>2, <1>3, <1>4, <1>5, <1>6, <1>7, <1>8, DsdMainActive, DspMainActive, S3Active,
             TxActive, TxPreemptingActive DEF Next, MainFunction, DslMain

\* Every step keeps the invariant and is a step of DcmRequest.
LEMMA NextKept ==
  ASSUME Before, [Next]_vars
  PROVE  Kept
  <1>1. SameBuffers(rt[1], rt[1]) /\ rt \in Rows /\ 1 \in Protocols /\ "DEFAULT" \in Sessions
        /\ active \in Protocols \cup {NoProtocol} /\ dsp \in DspType
    BY RowFacts DEF SameBuffers, Before, IInv, RestOK, Sessions
  <1>2. ASSUME NEW pdu \in RxPdus, Receive(pdu) PROVE Kept
    BY <1>2, StartOfReceptionKept, TpRxIndicationKept DEF Receive
  <1>3. ASSUME NEW p \in Protocols, Transmit(p) PROVE Kept
    <2>1. p = 1
      BY OneRow DEF Before
    <2> QED BY <1>3, <2>1, CopyTxDataKept, TpTxConfirmationKept DEF Transmit
  <1>4. CASE ResetToDefaultSession
    <2>1. UNCHANGED <<msg, main, tpTx>> /\ rt' = SetSesCtrlType(rt, "DEFAULT")
          /\ dsp' = SetSesCtrlTypeDsp(rt, dsp)
      BY <1>4 DEF ResetToDefaultSession
    <2>2. SameBuffers(rt[1], rt'[1])
      BY <1>1, <2>1, SessionBuffers
    <2>3. Settles(dsp, dsp')
      BY <1>1, <2>1, ChangeSettles
    <2> QED BY <2>1, <2>2, <2>3, Undisturbed
  <1>5. CASE DereferencesNull
    <2>1. UNCHANGED <<rt, msg, dsp, tpTx>> /\ main'.phase = "crashed"
      BY <1>5 DEF DereferencesNull, Before, IInv, RestOK, MainType
    <2> QED BY <1>1, <2>1, Undisturbed DEF Settles
  <1>6. CASE UNCHANGED vars
    <2>1. UNCHANGED <<rt, msg, dsp, tpTx, main>>
      BY <1>6 DEF vars
    <2> QED BY <1>1, <2>1, Undisturbed DEF Settles
  <1> QED BY <1>2, <1>3, <1>4, <1>5, <1>6, StartProtocolKept, DsdMainKept, DspMainKept,
             DslMainKept DEF Next, MainFunction

\* At start-up the row has no request, and nothing is under way.
LEMMA InitKept ==
  ASSUME OneProtocol, Init
  PROVE  ActiveIsStarted /\ LockInv /\ ConfirmationNotMixed /\ LocalResponseSent
         /\ PendingChangeHasResponse /\ Stage(1) = "free"
  <1>1. Protocols = {1} /\ rt[1] = InitialRuntime /\ tpTx[1] = "idle"
    BY OneRow DEF Init
  <1>2. /\ ActiveIsStarted /\ LockInv /\ ConfirmationNotMixed /\ LocalResponseSent
        /\ PendingChangeHasResponse
    BY <1>1 DEF Init, ActiveIsStarted, LockInv, Locked, InService, SeenInTime, NoRequest, NoChange,
       ConfirmationNotMixed, LocalResponseSent, PendingChangeHasResponse, InitialRuntime, NoProtocol
  <1>3. Stage(1) = "free"
    BY <1>1, StageValues DEF Stage, InitialRuntime
  <1> QED BY <1>2, <1>3

\* The invariant of one protocol.
LEMMA OneProtocolInvariant ==
  ASSUME OneProtocol, P2Lasts
  PROVE  Spec => []Before
  <1>1. Init /\ IInv => Before
    BY InitKept DEF Before
  <1>2. Before /\ IInv' /\ [Next]_vars => Before'
    <2> SUFFICES ASSUME Before, IInv', [Next]_vars PROVE Before'
      OBVIOUS
    <2>1. Kept /\ ActiveIsStarted'
      BY NextKept, OneRowActive
    <2> QED BY <2>1 DEF Before, Kept, OneProtocol, P2Lasts
  <1> QED BY <1>1, <1>2, Consistency, PTL DEF Spec

(* The request of the only protocol stays locked in its receive buffer from  *)
(* its indication to the confirmation of its response: DslMain,             *)
(* DslDsdProcessingDone and DslTpTxConfirmation give the two buffers back   *)
(* together.  P2 must last for more than one main function or be prolonged  *)
(* once, or DslMain rejects a request that DsdMain answers afterwards.      *)
THEOREM RequestStaysLocked ==
  ASSUME OneProtocol, P2Lasts
  PROVE  Spec => []RequestLocked
  <1>1. Before => RequestLocked
    BY OneRow DEF Before, LockInv, Locked, RequestLocked
  <1> QED BY <1>1, OneProtocolInvariant, PTL

(* The buffers of the only protocol tell DslTpTxConfirmation which of the    *)
(* two transmissions was confirmed, and tell it right.                      *)
THEOREM ConfirmationsReachTheirBuffer ==
  ASSUME OneProtocol, P2Lasts
  PROVE  Spec => []ConfirmationNotMixed
  <1>1. Before => ConfirmationNotMixed
    BY DEF Before
  <1> QED BY <1>1, OneProtocolInvariant, PTL

(* When the transport layer refuses no local response, the local buffer of   *)
(* the only protocol is in use only while its response is transmitted: no   *)
(* negative response stays behind in it (sendResponseWithStatus).           *)
THEOREM LocalResponsesGoOut ==
  ASSUME OneProtocol, P2Lasts, LocalAccepted
  PROVE  Spec => []LocalResponseSent
  <1>1. Init => LocalResponseSent
    BY InitKept
  <1>2. Before /\ LocalResponseSent /\ [Next]_vars => LocalResponseSent'
    BY NextKept DEF Kept
  <1> QED BY <1>1, <1>2, OneProtocolInvariant, PTL DEF Spec

(* When the transport layer refuses no response, a session change of the     *)
(* only protocol that waits for its response (the session of               *)
(* DspUdsDiagnosticSessionControl, carried out by DspDcmConfirmation) has  *)
(* that response ahead of it: no later response carries the change out.    *)
THEOREM ChangesHaveResponses ==
  ASSUME OneProtocol, P2Lasts, TransmitAccepted
  PROVE  Spec => []PendingChangeHasResponse
  <1>1. Init => PendingChangeHasResponse
    BY InitKept
  <1>2. Before /\ PendingChangeHasResponse /\ [Next]_vars => PendingChangeHasResponse'
    BY NextKept DEF Kept
  <1> QED BY <1>1, <1>2, OneProtocolInvariant, PTL DEF Spec

(* The only protocol implements the request cycle: its request is received,  *)
(* served, answered and sent in that order, one at a time, whatever the     *)
(* transport layer, the services and the timers do.                         *)
THEOREM RequestRefined ==
  ASSUME OneProtocol, P2Lasts
  PROVE  Spec => RequestImplemented
  <1>1. Init => Request!Init
    BY InitKept DEF Request!Init
  <1>2. Before /\ [Next]_vars => [Request!Next]_(Stage(1))
    BY NextKept DEF Kept, StageStep
  <1> QED BY <1>1, <1>2, OneProtocolInvariant, PTL DEF Spec, RequestImplemented, Request!Spec

-----------------------------------------------------------------------------
(***************************************************************************)
(* Security: where the row can be unlocked.  A key that is compared over    *)
(* several main functions unlocks whatever session the row is in when the   *)
(* comparison ends, so that the session must not end in between: no         *)
(* TesterPresent restarts the S3 timer while a request is served, and the   *)
(* application does not reset the session.                                 *)
(***************************************************************************)
NoParallelRequests == ParallelPdus = {}
NoApplicationReset == AppResets = FALSE
S3Lasts == S3Server # 0
DefaultIsLocked == "DEFAULT" \notin SecuritySessions

\* A row is unlocked in a session that serves SecurityAccess, and its session timer runs.
SafeRow(r) ==
  /\ r.unlocked => r.session \in SecuritySessions
  /\ 1 \notin ObdProtocols /\ r.session # "DEFAULT" => r.s3 # 0
  /\ r.locRx = "NOT_IN_USE"

\* A key that is compared has the session of its request, which the timer cannot end.
KeyInv ==
  /\ SafeRow(rt[1])
  /\ dsp.work = "key" /\ dsp.seed => active = NoProtocol \/ rt[1].session \in SecuritySessions
  /\ dsp.seed /\ rt[1].extRx # "NOT_IN_USE" /\ rt[1].extTx \notin Answered => ~rt[1].s3On
  /\ main.phase = "first" => ~dsp.seed

Secure == Before /\ KeyInv
          /\ NoParallelRequests /\ NoApplicationReset /\ S3Lasts /\ DefaultIsLocked

\* A session change locks, in a row that the default session leaves locked.
LEMMA ChangeLocks ==
  ASSUME DefaultIsLocked, NEW r \in GoodRow, SafeRow(r), NEW new
  PROVE  ChangeSession(r, new).unlocked = FALSE
  <1>1. CASE r.session # "DEFAULT"
    BY <1>1 DEF GoodRow, RuntimeType, ChangeSession
  <1>2. CASE r.session = "DEFAULT"
    <2>1. r.unlocked = FALSE
      BY <1>2 DEF GoodRow, RuntimeType, SafeRow, DefaultIsLocked
    <2> QED BY <2>1 DEF GoodRow, RuntimeType, ChangeSession
  <1> QED BY <1>1, <1>2

\* What keeps a row safe: the helpers, and a session change with the timer that it starts.
LEMMA SafeHelpers ==
  ASSUME S3Lasts, DefaultIsLocked, NEW r \in GoodRow, SafeRow(r)
  PROVE  /\ SafeRow(StartS3(r)) /\ SafeRow(ReleaseRx(r)) /\ SafeRow(ReleaseBuffers(r))
         /\ SafeRow(ResponseReady(r)) /\ SafeRow(HandToDsd(r)) /\ SafeRow(StartRow(r, 1))
         /\ \A new \in Sessions : SafeRow(StartS3(ChangeSession(r, new)))
         /\ r.session \in SecuritySessions => SafeRow([r EXCEPT !.unlocked = TRUE])
  <1>1. /\ SafeRow(ReleaseRx(r)) /\ SafeRow(ReleaseBuffers(r))
        /\ SafeRow(ResponseReady(r)) /\ SafeRow(HandToDsd(r))
        /\ r.session \in SecuritySessions => SafeRow([r EXCEPT !.unlocked = TRUE])
    BY DEF SafeRow, GoodRow, RuntimeType, ReleaseRx, ReleaseBuffers, ResponseReady, HandToDsd
  <1>2. SafeRow(StartS3(r))
    BY DEF SafeRow, GoodRow, RuntimeType, StartS3, S3Lasts
  <1>3. SafeRow(StartRow(r, 1))
    <2>1. ~(r.unlocked /\ r.session = "DEFAULT")
      BY DEF SafeRow, DefaultIsLocked
    <2> QED BY <2>1 DEF SafeRow, GoodRow, RuntimeType, StartRow, StartedSession, ChangeSession
  <1>4. ASSUME NEW new \in Sessions PROVE SafeRow(StartS3(ChangeSession(r, new)))
    <2> DEFINE changed == ChangeSession(r, new)
    <2>1. changed.unlocked = FALSE
      BY ChangeLocks
    <2>2. changed.locRx = "NOT_IN_USE"
      BY DEF SafeRow, GoodRow, RuntimeType, ChangeSession
    <2>3. changed \in GoodRow
      BY ChangeSessionRow
    <2> HIDE DEF changed
    <2>4. SafeRow(StartS3(changed))
      BY <2>1, <2>2, <2>3 DEF SafeRow, GoodRow, RuntimeType, StartS3, S3Lasts
    <2> QED BY <2>4 DEF changed
  <1> QED BY <1>1, <1>2, <1>3, <1>4

\* The same for the rows of the runtime.
LEMMA SafeSession ==
  ASSUME S3Lasts, DefaultIsLocked, 1 \in Protocols, \A p \in Protocols : p = 1,
         active \in Protocols \cup {NoProtocol}, NEW rts \in Rows, SafeRow(rts[1]),
         NEW new \in Sessions
  PROVE  /\ SafeRow(ResetSessionTimeoutTimer(rts)[1])
         /\ SafeRow(SetSesCtrlType(rts, new)[1])
         /\ active # NoProtocol /\ rts[1].session \in SecuritySessions => SafeRow(Unlock(rts)[1])
  <1>1. rts[1] \in GoodRow
    BY DEF Rows
  <1>2. CASE active = NoProtocol
    BY <1>2 DEF ResetSessionTimeoutTimer, SetSesCtrlType
  <1>3. CASE active # NoProtocol
    <2>1. active = 1
      BY <1>3
    <2> DEFINE timed == StartS3(rts[1])
               changed == StartS3(ChangeSession(rts[1], new))
               unlocked == [rts[1] EXCEPT !.unlocked = TRUE]
    <2>2. SafeRow(timed) /\ SafeRow(changed)
          /\ (rts[1].session \in SecuritySessions => SafeRow(unlocked))
      BY <1>1, SafeHelpers
    <2>3. /\ ResetSessionTimeoutTimer(rts) = [rts EXCEPT ![1] = timed]
          /\ SetSesCtrlType(rts, new) = [rts EXCEPT ![1] = changed]
          /\ Unlock(rts) = [rts EXCEPT ![1] = unlocked]
      BY <1>3, <2>1 DEF ResetSessionTimeoutTimer, SetSesCtrlType, Unlock
    <2> HIDE DEF timed, changed, unlocked
    <2>4. \A r : [rts EXCEPT ![1] = r][1] = r
      BY DEF Rows
    <2> QED BY <2>2, <2>3, <2>4
  <1> QED BY <1>2, <1>3

LEMMA SafeConfirmed ==
  ASSUME S3Lasts, DefaultIsLocked, 1 \in Protocols, \A p \in Protocols : p = 1,
         active \in Protocols \cup {NoProtocol}, NEW rts \in Rows, SafeRow(rts[1]),
         NEW d \in DspType, NEW ok \in BOOLEAN
  PROVE  SafeRow(ConfirmedRt(rts, d, 1, ok)[1])
  <1> DEFINE timed == ResetSessionTimeoutTimer(rts)
  <1>1. "DEFAULT" \in Sessions
    BY DEF Sessions
  <1>2. timed \in Rows /\ SafeRow(timed[1])
    BY <1>1, ResetSessionTimeoutTimerRows, SafeSession
  <1> HIDE DEF timed
  <1>3. CASE ok /\ d.change.by = 1
    <2>1. d.change.to \in Sessions
      BY <1>3, ChangeToSession
    <2>2. SafeRow(SetSesCtrlType(timed, d.change.to)[1])
      BY <1>2, <2>1, SafeSession
    <2> QED BY <1>3, <2>2 DEF ConfirmedRt, timed
  <1>4. CASE ~(ok /\ d.change.by = 1)
    BY <1>2, <1>4 DEF ConfirmedRt, timed
  <1> QED BY <1>3, <1>4

\* An answer leaves the row safe.
LEMMA SafeAnswer ==
  ASSUME Secure, msg.pdu \in RxPdus, NEW rts \in Rows, SafeRow(rts[1]), NEW d \in DspType,
         NEW suppress \in BOOLEAN,
         \/ AnswerPositive(rts, d, suppress) \/ AnswerNegative(rts, d)
         \/ rt' = Suppressed(rts)
  PROVE  SafeRow(rt'[1])
  <1>1. /\ Requester = 1 /\ 1 \in Protocols /\ active \in Protocols \cup {NoProtocol}
        /\ \A p \in Protocols : p = 1
        /\ S3Lasts /\ DefaultIsLocked
    BY RequesterRow, RowFacts DEF Secure, Before, IInv, RestOK
  <1>2. ASSUME NEW old \in Rows, SafeRow(old[1])
        PROVE  /\ SafeRow([old EXCEPT ![1] = ReleaseBuffers(@)][1])
               /\ SafeRow([old EXCEPT ![1] = ResponseReady(@)][1])
    <2>1. old[1] \in GoodRow
      BY <1>1 DEF Rows
    <2>2. SafeRow(ReleaseBuffers(old[1])) /\ SafeRow(ResponseReady(old[1]))
      BY <1>1, <1>2, <2>1, SafeHelpers
    <2> QED BY <1>1, <2>2 DEF Rows
  <1>3. CASE rt' = [rts EXCEPT ![1] = ResponseReady(@)] \/ rt' = [rts EXCEPT ![1] = ReleaseBuffers(@)]
    BY <1>2, <1>3
  <1>4. CASE AnswerPositive(rts, d, suppress) /\ suppress
    <2> DEFINE confirmed == ConfirmedRt(rts, d, 1, TRUE)
    <2>1. TRUE \in BOOLEAN
      OBVIOUS
    <2>2. confirmed \in Rows /\ SafeRow(confirmed[1])
      BY <1>1, <2>1, ConfirmedRows, SafeConfirmed
    <2>3. rt' = [confirmed EXCEPT ![1] = ReleaseBuffers(@)]
      BY <1>1, <1>4 DEF AnswerPositive
    <2> HIDE DEF confirmed
    <2> QED BY <1>2, <2>2, <2>3
  <1> QED BY <1>1, <1>3, <1>4 DEF AnswerPositive, AnswerNegative, Suppressed

\* A request is answered, or its buffers are free: no key is compared.
LEMMA ServiceOver ==
  ASSUME Secure, SafeRow(rt'[1]), dsp'.work # "key", main'.phase # "first",
         rt'[1].extTx \in Answered \/ rt'[1].extRx = "NOT_IN_USE"
  PROVE  KeyInv'
  BY DEF KeyInv

\* The session and the request go on, and the session timer does not start.
Unmoved(r) ==
  /\ r.session = rt[1].session
  /\ \/ r.s3On = FALSE
     \/ /\ r.s3On = rt[1].s3On
        /\ rt[1].extRx = "NOT_IN_USE" => r.extRx = "NOT_IN_USE"
        /\ rt[1].extTx \in Answered => r.extTx \in Answered

LEMMA GoesOn ==
  ASSUME Secure, SafeRow(rt'[1]), Unmoved(rt'[1]), active' = active,
         dsp'.seed => dsp.seed,
         dsp'.work = "key" => dsp.work = "key" \/ rt[1].session \in SecuritySessions,
         main'.phase = "first" => main.phase = "first"
  PROVE  KeyInv'
  BY DEF KeyInv, Secure, Unmoved

\* What a step can count on.
LEMMA SecureFacts ==
  ASSUME Secure
  PROVE  /\ 1 \in Protocols /\ \A p \in Protocols : p = 1
         /\ rt \in Rows /\ rt[1] \in GoodRow /\ SafeRow(rt[1]) /\ Unmoved(rt[1])
         /\ active \in Protocols \cup {NoProtocol} /\ dsp \in DspType /\ "DEFAULT" \in Sessions
         /\ main \in MainType /\ main.row = 1 /\ msg \in MsgType /\ msg.suppress \in BOOLEAN
         /\ S3Lasts /\ DefaultIsLocked
         /\ \A rts \in Rows : \A r : [rts EXCEPT ![1] = r][1] = r
  <1>1. Before /\ KeyInv /\ S3Lasts /\ DefaultIsLocked
    BY DEF Secure
  <1>2. 1 \in Protocols /\ \A p \in Protocols : p = 1
    BY <1>1, RowFacts
  <1>3. \A rts \in Rows : \A r : [rts EXCEPT ![1] = r][1] = r
    BY <1>2 DEF Rows
  <1>4. msg \in MsgType /\ msg.suppress \in BOOLEAN
    BY <1>1 DEF Before, IInv, RestOK, MsgType
  <1> QED BY <1>1, <1>2, <1>3, <1>4, RowFacts DEF Before, IInv, RestOK, KeyInv, Sessions, Unmoved

\* The service processor answers.
LEMMA AnswerSecure ==
  ASSUME Secure, msg.pdu \in RxPdus, NEW rts \in Rows, SameBuffers(rt[1], rts[1]),
         SafeRow(rts[1]), NEW d \in DspType, d.work = "none", NEW suppress \in BOOLEAN,
         \/ AnswerPositive(rts, d, suppress) \/ AnswerNegative(rts, d)
         \/ rt' = Suppressed(rts) /\ dsp' = d,
         main'.phase # "first"
  PROVE  KeyInv'
  <1>1. Before
    BY DEF Secure
  <1>2. SafeRow(rt'[1])
    BY SafeAnswer
  <1>3. rt'[1].extTx \in Answered \/ rt'[1].extRx = "NOT_IN_USE"
    BY <1>1, AnswerBuffers DEF Answered
  <1>4. dsp'.work = "none"
    BY <1>1, AnswerPositiveStep, AnswerNegativeStep DEF Before, IInv
  <1> QED BY <1>2, <1>3, <1>4, ServiceOver

\* A reception stops the session timer; the second buffer stays free.
LEMMA StartOfReceptionSecure ==
  ASSUME Secure, NEW pdu \in RxPdus, StartOfReception(pdu)
  PROVE  KeyInv'
  <1>1. ProtocolOf[pdu] = 1
    BY RowOfPdu, RowFacts DEF Secure, Before
  <1> DEFINE r == [[rt[1] EXCEPT !.s3On = FALSE] EXCEPT !.extRx = "PROVIDED_TO_PDUR",
                                                        !.busy = TRUE, !.pdu = pdu]
  <1>2. rt' = [rt EXCEPT ![1] = r] /\ UNCHANGED <<active, dsp, main>>
    BY <1>1 DEF StartOfReception, Secure, NoParallelRequests
  <1>3. SafeRow(r) /\ Unmoved(r)
    BY SecureFacts DEF SafeRow, GoodRow, RuntimeType, Unmoved
  <1> HIDE DEF r
  <1>4. rt'[1] = r
    BY <1>2, SecureFacts
  <1> QED BY <1>2, <1>3, <1>4, GoesOn

\* A request comes in, or the reception ends without one: there was no key to compare.
LEMMA TpRxIndicationSecure ==
  ASSUME Secure, NEW pdu \in RxPdus, TpRxIndication(pdu)
  PROVE  KeyInv'
  <1>1. ProtocolOf[pdu] = 1 /\ Before
    BY RowOfPdu, RowFacts DEF Secure, Before
  <1>2. InExternal(pdu) => /\ rt[1].extRx = "PROVIDED_TO_PDUR" /\ dsp.work = "none"
                           /\ rt[1].extTx = "NOT_IN_USE"
    BY <1>1, NothingToAnswer DEF InExternal
  <1>3. ~InLocal(pdu)
    BY <1>1, SecureFacts DEF InLocal, SafeRow
  <1>4. active = 1 <=> rt[1].started
    BY SecureFacts DEF Secure, Before, ActiveIsStarted
  <1> DEFINE timed == ResetSessionTimeoutTimer(rt)
  <1>5. timed \in Rows /\ SafeRow(timed[1]) /\ timed[1] \in GoodRow
    BY SecureFacts, ResetSessionTimeoutTimerRows, SafeSession DEF Rows
  <1> HIDE DEF timed
  <1>6. CASE RxFailed(pdu)
    <2>1. /\ rt' = [timed EXCEPT ![1] = ReleaseRx(timed[1])] /\ UNCHANGED <<active, dsp, main>>
          /\ InExternal(pdu)
      BY <1>1, <1>6 DEF RxFailed, timed
    <2>2. SafeRow(ReleaseRx(timed[1])) /\ ReleaseRx(timed[1]).extRx = "NOT_IN_USE"
      BY <1>5, SecureFacts, SafeHelpers, RowBuffers
    <2>3. rt'[1] = ReleaseRx(timed[1])
      BY <1>5, <2>1, SecureFacts
    <2> QED BY <1>2, <2>1, <2>2, <2>3 DEF KeyInv, Secure
  <1>7. CASE RxTesterPresent(pdu)
    <2> DEFINE released == ReleaseRx(rt[1])
               r == StartS3(released)
    <2>1. rt' = [rt EXCEPT ![1] = r] /\ UNCHANGED <<active, dsp, main>> /\ InExternal(pdu)
      BY <1>1, <1>7 DEF RxTesterPresent
    <2>2. released \in GoodRow /\ SafeRow(released) /\ released.extRx = "NOT_IN_USE"
      BY SecureFacts, ReleaseRxRow, SafeHelpers, RowBuffers
    <2> HIDE DEF released
    <2>3. SafeRow(r) /\ r.extRx = "NOT_IN_USE"
      BY <2>2, SecureFacts, SafeHelpers, RowBuffers DEF SameBuffers
    <2> HIDE DEF r
    <2>4. rt'[1] = r
      BY <2>1, SecureFacts
    <2> QED BY <1>2, <2>1, <2>3, <2>4 DEF KeyInv, Secure
  <1>8. CASE RxRequest(pdu)
    <2> DEFINE r == HandToDsd(rt[1])
    <2>1. rt' = [rt EXCEPT ![1] = r] /\ UNCHANGED <<active, dsp, main>> /\ InExternal(pdu)
      BY <1>1, <1>8 DEF RxRequest
    <2>2. SafeRow(r)
      BY SecureFacts, SafeHelpers
    <2>3. r.session = rt[1].session /\ r.s3On = rt[1].s3On
      BY SecureFacts DEF HandToDsd, GoodRow, RuntimeType
    <2> HIDE DEF r
    <2>4. Unmoved(r)
      BY <1>2, <2>1, <2>3 DEF Unmoved, Answered, Transmitting
    <2>5. rt'[1] = r
      BY <2>1, SecureFacts
    <2> QED BY <2>1, <2>2, <2>4, <2>5, GoesOn
  <1>9. CASE RxStartsProtocol(pdu)
    <2> DEFINE begun == StartRow(rt[1], 1)
               r == HandToDsd(begun)
    <2>1. /\ rt' = [rt EXCEPT ![1] = r] /\ main' = main /\ InExternal(pdu)
          /\ dsp' = DspAfterChange(dsp, rt[1])
      BY <1>1, <1>9 DEF RxStartsProtocol
    <2>2. begun \in GoodRow /\ SafeRow(begun)
      BY SecureFacts, StartRowRow, SafeHelpers
    <2>3. begun.s3On = rt[1].s3On
      BY SecureFacts DEF StartRow, ChangeSession, GoodRow, RuntimeType
    <2> HIDE DEF begun
    <2>4. SafeRow(r) /\ r.s3On = rt[1].s3On
      BY <2>2, <2>3, SecureFacts, SafeHelpers DEF HandToDsd, GoodRow, RuntimeType
    <2> HIDE DEF r
    <2>5. rt'[1] = r
      BY <2>1, SecureFacts
    <2>6. dsp'.work = "none" /\ (dsp'.seed => dsp.seed)
      BY <1>2, <2>1, SecureFacts DEF DspAfterChange, DspInit, DspType
    <2>7. dsp.seed => ~rt[1].s3On
      BY <1>2, <2>1 DEF Secure, KeyInv, Answered, Transmitting
    <2> QED BY <2>1, <2>4, <2>5, <2>6, <2>7 DEF KeyInv, Secure
  <1>10. ~RxPreemptsIdle(pdu) /\ ~RxPreemptsBusy(pdu) /\ ~RxOutranked(pdu)
    BY <1>1, <1>4, SecureFacts DEF RxPreemptsIdle, RxPreemptsBusy, RxOutranked, Outranks
  <1>11. CASE RxStartRefused(pdu) \/ RxOrphan(pdu)
    <2>1. UNCHANGED <<rt, active, dsp, main>>
      BY <1>11 DEF RxStartRefused, RxOrphan
    <2> QED BY <2>1 DEF KeyInv, Secure, SafeRow
  <1> QED BY <1>3, <1>6, <1>7, <1>8, <1>9, <1>10, <1>11 DEF TpRxIndication, RxLocal

\* A transmission copies its data.
LEMMA CopyTxDataSecure ==
  ASSUME Secure, CopyTxData(1)
  PROVE  KeyInv'
  <1> DEFINE ext == [rt[1] EXCEPT !.extTx = "PROVIDED_TO_PDUR"]
             loc == [rt[1] EXCEPT !.locTx = "PROVIDED_TO_PDUR"]
  <1>1. /\ SafeRow(ext) /\ ext.session = rt[1].session /\ ext.s3On = rt[1].s3On
        /\ ext.extRx = rt[1].extRx /\ ext.extTx = "PROVIDED_TO_PDUR"
        /\ SafeRow(loc) /\ loc.session = rt[1].session /\ loc.s3On = rt[1].s3On
        /\ loc.extRx = rt[1].extRx /\ loc.extTx = rt[1].extTx
    BY SecureFacts DEF SafeRow, GoodRow, RuntimeType
  <1>2. /\ rt' = [rt EXCEPT ![1] = ext] \/ rt' = [rt EXCEPT ![1] = loc]
        /\ UNCHANGED <<active, dsp, main>>
    BY DEF CopyTxData
  <1> HIDE DEF ext, loc
  <1>3. SafeRow(ext) /\ Unmoved(ext) /\ SafeRow(loc) /\ Unmoved(loc)
    BY <1>1 DEF Unmoved, Answered, Transmitting
  <1>4. rt'[1] = ext \/ rt'[1] = loc
    BY <1>2, SecureFacts
  <1> QED BY <1>2, <1>3, <1>4, GoesOn

\* A response is sent, and may change the session; or a local one is.
LEMMA TpTxConfirmationSecure ==
  ASSUME Secure, NEW ok \in BOOLEAN, TpTxConfirmation(1, ok)
  PROVE  KeyInv'
  <1> DEFINE sent == ok /\ rt[1].extTx = "PROVIDED_TO_PDUR"
             freed == ReleaseBuffers(rt[1])
             timed == StartS3(freed)
             released == [rt EXCEPT ![1] = timed]
  <1>1. UNCHANGED <<active, main>> /\ Before
    BY DEF TpTxConfirmation, Secure
  <1>2. CASE rt[1].extTx \in Transmitting
    <2>1. rt' = ConfirmedRt(released, dsp, 1, sent) /\ dsp' = ConfirmedDsp(released, dsp, 1, sent)
      BY <1>2 DEF TpTxConfirmation
    <2>2. freed \in GoodRow /\ SafeRow(freed) /\ freed.extRx = "NOT_IN_USE"
      BY SecureFacts, ReleaseBuffersRow, SafeHelpers, RowBuffers
    <2> HIDE DEF freed
    <2>3. timed \in GoodRow /\ SafeRow(timed) /\ timed.extRx = "NOT_IN_USE"
      BY <2>2, SecureFacts, StartS3Row, SafeHelpers, RowBuffers DEF SameBuffers
    <2> HIDE DEF timed
    <2>4. released \in Rows /\ released[1] = timed /\ sent \in BOOLEAN
      BY <2>3, SecureFacts, UpdateRows
    <2> HIDE DEF released, sent
    <2>5. SafeRow(rt'[1]) /\ rt'[1].extRx = "NOT_IN_USE"
      BY <2>1, <2>3, <2>4, SecureFacts, SafeConfirmed, ConfirmedBuffers DEF SameBuffers
    <2>6. dsp.work = "none"
      BY <1>1, <1>2 DEF Before, LockInv, InService, Transmitting
    <2>7. dsp'.work = "none"
      BY <2>1, <2>4, <2>6, SecureFacts, ConfirmedDspType
    <2>8. dsp'.seed => dsp.seed
      <3>1. ASSUME NEW e \in DspType, e.seed => dsp.seed
            PROVE  [e EXCEPT !.change = NoChange].seed => dsp.seed
        BY <3>1 DEF DspType
      <3>2. SetSesCtrlTypeDsp(released, dsp).seed => dsp.seed
        BY <2>4, SecureFacts DEF SetSesCtrlTypeDsp, DspAfterChange, DspInit, DspType
      <3>3. SetSesCtrlTypeDsp(released, dsp) \in DspType
        BY <2>4, SecureFacts, SetSesCtrlTypeDspType
      <3> QED BY <2>1, <3>1, <3>2, <3>3, SecureFacts DEF ConfirmedDsp
    <2> QED BY <1>1, <2>5, <2>7, <2>8 DEF KeyInv, Secure
  <1>3. CASE rt[1].extTx \notin Transmitting
    <2> DEFINE r == [rt[1] EXCEPT !.locTx = "NOT_IN_USE"]
    <2>1. (rt' = rt \/ rt' = [rt EXCEPT ![1] = r]) /\ dsp' = dsp
      BY <1>3 DEF TpTxConfirmation, FreeLocal
    <2>2. SafeRow(r) /\ Unmoved(r)
      BY SecureFacts DEF SafeRow, GoodRow, RuntimeType, Unmoved
    <2> HIDE DEF r
    <2>3. rt'[1] = rt[1] \/ rt'[1] = r
      BY <2>1, SecureFacts
    <2> QED BY <1>1, <2>1, <2>2, <2>3, SecureFacts, GoesOn
  <1> QED BY <1>2, <1>3

\* A responsePending goes out while the service goes on.
LEMMA ForcedSecure ==
  ASSUME Secure, msg.pdu \in RxPdus, NEW m, NEW suppress, ForceResponsePending(m, suppress),
         dsp'.seed = dsp.seed, dsp'.work # "key", UNCHANGED active, main'.phase # "first"
  PROVE  KeyInv'
  <1>1. Requester = 1 /\ 1 \in Protocols /\ rt \in Rows
    BY RequesterRow, SecureFacts
  <1> DEFINE sent == SendLocal(rt, 1)
             r == [sent[1] EXCEPT !.p2 = P2StarServer + 1, !.pend = Decremented(@)]
  <1>2. sent \in Rows
    BY <1>1, SendLocalRows
  <1>3. rt' = [sent EXCEPT ![1] = r]
    BY <1>1, <1>2 DEF ForceResponsePending, Rows
  <1>4. SafeRow(sent[1]) /\ Unmoved(sent[1]) /\ sent[1] \in GoodRow
    BY <1>1, <1>2, SecureFacts DEF SendLocal, SafeRow, Unmoved, Rows, GoodRow, RuntimeType
  <1> HIDE DEF sent
  <1>5. SafeRow(r) /\ Unmoved(r)
    BY <1>4 DEF SafeRow, GoodRow, RuntimeType, Unmoved
  <1> HIDE DEF r
  <1>6. rt'[1] = r
    BY <1>1, <1>2, <1>3 DEF Rows
  <1> QED BY <1>5, <1>6, GoesOn

\* Where the DSD takes SecurityAccess the active row may be unlocked.
LEMMA UnlockSecure ==
  ASSUME Secure, active # NoProtocol, rt[1].session \in SecuritySessions
  PROVE  Unlock(rt) \in Rows /\ SameBuffers(rt[1], Unlock(rt)[1]) /\ SafeRow(Unlock(rt)[1])
  BY SecureFacts, UnlockBuffers, SafeSession DEF Secure

\* DsdMain answers, or leaves a key to be compared in a session that serves SecurityAccess.
LEMMA DsdMainSecure ==
  ASSUME Secure, DsdMain
  PROVE  KeyInv'
  <1>1. rt \in Rows /\ dsp \in DspType /\ SameBuffers(rt[1], rt[1]) /\ SafeRow(rt[1])
    BY SecureFacts DEF SameBuffers
  <1>2. Taken \in MsgType /\ msg.suppress \in BOOLEAN /\ active' = active /\ main'.phase # "first"
    BY TakenMsg, SecureFacts DEF Secure, Before, IInv, DsdMain, DsdIdle, DsdDiscards, DsdRefuses,
       DsdServes, DsdSessionControl, DsdSecurityAccess, DsdTakes, MainType
  <1>3. ASSUME DsdTakes PROVE msg.pdu \in RxPdus /\ dsp.work = "none"
    BY <1>3 DEF DsdTakes, Secure, Before, IInv, RequestKnown, LockInv, SeenInTime
  <1>4. CASE DsdIdle
    <2>1. UNCHANGED <<rt, dsp>>
      BY <1>4 DEF DsdIdle
    <2> QED BY <1>2, <2>1, SecureFacts, GoesOn
  <1>5. CASE DsdDiscards
    <2>1. DsdTakes /\ rt' = Suppressed(rt) /\ dsp' = dsp
      BY <1>5 DEF DsdDiscards
    <2> QED BY <1>1, <1>2, <1>3, <2>1, AnswerSecure
  <1>6. CASE DsdRefuses
    <2>1. DsdTakes /\ AnswerNegative(rt, dsp)
      BY <1>6 DEF DsdRefuses
    <2> QED BY <1>1, <1>2, <1>3, <2>1, AnswerSecure
  <1>7. CASE DsdServes
    <2>1. DsdTakes
      BY <1>7 DEF DsdServes
    <2>2. PICK suppress \in BOOLEAN :
            \/ AnswerPositive(rt, dsp, suppress) \/ AnswerNegative(rt, dsp)
            \/ /\ dsp'.seed = dsp.seed /\ dsp'.work # "key"
               /\ rt' = rt \/ ForceResponsePending(Taken, suppress)
      <3>1. \A work \in PendingServices \cup {"did"} :
              /\ [dsp EXCEPT !.work = work].seed = dsp.seed
              /\ [dsp EXCEPT !.work = work].work # "key"
        BY <1>1, ConfigAssumption DEF DspType
      <3> QED BY <1>7, <3>1 DEF DsdServes
    <2>3. CASE AnswerPositive(rt, dsp, suppress) \/ AnswerNegative(rt, dsp)
      BY <1>1, <1>2, <1>3, <2>1, <2>3, AnswerSecure
    <2>4. CASE dsp'.seed = dsp.seed /\ dsp'.work # "key" /\ rt' = rt
      BY <1>2, <2>4, SecureFacts, GoesOn
    <2>5. CASE dsp'.seed = dsp.seed /\ dsp'.work # "key" /\ ForceResponsePending(Taken, suppress)
      BY <1>2, <1>3, <2>1, <2>5, ForcedSecure
    <2> QED BY <2>2, <2>3, <2>4, <2>5
  <1>8. CASE DsdSessionControl
    <2>1. DsdTakes
      BY <1>8 DEF DsdSessionControl
    <2>2. PICK suppress \in BOOLEAN, new \in {"DEFAULT"} \cup ExtraSessions :
            AnswerPositive(rt, [dsp EXCEPT !.change = [by |-> Requester, to |-> new]], suppress)
      BY <1>8 DEF DsdSessionControl
    <2> DEFINE d == [dsp EXCEPT !.change = [by |-> Requester, to |-> new]]
    <2>3. Requester \in Protocols
      BY <1>3, <2>1, RequesterRow
    <2>4. [by |-> Requester, to |-> new] \in SessionChange
      BY <2>3 DEF SessionChange, Sessions
    <2>5. d \in DspType /\ d.work = dsp.work
      BY <1>1, <2>4 DEF DspType
    <2>6. AnswerPositive(rt, d, suppress)
      BY <2>2
    <2> HIDE DEF d
    <2> QED BY <1>1, <1>2, <1>3, <2>1, <2>5, <2>6, AnswerSecure
  <1>9. CASE DsdSecurityAccess
    <2> DEFINE opened == [dsp EXCEPT !.seed = TRUE]
               ended == [dsp EXCEPT !.seed = FALSE]
               compared == [dsp EXCEPT !.work = "key"]
    <2>1. DsdTakes /\ active # NoProtocol /\ rt[1].session \in SecuritySessions
      BY <1>9, SecureFacts DEF DsdSecurityAccess
    <2>2. /\ opened \in DspType /\ ended \in DspType /\ compared.seed = dsp.seed
          /\ opened.work = dsp.work /\ ended.work = dsp.work
      BY <1>1 DEF DspType
    <2>3. PICK suppress \in BOOLEAN :
            \/ AnswerPositive(rt, opened, suppress)
            \/ AnswerPositive(Unlock(rt), ended, suppress)
            \/ AnswerNegative(rt, ended)
            \/ dsp' = compared /\ rt' = rt
      BY <1>9 DEF DsdSecurityAccess
    <2> HIDE DEF opened, ended, compared
    <2>4. CASE AnswerPositive(rt, opened, suppress)
      BY <1>1, <1>2, <1>3, <2>1, <2>2, <2>4, AnswerSecure
    <2>5. CASE AnswerPositive(Unlock(rt), ended, suppress)
      BY <1>2, <1>3, <2>1, <2>2, <2>5, UnlockSecure, AnswerSecure
    <2>6. CASE AnswerNegative(rt, ended)
      BY <1>1, <1>2, <1>3, <2>1, <2>2, <2>6, AnswerSecure
    <2>7. CASE dsp' = compared /\ rt' = rt
      BY <1>2, <2>1, <2>2, <2>7, SecureFacts, GoesOn
    <2> QED BY <2>3, <2>4, <2>5, <2>6, <2>7
  <1> QED BY <1>4, <1>5, <1>6, <1>7, <1>8, <1>9 DEF DsdMain

\* DspMain lets a key be compared, or answers: the session is still that of the request.
LEMMA DspMainSecure ==
  ASSUME Secure, DspMain
  PROVE  KeyInv'
  <1>1. rt \in Rows /\ dsp \in DspType /\ SameBuffers(rt[1], rt[1]) /\ SafeRow(rt[1])
        /\ msg.suppress \in BOOLEAN
    BY SecureFacts DEF SameBuffers
  <1>2. active' = active /\ main'.phase # "first"
    BY DEF DspMain, DspWaits, DspAnswers, DspForcesResponsePending, DspComparesKey, DspRuns
  <1>3. dsp.work # "none" => msg.pdu \in RxPdus
    BY DEF Secure, Before, IInv, RequestKnown
  <1>4. CASE DspWaits
    <2>1. UNCHANGED <<rt, dsp>>
      BY <1>4 DEF DspWaits
    <2> QED BY <1>2, <2>1, SecureFacts, GoesOn
  <1>5. CASE DspAnswers
    <2> DEFINE d == [dsp EXCEPT !.work = "none"]
    <2>1. d \in DspType /\ d.work = "none"
      BY <1>1 DEF DspType
    <2>2. dsp.work # "none" /\ (AnswerPositive(rt, d, msg.suppress) \/ AnswerNegative(rt, d))
      BY <1>5 DEF DspAnswers
    <2> HIDE DEF d
    <2> QED BY <1>1, <1>2, <1>3, <2>1, <2>2, AnswerSecure
  <1>6. CASE DspForcesResponsePending
    <2>1. dsp.work = "did" /\ ForceResponsePending(msg, msg.suppress) /\ dsp' = dsp
      BY <1>6 DEF DspForcesResponsePending
    <2> QED BY <1>2, <1>3, <2>1, ForcedSecure
  <1>7. CASE DspComparesKey
    <2> DEFINE d == [dsp EXCEPT !.work = "none", !.seed = FALSE]
    <2>1. d \in DspType /\ d.work = "none"
      BY <1>1 DEF DspType
    <2>2. /\ dsp.work = "key"
          /\ \/ AnswerNegative(rt, d)
             \/ /\ dsp.seed /\ active # NoProtocol
                /\ AnswerPositive(Unlock(rt), d, msg.suppress)
      BY <1>7 DEF DspComparesKey
    <2> HIDE DEF d
    <2>3. CASE AnswerNegative(rt, d)
      BY <1>1, <1>2, <1>3, <2>1, <2>2, <2>3, AnswerSecure
    <2>4. CASE dsp.seed /\ active # NoProtocol /\ AnswerPositive(Unlock(rt), d, msg.suppress)
      <3>1. rt[1].session \in SecuritySessions
        BY <2>2, <2>4 DEF Secure, KeyInv
      <3> QED BY <1>1, <1>2, <1>3, <2>1, <2>2, <2>4, <3>1, UnlockSecure, AnswerSecure
    <2> QED BY <2>2, <2>3, <2>4
  <1> QED BY <1>4, <1>5, <1>6, <1>7 DEF DspMain

\* A warm start opens a protocol that is locked, and no seed was given yet.
LEMMA StartProtocolSecure ==
  ASSUME Secure, DcmExecuteStartProtocolRequest
  PROVE  KeyInv'
  <1>1. dsp' = dsp /\ ~dsp.seed /\ main'.phase # "first" /\ dsp \in DspType
    BY SecureFacts DEF DcmExecuteStartProtocolRequest, Secure, KeyInv, MainType
  <1>2. SafeRow(rt'[1])
    <2>1. CASE rt' = rt
      BY <2>1, SecureFacts
    <2>2. CASE rt' # rt
      <3> DEFINE begun(new) == [rt[1] EXCEPT !.started = TRUE, !.session = new, !.unlocked = FALSE]
      <3>1. PICK new \in {"DEFAULT"} \cup ExtraSessions :
              rt' = [rt EXCEPT ![1] = IF new = "DEFAULT" THEN begun(new) ELSE StartS3(begun(new))]
        <4>1. \A p \in StartupProtocols : p = 1
          BY SecureFacts, ConfigAssumption
        <4> QED BY <2>2, <4>1 DEF DcmExecuteStartProtocolRequest
      <3>2. new = "DEFAULT" => SafeRow(begun(new))
        BY SecureFacts DEF SafeRow, GoodRow, RuntimeType
      <3>3. /\ begun(new) \in RuntimeType /\ begun(new).unlocked = FALSE
            /\ begun(new).locRx = "NOT_IN_USE"
        BY SecureFacts DEF SafeRow, GoodRow, RuntimeType, Sessions
      <3> HIDE DEF begun
      <3>4. SafeRow(StartS3(begun(new)))
        BY <3>3, SecureFacts DEF SafeRow, RuntimeType, StartS3, S3Lasts
      <3>5. rt'[1] = IF new = "DEFAULT" THEN begun(new) ELSE StartS3(begun(new))
        BY <3>1, SecureFacts
      <3> QED BY <3>2, <3>4, <3>5
    <2> QED BY <2>1, <2>2
  <1> QED BY <1>1, <1>2 DEF KeyInv

\* The timer does not end the session while a key is compared, for it is stopped.
LEMMA S3Secure ==
  ASSUME Secure, S3Running \/ S3Timeout
  PROVE  KeyInv'
  <1>1. main.row = 1 /\ main'.phase # "first"
    BY SecureFacts DEF S3Running, S3Timeout, MainType
  <1>2. CASE S3Running
    <2> DEFINE n == IF rt[1].session = "DEFAULT" THEN rt[1].s3 ELSE S3Left(1)
               r == [rt[1] EXCEPT !.s3 = n]
    <2>1. rt' = [rt EXCEPT ![1] = r] /\ UNCHANGED <<active, dsp>>
      BY <1>1, <1>2 DEF S3Running
    <2>2. rt[1].session # "DEFAULT" => n # 0
      BY <1>1, <1>2 DEF S3Running, S3Expired
    <2> HIDE DEF n
    <2>3. SafeRow(r) /\ Unmoved(r)
      BY <2>2, SecureFacts DEF SafeRow, Unmoved, GoodRow, RuntimeType
    <2> HIDE DEF r
    <2>4. rt'[1] = r
      BY <2>1, SecureFacts
    <2> QED BY <1>1, <2>1, <2>3, <2>4, GoesOn
  <1>3. CASE S3Timeout
    <2> DEFINE fallen == ChangeSession(rt[1], "DEFAULT")
               r == [[fallen EXCEPT !.s3 = 0] EXCEPT !.started = @ /\ 1 \notin ObdProtocols]
    <2>1. /\ rt' = [rt EXCEPT ![1] = r] /\ dsp' = DspAfterChange(dsp, rt[1])
          /\ 1 \in ObdProtocols => active # NoProtocol
          /\ active' = ActiveAfterTimeout(1) /\ S3Expired(1)
      BY <1>1, <1>3 DEF S3Timeout
    <2>2. fallen.unlocked = FALSE
      BY SecureFacts, ChangeLocks
    <2>3. /\ fallen \in GoodRow /\ fallen.locRx = "NOT_IN_USE" /\ fallen.session = "DEFAULT"
          /\ fallen.s3On = rt[1].s3On /\ fallen.extRx = rt[1].extRx /\ fallen.extTx = rt[1].extTx
      <3>1. fallen \in GoodRow
        BY SecureFacts, ChangeSessionRow
      <3> QED BY <3>1, SecureFacts DEF SafeRow, ChangeSession, GoodRow, RuntimeType
    <2> HIDE DEF fallen
    <2>4. /\ SafeRow(r) /\ r.s3On = rt[1].s3On /\ r.extRx = rt[1].extRx
          /\ r.extTx = rt[1].extTx
      BY <2>2, <2>3 DEF SafeRow, GoodRow, RuntimeType
    <2> HIDE DEF r
    <2>5. rt'[1] = r
      BY <2>1, SecureFacts
    <2>6. /\ dsp'.seed => dsp.seed
          /\ dsp'.work = "key" => dsp.work = "key"
      BY <2>1, SecureFacts DEF DspAfterChange, DspInit, DspType
    <2>7. 1 \in ObdProtocols => active' = NoProtocol
      BY <2>1, SecureFacts DEF ActiveAfterTimeout
    <2>8. 1 \notin ObdProtocols => rt[1].s3On
      BY <2>1, SecureFacts DEF S3Expired, S3Left, SafeRow
    <2>9. dsp.work = "key" /\ dsp.seed => ~rt[1].s3On
      BY DEF Secure, Before, LockInv, InService, Locked, KeyInv, Answered, Transmitting
    <2>10. dsp.seed /\ rt[1].extRx # "NOT_IN_USE" /\ rt[1].extTx \notin Answered => ~rt[1].s3On
      BY DEF Secure, KeyInv
    <2> QED BY <1>1, <2>4, <2>5, <2>6, <2>7, <2>8, <2>9, <2>10 DEF KeyInv
  <1> QED BY <1>2, <1>3

\* A response leaves, a responsePending does, or a request is given up.
LEMMA TxSecure ==
  ASSUME Secure, TxNothing \/ TxP2Running \/ TxResponsePending \/ TxGeneralReject \/ TxResponse
  PROVE  KeyInv'
  <1>1. main.row = 1 /\ active' = active /\ main'.phase # "first" /\ 1 \in Protocols /\ rt \in Rows
    <2>1. NextRow /\ active' = active
      BY DEF TxNothing, TxP2Running, TxResponsePending, TxGeneralReject, TxResponse
    <2> QED BY <2>1, SecureFacts DEF NextRow
  <1> DEFINE sent == SendLocal(rt, 1)
  <1>2. sent \in Rows /\ sent[1] \in GoodRow
    BY SecureFacts, SendLocalRows DEF Rows
  <1>3. SafeRow(sent[1]) /\ Unmoved(sent[1])
    BY <1>2, SecureFacts DEF SendLocal, SafeRow, Unmoved, Rows, GoodRow, RuntimeType
  <1>4. CASE TxNothing
    <2>1. UNCHANGED <<rt, dsp>>
      BY <1>4 DEF TxNothing
    <2> QED BY <1>1, <2>1, SecureFacts, GoesOn
  <1>5. CASE TxP2Running
    <2> DEFINE r == [rt[1] EXCEPT !.p2 = Decremented(@)]
    <2>1. rt' = [rt EXCEPT ![1] = r] /\ dsp' = dsp
      BY <1>1, <1>5, SecureFacts DEF TxP2Running
    <2>2. SafeRow(r) /\ Unmoved(r)
      BY SecureFacts DEF SafeRow, Unmoved, GoodRow, RuntimeType
    <2> HIDE DEF r
    <2>3. rt'[1] = r
      BY <2>1, SecureFacts
    <2> QED BY <1>1, <2>1, <2>2, <2>3, GoesOn
  <1>6. CASE TxResponsePending
    <2> DEFINE r == [sent[1] EXCEPT !.p2 = P2StarServer, !.pend = Decremented(@)]
    <2>1. rt' = [sent EXCEPT ![1] = r] /\ dsp' = dsp
      BY <1>1, <1>2, <1>6 DEF TxResponsePending, Rows
    <2> HIDE DEF sent
    <2>2. SafeRow(r) /\ Unmoved(r)
      BY <1>2, <1>3 DEF SafeRow, Unmoved, GoodRow, RuntimeType
    <2> HIDE DEF r
    <2>3. rt'[1] = r
      BY <1>2, <2>1, SecureFacts
    <2> QED BY <1>1, <2>1, <2>2, <2>3, GoesOn
  <1>7. CASE TxGeneralReject
    <2>1. rt' = [sent EXCEPT ![1] = ReleaseBuffers(sent[1])] /\ dsp' = CancelPending(dsp)
      BY <1>1, <1>7 DEF TxGeneralReject
    <2> HIDE DEF sent
    <2>2. rt'[1] = ReleaseBuffers(sent[1])
      BY <1>1, <1>2, <2>1 DEF Rows
    <2>3. SafeRow(rt'[1]) /\ rt'[1].extRx = "NOT_IN_USE"
      <3> DEFINE r == sent[1]
      <3>1. r \in GoodRow /\ SafeRow(r)
        BY <1>2, <1>3
      <3> HIDE DEF r
      <3>2. SafeRow(ReleaseBuffers(r)) /\ ReleaseBuffers(r).extRx = "NOT_IN_USE"
        BY <3>1, SecureFacts, SafeHelpers, RowBuffers
      <3> QED BY <2>2, <3>2 DEF r
    <2>4. dsp'.work = "none"
      BY <2>1, SecureFacts DEF CancelPending, DspType
    <2> QED BY <1>1, <2>3, <2>4, ServiceOver
  <1>8. CASE TxResponse
    <2> DEFINE signalled == [rt[1] EXCEPT !.extTx = "DCM_TRANSMIT_SIGNALED"]
               timed == StartS3(rt[1])
               freed == ReleaseBuffers(timed)
    <2>1. /\ rt' = [rt EXCEPT ![1] = signalled] \/ rt' = [rt EXCEPT ![1] = freed]
          /\ dsp' = dsp /\ rt[1].extTx = "DSD_PENDING_RESPONSE_SIGNALED"
      BY <1>1, <1>8 DEF TxResponse
    <2>2. /\ SafeRow(signalled) /\ signalled.extTx = "DCM_TRANSMIT_SIGNALED"
      BY SecureFacts DEF SafeRow, GoodRow, RuntimeType
    <2>3. timed \in GoodRow /\ SafeRow(timed)
      BY SecureFacts, StartS3Row, SafeHelpers
    <2> HIDE DEF timed
    <2>4. SafeRow(freed) /\ freed.extRx = "NOT_IN_USE"
      BY <2>3, SecureFacts, SafeHelpers, RowBuffers
    <2> HIDE DEF signalled, freed
    <2>5. rt'[1] = signalled \/ rt'[1] = freed
      BY <2>1, SecureFacts
    <2>6. dsp.work = "none"
      BY <2>1 DEF Secure, Before, LockInv, InService
    <2> QED BY <1>1, <2>1, <2>2, <2>4, <2>5, <2>6, ServiceOver DEF Answered, Transmitting
  <1> QED BY <1>4, <1>5, <1>6, <1>7, <1>8

\* Every step keeps the row locked where SecurityAccess is not served.
LEMMA NextSecure ==
  ASSUME Secure, [Next]_vars
  PROVE  KeyInv'
  <1>1. \A p \in Protocols : p = 1
    BY SecureFacts
  <1>2. ASSUME NEW pdu \in RxPdus, Receive(pdu) PROVE KeyInv'
    BY <1>2, StartOfReceptionSecure, TpRxIndicationSecure DEF Receive
  <1>3. ASSUME NEW p \in Protocols, Transmit(p) PROVE KeyInv'
    BY <1>1, <1>3, CopyTxDataSecure, TpTxConfirmationSecure DEF Transmit
  <1>4. ~ResetToDefaultSession
    BY DEF ResetToDefaultSession, Secure, NoApplicationReset
  <1>5. CASE DereferencesNull
    <2>1. UNCHANGED <<rt, active, dsp>> /\ main'.phase # "first"
      BY <1>5, SecureFacts DEF DereferencesNull, MainType
    <2> QED BY <2>1, SecureFacts, GoesOn
  <1>6. CASE UNCHANGED vars
    <2>1. UNCHANGED <<rt, active, dsp, main>>
      BY <1>6, SMTT(30) DEF vars
    <2> QED BY <2>1, SecureFacts, GoesOn
  <1>7. ~TxPreempting
    BY SecureFacts DEF TxPreempting, Secure, Before, LockInv, Locked
  <1> QED BY <1>2, <1>3, <1>4, <1>5, <1>6, <1>7, DsdMainSecure, DspMainSecure, StartProtocolSecure,
             S3Secure, TxSecure DEF Next, MainFunction, DslMain

(* The only protocol is unlocked only in a session that serves                *)
(* SecurityAccess (DslInternal_SetSecurityLevel): neither S3 nor a new      *)
(* session takes the row out of it while the key is compared or once it is  *)
(* unlocked.  A TesterPresent received in parallel would restart S3 during  *)
(* the comparison, and Dcm_ResetToDefaultSession would leave the session:   *)
(* both then unlock the default one.                                       *)
THEOREM UnlockedWhereServed ==
  ASSUME OneProtocol, P2Lasts, NoParallelRequests, NoApplicationReset, S3Lasts, DefaultIsLocked
  PROVE  Spec => []UnlockedInSecuritySession
  <1>1. Init => KeyInv
    <2> SUFFICES ASSUME Init PROVE KeyInv
      OBVIOUS
    <2>1. rt[1] = InitialRuntime
      BY OneRow DEF Init
    <2> QED BY <2>1 DEF Init, KeyInv, SafeRow, InitialRuntime
  <1>2. Before /\ KeyInv /\ [Next]_vars => KeyInv'
    BY NextSecure DEF Secure
  <1>3. Before /\ KeyInv => UnlockedInSecuritySession
    BY OneRow DEF KeyInv, SafeRow, UnlockedInSecuritySession
  <1> QED BY <1>1, <1>2, <1>3, OneProtocolInvariant, PTL DEF Spec
=============================================================================
