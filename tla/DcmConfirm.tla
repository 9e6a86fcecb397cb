----------------------------- MODULE DcmConfirm -----------------------------
(***************************************************************************)
(* The services of Dcm_Dsp.c that take effect when their response has been *)
(* sent: DiagnosticSessionControl with the jump to the bootloader,         *)
(* LinkControl, ECUReset and CommunicationControl; ControlDTCSetting,      *)
(* whose effect a session change ends likewise; and the response to the    *)
(* request the bootloader left behind.                                     *)
(*                                                                         *)
(* One request is served at a time.  Its response, and the 0x78 response   *)
(* before it, are confirmed by the lower layer, for better or worse.  Once *)
(* the mode switch EXECUTE is accepted the ECU does nothing but restart.   *)
(***************************************************************************)
EXTENDS DcmLevels

CONSTANTS
  ChannelOf,         \* the ComM channel of each connection (its transmit PDU)
  BootOf,            \* DspSessionForBoot: "no", "boot" or "respapp" for a session
  ComService,        \* the row of CommunicationControl
  DtcService,        \* the row of ControlDTCSetting
  PendingFirst,      \* connections whose protocol row asks for a 0x78 response before a jump
  SwitchRequests,    \* the sets of channels a CommunicationControl request may name
  MaxRespPend,       \* DslDiagRespMaxNumRespPend, 0 if not enabled
  TransmitRefusals,  \* PduR may refuse to transmit a response
  ResetPhases        \* phases of a request in which the application may reset the session

TesterPdus == DOMAIN ChannelOf
Channels == {ChannelOf[p] : p \in TesterPdus}
NoPdu == "none"
UnknownSession == "unknown"
Phases == {"idle", "received", "serving", "answered"}

ASSUME ConfirmAssumption ==
  /\ DOMAIN BootOf = DspSessions
  /\ UnknownSession \notin DspSessions /\ NoPdu \notin TesterPdus
  /\ MaxRespPend \in Nat
  /\ PendingFirst \subseteq TesterPdus /\ TransmitRefusals \in BOOLEAN
  /\ SwitchRequests \subseteq SUBSET Channels
  /\ ResetPhases \subseteq Phases

VARIABLES
  effect,          \* what the services have prepared and done
  progConditions,  \* GlobalProgConditions
  stored,          \* the conditions the application stored for the bootloader
  serving,         \* the request with the services and its response
  localTx,         \* the local buffer: "free", or a 0x78 or another NRC on its way
  ecu              \* "starting", "running", or how it is about to restart

confirmVars == <<effect, progConditions, stored, serving, localTx, ecu>>

NoJob == [sid |-> "none"]
Idle == [phase |-> "idle", request |-> NoJob, positive |-> FALSE, left |-> 0]

(* jump, change, session, pdu: dspUdsSessionControlData; link: that of      *)
(* LinkControl; reset, resetPdu: dspUdsEcuResetData; com, comPdu, on and    *)
(* channels: communicationControlData; silent: the channels whose          *)
(* DspChannelComMode is not the normal one; dtcOff: settingDisabled;       *)
(* startup: a startup response is pending.                                 *)
NoEffect ==
  [jump |-> "IDLE", change |-> FALSE, session |-> DefaultSession, pdu |-> NoPdu,
   link |-> "IDLE", reset |-> "NO_RESET", resetPdu |-> NoPdu,
   com |-> FALSE, comPdu |-> NoPdu, on |-> TRUE, channels |-> {}, silent |-> {},
   dtcOff |-> FALSE, startup |-> FALSE]

ConfirmInit ==
  /\ effect = NoEffect /\ progConditions = NoJob /\ stored = NoJob
  /\ serving = Idle /\ localTx = "free" /\ ecu = "starting"

-----------------------------------------------------------------------------
(* What ends with the session, or with the protocol (no check).            *)
DspStopCommunicationControl(e, check, s, l) ==
  IF check /\ Allows(ComService, s, l) THEN e.silent ELSE {}
DspEnableDTCSetting(e, s, l) ==
  e.dtcOff /\ s # DefaultSession /\ Allows(DtcService, s, l)
ResetsActivity(e, check, s, l) ==
  [e EXCEPT !.jump = "IDLE", !.change = FALSE, !.startup = FALSE,
            !.silent = DspStopCommunicationControl(e, check, s, l),
            !.dtcOff = DspEnableDTCSetting(e, s, l)]

(* DspInit(FALSE) *)
Initialized(e) ==
  [e EXCEPT !.jump = "IDLE", !.change = FALSE, !.startup = FALSE,
            !.link = "IDLE", !.reset = "NO_RESET", !.com = FALSE]

SessionEnds(e, s) ==
  ResetsActivity(IF InitializesDsp THEN Initialized(e) ELSE e, TRUE, s, LevelAfter)

(* DspDcmConfirmation: the mode switch EXECUTE may be refused, and so may  *)
(* the conditions of a jump.  The rest, part after part:                   *)
JumpConfirmed(e, pdu) == IF e.pdu = pdu THEN [e EXCEPT !.jump = "IDLE"] ELSE e
ResetConfirmed(e, pdu) ==
  IF e.resetPdu = pdu /\ e.reset = "WAIT_TX_CONF" THEN [e EXCEPT !.reset = "NO_RESET"] ELSE e
Changes(e, pdu, ok) == ok /\ e.change /\ e.pdu = pdu
ChangeConfirmed(e, pdu, ok) ==
  IF Changes(e, pdu, ok) THEN [SessionEnds(e, e.session) EXCEPT !.change = FALSE]
  ELSE IF e.pdu = pdu THEN [e EXCEPT !.change = FALSE] ELSE e
Switched(e) ==
  [e EXCEPT !.com = FALSE,
            !.silent = IF e.on THEN @ \ e.channels ELSE @ \cup e.channels]
ComStaysPending(e, pdu, ok) ==                \* variation: a failure leaves it pending
  IF e.com /\ e.comPdu = pdu /\ ok THEN Switched(e) ELSE e
ComConfirmed(e, pdu, ok) ==
  IF ~(e.com /\ e.comPdu = pdu) THEN e
  ELSE IF ok THEN Switched(e) ELSE [e EXCEPT !.com = FALSE]

DspDcmConfirmation(e, pdu, ok) ==
  LET jumps == ok /\ e.jump = "FINAL_RESPONSE" /\ e.pdu = pdu
      resets == ok /\ e.reset = "WAIT_TX_CONF" /\ e.resetPdu = pdu
      before == ResetConfirmed(JumpConfirmed(e, pdu), pdu)
  IN /\ \E saved, executed \in BOOLEAN :
          /\ stored' = IF jumps /\ saved THEN progConditions' ELSE stored
          /\ ecu' = CASE resets /\ executed -> "reset"
                      [] jumps /\ saved /\ executed -> "jump"
                      [] OTHER -> ecu
     /\ effect' = ComConfirmed(ChangeConfirmed(before, pdu, ok), pdu, ok)
     /\ IF Changes(before, pdu, ok) THEN ChangesSession(before.session) ELSE UNCHANGED levels

-----------------------------------------------------------------------------
(* DsdDspProcessingDone.  A suppressed positive response counts as sent.   *)
Released == serving' = Idle
Answers(r, positive) ==
  serving' = [phase |-> "answered", request |-> r, positive |-> positive, left |-> 0]
Positive(r, e) ==
  /\ IF r.suppress THEN Released /\ DspDcmConfirmation(e, r.pdu, TRUE)
     ELSE Answers(r, TRUE) /\ effect' = e /\ UNCHANGED <<levels, stored, ecu>>
  /\ UNCHANGED localTx
Refused(r, e) == Answers(r, FALSE) /\ effect' = e /\ UNCHANGED <<levels, ecu>>
Negative(r, e) == Refused(r, e) /\ UNCHANGED <<stored, localTx>>

Left(n) == IF n = 0 THEN 0 ELSE n - 1
StaysServed(r, e) ==
  /\ serving' = [serving EXCEPT !.phase = "serving"]
  /\ effect' = e /\ UNCHANGED <<levels, localTx, ecu>>

(* DsdDspForceResponsePending: sent if the local buffer is free; then the  *)
(* final response is not suppressed any more.                              *)
ForcesPending(r, e) ==
  /\ serving' = [serving EXCEPT !.phase = "serving", !.left = Left(@),
                                !.request.suppress = @ /\ localTx # "free"]
  /\ localTx' = IF localTx = "free" THEN "pending" ELSE localTx
  /\ effect' = e /\ UNCHANGED <<levels, stored, ecu>>

Conditions(r) == [sid |-> r.sid, session |-> r.session, pdu |-> r.pdu, respond |-> ~r.suppress]

(* Dcm_SetProgConditions: only if the application could store them does    *)
(* the jump go on.                                                         *)
StoresMaybe == stored' \in {progConditions', stored}    \* variation: the answer is not looked at
SetProgConditions == stored' = progConditions'

(* DspUdsDiagnosticSessionControl, which the main function calls again     *)
(* with the same request, by the state of the jump.                        *)
RequestsJump(r) ==
  LET e == [effect EXCEPT !.session = r.session, !.pdu = r.pdu]
      boot == BootOf[r.session]
  IN /\ progConditions' = Conditions(r)
     /\ \/ /\ r.pdu \in PendingFirst
           /\ ForcesPending(r, [e EXCEPT !.jump = IF boot = "boot" THEN "WAIT" ELSE "RESPAPP_WAIT"])
        \/ /\ r.pdu \notin PendingFirst /\ boot = "boot"
           /\ SetProgConditions /\ StaysServed(r, [e EXCEPT !.jump = "EXECUTE"])
        \/ r.pdu \notin PendingFirst /\ boot = "boot" /\ Negative(r, e)
        \/ /\ r.pdu \notin PendingFirst /\ boot = "respapp"
           /\ Positive(r, [e EXCEPT !.jump = "FINAL_RESPONSE"])

RequestsSession(r, internal) ==
  \/ r.session \notin DspSessions /\ Negative(r, effect) /\ UNCHANGED progConditions
  \/ /\ r.session \in DspSessions /\ (internal \/ BootOf[r.session] = "no")
     /\ UNCHANGED progConditions
     /\ Positive(r, [effect EXCEPT !.change = TRUE, !.session = r.session, !.pdu = r.pdu])
  \/ /\ r.session \in DspSessions /\ ~internal /\ BootOf[r.session] # "no"
     /\ RequestsJump(r) \/ (Negative(r, effect) /\ UNCHANGED progConditions)

(* The mode switch EXECUTE: accepted, the ECU restarts. *)
Executes(r, e) ==
  \/ ecu' = "jump" /\ effect' = e /\ UNCHANGED <<levels, stored, serving, localTx>>
  \/ Negative(r, e)

DspUdsDiagnosticSessionControl(r, internal) ==
  \/ effect.jump = "IDLE" /\ RequestsSession(r, internal)
  \/ /\ effect.jump = "EXECUTE" /\ UNCHANGED progConditions
     /\ Executes(r, [effect EXCEPT !.jump = "IDLE"])
  \/ /\ effect.jump = "ASSEMBLE" /\ UNCHANGED progConditions
     /\ Positive(r, [effect EXCEPT !.jump = "FINAL_RESPONSE"])
  \/ /\ effect.jump \notin {"IDLE", "EXECUTE", "ASSEMBLE"}
     /\ StaysServed(r, effect) /\ UNCHANGED <<progConditions, stored>>

(* DspUdsLinkControl *)
RequestsLink(r) ==
  /\ progConditions' = Conditions(r)
  /\ \/ r.pdu \in PendingFirst /\ ForcesPending(r, [effect EXCEPT !.link = "WAIT"])
     \/ /\ r.pdu \notin PendingFirst /\ SetProgConditions
        /\ StaysServed(r, [effect EXCEPT !.link = "EXECUTE"])
     \/ r.pdu \notin PendingFirst /\ Negative(r, effect)
DspUdsLinkControl(r) ==
  \/ effect.link = "IDLE" /\ (RequestsLink(r) \/ (Negative(r, effect) /\ UNCHANGED progConditions))
  \/ /\ effect.link = "EXECUTE" /\ Executes(r, [effect EXCEPT !.link = "IDLE"])
     /\ UNCHANGED progConditions
  \/ effect.link = "WAIT" /\ StaysServed(r, effect) /\ UNCHANGED <<progConditions, stored>>

(* DspUdsEcuReset and DspResetMainFunction: the mode switch may be pending; *)
(* a startup response is only sent.                                        *)
DspUdsEcuReset(r, internal) ==
  LET e == [effect EXCEPT !.resetPdu = r.pdu] IN
  /\ UNCHANGED progConditions
  /\ \/ internal /\ Positive(r, effect)
     \/ ~internal /\ Positive(r, [e EXCEPT !.reset = "WAIT_TX_CONF"])
     \/ ~internal /\ StaysServed(r, [e EXCEPT !.reset = "PENDING"]) /\ UNCHANGED stored
     \/ ~internal /\ Negative(r, [e EXCEPT !.reset = "NO_RESET"])

(* DspCommunicationControl: a subnet that is not configured has no channel. *)
DspCommunicationControl(r) ==
  /\ UNCHANGED progConditions
  /\ IF r.channels = {} THEN Negative(r, [effect EXCEPT !.com = FALSE])
     ELSE Positive(r, [effect EXCEPT !.com = TRUE, !.comPdu = r.pdu, !.on = r.on,
                                     !.channels = r.channels])

(* DspUdsControlDtcSetting: effective at once, if the DEM agrees.          *)
DspUdsControlDtcSetting(r) ==
  /\ UNCHANGED progConditions
  /\ Negative(r, effect) \/ Positive(r, [effect EXCEPT !.dtcOff = ~r.on])

(* Any other service, and any request that is refused for its form. *)
OtherService(r) ==
  /\ UNCHANGED progConditions
  /\ \/ r.on /\ Positive(r, effect)
     \/ ~r.on /\ Negative(r, effect)

-----------------------------------------------------------------------------
(* The requests of the testers.  The DSD looks at the row of a service.    *)
Requests ==
  [sid : {"session"}, session : DspSessions \cup {UnknownSession}, pdu : TesterPdus,
   suppress : BOOLEAN]
    \cup [sid : {"link", "reset"}, session : {DefaultSession}, pdu : TesterPdus, suppress : BOOLEAN]
    \cup [sid : {"com"}, on : BOOLEAN, channels : SwitchRequests,
          pdu : TesterPdus, suppress : BOOLEAN]
    \cup [sid : {"dtc", "other"}, on : BOOLEAN, pdu : TesterPdus, suppress : BOOLEAN]

Serves(r, internal) ==
  \/ r.sid = "session" /\ DspUdsDiagnosticSessionControl(r, internal)
  \/ r.sid = "link" /\ DspUdsLinkControl(r)
  \/ r.sid = "reset" /\ DspUdsEcuReset(r, internal)
  \/ r.sid = "com" /\ Allows(ComService, session, security) /\ DspCommunicationControl(r)
  \/ r.sid = "dtc" /\ Allows(DtcService, session, security) /\ DspUdsControlDtcSetting(r)
  \/ r.sid = "other" /\ OtherService(r)
  \/ /\ \/ r.sid = "com" /\ ~Allows(ComService, session, security)
        \/ r.sid = "dtc" /\ ~Allows(DtcService, session, security)
     /\ Negative(r, effect) /\ UNCHANGED progConditions

Received(r, internal) ==
  serving' = [phase |-> IF internal THEN "startup" ELSE "received", request |-> r,
              positive |-> FALSE, left |-> MaxRespPend]

(* What no later step reads is forgotten (it bounds the state).            *)
Settled(e) ==
  [e EXCEPT !.session = IF e.jump = "IDLE" /\ ~e.change THEN DefaultSession ELSE @,
            !.pdu = IF e.jump = "IDLE" /\ ~e.change THEN NoPdu ELSE @,
            !.resetPdu = IF e.reset = "NO_RESET" THEN NoPdu ELSE @,
            !.comPdu = IF e.com THEN @ ELSE NoPdu,
            !.channels = IF e.com THEN @ ELSE {},
            !.on = ~e.com \/ @]

RequestReceived ==
  /\ ecu = "running" /\ serving.phase = "idle"
  /\ \E r \in Requests : Received(r, FALSE)
  /\ effect' = Settled(effect)
  /\ progConditions' = IF effect.startup THEN progConditions ELSE NoJob
  /\ stored' = NoJob
  /\ UNCHANGED <<levels, localTx, ecu>>

DsdServes ==
  /\ ecu = "running" /\ serving.phase \in {"received", "startup"}
  /\ Serves(serving.request, serving.phase = "startup")

(* The request the bootloader could not answer: its protocol is started in *)
(* the session it asked for, which the DSL checks, and the response to it  *)
(* is pending.                                                             *)
LeftBehind ==
  [sid : {"session"}, session : DspSessions \cup {UnknownSession}, pdu : TesterPdus,
   respond : BOOLEAN]
    \cup [sid : {"reset"}, session : {DefaultSession}, pdu : TesterPdus, respond : BOOLEAN]

SilentlyStarted(s) == IF s \in DspSessions THEN s ELSE DefaultSession

DspCheckProtocolStartRequests ==
  /\ ecu = "starting" /\ ecu' = "running"
  /\ \/ UNCHANGED <<levels, effect, progConditions>>
     \/ \E c \in LeftBehind :
          /\ progConditions' = c
          /\ session' = SilentlyStarted(c.session) /\ security' = Locked
          /\ effect' = [effect EXCEPT !.startup = c.respond]
  /\ UNCHANGED <<stored, serving, localTx>>

(* DspStartupServiceResponseMainFunction: an internal request, as soon as  *)
(* the network is up and the buffer is free.                               *)
DspStartupServiceResponseMainFunction ==
  /\ ecu = "running" /\ effect.startup /\ serving.phase = "idle"
  /\ Received([sid |-> progConditions.sid, session |-> progConditions.session,
               pdu |-> progConditions.pdu, suppress |-> FALSE], TRUE)
  /\ effect' = [effect EXCEPT !.startup = FALSE]
  /\ UNCHANGED <<levels, progConditions, stored, localTx, ecu>>

DspJumpToBootMainFunction ==
  /\ ecu = "running" /\ serving.phase = "serving"
  /\ \/ /\ effect.jump \in {"ASSEMBLE", "EXECUTE"}
        /\ DspUdsDiagnosticSessionControl(serving.request, FALSE)
     \/ effect.link = "EXECUTE" /\ DspUdsLinkControl(serving.request)

DspResetMainFunction ==
  ecu = "running" /\ effect.reset = "PENDING" /\ DspUdsEcuReset(serving.request, FALSE)

(* DslMain: the P2* time is over.  Another 0x78 response, or the request   *)
(* is given up (DspCancelPendingRequests) with a general reject.           *)
GivesUp ==
  /\ Released
  /\ localTx' = IF localTx = "free" THEN "reject" ELSE localTx
  /\ effect' = [effect EXCEPT !.reset = "NO_RESET", !.jump = "IDLE", !.link = "IDLE"]
  /\ UNCHANGED <<levels, stored, ecu>>
P2Expires ==
  /\ ecu = "running" /\ serving.phase = "serving"
  /\ IF serving.left > 0 THEN ForcesPending(serving.request, effect) ELSE GivesUp
  /\ UNCHANGED progConditions

(* The lower layer confirms the response, once no local one is on its way, *)
(* or refused it: then nothing is confirmed.                               *)
DsdDataConfirmation ==
  /\ ecu = "running" /\ serving.phase = "answered" /\ localTx = "free"
  /\ UNCHANGED <<progConditions, localTx>> /\ Released
  /\ \/ \E ok \in BOOLEAN : DspDcmConfirmation(effect, serving.request.pdu, ok)
     \/ TransmitRefusals /\ UNCHANGED <<levels, effect, stored, ecu>>

(* DspResponsePendingConfirmed: a 0x78 response that was sent lets the      *)
(* jump go on; any other confirmation of the local buffer only frees it.   *)
JumpsNow(e) ==
  \/ SetProgConditions /\ ecu' = "jump" /\ effect' = e /\ UNCHANGED <<levels, serving>>
  \/ stored' \in {stored, progConditions} /\ Refused(serving.request, e)
SessionWaits(state) == effect.jump = state /\ effect.pdu = serving.request.pdu
LocalConfirmed ==
  /\ ecu = "running" /\ localTx # "free" /\ localTx' = "free"
  /\ UNCHANGED progConditions
  /\ \/ UNCHANGED <<levels, effect, stored, serving, ecu>>
     \/ /\ localTx = "pending" /\ serving.phase = "serving"
        /\ \/ SessionWaits("WAIT") /\ JumpsNow([effect EXCEPT !.jump = "IDLE"])
           \/ /\ SessionWaits("RESPAPP_WAIT") /\ effect' = [effect EXCEPT !.jump = "ASSEMBLE"]
              /\ UNCHANGED <<levels, stored, serving, ecu>>
           \/ effect.link = "WAIT" /\ JumpsNow([effect EXCEPT !.link = "IDLE"])

-----------------------------------------------------------------------------
(* The session times out between two requests; the application may reset   *)
(* it at any time.                                                         *)
ConfirmSessionReset ==
  /\ ecu = "running" /\ serving.phase \in ResetPhases \cup {"idle"}
  /\ ChangesSession(DefaultSession)
  /\ effect' = SessionEnds(effect, DefaultSession)
  /\ UNCHANGED <<progConditions, stored, serving, localTx, ecu>>

ConfirmUnlock ==
  /\ ecu = "running" /\ serving.phase = "idle"
  /\ \E l \in DspLevels : DslInternal_SetSecurityLevel(l)
  /\ UNCHANGED confirmVars

(* Another protocol takes over: at once, after the request in service has  *)
(* ended, or after the time it had for that.                               *)
ConfirmPreempted ==
  /\ ecu = "running"
  /\ ProtocolTakesOver
  /\ \/ /\ serving.phase = "idle" /\ UNCHANGED serving
        /\ effect' \in {ResetsActivity(effect, TRUE, session', security'),
                        ResetsActivity(Initialized(effect), TRUE, session', security'),
                        ResetsActivity(effect, FALSE, session', security')}
     \/ /\ serving.phase # "idle" /\ Released
        /\ effect' = Initialized(ResetsActivity(effect, FALSE, session', security'))
  /\ UNCHANGED <<progConditions, stored, localTx, ecu>>

Restart ==
  /\ ecu \in {"jump", "reset"} /\ ecu' = "starting"
  /\ session' = DefaultSession /\ security' = Locked
  /\ effect' = NoEffect /\ progConditions' = NoJob /\ stored' = NoJob
  /\ serving' = Idle /\ localTx' = "free"

ConfirmNext ==
  \/ DspCheckProtocolStartRequests \/ DspStartupServiceResponseMainFunction
  \/ RequestReceived \/ DsdServes \/ DspJumpToBootMainFunction \/ DspResetMainFunction
  \/ P2Expires \/ DsdDataConfirmation \/ LocalConfirmed
  \/ ConfirmSessionReset \/ ConfirmUnlock \/ ConfirmPreempted \/ Restart

ConfirmSpec == LevelsInit /\ ConfirmInit /\ [][ConfirmNext]_<<levels, confirmVars>>

-----------------------------------------------------------------------------
ConfirmTypeOK ==
  /\ LevelsTypeOK
  /\ effect.jump \in {"IDLE", "WAIT", "RESPAPP_WAIT", "ASSEMBLE", "FINAL_RESPONSE", "EXECUTE"}
  /\ effect.link \in {"IDLE", "WAIT", "EXECUTE"}
  /\ effect.reset \in {"NO_RESET", "PENDING", "WAIT_TX_CONF"}
  /\ effect.silent \subseteq Channels
  /\ serving.phase \in Phases \cup {"startup"} /\ serving.left \in 0 .. MaxRespPend
  /\ serving.request \in Requests \cup {NoJob}
  /\ localTx \in {"free", "pending", "reject"}
  /\ ecu \in {"starting", "running", "jump", "reset"}

(* Whatever waits for a confirmation waits for that of the positive        *)
(* response to the very request that asked for it.  And no channel stays   *)
(* silent, the DTC setting does not stay off, in a session whose testers   *)
(* have no service to change it back.                                      *)
Answering(sid, pdu) ==
  /\ serving.phase = "answered" /\ serving.positive
  /\ serving.request.sid = sid /\ serving.request.pdu = pdu
EffectsOfAnswer ==
  /\ effect.change => Answering("session", effect.pdu) /\ serving.request.session = effect.session
  /\ effect.jump = "FINAL_RESPONSE" =>
       Answering("session", effect.pdu) /\ serving.request.session = effect.session
  /\ effect.reset = "WAIT_TX_CONF" => Answering("reset", effect.resetPdu)
  /\ effect.com => Answering("com", effect.comPdu) /\ serving.request.channels = effect.channels
  /\ effect.silent # {} => DspCheckSessionLevel(ComService, session)
  /\ effect.dtcOff => session # DefaultSession /\ DspCheckSessionLevel(DtcService, session)

(* The ECU never jumps without the conditions that tell the bootloader     *)
(* which request to go on with: the one that is with the services.         *)
JumpIsPrepared ==
  [][ecu = "running" /\ ecu' = "jump"
       => /\ stored'.sid = serving.request.sid /\ stored'.session = serving.request.session
          /\ stored'.pdu = serving.request.pdu]_<<levels, confirmVars>>
=============================================================================
