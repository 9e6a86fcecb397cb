----------------------------- MODULE DcmLevels ------------------------------
(***************************************************************************)
(* The session and the security level of the active protocol               *)
(* (core/dcm/src/Dcm_Dsl.c), as the services of Dcm_Dsp.c see them: each   *)
(* service module extends this one and says what a session change, a       *)
(* security change and a preemption do to the state of its own.            *)
(***************************************************************************)
EXTENDS Naturals

CONSTANTS
  DspSessions,      \* the configured sessions
  DspLevels         \* the configured security levels besides LOCKED

DefaultSession == "DEFAULT"
Locked == "LOCKED"

ASSUME LevelsAssumption == DefaultSession \in DspSessions /\ Locked \notin DspLevels

VARIABLES
  session,          \* DslRunTimeProtocolParameters.sessionControl
  security          \* DslRunTimeProtocolParameters.securityLevel

levels == <<session, security>>

LevelsInit == session = DefaultSession /\ security = Locked
LevelsTypeOK == session \in DspSessions /\ security \in DspLevels \cup {Locked}

(* A configuration row names the sessions and the levels it is for; none   *)
(* means that nothing is checked.                                          *)
Everywhere == [sessions |-> {}, levels |-> {}]
DspCheckSessionLevel(row, s) == row.sessions = {} \/ s \in row.sessions
DspCheckSecurityLevel(row, l) == row.levels = {} \/ l \in row.levels
Allows(row, s, l) == DspCheckSessionLevel(row, s) /\ DspCheckSecurityLevel(row, l)

(* changeDiagnosticSession: leaving the default session initializes the    *)
(* service processor, leaving another one locks security.                  *)
InitializesDsp == session = DefaultSession
LevelAfter == IF InitializesDsp THEN security ELSE Locked
ChangesSession(new) == session' = new /\ security' = LevelAfter
DslInternal_SetSecurityLevel(new) == security' = new /\ UNCHANGED session

(* Another protocol takes over: it starts in the default session, at the   *)
(* level its row was left with.  Its start initializes the service         *)
(* processor if the row was left in the default session.                   *)
ProtocolTakesOver ==
  session' = DefaultSession /\ security' \in DspLevels \cup {Locked}
=============================================================================
