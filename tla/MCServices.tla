----------------------------- MODULE MCServices -----------------------------
(* One instance of each service module, and of the debouncing, for TLC.    *)
(* They have only the session and the level in common; a behaviour is one  *)
(* of the service it starts with.                                          *)
EXTENDS DcmTransfer, DcmPeriodic, DcmIoControl, DcmConfirm, DcmSecurity, DcmReadDid,
        DcmPending, DcmRoe, DcmReadDtc, DemDebounce

VARIABLE service

vars == <<levels, transferVars, periodicVars, controlVars, confirmVars, securityVars, readVars,
          pendingVars, roeVars, readDtcVars, debounceVars, service>>

(* The rows: for the extended session, and for level L1.                   *)
InExtended == [sessions |-> {"EXT"}, levels |-> {}]
AtLevel1 == [sessions |-> {}, levels |-> {"L1"}]
InBoth == [sessions |-> {"EXT"}, levels |-> {"L1"}]

MCReadRow ==
  [d \in {"P1", "P2", "P3", "P4", "X1", "D1", "D2", "D3", "D4"} |->
     IF d = "X1" THEN InExtended ELSE Everywhere]
MCWriteRow == [D1 |-> Everywhere, D2 |-> Everywhere, D3 |-> Everywhere, D4 |-> InExtended]
MCAddressRow == [A0 |-> Everywhere, A1 |-> AtLevel1]
MCPeriods == [slow |-> 2, fast |-> 1]
MCDidLists == {<<"P1", "X1", "P2">>, <<"P2", "P3", "D2">>}
MCSourceLists == {<<"P1">>, <<"P1", "X1">>, <<"A1">>, <<"A0", "A1">>}

MCControlRow == [C1 |-> Everywhere, C2 |-> InExtended]
MCSignalCount == [C1 |-> 2, C2 |-> 1]

MCChannelOf == [P1 |-> "C1", P2 |-> "C2"]
MCSwitchRequests == {{}, {"C1"}, {"C1", "C2"}}
MCBootOf == [s \in DspSessions |-> CASE s = "PROG" -> "boot" [] s = "APP" -> "respapp" [] OTHER -> "no"]

MCAttemptLimit == [l \in DspLevels |-> IF l = "L1" THEN 2 ELSE 3]
MCDelayTime == [l \in DspLevels |-> IF l = "L1" THEN 2 ELSE 1]
MCBootDelay == [l \in DspLevels |-> IF l = "L1" THEN 1 ELSE 0]

MCDidSignals ==
  [A |-> <<"asynch", "synch", "asynch">>, B |-> <<>>, C |-> <<"block", "ecu">>,
   D |-> <<"asynch">>, G |-> <<"asynch">>]
MCDidRefs == [A |-> <<"G">>, B |-> <<"D">>, C |-> <<"D">>, D |-> <<>>, G |-> <<>>]
MCDidReadRow ==
  [A |-> Everywhere, B |-> InExtended, C |-> AtLevel1, D |-> Everywhere, G |-> Everywhere]
MCReadRequests == {<<"A">>, <<"B", "G">>, <<"A", "unknown", "C">>, <<"unknown">>, <<"C", "B">>}

MCRoutineRow == [anywhere |-> Everywhere, restricted |-> InBoth]
MCDidWriteRow == [mixed |-> Everywhere, stored |-> InExtended]
MCWriteSignals == [mixed |-> <<"asynch", "block1">>, stored |-> <<"block1", "asynch", "synch">>]
(* A range within another that asks for the level, one that ends with the  *)
(* address space, and one of another memory.                               *)
Area(id, by, from, to, for) ==
  [id |-> id, service |-> by, low |-> from, high |-> to, levels |-> for]
MCMemoryRanges ==
  <<Area("ram", "READ", 2, 2, {"L1"}), Area("ram", "READ", 2, 3, {}),
    Area("ram", "READ", 7, 7, {}), Area("ram", "WRITE", 2, 2, {"L1"}),
    Area("flash", "WRITE", 7, 7, {})>>

MCRoePreconfig == <<"x">>
MCDidLength == [d \in RoeDids |-> 1]

MCDtcOrder == <<"x", "y">>
MCEventsOf == [x |-> {"e1"}, y |-> {"e2", "e3"}]
MCEventStatuses == {{"incompleteCycle"}, {"failedCycle", "confirmed"}}
MCFilterMasks == {{}, {"confirmed"}, {"incompleteCycle"}}

MCCounterEvents ==
  [counted |-> [failed |-> 3, passed |-> -2, up |-> 2, down |-> 1, jumpUp |-> {1}, jumpDown |-> {}]]
MCTimerEvents == [timed |-> [failed |-> 3, passed |-> 2]]

-----------------------------------------------------------------------------
ServicesInit ==
  /\ LevelsInit /\ TransferInit /\ PeriodicInit /\ ControlInit /\ ConfirmInit /\ SecurityInit
  /\ ReadInit /\ PendingInit /\ RoeInit /\ ReadDtcInit /\ DebounceInit
  /\ service \in {"transfer", "periodic", "control", "confirm", "security", "read", "pending",
                  "roe", "dtc", "debounce"}
  /\ service # "periodic" => ~synch

(* The boot sessions matter to the jumps only, and a level besides L1 to    *)
(* the security access only.                                               *)
Ordinary(sessions, reached) == session' \in sessions /\ security' \in reached \cup {Locked}

TransferStep ==
  /\ service = "transfer" /\ TransferNext
  /\ Ordinary({DefaultSession, "EXT"}, {"L1"})
  /\ UNCHANGED <<periodicVars, controlVars, confirmVars, securityVars, readVars,
                pendingVars, roeVars, readDtcVars, debounceVars, service>>
PeriodicStep ==
  /\ service = "periodic" /\ PeriodicNext
  /\ Ordinary({DefaultSession, "EXT"}, {"L1"})
  /\ UNCHANGED <<transferVars, controlVars, confirmVars, securityVars, readVars,
                pendingVars, roeVars, readDtcVars, debounceVars, service>>
ControlStep ==
  /\ service = "control" /\ ControlNext
  /\ Ordinary({DefaultSession, "EXT"}, {"L1"})
  /\ UNCHANGED <<transferVars, periodicVars, confirmVars, securityVars, readVars,
                pendingVars, roeVars, readDtcVars, debounceVars, service>>
ConfirmStep ==
  /\ service = "confirm" /\ ConfirmNext
  /\ Ordinary(DspSessions, {})
  /\ UNCHANGED <<transferVars, periodicVars, controlVars, securityVars, readVars,
                pendingVars, roeVars, readDtcVars, debounceVars, service>>
SecurityStep ==
  /\ service = "security" /\ SecurityNext
  /\ Ordinary({DefaultSession, "EXT"}, DspLevels)
  /\ UNCHANGED <<transferVars, periodicVars, controlVars, confirmVars, readVars,
                pendingVars, roeVars, readDtcVars, debounceVars, service>>
ReadStep ==
  /\ service = "read" /\ ReadNext
  /\ Ordinary({DefaultSession, "EXT"}, {"L1"})
  /\ UNCHANGED <<transferVars, periodicVars, controlVars, confirmVars, securityVars,
                pendingVars, roeVars, readDtcVars, debounceVars, service>>
PendingStep ==
  /\ service = "pending" /\ PendingNext
  /\ Ordinary({DefaultSession, "EXT"}, {"L1"})
  /\ UNCHANGED <<transferVars, periodicVars, controlVars, confirmVars, securityVars,
                readVars, roeVars, readDtcVars, debounceVars, service>>
RoeStep ==
  /\ service = "roe" /\ RoeNext
  /\ UNCHANGED <<levels, transferVars, periodicVars, controlVars, confirmVars,
                securityVars, readVars, pendingVars, readDtcVars, debounceVars, service>>
ReadDtcStep ==
  /\ service = "dtc" /\ ReadDtcNext
  /\ UNCHANGED <<levels, transferVars, periodicVars, controlVars, confirmVars,
                securityVars, readVars, pendingVars, roeVars, debounceVars, service>>
DebounceStep ==
  /\ service = "debounce" /\ DebounceNext
  /\ UNCHANGED <<levels, transferVars, periodicVars, controlVars, confirmVars,
                securityVars, readVars, pendingVars, roeVars, readDtcVars, service>>

ServicesNext ==
  \/ TransferStep \/ PeriodicStep \/ ControlStep \/ ConfirmStep \/ SecurityStep
  \/ ReadStep \/ PendingStep \/ RoeStep \/ ReadDtcStep \/ DebounceStep

ServicesSpec == ServicesInit /\ [][ServicesNext]_vars

(* The state of the service has its type. *)
ServicesTypeOK ==
  /\ service = "transfer" => TransferTypeOK
  /\ service = "periodic" => PeriodicTypeOK
  /\ service = "control" => ControlTypeOK
  /\ service = "confirm" => ConfirmTypeOK
  /\ service = "security" => SecurityTypeOK
  /\ service = "pending" => PendingTypeOK
  /\ service = "roe" => RoeTypeOK
  /\ service = "dtc" => ReadDtcTypeOK
  /\ service = "debounce" => DebounceTypeOK
=============================================================================
