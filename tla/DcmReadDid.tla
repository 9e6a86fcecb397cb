----------------------------- MODULE DcmReadDid -----------------------------
(***************************************************************************)
(* ReadDataByIdentifier (0x22) of Dcm_Dsp.c and Dcm_Internal.c: a request  *)
(* names identifiers, each with signals of its own and with references to  *)
(* others.  The callouts of a signal may leave the request pending, with   *)
(* part of the response written; the main function goes on from there.     *)
(***************************************************************************)
EXTENDS DcmLevels, SequencesExt

CONSTANTS
  DidSignals,    \* the signals of each identifier: the sequence of their ports
  DidRefs,       \* DspDidRef of each identifier
  DidReadRow,    \* DspDidRead of each identifier
  ReadRequests   \* the sequences of identifiers a tester asks for

KnownDids == DOMAIN DidSignals
Ports == {"synch", "asynch", "block", "ecu"}

(* An identifier that is referenced has no references itself (a bound on   *)
(* the depth of the recursion).                                            *)
ASSUME ReadAssumption ==
  /\ DidSignals \in [KnownDids -> Seq(Ports)]
  /\ DidRefs \in [KnownDids -> Seq({d \in KnownDids : DidRefs[d] = <<>>})]
  /\ \A dids \in ReadRequests : dids \in Seq(Range(dids))

VARIABLES
  reading,     \* the request in service and dspUdsReadDidPending
  readWork,    \* the callouts and NvM reads at work
  readMisled,  \* kinds of callouts told to go on though they were not at work
  readAnswer   \* the last positive response

readVars == <<reading, readWork, readMisled, readAnswer>>

NoReading == [state |-> "NONE"]
NoAnswer == [dids |-> <<>>, data |-> <<>>]
ReadInit ==
  reading = NoReading /\ readWork = {} /\ readMisled = {} /\ readAnswer = NoAnswer

-----------------------------------------------------------------------------
(* The order of reading: readDidData visits an identifier, then those it   *)
(* refers to; getDidData goes through the signals.                         *)
Nodes(d) == <<d>> \o DidRefs[d]
NodesOf(dids) ==
  UNION {{[did |-> i, node |-> j] : j \in DOMAIN Nodes(dids[i])}
           : i \in {n \in DOMAIN dids : dids[n] \in KnownDids}}
DidOf(dids, u) == Nodes(dids[u.did])[u.node]
UnitsOf(dids) ==
  UNION {{[did |-> n.did, node |-> n.node, signal |-> k] : k \in DOMAIN DidSignals[DidOf(dids, n)]}
           : n \in NodesOf(dids)}
NodeBefore(u, v) == u.did < v.did \/ (u.did = v.did /\ u.node < v.node)
SameNode(u, v) == u.did = v.did /\ u.node = v.node
Before(u, v) == NodeBefore(u, v) \/ (SameNode(u, v) /\ u.signal < v.signal)
(* The n-th of the signals is the one that n - 1 of them come before. *)
Earlier(units, u) == Cardinality({v \in units : Before(v, u)})
InOrder(units) ==
  [n \in 1 .. Cardinality(units) |-> CHOOSE u \in units : Earlier(units, u) = n - 1]
Order == [dids \in ReadRequests |-> InOrder(UnitsOf(dids))]
AllNodes == [dids \in ReadRequests |-> NodesOf(dids)]

(* A request goes on at the n-th of its signals.  Every identifier that is *)
(* visited is checked again on every call, from the requested one on.      *)
Unit(r, n) == Order[r.dids][n]
Port(r, n) == DidSignals[DidOf(r.dids, Unit(r, n))][Unit(r, n).signal]
Asynch(r, n) == Port(r, n) = "asynch"
Ahead(r) == r.at .. Len(Order[r.dids])
Visited(r) == {n \in AllNodes[r.dids] : Ahead(r) # {} => n.did >= Unit(r, r.at).did}
Readable(r, n) == Allows(DidReadRow[DidOf(r.dids, n)], session, security)
Reachable(r, n) == \A v \in Visited(r) : ~NodeBefore(Unit(r, n), v) => Readable(r, v)

(* opStatus: the call for a pending signal goes on; so does, by mistake,   *)
(* the next condition check of the same identifier.  Concluding the check  *)
(* of an asynchronous signal sets it back.                                 *)
Resumed(r, n) == r.state # "IDLE" /\ n = r.at
CheckConcluded(r, n) ==
  \E m \in r.at .. n - 1 : Asynch(r, m) /\ ~(Resumed(r, m) /\ r.state = "READ")
StatusOfCheck(r, n) ==
  IF r.state # "IDLE" /\ SameNode(Unit(r, n), Unit(r, r.at)) /\ ~CheckConcluded(r, n)
  THEN "PENDING" ELSE "INITIAL"
StatusOfRead(r, n) == IF Resumed(r, n) /\ r.state = "READ" THEN "PENDING" ELSE "INITIAL"
MisledBy(r, last) ==
  {"check" : n \in {m \in r.at .. last : /\ Asynch(r, m) /\ ~Resumed(r, m)
                                         /\ StatusOfCheck(r, m) = "PENDING"}}
    \cup {"read" : n \in {m \in r.at .. last : /\ Asynch(r, m) /\ ~(Resumed(r, m) /\ r.state = "READ")
                                                /\ StatusOfRead(r, m) = "PENDING"}}

-----------------------------------------------------------------------------
WorkOf(r, n, kind) ==
  [did |-> DidOf(r.dids, Unit(r, n)), signal |-> Unit(r, n).signal, kind |-> kind]
EndedBy(r) == IF r.state = "IDLE" THEN {} ELSE {WorkOf(r, r.at, r.state)}
ReadTo(r, n) == r.data \o SubSeq(Order[r.dids], r.at, n)

(* The identifiers read before the pending one are counted (nofReadDids),  *)
(* and so are the bytes of the response.                                   *)
ForgetsRead(r, n) ==                          \* variation: nofReadDids is not kept
  CHOOSE m \in 1 .. n : /\ Unit(r, m).did = Unit(r, n).did
                        /\ m > 1 => Unit(r, m - 1).did # Unit(r, n).did
PendingAt(r, n) == n
StaysAt(r, n, kind) ==
  /\ reading' = [r EXCEPT !.at = PendingAt(r, n), !.state = kind, !.data = ReadTo(r, n - 1)]
  /\ readWork' = (readWork \ EndedBy(r)) \cup {WorkOf(r, n, kind)}
  /\ readMisled' = readMisled \cup MisledBy(r, n)
  /\ UNCHANGED readAnswer

Answered(r) ==
  /\ \A n \in Visited(r) : Readable(r, n)
  /\ Ahead(r) # {}
  /\ reading' = NoReading /\ readWork' = readWork \ EndedBy(r)
  /\ readMisled' = readMisled \cup MisledBy(r, Len(Order[r.dids]))
  /\ readAnswer' = [dids |-> r.dids, data |-> ReadTo(r, Len(Order[r.dids]))]

(* Refused by a callout, or before any is called: the one that worked on   *)
(* is not called then.                                                     *)
ReadRefused(r) ==
  /\ reading' = NoReading
  /\ readWork' = IF Ahead(r) # {} /\ Reachable(r, r.at) THEN readWork \ EndedBy(r) ELSE readWork
  /\ UNCHANGED <<readMisled, readAnswer>>

(* DspUdsReadDataByIdentifier *)
Pends(r, n, kind) ==
  \/ Asynch(r, n) /\ (Resumed(r, n) /\ r.state = "READ" => kind = "READ")
  \/ /\ Port(r, n) = "block" /\ kind = "READ"
     /\ Resumed(r, n) \/ WorkOf(r, n, kind) \notin readWork
DspUdsReadDataByIdentifier(r) ==
  \/ Answered(r)
  \/ ReadRefused(r)
  \/ \E n \in Ahead(r), kind \in {"CHECK", "READ"} :
       Reachable(r, n) /\ Pends(r, n, kind) /\ StaysAt(r, n, kind)

ReadRequested ==
  /\ reading = NoReading
  /\ \E dids \in ReadRequests :
       DspUdsReadDataByIdentifier([dids |-> dids, at |-> 1, state |-> "IDLE", data |-> <<>>])
  /\ UNCHANGED levels
DspReadDidMainFunction ==
  /\ reading # NoReading /\ DspUdsReadDataByIdentifier(reading) /\ UNCHANGED levels

(* DspCancelPendingDid: the callout is told to end; a read of NvM goes on. *)
Cancelled(r) == IF Asynch(r, r.at) THEN EndedBy(r) ELSE {}
DspCancelPendingDid ==
  /\ reading # NoReading /\ reading' = NoReading
  /\ readWork' = readWork \ Cancelled(reading)
  /\ UNCHANGED <<levels, readMisled, readAnswer>>

NvMReadEnds ==
  /\ reading = NoReading
  /\ \E w \in readWork : DidSignals[w.did][w.signal] = "block" /\ readWork' = readWork \ {w}
  /\ UNCHANGED <<levels, reading, readMisled, readAnswer>>

(* The session, or the protocol, changes; a pending read goes on with the  *)
(* levels it finds then.                                                   *)
ReadLevelsChange ==
  /\ \/ \E s \in (IF reading = NoReading THEN DspSessions ELSE {DefaultSession}) : ChangesSession(s)
     \/ ProtocolTakesOver
     \/ reading = NoReading /\ \E l \in DspLevels : DslInternal_SetSecurityLevel(l)
  /\ UNCHANGED readVars

ReadNext ==
  ReadRequested \/ DspReadDidMainFunction \/ DspCancelPendingDid \/ NvMReadEnds \/ ReadLevelsChange

ReadSpec == LevelsInit /\ ReadInit /\ [][ReadNext]_<<levels, readVars>>

-----------------------------------------------------------------------------
(* A callout at work for an identifier that may be read always, whatever   *)
(* request names it and whatever is visited with it, is the one the        *)
(* pending request waits for.                                              *)
AlwaysReadable(d) ==
  \A e \in KnownDids :
    d \in Range(Nodes(e)) => \A f \in Range(Nodes(e)) : DidReadRow[f] = Everywhere
WorkIsPending ==
  \A w \in readWork :
    DidSignals[w.did][w.signal] = "asynch" /\ AlwaysReadable(w.did) =>
      /\ reading # NoReading /\ w = WorkOf(reading, reading.at, reading.state)

(* A request that had to wait, however often, goes on where it was: its    *)
(* response has every signal of every identifier asked for, each once and  *)
(* in its place, no read callout is told to go on with what it was not     *)
(* told to start, and none is started twice.                               *)
ReadGoesOn ==
  /\ readAnswer # NoAnswer => readAnswer.data = Order[readAnswer.dids]
  /\ "read" \notin readMisled
  /\ WorkIsPending
=============================================================================
