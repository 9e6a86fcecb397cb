---------------------------- MODULE DcmTransfer -----------------------------
(***************************************************************************)
(* The upload and download services of Dcm_Dsp.c: RequestDownload,         *)
(* RequestUpload, TransferData and RequestTransferExit, with the callouts  *)
(* that may leave a request pending and a tester that repeats what it got  *)
(* no response to.                                                         *)
(*                                                                         *)
(* Addresses count from the start of the transfer, one unit of data each;  *)
(* the tester's n-th unit belongs at address n.  A response may get lost.  *)
(***************************************************************************)
EXTENDS DcmLevels, FiniteSets

CONSTANTS
  CounterModulus,    \* 256: the block sequence counter is a byte
  TransferSizes,     \* sizes a tester asks to transfer
  DownloadBlock,     \* units a tester puts in one block of a download
  UploadBlock,       \* uplMemBlockSize: units in one block of an upload
  MaxUnits,          \* bound: a tester takes no more units in one upload
  TransferResets     \* the application may reset the session

MaxSize == CHOOSE n \in TransferSizes : \A m \in TransferSizes : m <= n

ASSUME TransferAssumption ==
  /\ CounterModulus \in Nat \ {0, 1}
  /\ TransferSizes \subseteq Nat \ {0} /\ TransferSizes # {} /\ IsFiniteSet(TransferSizes)
  /\ DownloadBlock \in Nat \ {0} /\ UploadBlock \in Nat \ {0}
  /\ MaxUnits \in Nat /\ MaxUnits >= MaxSize
  /\ TransferResets \in BOOLEAN

VARIABLES
  transfer,      \* TransferStatus
  ulPending,     \* dspUdsUploadDownloadPending
  ulRequest,     \* the request whose buffers the DSD has handed to the service
  callout,       \* the service whose callout works on (the application's state)
  memory,        \* what a download has written: address -> unit
  tester         \* what the tester knows of the transfer

transferVars == <<transfer, ulPending, ulRequest, callout, memory, tester>>

Services == {"download", "upload", "data", "exit"}
NoRequest == [sid |-> "none"]
Unwritten == MaxSize + 1
Empty == [a \in 0 .. MaxSize |-> Unwritten]

NoTransfer == [type |-> "none", counter |-> 0, first |-> FALSE, next |-> 0, left |-> 0]
DspInitTransfer ==
  [transfer EXCEPT !.type = "none", !.counter = 0, !.first = FALSE]

TransferInit ==
  /\ transfer = NoTransfer
  /\ ulPending = [state |-> "IDLE", service |-> "none"]
  /\ ulRequest = NoRequest /\ callout = "none" /\ memory = Empty
  /\ tester = [phase |-> "none", counter |-> 1, units |-> 0]

Next1(c) == (c + 1) % CounterModulus
Previous(c) == IF c = 0 THEN CounterModulus - 1 ELSE c - 1
Smaller(m, n) == IF m <= n THEN m ELSE n

(* SetOpStatusDependingOnState: a callout is started once. *)
Starts == ulPending.state \notin {"PENDING", "FORCE_RCRRP"}

(* The common end of the four services: pending, a forced pending response *)
(* or DsdDspProcessingDone.                                                *)
StateOf(ret) == CASE ret = "PENDING" -> "PENDING"
                  [] ret = "FORCE_RCRRP" -> "FORCE_RCRRP_AWAITING_SEND"
                  [] OTHER -> "IDLE"
Waits(ret) == ret \in {"PENDING", "FORCE_RCRRP"}
Concludes(r, ret) ==
  /\ ulPending' = [state |-> StateOf(ret),
                   service |-> IF Waits(ret) THEN r.sid ELSE ulPending.service]
  /\ ulRequest' = IF Waits(ret) THEN r ELSE NoRequest
  /\ callout' = IF Waits(ret) THEN r.sid ELSE "none"

Negotiated(type, left) ==
  [type |-> type, counter |-> 1, first |-> FALSE, next |-> 0, left |-> left]
KnowsStart(phase) == [phase |-> phase, counter |-> 1, units |-> 0]

(* The tester hears the response or misses it.  Without an answer to a     *)
(* request of a new transfer it takes none for running.                    *)
TesterHears(ret, after) ==
  IF ret # "OK" THEN tester' = tester
  ELSE \E heard \in BOOLEAN : tester' = IF heard THEN after ELSE [tester EXCEPT !.phase = "none"]

(* DspUdsRequestDownload *)
DspUdsRequestDownload(r) ==
  \E ret \in {"OK", "PENDING", "FORCE_RCRRP", "NOT_OK"} :
    /\ transfer' = IF ret = "OK" THEN Negotiated("download", transfer.left) ELSE transfer
    /\ memory' = IF ret = "OK" THEN Empty ELSE memory
    /\ TesterHears(ret, KnowsStart("download"))
    /\ Concludes(r, ret)

(* DspUdsRequestUpload: the bytes left are noted before the callout        *)
(* answers, whatever it answers.                                           *)
DspUdsRequestUpload(r) ==
  \E ret \in {"OK", "PENDING", "FORCE_RCRRP", "NOT_OK"} :
    /\ transfer' = IF ret = "OK" THEN Negotiated("upload", r.size)
                   ELSE [transfer EXCEPT !.left = r.size]
    /\ TesterHears(ret, KnowsStart("upload"))
    /\ Concludes(r, ret)
    /\ UNCHANGED memory

(* A message too short for an upload request gets no answer at all: the    *)
(* request stays with the service until the DSL gives it up.               *)
ShortUploadRequest ==
  /\ ulRequest = NoRequest
  /\ ulRequest' = [sid |-> "upload", size |-> 0]
  /\ UNCHANGED <<levels, transfer, ulPending, callout, memory, tester>>

(* DspUdsTransferData, the expected block of a download *)
Advanced(units) ==
  [transfer EXCEPT !.counter = Next1(@), !.first = TRUE, !.next = @ + units]
(* Only of a download the tester counts the units. *)
HearsBlock(ret, units) ==
  \E heard \in BOOLEAN :
    tester' = IF ret = "OK" /\ heard
              THEN [tester EXCEPT !.counter = Next1(@), !.units = @ + units] ELSE tester
ReceivesBlock(r) ==
  \E ret \in {"OK", "PENDING", "FORCE_RCRRP", "FAILED"} :
    /\ transfer' = IF ret = "OK" THEN Advanced(r.len) ELSE transfer
    /\ memory' = IF ret # "OK" THEN memory
                 ELSE [a \in DOMAIN memory |->
                        IF a \in transfer.next .. transfer.next + r.len - 1
                        THEN r.first + (a - transfer.next) ELSE memory[a]]
    /\ HearsBlock(ret, r.len)
    /\ Concludes(r, ret)

(* The last block of a download again: answered, and nothing is written. *)
WritesAgain(r) == ReceivesBlock(r)            \* variation: taken for the next one
RepeatsBlock(r) ==
  /\ HearsBlock("OK", r.len)
  /\ Concludes(r, "OK")
  /\ UNCHANGED <<transfer, memory>>

(* The expected block of an upload.  How much to read is only known to the *)
(* call that starts the callout: a read that was pending moves nothing on. *)
UnitsRead == IF Starts THEN Smaller(UploadBlock, transfer.left) ELSE 0
SendsBlock(r) ==
  \E ret \in {"OK", "PENDING", "FAILED"} :
    /\ transfer' = IF ret # "OK" THEN transfer
                   ELSE [Advanced(UnitsRead) EXCEPT !.left = @ - UnitsRead]
    /\ HearsBlock(ret, 0)
    /\ Concludes(r, ret)
    /\ UNCHANGED memory

(* The last block of an upload again: read where the next one starts. *)
SendsAgain(r) ==
  \E ret \in {"OK", "PENDING", "FAILED"} :
    /\ HearsBlock(ret, 0)
    /\ Concludes(r, ret)
    /\ UNCHANGED <<transfer, memory>>

Refuses(r) == Concludes(r, "NOT_OK") /\ UNCHANGED <<transfer, memory, tester>>

Expected(r) == r.counter = transfer.counter
Repeated(r) == ~Expected(r) /\ transfer.first /\ r.counter = Previous(transfer.counter)
DspUdsTransferData(r) ==
  \/ transfer.type = "download" /\ r.len > 0 /\ Expected(r) /\ ReceivesBlock(r)
  \/ transfer.type = "download" /\ r.len > 0 /\ Repeated(r) /\ RepeatsBlock(r)
  \/ transfer.type = "upload" /\ Expected(r) /\ SendsBlock(r)
  \/ transfer.type = "upload" /\ Repeated(r) /\ SendsAgain(r)
  \/ /\ \/ transfer.type = "none"
        \/ transfer.type = "download" /\ r.len = 0
        \/ ~Expected(r) /\ ~Repeated(r)
     /\ Refuses(r)

(* DspUdsRequestTransferExit: only a callout that agrees ends the transfer. *)
DspUdsRequestTransferExit(r) ==
  IF transfer.type = "none" THEN Refuses(r)
  ELSE \E ret \in {"OK", "PENDING", "FORCE_RCRRP", "NOT_OK"} :
         /\ transfer' = IF ret = "OK" THEN [transfer EXCEPT !.type = "none"] ELSE transfer
         /\ TesterHears(ret, [tester EXCEPT !.phase = "none"])
         /\ Concludes(r, ret)
         /\ UNCHANGED memory

DspUploadDownload(r) ==
  \/ r.sid = "download" /\ DspUdsRequestDownload(r)
  \/ r.sid = "upload" /\ DspUdsRequestUpload(r)
  \/ r.sid = "data" /\ DspUdsTransferData(r)
  \/ r.sid = "exit" /\ DspUdsRequestTransferExit(r)

-----------------------------------------------------------------------------
(* What reaches the services.                                               *)

(* The tester's next block, which is the last one until it has an answer;  *)
(* without data left it sends a message too short for a download.          *)
NextBlock ==
  [sid |-> "data", counter |-> tester.counter, first |-> tester.units,
   len |-> IF tester.phase = "upload" THEN 0
           ELSE Smaller(DownloadBlock, MaxSize - tester.units)]
TransferRequests ==
  [sid : {"download", "upload"}, size : TransferSizes] \cup {[sid |-> "exit"]}
    \cup (IF tester.phase = "none" \/ transfer.next + UploadBlock > MaxUnits
          THEN {} ELSE {NextBlock})

TransferRequest ==
  /\ ulRequest = NoRequest
  /\ \E r \in TransferRequests : DspUploadDownload(r)
  /\ UNCHANGED levels

(* DspUploadDownloadMainFunction: what is pending is served again, a        *)
(* forced pending response only in the cycle after it was asked for.        *)
DspUploadDownloadMainFunction ==
  /\ \/ /\ ulPending.state = "FORCE_RCRRP_AWAITING_SEND"
        /\ ulPending' = [ulPending EXCEPT !.state = "FORCE_RCRRP"]
        /\ UNCHANGED <<transfer, ulRequest, callout, memory, tester>>
     \/ /\ ulPending.state \in {"PENDING", "FORCE_RCRRP"}
        /\ DspUploadDownload(ulRequest)
  /\ UNCHANGED levels

(* DspCancelPendingRequests: the DSL gives the request up or another       *)
(* protocol preempts it.                                                   *)
DspCancelPendingUploadDownload ==
  /\ ulRequest # NoRequest
  /\ ulPending' = [ulPending EXCEPT !.state = "IDLE"]
  /\ ulRequest' = NoRequest
  /\ IF ulPending.state = "IDLE" THEN callout' = callout ELSE callout' = "none"
  /\ UNCHANGED <<levels, transfer, memory, tester>>

(* A session change, by a request or, at any time, by the application.     *)
ChangesTransfer(initializes) ==
  IF initializes
  THEN transfer' = DspInitTransfer /\ ulPending' = [ulPending EXCEPT !.state = "IDLE"]
  ELSE UNCHANGED <<transfer, ulPending>>
TransferSessionChange ==
  /\ \/ ulRequest = NoRequest /\ \E s \in DspSessions : ChangesSession(s)
     \/ TransferResets /\ ChangesSession(DefaultSession)
  /\ ChangesTransfer(InitializesDsp)
  /\ UNCHANGED <<ulRequest, callout, memory, tester>>

(* Another protocol preempts this one between two requests. *)
TransferPreempted ==
  /\ ulRequest = NoRequest
  /\ ProtocolTakesOver
  /\ \E initializes \in BOOLEAN : ChangesTransfer(initializes)
  /\ UNCHANGED <<ulRequest, callout, memory, tester>>

TransferNext ==
  \/ TransferRequest
  \/ ShortUploadRequest
  \/ DspUploadDownloadMainFunction
  \/ DspCancelPendingUploadDownload
  \/ TransferSessionChange
  \/ TransferPreempted

TransferSpec == LevelsInit /\ TransferInit /\ [][TransferNext]_<<levels, transferVars>>

-----------------------------------------------------------------------------
TransferTypeOK ==
  /\ LevelsTypeOK
  /\ transfer \in [type : {"none", "download", "upload"}, counter : 0 .. CounterModulus - 1,
                   first : BOOLEAN, next : 0 .. MaxUnits, left : 0 .. MaxSize]
  /\ ulPending \in [state : {"IDLE", "PENDING", "FORCE_RCRRP_AWAITING_SEND", "FORCE_RCRRP"},
                    service : Services \cup {"none"}]
  /\ callout \in Services \cup {"none"}
  /\ memory \in [0 .. MaxSize -> 0 .. Unwritten]

(* What the tester was told is written is in memory, each unit at its own  *)
(* address, whatever was repeated, refused or given up on the way, and     *)
(* however often the byte that counts the blocks has wrapped around.       *)
DownloadComplete ==
  tester.phase = "download" => \A a \in 0 .. tester.units - 1 : memory[a] = a

=============================================================================
