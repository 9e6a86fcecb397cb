------------------------------- MODULE DemNvM -------------------------------
(***************************************************************************)
(* How the DEM gets its memories stored (dem/src/Dem_NvM.c).  The setters  *)
(* Dem_NvM_Set...BlockChanged flag a block whose RAM was changed, from any *)
(* task that reports an event or clears a DTC; Dem_NvM_MainFunction walks  *)
(* over the blocks and passes the flags on to the NvM, with no exclusive   *)
(* area around either of them (Dem_MainFunction enters none).              *)
(*                                                                         *)
(* The NvM is external: it queues one job for a handle, copies the RAM     *)
(* block when it gets to the job and then writes the copy.  It is taken to *)
(* run in the task of Dem_MainFunction or below it, never between two      *)
(* statements of Dem_NvM_MainFunction; it may refuse any call.             *)
(*                                                                         *)
(* Abstracted: what the blocks hold.  A RAM block is "saved", or differs   *)
(* from what the NvM copied by "lazy" or by "urgent" changes.              *)
(***************************************************************************)
EXTENDS Naturals

CONSTANTS
  NBlocks,    \* DEM_NOF_SUPPORTED_NVM_BLOCKS, without those of handle DEM_NO_NVM_BLOCK
  Handles,    \* NvM block handles
  HandleOf,   \* DemNvMBlockConfig: two blocks may have the same handle
  SetRamApi,  \* NVM_SET_RAM_BLOCK_STATUS_API
  Refuses     \* the NvM may return E_NOT_OK

Blocks == 1 .. NBlocks

ASSUME ConfigAssumption ==
  /\ NBlocks \in Nat \ {0}
  /\ HandleOf \in [Blocks -> Handles]
  /\ SetRamApi \in BOOLEAN
  /\ Refuses \in BOOLEAN

VARIABLES
  status,    \* DemNvMBlockStatus
  changing,  \* where a task that changes a block's RAM is: see Change
  main,      \* where Dem_NvM_MainFunction is: [block, phase]
  nvm,       \* the NvM's job for each handle, and its "changed" mark
  ram        \* the RAM block of each handle, against what the NvM copied

vars == <<status, changing, main, nvm, ram>>

\* DemNvMStateType
States == {"IDLE", "SETRAMBLOCKSTATUS", "WRITEBLOCK", "WAIT_DONE"}
\* DemNvMBlockStatusType
StatusType == [State : States, Dirty : BOOLEAN, PendingWrite : BOOLEAN]
ChangingType == {"no", "lazy", "urgent", "urgentDirty"}
MainType ==
  [block : Blocks, phase : {"look", "marked", "writing", "writingDirty"}]
NvMType == [job : {"none", "queued", "copied"}, marked : BOOLEAN]
RamType == {"saved", "lazy", "urgent"}

TypeOK ==
  /\ status \in [Blocks -> StatusType]
  /\ changing \in [Blocks -> ChangingType]
  /\ main \in MainType
  /\ nvm \in [Handles -> NvMType]
  /\ ram \in [Handles -> RamType]

\* Dem_NvM_Init
InitialStatus == [State |-> "IDLE", Dirty |-> FALSE, PendingWrite |-> FALSE]

\* After NvM_ReadAll and Dem_PreInit.
Init ==
  /\ status = [b \in Blocks |-> InitialStatus]
  /\ changing = [b \in Blocks |-> "no"]
  /\ main = [block |-> 1, phase |-> "look"]
  /\ nvm = [h \in Handles |-> [job |-> "none", marked |-> FALSE]]
  /\ ram = [h \in Handles |-> "saved"]

-----------------------------------------------------------------------------
(* The tasks that report events                                            *)

\* A task changes the RAM of a block, on its way to the setter.
Change(b, kind) ==
  /\ changing[b] = "no"
  /\ changing' = [changing EXCEPT ![b] = kind]
  /\ ram' = [ram EXCEPT ![HandleOf[b]] = IF @ = "urgent" THEN @ ELSE kind]
  /\ UNCHANGED <<status, main, nvm>>

\* setNvMBlockChanged, its first assignment
SetDirty(b) ==
  /\ changing[b] \in {"lazy", "urgent"}
  /\ status' = [status EXCEPT ![b].Dirty = TRUE]
  /\ changing' =
       [changing EXCEPT ![b] = IF @ = "urgent" THEN "urgentDirty" ELSE "no"]
  /\ UNCHANGED <<main, nvm, ram>>

\* setNvMBlockChanged with ImmediateStorage, its second assignment
SetPendingWrite(b) ==
  /\ changing[b] = "urgentDirty"
  /\ status' = [status EXCEPT ![b].PendingWrite = TRUE]
  /\ changing' = [changing EXCEPT ![b] = "no"]
  /\ UNCHANGED <<main, nvm, ram>>

-----------------------------------------------------------------------------
(* Dem_NvM_MainFunction                                                    *)

Flagged(s) == s.PendingWrite \/ s.Dirty

\* The state the switch sees.
Started(s) ==
  IF s.State = "IDLE" /\ Flagged(s)
  THEN IF SetRamApi THEN "SETRAMBLOCKSTATUS" ELSE "WRITEBLOCK"
  ELSE s.State

NextBlock(b) == [block |-> (b % NBlocks) + 1, phase |-> "look"]

\* NvM_GetErrorStatus says NVM_REQ_PENDING.
Pending(h) == nvm[h].job # "none"

\* Nothing to do for the block, or the NvM is busy with it or refuses.
Passes(b) ==
  LET s == Started(status[b]) IN
  /\ main = [block |-> b, phase |-> "look"]
  /\ s # "IDLE" => Pending(HandleOf[b]) \/ Refuses
  /\ status' = [status EXCEPT ![b].State = s]
  /\ main' = NextBlock(b)
  /\ UNCHANGED <<changing, nvm, ram>>

\* NvM_SetRamBlockStatus is accepted; the flags are still up.
Marks(b) ==
  /\ main = [block |-> b, phase |-> "look"]
  /\ Started(status[b]) = "SETRAMBLOCKSTATUS"
  /\ ~ Pending(HandleOf[b])
  /\ nvm' = [nvm EXCEPT ![HandleOf[b]].marked = TRUE]
  /\ status' = [status EXCEPT ![b].State = "SETRAMBLOCKSTATUS"]
  /\ main' = [main EXCEPT !.phase = "marked"]
  /\ UNCHANGED <<changing, ram>>

\* Mutant: a mark is taken for the end of the change, PendingWrite or not.
MarkedClearsAll(b) ==
  /\ main = [block |-> b, phase |-> "marked"]
  /\ status' = [status EXCEPT
       ![b].Dirty = FALSE, ![b].PendingWrite = FALSE, ![b].State = "WAIT_DONE"]
  /\ main' = NextBlock(b)
  /\ UNCHANGED <<changing, nvm, ram>>

\* Mutant: a mark is taken for the write that PendingWrite asks for.
MarkedWaits(b) ==
  /\ main = [block |-> b, phase |-> "marked"]
  /\ status' = [status EXCEPT ![b].Dirty = FALSE, ![b].State = "WAIT_DONE"]
  /\ main' = NextBlock(b)
  /\ UNCHANGED <<changing, nvm, ram>>

\* The assignments after it: Dirty is cleared, then PendingWrite is read.
MarkedClears(b) ==
  /\ main = [block |-> b, phase |-> "marked"]
  /\ status' = [status EXCEPT
       ![b].Dirty = FALSE,
       ![b].State = IF status[b].PendingWrite THEN "WRITEBLOCK" ELSE "WAIT_DONE"]
  /\ main' = NextBlock(b)
  /\ UNCHANGED <<changing, nvm, ram>>

\* NvM_WriteBlock is accepted; the flags are still up.
Writes(b) ==
  /\ main = [block |-> b, phase |-> "look"]
  /\ Started(status[b]) = "WRITEBLOCK"
  /\ ~ Pending(HandleOf[b])
  /\ nvm' = [nvm EXCEPT ![HandleOf[b]].job = "queued"]
  /\ status' = [status EXCEPT ![b].State = "WRITEBLOCK"]
  /\ main' = [main EXCEPT !.phase = "writing"]
  /\ UNCHANGED <<changing, ram>>

\* The assignments after it: PendingWrite first ...
WritingClears(b) ==
  /\ main = [block |-> b, phase |-> "writing"]
  /\ status' = [status EXCEPT ![b].PendingWrite = FALSE]
  /\ main' = [main EXCEPT !.phase = "writingDirty"]
  /\ UNCHANGED <<changing, nvm, ram>>

\* ... then Dirty and the state.
WritingClearsDirty(b) ==
  /\ main = [block |-> b, phase |-> "writingDirty"]
  /\ status' = [status EXCEPT ![b].Dirty = FALSE, ![b].State = "WAIT_DONE"]
  /\ main' = NextBlock(b)
  /\ UNCHANGED <<changing, nvm, ram>>

\* Mutant: the flags are taken down when the job is done.
DoneClears(b) ==
  /\ main = [block |-> b, phase |-> "look"]
  /\ status[b].State = "WAIT_DONE"
  /\ ~ Pending(HandleOf[b])
  /\ status' = [status EXCEPT ![b] = InitialStatus]
  /\ main' = NextBlock(b)
  /\ UNCHANGED <<changing, nvm, ram>>

\* The job the block waits for is done, well or not.
Done(b) ==
  /\ main = [block |-> b, phase |-> "look"]
  /\ status[b].State = "WAIT_DONE"
  /\ ~ Pending(HandleOf[b])
  /\ status' = [status EXCEPT ![b].State = "IDLE"]
  /\ main' = NextBlock(b)
  /\ UNCHANGED <<changing, nvm, ram>>

Dem_NvM_MainFunction ==
  \E b \in Blocks :
    \/ Passes(b) \/ Done(b)
    \/ Marks(b) \/ MarkedClears(b)
    \/ Writes(b) \/ WritingClears(b) \/ WritingClearsDirty(b)

-----------------------------------------------------------------------------
(* The NvM, and the end of the power                                       *)

\* NvM_MainFunction starts the job: from here on changes are not in it.
NvMCopies(h) ==
  /\ main.phase = "look"
  /\ nvm[h].job = "queued"
  /\ nvm' = [nvm EXCEPT ![h].job = "copied"]
  /\ ram' = [ram EXCEPT ![h] = "saved"]
  /\ UNCHANGED <<status, changing, main>>

\* The job ends; one that succeeded takes the mark away.
NvMEnds(h) ==
  /\ main.phase = "look"
  /\ nvm[h].job = "copied"
  /\ \E marked \in {FALSE, nvm[h].marked} :
       nvm' = [nvm EXCEPT ![h] = [job |-> "none", marked |-> marked]]
  /\ UNCHANGED <<status, changing, main, ram>>

\* Reset: what was not written is gone, and the RAM is what the NvM reads back.
Restart ==
  /\ status' = [b \in Blocks |-> InitialStatus]
  /\ changing' = [b \in Blocks |-> "no"]
  /\ main' = [block |-> 1, phase |-> "look"]
  /\ nvm' = [h \in Handles |-> [job |-> "none", marked |-> FALSE]]
  /\ ram' = [h \in Handles |-> "saved"]

Setter(b) == SetDirty(b) \/ SetPendingWrite(b)
NvM(h) == NvMCopies(h) \/ NvMEnds(h)

Next ==
  \/ \E b \in Blocks :
       (\E kind \in {"lazy", "urgent"} : Change(b, kind)) \/ Setter(b)
  \/ Dem_NvM_MainFunction
  \/ \E h \in Handles : NvM(h)
  \/ Restart

Spec == Init /\ [][Next]_vars

\* The main function is called periodically, the NvM works and does not refuse
\* the same block for ever (it does so when its queue is full), and a task that
\* changed a block gets to its setter.
LiveSpec ==
  /\ Spec
  /\ WF_vars(Dem_NvM_MainFunction)
  /\ \A b \in Blocks : SF_vars(Marks(b) \/ Writes(b) \/ Done(b))
  /\ \A h \in Handles : WF_vars(NvM(h))
  /\ \A b \in Blocks : WF_vars(Setter(b))

-----------------------------------------------------------------------------
BlocksOf(h) == {b \in Blocks : HandleOf[b] = h}

\* A change in the RAM that the NvM has not copied is known to somebody: the
\* NvM has a job for it still to start or has the block marked for WriteAll,
\* a flag is up, or the task that made the change is on its way to the setter.
\* It is what Dem_NvM_MainFunction may break when it takes a flag down that a
\* setter raised after the NvM was asked.
ChangeNotForgotten ==
  \A h \in Handles :
    ram[h] # "saved" =>
      \/ nvm[h].job = "queued"
      \/ nvm[h].marked
      \/ \E b \in BlocksOf(h) : Flagged(status[b]) \/ changing[b] # "no"

\* A change with ImmediateStorage is never downgraded to one that waits for
\* the next WriteAll: until the NvM has copied it, a job for it is queued or
\* some PendingWrite will ask for one, Dirty alone is not enough.
ImmediateStaysImmediate ==
  \A h \in Handles :
    ram[h] = "urgent" =>
      \/ nvm[h].job = "queued"
      \/ \E b \in BlocksOf(h) :
           \/ status[b].PendingWrite
           \/ changing[b] \in {"urgent", "urgentDirty"}

\* A change with ImmediateStorage is copied by the NvM in the end, or is lost
\* with the power: SETRAMBLOCKSTATUS, WRITEBLOCK and the NvM's queue lose no
\* request on the way.
ImmediateIsStored ==
  \A h \in Handles : (ram[h] = "urgent") ~> (ram[h] # "urgent")

\* Two blocks with the same handle (DEM_NVMBLOCK_PERMANENT and _IUMPR) do not
\* starve each other, however often one of them is changed: a block gives the
\* handle away in the visit that finds its job done.
WriteRequestServed ==
  \A b \in Blocks : status[b].PendingWrite ~> ~ status[b].PendingWrite

=============================================================================
