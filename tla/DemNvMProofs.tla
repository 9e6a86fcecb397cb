---------------------------- MODULE DemNvMProofs ----------------------------
(***************************************************************************)
(* What DemNvM promises, for every number of blocks and every assignment   *)
(* of handles to them.  ChangeNotForgotten is not inductive: a flag may be *)
(* taken down because the NvM was asked just before, and the mark may be   *)
(* taken away by a job whose copy is older than the change.  The two       *)
(* facts that make it so are AskedInWindow and CopiedIsFlagged.            *)
(***************************************************************************)
EXTENDS DemNvM, TLAPS

\* Some task or flag still stands for a change of the handle's RAM.
Known(h) == \E b \in BlocksOf(h) : Flagged(status[b]) \/ changing[b] # "no"

\* While the main function takes flags down, the NvM has the mark or the job
\* it asked for, and has not begun it.
AskedInWindow ==
  LET n == nvm[HandleOf[main.block]] IN
  /\ main.phase = "marked" => n.marked /\ n.job = "none"
  /\ main.phase \in {"writing", "writingDirty"} => n.job = "queued"

\* A change made after the NvM copied the block is not covered by the mark.
CopiedIsFlagged ==
  \A h \in Handles : nvm[h].job = "copied" /\ ram[h] # "saved" => Known(h)

IInv ==
  /\ TypeOK
  /\ AskedInWindow
  /\ CopiedIsFlagged
  /\ ChangeNotForgotten
  /\ ImmediateStaysImmediate

\* After Dem_PreInit no flag is up and no change waits.
LEMMA InitIInv == Init => IInv
  BY ConfigAssumption DEF Init, IInv, TypeOK, AskedInWindow, CopiedIsFlagged,
     ChangeNotForgotten, ImmediateStaysImmediate, Blocks, StatusType, States,
     ChangingType, MainType, NvMType, RamType, InitialStatus

\* The loop of Dem_NvM_MainFunction stays on the blocks.
LEMMA NextBlockOK == ASSUME NEW b \in Blocks
                     PROVE  /\ NextBlock(b) \in MainType
                            /\ NextBlock(b).phase = "look"
  <1>1. (b % NBlocks) + 1 \in 1 .. NBlocks
    BY ConfigAssumption, SMTT(30) DEF Blocks
  <1> QED BY <1>1 DEF NextBlock, MainType, Blocks

\* Updates of one field keep a block status in its type.
LEMMA StatusUpdates == ASSUME NEW s \in StatusType, NEW d \in BOOLEAN, NEW t \in States
                       PROVE  /\ [s EXCEPT !.Dirty = d] \in StatusType
                              /\ [s EXCEPT !.PendingWrite = d] \in StatusType
                              /\ [s EXCEPT !.State = t] \in StatusType
                              /\ [s EXCEPT !.Dirty = d, !.State = t] \in StatusType
  BY DEF StatusType

\* The same for the NvM.
LEMMA NvMUpdates == ASSUME NEW n \in NvMType, NEW j \in {"none", "queued", "copied"}
                    PROVE  [n EXCEPT !.job = j] \in NvMType
  BY DEF NvMType

\* Every step of the setters, the main function and the NvM keeps the types.
LEMMA StepTypeOK == ASSUME TypeOK, [Next]_vars PROVE TypeOK'
  <1> USE ConfigAssumption
          DEF TypeOK, StatusType, States, ChangingType, MainType, NvMType, RamType
  <1>1. ASSUME NEW b \in Blocks, NEW kind \in {"lazy", "urgent"}, Change(b, kind)
        PROVE  TypeOK'
    BY <1>1 DEF Change
  <1>2. ASSUME NEW b \in Blocks, Setter(b) PROVE TypeOK'
    <2> HIDE DEF StatusType
    <2>1. CASE SetDirty(b)
      BY <2>1, StatusUpdates DEF SetDirty
    <2>2. CASE SetPendingWrite(b)
      BY <2>2, StatusUpdates DEF SetPendingWrite
    <2> QED BY <1>2, <2>1, <2>2 DEF Setter
  <1>3. ASSUME NEW b \in Blocks, Passes(b) PROVE TypeOK'
    BY <1>3, NextBlockOK DEF Passes, Started
  <1>4. ASSUME NEW b \in Blocks, Done(b) PROVE TypeOK'
    BY <1>4, NextBlockOK DEF Done
  <1>5. ASSUME NEW b \in Blocks, Marks(b) PROVE TypeOK'
    BY <1>5, ZenonT(45) DEF Marks
  <1>6. ASSUME NEW b \in Blocks, MarkedClears(b) PROVE TypeOK'
    <2> DEFINE t == IF status[b].PendingWrite THEN "WRITEBLOCK" ELSE "WAIT_DONE"
               r == [status[b] EXCEPT !.Dirty = FALSE, !.State = t]
    <2>1. status[b] \in StatusType /\ t \in States
      OBVIOUS
    <2>2. r \in StatusType
      BY <2>1, StatusUpdates
    <2>3. status' = [status EXCEPT ![b] = r]
      BY <1>6 DEF MarkedClears
    <2>4. main' = NextBlock(b) /\ UNCHANGED <<changing, nvm, ram>>
      BY <1>6 DEF MarkedClears
    <2> HIDE DEF StatusType, MainType, r
    <2> QED BY <2>2, <2>3, <2>4, NextBlockOK
  <1>7. ASSUME NEW b \in Blocks, Writes(b) PROVE TypeOK'
    BY <1>7, SMTT(30) DEF Writes
  <1>8. ASSUME NEW b \in Blocks, WritingClears(b) PROVE TypeOK'
    BY <1>8, ZenonT(45) DEF WritingClears
  <1>9. ASSUME NEW b \in Blocks, WritingClearsDirty(b) PROVE TypeOK'
    <2> HIDE DEF StatusType, MainType
    <2> QED BY <1>9, NextBlockOK, StatusUpdates DEF WritingClearsDirty
  <1>10. ASSUME NEW h \in Handles, NvM(h) PROVE TypeOK'
    <2>1. CASE NvMCopies(h)
      <3> HIDE DEF NvMType
      <3> QED BY <2>1, NvMUpdates DEF NvMCopies
    <2>2. CASE NvMEnds(h)
      <3>1. PICK m \in {FALSE, nvm[h].marked} :
              nvm' = [nvm EXCEPT ![h] = [job |-> "none", marked |-> m]]
        BY <2>2 DEF NvMEnds
      <3>2. m \in BOOLEAN
        OBVIOUS
      <3>3. [job |-> "none", marked |-> m] \in NvMType
        BY <3>2
      <3> HIDE DEF NvMType
      <3> QED BY <2>2, <3>1, <3>3 DEF NvMEnds
    <2> QED BY <1>10, <2>1, <2>2 DEF NvM
  <1>11. CASE Restart
    BY <1>11 DEF Restart, InitialStatus, Blocks
  <1>12. CASE UNCHANGED vars
    BY <1>12 DEF vars
  <1> QED
    BY <1>1, <1>2, <1>3, <1>4, <1>5, <1>6, <1>7, <1>8, <1>9, <1>10, <1>11, <1>12
       DEF Next, Dem_NvM_MainFunction

\* Every step keeps what the main function may rely on while it clears flags.
LEMMA StepWindow == ASSUME IInv, [Next]_vars PROVE AskedInWindow'
  <1> USE DEF AskedInWindow
  <1>t. TypeOK /\ TypeOK' /\ AskedInWindow
    BY StepTypeOK DEF IInv
  <1> USE <1>t
  <1>1. ASSUME NEW b \in Blocks, NEW kind \in {"lazy", "urgent"}, Change(b, kind)
        PROVE  AskedInWindow'
    BY <1>1 DEF Change
  <1>2. ASSUME NEW b \in Blocks, Setter(b) PROVE AskedInWindow'
    BY <1>2 DEF Setter, SetDirty, SetPendingWrite
  <1>3. ASSUME NEW b \in Blocks, main' = NextBlock(b) PROVE AskedInWindow'
    BY <1>3, NextBlockOK
  <1>4. ASSUME NEW b \in Blocks, Marks(b) PROVE AskedInWindow'
    <2>1. main'.block = b /\ main'.phase = "marked"
      BY <1>4 DEF Marks, TypeOK, MainType
    <2>2. nvm'[HandleOf[b]].marked /\ nvm'[HandleOf[b]].job = "none"
      BY <1>4, ConfigAssumption DEF Marks, Pending, TypeOK, NvMType
    <2> QED BY <2>1, <2>2
  <1>5. ASSUME NEW b \in Blocks, Writes(b) PROVE AskedInWindow'
    <2>1. main'.block = b /\ main'.phase = "writing"
      BY <1>5 DEF Writes, TypeOK, MainType
    <2>2. nvm'[HandleOf[b]].job = "queued"
      BY <1>5, ConfigAssumption DEF Writes, TypeOK, NvMType
    <2> QED BY <2>1, <2>2
  <1>6. ASSUME NEW b \in Blocks, WritingClears(b) PROVE AskedInWindow'
    <2>1. main'.block = main.block /\ main'.phase = "writingDirty"
      BY <1>6 DEF WritingClears, TypeOK, MainType
    <2> QED BY <1>6, <2>1 DEF WritingClears
  <1>7. ASSUME NEW h \in Handles, NvM(h) PROVE AskedInWindow'
    BY <1>7 DEF NvM, NvMCopies, NvMEnds
  <1>8. CASE Restart
    BY <1>8 DEF Restart
  <1>9. CASE UNCHANGED vars
    BY <1>9 DEF vars
  <1> QED
    BY <1>1, <1>2, <1>3, <1>4, <1>5, <1>6, <1>7, <1>8, <1>9
       DEF Next, Dem_NvM_MainFunction, Passes, Done, MarkedClears, WritingClearsDirty

\* Some PendingWrite or setter stands for an urgent change of the handle's RAM.
KnownUrgent(h) ==
  \E b \in BlocksOf(h) :
    status[b].PendingWrite \/ changing[b] \in {"urgent", "urgentDirty"}

\* What the invariants say of one handle.
Safe(h) ==
  /\ nvm[h].job = "copied" /\ ram[h] # "saved" => Known(h)
  /\ ram[h] # "saved" => nvm[h].job = "queued" \/ nvm[h].marked \/ Known(h)
  /\ ram[h] = "urgent" => nvm[h].job = "queued" \/ KnownUrgent(h)

\* Nothing about the handle changes but what only adds to its flags.
LEMMA Kept == ASSUME NEW h \in Handles, Safe(h),
                     nvm'[h] = nvm[h], ram'[h] = ram[h],
                     Known(h) => Known(h)', KnownUrgent(h) => KnownUrgent(h)'
              PROVE  Safe(h)'
  BY DEF Safe

\* Flags that only another handle's block lost are still there.
LEMMA FlagsKept == ASSUME NEW h \in Handles,
                          \A b \in BlocksOf(h) :
                            /\ status'[b].Dirty = status[b].Dirty
                            /\ status'[b].PendingWrite = status[b].PendingWrite
                            /\ changing'[b] = changing[b]
                   PROVE  /\ Known(h) => Known(h)'
                          /\ KnownUrgent(h) => KnownUrgent(h)'
  <1>1. BlocksOf(h)' = BlocksOf(h)
    BY DEF BlocksOf
  <1> QED BY <1>1 DEF Known, KnownUrgent, Flagged

\* Every step keeps every handle safe; one case for each action.
LEMMA StepSafe == ASSUME IInv, [Next]_vars, NEW h \in Handles, Safe(h) PROVE Safe(h)'
  <1>t. /\ status \in [Blocks -> StatusType] /\ changing \in [Blocks -> ChangingType]
        /\ nvm \in [Handles -> NvMType] /\ ram \in [Handles -> RamType]
        /\ main \in MainType /\ HandleOf \in [Blocks -> Handles]
    BY ConfigAssumption DEF IInv, TypeOK
  <1>w. AskedInWindow
    BY DEF IInv
  <1>b. BlocksOf(h) \subseteq Blocks /\ BlocksOf(h)' = BlocksOf(h)
    BY DEF BlocksOf
  <1> USE <1>t
  <1>1. ASSUME NEW b \in Blocks, NEW kind \in {"lazy", "urgent"}, Change(b, kind)
        PROVE  Safe(h)'
    <2>1. Known(h) => Known(h)'
      BY <1>1, <1>b DEF Change, Known, Flagged
    <2>2. KnownUrgent(h) => KnownUrgent(h)'
      BY <1>1, <1>b DEF Change, KnownUrgent
    <2>3. CASE HandleOf[b] = h
      <3>1. b \in BlocksOf(h)' /\ changing'[b] = kind /\ nvm' = nvm
        BY <1>1, <2>3, <1>b DEF Change, BlocksOf
      <3>2. Known(h)'
        BY <3>1 DEF Known
      <3>3. ram'[h] = "urgent" => kind = "urgent" \/ ram[h] = "urgent"
        BY <1>1, <2>3 DEF Change
      <3>4. kind = "urgent" => KnownUrgent(h)'
        BY <3>1 DEF KnownUrgent
      <3> QED BY <3>1, <3>2, <3>3, <3>4, <2>2 DEF Safe
    <2>4. CASE HandleOf[b] # h
      BY <1>1, <2>1, <2>2, <2>4, Kept DEF Change
    <2> QED BY <2>3, <2>4
  <1>2. ASSUME NEW b \in Blocks, SetDirty(b) PROVE Safe(h)'
    <2>1. /\ status'[b].Dirty
          /\ \A c \in Blocks : status'[c].PendingWrite = status[c].PendingWrite
          /\ \A c \in Blocks \ {b} : status'[c] = status[c]
      BY <1>2 DEF SetDirty, StatusType
    <2>2. /\ changing[b] = "urgent" => changing'[b] = "urgentDirty"
          /\ changing[b] # "urgentDirty"
          /\ \A c \in Blocks \ {b} : changing'[c] = changing[c]
      BY <1>2 DEF SetDirty
    <2>3. Known(h) => Known(h)'
      BY <2>1, <2>2, <1>b DEF Known, Flagged
    <2>4. KnownUrgent(h) => KnownUrgent(h)'
      BY <2>1, <2>2, <1>b DEF KnownUrgent
    <2> QED BY <1>2, <2>3, <2>4, Kept DEF SetDirty
  <1>3. ASSUME NEW b \in Blocks, SetPendingWrite(b) PROVE Safe(h)'
    <2>1. /\ status'[b].PendingWrite
          /\ \A c \in Blocks \ {b} : status'[c] = status[c]
      BY <1>3 DEF SetPendingWrite, StatusType
    <2>2. \A c \in Blocks \ {b} : changing'[c] = changing[c]
      BY <1>3 DEF SetPendingWrite
    <2>3. Known(h) => Known(h)'
      BY <2>1, <2>2, <1>b DEF Known, Flagged
    <2>4. KnownUrgent(h) => KnownUrgent(h)'
      BY <2>1, <2>2, <1>b DEF KnownUrgent
    <2> QED BY <1>3, <2>3, <2>4, Kept DEF SetPendingWrite
  <1>4. ASSUME NEW b \in Blocks, Passes(b) \/ Done(b) \/ Marks(b) \/ Writes(b)
        PROVE  Safe(h)'
    <2>1. \A c \in Blocks : /\ status'[c].Dirty = status[c].Dirty
                             /\ status'[c].PendingWrite = status[c].PendingWrite
                             /\ changing'[c] = changing[c]
      BY <1>4 DEF Passes, Done, Marks, Writes, StatusType
    <2>2. (Known(h) => Known(h)') /\ (KnownUrgent(h) => KnownUrgent(h)')
      BY <2>1, <1>b, FlagsKept
    <2>3. ram' = ram
      BY <1>4 DEF Passes, Done, Marks, Writes
    <2>4. \/ nvm'[h] = nvm[h]
          \/ nvm'[h].job = nvm[h].job /\ nvm'[h].marked
          \/ nvm'[h].job = "queued"
      BY <1>4 DEF Passes, Done, Marks, Writes, NvMType
    <2> QED BY <2>2, <2>3, <2>4 DEF Safe
  <1>5. ASSUME NEW b \in Blocks, MarkedClears(b) PROVE Safe(h)'
    <2>1. /\ \A c \in Blocks : /\ status'[c].PendingWrite = status[c].PendingWrite
                                /\ changing'[c] = changing[c]
          /\ \A c \in Blocks \ {b} : status'[c] = status[c]
      BY <1>5 DEF MarkedClears, StatusType
    <2>2. nvm' = nvm /\ ram' = ram
      BY <1>5 DEF MarkedClears
    <2>3. CASE HandleOf[b] = h
      <3>1. nvm[h].marked /\ nvm[h].job = "none"
        BY <1>5, <1>w, <2>3 DEF MarkedClears, AskedInWindow
      <3>2. KnownUrgent(h) => KnownUrgent(h)'
        BY <2>1, <1>b DEF KnownUrgent
      <3> QED BY <2>2, <3>1, <3>2 DEF Safe
    <2>4. CASE HandleOf[b] # h
      <3>1. b \notin BlocksOf(h)
        BY <2>4 DEF BlocksOf
      <3> QED BY <2>1, <2>2, <3>1, <1>b, FlagsKept, Kept
    <2> QED BY <2>3, <2>4
  <1>6. ASSUME NEW b \in Blocks, WritingClears(b) \/ WritingClearsDirty(b) PROVE Safe(h)'
    <2>1. /\ \A c \in Blocks \ {b} : status'[c] = status[c]
          /\ nvm' = nvm /\ ram' = ram /\ changing' = changing
      BY <1>6 DEF WritingClears, WritingClearsDirty
    <2>2. CASE HandleOf[b] = h
      <3>1. nvm[h].job = "queued"
        BY <1>6, <1>w, <2>2 DEF WritingClears, WritingClearsDirty, AskedInWindow
      <3> QED BY <2>1, <3>1 DEF Safe
    <2>3. CASE HandleOf[b] # h
      <3>1. b \notin BlocksOf(h)
        BY <2>3 DEF BlocksOf
      <3> QED BY <2>1, <3>1, <1>b, FlagsKept, Kept
    <2> QED BY <2>2, <2>3
  <1>7. ASSUME NEW g \in Handles, NvM(g) PROVE Safe(h)'
    <2>1. status' = status /\ changing' = changing
      BY <1>7 DEF NvM, NvMCopies, NvMEnds
    <2>2. (Known(h) => Known(h)') /\ (KnownUrgent(h) => KnownUrgent(h)')
      BY <2>1, FlagsKept
    <2>3. CASE g # h
      <3>1. nvm'[h] = nvm[h] /\ ram'[h] = ram[h]
        BY <1>7, <2>3 DEF NvM, NvMCopies, NvMEnds
      <3> QED BY <2>2, <3>1, Kept
    <2>4. CASE g = h /\ NvMCopies(h)
      BY <2>4 DEF NvMCopies, Safe
    <2>5. CASE g = h /\ NvMEnds(h)
      <3>1. nvm[h].job = "copied" /\ nvm'[h].job = "none" /\ ram' = ram
        BY <2>5 DEF NvMEnds
      <3> QED BY <2>2, <3>1 DEF Safe
    <2> QED BY <1>7, <2>3, <2>4, <2>5 DEF NvM
  <1>8. CASE Restart
    BY <1>8 DEF Restart, Safe
  <1>9. CASE UNCHANGED vars
    BY <1>9, FlagsKept, Kept DEF vars
  <1> QED
    BY <1>1, <1>2, <1>3, <1>4, <1>5, <1>6, <1>7, <1>8, <1>9
       DEF Next, Setter, Dem_NvM_MainFunction

\* The flags, the NvM and the RAM agree in every reachable state.
THEOREM Consistency == Spec => []IInv
  <1>1. Init => IInv
    BY InitIInv
  <1>2. IInv /\ [Next]_vars => IInv'
    <2> SUFFICES ASSUME IInv, [Next]_vars PROVE IInv'
      OBVIOUS
    <2>1. \A h \in Handles : Safe(h)
      BY DEF IInv, CopiedIsFlagged, ChangeNotForgotten, ImmediateStaysImmediate,
             Safe, Known, KnownUrgent
    <2>2. \A h \in Handles : Safe(h)'
      BY <2>1, StepSafe
    <2>3. (CopiedIsFlagged /\ ChangeNotForgotten /\ ImmediateStaysImmediate)'
      BY <2>2 DEF CopiedIsFlagged, ChangeNotForgotten, ImmediateStaysImmediate,
                  Safe, Known, KnownUrgent
    <2> QED BY <2>3, StepTypeOK, StepWindow DEF IInv
  <1> QED BY <1>1, <1>2, PTL DEF Spec

\* No change of a memory is ever forgotten between the setters, the main
\* function and the NvM (setNvMBlockChanged, Dem_NvM_MainFunction).
THEOREM NothingForgotten == Spec => []ChangeNotForgotten
  <1>1. IInv => ChangeNotForgotten
    BY DEF IInv
  <1> QED BY <1>1, Consistency, PTL

\* A change with ImmediateStorage has a write asked for, or about to be, until
\* the NvM has copied it (PendingWrite in Dem_NvM_MainFunction).
THEOREM NothingDowngraded == Spec => []ImmediateStaysImmediate
  <1>1. IInv => ImmediateStaysImmediate
    BY DEF IInv
  <1> QED BY <1>1, Consistency, PTL
=============================================================================
