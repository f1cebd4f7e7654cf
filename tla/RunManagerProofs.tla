--------------------------- MODULE RunManagerProofs ---------------------------
(***************************************************************************)
(* The safety properties of RunManager, proved for every set of jobs and   *)
(* every bound: IInv holds initially, every action keeps it, and it        *)
(* implies each property.  One lemma per action; under it one step per     *)
(* conjunct of IInv that reads a variable the action changes, and one for  *)
(* the conjuncts that read none.                                           *)
(***************************************************************************)
EXTENDS RunManagerInvariant, FiniteSetTheorems, TLAPS

\* There are finitely many jobs, so the sets of them that are counted are finite.
LEMMA HoldersFinite == IsFiniteSet(PermitHolders)
<1>1. IsFiniteSet(Jobs)
  BY JobsAssumption, FS_Union DEF Jobs
<1> QED BY <1>1, FS_Subset DEF PermitHolders

\* A step that adds no holder of a permit keeps the bound of the semaphore.
LEMMA HoldersShrink ==
  ASSUME PermitInv, PermitHolders' \subseteq PermitHolders
  PROVE  PermitInv'
<1>1. Cardinality(PermitHolders') <= Cardinality(PermitHolders)
  BY HoldersFinite, FS_Subset
<1>2. Cardinality(PermitHolders) \in Nat /\ Cardinality(PermitHolders') \in Nat
  BY HoldersFinite, FS_Subset, FS_CardinalityType
<1> QED BY <1>1, <1>2, BoundsAssumption DEF PermitInv

\* A freshly started process over an empty database satisfies the invariant.
LEMMA InitEstablishesInv == Init => IInv
<1> USE JobsAssumption, BoundsAssumption DEF Init, Jobs
<1> SUFFICES ASSUME Init PROVE IInv OBVIOUS
<1>1. TypeOK
  <2>1. pc \in [Jobs -> SubmitPc \union TaskPc \union EndedPc] BY DEF SubmitPc
  <2>2. row \in [Jobs -> RowStatus] BY DEF RowStatus
  <2>3. units \in [Jobs -> 0..Units] OBVIOUS
  <2> QED BY <2>1, <2>2, <2>3 DEF TypeOK
<1>2. LockInv /\ RowInv /\ RegistryInv /\ BlameInv /\ WorkerInv
  BY DEF LockInv, RowInv, RegistryInv, BlameInv, WorkerInv, LockPc, TaskPc,
         RunningPc, EndingPc, Busy
<1>3. PermitInv
  <2>1. PermitHolders = {} BY DEF PermitHolders
  <2> QED BY <2>1, FS_EmptySet DEF PermitInv
<1>4. AckInv /\ ShutdownInv /\ DeleteInv
  BY DEF AckInv, ShutdownInv, DeleteInv
<1> QED BY <1>1, <1>2, <1>3, <1>4 DEF IInv

\* Passing the unlocked check changes nothing that anyone relies on.
LEMMA SubmitCheckKeepsInv ==
  ASSUME IInv, NEW j \in Jobs, SubmitCheck(j)
  PROVE  IInv'
<1> USE JobsAssumption, BoundsAssumption
<1> USE DEF SubmitCheck, IInv, Jobs, SubmitPc, RunningPc, EndingPc, TaskPc, EndedPc, LockPc
<1>1. TypeOK'
  BY DEF TypeOK, WorkerInv, Terminal, RowStatus, Busy, Stopped, registryVars, shutdownVars,
         faultVars
<1>2. LockInv'
  BY DEF TypeOK, LockInv, registryVars, shutdownVars, faultVars
<1>3. RowInv'
  BY DEF TypeOK, RowInv, Terminal, registryVars, shutdownVars, faultVars
<1>4. RegistryInv'
  BY DEF TypeOK, RegistryInv, registryVars, shutdownVars, faultVars
<1>5. BlameInv'
  BY DEF TypeOK, BlameInv, registryVars, shutdownVars, faultVars
<1>6. WorkerInv'
  BY DEF TypeOK, WorkerInv, Busy, Stopped, registryVars, shutdownVars, faultVars
<1>7. PermitInv'
  BY HoldersShrink DEF TypeOK, PermitHolders, registryVars, shutdownVars, faultVars
<1>8. AckInv'
  BY DEF TypeOK, AckInv, Terminal, registryVars, shutdownVars, faultVars
<1>9. ShutdownInv'
  BY DEF TypeOK, ShutdownInv, registryVars, shutdownVars, faultVars
<1>10. DeleteInv'
  BY DEF TypeOK, DeleteInv, Terminal, registryVars, shutdownVars, faultVars
<1> QED BY <1>1, <1>2, <1>3, <1>4, <1>5, <1>6, <1>7, <1>8, <1>9, <1>10

\* The critical section of submission is entered only while not closing.
LEMMA SubmitEnterKeepsInv ==
  ASSUME IInv, NEW j \in Jobs, SubmitEnter(j)
  PROVE  IInv'
<1> USE JobsAssumption, BoundsAssumption
<1> USE DEF SubmitEnter, IInv, Jobs, SubmitPc, RunningPc, EndingPc, TaskPc, EndedPc, LockPc
<1>1. TypeOK'
  BY DEF TypeOK, WorkerInv, Terminal, RowStatus, Busy, Stopped, shutdownVars, faultVars
<1>2. LockInv'
  BY DEF TypeOK, LockInv, shutdownVars, faultVars
<1>3. RowInv'
  BY DEF TypeOK, RowInv, Terminal, shutdownVars, faultVars
<1>4. RegistryInv'
  BY DEF TypeOK, RegistryInv, shutdownVars, faultVars
<1>5. BlameInv'
  BY DEF TypeOK, BlameInv, shutdownVars, faultVars
<1>6. WorkerInv'
  BY DEF TypeOK, WorkerInv, Busy, Stopped, shutdownVars, faultVars
<1>7. PermitInv'
  BY HoldersShrink DEF TypeOK, PermitHolders, shutdownVars, faultVars
<1>8. AckInv'
  BY DEF TypeOK, AckInv, Terminal, shutdownVars, faultVars
<1>9. ShutdownInv'
  BY DEF TypeOK, ShutdownInv, shutdownVars, faultVars
<1>10. DeleteInv'
  BY DEF TypeOK, DeleteInv, Terminal, shutdownVars, faultVars
<1> QED BY <1>1, <1>2, <1>3, <1>4, <1>5, <1>6, <1>7, <1>8, <1>9, <1>10

\* The job is registered in the step that lets go of the lock.
LEMMA SubmitResumeKeepsInv ==
  ASSUME IInv, NEW j \in Jobs, SubmitResume(j)
  PROVE  IInv'
<1> USE JobsAssumption, BoundsAssumption
<1> USE DEF SubmitResume, Goto, IInv, Jobs, SubmitPc, RunningPc, EndingPc, TaskPc, EndedPc,
            LockPc
<1>1. TypeOK'
  BY DEF TypeOK, WorkerInv, Terminal, RowStatus, Busy, Stopped, shutdownVars, faultVars
<1>2. LockInv'
  BY DEF TypeOK, LockInv, shutdownVars, faultVars
<1>3. RowInv'
  BY DEF TypeOK, RowInv, Terminal, shutdownVars, faultVars
<1>4. RegistryInv'
  BY DEF TypeOK, RegistryInv, shutdownVars, faultVars
<1>5. BlameInv'
  BY DEF TypeOK, BlameInv, shutdownVars, faultVars
<1>6. WorkerInv'
  BY DEF TypeOK, WorkerInv, Busy, Stopped, shutdownVars, faultVars
<1>7. PermitInv'
  BY HoldersShrink DEF TypeOK, PermitHolders, shutdownVars, faultVars
<1>8. AckInv'
  BY DEF TypeOK, AckInv, Terminal, shutdownVars, faultVars
<1>9. ShutdownInv'
  BY DEF TypeOK, ShutdownInv, shutdownVars, faultVars
<1>10. DeleteInv'
  BY DEF TypeOK, DeleteInv, Terminal, shutdownVars, faultVars
<1> QED BY <1>1, <1>2, <1>3, <1>4, <1>5, <1>6, <1>7, <1>8, <1>9, <1>10

\* A failing create_task keeps the lock while the row is marked failed.
LEMMA ScheduleFailsKeepsInv ==
  ASSUME IInv, NEW j \in Jobs, ScheduleFails(j)
  PROVE  IInv'
<1> USE JobsAssumption, BoundsAssumption
<1> USE DEF ScheduleFails, Goto, IInv, Jobs, SubmitPc, RunningPc, EndingPc, TaskPc, EndedPc,
            LockPc
<1>1. TypeOK'
  BY DEF TypeOK, WorkerInv, Terminal, RowStatus, Busy, Stopped, registryVars, shutdownVars
<1>2. LockInv'
  BY DEF TypeOK, LockInv, registryVars, shutdownVars
<1>3. RowInv'
  BY DEF TypeOK, RowInv, Terminal, registryVars, shutdownVars
<1>4. RegistryInv'
  BY DEF TypeOK, RegistryInv, registryVars, shutdownVars
<1>5. BlameInv'
  BY DEF TypeOK, BlameInv, registryVars, shutdownVars
<1>6. WorkerInv'
  BY DEF TypeOK, WorkerInv, Busy, Stopped, registryVars, shutdownVars
<1>7. PermitInv'
  BY HoldersShrink DEF TypeOK, PermitHolders, registryVars, shutdownVars
<1>8. AckInv'
  BY DEF TypeOK, AckInv, Terminal, registryVars, shutdownVars
<1>9. ShutdownInv'
  BY DEF TypeOK, ShutdownInv, registryVars, shutdownVars
<1>10. DeleteInv'
  BY DEF TypeOK, DeleteInv, Terminal, registryVars, shutdownVars
<1> QED BY <1>1, <1>2, <1>3, <1>4, <1>5, <1>6, <1>7, <1>8, <1>9, <1>10

\* The rejected submission releases the lock with its row already failed.
LEMMA ScheduleFailedResumeKeepsInv ==
  ASSUME IInv, NEW j \in Jobs, ScheduleFailedResume(j)
  PROVE  IInv'
<1> USE JobsAssumption, BoundsAssumption
<1> USE DEF ScheduleFailedResume, Goto, IInv, Jobs, SubmitPc, RunningPc, EndingPc, TaskPc,
            EndedPc, LockPc
<1>1. TypeOK'
  BY DEF TypeOK, WorkerInv, Terminal, RowStatus, Busy, Stopped, shutdownVars, faultVars
<1>2. LockInv'
  BY DEF TypeOK, LockInv, shutdownVars, faultVars
<1>3. RowInv'
  BY DEF TypeOK, RowInv, DeleteInv, BlameInv, LockInv, Terminal, shutdownVars, faultVars
<1>4. RegistryInv'
  BY DEF TypeOK, RegistryInv, shutdownVars, faultVars
<1>5. BlameInv'
  BY DEF TypeOK, BlameInv, shutdownVars, faultVars
<1>6. WorkerInv'
  BY DEF TypeOK, WorkerInv, Busy, Stopped, shutdownVars, faultVars
<1>7. PermitInv'
  BY HoldersShrink DEF TypeOK, PermitHolders, shutdownVars, faultVars
<1>8. AckInv'
  BY DEF TypeOK, AckInv, Terminal, shutdownVars, faultVars
<1>9. ShutdownInv'
  BY DEF TypeOK, ShutdownInv, shutdownVars, faultVars
<1>10. DeleteInv'
  BY DEF TypeOK, DeleteInv, Terminal, shutdownVars, faultVars
<1> QED BY <1>1, <1>2, <1>3, <1>4, <1>5, <1>6, <1>7, <1>8, <1>9, <1>10

\* A committed write moves the row and the program counter together.
LEMMA CommitKeepsInv ==
  ASSUME IInv, NEW j \in Jobs, Commit(j)
  PROVE  IInv'
<1> USE JobsAssumption, BoundsAssumption
<1> USE DEF Commit, IInv, Jobs, SubmitPc, RunningPc, EndingPc, TaskPc, EndedPc, LockPc
<1>1. TypeOK'
  BY DEF TypeOK, WorkerInv, Terminal, RowStatus, Busy, Stopped, Written, AfterCommit,
         registryVars, shutdownVars, faultVars
<1>2. LockInv'
  BY DEF TypeOK, LockInv, Written, AfterCommit, registryVars, shutdownVars, faultVars
<1>3. RowInv'
  BY DEF TypeOK, RowInv, Terminal, Written, AfterCommit, registryVars, shutdownVars,
         faultVars
<1>4. RegistryInv'
  BY DEF TypeOK, RegistryInv, Written, AfterCommit, registryVars, shutdownVars, faultVars
<1>5. BlameInv'
  BY DEF TypeOK, BlameInv, Written, AfterCommit, registryVars, shutdownVars, faultVars
<1>6. WorkerInv'
  BY DEF TypeOK, WorkerInv, Busy, Stopped, Written, AfterCommit, registryVars, shutdownVars,
         faultVars
<1>7. PermitInv'
  BY HoldersShrink DEF TypeOK, PermitHolders, Written, AfterCommit, registryVars,
                       shutdownVars, faultVars
<1>8. AckInv'
  BY DEF TypeOK, AckInv, Terminal, Written, AfterCommit, registryVars, shutdownVars,
         faultVars
<1>9. ShutdownInv'
  BY DEF TypeOK, ShutdownInv, Written, AfterCommit, registryVars, shutdownVars, faultVars
<1>10. DeleteInv'
  BY DEF TypeOK, DeleteInv, Terminal, Written, AfterCommit, registryVars, shutdownVars,
         faultVars
<1> QED BY <1>1, <1>2, <1>3, <1>4, <1>5, <1>6, <1>7, <1>8, <1>9, <1>10

\* A write that raises leaves the row alone and the critical section behind.
LEMMA WriteRaisesKeepsInv ==
  ASSUME IInv, NEW j \in Jobs, WriteRaises(j), faults' \in Nat
  PROVE  IInv'
<1> USE JobsAssumption, BoundsAssumption
<1> USE DEF WriteRaises, Finally, IInv, Jobs, SubmitPc, RunningPc, EndingPc, TaskPc,
            EndedPc, LockPc
<1>1. TypeOK'
  <2>1. /\ pc' \in [Jobs -> SubmitPc \union TaskPc \union EndedPc]
        /\ events' \subseteq Jobs /\ tasks' \subseteq Jobs
    <3>1. CASE pc[j] \in {"createWrite", "schedFailWrite"}
      BY <3>1 DEF TypeOK
    <3>2. CASE pc[j] \in {"runningWrite", "completeWrite"}
      BY <3>2 DEF TypeOK
    <3>3. CASE pc[j] \notin {"createWrite", "schedFailWrite", "runningWrite",
         "completeWrite"}
      BY <3>3 DEF TypeOK
    <3> QED BY <3>1, <3>2, <3>3
  <2>2. lock' \in Jobs \union {NoJob} /\ faulted' \subseteq Jobs
    BY DEF TypeOK
  <2>3. UNCHANGED <<row, dbOpen, worker, units, cancelSet, shutdownVars, del, acked,
                    killed, restarts>>
    OBVIOUS
  <2> QED BY <2>1, <2>2, <2>3 DEF TypeOK, shutdownVars
<1>2. LockInv'
  BY DEF TypeOK, LockInv, Written, shutdownVars
<1>3. RowInv'
  BY DEF TypeOK, RowInv, Terminal, Written, shutdownVars
<1>4. RegistryInv'
  BY DEF TypeOK, RegistryInv, Written, shutdownVars
<1>5. BlameInv'
  BY DEF TypeOK, BlameInv, Written, shutdownVars
<1>6. WorkerInv'
  BY DEF TypeOK, WorkerInv, Busy, Stopped, Written, shutdownVars
<1>7. PermitInv'
  BY HoldersShrink DEF TypeOK, PermitHolders, Written, shutdownVars
<1>8. AckInv'
  BY DEF TypeOK, AckInv, Terminal, Written, shutdownVars
<1>9. ShutdownInv'
  BY DEF TypeOK, ShutdownInv, Written, shutdownVars
<1>10. DeleteInv'
  BY DEF TypeOK, DeleteInv, Terminal, Written, shutdownVars
<1> QED BY <1>1, <1>2, <1>3, <1>4, <1>5, <1>6, <1>7, <1>8, <1>9, <1>10

\* A task that starts is registered already.
LEMMA TaskStartKeepsInv ==
  ASSUME IInv, NEW j \in Jobs, TaskStart(j)
  PROVE  IInv'
<1> USE JobsAssumption, BoundsAssumption
<1> USE DEF TaskStart, Goto, IInv, Jobs, SubmitPc, RunningPc, EndingPc, TaskPc, EndedPc,
            LockPc
<1>1. TypeOK'
  BY DEF TypeOK, WorkerInv, Terminal, RowStatus, Busy, Stopped, registryVars, shutdownVars,
         faultVars
<1>2. LockInv'
  BY DEF TypeOK, LockInv, registryVars, shutdownVars, faultVars
<1>3. RowInv'
  BY DEF TypeOK, RowInv, Terminal, registryVars, shutdownVars, faultVars
<1>4. RegistryInv'
  BY DEF TypeOK, RegistryInv, registryVars, shutdownVars, faultVars
<1>5. BlameInv'
  BY DEF TypeOK, BlameInv, registryVars, shutdownVars, faultVars
<1>6. WorkerInv'
  BY DEF TypeOK, WorkerInv, Busy, Stopped, registryVars, shutdownVars, faultVars
<1>7. PermitInv'
  BY HoldersShrink DEF TypeOK, PermitHolders, registryVars, shutdownVars, faultVars
<1>8. AckInv'
  BY DEF TypeOK, AckInv, Terminal, registryVars, shutdownVars, faultVars
<1>9. ShutdownInv'
  BY DEF TypeOK, ShutdownInv, registryVars, shutdownVars, faultVars
<1>10. DeleteInv'
  BY DEF TypeOK, DeleteInv, Terminal, registryVars, shutdownVars, faultVars
<1> QED BY <1>1, <1>2, <1>3, <1>4, <1>5, <1>6, <1>7, <1>8, <1>9, <1>10

\* The only step that adds a permit holder.
LEMMA AcquirePermitKeepsInv ==
  ASSUME IInv, NEW j \in Jobs, AcquirePermit(j)
  PROVE  IInv'
<1> USE JobsAssumption, BoundsAssumption
<1> USE DEF AcquirePermit, Goto, IInv, Jobs, SubmitPc, RunningPc, EndingPc, TaskPc, EndedPc,
            LockPc
<1>1. TypeOK'
  BY DEF TypeOK, WorkerInv, Terminal, RowStatus, Busy, Stopped, registryVars, shutdownVars,
         faultVars
<1>2. LockInv'
  BY DEF TypeOK, LockInv, registryVars, shutdownVars, faultVars
<1>3. RowInv'
  BY DEF TypeOK, RowInv, Terminal, registryVars, shutdownVars, faultVars
<1>4. RegistryInv'
  BY DEF TypeOK, RegistryInv, registryVars, shutdownVars, faultVars
<1>5. BlameInv'
  BY DEF TypeOK, BlameInv, registryVars, shutdownVars, faultVars
<1>6. WorkerInv'
  BY DEF TypeOK, WorkerInv, Busy, Stopped, registryVars, shutdownVars, faultVars
<1>7. PermitInv'
  <2>1. PermitHolders' = PermitHolders \union {j} /\ j \notin PermitHolders
    BY DEF TypeOK, PermitHolders
  <2>2. Cardinality(PermitHolders') = Cardinality(PermitHolders) + 1
    BY <2>1, HoldersFinite, FS_AddElement
  <2> QED BY <2>2, HoldersFinite, FS_CardinalityType DEF PermitInv
<1>8. AckInv'
  BY DEF TypeOK, AckInv, Terminal, registryVars, shutdownVars, faultVars
<1>9. ShutdownInv'
  BY DEF TypeOK, ShutdownInv, registryVars, shutdownVars, faultVars
<1>10. DeleteInv'
  BY DEF TypeOK, DeleteInv, Terminal, registryVars, shutdownVars, faultVars
<1> QED BY <1>1, <1>2, <1>3, <1>4, <1>5, <1>6, <1>7, <1>8, <1>9, <1>10

\* The permit is given back together with the thread.
LEMMA WorkerOutcomeKeepsInv ==
  ASSUME IInv, NEW j \in Jobs, WorkerOutcome(j)
  PROVE  IInv'
<1> USE JobsAssumption, BoundsAssumption
<1> USE DEF WorkerOutcome, IInv, Jobs, SubmitPc, RunningPc, EndingPc, TaskPc, EndedPc,
            LockPc
<1>1. TypeOK'
  BY DEF TypeOK, WorkerInv, Terminal, RowStatus, Busy, Stopped, registryVars, shutdownVars,
         faultVars
<1>2. LockInv'
  BY DEF TypeOK, LockInv, registryVars, shutdownVars, faultVars
<1>3. RowInv'
  BY DEF TypeOK, RowInv, Terminal, registryVars, shutdownVars, faultVars
<1>4. RegistryInv'
  BY DEF TypeOK, RegistryInv, registryVars, shutdownVars, faultVars
<1>5. BlameInv'
  BY DEF TypeOK, BlameInv, registryVars, shutdownVars, faultVars
<1>6. WorkerInv'
  BY DEF TypeOK, WorkerInv, Busy, Stopped, registryVars, shutdownVars, faultVars
<1>7. PermitInv'
  BY HoldersShrink DEF TypeOK, PermitHolders, registryVars, shutdownVars, faultVars
<1>8. AckInv'
  BY DEF TypeOK, AckInv, Terminal, registryVars, shutdownVars, faultVars
<1>9. ShutdownInv'
  BY DEF TypeOK, ShutdownInv, registryVars, shutdownVars, faultVars
<1>10. DeleteInv'
  BY DEF TypeOK, DeleteInv, Terminal, registryVars, shutdownVars, faultVars
<1> QED BY <1>1, <1>2, <1>3, <1>4, <1>5, <1>6, <1>7, <1>8, <1>9, <1>10

\* The Event is read here, so an acknowledged job turns away.
LEMMA CompleteEnterKeepsInv ==
  ASSUME IInv, NEW j \in Jobs, CompleteEnter(j)
  PROVE  IInv'
<1> USE JobsAssumption, BoundsAssumption
<1> USE DEF CompleteEnter, IInv, Jobs, SubmitPc, RunningPc, EndingPc, TaskPc, EndedPc,
            LockPc
<1>1. TypeOK'
  BY DEF TypeOK, WorkerInv, Terminal, RowStatus, Busy, Stopped, shutdownVars, faultVars
<1>2. LockInv'
  BY DEF TypeOK, LockInv, shutdownVars, faultVars
<1>3. RowInv'
  BY DEF TypeOK, RowInv, Terminal, shutdownVars, faultVars
<1>4. RegistryInv'
  BY DEF TypeOK, RegistryInv, shutdownVars, faultVars
<1>5. BlameInv'
  BY DEF TypeOK, BlameInv, shutdownVars, faultVars
<1>6. WorkerInv'
  BY DEF TypeOK, WorkerInv, Busy, Stopped, shutdownVars, faultVars
<1>7. PermitInv'
  BY HoldersShrink DEF TypeOK, PermitHolders, shutdownVars, faultVars
<1>8. AckInv'
  BY DEF TypeOK, AckInv, Terminal, shutdownVars, faultVars
<1>9. ShutdownInv'
  BY DEF TypeOK, ShutdownInv, shutdownVars, faultVars
<1>10. DeleteInv'
  BY DEF TypeOK, DeleteInv, Terminal, shutdownVars, faultVars
<1> QED BY <1>1, <1>2, <1>3, <1>4, <1>5, <1>6, <1>7, <1>8, <1>9, <1>10

\* The task unregisters itself after its completed row is durable.
LEMMA CompleteResumeKeepsInv ==
  ASSUME IInv, NEW j \in Jobs, CompleteResume(j)
  PROVE  IInv'
<1> USE JobsAssumption, BoundsAssumption
<1> USE DEF CompleteResume, Finally, IInv, Jobs, SubmitPc, RunningPc, EndingPc, TaskPc,
            EndedPc, LockPc
<1>1. TypeOK'
  BY DEF TypeOK, WorkerInv, Terminal, RowStatus, Busy, Stopped, shutdownVars, faultVars
<1>2. LockInv'
  BY DEF TypeOK, LockInv, shutdownVars, faultVars
<1>3. RowInv'
  BY DEF TypeOK, RowInv, Terminal, shutdownVars, faultVars
<1>4. RegistryInv'
  BY DEF TypeOK, RegistryInv, shutdownVars, faultVars
<1>5. BlameInv'
  BY DEF TypeOK, BlameInv, shutdownVars, faultVars
<1>6. WorkerInv'
  BY DEF TypeOK, WorkerInv, Busy, Stopped, shutdownVars, faultVars
<1>7. PermitInv'
  BY HoldersShrink DEF TypeOK, PermitHolders, shutdownVars, faultVars
<1>8. AckInv'
  BY DEF TypeOK, AckInv, Terminal, shutdownVars, faultVars
<1>9. ShutdownInv'
  BY DEF TypeOK, ShutdownInv, shutdownVars, faultVars
<1>10. DeleteInv'
  BY DEF TypeOK, DeleteInv, Terminal, shutdownVars, faultVars
<1> QED BY <1>1, <1>2, <1>3, <1>4, <1>5, <1>6, <1>7, <1>8, <1>9, <1>10

\* The finally block runs after the terminal row is durable.
LEMMA TaskEndKeepsInv ==
  ASSUME IInv, NEW j \in Jobs, TaskEnd(j)
  PROVE  IInv'
<1> USE JobsAssumption, BoundsAssumption
<1> USE DEF TaskEnd, Finally, IInv, Jobs, SubmitPc, RunningPc, EndingPc, TaskPc, EndedPc,
            LockPc
<1>1. TypeOK'
  BY DEF TypeOK, WorkerInv, Terminal, RowStatus, Busy, Stopped, shutdownVars, faultVars
<1>2. LockInv'
  BY DEF TypeOK, LockInv, shutdownVars, faultVars
<1>3. RowInv'
  BY DEF TypeOK, RowInv, Terminal, shutdownVars, faultVars
<1>4. RegistryInv'
  BY DEF TypeOK, RegistryInv, shutdownVars, faultVars
<1>5. BlameInv'
  BY DEF TypeOK, BlameInv, shutdownVars, faultVars
<1>6. WorkerInv'
  BY DEF TypeOK, WorkerInv, Busy, Stopped, shutdownVars, faultVars
<1>7. PermitInv'
  BY HoldersShrink DEF TypeOK, PermitHolders, shutdownVars, faultVars
<1>8. AckInv'
  BY DEF TypeOK, AckInv, Terminal, shutdownVars, faultVars
<1>9. ShutdownInv'
  BY DEF TypeOK, ShutdownInv, shutdownVars, faultVars
<1>10. DeleteInv'
  BY DEF TypeOK, DeleteInv, Terminal, shutdownVars, faultVars
<1> QED BY <1>1, <1>2, <1>3, <1>4, <1>5, <1>6, <1>7, <1>8, <1>9, <1>10

\* A drained task gives up its stopped thread before its terminal write.
LEMMA DrainedKeepsInv ==
  ASSUME IInv, NEW j \in Jobs, Drained(j)
  PROVE  IInv'
<1> USE JobsAssumption, BoundsAssumption
<1> USE DEF Drained, Goto, IInv, Jobs, SubmitPc, RunningPc, EndingPc, TaskPc, EndedPc,
            LockPc
<1>1. TypeOK'
  BY DEF TypeOK, WorkerInv, Terminal, RowStatus, Busy, Stopped, registryVars, shutdownVars,
         faultVars
<1>2. LockInv'
  BY DEF TypeOK, LockInv, registryVars, shutdownVars, faultVars
<1>3. RowInv'
  BY DEF TypeOK, RowInv, Terminal, registryVars, shutdownVars, faultVars
<1>4. RegistryInv'
  BY DEF TypeOK, RegistryInv, registryVars, shutdownVars, faultVars
<1>5. BlameInv'
  BY DEF TypeOK, BlameInv, registryVars, shutdownVars, faultVars
<1>6. WorkerInv'
  BY DEF TypeOK, WorkerInv, Busy, Stopped, registryVars, shutdownVars, faultVars
<1>7. PermitInv'
  BY HoldersShrink DEF TypeOK, PermitHolders, registryVars, shutdownVars, faultVars
<1>8. AckInv'
  BY DEF TypeOK, AckInv, Terminal, registryVars, shutdownVars, faultVars
<1>9. ShutdownInv'
  BY DEF TypeOK, ShutdownInv, registryVars, shutdownVars, faultVars
<1>10. DeleteInv'
  BY DEF TypeOK, DeleteInv, Terminal, registryVars, shutdownVars, faultVars
<1> QED BY <1>1, <1>2, <1>3, <1>4, <1>5, <1>6, <1>7, <1>8, <1>9, <1>10

\* The cancelled task moves to its way out, or ends.
LEMMA TaskCancelledKeepsInv ==
  ASSUME IInv, NEW j \in Jobs, TaskCancelled(j)
  PROVE  IInv'
<1> USE JobsAssumption, BoundsAssumption
<1> USE DEF TaskCancelled, Finally, IInv, Jobs, SubmitPc, RunningPc, EndingPc, TaskPc,
            EndedPc, LockPc
<1>1. TypeOK'
  BY DEF TypeOK, WorkerInv, Terminal, RowStatus, Busy, Stopped, shutdownVars
<1>2. LockInv'
  BY DEF TypeOK, LockInv, shutdownVars
<1>3. RowInv'
  BY DEF TypeOK, RowInv, Terminal, shutdownVars
<1>4. RegistryInv'
  BY DEF TypeOK, RegistryInv, shutdownVars
<1>5. BlameInv'
  BY DEF TypeOK, BlameInv, shutdownVars
<1>6. WorkerInv'
  <2>1. CASE pc[j] = "new"
    BY <2>1 DEF TypeOK, WorkerInv
  <2>2. CASE pc[j] \in RunningPc \ {"new"}
    <3>1. pc' = [pc EXCEPT ![j] = IF pc[j] = "worker" THEN "draining" ELSE "killedWrite"]
      BY <2>2
    <3>2. pc'[j] \in {"draining", "killedWrite"} /\ (pc[j] = "worker" => pc'[j] =
         "draining")
      BY <3>1 DEF TypeOK
    <3>3. \A k \in Jobs \ {j} : pc'[k] = pc[k]
      BY <3>1 DEF TypeOK
    <3> QED BY <2>2, <3>2, <3>3 DEF TypeOK, WorkerInv
  <2>3. CASE pc[j] \in EndingPc
    BY <2>3 DEF TypeOK, WorkerInv, BlameInv
  <2> QED BY <2>1, <2>2, <2>3
<1>7. PermitInv'
  BY HoldersShrink DEF TypeOK, PermitHolders, shutdownVars
<1>8. AckInv'
  BY DEF TypeOK, AckInv, Terminal, shutdownVars
<1>9. ShutdownInv'
  BY DEF TypeOK, ShutdownInv, shutdownVars
<1>10. DeleteInv'
  BY DEF TypeOK, DeleteInv, Terminal, shutdownVars
<1> QED BY <1>1, <1>2, <1>3, <1>4, <1>5, <1>6, <1>7, <1>8, <1>9, <1>10

\* The thread reads its Event and changes nothing but its own state.
LEMMA WorkerCheckKeepsInv ==
  ASSUME IInv, NEW j \in Jobs, WorkerCheck(j)
  PROVE  IInv'
<1> USE JobsAssumption, BoundsAssumption
<1> USE DEF WorkerCheck, Advance, IInv, Jobs, SubmitPc, RunningPc, EndingPc, TaskPc,
            EndedPc, LockPc
<1>1. TypeOK'
  BY DEF TypeOK, WorkerInv, Terminal, RowStatus, Busy, Stopped, registryVars, shutdownVars
<1>2. WorkerInv'
  BY DEF TypeOK, WorkerInv, Busy, Stopped, registryVars, shutdownVars
<1>3. LockInv' /\ RowInv' /\ RegistryInv' /\ BlameInv' /\ PermitInv' /\ AckInv' /\
     ShutdownInv' /\ DeleteInv'
  BY DEF LockInv, RowInv, RegistryInv, BlameInv, PermitInv, AckInv, ShutdownInv, DeleteInv,
         PermitHolders, registryVars, shutdownVars
<1> QED BY <1>1, <1>2, <1>3

\* The thread finishes a unit, or raises.
LEMMA WorkerWorkKeepsInv ==
  ASSUME IInv, NEW j \in Jobs, WorkerWork(j)
  PROVE  IInv'
<1> USE JobsAssumption, BoundsAssumption
<1> USE DEF WorkerWork, Advance, NextUnit, IInv, Jobs, SubmitPc, RunningPc, EndingPc,
            TaskPc, EndedPc, LockPc
<1>1. TypeOK'
  BY DEF TypeOK, WorkerInv, Terminal, RowStatus, Busy, Stopped, registryVars, shutdownVars
<1>2. WorkerInv'
  BY DEF TypeOK, WorkerInv, Busy, Stopped, registryVars, shutdownVars
<1>3. LockInv' /\ RowInv' /\ RegistryInv' /\ BlameInv' /\ PermitInv' /\ AckInv' /\
     ShutdownInv' /\ DeleteInv'
  <2>1. UNCHANGED <<row, dbOpen, pc, registryVars, shutdownVars, del, acked, killed,
                    faulted>>
    BY DEF Advance, NextUnit
  <2> QED BY <2>1 DEF LockInv, RowInv, RegistryInv, BlameInv, PermitInv, AckInv,
                      ShutdownInv, DeleteInv, PermitHolders, registryVars, shutdownVars
<1> QED BY <1>1, <1>2, <1>3

\* A batch's progress write leaves its status alone.
LEMMA WorkerReportKeepsInv ==
  ASSUME IInv, NEW j \in Jobs, WorkerReport(j)
  PROVE  IInv'
<1> USE JobsAssumption, BoundsAssumption
<1> USE DEF WorkerReport, Advance, NextUnit, IInv, Jobs, SubmitPc, RunningPc, EndingPc,
            TaskPc, EndedPc, LockPc
<1>1. TypeOK'
  BY DEF TypeOK, WorkerInv, Terminal, RowStatus, Busy, Stopped, registryVars, shutdownVars
<1>2. RowInv'
  BY DEF TypeOK, RowInv, Terminal, registryVars, shutdownVars
<1>3. BlameInv'
  BY DEF TypeOK, BlameInv, registryVars, shutdownVars
<1>4. WorkerInv'
  BY DEF TypeOK, WorkerInv, Busy, Stopped, registryVars, shutdownVars
<1>5. LockInv' /\ RegistryInv' /\ PermitInv' /\ AckInv' /\ ShutdownInv' /\ DeleteInv'
  BY DEF LockInv, RegistryInv, PermitInv, AckInv, ShutdownInv, DeleteInv, PermitHolders,
         registryVars, shutdownVars
<1> QED BY <1>1, <1>2, <1>3, <1>4, <1>5

\* A failing progress write stops the thread, not the protocol.
LEMMA WorkerReportFaultKeepsInv ==
  ASSUME IInv, NEW j \in Jobs, WorkerReportFault(j)
  PROVE  IInv'
<1> USE JobsAssumption, BoundsAssumption
<1> USE DEF WorkerReportFault, IInv, Jobs, SubmitPc, RunningPc, EndingPc, TaskPc, EndedPc,
            LockPc
<1>1. TypeOK'
  BY DEF TypeOK, WorkerInv, Terminal, RowStatus, Busy, Stopped, registryVars, shutdownVars
<1>2. RowInv'
  BY DEF TypeOK, RowInv, Terminal, registryVars, shutdownVars
<1>3. BlameInv'
  BY DEF TypeOK, BlameInv, registryVars, shutdownVars
<1>4. WorkerInv'
  BY DEF TypeOK, WorkerInv, Busy, Stopped, registryVars, shutdownVars
<1>5. LockInv' /\ RegistryInv' /\ PermitInv' /\ AckInv' /\ ShutdownInv' /\ DeleteInv'
  BY DEF LockInv, RegistryInv, PermitInv, AckInv, ShutdownInv, DeleteInv, PermitHolders,
         registryVars, shutdownVars
<1> QED BY <1>1, <1>2, <1>3, <1>4, <1>5

\* An acknowledgement is given only outside the completion section.
LEMMA CancelKeepsInv ==
  ASSUME IInv, NEW j \in Jobs, Cancel(j)
  PROVE  IInv'
<1> USE JobsAssumption, BoundsAssumption
<1> USE DEF Cancel, IInv, Jobs, SubmitPc, RunningPc, EndingPc, TaskPc, EndedPc, LockPc
<1>1. TypeOK'
  BY DEF TypeOK, WorkerInv, Terminal, RowStatus, Busy, Stopped, jobVars, shutdownVars,
         faultVars
<1>2. AckInv'
  BY DEF TypeOK, LockInv, RowInv, RegistryInv, BlameInv, AckInv, Terminal, jobVars,
         shutdownVars, faultVars
<1>3. LockInv' /\ RowInv' /\ RegistryInv' /\ BlameInv' /\ WorkerInv' /\ PermitInv' /\
     ShutdownInv' /\ DeleteInv'
  BY DEF LockInv, RowInv, RegistryInv, BlameInv, WorkerInv, PermitInv, ShutdownInv,
         DeleteInv, PermitHolders, jobVars, shutdownVars, faultVars
<1> QED BY <1>1, <1>2, <1>3

\* A DELETE begins for a row that exists.
LEMMA DeleteStartKeepsInv ==
  ASSUME IInv, NEW r \in Runs, DeleteStart(r)
  PROVE  IInv'
<1> USE JobsAssumption, BoundsAssumption
<1> USE DEF DeleteStart, IInv, Jobs, SubmitPc, RunningPc, EndingPc, TaskPc, EndedPc, LockPc
<1>1. TypeOK'
  BY DEF TypeOK, WorkerInv, Terminal, RowStatus, Busy, Stopped, jobVars, registryVars,
         shutdownVars, faultVars
<1>2. DeleteInv'
  BY DEF TypeOK, LockInv, RegistryInv, RowInv, DeleteInv, Terminal, jobVars, registryVars,
         shutdownVars, faultVars
<1>3. LockInv' /\ RowInv' /\ RegistryInv' /\ BlameInv' /\ WorkerInv' /\ PermitInv' /\
     AckInv' /\ ShutdownInv'
  BY DEF LockInv, RowInv, RegistryInv, BlameInv, WorkerInv, PermitInv, AckInv, ShutdownInv,
         PermitHolders, jobVars, registryVars, shutdownVars, faultVars
<1> QED BY <1>1, <1>2, <1>3

\* DELETE goes on to its write at once only when no job is registered.
LEMMA DeleteSignalKeepsInv ==
  ASSUME IInv, NEW r \in Runs, DeleteSignal(r)
  PROVE  IInv'
<1> USE JobsAssumption, BoundsAssumption
<1> USE DEF DeleteSignal, IInv, Jobs, SubmitPc, RunningPc, EndingPc, TaskPc, EndedPc, LockPc
<1>1. TypeOK'
  BY DEF TypeOK, WorkerInv, Terminal, RowStatus, Busy, Stopped, jobVars, shutdownVars,
         faultVars
<1>2. AckInv'
  BY DEF TypeOK, LockInv, RowInv, RegistryInv, BlameInv, AckInv, Terminal, jobVars,
         shutdownVars, faultVars
<1>3. DeleteInv'
  BY DEF TypeOK, LockInv, RegistryInv, RowInv, DeleteInv, Terminal, jobVars, shutdownVars,
         faultVars
<1>4. LockInv' /\ RowInv' /\ RegistryInv' /\ BlameInv' /\ WorkerInv' /\ PermitInv' /\
     ShutdownInv'
  BY DEF LockInv, RowInv, RegistryInv, BlameInv, WorkerInv, PermitInv, ShutdownInv,
         PermitHolders, jobVars, shutdownVars, faultVars
<1> QED BY <1>1, <1>2, <1>3, <1>4

\* DELETE goes on to its write when the awaited task is over.
LEMMA DeleteWakeKeepsInv ==
  ASSUME IInv, NEW r \in Runs, DeleteWake(r)
  PROVE  IInv'
<1> USE JobsAssumption, BoundsAssumption
<1> USE DEF DeleteWake, IInv, Jobs, SubmitPc, RunningPc, EndingPc, TaskPc, EndedPc, LockPc
<1>1. TypeOK'
  BY DEF TypeOK, WorkerInv, Terminal, RowStatus, Busy, Stopped, jobVars, registryVars,
         shutdownVars, faultVars
<1>2. DeleteInv'
  BY DEF TypeOK, DeleteInv, Terminal, jobVars, registryVars, shutdownVars, faultVars
<1>3. LockInv' /\ RowInv' /\ RegistryInv' /\ BlameInv' /\ WorkerInv' /\ PermitInv' /\
     AckInv' /\ ShutdownInv'
  BY DEF LockInv, RowInv, RegistryInv, BlameInv, WorkerInv, PermitInv, AckInv, ShutdownInv,
         PermitHolders, jobVars, registryVars, shutdownVars, faultVars
<1> QED BY <1>1, <1>2, <1>3

\* A row is deleted only when nobody will write it again.
LEMMA DeleteCommitKeepsInv ==
  ASSUME IInv, NEW r \in Runs, DeleteCommit(r)
  PROVE  IInv'
<1> USE JobsAssumption, BoundsAssumption
<1> USE DEF DeleteCommit, IInv, Jobs, SubmitPc, RunningPc, EndingPc, TaskPc, EndedPc, LockPc
<1>1. TypeOK'
  BY DEF TypeOK, WorkerInv, Terminal, RowStatus, Busy, Stopped, jobVars, registryVars,
         shutdownVars, faultVars
<1>2. RowInv'
  BY DEF TypeOK, RowInv, DeleteInv, BlameInv, LockInv, Terminal, jobVars, registryVars,
         shutdownVars, faultVars
<1>3. AckInv'
  BY DEF TypeOK, AckInv, Terminal, jobVars, registryVars, shutdownVars, faultVars
<1>4. DeleteInv'
  BY DEF TypeOK, DeleteInv, Terminal, jobVars, registryVars, shutdownVars, faultVars
<1>5. LockInv' /\ RegistryInv' /\ BlameInv' /\ WorkerInv' /\ PermitInv' /\ ShutdownInv'
  BY DEF LockInv, RegistryInv, BlameInv, WorkerInv, PermitInv, ShutdownInv, PermitHolders,
         jobVars, registryVars, shutdownVars, faultVars
<1> QED BY <1>1, <1>2, <1>3, <1>4, <1>5

\* The application begins to shut down.
LEMMA LifespanExitKeepsInv ==
  ASSUME IInv, LifespanExit
  PROVE  IInv'
<1> USE JobsAssumption, BoundsAssumption
<1> USE DEF LifespanExit, IInv, Jobs, SubmitPc, RunningPc, EndingPc, TaskPc, EndedPc, LockPc
<1>1. TypeOK'
  BY DEF TypeOK, WorkerInv, Terminal, RowStatus, Busy, Stopped, jobVars, registryVars,
         faultVars
<1>2. ShutdownInv'
  BY DEF TypeOK, ShutdownInv, jobVars, registryVars, faultVars
<1>3. LockInv' /\ RowInv' /\ RegistryInv' /\ BlameInv' /\ WorkerInv' /\ PermitInv' /\
     AckInv' /\ DeleteInv'
  BY DEF LockInv, RowInv, RegistryInv, BlameInv, WorkerInv, PermitInv, AckInv, DeleteInv,
         PermitHolders, jobVars, registryVars, faultVars
<1> QED BY <1>1, <1>2, <1>3

\* Every task there is at the signal is in the snapshot.
LEMMA ShutdownSignalKeepsInv ==
  ASSUME IInv, ShutdownSignal
  PROVE  IInv'
<1> USE JobsAssumption, BoundsAssumption
<1> USE DEF ShutdownSignal, IInv, Jobs, SubmitPc, RunningPc, EndingPc, TaskPc, EndedPc,
            LockPc
<1>1. TypeOK'
  BY DEF TypeOK, WorkerInv, Terminal, RowStatus, Busy, Stopped, jobVars, faultVars
<1>2. AckInv'
  BY DEF TypeOK, LockInv, RowInv, RegistryInv, BlameInv, AckInv, Terminal, jobVars,
         faultVars
<1>3. ShutdownInv'
  BY DEF TypeOK, LockInv, RegistryInv, ShutdownInv, jobVars, faultVars
<1>4. LockInv' /\ RowInv' /\ RegistryInv' /\ BlameInv' /\ WorkerInv' /\ PermitInv' /\
     DeleteInv'
  BY DEF LockInv, RowInv, RegistryInv, BlameInv, WorkerInv, PermitInv, DeleteInv,
         PermitHolders, jobVars, faultVars
<1> QED BY <1>1, <1>2, <1>3, <1>4

\* Gathering ends when every task of the snapshot has.
LEMMA FinisherGatheredKeepsInv ==
  ASSUME IInv, FinisherGathered
  PROVE  IInv'
<1> USE JobsAssumption, BoundsAssumption
<1> USE DEF FinisherGathered, IInv, Jobs, SubmitPc, RunningPc, EndingPc, TaskPc, EndedPc,
            LockPc
<1>1. TypeOK'
  BY DEF TypeOK, WorkerInv, Terminal, RowStatus, Busy, Stopped, jobVars, registryVars,
         faultVars
<1>2. ShutdownInv'
  BY DEF TypeOK, ShutdownInv, jobVars, registryVars, faultVars
<1>3. LockInv' /\ RowInv' /\ RegistryInv' /\ BlameInv' /\ WorkerInv' /\ PermitInv' /\
     AckInv' /\ DeleteInv'
  BY DEF LockInv, RowInv, RegistryInv, BlameInv, WorkerInv, PermitInv, AckInv, DeleteInv,
         PermitHolders, jobVars, registryVars, faultVars
<1> QED BY <1>1, <1>2, <1>3

\* The manager is closed with no task left.
LEMMA FinisherClosedKeepsInv ==
  ASSUME IInv, FinisherClosed
  PROVE  IInv'
<1> USE JobsAssumption, BoundsAssumption
<1> USE DEF FinisherClosed, IInv, Jobs, SubmitPc, RunningPc, EndingPc, TaskPc, EndedPc,
            LockPc
<1>1. TypeOK'
  BY DEF TypeOK, WorkerInv, Terminal, RowStatus, Busy, Stopped, jobVars, registryVars,
         faultVars
<1>2. ShutdownInv'
  BY DEF TypeOK, ShutdownInv, jobVars, registryVars, faultVars
<1>3. LockInv' /\ RowInv' /\ RegistryInv' /\ BlameInv' /\ WorkerInv' /\ PermitInv' /\
     AckInv' /\ DeleteInv'
  BY DEF LockInv, RowInv, RegistryInv, BlameInv, WorkerInv, PermitInv, AckInv, DeleteInv,
         PermitHolders, jobVars, registryVars, faultVars
<1> QED BY <1>1, <1>2, <1>3

\* The lifespan goes on to close the database after the manager has closed.
LEMMA LifespanWakeKeepsInv ==
  ASSUME IInv, LifespanWake
  PROVE  IInv'
<1> USE JobsAssumption, BoundsAssumption
<1> USE DEF LifespanWake, IInv, Jobs, SubmitPc, RunningPc, EndingPc, TaskPc, EndedPc, LockPc
<1>1. TypeOK'
  BY DEF TypeOK, WorkerInv, Terminal, RowStatus, Busy, Stopped, jobVars, registryVars,
         faultVars
<1>2. ShutdownInv'
  BY DEF TypeOK, ShutdownInv, jobVars, registryVars, faultVars
<1>3. LockInv' /\ RowInv' /\ RegistryInv' /\ BlameInv' /\ WorkerInv' /\ PermitInv' /\
     AckInv' /\ DeleteInv'
  BY DEF LockInv, RowInv, RegistryInv, BlameInv, WorkerInv, PermitInv, AckInv, DeleteInv,
         PermitHolders, jobVars, registryVars, faultVars
<1> QED BY <1>1, <1>2, <1>3

\* An aborted shutdown is remembered before the database is closed.
LEMMA LifespanCancelledKeepsInv ==
  ASSUME IInv, LifespanCancelled
  PROVE  IInv'
<1> USE JobsAssumption, BoundsAssumption
<1> USE DEF LifespanCancelled, IInv, Jobs, SubmitPc, RunningPc, EndingPc, TaskPc, EndedPc,
            LockPc
<1>1. TypeOK'
  BY DEF TypeOK, WorkerInv, Terminal, RowStatus, Busy, Stopped, jobVars, registryVars,
         faultVars
<1>2. ShutdownInv'
  BY DEF TypeOK, ShutdownInv, jobVars, registryVars, faultVars
<1>3. LockInv' /\ RowInv' /\ RegistryInv' /\ BlameInv' /\ WorkerInv' /\ PermitInv' /\
     AckInv' /\ DeleteInv'
  BY DEF LockInv, RowInv, RegistryInv, BlameInv, WorkerInv, PermitInv, AckInv, DeleteInv,
         PermitHolders, jobVars, registryVars, faultVars
<1> QED BY <1>1, <1>2, <1>3

\* The database is closed with every coroutine quiet, or after an abort.
LEMMA CloseDbKeepsInv ==
  ASSUME IInv, CloseDb
  PROVE  IInv'
<1> USE JobsAssumption, BoundsAssumption
<1> USE DEF CloseDb, IInv, Jobs, SubmitPc, RunningPc, EndingPc, TaskPc, EndedPc, LockPc
<1>1. TypeOK'
  BY DEF TypeOK, WorkerInv, Terminal, RowStatus, Busy, Stopped, jobVars, registryVars,
         faultVars
<1>2. ShutdownInv'
  BY DEF TypeOK, ShutdownInv, jobVars, registryVars, faultVars
<1>3. LockInv' /\ RowInv' /\ RegistryInv' /\ BlameInv' /\ WorkerInv' /\ PermitInv' /\
     AckInv' /\ DeleteInv'
  BY DEF LockInv, RowInv, RegistryInv, BlameInv, WorkerInv, PermitInv, AckInv, DeleteInv,
         PermitHolders, jobVars, registryVars, faultVars
<1> QED BY <1>1, <1>2, <1>3

\* A restart forgets every coroutine and keeps every row.
LEMMA RestartKeepsInv ==
  ASSUME IInv, Restart
  PROVE  IInv'
<1> USE JobsAssumption, BoundsAssumption
<1> USE DEF Restart, IInv, Jobs, SubmitPc, RunningPc, EndingPc, TaskPc, EndedPc, LockPc
<1>1. TypeOK'
  <2>1. pc' \in [Jobs -> SubmitPc \union TaskPc \union EndedPc]
    <3>1. \A j \in Jobs : (IF pc[j] = "idle" \/ pc[j] \in EndedPc THEN pc[j] ELSE "lost")
                           \in SubmitPc \union TaskPc \union EndedPc
      BY DEF TypeOK
    <3> QED BY <3>1
  <2>2. del' \in [Runs -> {"idle", "entering", "waiting", "deleteWrite", "done", "error"}]
    <3>1. \A r \in Runs : (IF del[r] \in {"idle", "done"} THEN del[r] ELSE "error")
                           \in {"idle", "entering", "waiting", "deleteWrite", "done",
                                "error"}
      BY DEF TypeOK
    <3> QED BY <3>1
  <2>3. worker' \in [Jobs -> {"none"} \union Busy \union Stopped]
    OBVIOUS
  <2>4. UNCHANGED <<row, units, acked, killed, faulted, faults>> /\ restarts' = restarts + 1
    OBVIOUS
  <2>5. /\ lock' \in Jobs \union {NoJob}
        /\ cancelSet' \subseteq Jobs /\ events' \subseteq Jobs /\ tasks' \subseteq Jobs
        /\ snapshot' \subseteq Jobs
    OBVIOUS
  <2>6. /\ closing' \in BOOLEAN /\ closed' \in BOOLEAN /\ aborted' \in BOOLEAN
        /\ dbOpen' \in BOOLEAN /\ finisher' = "none" /\ lifespan' = "serving"
    OBVIOUS
  <2> QED BY <2>1, <2>2, <2>3, <2>4, <2>5, <2>6 DEF TypeOK
<1>2. LockInv'
  BY DEF TypeOK, LockInv
<1>3. RowInv'
  BY DEF TypeOK, RowInv, Terminal
<1>4. RegistryInv'
  BY DEF TypeOK, RegistryInv
<1>5. BlameInv'
  BY DEF TypeOK, BlameInv
<1>6. WorkerInv'
  BY DEF TypeOK, WorkerInv, Busy, Stopped
<1>7. PermitInv'
  BY HoldersShrink DEF TypeOK, PermitHolders
<1>8. AckInv'
  BY DEF TypeOK, AckInv, Terminal
<1>9. ShutdownInv'
  BY DEF TypeOK, ShutdownInv
<1>10. DeleteInv'
  BY DEF TypeOK, DeleteInv, Terminal
<1> QED BY <1>1, <1>2, <1>3, <1>4, <1>5, <1>6, <1>7, <1>8, <1>9, <1>10

\* Every step of the system, and every stuttering step, keeps the invariant.
LEMMA NextKeepsInv == IInv /\ [Next]_vars => IInv'
<1> SUFFICES ASSUME IInv, [Next]_vars PROVE IInv'
  OBVIOUS
<1>1. ASSUME NEW j \in Jobs, SubmitStep(j) PROVE IInv'
  BY <1>1, SubmitEnterKeepsInv, SubmitResumeKeepsInv, ScheduleFailedResumeKeepsInv
     DEF SubmitStep
<1>2. ASSUME NEW j \in Jobs, WriteStep(j) PROVE IInv'
  <2>1. CASE Commit(j)
    BY <2>1, CommitKeepsInv
  <2>2. CASE WriteRefused(j)
    <3>1. faults' \in Nat BY <2>2 DEF WriteRefused, IInv, TypeOK
    <3> QED BY <2>2, <3>1, WriteRaisesKeepsInv DEF WriteRefused
  <2> QED BY <1>2, <2>1, <2>2 DEF WriteStep
<1>3. ASSUME NEW j \in Jobs, TaskStep(j) PROVE IInv'
  BY <1>3, TaskStartKeepsInv, AcquirePermitKeepsInv, WorkerOutcomeKeepsInv,
     DrainedKeepsInv, CompleteEnterKeepsInv, CompleteResumeKeepsInv, TaskEndKeepsInv
     DEF TaskStep
<1>4. ASSUME NEW j \in Jobs, WorkerStep(j) PROVE IInv'
  BY <1>4, WorkerCheckKeepsInv, WorkerWorkKeepsInv, WorkerReportKeepsInv DEF WorkerStep
<1>5. ASSUME NEW j \in Jobs, FaultStep(j) PROVE IInv'
  <2>1. CASE WriteFault(j)
    <3>1. faults' \in Nat BY <2>1 DEF WriteFault, IInv, TypeOK
    <3> QED BY <2>1, <3>1, WriteRaisesKeepsInv DEF WriteFault
  <2> QED BY <1>5, <2>1, ScheduleFailsKeepsInv, WorkerReportFaultKeepsInv,
             TaskCancelledKeepsInv DEF FaultStep
<1>6. ASSUME NEW r \in Runs, DeleteStep(r) PROVE IInv'
  BY <1>6, DeleteSignalKeepsInv, DeleteWakeKeepsInv, DeleteCommitKeepsInv DEF DeleteStep
<1>7. CASE ShutdownStep
  BY <1>7, ShutdownSignalKeepsInv, FinisherGatheredKeepsInv, FinisherClosedKeepsInv,
     LifespanWakeKeepsInv, CloseDbKeepsInv DEF ShutdownStep
<1>8. CASE ClientStep
  BY <1>8, SubmitCheckKeepsInv, CancelKeepsInv, DeleteStartKeepsInv DEF ClientStep
<1>9. CASE LifespanExit \/ LifespanCancelled \/ Restart
  BY <1>9, LifespanExitKeepsInv, LifespanCancelledKeepsInv, RestartKeepsInv
<1>10. CASE UNCHANGED vars
  BY <1>10 DEF vars, jobVars, registryVars, shutdownVars, faultVars, IInv, TypeOK,
     LockInv, RowInv, RegistryInv, BlameInv, WorkerInv, PermitInv, PermitHolders,
     AckInv, ShutdownInv, DeleteInv
<1> QED
  BY <1>1, <1>2, <1>3, <1>4, <1>5, <1>6, <1>7, <1>8, <1>9, <1>10
     DEF Next, CoroutineStep

\* IInv is an invariant of RunManager for every set of jobs, every number of
\* permits and units, and every bound on faults, cancellations and restarts.
THEOREM InductiveInvariant == Spec => []IInv
<1>1. Init => IInv
  BY InitEstablishesInv
<1>2. IInv /\ [Next]_vars => IInv'
  BY NextKeepsInv
<1> QED BY <1>1, <1>2, PTL DEF Spec

\* The type invariant of every variable of RunManager.
THEOREM TypeCorrect == Spec => []TypeOK
<1>1. IInv => TypeOK
  BY DEF IInv
<1> QED BY <1>1, InductiveInvariant, PTL

\* A signalled job never reads completed, unless the loop cancelled its task.
THEOREM CancelIsHonoured == Spec => []CancelHonoured
<1>1. IInv => CancelHonoured
  BY DEF IInv, AckInv, CancelHonoured
<1> QED BY <1>1, InductiveInvariant, PTL

\* A row that reads pending or running has a registered Event and task.
THEOREM RowsAreOwned == Spec => []RowOwned
<1>1. IInv => RowOwned
  BY DEF IInv, TypeOK, LockInv, RowInv, RegistryInv, BlameInv, RowOwned, SubmitPc,
     RunningPc, EndingPc, TaskPc, EndedPc, LockPc, Terminal
<1> QED BY <1>1, InductiveInvariant, PTL

\* Threads belong to running tasks, and there are never more than max_concurrent.
THEOREM WorkersAreOwned == Spec => []WorkerOwned
<1>1. IInv => WorkerOwned
  <2> SUFFICES ASSUME IInv PROVE WorkerOwned
    OBVIOUS
  <2> DEFINE Threads == {j \in Jobs : worker[j] # "none"}
  <2>1. \A j \in Jobs : worker[j] # "none" =>
          pc[j] \in {"worker", "draining"} /\ row[j] = "running"
    BY DEF IInv, WorkerInv, RowInv
  <2>2. Threads \subseteq PermitHolders
    BY <2>1 DEF PermitHolders
  <2>3. Cardinality(Threads) <= Cardinality(PermitHolders)
    BY <2>2, HoldersFinite, FS_Subset
  <2>4. Cardinality(Threads) \in Nat /\ Cardinality(PermitHolders) \in Nat
    BY <2>2, HoldersFinite, FS_Subset, FS_CardinalityType
  <2>5. Cardinality(Threads) <= MaxConcurrent
    BY <2>3, <2>4, BoundsAssumption DEF IInv, PermitInv
  <2> QED BY <2>1, <2>5 DEF WorkerOwned
<1> QED BY <1>1, InductiveInvariant, PTL

\* The database is closed after the last coroutine has left it.
THEOREM DbClosesLast == Spec => []DbOutlivesJobs
<1>1. IInv => DbOutlivesJobs
  BY DEF IInv, TypeOK, ShutdownInv, DbOutlivesJobs, QuietPc, SubmitPc, TaskPc, EndedPc
<1> QED BY <1>1, InductiveInvariant, PTL

\* An answered deletion leaves neither row nor coroutine behind, for good.
THEOREM DeletionIsFinal == Spec => []DeletedIsOver
<1>1. IInv => DeletedIsOver
  BY DEF IInv, DeleteInv, DeletedIsOver
<1> QED BY <1>1, InductiveInvariant, PTL

\* Only two steps touch a row: a committed write and a committed deletion.
LEMMA RowWriters ==
  ASSUME [Next]_vars
  PROVE  \/ UNCHANGED row
         \/ \E j \in Jobs : Commit(j)
         \/ \E r \in Runs : DeleteCommit(r)
<1>1. ASSUME NEW j \in Jobs, CoroutineStep(j), ~Commit(j) PROVE UNCHANGED row
  <2>1. CASE SubmitStep(j)
    BY <2>1 DEF SubmitStep, SubmitEnter, SubmitResume, ScheduleFailedResume
  <2>2. CASE WriteStep(j)
    BY <1>1, <2>2 DEF WriteStep, WriteRefused, WriteRaises
  <2>3. CASE TaskStep(j)
    BY <2>3 DEF TaskStep, TaskStart, AcquirePermit, WorkerOutcome, Drained,
                CompleteEnter, CompleteResume, TaskEnd
  <2> QED BY <1>1, <2>1, <2>2, <2>3 DEF CoroutineStep
<1>2. ASSUME NEW j \in Jobs, WorkerStep(j) \/ FaultStep(j) PROVE UNCHANGED row
  BY <1>2 DEF WorkerStep, WorkerCheck, WorkerWork, WorkerReport, NextUnit, Advance,
              FaultStep, ScheduleFails, WriteFault, WriteRaises, WorkerReportFault,
              TaskCancelled
<1>3. ASSUME NEW r \in Runs, DeleteStep(r), ~DeleteCommit(r) PROVE UNCHANGED row
  BY <1>3 DEF DeleteStep, DeleteSignal, DeleteWake
<1>4. CASE ShutdownStep \/ ClientStep
  BY <1>4 DEF ShutdownStep, ShutdownSignal, FinisherGathered, FinisherClosed,
              LifespanWake, CloseDb, ClientStep, SubmitCheck, Cancel, DeleteStart
<1>5. CASE LifespanExit \/ LifespanCancelled \/ Restart \/ UNCHANGED vars
  BY <1>5 DEF LifespanExit, LifespanCancelled, Restart, vars
<1> QED BY <1>1, <1>2, <1>3, <1>4, <1>5 DEF Next

\* After shutdown has begun no submission creates a row.
THEOREM ClosingIsFinal == Spec => ClosingRefuses
<1>1. IInv /\ [Next]_vars =>
        \A j \in Jobs : closing /\ row[j] = "absent" => row'[j] = "absent"
  <2> SUFFICES ASSUME IInv, [Next]_vars, NEW j \in Jobs, closing, row[j] = "absent"
               PROVE  row'[j] = "absent"
    OBVIOUS
  <2>1. ASSUME NEW k \in Jobs, Commit(k) PROVE row'[j] = "absent"
    BY <2>1 DEF IInv, TypeOK, ShutdownInv, Commit, SubmitPc
  <2>2. ASSUME NEW r \in Runs, DeleteCommit(r) PROVE row'[j] = "absent"
    BY <2>2 DEF IInv, TypeOK, DeleteCommit
  <2> QED BY <2>1, <2>2, RowWriters
<1> QED BY <1>1, InductiveInvariant, PTL DEF Spec, ClosingRefuses

\* A terminal status is replaced by nothing but a deletion.
THEOREM TerminalIsStable == Spec => TerminalStable
<1>1. IInv /\ [Next]_vars =>
        \A j \in Jobs \ killed' :
          row[j] \in Terminal => row'[j] \in {row[j], "absent"}
  <2> SUFFICES ASSUME IInv, [Next]_vars, NEW j \in Jobs, j \notin killed',
                      row[j] \in Terminal
               PROVE  row'[j] \in {row[j], "absent"}
    OBVIOUS
  <2>1. ASSUME NEW k \in Jobs, Commit(k) PROVE row'[j] = row[j]
    <3>1. killed' = killed
      BY <2>1 DEF Commit, faultVars
    <3>2. pc[j] \notin DOMAIN Written
      BY <3>1 DEF IInv, RowInv, BlameInv, Written, Terminal
    <3> QED BY <2>1, <3>2 DEF Commit, IInv, TypeOK
  <2>2. ASSUME NEW r \in Runs, DeleteCommit(r) PROVE row'[j] \in {row[j], "absent"}
    BY <2>2 DEF DeleteCommit, IInv, TypeOK
  <2> QED BY <2>1, <2>2, RowWriters
<1> QED BY <1>1, InductiveInvariant, PTL DEF Spec, TerminalStable

-----------------------------------------------------------------------------
(* Refinement.  As long as no task is cancelled, no write or scheduling    *)
(* fails and the process lives, the manager implements the client's view   *)
(* of its jobs.                                                            *)

NoDisturbance ==
  MaxFaults = 0 /\ ~TaskCancels /\ MaxRestarts = 0 /\ ~LifespanCancels

Calm ==
  /\ killed = {} /\ faulted = {} /\ restarts = 0
  /\ \A j \in Jobs : pc[j] # "lost"

Undisturbed == Calm /\ faults = 0 /\ ~aborted

\* Then no write is refused either: the database is open and the row is there
\* for as long as a coroutine may write to it.
LEMMA WritesSucceed ==
  ASSUME IInv, Undisturbed, NEW j \in Jobs
  PROVE  /\ pc[j] \in DOMAIN Written => dbOpen
         /\ pc[j] \in DOMAIN Written \ {"createWrite"} => row[j] # "absent"
         /\ worker[j] # "none" => dbOpen /\ row[j] # "absent"
<1>1. ~dbOpen => finisher = "done" /\ closing
  BY DEF IInv, ShutdownInv, Undisturbed
<1>2. ~dbOpen => pc[j] \notin TaskPc \union (SubmitPc \ {"idle", "prepared"})
  BY <1>1 DEF IInv, ShutdownInv
<1> QED
  BY <1>2 DEF IInv, TypeOK, RowInv, WorkerInv, Written, TaskPc, RunningPc, EndingPc,
              SubmitPc

\* Without faults, cancelled tasks, crashes or aborted shutdowns the history
\* variables that excuse a job stay as they were.
LEMMA StaysUndisturbed ==
  ASSUME NoDisturbance, IInv, Undisturbed, [Next]_vars
  PROVE  Undisturbed'
<1> USE DEF NoDisturbance, Undisturbed, Calm
<1>1. ASSUME NEW j \in Jobs, CoroutineStep(j) PROVE Undisturbed'
  <2>1. CASE SubmitStep(j)
    BY <2>1 DEF SubmitStep, SubmitEnter, SubmitResume, ScheduleFailedResume, Goto,
                IInv, TypeOK, shutdownVars, faultVars
  <2>2. CASE Commit(j)
    BY <2>2 DEF Commit, IInv, TypeOK, Written, AfterCommit, shutdownVars, faultVars
  <2>3. CASE WriteRefused(j)
    BY <2>3, WritesSucceed DEF WriteRefused, WriteRaises
  <2>4. CASE TaskStep(j)
    BY <2>4 DEF TaskStep, TaskStart, AcquirePermit, WorkerOutcome, Drained, CompleteEnter,
                CompleteResume, TaskEnd, Finally, Goto, IInv, TypeOK, shutdownVars,
                     faultVars
  <2> QED BY <1>1, <2>1, <2>2, <2>3, <2>4 DEF CoroutineStep, WriteStep
<1>2. ASSUME NEW j \in Jobs, WorkerStep(j) PROVE Undisturbed'
  <2>1. CASE WorkerCheck(j) \/ WorkerWork(j)
    BY <2>1 DEF WorkerCheck, WorkerWork, NextUnit, Advance, shutdownVars
  <2>2. CASE WorkerReport(j)
    BY <2>2, WritesSucceed DEF WorkerReport, NextUnit, Advance, shutdownVars
  <2> QED BY <1>2, <2>1, <2>2 DEF WorkerStep
<1>3. ASSUME NEW j \in Jobs, FaultStep(j) PROVE FALSE
  BY <1>3 DEF FaultStep, ScheduleFails, WriteFault, WorkerReportFault, TaskCancelled
<1>4. ASSUME NEW r \in Runs, DeleteStep(r) PROVE Undisturbed'
  BY <1>4 DEF DeleteStep, DeleteSignal, DeleteWake, DeleteCommit, jobVars, shutdownVars,
              faultVars
<1>5. CASE ShutdownStep
  BY <1>5 DEF ShutdownStep, ShutdownSignal, FinisherGathered, FinisherClosed,
              LifespanWake, CloseDb, jobVars, faultVars
<1>6. CASE ClientStep
  BY <1>6 DEF ClientStep, SubmitCheck, Cancel, DeleteStart, IInv, TypeOK, jobVars,
              shutdownVars, faultVars
<1>7. CASE LifespanExit \/ LifespanCancelled \/ Restart \/ UNCHANGED vars
  BY <1>7 DEF LifespanExit, LifespanCancelled, Restart, vars, jobVars, shutdownVars,
              faultVars
<1> QED BY <1>1, <1>2, <1>3, <1>4, <1>5, <1>6, <1>7 DEF Next

\* The three steps that acknowledge a cancellation do it for jobs whose rows
\* are there and not completed; all other steps leave acknowledgements alone.
LEMMA Acknowledgements ==
  ASSUME IInv, Calm, [Next]_vars
  PROVE  /\ \E jobs \in SUBSET Jobs :
              /\ acked' = acked \union jobs
              /\ \A j \in jobs : row[j] \notin {"absent", "completed"}
         /\ acked' # acked => UNCHANGED row
<1> DEFINE Signals(jobs) ==
             /\ acked' = acked \union jobs
             /\ \A j \in jobs : row[j] \notin {"absent", "completed"}
<1>1. lock = NoJob => \A j \in events : row[j] \notin {"absent", "completed"}
  BY JobsAssumption DEF IInv, TypeOK, LockInv, RegistryInv, RowInv, BlameInv, Calm,
                        TaskPc,
     RunningPc, EndingPc, LockPc
<1>2. CASE acked' = acked
  <2>1. Signals({}) /\ {} \in SUBSET Jobs BY <1>2
  <2>2. \E jobs \in SUBSET Jobs : Signals(jobs) BY <2>1
  <2> QED BY <1>2, <2>2
<1>3. ASSUME NEW j \in Jobs, Cancel(j) PROVE Signals({j}) /\ UNCHANGED row
  BY <1>1, <1>3 DEF Cancel
<1>4. ASSUME NEW r \in Runs, DeleteSignal(r), acked' # acked
      PROVE  Signals({r}) /\ UNCHANGED row
  BY <1>1, <1>4 DEF DeleteSignal
<1>5. CASE ShutdownSignal
  <2>1. Signals(events) /\ UNCHANGED row /\ events \in SUBSET Jobs
    BY <1>1, <1>5 DEF ShutdownSignal, IInv, TypeOK
  <2> QED BY <2>1
<1>6. \/ acked' = acked
      \/ \E j \in Jobs : Cancel(j)
      \/ \E r \in Runs : DeleteSignal(r)
      \/ ShutdownSignal
  <2>1. ASSUME NEW j \in Jobs, CoroutineStep(j) PROVE acked' = acked
    BY <2>1 DEF CoroutineStep, SubmitStep, SubmitEnter, SubmitResume,
                ScheduleFailedResume, WriteStep, Commit, WriteRefused, WriteRaises,
                TaskStep, TaskStart, AcquirePermit, WorkerOutcome, Drained,
                CompleteEnter, CompleteResume, TaskEnd
  <2>2. ASSUME NEW j \in Jobs, WorkerStep(j) \/ FaultStep(j) PROVE acked' = acked
    BY <2>2 DEF WorkerStep, WorkerCheck, WorkerWork, WorkerReport, NextUnit, Advance,
                FaultStep, ScheduleFails, WriteFault, WriteRaises, WorkerReportFault,
                TaskCancelled
  <2>3. ASSUME NEW r \in Runs, DeleteStep(r), ~DeleteSignal(r) PROVE acked' = acked
    BY <2>3 DEF DeleteStep, DeleteWake, DeleteCommit
  <2>4. ASSUME ShutdownStep, ~ShutdownSignal PROVE acked' = acked
    BY <2>4 DEF ShutdownStep, FinisherGathered, FinisherClosed, LifespanWake, CloseDb
  <2>5. ASSUME ClientStep, \A j \in Jobs : ~Cancel(j) PROVE acked' = acked
    BY <2>5 DEF ClientStep, SubmitCheck, DeleteStart
  <2>6. CASE LifespanExit \/ LifespanCancelled \/ Restart \/ UNCHANGED vars
    BY <2>6 DEF LifespanExit, LifespanCancelled, Restart, vars
  <2> QED BY <2>1, <2>2, <2>3, <2>4, <2>5, <2>6 DEF Next
<1>7. \A r \in Runs : r \in Jobs
  BY DEF Jobs
<1> QED
  <2>1. ASSUME NEW j \in Jobs, Cancel(j)
        PROVE  \E jobs \in SUBSET Jobs : Signals(jobs)
    <3>1. {j} \in SUBSET Jobs OBVIOUS
    <3> QED BY <1>3, <2>1, <3>1
  <2>2. ASSUME NEW r \in Runs, DeleteSignal(r), acked' # acked
        PROVE  \E jobs \in SUBSET Jobs : Signals(jobs)
    <3>1. {r} \in SUBSET Jobs BY <1>7
    <3> QED BY <1>4, <2>2, <3>1
  <2> QED BY <1>2, <1>3, <1>4, <1>5, <1>6, <2>1, <2>2

\* A calm step is a step of the client's view of the jobs, or invisible to it.
LEMMA CalmStep ==
  ASSUME IInv, IInv', Calm, [Next]_vars
  PROVE  [Lifecycle!Next]_(Lifecycle!lifecycleVars)
<1> SUFFICES Lifecycle!Next \/ UNCHANGED <<row, acked>>
  BY DEF Lifecycle!lifecycleVars
<1>1. ASSUME NEW j \in Jobs, Commit(j)
      PROVE  Lifecycle!Accept(j) \/ Lifecycle!Progress(j)
  <2>1. pc[j] \in {"createWrite", "runningWrite", "completeWrite", "cancelWrite",
                   "failWrite"}
    <3>1. j \notin killed /\ j \notin faulted BY DEF Calm
    <3> QED BY <1>1, <3>1 DEF Commit, Written, IInv, BlameInv
  <2>2. acked' = acked BY <1>1 DEF Commit
  <2>3. CASE pc[j] = "createWrite"
    BY <1>1, <2>2, <2>3 DEF Commit, Written, IInv, RowInv, Lifecycle!Accept
  <2>4. CASE pc[j] = "runningWrite"
    BY <1>1, <2>2, <2>4 DEF Commit, Written, IInv, RowInv, Lifecycle!Progress,
       Lifecycle!Start
  <2>5. CASE pc[j] = "completeWrite"
    <3>1. j \notin acked BY <2>5 DEF IInv, AckInv, Calm
    <3>2. Lifecycle!Finish(j, "completed")
      BY <1>1, <2>2, <2>5, <3>1 DEF Commit, Written, IInv, RowInv, Lifecycle!Finish
    <3> QED BY <3>2 DEF Lifecycle!Progress, Lifecycle!Ended
  <2>6. CASE pc[j] = "cancelWrite"
    <3>1. Lifecycle!Finish(j, "cancelled")
      BY <1>1, <2>2, <2>6 DEF Commit, Written, IInv, RowInv, Lifecycle!Finish
    <3> QED BY <3>1 DEF Lifecycle!Progress, Lifecycle!Ended
  <2>7. CASE pc[j] = "failWrite"
    <3>1. Lifecycle!Finish(j, "failed")
      BY <1>1, <2>2, <2>7 DEF Commit, Written, IInv, RowInv, Calm, Lifecycle!Finish
    <3> QED BY <3>1 DEF Lifecycle!Progress, Lifecycle!Ended
  <2> QED BY <2>1, <2>3, <2>4, <2>5, <2>6, <2>7
<1>2. ASSUME NEW r \in Runs, DeleteCommit(r)
      PROVE  Lifecycle!Remove(r) \/ UNCHANGED <<row, acked>>
  <2>1. r \in Jobs BY DEF Jobs
  <2>2. row[r] \in Terminal \union {"absent"}
    <3>1. pc[r] \in EndedPc BY <1>2 DEF DeleteCommit, IInv, DeleteInv
    <3>2. pc[r] \in {"done", "rejected"}
      BY <2>1, <3>1 DEF IInv, BlameInv, Calm, EndedPc
    <3> QED BY <2>1, <3>2 DEF IInv, RowInv, Calm
  <2> QED BY <1>2, <2>1, <2>2 DEF DeleteCommit, IInv, TypeOK, Terminal,
                                  Lifecycle!Remove, Lifecycle!Ended
<1>3. CASE UNCHANGED row /\ acked' # acked
  <2>1. \E jobs \in SUBSET Jobs : Lifecycle!Promise(jobs)
    BY <1>3, Acknowledgements DEF Lifecycle!Promise
  <2> QED BY <2>1 DEF Lifecycle!Next
<1>4. CASE \E j \in Jobs : Commit(j)
  BY <1>1, <1>4 DEF Lifecycle!Next
<1>5. CASE \E r \in Runs : DeleteCommit(r)
  BY <1>2, <1>5 DEF Lifecycle!Next, Jobs
<1> QED BY <1>3, <1>4, <1>5, RowWriters

\* What disturbs a job is never forgotten: a calm state has only calm states
\* behind it.
LEMMA DisturbanceLasts ==
  ASSUME IInv, [Next]_vars
  PROVE  /\ killed \subseteq killed' /\ faulted \subseteq faulted'
         /\ restarts' \in {restarts, restarts + 1}
         /\ restarts' = 0 => \A j \in Jobs : pc'[j] = "lost" => pc[j] = "lost"
<1>1. ASSUME NEW j \in Jobs, CoroutineStep(j) \/ WorkerStep(j) \/ FaultStep(j)
      PROVE  /\ killed \subseteq killed' /\ faulted \subseteq faulted' /\ restarts' = restarts
             /\ \A k \in Jobs : pc'[k] = "lost" => pc[k] = "lost"
  <2>1. CASE SubmitStep(j)
    BY <2>1 DEF SubmitStep, SubmitEnter, SubmitResume, ScheduleFailedResume, Goto,
                IInv, TypeOK, shutdownVars, faultVars
  <2>2. CASE Commit(j)
    BY <2>2 DEF Commit, IInv, TypeOK, Written, AfterCommit, shutdownVars, faultVars
  <2>3. CASE WriteRefused(j)
    BY <2>3 DEF WriteRefused, WriteRaises, Goto, Finally, IInv, TypeOK, shutdownVars, faultVars
  <2>4. CASE TaskStep(j)
    BY <2>4 DEF TaskStep, TaskStart, AcquirePermit, WorkerOutcome, Drained, CompleteEnter,
                CompleteResume, TaskEnd, Finally, Goto, IInv, TypeOK, shutdownVars,
                faultVars
  <2>5. CASE WorkerStep(j)
    BY <2>5 DEF WorkerStep, WorkerCheck, WorkerWork, WorkerReport, NextUnit, Advance,
                shutdownVars, faultVars
  <2>6. CASE FaultStep(j)
    BY <2>6 DEF FaultStep, ScheduleFails, WriteFault, WriteRaises, WorkerReportFault,
                TaskCancelled, Goto, Finally, IInv, TypeOK, shutdownVars, faultVars
  <2> QED BY <1>1, <2>1, <2>2, <2>3, <2>4, <2>5, <2>6 DEF CoroutineStep, WriteStep
<1>2. ASSUME NEW r \in Runs, DeleteStep(r)
      PROVE  UNCHANGED <<killed, faulted, restarts, pc>>
  BY <1>2 DEF DeleteStep, DeleteSignal, DeleteWake, DeleteCommit, jobVars, shutdownVars,
              faultVars
<1>3. CASE ShutdownStep
  BY <1>3 DEF ShutdownStep, ShutdownSignal, FinisherGathered, FinisherClosed,
              LifespanWake, CloseDb, jobVars, faultVars
<1>4. CASE ClientStep
  BY <1>4 DEF ClientStep, SubmitCheck, Cancel, DeleteStart, IInv, TypeOK, jobVars,
              shutdownVars, faultVars
<1>5. CASE Restart
  BY <1>5 DEF Restart, IInv, TypeOK
<1>6. CASE LifespanExit \/ LifespanCancelled \/ UNCHANGED vars
  BY <1>6 DEF LifespanExit, LifespanCancelled, vars, jobVars, shutdownVars, faultVars
<1> QED BY <1>1, <1>2, <1>3, <1>4, <1>5, <1>6 DEF Next

\* LifecycleStep for any number of jobs: until something disturbs a job, the
\* manager moves as the client's view allows, also while the lifespan is
\* cancelled and writes are refused (all of RunManager).
THEOREM MovesAsLifecycle == Spec => LifecycleStep
<1> DEFINE NotLost == restarts = 0 => \A j \in Jobs : pc[j] # "lost"
<1>1. Init => NotLost
  BY DEF Init
<1>2. IInv /\ NotLost /\ [Next]_vars => NotLost'
  BY DisturbanceLasts DEF IInv, TypeOK
<1>3. IInv /\ IInv' /\ NotLost /\ [Next]_vars =>
        [killed' = {} /\ faulted' = {} /\ restarts' = 0
           => [Lifecycle!Next]_(Lifecycle!lifecycleVars)]_vars
  <2> SUFFICES ASSUME IInv, IInv', NotLost, [Next]_vars,
                      killed' = {} /\ faulted' = {} /\ restarts' = 0
               PROVE  [Lifecycle!Next]_(Lifecycle!lifecycleVars)
    OBVIOUS
  <2>1. killed = {} /\ faulted = {} /\ restarts = 0
    BY DisturbanceLasts DEF IInv, TypeOK
  <2>2. Calm
    BY <2>1 DEF Calm
  <2> QED BY <2>2, CalmStep
<1> QED BY <1>1, <1>2, <1>3, InductiveInvariant, PTL DEF Spec, LifecycleStep

\* Where nothing can disturb a job, every step is a step of the client's view,
\* or invisible to it: the safety half of the refinement.
THEOREM ImplementsLifecycle ==
  ASSUME NoDisturbance
  PROVE  Spec => Lifecycle!Init /\ [][Lifecycle!Next]_(Lifecycle!lifecycleVars)
<1>1. Init => Undisturbed /\ Lifecycle!Init
  BY DEF Init, Undisturbed, Calm, Lifecycle!Init
<1>2. IInv /\ Undisturbed /\ [Next]_vars => Undisturbed'
  BY StaysUndisturbed
<1>3. IInv /\ IInv' /\ Undisturbed /\ [Next]_vars =>
        [Lifecycle!Next]_(Lifecycle!lifecycleVars)
  BY CalmStep DEF Undisturbed
<1> QED BY <1>1, <1>2, <1>3, InductiveInvariant, PTL DEF Spec
=============================================================================
