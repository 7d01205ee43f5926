------------------------ MODULE FileLeaseLockProofs -------------------------
(***************************************************************************)
(* Proofs about FileLeaseLock, for any number of processes, hosts and PIDs:*)
(* the inductive invariant LockInv, and that the lock is exclusive as long *)
(* as no recovery took away a file it had not examined.                    *)
(***************************************************************************)
EXTENDS FileLeaseLock, TLAPS

LEMMA InitTypeOK == Init => TypeOK
  BY DEF Init, TypeOK, File, Step

LEMMA NextTypeOK == TypeOK /\ [Next]_vars => TypeOK'
  <1> SUFFICES ASSUME TypeOK, [Next]_vars PROVE TypeOK'
    OBVIOUS
  <1> USE DEF TypeOK, File, Goto
  <1>1. CASE UNCHANGED vars
    BY <1>1 DEF vars, files
  <1>2. ASSUME NEW p \in Proc, Expire(p) \/ Launch(p) \/ Die(p)
        PROVE  TypeOK'
    BY <1>2 DEF Expire, Launch, Die, files, Step, Acquiring
  <1>3. ASSUME NEW p \in Proc, Create(p) \/ Write(p) \/ PublishFirst(p)
        PROVE  TypeOK'
    BY <1>3 DEF Create, Write, FileOpened, PublishFirst, Step, Acquiring,
                Recovering, Holding
  <1>4. ASSUME NEW p \in Proc, Rollback(p) \/ RollbackUnlink(p)
        PROVE  TypeOK'
    BY <1>4 DEF Rollback, RollbackUnlink, RemoveLock, Lost, Step, Acquiring
  <1>5. ASSUME NEW p \in Proc, Read(p) \/ JudgeAge(p) \/ Probe(p) \/ Verify(p)
        PROVE  TypeOK'
    BY <1>5 DEF Read, JudgeAge, Probe, Verify, files, Step, Recovering
  <1>6. ASSUME NEW p \in Proc, Rename(p) \/ Restore(p) \/ CleanUp(p)
        PROVE  TypeOK'
    BY <1>6 DEF Rename, Restore, CleanUp, TryAgain, Lost, Step, Recovering,
                Acquiring
  <1>7. ASSUME NEW p \in Proc,
               CheckOwner(p) \/ PublishHeartbeat(p) \/ ConfirmOwner(p) \/ Finish(p)
        PROVE  TypeOK'
    BY <1>7 DEF CheckOwner, PublishHeartbeat, ConfirmOwner, Finish, files, Step,
                Holding, Releasing
  <1>8. ASSUME NEW p \in Proc, Release(p) \/ Unlink(p) \/ RemoveHeartbeat(p)
        PROVE  TypeOK'
    BY <1>8 DEF Release, AfterOwnerCheck, Unlink, RemoveLock, RetryRelease, Lost,
                RemoveHeartbeat, files, Step, Releasing
  <1> QED
    BY <1>1, <1>2, <1>3, <1>4, <1>5, <1>6, <1>7, <1>8
       DEF Next, AcquireStep, RecoveryStep, LeaseStep

-----------------------------------------------------------------------------
(***************************************************************************)
(* The shape of a step: one process moves, and none comes back to life.    *)
(***************************************************************************)
LEMMA OneProcessMoves ==
  ASSUME TypeOK, [Next]_vars
  PROVE  \/ UNCHANGED pc
         \/ \E p \in Proc :
              /\ pc[p] # "dead"
              /\ \E step \in Step \ {"unborn"} : pc' = [pc EXCEPT ![p] = step]
  <1> USE DEF TypeOK, Goto
  <1>1. CASE UNCHANGED vars
    BY <1>1 DEF vars
  <1>2. ASSUME NEW p \in Proc, Expire(p) PROVE UNCHANGED pc
    BY <1>2 DEF Expire
  <1>3. ASSUME NEW p \in Proc, Launch(p) \/ Die(p)
        PROVE  pc[p] # "dead" /\ \E step \in Step \ {"unborn"} :
                 pc' = [pc EXCEPT ![p] = step]
    BY <1>3 DEF Launch, Die, Alive, Step, Acquiring
  <1>4. ASSUME NEW p \in Proc, AcquireStep(p)
        PROVE  pc[p] # "dead" /\ \E step \in Step \ {"unborn"} :
                 pc' = [pc EXCEPT ![p] = step]
    BY <1>4 DEF AcquireStep, Create, Write, PublishFirst, Rollback,
                RollbackUnlink, Step, Acquiring, Recovering, Holding
  <1>5. ASSUME NEW p \in Proc, RecoveryStep(p)
        PROVE  pc[p] # "dead" /\ \E step \in Step \ {"unborn"} :
                 pc' = [pc EXCEPT ![p] = step]
    BY <1>5 DEF RecoveryStep, Read, JudgeAge, Probe, Rename, Verify, Restore,
                CleanUp, TryAgain, Step, Acquiring, Recovering
  <1>6. ASSUME NEW p \in Proc, LeaseStep(p)
        PROVE  pc[p] # "dead" /\ \E step \in Step \ {"unborn"} :
                 pc' = [pc EXCEPT ![p] = step]
    BY <1>6 DEF LeaseStep, CheckOwner, PublishHeartbeat, ConfirmOwner, Finish,
                Release, AfterOwnerCheck, Unlink, RetryRelease, RemoveHeartbeat,
                Step, Holding, Releasing
  <1> QED
    BY <1>1, <1>2, <1>3, <1>4, <1>5, <1>6 DEF Next

LEMMA DeathIsFinal ==
  ASSUME TypeOK, [Next]_vars, NEW q \in Proc
  PROVE  /\ pc[q] = "dead" => pc'[q] = "dead"
         /\ pc[q] # "unborn" => pc'[q] # "unborn"
  BY OneProcessMoves DEF TypeOK

(* A file enters "written", and a lock file is examined, as the code says. *)
LEMMA ExaminedStep ==
  ASSUME TypeOK, LockInv, [Next]_vars
  PROVE  ExaminedFilesAreComplete'
  <1> USE DEF TypeOK, Goto, LockInv, ExaminedFilesAreComplete
  <1>1. \A f \in written' : pc'[f] # "unborn"
    <2>1. \A f \in written' : f \in written \/ (f \in Proc /\ pc[f] = "write")
      BY DEF Next, vars, files, Expire, Launch, Die, AcquireStep, RecoveryStep,
         LeaseStep, Create, Write, FileOpened, PublishFirst, Rollback,
         RollbackUnlink, Read, JudgeAge, Probe, Rename, Verify, Restore,
         CleanUp, CheckOwner, PublishHeartbeat, ConfirmOwner, Finish, Release,
         Unlink, RemoveHeartbeat
    <2> QED
      BY <2>1, DeathIsFinal
  <1>2. written \subseteq written'
    BY DEF Next, vars, files, Expire, Launch, Die, AcquireStep, RecoveryStep,
       LeaseStep, Create, Write, PublishFirst, Rollback, RollbackUnlink,
       Read, JudgeAge, Probe, Rename, Verify, Restore, CleanUp, CheckOwner,
       PublishHeartbeat, ConfirmOwner, Finish, Release, Unlink,
       RemoveHeartbeat
  <1> DEFINE Examining == {"age", "probe", "rename", "verify", "clean"}
  <1>3. ASSUME NEW p \in Proc, pc'[p] \in Examining
        PROVE  /\ seen'[p] \in written
               /\ pc'[p] = "probe" => HostOf[seen'[p]] = HostOf[p]
    <2>1. CASE UNCHANGED vars
      BY <1>3, <2>1 DEF vars
    <2>2. ASSUME NEW q \in Proc, q # p,
                 \/ Expire(q) \/ Launch(q) \/ Die(q)
                 \/ AcquireStep(q) \/ RecoveryStep(q) \/ LeaseStep(q)
          PROVE  pc'[p] = pc[p] /\ seen'[p] = seen[p]
      BY <2>2 DEF files, Expire, Launch, Die, AcquireStep, RecoveryStep,
         LeaseStep, Create, Write, PublishFirst, Rollback, RollbackUnlink,
         Read, JudgeAge, Probe, Rename, TryAgain, Verify, Restore, CleanUp,
         CheckOwner, PublishHeartbeat, ConfirmOwner, Finish, Release,
         AfterOwnerCheck, Unlink, RetryRelease, RemoveHeartbeat
    <2>3. CASE Expire(p)
      BY <1>3, <2>3 DEF Expire
    <2>4. ~(Launch(p) \/ Die(p) \/ AcquireStep(p) \/ LeaseStep(p))
      BY <1>3 DEF Launch, Die, AcquireStep, LeaseStep, Create, Write,
         PublishFirst, Rollback, RollbackUnlink, CheckOwner, PublishHeartbeat,
         ConfirmOwner, Finish, Release, AfterOwnerCheck, Unlink, RetryRelease,
         RemoveHeartbeat
    <2>5. CASE RecoveryStep(p)
      BY <1>3, <2>5 DEF RecoveryStep, Read, JudgeAge, MayBeStale, Probe, Rename,
         TryAgain, Verify, Restore, CleanUp
    <2> QED
      BY <1>3, <2>1, <2>2, <2>3, <2>4, <2>5 DEF Next
  <1> QED
    BY <1>1, <1>2, <1>3

(* The owner judged dead by the probe is dead, and stays so.               *)
LEMMA RecoveryStepInv ==
  ASSUME TypeOK, LockInv, [Next]_vars
  PROVE  RecoveredOwnersAreDead' /\ CleanedFileWasExamined'
  <1> USE DEF TypeOK, Goto, LockInv, RecoveredOwnersAreDead,
              CleanedFileWasExamined
  <1> SUFFICES ASSUME NEW p \in Proc, pc'[p] \in {"rename", "verify", "clean"}
               PROVE  /\ pc'[seen'[p]] = "dead"
                      /\ pc'[p] = "clean" => quarantine'[p] = seen'[p]
    OBVIOUS
  <1>1. CASE UNCHANGED vars
    BY <1>1 DEF vars, files
  <1>2. \A f \in written : f \in Proc
    OBVIOUS
  <1>3. ASSUME NEW q \in Proc, q # p,
               \/ Expire(q) \/ Launch(q) \/ Die(q)
               \/ AcquireStep(q) \/ RecoveryStep(q) \/ LeaseStep(q)
        PROVE  /\ pc'[p] = pc[p]
               /\ seen'[p] = seen[p]
               /\ quarantine'[p] = quarantine[p]
    BY <1>3 DEF files, Expire, Launch, Die, AcquireStep, RecoveryStep,
       LeaseStep, Create, Write, PublishFirst, Rollback, RollbackUnlink,
       Read, JudgeAge, Probe, Rename, TryAgain, Verify, Restore, CleanUp,
       CheckOwner, PublishHeartbeat, ConfirmOwner, Finish, Release,
       AfterOwnerCheck, Unlink, RetryRelease, RemoveHeartbeat
  <1>4. ~(Launch(p) \/ Die(p) \/ AcquireStep(p) \/ LeaseStep(p))
    BY DEF Launch, Die, AcquireStep, LeaseStep, Create, Write, PublishFirst,
       Rollback, RollbackUnlink, CheckOwner, PublishHeartbeat, ConfirmOwner,
       Finish, Release, AfterOwnerCheck, Unlink, RetryRelease, RemoveHeartbeat
  <1>5. CASE pc[p] = "probe" /\ Probe(p)
    <2>1. /\ seen'[p] = seen[p] /\ seen[p] \in Proc
          /\ HostOf[seen[p]] = HostOf[p] /\ pc[seen[p]] # "unborn"
      BY <1>5, <1>2 DEF ExaminedFilesAreComplete, Probe
    <2>2. ~Alive(seen[p])
      BY <1>5, <2>1 DEF Probe, PidInUse, IdentityOutcomes
    <2>3. pc[seen[p]] = "dead"
      BY <2>1, <2>2 DEF Alive
    <2> QED
      BY <1>5, <2>1, <2>3, DeathIsFinal DEF Probe
  <1>6. ASSUME pc[p] \in {"rename", "verify", "clean"}, seen'[p] = seen[p]
        PROVE  pc'[seen'[p]] = "dead"
    <2>1. seen[p] \in Proc
      BY <1>6, <1>2 DEF ExaminedFilesAreComplete
    <2> QED
      BY <1>6, <2>1, DeathIsFinal
  <1>7. CASE RecoveryStep(p)
    <2>1. CASE Probe(p)
      BY <1>5, <2>1 DEF Probe
    <2>2. CASE Rename(p) \/ Verify(p)
      BY <1>6, <2>2 DEF Rename, TryAgain, Verify, IsTheFileSeen, files
    <2>3. ~(Read(p) \/ JudgeAge(p) \/ Restore(p) \/ CleanUp(p))
      BY DEF Read, JudgeAge, Restore, CleanUp, TryAgain
    <2> QED
      BY <1>7, <2>1, <2>2, <2>3 DEF RecoveryStep
  <1>8. CASE Expire(p)
    BY <1>6, <1>8 DEF Expire
  <1> QED
    BY <1>1, <1>3, <1>4, <1>6, <1>7, <1>8 DEF Next

-----------------------------------------------------------------------------
(***************************************************************************)
(* Who is at lockPath.                                                     *)
(***************************************************************************)
AtLockPath == {"write", "beat", "rollbackUnlink", "unlink"} \cup Holding

LEMMA HolderStep ==
  ASSUME TypeOK, LockInv, [Next]_vars
  PROVE  HolderIsAtLockPath'
  <1> USE DEF TypeOK, File, Goto, LockInv, HolderIsAtLockPath
  <1> SUFFICES ASSUME NEW h \in Proc, pc'[h] \in AtLockPath
               PROVE  lock' = h \/ h \in displaced'
    BY DEF AtLockPath
  <1>1. CASE UNCHANGED <<lock, displaced>> /\ pc[h] \in AtLockPath
    BY <1>1 DEF AtLockPath
  <1>2. ASSUME NEW p \in Proc, pc'[h] = pc[h], lock' = NoFile,
               displaced' = IF p \in displaced THEN displaced \cup Lost(lock, p)
                            ELSE displaced,
               lock = p \/ p \in displaced, p # h
        PROVE  h \in displaced'
    <2>1. lock = h \/ h \in displaced
      BY <1>2 DEF AtLockPath
    <2> QED
      BY <1>2, <2>1, FileAssumption DEF Lost
  <1>3. ASSUME NEW p \in Proc, Create(p) \/ Write(p) \/ PublishFirst(p)
        PROVE  lock' = h \/ h \in displaced'
    BY <1>1, <1>3, FileAssumption DEF Create, Write, PublishFirst, AtLockPath,
       Holding
  <1>4. ASSUME NEW p \in Proc, Rollback(p)
        PROVE  lock' = h \/ h \in displaced'
    BY <1>1, <1>4 DEF Rollback, Owns, AtLockPath, Holding
  <1>5. ASSUME NEW p \in Proc, RollbackUnlink(p) \/ Unlink(p)
        PROVE  lock' = h \/ h \in displaced'
    <2>1. lock = p \/ p \in displaced
      BY <1>5 DEF RollbackUnlink, Unlink
    <2>2. CASE UNCHANGED <<lock, displaced>>
      BY <1>1, <1>5, <2>2 DEF RollbackUnlink, Unlink, RetryRelease, AtLockPath,
         Holding
    <2>3. CASE RemoveLock(p)
      <3>1. p # h /\ pc'[h] = pc[h]
        BY <1>5, <2>3, FileAssumption
           DEF RollbackUnlink, Unlink, RetryRelease, RemoveLock, AtLockPath, Holding
      <3> QED
        BY <1>2, <2>1, <2>3, <3>1 DEF RemoveLock
    <2> QED
      BY <1>5, <2>2, <2>3 DEF RollbackUnlink, Unlink
  <1>6. ASSUME NEW p \in Proc, Rename(p)
        PROVE  lock' = h \/ h \in displaced'
    <2>1. pc[h] \in AtLockPath /\ p # h
      BY <1>6 DEF Rename, TryAgain, AtLockPath, Holding
    <2>2. h # seen[p]
      BY <1>6, <2>1 DEF Rename, RecoveredOwnersAreDead, AtLockPath, Holding
    <2> QED
      BY <1>1, <1>6, <2>1, <2>2, FileAssumption DEF Rename, Lost, AtLockPath
  <1>7. ASSUME NEW p \in Proc, Restore(p)
        PROVE  lock' = h \/ h \in displaced'
    <2>1. pc[h] \in AtLockPath
      BY <1>7 DEF Restore, AtLockPath, Holding
    <2> QED
      BY <1>1, <1>7, <2>1, FileAssumption DEF Restore, Lost, AtLockPath
  <1>8. ASSUME NEW p \in Proc,
               Read(p) \/ JudgeAge(p) \/ Probe(p) \/ Verify(p) \/ CleanUp(p)
        PROVE  lock' = h \/ h \in displaced'
    BY <1>1, <1>8 DEF Read, JudgeAge, Probe, Verify, CleanUp, TryAgain, files,
       AtLockPath, Holding
  <1>9. ASSUME NEW p \in Proc,
               CheckOwner(p) \/ PublishHeartbeat(p) \/ ConfirmOwner(p) \/ Finish(p)
        PROVE  lock' = h \/ h \in displaced'
    BY <1>1, <1>9 DEF CheckOwner, PublishHeartbeat, ConfirmOwner, Finish, files,
       AtLockPath, Holding
  <1>10. ASSUME NEW p \in Proc, Release(p) \/ RemoveHeartbeat(p)
         PROVE  lock' = h \/ h \in displaced'
    BY <1>1, <1>10 DEF Release, AfterOwnerCheck, Owns, RemoveHeartbeat,
       RetryRelease, files, AtLockPath, Holding
  <1>11. ASSUME NEW p \in Proc, Expire(p) \/ Launch(p) \/ Die(p)
         PROVE  lock' = h \/ h \in displaced'
    BY <1>1, <1>11 DEF Expire, Launch, Die, files, AtLockPath, Holding
  <1>12. CASE UNCHANGED vars
    BY <1>1, <1>12 DEF vars, files
  <1> QED
    BY <1>3, <1>4, <1>5, <1>6, <1>7, <1>8, <1>9, <1>10, <1>11, <1>12
       DEF Next, AcquireStep, RecoveryStep, LeaseStep

-----------------------------------------------------------------------------
(* Types and the inductive invariant hold in every reachable state.        *)
THEOREM LockInvariant == Spec => [](TypeOK /\ LockInv)
  <1>1. Init => TypeOK /\ LockInv
    <2>1. Init => LockInv
      BY DEF Init, LockInv, HolderIsAtLockPath, RecoveredOwnersAreDead,
         CleanedFileWasExamined, ExaminedFilesAreComplete, Holding
    <2> QED
      BY <2>1, InitTypeOK
  <1>2. TypeOK /\ LockInv /\ [Next]_vars => (TypeOK /\ LockInv)'
    BY NextTypeOK, HolderStep, RecoveryStepInv, ExaminedStep DEF LockInv
  <1> QED
    BY <1>1, <1>2, PTL DEF Spec

(* No recovery ever takes the lock of a process that is still alive for a  *)
(* stale one.                                                              *)
THEOREM LiveOwnersAreNotRecovered == Spec => []RecoveredOwnersAreDead
  BY LockInvariant, PTL DEF LockInv

(* Two processes hold the lock at once only if a recovery raced.           *)
THEOREM LockIsExclusiveUnlessDisplaced == Spec => []ExclusiveUnlessDisplaced
  <1>1. LockInv => ExclusiveUnlessDisplaced
    BY DEF LockInv, HolderIsAtLockPath, ExclusiveUnlessDisplaced
  <1> QED
    BY <1>1, LockInvariant, PTL
-----------------------------------------------------------------------------
(***************************************************************************)
(* Heartbeats.  When no call fails, a heartbeat file is there only while   *)
(* its owner holds the lock or releases it, or after its owner died; a     *)
(* recovery only removes one.                                              *)
(***************************************************************************)
HeartbeatsAreOwned ==
  FilesMayFail \/ \A p \in Proc : beat[p] # "none" => pc[p] \in Holding \cup Releasing \cup {"dead"}

LEMMA HeartbeatStep ==
  ASSUME TypeOK, HeartbeatsAreOwned, [Next]_vars
  PROVE  HeartbeatsAreOwned'
  <1> SUFFICES ASSUME ~FilesMayFail, NEW q \in Proc, beat'[q] # "none"
               PROVE  pc'[q] \in Holding \cup Releasing \cup {"dead"}
    BY DEF HeartbeatsAreOwned
  <1> DEFINE Owned == Holding \cup Releasing \cup {"dead"}
  <1> USE DEF TypeOK, Goto, IoFails
  <1>1. beat[q] # "none" => pc[q] \in Owned
    BY DEF HeartbeatsAreOwned
  <1>2. CASE UNCHANGED vars
    BY <1>1, <1>2 DEF vars, files
  <1>3. ASSUME NEW p \in Proc, Expire(p) \/ Launch(p) \/ Die(p)
        PROVE  pc'[q] \in Owned
    BY <1>1, <1>3 DEF Expire, Launch, Die, files, Holding, Releasing
  <1>4. ASSUME NEW p \in Proc, AcquireStep(p)
        PROVE  pc'[q] \in Owned
    BY <1>1, <1>4
    DEF AcquireStep, Create, Write, PublishFirst, Rollback, RollbackUnlink, Holding, Releasing
  <1>5. ASSUME NEW p \in Proc, RecoveryStep(p)
        PROVE  pc'[q] \in Owned
    <2>1. pc[p] \notin Owned /\ (q # p => pc'[q] = pc[q])
      BY <1>5
      DEF RecoveryStep, Read, JudgeAge, Probe, Rename, TryAgain, Verify, Restore, CleanUp,
          Holding, Releasing
    <2>2. beat'[q] = beat[q]
      BY <1>5
      DEF RecoveryStep, Read, JudgeAge, Probe, Rename, Verify, Restore, CleanUp, files
    <2> QED
      BY <1>1, <2>1, <2>2
  <1>6. ASSUME NEW p \in Proc, CheckOwner(p) \/ PublishHeartbeat(p) \/ ConfirmOwner(p)
                                 \/ Finish(p) \/ Release(p)
        PROVE  pc'[q] \in Owned
    BY <1>1, <1>6
    DEF CheckOwner, PublishHeartbeat, ConfirmOwner, Finish, Release, AfterOwnerCheck, files,
        Holding, Releasing
  <1>7. ASSUME NEW p \in Proc, Unlink(p) \/ RemoveHeartbeat(p)
        PROVE  pc'[q] \in Owned
    BY <1>1, <1>7 DEF Unlink, RemoveHeartbeat, Holding, Releasing
  <1> QED
    BY <1>2, <1>3, <1>4, <1>5, <1>6, <1>7 DEF Next, LeaseStep

(* A process that ended its cycle, by whichever way, has left no heartbeat *)
(* file behind (release, rollbackFailedAcquire and recoverStaleLock), as   *)
(* long as no call failed.                                                 *)
THEOREM NoHeartbeatStays == Spec => []NoHeartbeatIsLeft
  <1>1. Init => HeartbeatsAreOwned
    BY DEF Init, HeartbeatsAreOwned
  <1>2. TypeOK /\ HeartbeatsAreOwned /\ [Next]_vars => HeartbeatsAreOwned'
    BY HeartbeatStep
  <1>3. HeartbeatsAreOwned => NoHeartbeatIsLeft
    BY DEF HeartbeatsAreOwned, NoHeartbeatIsLeft, Holding, Releasing
  <1> QED
    BY <1>1, <1>2, <1>3, LockInvariant, PTL DEF Spec
=============================================================================
