--------------------------- MODULE FileLeaseLock ---------------------------
(***************************************************************************)
(* The file lock of a maintenance cycle, one action per system call: the   *)
(* exclusive file at lockPath, the heartbeat file of each owner, and the   *)
(* quarantine a stale lock is renamed to before its token is read again.   *)
(*                                                                         *)
(* A process runs one cycle (cli/catalog-maintain.ts), so it creates at    *)
(* most one lock file, and the file is named by that process: the owner    *)
(* token, PID, host and identity it holds are those of its creator.  The   *)
(* age of a heartbeat is told only as far as staleAfterMs tells it.        *)
(***************************************************************************)
EXTENDS FiniteSets

CONSTANTS Proc,          \* process lifetimes
          NoFile,        \* a path at which there is no file
          PidOf, HostOf, \* functions on Proc; a PID is reused on its host
          ProbeMayFail,  \* whether an OS identity probe can be unavailable
          FilesMayFail   \* whether a write, unlink or rename can fail

ASSUME FileAssumption ==
  /\ NoFile \notin Proc
  /\ ProbeMayFail \in BOOLEAN
  /\ FilesMayFail \in BOOLEAN

VARIABLES lock,        \* the file at lockPath
          quarantine,  \* the file at the .stale-* path of each recovery
          written,     \* the lock files whose metadata is complete
          identified,  \* the lock files that record a process identity
          created,     \* age of the createdAt of each lock file
          beat,        \* age of the heartbeat file of each owner
          pc,          \* where each process is in its cycle
          attempt,     \* which of its two attempts acquire() makes
          seen,        \* the lock file whose metadata a recovery read
          displaced    \* history: owners whose lock file a race took away

files == <<lock, quarantine, written, identified, created, beat>>
vars == <<files, pc, attempt, seen, displaced>>

File == Proc \cup {NoFile}

Acquiring == {"create", "write", "beat", "rollback", "rollbackUnlink"}
Recovering == {"read", "age", "probe", "rename", "verify", "restore", "clean"}
Holding == {"held", "publish", "confirm"}
Releasing == {"release", "unlink", "unbeat"}
Step == {"unborn", "dead", "done"}
          \cup Acquiring \cup Recovering \cup Holding \cup Releasing

Alive(p) == pc[p] \notin {"unborn", "dead"}

PidInUse(pid, host) == \E q \in Proc : Alive(q) /\ PidOf[q] = pid /\ HostOf[q] = host

(* An I/O call that fails leaves the file system as it was.                *)
IoFails == FilesMayFail

Goto(p, step) == pc' = [pc EXCEPT ![p] = step]

-----------------------------------------------------------------------------
Init ==
  /\ lock = NoFile
  /\ quarantine = [p \in Proc |-> NoFile]
  /\ written = {}
  /\ identified = {}
  /\ created = [p \in Proc |-> "fresh"]
  /\ beat = [p \in Proc |-> "none"]
  /\ pc = [p \in Proc |-> "unborn"]
  /\ attempt = [p \in Proc |-> 1]
  /\ seen = [p \in Proc |-> NoFile]
  /\ displaced = {}

(* More than staleAfterMs goes by; a heartbeat is no older than its file.  *)
Expire(f) ==
  /\ pc[f] # "unborn"
  /\ IF created[f] = "fresh"
     THEN created' = [created EXCEPT ![f] = "expired"] /\ UNCHANGED beat
     ELSE /\ beat[f] = "fresh"
          /\ beat' = [beat EXCEPT ![f] = "expired"]
          /\ UNCHANGED created
  /\ UNCHANGED <<lock, quarantine, written, identified, pc, attempt, seen,
                 displaced>>

(* A command starts, under a PID no live process of its host has.          *)
Launch(p) ==
  /\ pc[p] = "unborn"
  /\ ~PidInUse(PidOf[p], HostOf[p])
  /\ Goto(p, "create")
  /\ UNCHANGED <<files, attempt, seen, displaced>>

(* A process ends, by a crash anywhere or once its cycle is done; nothing  *)
(* ever looks at the random path of its quarantine again.                  *)
Die(p) ==
  /\ Alive(p)
  /\ Goto(p, "dead")
  /\ quarantine' = [quarantine EXCEPT ![p] = NoFile]
  /\ attempt' = [attempt EXCEPT ![p] = 1]
  /\ seen' = [seen EXCEPT ![p] = NoFile]
  /\ UNCHANGED <<lock, written, identified, created, beat, displaced>>

-----------------------------------------------------------------------------
(***************************************************************************)
(* acquire(): create the file, write it, publish the first heartbeat.      *)
(***************************************************************************)
Create(p) ==
  /\ pc[p] = "create"
  /\ IF lock = NoFile
     THEN /\ lock' = p
          /\ \E known \in {TRUE, ~ProbeMayFail} :
               identified' = IF known THEN identified \cup {p} ELSE identified
          /\ created' = [created EXCEPT ![p] = "fresh"]
          /\ Goto(p, "write")
     ELSE /\ Goto(p, "read")                                \* EEXIST
          /\ UNCHANGED <<lock, identified, created>>
  /\ UNCHANGED <<quarantine, written, beat, attempt, seen, displaced>>

(* The descriptor leads to the file wherever it has been renamed to.       *)
FileOpened(p) == p

(* A failed write leaves the file incomplete, and acquire() throws.        *)
Write(p) ==
  /\ pc[p] = "write"
  /\ \/ written' = written \cup {FileOpened(p)} /\ Goto(p, "beat")
     \/ IoFails /\ Goto(p, "done") /\ UNCHANGED written
  /\ UNCHANGED <<lock, quarantine, identified, created, beat, attempt, seen,
                 displaced>>

(* The first heartbeat carries the time of creation.                       *)
PublishFirst(p) ==
  /\ pc[p] = "beat"
  /\ \/ beat' = [beat EXCEPT ![p] = created[p]] /\ Goto(p, "held")
     \/ /\ IoFails
        /\ beat' \in {beat, [beat EXCEPT ![p] = created[p]]}
        /\ Goto(p, "rollback")
  /\ UNCHANGED <<lock, quarantine, written, identified, created, attempt, seen,
                 displaced>>

(* readMetadata: the complete file at lockPath is p's.                     *)
Owns(p) == lock = p /\ p \in written

(* rollbackFailedAcquire, its check and the removal of the heartbeat.  The *)
(* three attempts are any number of them.                                  *)
Rollback(p) ==
  /\ pc[p] = "rollback"
  /\ IF Owns(p)
     THEN /\ \/ beat' = [beat EXCEPT ![p] = "none"]
             \/ IoFails /\ UNCHANGED beat
          /\ Goto(p, "rollbackUnlink")
     ELSE Goto(p, "done") /\ UNCHANGED beat
  /\ UNCHANGED <<lock, quarantine, written, identified, created, attempt, seen,
                 displaced>>

(* Whose lock a call of p takes away, besides p's own and the one it may   *)
(* rightly remove.  A process that was itself displaced removes blindly.   *)
Lost(f, rightful) == {f} \ {NoFile, rightful}

RemoveLock(p) ==
  /\ lock' = NoFile
  /\ displaced' = IF p \in displaced THEN displaced \cup Lost(lock, p)
                  ELSE displaced

(* The file leaves lockPath, by unlink or by rename to .failed-acquire-*.  *)
RollbackUnlink(p) ==
  /\ pc[p] = "rollbackUnlink"
  /\ \/ RemoveLock(p) /\ Goto(p, "done")
     \/ /\ IoFails
        /\ pc' \in {[pc EXCEPT ![p] = next] : next \in {"rollback", "done"}}
        /\ UNCHANGED <<lock, displaced>>
  /\ UNCHANGED <<quarantine, written, identified, created, beat, attempt, seen>>

-----------------------------------------------------------------------------
(***************************************************************************)
(* recoverStaleLock(): read, judge, rename away, read again, clean up.     *)
(***************************************************************************)
Read(p) ==
  /\ pc[p] = "read"
  /\ IF lock \in written
     THEN seen' = [seen EXCEPT ![p] = lock] /\ Goto(p, "age")
     ELSE Goto(p, "done") /\ UNCHANGED seen
  /\ UNCHANGED <<files, attempt, displaced>>

Expired(f) ==
  IF beat[f] = "none" THEN created[f] = "expired" ELSE beat[f] = "expired"

(* Faulty variant: a PID of another host is looked up on this one.         *)
StaleAnywhere(p, f) == Expired(f)

MayBeStale(p, f) == Expired(f) /\ HostOf[f] = HostOf[p]

JudgeAge(p) ==
  /\ pc[p] = "age"
  /\ Goto(p, IF MayBeStale(p, seen[p]) THEN "probe" ELSE "done")
  /\ UNCHANGED <<files, attempt, seen, displaced>>

(* Faulty variants: the age alone decides; any process under the PID passes*)
(* for the owner.                                                          *)
AgeDecides(f) == {"different"}
PidIsIdentity(f) == {"same"}

(* compareProcessIdentity, of the process now using the owner's PID.       *)
IdentityOutcomes(f) ==
  LET answer == IF Alive(f) THEN "same" ELSE "different" IN
  (IF f \in identified THEN {answer} ELSE {"unavailable"})
    \cup (IF ProbeMayFail THEN {"unavailable"} ELSE {})

Probe(p) ==
  /\ pc[p] = "probe"
  /\ IF ~PidInUse(PidOf[seen[p]], HostOf[p])
     THEN Goto(p, "rename")
     ELSE \E outcome \in IdentityOutcomes(seen[p]) :
            Goto(p, IF outcome = "different" THEN "rename" ELSE "done")
  /\ UNCHANGED <<files, attempt, seen, displaced>>

(* Recovery is over: the loop of acquire() has two attempts.               *)
TryAgain(p) ==
  /\ Goto(p, IF attempt[p] = 1 THEN "create" ELSE "done")
  /\ attempt' = [attempt EXCEPT ![p] = 2]
  /\ seen' = [seen EXCEPT ![p] = NoFile]

(* Whatever is at lockPath by now goes to the quarantine.                  *)
Rename(p) ==
  /\ pc[p] = "rename"
  /\ \/ /\ lock # NoFile
        /\ quarantine' = [quarantine EXCEPT ![p] = lock]
        /\ lock' = NoFile
        /\ displaced' = displaced \cup Lost(lock, seen[p])
        /\ Goto(p, "verify")
        /\ UNCHANGED <<attempt, seen>>
     \/ /\ lock = NoFile                                    \* ENOENT
        /\ TryAgain(p)
        /\ UNCHANGED <<lock, quarantine, displaced>>
     \/ /\ IoFails
        /\ Goto(p, "done")
        /\ UNCHANGED <<lock, quarantine, displaced, attempt, seen>>
  /\ UNCHANGED <<written, identified, created, beat>>

(* Faulty variant: the quarantined file is not read again.                 *)
AnyFile(p) == TRUE

IsTheFileSeen(p) == quarantine[p] = seen[p]

(* The token is read again, and lockPath looked at if it is another one.   *)
Verify(p) ==
  /\ pc[p] = "verify"
  /\ Goto(p, IF IsTheFileSeen(p) THEN "clean"
             ELSE IF lock = NoFile THEN "restore" ELSE "done")
  /\ UNCHANGED <<files, attempt, seen, displaced>>

(* The rename back replaces a file created in the meantime.                *)
Restore(p) ==
  /\ pc[p] = "restore"
  /\ \/ /\ lock' = quarantine[p]
        /\ quarantine' = [quarantine EXCEPT ![p] = NoFile]
        /\ displaced' = displaced \cup Lost(lock, quarantine[p])
     \/ IoFails /\ UNCHANGED <<lock, quarantine, displaced>>
  /\ Goto(p, "done")
  /\ UNCHANGED <<written, identified, created, beat, attempt, seen>>

(* Cleaning up is best effort.                                             *)
CleanUp(p) ==
  /\ pc[p] = "clean"
  /\ \/ beat' = [beat EXCEPT ![seen[p]] = "none"]
     \/ IoFails /\ UNCHANGED beat
  /\ quarantine' = [quarantine EXCEPT ![p] = NoFile]
  /\ TryAgain(p)
  /\ UNCHANGED <<lock, written, identified, created, displaced>>

-----------------------------------------------------------------------------
(***************************************************************************)
(* The lease: any number of renewals, each before a piece of work, and its *)
(* release, which is retried.  A failed renewal ends the cycle.            *)
(***************************************************************************)
CheckOwner(p) ==
  /\ pc[p] = "held"
  /\ Goto(p, IF Owns(p) THEN "publish" ELSE "release")
  /\ UNCHANGED <<files, attempt, seen, displaced>>

PublishHeartbeat(p) ==
  /\ pc[p] = "publish"
  /\ \/ beat' = [beat EXCEPT ![p] = "fresh"] /\ Goto(p, "confirm")
     \/ IoFails /\ Goto(p, "release") /\ UNCHANGED beat
  /\ UNCHANGED <<lock, quarantine, written, identified, created, attempt, seen,
                 displaced>>

ConfirmOwner(p) ==
  /\ pc[p] = "confirm"
  /\ Goto(p, IF Owns(p) THEN "held" ELSE "release")
  /\ UNCHANGED <<files, attempt, seen, displaced>>

(* The work is done, or has failed.                                        *)
Finish(p) ==
  /\ pc[p] = "held"
  /\ Goto(p, "release")
  /\ UNCHANGED <<files, attempt, seen, displaced>>

AfterOwnerCheck(p) == IF Owns(p) THEN "unlink" ELSE "unbeat"

Release(p) ==
  /\ pc[p] = "release"
  /\ Goto(p, AfterOwnerCheck(p))
  /\ UNCHANGED <<files, attempt, seen, displaced>>

(* releaseLease calls release() again when it threw, and gives up after    *)
(* releaseAttempts failures; a lock that vanished after the check costs one*)
(* attempt, and the next finds nothing to unlink.                          *)
RetryRelease(p) ==
  pc' \in {[pc EXCEPT ![p] = next] : next \in {"release", "done"}}

Unlink(p) ==
  /\ pc[p] = "unlink"
  /\ \/ lock # NoFile /\ RemoveLock(p) /\ Goto(p, "unbeat")
     \/ /\ lock = NoFile                                    \* ENOENT
        /\ Goto(p, "release")
        /\ UNCHANGED <<lock, displaced>>
     \/ IoFails /\ RetryRelease(p) /\ UNCHANGED <<lock, displaced>>
  /\ UNCHANGED <<quarantine, written, identified, created, beat, attempt, seen>>

RemoveHeartbeat(p) ==
  /\ pc[p] = "unbeat"
  /\ \/ beat' = [beat EXCEPT ![p] = "none"] /\ Goto(p, "done")
     \/ IoFails /\ RetryRelease(p) /\ UNCHANGED beat
  /\ UNCHANGED <<lock, quarantine, written, identified, created, attempt, seen,
                 displaced>>

-----------------------------------------------------------------------------
AcquireStep(p) ==
  \/ Create(p) \/ Write(p) \/ PublishFirst(p)
  \/ Rollback(p) \/ RollbackUnlink(p)

RecoveryStep(p) ==
  \/ Read(p) \/ JudgeAge(p) \/ Probe(p) \/ Rename(p)
  \/ Verify(p) \/ Restore(p) \/ CleanUp(p)

LeaseStep(p) ==
  \/ CheckOwner(p) \/ PublishHeartbeat(p) \/ ConfirmOwner(p) \/ Finish(p)
  \/ Release(p) \/ Unlink(p) \/ RemoveHeartbeat(p)

Next ==
  \E p \in Proc :
    \/ Expire(p) \/ Launch(p) \/ Die(p)
    \/ AcquireStep(p) \/ RecoveryStep(p) \/ LeaseStep(p)

Spec == Init /\ [][Next]_vars

(* A command that has started runs on: all its calls are synchronous.      *)
FairSpec ==
  Spec /\ \A p \in Proc : WF_vars(AcquireStep(p)) /\ WF_vars(RecoveryStep(p))

-----------------------------------------------------------------------------
TypeOK ==
  /\ lock \in File
  /\ quarantine \in [Proc -> File]
  /\ written \subseteq Proc
  /\ identified \subseteq Proc
  /\ created \in [Proc -> {"fresh", "expired"}]
  /\ beat \in [Proc -> {"none", "fresh", "expired"}]
  /\ pc \in [Proc -> Step]
  /\ attempt \in [Proc -> {1, 2}]
  /\ seen \in [Proc -> File]
  /\ displaced \subseteq Proc

(* Rule 1 of the operations guide: one maintenance cycle at a time.        *)
MutualExclusion ==
  \A p, q \in Proc : pc[p] \in Holding /\ pc[q] \in Holding => p = q

(* What the lock does guarantee: two processes hold it at once only after  *)
(* a recovery has moved a lock file other than the one it had examined, or *)
(* has put such a file back over a newer one.                              *)
ExclusiveUnlessDisplaced ==
  \A p, q \in Proc :
    pc[p] \in Holding /\ pc[q] \in Holding /\ p # q =>
      p \in displaced \/ q \in displaced

(* A lease that no recovery raced with is the file at lockPath.            *)
HolderIsAtLockPath ==
  \A p \in Proc :
    pc[p] \in {"write", "beat", "rollbackUnlink", "unlink"} \cup Holding =>
      lock = p \/ p \in displaced

(* A lock is taken for stale only when the lifetime that created it is     *)
(* over, PID reuse and unavailable identities included.                    *)
RecoveredOwnersAreDead ==
  \A p \in Proc : pc[p] \in {"rename", "verify", "clean"} => pc[seen[p]] = "dead"

(* Recovery cleans up the file it examined, and only that one.             *)
CleanedFileWasExamined ==
  \A p \in Proc : pc[p] = "clean" => quarantine[p] = seen[p]

(* A recovery works on a complete file, of a process that has started, and *)
(* looks up PIDs of its own host only.                                     *)
ExaminedFilesAreComplete ==
  /\ \A f \in written : pc[f] # "unborn"
  /\ \A p \in Proc :
       pc[p] \in {"age", "probe", "rename", "verify", "clean"} => seen[p] \in written
  /\ \A p \in Proc : pc[p] = "probe" => HostOf[seen[p]] = HostOf[p]

(* The inductive invariant of the lock.                                    *)
LockInv ==
  /\ HolderIsAtLockPath
  /\ RecoveredOwnersAreDead
  /\ CleanedFileWasExamined
  /\ ExaminedFilesAreComplete

(* A process that ended its cycle leaves no heartbeat file, whoever owns   *)
(* the lock by then, as long as I/O does not fail.                         *)
NoHeartbeatIsLeft ==
  \A p \in Proc : pc[p] = "done" => beat[p] = "none" \/ FilesMayFail

(* The lock of an owner that died on the same host never blocks for good:  *)
(* one attempt to acquire it, once its heartbeat has expired, removes it.  *)
DeadLockIsRecovered ==
  \A p \in Proc : \A d \in {x \in Proc \ {p} : HostOf[x] = HostOf[p]} :
    (/\ pc[p] = "create" /\ attempt[p] = 1
     /\ lock = d /\ d \in written /\ pc[d] = "dead" /\ Expired(d) /\ d \in identified)
    ~> (lock # d \/ pc[p] = "dead")
=============================================================================
