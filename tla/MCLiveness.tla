----------------------------- MODULE MCLiveness -----------------------------
(***************************************************************************)
(* Small instances of CatalogSync and of FileLeaseLock for TLC, side by    *)
(* side: a behaviour is the synchronizations of one document, which must   *)
(* converge, or the life of one lock, which must be recovered.             *)
(***************************************************************************)
EXTENDS CatalogSync, TLC

CONSTANTS r1, d1, p1, p2, p3, h1, h2, NoFile

VARIABLES part,
          lock, quarantine, written, identified, created, beat, pc, attempt, read, displaced

OneDocument == {<< <<d1>>, TRUE>>}

(* p3 reuses the PID of p1, so it starts only while p1 is not running.     *)
Lifetimes == {p1, p2, p3}
ReusedPids == [p \in Lifetimes |-> IF p = p3 THEN p1 ELSE p]
TwoHosts == [p \in Lifetimes |-> IF p = p2 THEN h2 ELSE h1]

Lock == INSTANCE FileLeaseLock WITH
  Proc <- Lifetimes, PidOf <- ReusedPids, HostOf <- TwoHosts, ProbeMayFail <- FALSE,
  FilesMayFail <- FALSE, seen <- read

ASSUME LockAssumption == Lock!FileAssumption

lockVars == <<lock, quarantine, written, identified, created, beat, pc, attempt, read, displaced>>

-----------------------------------------------------------------------------
MCInit == part \in {"sync", "lock"} /\ Init /\ Lock!Init

Syncs(A) == part = "sync" /\ A /\ UNCHANGED <<part, lockVars>>
Locks(A) == part = "lock" /\ A /\ UNCHANGED <<part, vars>>

(* The processes of a lock may all have ended.                             *)
Rest == part = "lock" /\ UNCHANGED <<part, vars, lockVars>>

MCNext == Syncs(Next) \/ Locks(Lock!Next) \/ Rest

mcVars == <<part, vars, lockVars>>

(* LiveSpec of CatalogSync and FairSpec of FileLeaseLock.                  *)
MCFairness ==
  /\ WF_mcVars(Syncs(Starts))
  /\ WF_mcVars(Syncs(RecoverLease))
  /\ \A r \in Run :
       /\ WF_mcVars(Syncs(Advance(r) \/ Failure(r)))
       /\ SF_mcVars(Syncs(ReadDocument(r)))
       /\ SF_mcVars(Syncs(ReadVersion(r)))
       /\ SF_mcVars(Syncs(Healthy(r)))
       /\ SF_mcVars(Syncs(CommitRevision(r) \/ Touch(r)))
  /\ \A p \in Lifetimes :
       WF_mcVars(Locks(Lock!AcquireStep(p))) /\ WF_mcVars(Locks(Lock!RecoveryStep(p)))

MCSpec == MCInit /\ [][MCNext]_mcVars /\ MCFairness

(* Synchronizations converge once the pages rest (CatalogSync).            *)
SynchronizationsConverge == part = "sync" => CatalogueConverges

(* A recovery takes the locks of the dead only, and a release leaves no    *)
(* heartbeat (FileLeaseLock).                                              *)
RecoveryIsSound == Lock!RecoveredOwnersAreDead /\ Lock!NoHeartbeatIsLeft

(* The lock of a dead owner does not block for good (FileLeaseLock).       *)
DeadLockIsRecovered == Lock!DeadLockIsRecovered
=============================================================================
