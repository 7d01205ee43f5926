-------------------------- MODULE CatalogMaintenance --------------------------
(***************************************************************************)
(* catalog:maintain, run by several processes beside synchronizations: the *)
(* cycle under the maintenance lock, the deletion of old runs, and the     *)
(* release.  The lock is the one of FileLeaseLock, whose recovery may take *)
(* it from a live owner; here only who has it counts.                      *)
(***************************************************************************)
EXTENDS Integers, FiniteSets, FiniteSetsExt

CONSTANTS Cycle,            \* the processes that run a maintenance cycle
          Inputs,           \* what operators ask for: [keep, age, vacuum, stale]
          InitialRuns,      \* the rows of sync_runs: [id, started, running]
          InitialEvents,    \* the rows of staleness_events: [event, run]
          None,
          ReleaseAttempts,
          MaxTime           \* bound: how far the clock goes

(* How a cycle ends without having maintained the catalogue.               *)
Failures == {"OWNERSHIP_CHANGED", "CATALOG_WAL_CHECKPOINT_BUSY", "DATABASE"}
Refusals == {"INVALID", "LOCKED", "RELEASE"}

(* The foreign key of the events holds, and started_at is what they note.  *)
MaintenanceAssumption ==
  /\ None \notin Cycle \cup Failures \cup Refusals \cup {"maintained"}
  /\ InitialRuns \subseteq [id : Nat, started : Int, running : BOOLEAN]
  /\ InitialEvents \subseteq [event : Int, run : Nat \cup {None}]
  /\ \A e \in InitialEvents : e.run # None =>
       \E r \in InitialRuns : r.id = e.run /\ r.started = e.event

VARIABLES owner,     \* who the file at lockPath names
          runs, events, now,
          asked,     \* the input of each cycle
          step,
          failure,
          before,    \* how many runs the cycle counted first
          tries,     \* of the release of the lock
          late,      \* history: what each cycle has done after it lost the lock
          told       \* what each process has told its operator

maintenanceVars == <<owner, runs, events, now, asked, step, failure, before, tries, late, told>>

rows == <<runs, events, now>>

MaintenanceInit ==
  /\ owner = None
  /\ runs = InitialRuns
  /\ events = InitialEvents
  /\ now = 0
  /\ asked \in [Cycle -> Inputs]
  /\ step = [p \in Cycle |-> "idle"]
  /\ failure = [p \in Cycle |-> None]
  /\ before = [p \in Cycle |-> 0]
  /\ tries = [p \in Cycle |-> 0]
  /\ late = [p \in Cycle |-> {}]
  /\ told = [p \in Cycle |-> None]

Goes(p, to) == step' = [step EXCEPT ![p] = to]

Ends(p, answer) ==
  /\ Goes(p, "over")
  /\ told' = [told EXCEPT ![p] = answer]

(* The three numbers are safe integers, of which the last is not zero.     *)
IsValid(input) == input.keep >= 0 /\ input.age >= 0 /\ input.stale > 0

(* The input is refused before anything is touched; the lock is refused    *)
(* when it is taken.                                                       *)
Acquire(p) ==
  /\ step[p] = "idle"
  /\ \/ /\ ~IsValid(asked[p])
        /\ Ends(p, "INVALID")
        /\ UNCHANGED owner
     \/ /\ IsValid(asked[p]) /\ owner # None
        /\ Ends(p, "LOCKED")
        /\ UNCHANGED owner
     \/ /\ IsValid(asked[p]) /\ owner = None
        /\ owner' = p
        /\ Goes(p, "open")
        /\ UNCHANGED told
  /\ UNCHANGED <<rows, asked, failure, before, tries, late>>

(* The lock of a dead owner is recovered, and recoveries that race take    *)
(* the one of a live owner.                                                *)
LoseLock ==
  /\ owner # None
  /\ owner' = None
  /\ UNCHANGED <<rows, asked, step, failure, before, tries, late, told>>

-----------------------------------------------------------------------------
(* What comes after each renewal.                                          *)
Steps == [open |-> "count", retained |-> "optimize", optimized |-> "checkpoint",
          checkpointed |-> "vacuum", done |-> "close"]

Fails(p, why) ==
  /\ failure' = [failure EXCEPT ![p] = why]
  /\ Goes(p, "close")

(* A renewal that does not look whose file it is.                          *)
RenewAnyLock(p) ==
  /\ step[p] \in DOMAIN Steps
  /\ Goes(p, Steps[step[p]])
  /\ UNCHANGED <<owner, rows, asked, failure, before, tries, late, told>>

(* A renewal fails when the file does not name the owner any more, before  *)
(* and after the heartbeat is published.                                   *)
RenewLock(p) ==
  /\ step[p] \in DOMAIN Steps
  /\ \/ owner = p /\ Goes(p, Steps[step[p]]) /\ UNCHANGED failure
     \/ owner # p /\ Fails(p, "OWNERSHIP_CHANGED")
  /\ UNCHANGED <<owner, rows, asked, before, tries, late, told>>

(* What is done to the whole catalogue is noted if the lock is gone.       *)
Works(p, what) ==
  late' = IF owner = p THEN late ELSE [late EXCEPT ![p] = @ \cup {what}]

CountSyncRuns(p) ==
  /\ step[p] = "count"
  /\ before' = [before EXCEPT ![p] = Cardinality(runs)]
  /\ Goes(p, "retain")
  /\ UNCHANGED <<owner, rows, asked, failure, tries, late, told>>

Terminal == {r \in runs : ~r.running}

Newer(r, s) == r.started > s.started \/ (r.started = s.started /\ r.id > s.id)

(* ORDER BY started_at DESC, id DESC LIMIT keep.                           *)
Newest(keep) == {r \in Terminal : Cardinality({s \in Terminal : Newer(s, r)}) < keep}

Deletable(input) == {r \in Terminal \ Newest(input.keep) : r.started < now - input.age}

(* The events of the runs that go are detached first, in one immediate     *)
(* transaction.                                                            *)
DeleteExpiredSyncRuns(p) ==
  /\ step[p] = "retain"
  /\ LET gone == {r.id : r \in Deletable(asked[p])}
     IN  /\ events' = {IF e.run \in gone THEN [e EXCEPT !.run = None] ELSE e : e \in events}
         /\ runs' = {r \in runs : r.id \notin gone}
  /\ Works(p, "retention")
  /\ Goes(p, "retained")
  /\ UNCHANGED <<owner, now, asked, failure, before, tries, told>>

Optimize(p) ==
  /\ step[p] = "optimize"
  /\ Works(p, "optimize")
  /\ Goes(p, "optimized")
  /\ UNCHANGED <<owner, rows, asked, failure, before, tries, told>>

(* A reader keeps part of the WAL in use: the cycle fails.                 *)
CheckpointWal(p) ==
  /\ step[p] = "checkpoint"
  /\ Works(p, "checkpoint")
  /\ \/ /\ Goes(p, IF asked[p].vacuum THEN "checkpointed" ELSE "done")
        /\ UNCHANGED failure
     \/ Fails(p, "CATALOG_WAL_CHECKPOINT_BUSY")
  /\ UNCHANGED <<owner, rows, asked, before, tries, told>>

Vacuum(p) ==
  /\ step[p] = "vacuum"
  /\ Works(p, "vacuum")
  /\ Goes(p, "done")
  /\ UNCHANGED <<owner, rows, asked, failure, before, tries, told>>

(* A statement may fail: another connection is writing for too long.       *)
StatementFails(p) ==
  /\ step[p] \in {"count", "retain", "optimize", "checkpoint", "vacuum"}
  /\ Fails(p, "DATABASE")
  /\ UNCHANGED <<owner, rows, asked, before, tries, late, told>>

Close(p) ==
  /\ step[p] = "close"
  /\ Goes(p, "release")
  /\ UNCHANGED <<owner, rows, asked, failure, before, tries, late, told>>

Answer(p) == IF failure[p] = None THEN "maintained" ELSE failure[p]

(* The file is removed if it is still the one of this owner; a failure is  *)
(* retried, and in the end told only if nothing else went wrong.           *)
ReleaseLease(p) ==
  /\ step[p] = "release"
  /\ \/ /\ owner' = IF owner = p THEN None ELSE owner
        /\ Ends(p, Answer(p))
        /\ UNCHANGED tries
     \/ /\ tries[p] + 1 < ReleaseAttempts
        /\ tries' = [tries EXCEPT ![p] = @ + 1]
        /\ UNCHANGED <<owner, step, told>>
     \/ /\ tries[p] + 1 = ReleaseAttempts
        /\ Ends(p, IF failure[p] = None THEN "RELEASE" ELSE Answer(p))
        /\ UNCHANGED <<owner, tries>>
  /\ UNCHANGED <<rows, asked, failure, before, late>>

(* The process ends anywhere; its lock stays until it is recovered.        *)
Die(p) ==
  /\ step[p] \notin {"idle", "over"}
  /\ Goes(p, "over")
  /\ UNCHANGED <<owner, rows, asked, failure, before, tries, late, told>>

-----------------------------------------------------------------------------
(* A synchronization starts with a new row, notes what it finds stale, and *)
(* ends its row.                                                           *)
StartRun ==
  /\ now < MaxTime
  /\ now' = now + 1
  /\ LET id == 1 + Max({0} \cup {r.id : r \in runs})
     IN  /\ runs' = runs \cup {[id |-> id, started |-> now', running |-> TRUE]}
         /\ events' = events \cup {[event |-> now', run |-> id]}
  /\ UNCHANGED <<owner, asked, step, failure, before, tries, late, told>>

FinishRun ==
  /\ \E r \in runs :
       /\ r.running
       /\ runs' = (runs \ {r}) \cup {[r EXCEPT !.running = FALSE]}
  /\ UNCHANGED <<owner, events, now, asked, step, failure, before, tries, late, told>>

MaintenanceNext ==
  \/ \E p \in Cycle :
       \/ Acquire(p) \/ RenewLock(p) \/ CountSyncRuns(p) \/ DeleteExpiredSyncRuns(p)
       \/ Optimize(p) \/ CheckpointWal(p) \/ Vacuum(p) \/ StatementFails(p)
       \/ Close(p) \/ ReleaseLease(p) \/ Die(p)
  \/ LoseLock \/ StartRun \/ FinishRun

-----------------------------------------------------------------------------
(* A run that an event names is there, and it is the one that noted it.    *)
EventsNameTheirRun ==
  \A e \in events : e.run # None =>
    \E r \in runs : r.id = e.run /\ r.started = e.event

(* A cycle that has lost its lock to a recovery does one more thing to the *)
(* catalogue at most, and does not tell that it maintained it when it did; *)
(* and whatever the cycles delete, the events still name their runs.       *)
MaintenanceIsExclusive ==
  /\ \A p \in Cycle :
       /\ Cardinality(late[p]) <= 1
       /\ told[p] = "maintained" => late[p] = {}
  /\ EventsNameTheirRun
=============================================================================
