-------------------------- MODULE CatalogSyncRuns ---------------------------
(***************************************************************************)
(* The durable leases of catalogue synchronization runs: the sync_runs     *)
(* table with the C014 guard, shared by every process that opened the      *)
(* catalogue, and the SqliteCatalogSyncStore of each of them.              *)
(*                                                                         *)
(* A store is single-threaded, so its own calls never interleave; between  *)
(* two SQLite statements of one call every other process may run.  Starting*)
(* a run and opening the repository first recover abandoned runs: the      *)
(* RUNNING rows are read, each owner is probed, and one transaction fences *)
(* the rows whose lease is still exactly the one that was read.            *)
(***************************************************************************)
EXTENDS Integers, FiniteSets

CONSTANTS Proc,            \* process lifetimes, each with one repository
          NoProc,          \* the owner of a run whose owner columns are NULL
          PidOf, HostOf,   \* functions on Proc; a PID is reused on its host
          Requests,        \* the pairs <<run_kind, scope>> that are started
          Source, Global,  \* catalogue sources; the scope of source_id NULL
          MaxRunId,        \* bound: largest sync_runs.id
          MaxToken,        \* bound: owner tokens minted
          MaxTime,         \* bound: clock values 0..MaxTime
          AbandonedAfter,  \* abandonedAfterMs
          RetainedAge,     \* maxSyncRunAgeDays of a maintenance run
          RetainedRuns,    \* keepSyncRuns of a maintenance run
          ClockMayStepBack, \* whether the wall clock can be set back
          ProbeMayFail     \* whether an OS identity probe can be unavailable

ASSUME ProcAssumption == NoProc \notin Proc
ASSUME ScopeAssumption ==
  /\ Global \notin Source
  /\ Requests \subseteq {"EXECUTION", "PLAN"} \X (Source \cup {Global})
ASSUME BoundAssumption ==
  /\ MaxRunId \in Nat \ {0}
  /\ MaxToken \in Nat
  /\ MaxTime \in Nat
  /\ AbandonedAfter \in Nat \ {0}
  /\ RetainedAge \in Nat
  /\ RetainedRuns \in Nat
  /\ ClockMayStepBack \in BOOLEAN
  /\ ProbeMayFail \in BOOLEAN

VARIABLES runs,        \* the sync_runs table
          minted,      \* owner tokens minted so far (randomUUID)
          now,         \* the wall clock; it may be set forward or back
          up,          \* lifetime of each process
          identified,  \* whether the store read its own process identity
          owned,       \* ownedRuns: the handle each store keeps per run
          pc,          \* where each store is in start() or the constructor
          request,     \* the start request being served
          scanned,     \* leases read by recoverAbandonedRuns, not yet probed
          abandoned,   \* candidates: leases judged abandoned
          lastWriter   \* history: the token that last wrote to each source

store == <<runs, minted, lastWriter>>
local == <<owned, pc, request, scanned, abandoned>>
vars == <<store, now, up, identified, local>>

RunId == 1 .. MaxRunId
Token == 1 .. MaxToken
Time == 0 .. MaxTime
Scope == Source \cup {Global}
Kind == {"EXECUTION", "PLAN"}
Terminal == {"SUCCESS", "FAILED"}  \* PARTIAL and CANCELLED are alike here

Row == [status : {"ABSENT", "RUNNING"} \cup Terminal, kind : Kind,
        scope : Scope, startedAt : Time, heartbeatAt : Time,
        token : 0 .. MaxToken, owner : Proc \cup {NoProc},
        identified : BOOLEAN]

NoRow == [status |-> "ABSENT", kind |-> "PLAN", scope |-> Global,
          startedAt |-> 0, heartbeatAt |-> 0, token |-> 0,
          owner |-> NoProc, identified |-> FALSE]

(* What a caller holds of a run: the token, and the request it made.       *)
Handle == [token : 0 .. MaxToken, kind : Kind, scope : Scope]
NoHandle == [token |-> 0, kind |-> "PLAN", scope |-> Global]

(* "OPEN": the store is being constructed, and no run is requested.        *)
Request == [kind : Kind \cup {"OPEN"}, scope : Scope, startedAt : Time]
NoRequest == [kind |-> "OPEN", scope |-> Global, startedAt |-> 0]

(* A row as recoverAbandonedRuns read it, and when.                         *)
Lease == [id : RunId, row : Row, readAt : Time]

Running(id) == runs[id].status = "RUNNING"
Executing(id) == Running(id) /\ runs[id].kind = "EXECUTION"

Overlap(a, b) == a = Global \/ b = Global \/ a = b
Covers(scope, s) == scope \in {Global, s}

(* A RUNNING row written before the lease columns existed (C013): no token,*)
(* no owner, and started_at for want of a heartbeat.                       *)
LegacyRow(scope) ==
  [status |-> "RUNNING", kind |-> "EXECUTION", scope |-> scope,
   startedAt |-> 0, heartbeatAt |-> 0, token |-> 0, owner |-> NoProc,
   identified |-> FALSE]

-----------------------------------------------------------------------------
Init ==
  /\ \E first \in {NoRow} \cup {LegacyRow(scope) : scope \in Scope} :
       runs = [id \in RunId |-> IF id = 1 THEN first ELSE NoRow]
  /\ minted = 0
  /\ now = 0
  /\ up = [p \in Proc |-> "unborn"]
  /\ identified = [p \in Proc |-> FALSE]
  /\ owned = [p \in Proc |-> [id \in RunId |-> NoHandle]]
  /\ pc = [p \in Proc |-> "idle"]
  /\ request = [p \in Proc |-> NoRequest]
  /\ scanned = [p \in Proc |-> {}]
  /\ abandoned = [p \in Proc |-> {}]
  /\ lastWriter = [s \in Source |-> 0]

Idle(p) == up[p] = "alive" /\ pc[p] = "idle"

PidInUse(pid, host) ==
  \E q \in Proc : up[q] = "alive" /\ PidOf[q] = pid /\ HostOf[q] = host

(***************************************************************************)
(* The world around the stores.                                            *)
(***************************************************************************)
SetClock(t) ==
  /\ t # now
  /\ t > now \/ ClockMayStepBack
  /\ now' = t
  /\ UNCHANGED <<store, up, identified, local>>

(* A process starts, under a PID no live process has, and opens the        *)
(* repository: the store reads its own identity, then recovers.            *)
Launch(p) ==
  /\ up[p] = "unborn"
  /\ ~PidInUse(PidOf[p], HostOf[p])
  /\ up' = [up EXCEPT ![p] = "alive"]
  /\ \E known \in {TRUE, ~ProbeMayFail} :
       identified' = [identified EXCEPT ![p] = known]
  /\ pc' = [pc EXCEPT ![p] = "scan"]
  /\ UNCHANGED <<store, now, owned, request, scanned, abandoned>>

(* A process dies anywhere; what it held in memory is gone.                *)
Crash(p) ==
  /\ up[p] = "alive"
  /\ up' = [up EXCEPT ![p] = "dead"]
  /\ owned' = [owned EXCEPT ![p] = [id \in RunId |-> NoHandle]]
  /\ pc' = [pc EXCEPT ![p] = "idle"]
  /\ request' = [request EXCEPT ![p] = NoRequest]
  /\ scanned' = [scanned EXCEPT ![p] = {}]
  /\ abandoned' = [abandoned EXCEPT ![p] = {}]
  /\ identified' = [identified EXCEPT ![p] = FALSE]
  /\ UNCHANGED <<store, now>>

-----------------------------------------------------------------------------
(***************************************************************************)
(* start(): recover abandoned runs, then insert the new one.               *)
(***************************************************************************)
Start(p, kind, scope) ==
  /\ Idle(p)
  /\ request' = [request EXCEPT
       ![p] = [kind |-> kind, scope |-> scope, startedAt |-> now]]
  /\ pc' = [pc EXCEPT ![p] = "scan"]
  /\ UNCHANGED <<store, now, up, identified, owned, scanned, abandoned>>

(* Where control returns when recovery is over.                            *)
AfterRecovery(p) == IF request[p].kind = "OPEN" THEN "idle" ELSE "insert"

(* SELECT_RUNNING_SYNC_RUN_LEASES_SQL, less the runs this store owns.      *)
RunningLeases(p) ==
  {[id |-> id, row |-> runs[id], readAt |-> now] : id \in
     {id \in RunId : Running(id) /\
        ~(owned[p][id].token # 0 /\ owned[p][id].token = runs[id].token)}}

Scan(p) ==
  /\ pc[p] = "scan"
  /\ scanned' = [scanned EXCEPT ![p] = RunningLeases(p)]
  /\ pc' = [pc EXCEPT ![p] =
       IF RunningLeases(p) = {} THEN AfterRecovery(p) ELSE "probe"]
  /\ UNCHANGED <<store, now, up, identified, owned, request, abandoned>>

(* Faulty variant: a PID that cannot be signalled is taken for a dead one. *)
NoPidSeemsAlive(owner) == FALSE

(* processAlive: some process of the owner's host has the owner's PID.     *)
OwnerPidAlive(owner) == PidInUse(PidOf[owner], HostOf[owner])

Expired(lease) == lease.readAt - lease.row.heartbeatAt > AbandonedAfter

(* Faulty variant: any process under the owner's PID passes for the owner. *)
PidIsIdentity(lease) == {"same"}

(* compareProcessIdentity: what two attempts at the probe of the process   *)
(* now using the owner's PID can answer.                                   *)
IdentityOutcomes(lease) ==
  LET recorded == lease.row.identified
      answer == IF up[lease.row.owner] = "alive" THEN "same" ELSE "different"
  IN  (IF recorded THEN {answer} ELSE {"unavailable"})
        \cup (IF ProbeMayFail THEN {"unavailable"} ELSE {})

(* isAbandoned: the verdicts the store can reach on a lease.               *)
Verdicts(p, lease) ==
  LET owner == lease.row.owner IN
  IF owner # NoProc /\ HostOf[owner] = HostOf[p]
  THEN IF ~OwnerPidAlive(owner) THEN {TRUE}
       ELSE {CASE outcome = "same" -> FALSE
               [] outcome = "different" -> TRUE
               [] outcome = "unavailable" -> Expired(lease) :
               outcome \in IdentityOutcomes(lease)}
  ELSE {Expired(lease)}

(* One row is judged, outside any transaction.                             *)
Probe(p, lease) ==
  /\ pc[p] = "probe"
  /\ lease \in scanned[p]
  /\ \E verdict \in Verdicts(p, lease) :
       LET judged == IF verdict THEN abandoned[p] \cup {lease}
                     ELSE abandoned[p]
       IN  /\ abandoned' = [abandoned EXCEPT ![p] = judged]
           /\ pc' = [pc EXCEPT ![p] =
                IF scanned[p] # {lease} THEN "probe"
                ELSE IF judged = {} THEN AfterRecovery(p) ELSE "recover"]
  /\ scanned' = [scanned EXCEPT ![p] = @ \ {lease}]
  /\ UNCHANGED <<store, now, up, identified, owned, request>>

(* Faulty variants: the row is fenced whatever happened to its heartbeat,  *)
(* or even to its status, since it was read.                               *)
LeasedDespiteHeartbeat(lease) ==
  /\ runs[lease.id].status = "RUNNING"
  /\ runs[lease.id].token = lease.row.token

LeasedDespiteStatus(lease) == runs[lease.id].startedAt = lease.row.startedAt

(* RECOVER_ABANDONED_SYNC_RUN_SQL's predicates: the row still is RUNNING   *)
(* under the very lease that was read.                                     *)
StillLeased(lease) ==
  LET row == runs[lease.id] IN
  /\ row.status = "RUNNING"
  /\ row.startedAt = lease.row.startedAt
  /\ row.heartbeatAt = lease.row.heartbeatAt
  /\ row.token = lease.row.token
  /\ row.owner = lease.row.owner

(* A row that reaches a terminal status gives up its owner columns; its    *)
(* last heartbeat is never read again and is not kept.                     *)
Ended(row, status) ==
  [status |-> status, kind |-> row.kind, scope |-> row.scope,
   startedAt |-> row.startedAt, heartbeatAt |-> 0, token |-> 0,
   owner |-> NoProc, identified |-> FALSE]

Recover(p) ==
  /\ pc[p] = "recover"
  /\ runs' = [id \in RunId |->
       IF \E lease \in abandoned[p] : lease.id = id /\ StillLeased(lease)
       THEN Ended(runs[id], "FAILED")
       ELSE runs[id]]
  /\ abandoned' = [abandoned EXCEPT ![p] = {}]
  /\ pc' = [pc EXCEPT ![p] = AfterRecovery(p)]
  /\ UNCHANGED <<minted, lastWriter, now, up, identified, owned, request,
                 scanned>>

(* sync_runs.id is a rowid without AUTOINCREMENT: one more than the largest*)
(* in the table, so an id is reused once its row has been deleted.         *)
IsNextRunId(id) ==
  /\ \A other \in RunId : runs[other].status # "ABSENT" => other < id
  /\ \A other \in RunId : other = id - 1 => runs[other].status # "ABSENT"

(* Faulty variants: a global run, about to start or active, blocks nothing.*)
SameSourceBlocked(req) ==
  /\ req.kind = "EXECUTION"
  /\ \E id \in RunId : Executing(id) /\ runs[id].scope = req.scope

RequestedScopeBlocked(req) ==
  /\ req.kind = "EXECUTION"
  /\ \E id \in RunId :
       Executing(id) /\ (req.scope = Global \/ runs[id].scope = req.scope)

(* tr_sync_runs_guard_execution_scope_insert                               *)
ScopeBlocked(req) ==
  /\ req.kind = "EXECUTION"
  /\ \E id \in RunId : Executing(id) /\ Overlap(runs[id].scope, req.scope)

(* Faulty variant: the process identity without the random part.           *)
ProcessToken == Cardinality({q \in Proc : up[q] # "unborn"})

(* ownerTokenFactory: a token nobody else holds.                           *)
MintedToken == minted + 1

NewRow(p, token) ==
  [status |-> "RUNNING", kind |-> request[p].kind, scope |-> request[p].scope,
   startedAt |-> request[p].startedAt, heartbeatAt |-> request[p].startedAt,
   token |-> token, owner |-> p, identified |-> identified[p]]

Insert(p) ==
  /\ pc[p] = "insert"
  /\ minted < MaxToken
  /\ minted' = minted + 1
  /\ \/ /\ ScopeBlocked(request[p])     \* CATALOG_SYNC_RUN_ALREADY_RUNNING
        /\ UNCHANGED <<runs, owned>>
     \/ /\ ~ScopeBlocked(request[p])
        /\ \E id \in RunId :
             /\ IsNextRunId(id)
             /\ runs' = [runs EXCEPT ![id] = NewRow(p, MintedToken)]
             /\ owned' = [owned EXCEPT ![p][id] =
                  [token |-> MintedToken, kind |-> request[p].kind,
                   scope |-> request[p].scope]]
  /\ pc' = [pc EXCEPT ![p] = "idle"]
  /\ request' = [request EXCEPT ![p] = NoRequest]
  /\ UNCHANGED <<lastWriter, now, up, identified, scanned, abandoned>>

-----------------------------------------------------------------------------
(***************************************************************************)
(* The calls made while a run is in progress.                              *)
(***************************************************************************)
(* Faulty variant: the handle in memory is trusted.                        *)
HoldsHandle(p, id) == owned[p][id].token # 0

HoldsLease(p, id) ==
  Running(id) /\ runs[id].token = owned[p][id].token

(* A catalogue transaction that carries an observation of run id, on a     *)
(* document of source s: renewOwnedRun touches the heartbeat, or drops the *)
(* handle and aborts the whole transaction.                                *)
PersistObservation(p, id, s) ==
  /\ Idle(p)
  /\ owned[p][id].token # 0
  /\ owned[p][id].kind = "EXECUTION"
  /\ Covers(owned[p][id].scope, s)
  /\ \/ /\ HoldsLease(p, id)
        /\ runs' = [runs EXCEPT ![id].heartbeatAt = now]
        /\ lastWriter' = [lastWriter EXCEPT ![s] = owned[p][id].token]
        /\ UNCHANGED owned
     \/ /\ ~HoldsLease(p, id)         \* CATALOG_SYNC_RUN_OWNERSHIP_LOST
        /\ owned' = [owned EXCEPT ![p][id] = NoHandle]
        /\ UNCHANGED <<runs, lastWriter>>
  /\ UNCHANGED <<minted, now, up, identified, pc, request, scanned,
                 abandoned>>

(* complete() when its transaction commits.                                *)
Complete(p, id, status) ==
  /\ Idle(p)
  /\ owned[p][id].token # 0
  /\ HoldsLease(p, id)
  /\ now >= runs[id].startedAt
  /\ runs' = [runs EXCEPT ![id] = Ended(@, status)]
  /\ owned' = [owned EXCEPT ![p][id] = NoHandle]
  /\ UNCHANGED <<minted, lastWriter, now, up, identified, pc, request,
                 scanned, abandoned>>

(* Faulty variant: any refused completion drops the handle.                *)
DroppedHandle(p, id) == NoHandle

(* reconcileCompletionOwnership: after a refused completion the handle is  *)
(* kept only while the row still is this store's lease.                    *)
HandleAfterFailure(p, id) ==
  IF HoldsLease(p, id) THEN owned[p][id] ELSE NoHandle

(* complete() when it throws: the lease is lost, the row is gone, or the   *)
(* completion would precede the start.                                     *)
FailToComplete(p, id) ==
  /\ Idle(p)
  /\ owned[p][id].token # 0
  /\ ~HoldsLease(p, id) \/ now < runs[id].startedAt
  /\ owned' = [owned EXCEPT ![p][id] = HandleAfterFailure(p, id)]
  /\ UNCHANGED <<store, now, up, identified, pc, request, scanned, abandoned>>

(***************************************************************************)
(* deleteExpiredSyncRuns: terminal runs that are old and not among the     *)
(* newest RetainedRuns terminal ones leave the table.                      *)
(***************************************************************************)
Finished(id) == runs[id].status \in Terminal

Newer(a, b) ==
  \/ runs[a].startedAt > runs[b].startedAt
  \/ runs[a].startedAt = runs[b].startedAt /\ a > b

ExpiredRuns ==
  {id \in RunId :
     /\ Finished(id)
     /\ runs[id].startedAt < now - RetainedAge
     /\ Cardinality({n \in RunId : Finished(n) /\ Newer(n, id)})
          >= RetainedRuns}

DeleteExpiredRuns ==
  /\ ExpiredRuns # {}
  /\ runs' = [id \in RunId |-> IF id \in ExpiredRuns THEN NoRow ELSE runs[id]]
  /\ UNCHANGED <<minted, lastWriter, now, up, identified, local>>

-----------------------------------------------------------------------------
Next ==
  \/ \E t \in Time : SetClock(t)
  \/ DeleteExpiredRuns
  \/ \E p \in Proc :
       \/ Launch(p)
       \/ Crash(p)
       \/ \E r \in Requests : Start(p, r[1], r[2])
       \/ Scan(p)
       \/ \E lease \in scanned[p] : Probe(p, lease)
       \/ Recover(p)
       \/ Insert(p)
       \/ \E id \in RunId, s \in Source : PersistObservation(p, id, s)
       \/ \E id \in RunId, status \in Terminal : Complete(p, id, status)
       \/ \E id \in RunId : FailToComplete(p, id)

Spec == Init /\ [][Next]_vars

(* A store that began recovery goes on: the call is synchronous.           *)
RecoveryStep(p) ==
  Scan(p) \/ (\E lease \in scanned[p] : Probe(p, lease)) \/ Recover(p)

FairSpec == Spec /\ \A p \in Proc : WF_vars(RecoveryStep(p))

-----------------------------------------------------------------------------
TypeOK ==
  /\ runs \in [RunId -> Row]
  /\ minted \in 0 .. MaxToken
  /\ now \in Time
  /\ up \in [Proc -> {"unborn", "alive", "dead"}]
  /\ identified \in [Proc -> BOOLEAN]
  /\ owned \in [Proc -> [RunId -> Handle]]
  /\ pc \in [Proc -> {"idle", "scan", "probe", "recover", "insert"}]
  /\ request \in [Proc -> Request]
  /\ scanned \in [Proc -> SUBSET Lease]
  /\ abandoned \in [Proc -> SUBSET Lease]
  /\ lastWriter \in [Source -> 0 .. MaxToken]

(* C014: two execution runs over a common source are never RUNNING at once *)
(* whatever the processes do, and a global run excludes every other.       *)
ScopeExclusion ==
  \A a, b \in RunId :
    Executing(a) /\ Executing(b) /\ a # b =>
      ~Overlap(runs[a].scope, runs[b].scope)

(* A live process never forgets a lease it still holds: were the handle of *)
(* a RUNNING row dropped while its owner lives, nobody could complete the  *)
(* run, and its owner's identity would shield it from recovery.            *)
LiveOwnerKeepsHandle ==
  \A id \in RunId :
    LET owner == runs[id].owner IN
    Running(id) /\ owner # NoProc =>
      (up[owner] = "alive" => owned[owner][id].token = runs[id].token)

(* A token identifies one lease: a RUNNING row whose token is in some      *)
(* process's memory is that process's run, under the same id and for the   *)
(* request it made, also after ids were reused.                            *)
HandlesMatchRows ==
  \A p \in Proc, id, other \in RunId :
    owned[p][id].token # 0 /\ Running(other)
      /\ owned[p][id].token = runs[other].token
    => /\ other = id
       /\ runs[id].owner = p
       /\ runs[id].kind = owned[p][id].kind
       /\ runs[id].scope = owned[p][id].scope

(* Tokens are issued in increasing order, and nothing ran ahead of them.   *)
TokensAreMinted ==
  /\ \A id \in RunId : runs[id].token <= minted
  /\ \A p \in Proc, id \in RunId : owned[p][id].token <= minted
  /\ \A s \in Source : lastWriter[s] <= minted

(* Nobody who came after the run in progress has written to its sources.   *)
LeaseholderIsLatestWriter ==
  \A id \in RunId, s \in Source :
    Executing(id) /\ Covers(runs[id].scope, s) => lastWriter[s] <= runs[id].token

(* start() reaches its INSERT only with a request.                         *)
InsertsAreRequested ==
  \A p \in Proc : pc[p] = "insert" => request[p].kind # "OPEN"

(* The inductive invariant of the leases.                                  *)
LeaseInv ==
  /\ ScopeExclusion
  /\ HandlesMatchRows
  /\ TokensAreMinted
  /\ LeaseholderIsLatestWriter
  /\ InsertsAreRequested

(* A finished run is history: its row never changes again, until retention *)
(* removes it.                                                             *)
FinishedRunsAreFrozen ==
  [][\A id \in RunId :
       Finished(id) => runs'[id] = runs[id] \/ runs'[id] = NoRow]_vars

Fences(p, id) ==
  /\ pc[p] = "recover" /\ pc'[p] # "recover" /\ up'[p] = "alive"
  /\ Running(id) /\ runs'[id].status = "FAILED"

(* Recovery fences a run only if its owner is dead, or if its heartbeat, as*)
(* stored at that very moment, had expired when recovery read the clock;   *)
(* and while probes answer, a live owner on the same host is never fenced. *)
FencingIsJustified ==
  [][\A p \in Proc, id \in RunId : Fences(p, id) =>
       LET owner == runs[id].owner
           expired == \E lease \in abandoned[p] :
             /\ lease.id = id
             /\ lease.readAt - runs[id].heartbeatAt > AbandonedAfter
       IN  IF owner = NoProc THEN expired
           ELSE \/ up[owner] = "dead"
                \/ expired /\ (ProbeMayFail \/ HostOf[owner] # HostOf[p])]_vars

(* Fencing tokens: once a later run has written to a source, no observation*)
(* of an earlier run over that source is ever persisted.                   *)
WritersInTokenOrder ==
  [][\A s \in Source : lastWriter'[s] >= lastWriter[s]]_vars

(* One start (or one opening of the repository) is enough to release every *)
(* run whose owner had died on the same host, PID reuse included, as long  *)
(* as identity probes answer.                                              *)
DeadOwnersAreReleased ==
  \A p \in Proc, t \in Token :
    (/\ pc[p] = "scan"
     /\ \E id \in RunId :
          /\ Running(id) /\ runs[id].token = t
          /\ up[runs[id].owner] = "dead"
          /\ HostOf[runs[id].owner] = HostOf[p])
    ~> (\/ \A id \in RunId : ~(Running(id) /\ runs[id].token = t)
        \/ up[p] = "dead")

(* The scopes of the runs in execution are leases in the sense of          *)
(* SyncScopeLease, and the transactions that carry an observation are its  *)
(* writes.                                                                 *)
ScopeLeases ==
  {[token |-> runs[id].token, scope |-> runs[id].scope] :
     id \in {id \in RunId : Executing(id)}}

Leases == INSTANCE SyncScopeLease
            WITH active <- ScopeLeases, issued <- minted

ImplementsScopeLease == Leases!LeaseSpec
=============================================================================
