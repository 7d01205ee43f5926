------------------------ MODULE CatalogSyncRunsProofs -----------------------
(***************************************************************************)
(* Theorems about CatalogSyncRuns, for every set of processes and sources  *)
(* and every bound.                                                        *)
(***************************************************************************)
EXTENDS CatalogSyncRuns, TLAPS

USE DEF RunId, Token, Time, Scope, Kind, Terminal

-----------------------------------------------------------------------------
(***************************************************************************)
(* Type correctness.                                                       *)
(***************************************************************************)
LEMMA NoRowType == NoRow \in Row
  BY BoundAssumption DEF NoRow, Row

LEMMA NoHandleType == NoHandle \in Handle
  BY BoundAssumption DEF NoHandle, Handle

LEMMA NoRequestType == NoRequest \in Request
  BY BoundAssumption DEF NoRequest, Request

LEMMA LegacyRowType ==
  ASSUME NEW scope \in Scope
  PROVE  /\ LegacyRow(scope) \in Row
         /\ LegacyRow(scope).status = "RUNNING"
         /\ LegacyRow(scope).token = 0
         /\ LegacyRow(scope).scope = scope
         /\ LegacyRow(scope).kind = "EXECUTION"
  BY BoundAssumption DEF LegacyRow, NoRow, Row

LEMMA EndedType ==
  ASSUME NEW row \in Row, NEW status \in Terminal
  PROVE  /\ Ended(row, status) \in Row
         /\ Ended(row, status).status = status
         /\ Ended(row, status).token = 0
  BY BoundAssumption DEF Row, Ended

LEMMA RenewedType ==
  ASSUME NEW row \in Row, NEW time \in Time
  PROVE  [row EXCEPT !.heartbeatAt = time] \in Row
  <1> DEFINE renewed == [row EXCEPT !.heartbeatAt = time]
  <1>1. renewed = [status |-> row.status, kind |-> row.kind,
                   scope |-> row.scope, startedAt |-> row.startedAt,
                   heartbeatAt |-> time, token |-> row.token,
                   owner |-> row.owner, identified |-> row.identified]
    BY DEF Row
  <1> QED
    BY <1>1 DEF Row

LEMMA InitTypeOK == Init => TypeOK
  <1> SUFFICES ASSUME Init PROVE TypeOK
    OBVIOUS
  <1>1. runs \in [RunId -> Row]
    BY NoRowType, LegacyRowType DEF Init
  <1>2. 0 \in Time /\ 0 \in 0 .. MaxToken
    BY BoundAssumption
  <1>3. owned \in [Proc -> [RunId -> Handle]] /\ request \in [Proc -> Request]
    BY NoHandleType, NoRequestType DEF Init
  <1>4. /\ minted \in 0 .. MaxToken /\ now \in Time
        /\ lastWriter \in [Source -> 0 .. MaxToken]
    BY <1>2 DEF Init
  <1>5. /\ up \in [Proc -> {"unborn", "alive", "dead"}]
        /\ identified \in [Proc -> BOOLEAN]
        /\ pc \in [Proc -> {"idle", "scan", "probe", "recover", "insert"}]
        /\ scanned \in [Proc -> SUBSET Lease]
        /\ abandoned \in [Proc -> SUBSET Lease]
    BY DEF Init
  <1> QED
    BY <1>1, <1>3, <1>4, <1>5 DEF TypeOK

LEMMA StartTypeOK ==
  ASSUME TypeOK, NEW p \in Proc, NEW r \in Requests, Start(p, r[1], r[2])
  PROVE  TypeOK'
  <1>1. r[1] \in Kind /\ r[2] \in Scope
    BY ScopeAssumption
  <1>2. [kind |-> r[1], scope |-> r[2], startedAt |-> now] \in Request
    BY <1>1 DEF TypeOK, Request
  <1> QED
    BY <1>2 DEF TypeOK, Start, store

LEMMA ScanTypeOK ==
  ASSUME TypeOK, NEW p \in Proc, Scan(p)
  PROVE  TypeOK'
  <1>1. RunningLeases(p) \in SUBSET Lease
    BY DEF RunningLeases, Lease, TypeOK
  <1> QED
    BY <1>1 DEF TypeOK, Scan, store, AfterRecovery

LEMMA ProbeTypeOK ==
  ASSUME TypeOK, NEW p \in Proc, NEW lease \in scanned[p], Probe(p, lease)
  PROVE  TypeOK'
  <1>1. lease \in Lease
    BY DEF TypeOK
  <1> QED
    BY <1>1 DEF TypeOK, Probe, store, AfterRecovery

LEMMA RecoverTypeOK ==
  ASSUME TypeOK, NEW p \in Proc, Recover(p)
  PROVE  TypeOK'
  <1>1. ASSUME NEW id \in RunId
        PROVE  Ended(runs[id], "FAILED") \in Row /\ runs[id] \in Row
    BY EndedType DEF TypeOK
  <1>2. runs' \in [RunId -> Row]
    BY <1>1 DEF Recover
  <1> QED
    BY <1>2 DEF TypeOK, Recover, AfterRecovery

LEMMA NewRowType ==
  ASSUME TypeOK, NEW p \in Proc, request[p].kind # "OPEN",
         NEW token \in 0 .. MaxToken
  PROVE  NewRow(p, token) \in Row
  <1>1. request[p] \in Request
    BY DEF TypeOK
  <1>2. /\ request[p].kind \in Kind
        /\ request[p].scope \in Scope
        /\ request[p].startedAt \in Time
    BY <1>1 DEF Request
  <1>3. identified[p] \in BOOLEAN
    BY DEF TypeOK
  <1> QED
    BY <1>2, <1>3 DEF NewRow, Row

LEMMA InsertTypeOK ==
  ASSUME TypeOK, InsertsAreRequested, NEW p \in Proc, Insert(p)
  PROVE  TypeOK'
  <1>1. request[p].kind # "OPEN" /\ request[p] \in Request
    BY DEF InsertsAreRequested, Insert, TypeOK
  <1>2. minted' \in 0 .. MaxToken /\ MintedToken \in 0 .. MaxToken
    BY BoundAssumption DEF Insert, TypeOK, MintedToken
  <1>3. NewRow(p, MintedToken) \in Row
    BY <1>1, <1>2, NewRowType
  <1>4. [token |-> MintedToken, kind |-> request[p].kind,
         scope |-> request[p].scope] \in Handle
    BY <1>1, <1>2 DEF Handle, Request
  <1>5. runs' \in [RunId -> Row]
    BY <1>3 DEF TypeOK, Insert
  <1>6. owned' \in [Proc -> [RunId -> Handle]]
    <2> DEFINE handle == [token |-> MintedToken, kind |-> request[p].kind,
                          scope |-> request[p].scope]
    <2>1. \/ owned' = owned
          \/ \E id \in RunId :
               owned' = [owned EXCEPT ![p] = [owned[p] EXCEPT ![id] = handle]]
      BY DEF Insert
    <2>2. handle \in Handle
      BY <1>4
    <2>3. ASSUME NEW id \in RunId
          PROVE  [owned[p] EXCEPT ![id] = handle] \in [RunId -> Handle]
      <3> HIDE DEF handle
      <3> QED
        BY <2>2 DEF TypeOK
    <2> HIDE DEF handle
    <2> QED
      BY <2>1, <2>3 DEF TypeOK
  <1> QED
    BY <1>2, <1>5, <1>6, NoRequestType DEF TypeOK, Insert

LEMMA NextTypeOK ==
  ASSUME TypeOK, InsertsAreRequested, [Next]_vars
  PROVE  TypeOK'
  <1>1. CASE UNCHANGED vars
    BY <1>1 DEF TypeOK, vars, store, local
  <1>2. ASSUME NEW t \in Time, SetClock(t) PROVE TypeOK'
    BY <1>2 DEF TypeOK, SetClock, store, local
  <1>3. CASE DeleteExpiredRuns
    BY <1>3, NoRowType DEF TypeOK, DeleteExpiredRuns, local
  <1>4. ASSUME NEW p \in Proc, Launch(p) PROVE TypeOK'
    BY <1>4, BoundAssumption DEF TypeOK, Launch, store
  <1>5. ASSUME NEW p \in Proc, Crash(p) PROVE TypeOK'
    BY <1>5, NoHandleType, NoRequestType DEF TypeOK, Crash, store
  <1>6. ASSUME NEW p \in Proc, NEW id \in RunId, NEW s \in Source,
               PersistObservation(p, id, s)
        PROVE TypeOK'
    <2>1. CASE HoldsLease(p, id)
      <3>1. [runs[id] EXCEPT !.heartbeatAt = now] \in Row
        <4>1. runs[id] \in Row /\ now \in Time
          BY DEF TypeOK
        <4> QED
          BY <4>1, RenewedType
      <3>2. owned[p][id].token \in 0 .. MaxToken
        BY DEF TypeOK, Handle
      <3>3. runs' = [runs EXCEPT ![id] = [runs[id] EXCEPT !.heartbeatAt = now]]
        BY <1>6, <2>1 DEF PersistObservation
      <3> QED
        BY <1>6, <2>1, <3>1, <3>2, <3>3 DEF TypeOK, PersistObservation
    <2>2. CASE ~HoldsLease(p, id)
      <3>1. owned' = [owned EXCEPT ![p] = [owned[p] EXCEPT ![id] = NoHandle]]
        BY <1>6, <2>2 DEF PersistObservation
      <3>2. owned' \in [Proc -> [RunId -> Handle]]
        BY <3>1, NoHandleType DEF TypeOK
      <3> QED
        BY <1>6, <2>2, <3>2 DEF TypeOK, PersistObservation
    <2> QED
      BY <2>1, <2>2
  <1>7. ASSUME NEW p \in Proc, NEW id \in RunId, NEW status \in Terminal,
               Complete(p, id, status)
        PROVE TypeOK'
    <2>1. Ended(runs[id], status) \in Row
      BY EndedType DEF TypeOK
    <2> QED
      BY <1>7, <2>1, NoHandleType DEF TypeOK, Complete
  <1>8. ASSUME NEW p \in Proc, NEW id \in RunId, FailToComplete(p, id)
        PROVE TypeOK'
    BY <1>8, NoHandleType DEF TypeOK, FailToComplete, HandleAfterFailure, store
  <1> QED
    BY <1>1, <1>2, <1>3, <1>4, <1>5, <1>6, <1>7, <1>8, StartTypeOK, ScanTypeOK,
       ProbeTypeOK, RecoverTypeOK, InsertTypeOK DEF Next

-----------------------------------------------------------------------------
(***************************************************************************)
(* The lease invariant.  Only five actions touch runs, owned, minted or    *)
(* lastWriter; the others are dealt with together.                         *)
(***************************************************************************)
LEMMA TokensAreNaturals ==
  ASSUME TypeOK
  PROVE  /\ minted \in Nat
         /\ \A id \in RunId : runs[id].token \in Nat
         /\ \A p \in Proc, id \in RunId : owned[p][id].token \in Nat
         /\ \A s \in Source : lastWriter[s] \in Nat
  <1>1. \A id \in RunId : runs[id] \in Row
    BY DEF TypeOK
  <1>2. \A p \in Proc, id \in RunId : owned[p][id] \in Handle
    BY DEF TypeOK
  <1>3. 0 .. MaxToken \subseteq Nat
    BY BoundAssumption
  <1>4. minted \in Nat /\ \A s \in Source : lastWriter[s] \in Nat
    BY <1>3 DEF TypeOK
  <1>5. \A id \in RunId : runs[id].token \in Nat
    BY <1>1, <1>3 DEF Row
  <1>6. \A p \in Proc, id \in RunId : owned[p][id].token \in Nat
    BY <1>2, <1>3 DEF Handle
  <1> QED
    BY <1>4, <1>5, <1>6

LEMMA InitLeaseInv == Init => LeaseInv
  <1> SUFFICES ASSUME Init PROVE LeaseInv
    OBVIOUS
  <1>1. \A id \in RunId : runs[id].token = 0
    BY LegacyRowType DEF Init, NoRow
  <1>2. \A id \in RunId : Running(id) => id = 1
    BY DEF Init, Running, NoRow
  <1>3. \A p \in Proc, id \in RunId : owned[p][id].token = 0
    BY DEF Init, NoHandle
  <1>4. ScopeExclusion
    BY <1>2 DEF ScopeExclusion, Executing
  <1>5. HandlesMatchRows
    BY <1>3 DEF HandlesMatchRows
  <1>6. TokensAreMinted
    BY <1>1, <1>3 DEF TokensAreMinted, Init
  <1>7. LeaseholderIsLatestWriter
    BY <1>1 DEF LeaseholderIsLatestWriter, Init
  <1>8. InsertsAreRequested
    BY DEF InsertsAreRequested, Init
  <1> QED
    BY <1>4, <1>5, <1>6, <1>7, <1>8 DEF LeaseInv

(* A step that changes none of the lease state keeps the invariant, if the *)
(* handles it leaves are empty or old ones.                                *)
LEMMA StoreUnchangedLeaseInv ==
  ASSUME TypeOK, LeaseInv, UNCHANGED store, InsertsAreRequested',
         \A p \in Proc, id \in RunId :
           owned'[p][id] = owned[p][id] \/ owned'[p][id] = NoHandle
  PROVE  LeaseInv'
  <1> USE DEF store
  <1>1. ScopeExclusion'
    BY DEF LeaseInv, ScopeExclusion, Executing, Running
  <1>2. HandlesMatchRows'
    BY DEF LeaseInv, HandlesMatchRows, Running, NoHandle
  <1>3. TokensAreMinted'
    <2>1. NoHandle.token = 0 /\ minted \in Nat
      BY BoundAssumption DEF NoHandle, TypeOK
    <2> QED
      BY <2>1 DEF LeaseInv, TokensAreMinted
  <1>4. LeaseholderIsLatestWriter'
    BY DEF LeaseInv, LeaseholderIsLatestWriter, Executing, Running
  <1> QED
    BY <1>1, <1>2, <1>3, <1>4 DEF LeaseInv

(* Ending or deleting rows keeps it too, with the handles that remain.     *)
LEMMA RowsEndLeaseInv ==
  ASSUME TypeOK, LeaseInv, UNCHANGED <<minted, lastWriter>>,
         InsertsAreRequested',
         \A id \in RunId :
           \/ runs'[id] = runs[id]
           \/ runs'[id].status # "RUNNING" /\ runs'[id].token = 0,
         \A p \in Proc, id \in RunId :
           owned'[p][id] = owned[p][id] \/ owned'[p][id] = NoHandle
  PROVE  LeaseInv'
  <1>1. \A id \in RunId : Running(id)' => runs'[id] = runs[id] /\ Running(id)
    BY DEF Running
  <1>2. ScopeExclusion'
    BY <1>1 DEF LeaseInv, ScopeExclusion, Executing
  <1>3. HandlesMatchRows'
    BY <1>1 DEF LeaseInv, HandlesMatchRows, NoHandle
  <1>4. TokensAreMinted'
    <2>1. NoHandle.token = 0 /\ minted \in Nat
      BY BoundAssumption DEF NoHandle, TypeOK
    <2> QED
      BY <2>1 DEF LeaseInv, TokensAreMinted
  <1>5. LeaseholderIsLatestWriter'
    BY <1>1 DEF LeaseInv, LeaseholderIsLatestWriter, Executing
  <1> QED
    BY <1>2, <1>3, <1>4, <1>5 DEF LeaseInv

LEMMA RecoverLeaseInv ==
  ASSUME TypeOK, LeaseInv, NEW p \in Proc, Recover(p)
  PROVE  LeaseInv'
  <1>1. ASSUME NEW id \in RunId
        PROVE  \/ runs'[id] = runs[id]
               \/ runs'[id].status # "RUNNING" /\ runs'[id].token = 0
    <2>1. runs'[id] = runs[id] \/ runs'[id] = Ended(runs[id], "FAILED")
      BY DEF Recover
    <2>2. runs[id] \in Row
      BY DEF TypeOK
    <2> QED
      BY <2>1, <2>2, EndedType
  <1>2. InsertsAreRequested'
    BY DEF Recover, AfterRecovery, LeaseInv, InsertsAreRequested, TypeOK
  <1> QED
    BY <1>1, <1>2, RowsEndLeaseInv DEF Recover

LEMMA CompleteLeaseInv ==
  ASSUME TypeOK, LeaseInv, NEW p \in Proc, NEW id \in RunId,
         NEW status \in Terminal, Complete(p, id, status)
  PROVE  LeaseInv'
  <1>1. ASSUME NEW other \in RunId
        PROVE  \/ runs'[other] = runs[other]
               \/ runs'[other].status # "RUNNING" /\ runs'[other].token = 0
    <2>1. \/ runs'[other] = runs[other]
          \/ runs'[other] = Ended(runs[id], status)
      BY DEF Complete, TypeOK
    <2>2. runs[id] \in Row
      BY DEF TypeOK
    <2> QED
      BY <2>1, <2>2, EndedType
  <1>2. InsertsAreRequested'
    BY DEF Complete, LeaseInv, InsertsAreRequested
  <1>3. owned' = [owned EXCEPT ![p] = [owned[p] EXCEPT ![id] = NoHandle]]
    BY DEF Complete
  <1>4. \A q \in Proc, i \in RunId :
          owned'[q][i] = owned[q][i] \/ owned'[q][i] = NoHandle
    BY <1>3 DEF TypeOK
  <1> QED
    BY <1>1, <1>2, <1>4, RowsEndLeaseInv DEF Complete

LEMMA DeleteLeaseInv ==
  ASSUME TypeOK, LeaseInv, DeleteExpiredRuns
  PROVE  LeaseInv'
  <1>1. \A id \in RunId :
          \/ runs'[id] = runs[id]
          \/ runs'[id].status # "RUNNING" /\ runs'[id].token = 0
    BY DEF DeleteExpiredRuns, NoRow
  <1>2. InsertsAreRequested'
    BY DEF DeleteExpiredRuns, local, LeaseInv, InsertsAreRequested
  <1> QED
    BY <1>1, <1>2, RowsEndLeaseInv DEF DeleteExpiredRuns, local

(* A renewal moves a heartbeat and nothing else, and its writer is the     *)
(* leaseholder, which no other run in execution shares the source with.    *)
LEMMA RenewalLeaseInv ==
  ASSUME TypeOK, LeaseInv, NEW p \in Proc, NEW id \in RunId, NEW s \in Source,
         PersistObservation(p, id, s), HoldsLease(p, id)
  PROVE  /\ LeaseInv'
         /\ Executing(id) /\ Covers(runs[id].scope, s)
         /\ lastWriter' = [lastWriter EXCEPT ![s] = runs[id].token]
         /\ \A i \in RunId :
              /\ runs'[i].status = runs[i].status
              /\ runs'[i].kind = runs[i].kind
              /\ runs'[i].scope = runs[i].scope
              /\ runs'[i].token = runs[i].token
  <1>1. /\ runs' = [runs EXCEPT ![id] = [runs[id] EXCEPT !.heartbeatAt = now]]
        /\ lastWriter' = [lastWriter EXCEPT ![s] = owned[p][id].token]
        /\ UNCHANGED <<minted, owned, pc, request>>
        /\ owned[p][id].token # 0 /\ owned[p][id].kind = "EXECUTION"
        /\ Covers(owned[p][id].scope, s)
        /\ Running(id) /\ runs[id].token = owned[p][id].token
    BY DEF PersistObservation, HoldsLease
  <1>2. /\ runs[id].kind = "EXECUTION" /\ Covers(runs[id].scope, s)
        /\ Executing(id)
    BY <1>1 DEF LeaseInv, HandlesMatchRows, Executing
  <1>3. ASSUME NEW i \in RunId
        PROVE  /\ runs'[i].status = runs[i].status
               /\ runs'[i].kind = runs[i].kind
               /\ runs'[i].scope = runs[i].scope
               /\ runs'[i].token = runs[i].token
               /\ runs'[i].owner = runs[i].owner
    <2>1. runs[i] \in Row
      BY DEF TypeOK
    <2>2. runs'[i] = runs[i] \/ runs'[i] = [runs[i] EXCEPT !.heartbeatAt = now]
      BY <1>1 DEF TypeOK
    <2> QED
      BY <2>1, <2>2 DEF Row
  <1>4. ScopeExclusion'
    BY <1>3 DEF LeaseInv, ScopeExclusion, Executing, Running
  <1>5. HandlesMatchRows'
    BY <1>1, <1>3 DEF LeaseInv, HandlesMatchRows, Running
  <1>6. TokensAreMinted'
    BY <1>1, <1>3 DEF LeaseInv, TokensAreMinted, TypeOK
  <1>7. LeaseholderIsLatestWriter'
    <2> SUFFICES ASSUME NEW i \in RunId, NEW t \in Source,
                        Executing(i), Covers(runs[i].scope, t)
                 PROVE  lastWriter'[t] <= runs[i].token
      BY <1>3 DEF LeaseholderIsLatestWriter, Executing, Running
    <2>1. CASE t # s
      BY <1>1, <2>1 DEF LeaseInv, LeaseholderIsLatestWriter, TypeOK
    <2>2. CASE t = s
      <3>1. Overlap(runs[i].scope, runs[id].scope)
        BY <1>2, <2>2 DEF Covers, Overlap
      <3>2. i = id
        BY <1>2, <3>1 DEF LeaseInv, ScopeExclusion
      <3>3. runs[id].token \in Nat
        BY BoundAssumption DEF TypeOK, Row
      <3> QED
        BY <1>1, <2>2, <3>2, <3>3 DEF TypeOK
    <2> QED
      BY <2>1, <2>2
  <1>8. InsertsAreRequested'
    BY <1>1 DEF LeaseInv, InsertsAreRequested
  <1> QED
    BY <1>1, <1>2, <1>3, <1>4, <1>5, <1>6, <1>7, <1>8 DEF LeaseInv

LEMMA PersistLeaseInv ==
  ASSUME TypeOK, LeaseInv, NEW p \in Proc, NEW id \in RunId, NEW s \in Source,
         PersistObservation(p, id, s)
  PROVE  LeaseInv'
  <1>1. CASE HoldsLease(p, id)
    BY <1>1, RenewalLeaseInv
  <1>2. CASE ~HoldsLease(p, id)
    <2>1. owned' = [owned EXCEPT ![p] = [owned[p] EXCEPT ![id] = NoHandle]]
      BY <1>2 DEF PersistObservation
    <2>2. \A q \in Proc, i \in RunId :
            owned'[q][i] = owned[q][i] \/ owned'[q][i] = NoHandle
      BY <2>1 DEF TypeOK
    <2>3. UNCHANGED store /\ InsertsAreRequested'
      BY <1>2 DEF PersistObservation, store, LeaseInv, InsertsAreRequested
    <2> QED
      BY <2>2, <2>3, StoreUnchangedLeaseInv
  <1> QED
    BY <1>1, <1>2

(* The C014 guard and the freshness of the token carry the insertion.      *)
LEMMA InsertLeaseInv ==
  ASSUME TypeOK, LeaseInv, NEW p \in Proc, Insert(p)
  PROVE  LeaseInv'
  <1>1. InsertsAreRequested'
    BY DEF Insert, LeaseInv, InsertsAreRequested, TypeOK
  <1>2. /\ minted \in Nat /\ minted' = minted + 1 /\ lastWriter' = lastWriter
        /\ MintedToken = minted + 1
    BY BoundAssumption DEF TypeOK, Insert, MintedToken
  <1>3. CASE ScopeBlocked(request[p])
    <2>1. runs' = runs /\ owned' = owned
      BY <1>3 DEF Insert
    <2>2. ScopeExclusion' /\ HandlesMatchRows' /\ LeaseholderIsLatestWriter'
      BY <1>2, <2>1 DEF LeaseInv, ScopeExclusion, HandlesMatchRows,
         LeaseholderIsLatestWriter, Executing, Running
    <2>3. TokensAreMinted'
      BY <1>2, <2>1, TokensAreNaturals DEF LeaseInv, TokensAreMinted
    <2> QED
      BY <1>1, <2>2, <2>3 DEF LeaseInv
  <1>4. CASE ~ScopeBlocked(request[p])
    <2> DEFINE handle == [token |-> MintedToken, kind |-> request[p].kind,
                          scope |-> request[p].scope]
    <2>1. PICK new \in RunId :
            /\ IsNextRunId(new)
            /\ runs' = [runs EXCEPT ![new] = NewRow(p, MintedToken)]
            /\ owned' = [owned EXCEPT ![p] = [owned[p] EXCEPT ![new] = handle]]
      BY <1>4 DEF Insert
    <2>2. /\ runs'[new].status = "RUNNING"
          /\ runs'[new].kind = request[p].kind
          /\ runs'[new].scope = request[p].scope
          /\ runs'[new].token = minted + 1
          /\ runs'[new].owner = p
      BY <1>2, <2>1 DEF TypeOK, NewRow
    <2>3. \A id \in RunId : id # new => runs'[id] = runs[id]
      BY <2>1 DEF TypeOK
    <2>4. /\ owned'[p][new].token = minted + 1
          /\ owned'[p][new].kind = request[p].kind
          /\ owned'[p][new].scope = request[p].scope
      BY <1>2, <2>1 DEF TypeOK
    <2>5. \A q \in Proc, id \in RunId :
            ~(q = p /\ id = new) => owned'[q][id] = owned[q][id]
      BY <2>1 DEF TypeOK
    <2>6. /\ \A id \in RunId : runs[id].token \in Nat /\ runs[id].token <= minted
          /\ \A q \in Proc, id \in RunId :
               owned[q][id].token \in Nat /\ owned[q][id].token <= minted
          /\ \A s \in Source : lastWriter[s] \in Nat /\ lastWriter[s] <= minted
      BY TokensAreNaturals DEF LeaseInv, TokensAreMinted
    <2> HIDE DEF handle
    <2>7. ScopeExclusion'
      BY <1>4, <2>2, <2>3
         DEF LeaseInv, ScopeExclusion, ScopeBlocked, Executing, Running, Overlap
    <2>8. HandlesMatchRows'
      BY <1>2, <2>2, <2>3, <2>4, <2>5, <2>6
         DEF LeaseInv, HandlesMatchRows, Running
    <2>9. TokensAreMinted'
      BY <1>2, <2>2, <2>3, <2>4, <2>5, <2>6 DEF TokensAreMinted
    <2>10. LeaseholderIsLatestWriter'
      BY <1>2, <2>2, <2>3, <2>6
         DEF LeaseInv, LeaseholderIsLatestWriter, Executing, Running
    <2> QED
      BY <1>1, <2>7, <2>8, <2>9, <2>10 DEF LeaseInv
  <1> QED
    BY <1>3, <1>4

LEMMA NextLeaseInv ==
  ASSUME TypeOK, LeaseInv, [Next]_vars
  PROVE  LeaseInv'
  <1>1. CASE UNCHANGED vars
    BY <1>1, StoreUnchangedLeaseInv
       DEF vars, local, LeaseInv, InsertsAreRequested
  <1>2. ASSUME NEW t \in Time, SetClock(t) PROVE LeaseInv'
    BY <1>2, StoreUnchangedLeaseInv
       DEF SetClock, local, LeaseInv, InsertsAreRequested
  <1>3. ASSUME NEW p \in Proc, Launch(p) PROVE LeaseInv'
    BY <1>3, StoreUnchangedLeaseInv
       DEF Launch, LeaseInv, InsertsAreRequested, TypeOK
  <1>4. ASSUME NEW p \in Proc, Crash(p) PROVE LeaseInv'
    <2>1. InsertsAreRequested' /\ UNCHANGED store
      BY <1>4 DEF Crash, LeaseInv, InsertsAreRequested, TypeOK
    <2>2. \A q \in Proc, i \in RunId :
            owned'[q][i] = owned[q][i] \/ owned'[q][i] = NoHandle
      BY <1>4 DEF Crash, TypeOK
    <2> QED
      BY <2>1, <2>2, StoreUnchangedLeaseInv
  <1>5. ASSUME NEW p \in Proc, NEW r \in Requests, Start(p, r[1], r[2])
        PROVE  LeaseInv'
    <2>1. InsertsAreRequested' /\ UNCHANGED <<store, owned>>
      BY <1>5, ScopeAssumption DEF Start, LeaseInv, InsertsAreRequested, TypeOK
    <2> QED
      BY <2>1, StoreUnchangedLeaseInv
  <1>6. ASSUME NEW p \in Proc, Scan(p) PROVE LeaseInv'
    <2>1. InsertsAreRequested' /\ UNCHANGED <<store, owned>>
      BY <1>6 DEF Scan, AfterRecovery, LeaseInv, InsertsAreRequested, TypeOK
    <2> QED
      BY <2>1, StoreUnchangedLeaseInv
  <1>7. ASSUME NEW p \in Proc, NEW lease \in scanned[p], Probe(p, lease)
        PROVE  LeaseInv'
    <2>1. InsertsAreRequested' /\ UNCHANGED <<store, owned>>
      BY <1>7 DEF Probe, AfterRecovery, LeaseInv, InsertsAreRequested, TypeOK
    <2> QED
      BY <2>1, StoreUnchangedLeaseInv
  <1>8. ASSUME NEW p \in Proc, NEW id \in RunId, FailToComplete(p, id)
        PROVE  LeaseInv'
    <2>1. InsertsAreRequested' /\ UNCHANGED store
      BY <1>8 DEF FailToComplete, LeaseInv, InsertsAreRequested
    <2> DEFINE kept == HandleAfterFailure(p, id)
    <2>2. owned' = [owned EXCEPT ![p] = [owned[p] EXCEPT ![id] = kept]]
      BY <1>8 DEF FailToComplete
    <2>3. kept = owned[p][id] \/ kept = NoHandle
      BY DEF HandleAfterFailure
    <2> HIDE DEF kept
    <2>4. \A q \in Proc, i \in RunId :
            owned'[q][i] = owned[q][i] \/ owned'[q][i] = NoHandle
      BY <2>2, <2>3 DEF TypeOK
    <2> QED
      BY <2>1, <2>4, StoreUnchangedLeaseInv
  <1> QED
    BY <1>1, <1>2, <1>3, <1>4, <1>5, <1>6, <1>7, <1>8, RecoverLeaseInv,
       CompleteLeaseInv, DeleteLeaseInv, PersistLeaseInv, InsertLeaseInv
       DEF Next

(* Every reachable state is well typed and satisfies the lease invariant.  *)
THEOREM LeaseInvariant == Spec => [](TypeOK /\ LeaseInv)
  <1>1. Init => TypeOK /\ LeaseInv
    BY InitTypeOK, InitLeaseInv
  <1>2. TypeOK /\ LeaseInv /\ [Next]_vars => (TypeOK /\ LeaseInv)'
    BY NextTypeOK, NextLeaseInv DEF LeaseInv
  <1> QED
    BY <1>1, <1>2, PTL DEF Spec

(* Two execution runs over a common source are never RUNNING at once.      *)
THEOREM RunsExcludeEachOther == Spec => []ScopeExclusion
  BY LeaseInvariant, PTL DEF LeaseInv

-----------------------------------------------------------------------------
(***************************************************************************)
(* Owners and fencing.  What recovery knew when it judged a lease must     *)
(* still justify the fencing in the later transaction: lifetimes only go   *)
(* forward, and the transaction compares the heartbeat that was read.      *)
(***************************************************************************)
(* An owner on record has been alive, and had read its own identity unless *)
(* probes fail.                                                            *)
HasKnownOwner(row) ==
  row.owner # NoProc =>
    up[row.owner] # "unborn" /\ (row.identified \/ ProbeMayFail)

OwnersAreKnown ==
  /\ \A id \in RunId : Running(id) => HasKnownOwner(runs[id])
  /\ \A p \in Proc : \A lease \in scanned[p] \cup abandoned[p] :
       HasKnownOwner(lease.row)

(* Only a live store is inside a call, and it has its identity.            *)
StoresAreLive ==
  \A p \in Proc :
    /\ pc[p] # "idle" => up[p] = "alive"
    /\ up[p] = "alive" => identified[p] \/ ProbeMayFail

(* The reasons for which process p may fence what it read as lease.        *)
IsJustified(p, lease) ==
  LET owner == lease.row.owner IN
  IF owner = NoProc THEN Expired(lease)
  ELSE \/ up[owner] = "dead"
       \/ Expired(lease) /\ (ProbeMayFail \/ HostOf[owner] # HostOf[p])

VerdictsStand ==
  \A p \in Proc : \A lease \in abandoned[p] : IsJustified(p, lease)

(* The inductive invariant of owners and verdicts.                         *)
OwnerInv ==
  /\ OwnersAreKnown
  /\ StoresAreLive
  /\ VerdictsStand
  /\ LiveOwnerKeepsHandle

(* A process is launched once and dies once.                               *)
LEMMA LifetimesGoForward ==
  ASSUME TypeOK, [Next]_vars, NEW q \in Proc
  PROVE  /\ up[q] # "unborn" => up'[q] # "unborn"
         /\ up[q] = "dead" => up'[q] = "dead"
  <1>1. ASSUME NEW p \in Proc, Launch(p)
        PROVE  /\ up[q] # "unborn" => up'[q] # "unborn"
               /\ up[q] = "dead" => up'[q] = "dead"
    BY <1>1 DEF Launch, TypeOK
  <1>2. ASSUME NEW p \in Proc, Crash(p)
        PROVE  /\ up[q] # "unborn" => up'[q] # "unborn"
               /\ up[q] = "dead" => up'[q] = "dead"
    BY <1>2 DEF Crash, TypeOK
  <1> QED
    BY <1>1, <1>2 DEF Next, vars, SetClock, DeleteExpiredRuns, Start, Scan,
       Probe, Recover, Insert, PersistObservation, Complete, FailToComplete

(* A RUNNING row was there with the same lease, or was just inserted.      *)
LEMMA RunningRowsPersist ==
  ASSUME TypeOK, LeaseInv, [Next]_vars, NEW id \in RunId, Running(id)'
  PROVE  \/ /\ Running(id)
            /\ runs'[id].owner = runs[id].owner
            /\ runs'[id].token = runs[id].token
            /\ runs'[id].identified = runs[id].identified
         \/ \E p \in Proc :
              Insert(p) /\ runs'[id] = NewRow(p, MintedToken)
  <1> DEFINE Kept == /\ Running(id)
                     /\ runs'[id].owner = runs[id].owner
                     /\ runs'[id].token = runs[id].token
                     /\ runs'[id].identified = runs[id].identified
  <1>1. ASSUME runs'[id] = runs[id] PROVE Kept
    BY <1>1 DEF Running
  <1>2. CASE DeleteExpiredRuns
    BY <1>1, <1>2 DEF DeleteExpiredRuns, Running, NoRow
  <1>3. ASSUME NEW p \in Proc, Recover(p) PROVE Kept
    BY <1>1, <1>3 DEF Recover, Running, Ended
  <1>4. ASSUME NEW p \in Proc, NEW i \in RunId, NEW s \in Source,
               PersistObservation(p, i, s)
        PROVE  Kept
    <2>1. CASE i = id /\ HoldsLease(p, i)
      <3>1. runs[id] \in Row
        BY DEF TypeOK
      <3>2. runs'[id] = [runs[id] EXCEPT !.heartbeatAt = now]
        BY <1>4, <2>1 DEF PersistObservation, TypeOK
      <3> QED
        BY <2>1, <3>1, <3>2 DEF Row, HoldsLease
    <2>2. CASE ~(i = id /\ HoldsLease(p, i))
      <3>1. runs \in [RunId -> Row]
        BY DEF TypeOK
      <3>2. UNCHANGED runs \/ (i # id /\ runs' = [runs EXCEPT ![i].heartbeatAt = now])
        BY <1>4, <2>2 DEF PersistObservation
      <3>3. runs'[id] = runs[id]
        BY <3>1, <3>2
      <3> QED
        BY <3>3 DEF Running
    <2> QED
      BY <2>1, <2>2
  <1>5. ASSUME NEW p \in Proc, NEW i \in RunId, NEW status \in Terminal,
               Complete(p, i, status)
        PROVE  Kept
    BY <1>1, <1>5 DEF Complete, Running, Ended, TypeOK
  <1>6. ASSUME NEW p \in Proc, Insert(p)
        PROVE  Kept \/ runs'[id] = NewRow(p, MintedToken)
    BY <1>1, <1>6 DEF Insert, TypeOK
  <1>7. CASE UNCHANGED runs
    BY <1>1, <1>7
  <1> QED
    BY <1>2, <1>3, <1>4, <1>5, <1>6, <1>7
       DEF Next, vars, store, SetClock, Launch, Crash, Start, Scan, Probe,
           FailToComplete

LEMMA InitOwnerInv == Init => OwnerInv
  <1> SUFFICES ASSUME Init PROVE OwnerInv
    OBVIOUS
  <1>1. \A id \in RunId : runs[id].owner = NoProc
    BY DEF Init, NoRow, LegacyRow
  <1>2. OwnersAreKnown
    BY <1>1 DEF OwnersAreKnown, HasKnownOwner, Init
  <1>3. StoresAreLive /\ VerdictsStand
    BY DEF StoresAreLive, VerdictsStand, Init
  <1>4. LiveOwnerKeepsHandle
    BY <1>1 DEF LiveOwnerKeepsHandle
  <1> QED
    BY <1>2, <1>3, <1>4 DEF OwnerInv

LEMMA StoresAreLiveStep ==
  ASSUME TypeOK, StoresAreLive, [Next]_vars
  PROVE  StoresAreLive'
  <1>1. CASE UNCHANGED <<pc, up, identified>>
    BY <1>1 DEF StoresAreLive
  <1>2. ASSUME NEW p \in Proc, Launch(p) PROVE StoresAreLive'
    BY <1>2, BoundAssumption DEF Launch, StoresAreLive, TypeOK
  <1>3. ASSUME NEW p \in Proc, Crash(p) PROVE StoresAreLive'
    BY <1>3 DEF Crash, StoresAreLive, TypeOK
  <1>4. ASSUME NEW p \in Proc, up[p] = "alive", UNCHANGED <<up, identified>>,
               \A q \in Proc : q # p => pc'[q] = pc[q]
        PROVE  StoresAreLive'
    BY <1>4 DEF StoresAreLive
  <1>5. ASSUME NEW p \in Proc, NEW r \in Requests, Start(p, r[1], r[2])
        PROVE  StoresAreLive'
    BY <1>4, <1>5 DEF Start, Idle, TypeOK
  <1>6. ASSUME NEW p \in Proc, Scan(p) PROVE StoresAreLive'
    BY <1>4, <1>6 DEF Scan, StoresAreLive, TypeOK
  <1>7. ASSUME NEW p \in Proc, NEW lease \in scanned[p], Probe(p, lease)
        PROVE  StoresAreLive'
    <2>1. up[p] = "alive" /\ UNCHANGED <<up, identified>>
      BY <1>7 DEF Probe, StoresAreLive
    <2>2. \A q \in Proc : q # p => pc'[q] = pc[q]
      BY <1>7 DEF Probe, TypeOK
    <2> QED
      BY <1>4, <2>1, <2>2
  <1>8. ASSUME NEW p \in Proc, Recover(p) PROVE StoresAreLive'
    BY <1>4, <1>8 DEF Recover, StoresAreLive, TypeOK
  <1>9. ASSUME NEW p \in Proc, Insert(p) PROVE StoresAreLive'
    BY <1>4, <1>9 DEF Insert, StoresAreLive, TypeOK
  <1> QED
    BY <1>1, <1>2, <1>3, <1>5, <1>6, <1>7, <1>8, <1>9
       DEF Next, vars, local, SetClock, DeleteExpiredRuns, PersistObservation,
           Complete, FailToComplete

(* A row is inserted by a live store under its own identity.               *)
LEMMA InsertedRowIsOwned ==
  ASSUME TypeOK, StoresAreLive, NEW p \in Proc, Insert(p), NEW token
  PROVE  /\ NewRow(p, token).owner = p
         /\ NewRow(p, token).token = token
         /\ NewRow(p, token).identified \/ ProbeMayFail
         /\ up[p] = "alive" /\ up' = up
  BY DEF Insert, StoresAreLive, NewRow

LEMMA KnownOwnersStayKnown ==
  ASSUME TypeOK, [Next]_vars, NEW row \in Row, HasKnownOwner(row)
  PROVE  HasKnownOwner(row)'
  <1>1. row.owner # NoProc => row.owner \in Proc
    BY DEF Row
  <1> QED
    BY <1>1, LifetimesGoForward DEF HasKnownOwner

(* The leases a store holds in memory: those it had, or those it just read.*)
LEMMA LeasesOnHand ==
  ASSUME TypeOK, [Next]_vars, NEW p \in Proc,
         NEW lease \in scanned'[p] \cup abandoned'[p]
  PROVE  lease \in scanned[p] \cup abandoned[p] \cup RunningLeases(p)
  <1>1. ASSUME NEW q \in Proc, Crash(q)
        PROVE  lease \in scanned[p] \cup abandoned[p]
    BY <1>1 DEF Crash, TypeOK
  <1>2. ASSUME NEW q \in Proc, Scan(q)
        PROVE  lease \in scanned[p] \cup abandoned[p] \cup RunningLeases(p)
    BY <1>2 DEF Scan, TypeOK
  <1>3. ASSUME NEW q \in Proc, NEW l \in scanned[q], Probe(q, l)
        PROVE  lease \in scanned[p] \cup abandoned[p]
    <2>1. /\ scanned'[p] \subseteq scanned[p]
          /\ abandoned'[p] \subseteq abandoned[p] \cup (IF p = q THEN {l} ELSE {})
      BY <1>3 DEF Probe, TypeOK
    <2> QED
      BY <2>1
  <1>4. ASSUME NEW q \in Proc, Recover(q)
        PROVE  lease \in scanned[p] \cup abandoned[p]
    BY <1>4 DEF Recover, TypeOK
  <1>5. CASE UNCHANGED <<scanned, abandoned>>
    BY <1>5
  <1> QED
    BY <1>1, <1>2, <1>3, <1>4, <1>5
       DEF Next, vars, local, SetClock, DeleteExpiredRuns, Launch, Start,
           Insert, PersistObservation, Complete, FailToComplete

LEMMA OwnersAreKnownStep ==
  ASSUME TypeOK, LeaseInv, OwnersAreKnown, StoresAreLive, [Next]_vars
  PROVE  OwnersAreKnown'
  <1>1. ASSUME NEW id \in RunId, Running(id)'
        PROVE  HasKnownOwner(runs[id])'
    <2>1. CASE /\ Running(id)
               /\ runs'[id].owner = runs[id].owner
               /\ runs'[id].identified = runs[id].identified
      <3>1. runs[id] \in Row /\ HasKnownOwner(runs[id])
        BY <2>1 DEF TypeOK, OwnersAreKnown
      <3>2. runs[id].owner # NoProc => runs[id].owner \in Proc
        BY <3>1 DEF Row
      <3> QED
        BY <2>1, <3>1, <3>2, LifetimesGoForward DEF HasKnownOwner
    <2>2. ASSUME NEW p \in Proc, Insert(p), runs'[id] = NewRow(p, MintedToken)
          PROVE  HasKnownOwner(runs[id])'
      BY <2>2, InsertedRowIsOwned DEF HasKnownOwner
    <2> QED
      BY <1>1, <2>1, <2>2, RunningRowsPersist
  <1>2. ASSUME NEW p \in Proc, NEW lease \in scanned'[p] \cup abandoned'[p]
        PROVE  HasKnownOwner(lease.row)'
    <2>1. lease.row \in Row /\ HasKnownOwner(lease.row)
      <3>1. CASE lease \in scanned[p] \cup abandoned[p]
        <4>1. lease \in Lease
          BY <3>1 DEF TypeOK
        <4> QED
          BY <3>1, <4>1 DEF OwnersAreKnown, Lease
      <3>2. CASE lease \in RunningLeases(p)
        <4>1. PICK id \in RunId : Running(id) /\ lease.row = runs[id]
          BY <3>2 DEF RunningLeases
        <4> QED
          BY <4>1 DEF OwnersAreKnown, TypeOK
      <3> QED
        BY <1>2, <3>1, <3>2, LeasesOnHand
    <2> QED
      BY <2>1, KnownOwnersStayKnown
  <1> QED
    BY <1>1, <1>2 DEF OwnersAreKnown

(* isAbandoned: every way to the verdict TRUE is a justification.          *)
LEMMA VerdictIsJustified ==
  ASSUME TypeOK, NEW p \in Proc, NEW lease \in Lease,
         HasKnownOwner(lease.row), TRUE \in Verdicts(p, lease)
  PROVE  IsJustified(p, lease)
  <1> DEFINE owner == lease.row.owner
  <1>1. owner \in Proc \cup {NoProc}
    BY DEF Lease, Row
  <1>2. CASE owner = NoProc \/ HostOf[owner] # HostOf[p]
    BY <1>2 DEF Verdicts, IsJustified
  <1>3. CASE owner # NoProc /\ HostOf[owner] = HostOf[p]
    <2>1. /\ up[owner] \in {"alive", "dead"}
          /\ lease.row.identified \/ ProbeMayFail
          /\ owner \in Proc
      BY <1>1, <1>3 DEF TypeOK, HasKnownOwner
    <2>2. CASE ~OwnerPidAlive(owner)
      <3>1. up[owner] = "dead"
        BY <2>1, <2>2 DEF OwnerPidAlive, PidInUse
      <3> QED
        BY <1>3, <3>1 DEF IsJustified
    <2>3. CASE OwnerPidAlive(owner)
      <3>1. PICK outcome \in IdentityOutcomes(lease) :
              \/ outcome = "different"
              \/ outcome = "unavailable" /\ Expired(lease)
        <4>1. IdentityOutcomes(lease) \subseteq {"same", "different", "unavailable"}
          BY DEF IdentityOutcomes
        <4> QED
          BY <1>3, <2>3, <4>1 DEF Verdicts
      <3>2. CASE outcome = "different"
        BY <1>3, <2>1, <3>1, <3>2 DEF IdentityOutcomes, IsJustified
      <3>3. CASE outcome = "unavailable" /\ Expired(lease)
        BY <1>3, <2>1, <3>1, <3>3 DEF IdentityOutcomes, IsJustified
      <3> QED
        BY <3>1, <3>2, <3>3
    <2> QED
      BY <2>2, <2>3
  <1> QED
    BY <1>2, <1>3

LEMMA JustificationsLast ==
  ASSUME TypeOK, [Next]_vars, NEW p \in Proc, NEW lease \in Lease,
         IsJustified(p, lease)
  PROVE  IsJustified(p, lease)'
  <1>1. lease.row.owner # NoProc => lease.row.owner \in Proc
    BY DEF Lease, Row
  <1> QED
    BY <1>1, LifetimesGoForward DEF IsJustified, Expired

LEMMA VerdictsStandStep ==
  ASSUME TypeOK, OwnersAreKnown, VerdictsStand, [Next]_vars
  PROVE  VerdictsStand'
  <1> SUFFICES ASSUME NEW p \in Proc, NEW lease \in abandoned'[p]
               PROVE  IsJustified(p, lease)'
    BY DEF VerdictsStand
  <1>1. CASE lease \in abandoned[p]
    <2>1. lease \in Lease /\ IsJustified(p, lease)
      BY <1>1 DEF TypeOK, VerdictsStand
    <2> QED
      BY <2>1, JustificationsLast
  <1>2. CASE lease \notin abandoned[p]
    <2>1. ASSUME NEW q \in Proc, NEW l \in scanned[q], Probe(q, l)
          PROVE  IsJustified(p, lease)'
      <3> DEFINE judged(verdict) == IF verdict THEN abandoned[q] \cup {l}
                                    ELSE abandoned[q]
      <3>1. PICK verdict \in Verdicts(q, l) :
              abandoned' = [abandoned EXCEPT ![q] = judged(verdict)]
        BY <2>1 DEF Probe
      <3>2. abandoned'[p] = IF p = q THEN judged(verdict) ELSE abandoned[p]
        BY <3>1 DEF TypeOK
      <3>3. p = q /\ verdict /\ lease = l
        BY <1>2, <3>2
      <3>4. verdict = TRUE
        BY <3>3 DEF Verdicts
      <3>5. p = q /\ lease = l /\ TRUE \in Verdicts(p, lease)
        BY <3>1, <3>3, <3>4
      <3>6. lease \in Lease /\ HasKnownOwner(lease.row)
        BY <2>1, <3>5 DEF TypeOK, OwnersAreKnown
      <3> QED
        BY <3>5, <3>6, VerdictIsJustified, JustificationsLast
    <2>2. ASSUME NEW q \in Proc, Crash(q) \/ Recover(q) PROVE FALSE
      BY <1>2, <2>2 DEF Crash, Recover, TypeOK
    <2>3. CASE UNCHANGED abandoned
      BY <1>2, <2>3
    <2> QED
      BY <2>1, <2>2, <2>3
         DEF Next, vars, local, SetClock, DeleteExpiredRuns, Launch, Start,
             Scan, Insert, PersistObservation, Complete, FailToComplete
  <1> QED
    BY <1>1, <1>2

LEMMA HandleUpdated ==
  ASSUME TypeOK, NEW q \in Proc, NEW i \in RunId, NEW handle,
         owned' = [owned EXCEPT ![q] = [owned[q] EXCEPT ![i] = handle]],
         NEW p \in Proc, NEW id \in RunId
  PROVE  owned'[p][id] = IF p = q /\ id = i THEN handle ELSE owned[p][id]
  <1>1. owned[q] \in [RunId -> Handle]
    BY DEF TypeOK
  <1>2. CASE p = q
    <2>1. owned'[p] = [owned[q] EXCEPT ![i] = handle]
      BY <1>2 DEF TypeOK
    <2> QED
      BY <1>1, <1>2, <2>1
  <1>3. CASE p # q
    BY <1>3 DEF TypeOK
  <1> QED
    BY <1>2, <1>3

(* A live owner loses the handle of a RUNNING row by none of the ways that *)
(* drop handles: its completion, or an ownership lost.                     *)
LEMMA OwnersHandleIsKept ==
  ASSUME TypeOK, LeaseInv, [Next]_vars, NEW p \in Proc, NEW id \in RunId,
         Running(id), Running(id)', HoldsLease(p, id), up'[p] = "alive"
  PROVE  owned'[p][id] = owned[p][id]
  <1>1. ASSUME NEW q \in Proc, Crash(q)
        PROVE  owned'[p][id] = owned[p][id]
    <2>1. p # q
      BY <1>1 DEF Crash, TypeOK
    <2> QED
      BY <1>1, <2>1 DEF Crash, TypeOK
  <1>2. ASSUME NEW q \in Proc, Insert(q)
        PROVE  owned'[p][id] = owned[p][id]
    <2> DEFINE handle == [token |-> MintedToken, kind |-> request[q].kind,
                          scope |-> request[q].scope]
    <2>1. \/ owned' = owned
          \/ \E new \in RunId :
               /\ IsNextRunId(new)
               /\ owned' = [owned EXCEPT ![q] = [owned[q] EXCEPT ![new] = handle]]
      BY <1>2 DEF Insert
    <2>2. ~IsNextRunId(id)
      BY DEF IsNextRunId, Running
    <2> HIDE DEF handle
    <2> QED
      BY <2>1, <2>2, HandleUpdated
  <1>3. ASSUME NEW q \in Proc, NEW i \in RunId, NEW s \in Source,
               PersistObservation(q, i, s)
        PROVE  owned'[p][id] = owned[p][id]
    <2>1. \/ owned' = owned
          \/ /\ ~HoldsLease(q, i)
             /\ owned' = [owned EXCEPT ![q] = [owned[q] EXCEPT ![i] = NoHandle]]
      BY <1>3 DEF PersistObservation
    <2> QED
      BY <2>1, HandleUpdated
  <1>4. ASSUME NEW q \in Proc, NEW i \in RunId, NEW status \in Terminal,
               Complete(q, i, status)
        PROVE  owned'[p][id] = owned[p][id]
    <2>1. i # id
      BY <1>4 DEF Complete, Running, Ended, TypeOK
    <2>2. owned' = [owned EXCEPT ![q] = [owned[q] EXCEPT ![i] = NoHandle]]
      BY <1>4 DEF Complete
    <2> QED
      BY <2>1, <2>2, HandleUpdated
  <1>5. ASSUME NEW q \in Proc, NEW i \in RunId, FailToComplete(q, i)
        PROVE  owned'[p][id] = owned[p][id]
    <2> DEFINE kept == HandleAfterFailure(q, i)
    <2>1. owned' = [owned EXCEPT ![q] = [owned[q] EXCEPT ![i] = kept]]
      BY <1>5 DEF FailToComplete
    <2>2. q = p /\ i = id => kept = owned[p][id]
      BY DEF HandleAfterFailure
    <2> HIDE DEF kept
    <2> QED
      BY <2>1, <2>2, HandleUpdated
  <1>6. CASE UNCHANGED owned
    BY <1>6
  <1> QED
    BY <1>1, <1>2, <1>3, <1>4, <1>5, <1>6
       DEF Next, vars, local, SetClock, DeleteExpiredRuns, Launch, Start, Scan,
           Probe, Recover

(* The fresh token tells the row just inserted from every other one.       *)
LEMMA InsertedRowHasHandle ==
  ASSUME TypeOK, LeaseInv, NEW p \in Proc, NEW id \in RunId, Insert(p),
         runs'[id] = NewRow(p, MintedToken)
  PROVE  owned'[p][id].token = MintedToken
  <1>1. /\ NewRow(p, MintedToken).token = minted + 1
        /\ minted \in Nat /\ runs[id].token \in Nat /\ runs[id].token <= minted
    BY TokensAreNaturals DEF NewRow, MintedToken, LeaseInv, TokensAreMinted
  <1>2. runs'[id] # runs[id]
    BY <1>1
  <1> DEFINE handle == [token |-> MintedToken, kind |-> request[p].kind,
                        scope |-> request[p].scope]
  <1>3. PICK new \in RunId :
          /\ runs' = [runs EXCEPT ![new] = NewRow(p, MintedToken)]
          /\ owned' = [owned EXCEPT ![p] = [owned[p] EXCEPT ![new] = handle]]
    BY <1>2 DEF Insert
  <1>4. new = id
    BY <1>2, <1>3 DEF TypeOK
  <1>5. handle.token = MintedToken
    OBVIOUS
  <1> HIDE DEF handle
  <1>6. owned' = [owned EXCEPT ![p] = [owned[p] EXCEPT ![id] = handle]]
    BY <1>3, <1>4
  <1>7. owned'[p][id] = handle
    BY <1>6 DEF TypeOK
  <1> QED
    BY <1>5, <1>7

LEMMA LiveOwnerKeepsHandleStep ==
  ASSUME TypeOK, LeaseInv, OwnersAreKnown, StoresAreLive,
         LiveOwnerKeepsHandle, [Next]_vars
  PROVE  LiveOwnerKeepsHandle'
  <1> SUFFICES ASSUME NEW id \in RunId, Running(id)', NEW p \in Proc,
                      runs'[id].owner = p, p # NoProc, up'[p] = "alive"
               PROVE  owned'[p][id].token = runs'[id].token
    <2>1. runs' \in [RunId -> Row]
      BY NextTypeOK DEF TypeOK, LeaseInv
    <2>2. \A id \in RunId :
            runs'[id].owner # NoProc => runs'[id].owner \in Proc
      BY <2>1 DEF Row
    <2> QED
      BY <2>2 DEF LiveOwnerKeepsHandle
  <1>1. CASE /\ Running(id)
             /\ runs'[id].owner = runs[id].owner
             /\ runs'[id].token = runs[id].token
    <2>1. up[p] = "alive"
      <3>1. up[p] # "unborn"
        BY <1>1 DEF OwnersAreKnown, HasKnownOwner
      <3> QED
        BY <3>1, LifetimesGoForward DEF TypeOK
    <2>2. HoldsLease(p, id)
      BY <1>1, <2>1 DEF LiveOwnerKeepsHandle, HoldsLease
    <2> QED
      BY <1>1, <2>2, OwnersHandleIsKept DEF HoldsLease
  <1>2. ASSUME NEW q \in Proc, Insert(q), runs'[id] = NewRow(q, MintedToken)
        PROVE  owned'[p][id].token = runs'[id].token
    BY <1>2, InsertedRowIsOwned, InsertedRowHasHandle DEF OwnerInv
  <1> QED
    BY <1>1, <1>2, RunningRowsPersist

(* Every reachable state has known owners and standing verdicts.           *)
THEOREM OwnerInvariant == Spec => []OwnerInv
  <1>1. Init => OwnerInv
    BY InitOwnerInv
  <1>2. TypeOK /\ LeaseInv /\ OwnerInv /\ [Next]_vars => OwnerInv'
    BY OwnersAreKnownStep, StoresAreLiveStep, VerdictsStandStep,
       LiveOwnerKeepsHandleStep DEF OwnerInv
  <1> QED
    BY <1>1, <1>2, LeaseInvariant, PTL DEF Spec

(* A live process never forgets a lease it still holds.                    *)
THEOREM LiveOwnersCanComplete == Spec => []LiveOwnerKeepsHandle
  BY OwnerInvariant, PTL DEF OwnerInv

(* Among the steps that leave the process alive only its own Recover takes *)
(* it out of recovery.                                                     *)
LEMMA FencingIsRecovery ==
  ASSUME TypeOK, StoresAreLive, [Next]_vars, NEW p \in Proc, pc[p] = "recover",
         pc'[p] # "recover", up'[p] = "alive"
  PROVE  Recover(p)
  <1>1. CASE UNCHANGED pc
    BY <1>1
  <1>3. ASSUME NEW q \in Proc, Launch(q) \/ Crash(q) PROVE FALSE
    BY <1>3 DEF Launch, Crash, StoresAreLive, TypeOK
  <1>4. ASSUME NEW q \in Proc, NEW r \in Requests, Start(q, r[1], r[2])
        PROVE  FALSE
    BY <1>4 DEF Start, Idle, TypeOK
  <1>5. ASSUME NEW q \in Proc, Scan(q) \/ Insert(q) PROVE FALSE
    BY <1>5 DEF Scan, Insert, TypeOK
  <1>6. ASSUME NEW q \in Proc, NEW lease \in scanned[q], Probe(q, lease)
        PROVE  FALSE
    <2>1. q # p
      BY <1>6 DEF Probe
    <2>2. pc'[p] = pc[p]
      BY <1>6, <2>1 DEF Probe, TypeOK
    <2> QED
      BY <2>2
  <1>7. ASSUME NEW q \in Proc, Recover(q) PROVE q = p
    BY <1>7 DEF Recover, TypeOK
  <1> QED
    BY <1>1, <1>3, <1>4, <1>5, <1>6, <1>7
       DEF Next, vars, local, SetClock, DeleteExpiredRuns, PersistObservation,
           Complete, FailToComplete

LEMMA RecoveryIsJustified ==
  ASSUME TypeOK, StoresAreLive, VerdictsStand, [Next]_vars, NEW p \in Proc,
         NEW id \in RunId, Fences(p, id)
  PROVE  LET owner == runs[id].owner
             expired == \E lease \in abandoned[p] :
               /\ lease.id = id
               /\ lease.readAt - runs[id].heartbeatAt > AbandonedAfter
         IN  IF owner = NoProc THEN expired
             ELSE \/ up[owner] = "dead"
                  \/ expired /\ (ProbeMayFail \/ HostOf[owner] # HostOf[p])
  <1>1. Recover(p)
    BY FencingIsRecovery DEF Fences
  <1>2. PICK lease \in abandoned[p] : lease.id = id /\ StillLeased(lease)
    BY <1>1 DEF Recover, Fences, Running
  <1>3. /\ runs[id].owner = lease.row.owner
        /\ runs[id].heartbeatAt = lease.row.heartbeatAt
    BY <1>2 DEF StillLeased
  <1>4. IsJustified(p, lease)
    BY DEF VerdictsStand
  <1> QED
    BY <1>2, <1>3, <1>4 DEF IsJustified, Expired

(* A run is fenced only if its owner is dead, or if its heartbeat, as      *)
(* stored at that very moment, had expired.                                *)
THEOREM OnlyAbandonedRunsAreFenced == Spec => FencingIsJustified
  <1>1. ASSUME TypeOK, StoresAreLive, VerdictsStand, [Next]_vars
        PROVE  [\A p \in Proc, id \in RunId : Fences(p, id) =>
                  LET owner == runs[id].owner
                      expired == \E lease \in abandoned[p] :
                        /\ lease.id = id
                        /\ lease.readAt - runs[id].heartbeatAt > AbandonedAfter
                  IN  IF owner = NoProc THEN expired
                      ELSE \/ up[owner] = "dead"
                           \/ expired /\ (ProbeMayFail \/ HostOf[owner] # HostOf[p])]_vars
    BY <1>1, RecoveryIsJustified
  <1> QED
    BY <1>1, LeaseInvariant, OwnerInvariant, PTL
       DEF Spec, FencingIsJustified, OwnerInv

-----------------------------------------------------------------------------
(***************************************************************************)
(* Fencing, and the refinement of SyncScopeLease.                          *)
(***************************************************************************)
LEMMA StepKeepsWriterOrder ==
  ASSUME TypeOK, LeaseInv, [Next]_vars
  PROVE  \A s \in Source : lastWriter'[s] >= lastWriter[s]
  <1>1. CASE UNCHANGED lastWriter
    BY <1>1, TokensAreNaturals
  <1>2. ASSUME NEW p \in Proc, NEW id \in RunId, NEW s \in Source,
               PersistObservation(p, id, s), HoldsLease(p, id)
        PROVE  \A t \in Source : lastWriter'[t] >= lastWriter[t]
    <2>1. /\ Executing(id) /\ Covers(runs[id].scope, s)
          /\ lastWriter' = [lastWriter EXCEPT ![s] = runs[id].token]
      BY <1>2, RenewalLeaseInv
    <2>2. lastWriter[s] <= runs[id].token
      BY <2>1 DEF LeaseInv, LeaseholderIsLatestWriter
    <2> QED
      BY <2>1, <2>2, TokensAreNaturals DEF TypeOK
  <1> QED
    BY <1>1, <1>2 DEF Next, vars, store, local, SetClock, DeleteExpiredRuns,
       Launch, Crash, Start, Scan, Probe, Recover, Insert, PersistObservation,
       Complete, FailToComplete

(* Once a later run has written to a source, no observation of an earlier  *)
(* run over it is persisted.                                               *)
THEOREM FencedRunsNeverWrite == Spec => WritersInTokenOrder
  <1>1. ASSUME TypeOK, LeaseInv, [Next]_vars
        PROVE  [\A s \in Source : lastWriter'[s] >= lastWriter[s]]_vars
    BY <1>1, StepKeepsWriterOrder
  <1> QED
    BY <1>1, LeaseInvariant, PTL DEF Spec, WritersInTokenOrder

LEMMA StepKeepsFinishedRuns ==
  ASSUME TypeOK, LeaseInv, [Next]_vars, NEW id \in RunId, Finished(id)
  PROVE  runs'[id] = runs[id] \/ runs'[id] = NoRow
  <1>1. ~Running(id) /\ runs[id].status # "ABSENT"
    BY DEF Finished, Running
  <1>2. CASE UNCHANGED store
    BY <1>2 DEF store
  <1>3. CASE DeleteExpiredRuns
    BY <1>3 DEF DeleteExpiredRuns
  <1>4. ASSUME NEW p \in Proc, Recover(p)
        PROVE  runs'[id] = runs[id]
    <2>1. ~\E lease \in abandoned[p] : lease.id = id /\ StillLeased(lease)
      BY <1>1 DEF StillLeased, Running
    <2> QED
      BY <1>4, <2>1 DEF Recover
  <1>5. ASSUME NEW p \in Proc, Insert(p)
        PROVE  runs'[id] = runs[id]
    <2>1. CASE UNCHANGED runs
      BY <2>1
    <2>2. ASSUME NEW new \in RunId, IsNextRunId(new),
                 runs' = [runs EXCEPT ![new] = NewRow(p, MintedToken)]
          PROVE  runs'[id] = runs[id]
      <3>1. id < new
        BY <1>1, <2>2 DEF IsNextRunId
      <3>2. id # new
        BY <3>1 DEF RunId
      <3> QED
        BY <2>2, <3>2 DEF TypeOK
    <2> QED
      BY <1>5, <2>1, <2>2 DEF Insert
  <1>6. ASSUME NEW p \in Proc, NEW other \in RunId, NEW s \in Source,
               PersistObservation(p, other, s)
        PROVE  runs'[id] = runs[id]
    <2>1. runs' = runs \/ (HoldsLease(p, other) /\
            runs' = [runs EXCEPT ![other] = [runs[other] EXCEPT !.heartbeatAt = now]])
      BY <1>6 DEF PersistObservation
    <2>2. HoldsLease(p, other) => other # id
      BY <1>1 DEF HoldsLease
    <2> QED
      BY <2>1, <2>2 DEF TypeOK
  <1>7. ASSUME NEW p \in Proc, NEW other \in RunId, NEW status \in Terminal,
               Complete(p, other, status)
        PROVE  runs'[id] = runs[id]
    BY <1>1, <1>7 DEF Complete, HoldsLease, TypeOK
  <1> QED
    BY <1>2, <1>3, <1>4, <1>5, <1>6, <1>7
       DEF Next, vars, SetClock, Launch, Crash, Start, Scan, Probe,
           FailToComplete

(* The row of a finished run never changes until retention removes it.     *)
THEOREM FinishedRunsStay == Spec => FinishedRunsAreFrozen
  <1>1. ASSUME TypeOK, LeaseInv, [Next]_vars
        PROVE  [\A id \in RunId :
                  Finished(id) => runs'[id] = runs[id] \/ runs'[id] = NoRow]_vars
    BY <1>1, StepKeepsFinishedRuns
  <1> QED
    BY <1>1, LeaseInvariant, PTL DEF Spec, FinishedRunsAreFrozen

LEMMA InitRefines == Init => Leases!LeaseInit
  <1> SUFFICES ASSUME Init PROVE Leases!LeaseInit
    OBVIOUS
  <1>1. minted = 0 /\ lastWriter = [s \in Source |-> 0]
    BY DEF Init
  <1>2. PICK first \in {NoRow} \cup {LegacyRow(scope) : scope \in Scope} :
          runs = [id \in RunId |-> IF id = 1 THEN first ELSE NoRow]
    BY DEF Init
  <1>3. 1 \in RunId
    BY BoundAssumption
  <1>4. CASE first = NoRow
    <2>1. ScopeLeases = {}
      BY <1>2, <1>4 DEF ScopeLeases, Executing, Running, NoRow
    <2> QED
      BY <1>1, <2>1 DEF Leases!LeaseInit
  <1>5. ASSUME NEW scope \in Scope, first = LegacyRow(scope)
        PROVE  Leases!LeaseInit
    <2>1. /\ \A id \in RunId : Executing(id) <=> id = 1
          /\ runs[1].token = 0 /\ runs[1].scope = scope
      BY <1>2, <1>3, <1>5, LegacyRowType DEF Executing, Running, NoRow
    <2>2. ScopeLeases = {[token |-> 0, scope |-> scope]}
      BY <1>3, <2>1 DEF ScopeLeases
    <2> QED
      BY <1>1, <2>2 DEF Leases!LeaseInit, Leases!Scope
  <1> QED
    BY <1>4, <1>5

(* Where rows only leave execution, leases are released, or none changes.  *)
LEMMA EndRefines ==
  ASSUME UNCHANGED <<minted, lastWriter>>,
         \A id \in RunId :
           runs'[id] = runs[id] \/ runs'[id].status # "RUNNING"
  PROVE  [Leases!LeaseNext]_(Leases!leaseVars)
  <1>1. \A id \in RunId :
          Executing(id)' => Executing(id) /\ runs'[id] = runs[id]
    BY DEF Executing, Running
  <1>2. ScopeLeases' \subseteq ScopeLeases
    BY <1>1 DEF ScopeLeases
  <1>3. CASE ScopeLeases' = ScopeLeases
    BY <1>3 DEF Leases!leaseVars
  <1>4. CASE ScopeLeases' # ScopeLeases
    <2> DEFINE gone == ScopeLeases \ ScopeLeases'
    <2>1. gone \in SUBSET ScopeLeases /\ gone # {} /\ ScopeLeases' = ScopeLeases \ gone
      BY <1>2, <1>4
    <2> QED
      BY <2>1 DEF Leases!LeaseNext, Leases!Release
  <1> QED
    BY <1>3, <1>4

LEMMA InsertRefines ==
  ASSUME TypeOK, LeaseInv, NEW p \in Proc, Insert(p)
  PROVE  Leases!LeaseNext
  <1>1. minted' = minted + 1 /\ lastWriter' = lastWriter /\ MintedToken = minted + 1
    BY DEF Insert, MintedToken
  <1>2. CASE ScopeBlocked(request[p])
    <2>1. ScopeLeases' = ScopeLeases
      BY <1>2 DEF Insert, ScopeLeases, Executing, Running
    <2> QED
      BY <1>1, <2>1 DEF Leases!LeaseNext, Leases!Burn
  <1>3. CASE ~ScopeBlocked(request[p])
    <2>1. PICK new \in RunId :
            /\ IsNextRunId(new)
            /\ runs' = [runs EXCEPT ![new] = NewRow(p, MintedToken)]
      BY <1>3 DEF Insert
    <2>2. /\ runs'[new].status = "RUNNING"
          /\ runs'[new].kind = request[p].kind
          /\ runs'[new].scope = request[p].scope
          /\ runs'[new].token = minted + 1
      BY <1>1, <2>1 DEF TypeOK, NewRow
    <2>3. \A id \in RunId : id # new => runs'[id] = runs[id]
      BY <2>1 DEF TypeOK
    <2>4. runs[new].status = "ABSENT"
      BY <2>1 DEF IsNextRunId
    <2>5. request[p].kind \in Kind /\ request[p].scope \in Scope
      BY DEF TypeOK, Request, LeaseInv, InsertsAreRequested, Insert
    <2>6. CASE request[p].kind = "PLAN"
      <3>1. /\ ~Executing(new) /\ ~Executing(new)'
            /\ \A id \in RunId : id # new => (Executing(id)' <=> Executing(id))
        BY <2>2, <2>3, <2>4, <2>6 DEF Executing, Running
      <3>2. ScopeLeases' = ScopeLeases
        BY <2>3, <3>1 DEF ScopeLeases
      <3> QED
        BY <1>1, <3>2 DEF Leases!LeaseNext, Leases!Burn
    <2>7. CASE request[p].kind = "EXECUTION"
      <3>1. /\ ~Executing(new) /\ Executing(new)'
            /\ \A id \in RunId : id # new => (Executing(id)' <=> Executing(id))
        BY <2>2, <2>3, <2>4, <2>7 DEF Executing, Running
      <3>2. ScopeLeases' = ScopeLeases \cup
              {[token |-> minted + 1, scope |-> request[p].scope]}
        BY <2>2, <2>3, <3>1 DEF ScopeLeases
      <3>3. \A l \in ScopeLeases : ~Leases!Overlap(l.scope, request[p].scope)
        BY <1>3, <2>7 DEF ScopeLeases, ScopeBlocked, Overlap, Leases!Overlap
      <3>4. Leases!Acquire(request[p].scope)
        BY <1>1, <3>2, <3>3 DEF Leases!Acquire
      <3> QED
        BY <2>5, <3>4 DEF Leases!LeaseNext, Leases!Scope
    <2> QED
      BY <2>5, <2>6, <2>7
  <1> QED
    BY <1>2, <1>3

LEMMA PersistRefines ==
  ASSUME TypeOK, LeaseInv, NEW p \in Proc, NEW id \in RunId, NEW s \in Source,
         PersistObservation(p, id, s)
  PROVE  [Leases!LeaseNext]_(Leases!leaseVars)
  <1>1. CASE HoldsLease(p, id)
    <2>1. /\ Executing(id) /\ Covers(runs[id].scope, s)
          /\ lastWriter' = [lastWriter EXCEPT ![s] = runs[id].token]
          /\ \A i \in RunId :
               /\ runs'[i].status = runs[i].status
               /\ runs'[i].kind = runs[i].kind
               /\ runs'[i].scope = runs[i].scope
               /\ runs'[i].token = runs[i].token
      BY <1>1, RenewalLeaseInv
    <2>2. ScopeLeases' = ScopeLeases
      BY <2>1 DEF ScopeLeases, Executing, Running
    <2> DEFINE l == [token |-> runs[id].token, scope |-> runs[id].scope]
    <2>3. l \in ScopeLeases
      BY <2>1 DEF ScopeLeases
    <2>4. Leases!Write(l, s)
      BY <2>1, <2>2, <2>3 DEF Leases!Write, Leases!Covers, Covers,
         PersistObservation
    <2> QED
      BY <2>3, <2>4 DEF Leases!LeaseNext
  <1>2. CASE ~HoldsLease(p, id)
    BY <1>2 DEF PersistObservation, Leases!leaseVars, ScopeLeases, Executing,
       Running
  <1> QED
    BY <1>1, <1>2

LEMMA NextRefines ==
  ASSUME TypeOK, LeaseInv, [Next]_vars
  PROVE  [Leases!LeaseNext]_(Leases!leaseVars)
  <1>1. CASE UNCHANGED store
    BY <1>1 DEF store, Leases!leaseVars, ScopeLeases, Executing, Running
  <1>2. CASE DeleteExpiredRuns
    BY <1>2, EndRefines DEF DeleteExpiredRuns, NoRow
  <1>3. ASSUME NEW p \in Proc, Recover(p)
        PROVE  [Leases!LeaseNext]_(Leases!leaseVars)
    BY <1>3, EndRefines DEF Recover, Ended
  <1>4. ASSUME NEW p \in Proc, NEW id \in RunId, NEW status \in Terminal,
               Complete(p, id, status)
        PROVE  [Leases!LeaseNext]_(Leases!leaseVars)
    BY <1>4, EndRefines DEF Complete, Ended, TypeOK
  <1> QED
    BY <1>1, <1>2, <1>3, <1>4, InsertRefines, PersistRefines
       DEF Next, vars, SetClock, Launch, Crash, Start, Scan, Probe,
           FailToComplete

(* The sync_runs store implements leases on scopes.                        *)
THEOREM RunsImplementScopeLease == Spec => ImplementsScopeLease
  <1>1. TypeOK /\ LeaseInv /\ [Next]_vars => [Leases!LeaseNext]_(Leases!leaseVars)
    BY NextRefines
  <1> QED
    BY <1>1, InitRefines, LeaseInvariant, PTL
       DEF Spec, ImplementsScopeLease, Leases!LeaseSpec
=============================================================================
