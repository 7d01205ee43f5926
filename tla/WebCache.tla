------------------------------ MODULE WebCache ------------------------------
(***************************************************************************)
(* The cache of the Web tools: the tables search_cache and content_cache of*)
(* one SQLite file that several MCP servers open, behind the circuit       *)
(* breaker each server keeps (SafeCacheRepository).                        *)
(*                                                                         *)
(* A read is two statements, with those of other servers between them: the *)
(* row is selected, then touched or, when it cannot be used, deleted.  A   *)
(* write is one transaction: the upsert, the removal of what is past its   *)
(* stale retention, and the eviction of the coldest rows beyond the limits.*)
(***************************************************************************)
EXTENDS Integers, FiniteSets, FiniteSetsExt

CONSTANTS Server, Call,
          ServerOf,        \* the server that runs each call
          Key,             \* <<table, what is asked>>, a key of each table
          None,
          StaleRetention,  \* ticks a row is kept after it expired
          MaxEntries, MaxBytes,
          RetryDelay,      \* ticks the breaker stays open
          ContinueOnError,
          MaxEvents,       \* bound of the events
          MaxTime          \* bound of the clock

ASSUME CacheAssumption ==
  /\ ServerOf \in [Call -> Server]
  /\ IsFiniteSet(Key)
  /\ \A k \in Key : k[1] \in {"content", "search"}
  /\ {StaleRetention, MaxEntries, MaxBytes, RetryDelay, MaxTime, MaxEvents} \subseteq Nat
  /\ ContinueOnError \in BOOLEAN

VARIABLES now,       \* the clock
          events,    \* failures of the cache, changes of pages, restarts
          rows,      \* the row of each key
          usage,     \* the row of cache_usage
          failedAt,  \* when the cache of each server last failed, or Up
          call       \* the tool call that each client waits for

Up == -1

(* value is the payload; readable tells that the schema of the kind accepts*)
(* it (cache-value-validation).                                            *)
NoRow == [value |-> None, readable |-> FALSE, created |-> 0, expires |-> 0,
          accessed |-> 0, size |-> 0, tag |-> None, url |-> None]

Row(values, tags, urls) ==
  [value : values, readable : BOOLEAN, created : Nat, expires : Nat,
   accessed : Nat, size : Nat, tag : tags, url : urls]

(* A client's call: its tool, how far it is and until when, what it asked, *)
(* the entry it read, what it answers, and of a search what the passes have*)
(* collected.                                                              *)
Idle(tool) ==
        [tool |-> tool, step |-> "idle", asked |-> None, started |-> 0, deadline |-> 0,
         seen |-> NoRow, value |-> None, status |-> None, decided |-> 0,
         collected |-> {}, english |-> FALSE, error |-> None]

Present(table) == {k \in DOMAIN table : table[k] # NoRow}
Without(table, keys) == [k \in DOMAIN table |-> IF k \in keys THEN NoRow ELSE table[k]]

(* The triggers of V005 keep cache_usage: what a statement that turns the  *)
(* rows into table adds to each counter.                                   *)
Counted(table) ==
  LET added == [k \in Key |-> (IF table[k] = NoRow THEN 0 ELSE 1)
                                - (IF rows[k] = NoRow THEN 0 ELSE 1)]
      grown == [k \in Key |-> table[k].size - rows[k].size]
  IN  [entries |-> usage.entries + SumFunction(added),
       bytes |-> usage.bytes + SumFunction(grown)]

Update(table) ==
  /\ rows' = table
  /\ usage' = Counted(table)

IsWithinLimits(count) == count.entries <= MaxEntries /\ count.bytes <= MaxBytes

(* The order of kind, cache_key: cache keys are digests, in any order.     *)
KeyRank ==
  CHOOSE rank \in [Key -> 1..Cardinality(Key)] :
    \A j, k \in Key : /\ rank[j] = rank[k] => j = k
                      /\ j[1] = "content" /\ k[1] = "search" => rank[j] < rank[k]

(* ORDER BY last_accessed_at, created_at, kind, cache_key.                 *)
Colder(table, j, k) ==
  LET r == table[j]  s == table[k]
  IN  \/ r.accessed < s.accessed
      \/ r.accessed = s.accessed /\ r.created < s.created
      \/ r.accessed = s.accessed /\ r.created = s.created /\ KeyRank[j] < KeyRank[k]

(* Mutant: the bytes are not looked at.                                    *)
EvictByEntries(table) ==
  Without(table,
    {k \in Present(table) :
       Cardinality({j \in Present(table) : Colder(table, k, j)}) >= MaxEntries})

(* Rows go from the coldest on, until what is left is within the limits.   *)
EvictOverflow(table) ==
  Without(table,
    {k \in Present(table) :
       ~IsWithinLimits(Counted(Without(table, {j \in Present(table) : Colder(table, j, k)})))})

DeleteRetainedExpired(table) ==
  Without(table, {k \in DOMAIN table : table[k].expires <= now - StaleRetention})

PruneSync(table) == EvictOverflow(DeleteRetainedExpired(table))

-----------------------------------------------------------------------------
CacheInit ==
  /\ now = 0
  /\ events = 0
  /\ rows = [k \in Key |-> NoRow]
  /\ usage = [entries |-> 0, bytes |-> 0]
  /\ failedAt = [s \in Server |-> Up]

(* What happens around the calls is bounded.                               *)
Event ==
  /\ events < MaxEvents
  /\ events' = events + 1

(* SafeCacheRepository.run: an open breaker refuses the operation.         *)
Refused(s) == failedAt[s] # Up /\ now - failedAt[s] < RetryDelay

Works(s) == ~Refused(s) /\ failedAt' = [failedAt EXCEPT ![s] = Up] /\ UNCHANGED events
Fails(s) == ~Refused(s) /\ failedAt' = [failedAt EXCEPT ![s] = now] /\ Event
DoesNotWork(s) ==
  \/ Refused(s) /\ UNCHANGED <<failedAt, events>>
  \/ Fails(s)

Answered(c, error) ==
  call' = [call EXCEPT ![c].step = "answered", ![c].error = error]

(* What the call answers is decided: it needs the entry it read no more.   *)
Decided(c, next, value, status) ==
  call' = [call EXCEPT ![c].step = next, ![c].value = value, ![c].status = status,
                       ![c].decided = now, ![c].seen = NoRow, ![c].collected = {}]

Fresh(row) == row # NoRow /\ row.expires > now

(* The use case goes on with the entry it was given: a fresh one answers.  *)
GoesOn(c, row, hit, miss) ==
  IF Fresh(row)
  THEN Decided(c, hit, row.value, "HIT")
  ELSE call' = [call EXCEPT ![c].step = miss, ![c].seen = row]

(* The fallback of a failed operation, or CacheUnavailableError.           *)
FallsBack(c, hit, miss) ==
  IF ContinueOnError THEN GoesOn(c, NoRow, hit, miss) ELSE Answered(c, "CACHE_UNAVAILABLE")

(* The first statement of get.                                             *)
Select(c, key, hit, miss) ==
  /\ call[c].step = "read"
  /\ \/ /\ Works(ServerOf[c])
        /\ IF rows[key] = NoRow
           THEN GoesOn(c, NoRow, hit, miss)
           ELSE call' = [call EXCEPT ![c].seen = rows[key], ![c].step = "settle"]
     \/ /\ DoesNotWork(ServerOf[c])
        /\ FallsBack(c, hit, miss)
  /\ UNCHANGED <<now, rows, usage>>

IsUsable(row) == row.expires + StaleRetention > now /\ row.readable

(* The second one: whatever the key names by then is touched or deleted.   *)
Settle(c, key, hit, miss) ==
  /\ call[c].step = "settle"
  /\ \/ /\ Works(ServerOf[c])
        /\ IF IsUsable(call[c].seen)
           THEN /\ IF rows[key] = NoRow
                   THEN UNCHANGED <<rows, usage>>
                   ELSE Update([rows EXCEPT ![key].accessed = now])
                /\ GoesOn(c, call[c].seen, hit, miss)
           ELSE /\ Update(Without(rows, {key}))
                /\ GoesOn(c, NoRow, hit, miss)
     \/ /\ DoesNotWork(ServerOf[c])
        /\ FallsBack(c, hit, miss)
        /\ UNCHANGED <<rows, usage>>
  /\ UNCHANGED now

(* A call that waits for the network is rejected at its deadline; an answer*)
(* in the tick of the deadline counts as late.                             *)
MayAnswer(c) == now < call[c].deadline
TimesOut(c) == now >= call[c].deadline

Entry(value, readable, ttl, size, tag, url) ==
  [value |-> value, readable |-> readable, created |-> now, expires |-> now + ttl,
   accessed |-> now, size |-> size, tag |-> tag, url |-> url]

(* set: TRUE even when the new row is among the evicted ones.              *)
Set(c, key, row) ==
  /\ Works(ServerOf[c])
  /\ Update(PruneSync([rows EXCEPT ![key] = row]))
  /\ UNCHANGED now

NotSet(c) == DoesNotWork(ServerOf[c]) /\ UNCHANGED <<now, rows, usage>>

-----------------------------------------------------------------------------
(* After every transaction the counters are those of the rows, and the rows*)
(* are within both limits, whatever was refreshed, deleted by another      *)
(* server or evicted (pruneSync and the triggers of V005).                 *)
CacheIsBounded ==
  /\ usage = [entries |-> Cardinality(Present(rows)),
              bytes |-> SumFunction([k \in Key |-> rows[k].size])]
  /\ IsWithinLimits(usage)
=============================================================================
