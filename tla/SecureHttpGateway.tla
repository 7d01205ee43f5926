------------------------- MODULE SecureHttpGateway --------------------------
(***************************************************************************)
(* The gateway through which a process downloads pages: a semaphore bounds *)
(* the downloads, and a chain of promises per origin spaces its requests.  *)
(* A download follows redirects, and reads the robots.txt of each origin it*)
(* meets, through the same chains; each has one deadline for everything.   *)
(*                                                                         *)
(* A step is what runs between two awaits.  The clock of the deadlines and *)
(* that of the spacing are one; bodies and headers are left out, and of the*)
(* addresses approved for a host only their number counts.                 *)
(***************************************************************************)
EXTENDS Integers, FiniteSets, Sequences, SequencesExt

CONSTANTS Download, Origin,
          None,            \* no last throttle call of an origin
          MaxConcurrency, MinimumDelay, MaxRedirects, MaxTrackedOrigins,
          RespectRobots,   \* security.respectRobotsTxt
          Timeouts,        \* limits that callers request
          MaxAddresses,    \* bound: addresses of a host
          MaxTime          \* bound of the clock, of the model only

ASSUME GatewayAssumption ==
  /\ None \notin Download /\ IsFiniteSet(Download)
  /\ MaxConcurrency \in Nat \ {0} /\ MaxTrackedOrigins \in Nat \ {0}
  /\ MinimumDelay \in Nat /\ MaxRedirects \in Nat /\ MaxTime \in Nat
  /\ MaxAddresses \in Nat \ {0} /\ RespectRobots \in BOOLEAN
  /\ Timeouts \subseteq Nat \ {0}

VARIABLES now,
          active, waiters,      \* the semaphore
          step, deadline, hop,  \* each download, and the URL it follows
          page,                 \* the URL whose origin's robots.txt it reads
          robotsCache,
          left,                 \* approved addresses not tried yet
          tracked,              \* keys of lastRequestByOrigin, oldest first
          lastRequestByOrigin,
          chain,   \* unreleased slots the tail of originThrottleQueues waits for
          last,    \* the call that set this tail
          ahead,   \* unreleased slots the predecessor of a call waits for
          wake,    \* when a call has waited enough
          sent,    \* history: when an origin got its last request to a first address
          forsaken \* history: origins whose tail was dropped under a waiting call

semaphore == <<active, waiters>>
throttling == <<tracked, lastRequestByOrigin, chain, last, ahead, wake, sent, forsaken>>
vars == <<now, semaphore, step, deadline, hop, page, robotsCache, left, throttling>>

Time == 0 .. MaxTime
Hop == [origin : Origin, redirects : 0 .. MaxRedirects + 1, robots : BOOLEAN]
NoHop == [origin |-> None, redirects |-> 0, robots |-> FALSE]
Calling == {"queued", "pausing"}
Holding == {"approve", "request"} \cup Calling

Init ==
  /\ now = 0
  /\ active = 0 /\ waiters = <<>>
  /\ step = [p \in Download |-> "idle"]
  /\ deadline = [p \in Download |-> 0]
  /\ hop = [p \in Download |-> NoHop] /\ page = [p \in Download |-> NoHop]
  /\ robotsCache = [p \in Download |-> {}]
  /\ left = [p \in Download |-> 0]
  /\ tracked = <<>>
  /\ lastRequestByOrigin = [o \in Origin |-> 0]
  /\ chain = [o \in Origin |-> {}]
  /\ last = [o \in Origin |-> None]
  /\ ahead = [p \in Download |-> {}]
  /\ wake = [p \in Download |-> 0]
  /\ sent = [o \in Origin |-> 0]
  /\ forsaken = {}

-----------------------------------------------------------------------------
(***************************************************************************)
(* The semaphore.  A released permit goes to the first waiter.             *)
(***************************************************************************)
Begin(p, o, timeout) ==
  /\ step[p] = "idle"
  /\ now + timeout <= MaxTime
  /\ deadline' = [deadline EXCEPT ![p] = now + timeout]
  /\ hop' = [hop EXCEPT ![p] = [origin |-> o, redirects |-> 0, robots |-> FALSE]]
  /\ \/ /\ active < MaxConcurrency
        /\ active' = active + 1
        /\ step' = [step EXCEPT ![p] = "approve"]
        /\ UNCHANGED waiters
     \/ /\ active >= MaxConcurrency
        /\ waiters' = Append(waiters, p)
        /\ step' = [step EXCEPT ![p] = "waiting"]
        /\ UNCHANGED active
  /\ UNCHANGED <<now, page, robotsCache, left, throttling>>

(* The memory of a download that has ended.                                *)
Forget(p) ==
  /\ deadline' = [deadline EXCEPT ![p] = 0]
  /\ hop' = [hop EXCEPT ![p] = NoHop]
  /\ page' = [page EXCEPT ![p] = NoHop]
  /\ robotsCache' = [robotsCache EXCEPT ![p] = {}]
  /\ left' = [left EXCEPT ![p] = 0]

AcquireTimeoutInQueue(p) ==
  /\ step[p] = "waiting"
  /\ now >= deadline[p]
  /\ step' = [step EXCEPT ![p] = "idle"]
  /\ Forget(p)
  /\ UNCHANGED <<now, semaphore, throttling>>

AcquireTimeout(p) ==
  /\ step[p] = "waiting"
  /\ now >= deadline[p]
  /\ \E i \in DOMAIN waiters : waiters[i] = p /\ waiters' = RemoveAt(waiters, i)
  /\ step' = [step EXCEPT ![p] = "idle"]
  /\ Forget(p)
  /\ UNCHANGED <<now, active, throttling>>

(* The download ends, in whichever way, and releases its permit.           *)
End(p) ==
  /\ \/ /\ waiters = <<>>
        /\ active' = active - 1
        /\ step' = [step EXCEPT ![p] = "idle"]
        /\ UNCHANGED waiters
     \/ /\ waiters # <<>>
        /\ waiters' = Tail(waiters)
        /\ step' = [step EXCEPT ![p] = "idle", ![Head(waiters)] = "approve"]
        /\ UNCHANGED active
  /\ Forget(p)

-----------------------------------------------------------------------------
(***************************************************************************)
(* throttle.  A call waits for its predecessor, the tail it finds, which is*)
(* resolved when every slot of the chain has been released.                *)
(***************************************************************************)
Enter(p, o) ==
  /\ ahead' = [ahead EXCEPT ![p] = chain[o]]
  /\ chain' = [chain EXCEPT ![o] = @ \cup {p}]
  /\ last' = [last EXCEPT ![o] = p]
  /\ step' = [step EXCEPT ![p] = "queued"]
  /\ UNCHANGED <<tracked, lastRequestByOrigin, wake, sent, forsaken>>

LeaveEntry(p) ==
  LET o == hop[p].origin
  IN  /\ ahead' = [q \in Download |-> IF q = p THEN {} ELSE ahead[q] \ {p}]
      /\ chain' = [chain EXCEPT ![o] = @ \ {p}]
      /\ wake' = [wake EXCEPT ![p] = 0]
      /\ UNCHANGED <<last, forsaken>>

(* The finally block: the slot is released, and the entry of the origin is *)
(* deleted if no call came since.                                          *)
Leave(p) ==
  LET o == hop[p].origin
  IN  /\ ahead' = [q \in Download |-> IF q = p THEN {} ELSE ahead[q] \ {p}]
      /\ chain' = [chain EXCEPT ![o] = IF last[o] = p THEN {} ELSE @ \ {p}]
      /\ last' = [last EXCEPT ![o] = IF @ = p THEN None ELSE @]
      /\ wake' = [wake EXCEPT ![p] = 0]
      /\ forsaken' = IF last[o] = p /\ ahead[p] # {} THEN forsaken \cup {o} ELSE forsaken

Without(o) ==
  IF o \in Range(tracked) THEN RemoveAt(tracked, CHOOSE i \in DOMAIN tracked : tracked[i] = o)
  ELSE tracked

(* rememberOriginRequest keeps the latest MaxTrackedOrigins origins.       *)
Remembered(o) ==
  LET order == Append(Without(o), o)
  IN  IF Len(order) > MaxTrackedOrigins THEN Tail(order) ELSE order

Remember(o) ==
  /\ tracked' = Remembered(o)
  /\ lastRequestByOrigin' =
       [x \in Origin |-> IF x = o THEN now
                         ELSE IF x \in Range(Remembered(o)) THEN lastRequestByOrigin[x] ELSE 0]

(* The approved addresses of the URL: a request goes to the first one.     *)
TakeAddresses(p) ==
  \E n \in 1 .. MaxAddresses : left' = [left EXCEPT ![p] = n - 1]

(* The wait is over: the time is kept and the request goes out.            *)
Send(p) ==
  LET o == hop[p].origin
  IN  /\ Remember(o)
      /\ sent' = [sent EXCEPT ![o] = now]
      /\ Leave(p)
      /\ step' = [step EXCEPT ![p] = "request"]
      /\ TakeAddresses(p)
      /\ UNCHANGED <<now, semaphore, deadline, hop, page, robotsCache>>

GiveUp(p) ==
  /\ Leave(p)
  /\ End(p)
  /\ UNCHANGED <<now, tracked, lastRequestByOrigin, sent>>

DueNow(o) == now

(* How long the call has to wait once its predecessor is resolved.         *)
Due(o) ==
  LET t == IF o \in Range(tracked) THEN lastRequestByOrigin[o] + MinimumDelay ELSE 0
  IN  IF t > now THEN t ELSE now

Turn(p) ==
  LET due == Due(hop[p].origin)
  IN  /\ step[p] = "queued"
      /\ ahead[p] = {}
      /\ \/ due >= deadline[p] /\ GiveUp(p)
         \/ due < deadline[p] /\ due = now /\ Send(p)
         \/ /\ due < deadline[p] /\ due > now
            /\ wake' = [wake EXCEPT ![p] = due]
            /\ step' = [step EXCEPT ![p] = "pausing"]
            /\ UNCHANGED <<now, semaphore, deadline, hop, page, robotsCache, left, tracked,
                           lastRequestByOrigin, chain, last, ahead, sent, forsaken>>

Pause(p) ==
  /\ step[p] = "pausing"
  /\ now >= wake[p]
  /\ Send(p)

QueueTimeout(p) ==
  /\ step[p] = "queued"
  /\ now >= deadline[p]
  /\ GiveUp(p)

-----------------------------------------------------------------------------
(***************************************************************************)
(* follow.  The URL is approved, the robots.txt of its origin read unless  *)
(* this download has it, then comes the request and its answer.            *)
(***************************************************************************)
NeedsRobots(p) ==
  RespectRobots /\ ~hop[p].robots /\ hop[p].origin \notin robotsCache[p]

ReadRobots(p) ==
  /\ step[p] = "approve"
  /\ hop[p].redirects <= MaxRedirects
  /\ NeedsRobots(p)
  /\ page' = [page EXCEPT ![p] = hop[p]]
  /\ hop' = [hop EXCEPT ![p] = [origin |-> hop[p].origin, redirects |-> 0, robots |-> TRUE]]
  /\ UNCHANGED <<now, semaphore, step, deadline, robotsCache, left, throttling>>

Approve(p) ==
  /\ step[p] = "approve"
  /\ hop[p].redirects <= MaxRedirects
  /\ ~NeedsRobots(p)
  /\ Enter(p, hop[p].origin)
  /\ UNCHANGED <<now, semaphore, deadline, hop, page, robotsCache, left>>

(* The connection failed or the response was aborted: the request is made  *)
(* again at the next address, which no throttle call precedes.             *)
Retry(p) ==
  /\ step[p] = "request"
  /\ left[p] > 0
  /\ now < deadline[p]
  /\ left' = [left EXCEPT ![p] = @ - 1]
  /\ UNCHANGED <<now, semaphore, step, deadline, hop, page, robotsCache, throttling>>

Redirected(p, o) ==
  /\ step[p] = "request"
  /\ hop' = [hop EXCEPT ![p] = [origin |-> o, redirects |-> hop[p].redirects + 1,
                                robots |-> hop[p].robots]]
  /\ step' = [step EXCEPT ![p] = "approve"]
  /\ left' = [left EXCEPT ![p] = 0]
  /\ UNCHANGED <<now, semaphore, deadline, page, robotsCache, throttling>>

(* The robots.txt allows the page, or there is none.                       *)
RobotsAllow(p) ==
  /\ step[p] = "request"
  /\ hop[p].robots
  /\ hop' = [hop EXCEPT ![p] = page[p]]
  /\ robotsCache' = [robotsCache EXCEPT ![p] = @ \cup {page[p].origin}]
  /\ page' = [page EXCEPT ![p] = NoHop]
  /\ left' = [left EXCEPT ![p] = 0]
  /\ Enter(p, page[p].origin)
  /\ UNCHANGED <<now, semaphore, deadline>>

(* The page has come, the URL is refused, the redirects are too many, the  *)
(* robots.txt forbids the page, or the request times out or fails in a way *)
(* that no other address would mend, or at the last address.               *)
Finish(p) ==
  /\ step[p] \in {"approve", "request"}
  /\ End(p)
  /\ UNCHANGED <<now, throttling>>

Tick ==
  /\ now < MaxTime
  /\ now' = now + 1
  /\ UNCHANGED <<semaphore, step, deadline, hop, page, robotsCache, left, throttling>>

-----------------------------------------------------------------------------
Sends(p) == step'[p] = "request" /\ step[p] \in Calling

Advance(p) ==
  \/ AcquireTimeout(p) \/ Turn(p) \/ Pause(p) \/ QueueTimeout(p)
  \/ ReadRobots(p) \/ Approve(p) \/ Retry(p) \/ RobotsAllow(p) \/ Finish(p)

Begins == \E p \in Download, o \in Origin, timeout \in Timeouts : Begin(p, o, timeout)
Redirections == \E p \in Download, o \in Origin : Redirected(p, o)

Next == Tick \/ Begins \/ Redirections \/ \E p \in Download : Advance(p)

Spec == Init /\ [][Next]_vars

-----------------------------------------------------------------------------
TypeOK ==
  /\ now \in Time
  /\ active \in Nat
  /\ waiters \in Seq(Download)
  /\ step \in [Download -> Holding \cup {"idle", "waiting"}]
  /\ deadline \in [Download -> Time]
  /\ hop \in [Download -> Hop \cup {NoHop}] /\ page \in [Download -> Hop \cup {NoHop}]
  /\ \A p \in Download : step[p] # "idle" => hop[p] \in Hop /\ (hop[p].robots => page[p] \in Hop)
  /\ \A p \in Download : step[p] \in {"request"} \cup Calling => hop[p].redirects <= MaxRedirects
  /\ robotsCache \in [Download -> SUBSET Origin]
  /\ left \in [Download -> 0 .. MaxAddresses - 1]
  /\ tracked \in Seq(Origin) /\ Len(tracked) <= MaxTrackedOrigins
  /\ lastRequestByOrigin \in [Origin -> Time] /\ sent \in [Origin -> Time]
  /\ chain \in [Origin -> SUBSET Download]
  /\ last \in [Origin -> Download \cup {None}]
  /\ ahead \in [Download -> SUBSET Download]
  /\ wake \in [Download -> Nat]
  /\ forsaken \subseteq Origin

(* Permits are neither lost nor doubled, whatever times out, and none is   *)
(* free while a download waits for one (acquire, release).                 *)
PermitsAreConserved ==
  /\ active = Cardinality({p \in Download : step[p] \in Holding})
  /\ active <= MaxConcurrency
  /\ waiters # <<>> => active = MaxConcurrency
  /\ IsInjective(waiters)
  /\ Range(waiters) = {p \in Download : step[p] = "waiting"}

CallsTo(o) == {p \in Download : step[p] \in Calling /\ hop[p].origin = o}

(* The throttle queues hold nothing of a download that is not in them, so  *)
(* originThrottleQueues does not grow, and what a call waits for is calls  *)
(* that will leave (throttle, its finally block).                          *)
QueuesHoldOnlyCalls ==
  /\ \A o \in Origin :
       /\ chain[o] \subseteq CallsTo(o)
       /\ last[o] = None <=> chain[o] = {}
       /\ last[o] # None => last[o] \in chain[o]
  /\ \A p \in Download : ahead[p] # {} => step[p] = "queued" /\ ahead[p] \subseteq CallsTo(hop[p].origin) \ {p}

(* Unless a call behind a waiting one gave up, or the origin fell out of   *)
(* the bounded history, the requests that throttle calls let through to an *)
(* origin are MinimumDelay apart.  These are the requests to the first     *)
(* address of a host; the one that is made again at a further address      *)
(* (requestPinned) is not spaced, neither after them nor before them.      *)
FirstRequestsAreSpaced ==
  [][\A p \in Download : Sends(p) =>
       LET o == hop[p].origin
       IN  o \in Range(tracked) /\ o \notin forsaken => now - sent[o] >= MinimumDelay]_vars

(* The test "serializes the minimum delay for concurrent requests to the   *)
(* same origin" (audit-p2-p3-remediation.test.ts:165), with no exception.  *)
DelayIsSerialized ==
  [][\A p \in Download : Sends(p) =>
       LET o == hop[p].origin
       IN  o \in Range(tracked) => now - sent[o] >= MinimumDelay]_vars
=============================================================================
