------------------------------ MODULE WebTools ------------------------------
(***************************************************************************)
(* The Web tools of several MCP servers over one cache: clients call       *)
(* fetch_url and search_web, pages change, servers start again, and time   *)
(* passes only while every call waits for the network or for its client.   *)
(***************************************************************************)
EXTENDS FetchUrl, SearchWeb

(* Bound: a behaviour starts in one of these cases, [tool, page, route,    *)
(* registry]: the tool each client calls, and what it finds.               *)
CONSTANT Cases

ASSUME CasesAssumption ==
  Cases \subseteq [tool : [Call -> {"fetch_url", "search_web", None}], page : [Url -> Content],
                  route : [Url -> Url], registry : [Server -> Registry]]

(* The keys cover what clients may ask.                                    *)
ASSUME KeyAssumption ==
  /\ \A u \in Requested : ContentKey(u) \in Key
  /\ \A c \in Call : \A q \in Queries[c] : \A version \in Registry :
       IsValidRequest(q) => <<"search", Normalized(q), version>> \in Key

vars == <<now, events, rows, usage, failedAt, call, web, registry>>

(* The steps at which a call awaits an answer, with a timer at its deadline*)
Awaiting == {"approve", "download", "extract", "final"} \cup Passes

Init ==
  \E case \in Cases :
    /\ CacheInit
    /\ FetchInit(case.page, case.route)
    /\ SearchInit(case.registry)
    /\ call = [c \in Call |-> Idle(case.tool[c])]

(* The statements between two awaits take no time, and a timer that is due *)
(* runs before time goes on.                                               *)
Tick ==
  /\ now < MaxTime
  /\ \A c \in Call :
       \/ call[c].step = "idle"
       \/ call[c].step \in Awaiting /\ MayAnswer(c)
  /\ now' = now + 1
  /\ UNCHANGED <<events, rows, usage, failedAt, call, web, registry>>

(* The client has its answer.                                              *)
Return(c) ==
  /\ call[c].step = "answered"
  /\ call' = [call EXCEPT ![c] = Idle(call[c].tool)]
  /\ UNCHANGED <<now, events, rows, usage, failedAt, web, registry>>

Next ==
  \/ Tick
  \/ \E c \in Call : FetchStep(c) /\ UNCHANGED registry
  \/ \E c \in Call : SearchStep(c) /\ UNCHANGED web
  \/ \E c \in Call : Return(c)
  \/ /\ \E c \in Call : call[c].tool = "fetch_url"
     /\ WebStep
     /\ UNCHANGED registry
  \/ /\ \E c \in Call : call[c].tool = "search_web"
     /\ \E s \in Server, version \in Registry : Restart(s, version)
     /\ UNCHANGED web

Spec == Init /\ [][Next]_vars

-----------------------------------------------------------------------------
Value == FetchedValue \cup SearchAnswer \cup {None}

Asked == Requested \cup {None}
           \cup UNION {{Normalized(q) : q \in Queries[c]} : c \in Call}

WebRow == Row(Value, Content \cup {None}, Url \cup {None})

WebCall ==
  [tool : {"fetch_url", "search_web", None},
   step : {"idle", "approve", "read", "settle", "download", "extract", "store", "final",
           "rank", "answered"} \cup Passes,
   asked : Asked, started : 0..MaxTime, deadline : Nat, seen : WebRow, value : Value,
   status : {"HIT", "MISS", "DISABLED", "STALE_FALLBACK", None}, decided : 0..MaxTime,
   collected : SUBSET Result, english : BOOLEAN,
   error : FetchErrors \cup SearchErrors \cup {None}]

TypeOK ==
  /\ now \in 0..MaxTime
  /\ events \in 0..MaxEvents
  /\ rows \in [Key -> WebRow]
  /\ failedAt \in [Server -> 0..MaxTime \cup {Up}]
  /\ call \in [Call -> WebCall]
  /\ page \in [Url -> Content]
  /\ route \in [Url -> Url]
  /\ served \in [Requested -> [Url \X Content -> 0..MaxTime \cup {Never}]]
  /\ registry \in [Server -> Registry]
=============================================================================
