------------------------------- MODULE PdfPool ------------------------------
(***************************************************************************)
(* The extraction of PDF texts: a pool of workers (RecoveringWorkerPool)   *)
(* and the client of each worker (PdfWorkerClient).                        *)
(*                                                                         *)
(* A slot holds a worker or repairs itself.  A call polls the slots until  *)
(* it has reserved a worker or its deadline is over, then waits for the    *)
(* text.  A worker may die at any moment, and may answer late.             *)
(***************************************************************************)
EXTENDS Integers, FiniteSets, Sequences

CONSTANTS PoolSize,
          Document, None,
          RetryDelay,  \* ticks between two attempts to replace a worker
          Timeout,     \* ticks an extraction may take
          MaxWorkers,  \* bound of the workers ever started
          MaxTime      \* bound of the clock

PoolAssumption ==
  /\ PoolSize \in Nat \ {0}
  /\ {RetryDelay, Timeout, MaxWorkers, MaxTime} \subseteq Nat
  /\ None \notin Nat \cup Document

VARIABLES clock,
          slots,    \* worker, the repair under way, and when the next may start
          workers,  \* the workers started so far
          inbox,    \* answers under way: worker, request and document
          extracts  \* the call for each document, made once

poolVars == <<clock, slots, workers, inbox, extracts>>

Slot == 1..PoolSize
NewSlot(w) == [worker |-> w, repair |-> FALSE, retryAt |-> 0]

(* A ready worker: whether it is dead, reserved, and for what it is asked. *)
NewWorker == [dead |-> FALSE, reserved |-> FALSE, active |-> None, request |-> 0]

Waiting == [step |-> "idle", worker |-> None, deadline |-> 0, text |-> None]

(* initialize starts every worker before the first call.                   *)
PoolInit ==
  /\ clock = 0
  /\ slots = [s \in Slot |-> NewSlot(s)]
  /\ workers = [s \in Slot |-> NewWorker]
  /\ inbox = {}
  /\ extracts = [d \in Document |-> Waiting]

Available(w) == ~workers[w].dead /\ ~workers[w].reserved /\ workers[w].active = None
Failed(s) == slots[s].worker # None /\ workers[slots[s].worker].dead

(* scheduleRepair of a slot without a worker.                              *)
Repaired(slot) ==
  IF slot.worker # None \/ slot.repair \/ clock < slot.retryAt
  THEN slot
  ELSE [slot EXCEPT !.repair = TRUE]

Emptied(slot) == Repaired([slot EXCEPT !.worker = None])

Begin(d) ==
  /\ extracts[d].step = "idle"
  /\ extracts' = [extracts EXCEPT ![d].step = "poll", ![d].deadline = clock + Timeout]
  /\ UNCHANGED <<clock, slots, workers, inbox>>

(* One pass of reserve over the slots, up to the worker it takes: the slots*)
(* before that one are emptied when their worker failed, and repaired.     *)
Free(s) == slots[s].worker # None /\ Available(slots[s].worker)
First == {s \in Slot : Free(s) /\ \A t \in Slot : t < s => ~Free(t)}

Visited(s) == IF Failed(s) THEN Emptied(slots[s]) ELSE Repaired(slots[s])

Reserve(d) ==
  /\ extracts[d].step = "poll"
  /\ \E s \in First :
       /\ slots' = [t \in Slot |-> IF t < s THEN Visited(t) ELSE slots[t]]
       /\ workers' = [workers EXCEPT ![slots[s].worker].reserved = TRUE]
       /\ extracts' = [extracts EXCEPT ![d].step = "extract", ![d].worker = slots[s].worker]
  /\ UNCHANGED <<clock, inbox>>

(* No worker is free: the call looks again later, or its time is over.     *)
Poll(d) ==
  /\ extracts[d].step = "poll"
  /\ First = {}
  /\ slots' = [s \in Slot |-> Visited(s)]
  /\ IF clock < extracts[d].deadline
     THEN slots' # slots /\ UNCHANGED extracts
     ELSE extracts' = [extracts EXCEPT ![d].step = "timeout"]
  /\ UNCHANGED <<clock, workers, inbox>>

(* reportFailure, when extract settled and the worker failed.              *)
Reported(w, failed) ==
  [s \in Slot |-> IF failed /\ slots[s].worker = w THEN Emptied(slots[s]) ELSE slots[s]]

(* extract: the worker may have died since it was reserved.                *)
Extract(d) ==
  LET w == extracts[d].worker
  IN  /\ extracts[d].step = "extract"
      /\ IF workers[w].dead \/ ~workers[w].reserved \/ workers[w].active # None
         THEN /\ extracts' = [extracts EXCEPT ![d].step = "failed"]
              /\ slots' = Reported(w, workers[w].dead)
              /\ UNCHANGED workers
         ELSE IF clock >= extracts[d].deadline
         THEN /\ extracts' = [extracts EXCEPT ![d].step = "timeout"]
              /\ workers' = [workers EXCEPT ![w].reserved = FALSE]
              /\ UNCHANGED slots
         ELSE /\ extracts' = [extracts EXCEPT ![d].step = "wait"]
              /\ workers' = [workers EXCEPT ![w].active = d, ![w].request = @ + 1]
              /\ UNCHANGED slots
      /\ UNCHANGED <<clock, inbox>>

(* The worker answers; its message is handled later.                       *)
Answer(w) ==
  /\ ~workers[w].dead /\ workers[w].active # None
  /\ inbox' = inbox \cup {[worker |-> w, request |-> workers[w].request,
                           document |-> workers[w].active]}
  /\ inbox' # inbox
  /\ UNCHANGED <<clock, slots, workers, extracts>>

(* handleMessage: an answer to another request than the active one is      *)
(* dropped.                                                                *)
HandleMessage(m) ==
  LET w == m.worker
      active == workers[w].active
  IN  /\ m \in inbox
      /\ inbox' = inbox \ {m}
      /\ IF active = None \/ workers[w].request # m.request
         THEN UNCHANGED <<workers, extracts>>
         ELSE /\ workers' = [workers EXCEPT ![w].active = None, ![w].reserved = FALSE]
              /\ extracts' = [extracts EXCEPT ![active].step = "done", ![active].text = m.document]
      /\ UNCHANGED <<clock, slots>>

(* The timer of the request: the worker is given up.                       *)
Expire(d) ==
  LET w == extracts[d].worker
  IN  /\ extracts[d].step = "wait" /\ clock >= extracts[d].deadline
      /\ workers' = [workers EXCEPT ![w] =
                       [@ EXCEPT !.dead = TRUE, !.reserved = FALSE, !.active = None]]
      /\ extracts' = [extracts EXCEPT ![d].step = "timeout"]
      /\ slots' = Reported(w, TRUE)
      /\ UNCHANGED <<clock, inbox>>

(* handleWorkerFailure: the worker ended, and its call with it.            *)
Die(w) ==
  LET d == workers[w].active
  IN  /\ ~workers[w].dead
      /\ workers' = [workers EXCEPT ![w] =
                       [@ EXCEPT !.dead = TRUE, !.reserved = FALSE, !.active = None]]
      /\ IF d = None
         THEN UNCHANGED <<extracts, slots>>
         ELSE /\ extracts' = [extracts EXCEPT ![d].step = "failed"]
              /\ slots' = Reported(w, TRUE)
      /\ UNCHANGED <<clock, inbox>>

(* Mutant: the repair that settled is not forgotten.                       *)
SettledUnnoticed(slot) == slot

Settled(slot) == [slot EXCEPT !.repair = FALSE]

(* The factory of a repair settles: with a ready worker, with one that has *)
(* died meanwhile, or not at all; a worker that failed is retried later.   *)
Settle(s) ==
  /\ slots[s].repair
  /\ \/ /\ Len(workers) < MaxWorkers
        /\ workers' = Append(workers, NewWorker)
        /\ slots' = [slots EXCEPT ![s] =
                       Settled([@ EXCEPT !.worker = Len(workers) + 1, !.retryAt = 0])]
     \/ /\ slots' = [slots EXCEPT ![s] = Settled([@ EXCEPT !.retryAt = clock + RetryDelay])]
        /\ UNCHANGED workers
  /\ UNCHANGED <<clock, inbox, extracts>>

(* A timer that is due runs before time goes on.                           *)
Tick ==
  /\ clock < MaxTime
  /\ \A d \in Document :
       /\ extracts[d].step # "extract"
       /\ extracts[d].step \in {"poll", "wait"} => clock < extracts[d].deadline
  /\ clock' = clock + 1
  /\ UNCHANGED <<slots, workers, inbox, extracts>>

PoolNext ==
  \/ \E d \in Document : Begin(d) \/ Reserve(d) \/ Poll(d) \/ Extract(d) \/ Expire(d)
  \/ \E w \in 1..Len(workers) : Answer(w) \/ Die(w)
  \/ \E m \in inbox : HandleMessage(m)
  \/ \E s \in Slot : Settle(s)
  \/ Tick

-----------------------------------------------------------------------------
(* No slot and no worker is lost: a slot without a worker is repaired or   *)
(* may be before long, a reserved worker works for the one call that holds *)
(* it, and a call has the text of its own document or none: with workers   *)
(* that die at any point, and answers that come after the timeout.         *)
SlotsComeBack ==
  /\ \A s \in Slot : \/ slots[s].worker # None /\ ~slots[s].repair
                     \/ slots[s].worker = None /\ slots[s].retryAt <= clock + RetryDelay
  /\ \A w \in 1..Len(workers) :
       Cardinality({d \in Document : /\ extracts[d].worker = w
                                     /\ extracts[d].step \in {"extract", "wait"}
                                     /\ ~workers[w].dead})
         = IF workers[w].reserved THEN 1 ELSE 0
  /\ \A d \in Document : extracts[d].step = "done" => extracts[d].text = d
=============================================================================
