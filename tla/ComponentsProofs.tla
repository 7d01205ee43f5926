--------------------------- MODULE ComponentsProofs ---------------------------
(***************************************************************************)
(* Proofs about the components that work alone: the inductive invariants of*)
(* the pool of PDF workers, of the passes over an HTML page, of the        *)
(* selection of sections, of a snippet and of the commands that read the   *)
(* sources, and the theorems.  A behaviour of MCComponents is one of a     *)
(* single component, so an invariant is proved for the steps of that       *)
(* component and carried over by the last section.                         *)
(***************************************************************************)
EXTENDS MCComponents, StorageProofs

(***************************************************************************)
(* The pool of PDF workers                                                 *)
(***************************************************************************)
PdfSlot == [worker : Nat \cup {Nothing}, repair : BOOLEAN, retryAt : Nat]

PdfWorker ==
  [dead : BOOLEAN, reserved : BOOLEAN, active : Papers \cup {Nothing}, request : Nat]

PdfCall ==
  [step : {"idle", "poll", "extract", "wait", "done", "timeout", "failed"},
   worker : Nat \cup {Nothing}, deadline : Nat, text : Papers \cup {Nothing}]

PoolTypes ==
  /\ clock \in Nat
  /\ slots \in [Pool!Slot -> PdfSlot]
  /\ workers \in Seq(PdfWorker)
  /\ extracts \in [Papers -> PdfCall]
  /\ inbox \subseteq [worker : Nat, request : Nat, document : Papers]

(* A slot holds one of the workers there are, or nothing; it is repaired   *)
(* only when it holds nothing, and waits no longer than the delay.         *)
IsGoodSlot(slot, count, time) ==
  /\ slot.worker # Nothing => slot.worker \in 1..count /\ ~slot.repair
  /\ slot.retryAt <= time + RepairDelay

SlotsAreGood == \A s \in Pool!Slot : IsGoodSlot(slots[s], Len(workers), clock)

(* A call that holds a worker, which is alive.                             *)
Holds(d, w) ==
  extracts[d].worker = w /\ extracts[d].step \in {"extract", "wait"} /\ ~workers[w].dead

WorkersAreHeld ==
  \A w \in 1..Len(workers) :
    /\ workers[w].dead => ~workers[w].reserved /\ workers[w].active = Nothing
    /\ workers[w].reserved => \E d \in Papers : Holds(d, w)

(* A call works with a worker that is reserved for it alone and has no     *)
(* other request than its own.                                             *)
CallIsServed(d) ==
  /\ extracts[d].step \in {"extract", "wait"} => extracts[d].worker \in 1..Len(workers)
  /\ extracts[d].step = "extract" /\ ~workers[extracts[d].worker].dead =>
       /\ workers[extracts[d].worker].reserved
       /\ workers[extracts[d].worker].active = Nothing
  /\ extracts[d].step = "wait" =>
       /\ workers[extracts[d].worker].reserved
       /\ workers[extracts[d].worker].active = d
  /\ extracts[d].step = "done" => extracts[d].text = d

ActiveCallsWait ==
  \A w \in 1..Len(workers) : workers[w].active # Nothing =>
    extracts[workers[w].active].step = "wait" /\ extracts[workers[w].active].worker = w

HoldersAreAlone ==
  \A w \in 1..Len(workers) : \A d, e \in Papers : Holds(d, w) /\ Holds(e, w) => d = e

(* An answer under way that will not be dropped is about the document that *)
(* its worker is asked for.                                                *)
AnswersAreCurrent ==
  \A m \in inbox :
    /\ m.worker \in 1..Len(workers)
    /\ m.request <= workers[m.worker].request
    /\ m.request = workers[m.worker].request /\ workers[m.worker].active # Nothing =>
         m.document = workers[m.worker].active

PoolInv ==
  /\ PoolTypes
  /\ SlotsAreGood
  /\ WorkersAreHeld
  /\ \A d \in Papers : CallIsServed(d)
  /\ ActiveCallsWait
  /\ HoldersAreAlone
  /\ AnswersAreCurrent

LEMMA PoolInvInit ==
  ASSUME Pool!PoolAssumption, Pool!PoolInit
  PROVE  PoolInv
  <1>1. PoolSize \in Nat /\ workers = [s \in 1..PoolSize |-> Pool!NewWorker]
    BY DEF Pool!PoolAssumption, Pool!PoolInit, Pool!Slot
  <1>2. workers \in Seq(PdfWorker) /\ Len(workers) = PoolSize
    <2>1. Pool!NewWorker \in PdfWorker
      BY DEF PdfWorker, Pool!NewWorker
    <2>2. workers \in [1..PoolSize -> PdfWorker]
      BY <1>1, <2>1
    <2> QED
      BY <1>1, <2>2, FunctionIsSequence
  <1> USE DEF Pool!PoolAssumption, Pool!PoolInit, Pool!NewSlot, Pool!NewWorker, Pool!Waiting,
         Pool!Slot
  <1>3. PoolTypes
    <2>1. slots \in [Pool!Slot -> PdfSlot]
      BY DEF PdfSlot
    <2>2. extracts \in [Papers -> PdfCall]
      BY DEF PdfCall
    <2> QED
      BY <1>2, <2>1, <2>2 DEF PoolTypes
  <1>4. SlotsAreGood
    BY <1>2 DEF SlotsAreGood, IsGoodSlot
  <1>5. WorkersAreHeld /\ ActiveCallsWait /\ HoldersAreAlone /\ AnswersAreCurrent
    BY <1>2 DEF WorkersAreHeld, ActiveCallsWait, HoldersAreAlone, AnswersAreCurrent, Holds
  <1>6. \A d \in Papers : CallIsServed(d)
    BY DEF CallIsServed
  <1> QED
    BY <1>3, <1>4, <1>5, <1>6 DEF PoolInv

(* What one call leaves of a slot is good for the next.                    *)
LEMMA SlotsStayGood ==
  ASSUME Pool!PoolAssumption, clock \in Nat, NEW slot \in PdfSlot, NEW count,
         IsGoodSlot(slot, count, clock)
  PROVE  /\ Pool!Repaired(slot) \in PdfSlot /\ IsGoodSlot(Pool!Repaired(slot), count, clock)
         /\ Pool!Emptied(slot) \in PdfSlot /\ IsGoodSlot(Pool!Emptied(slot), count, clock)
  <1> DEFINE empty == [slot EXCEPT !.worker = Nothing]
  <1>1. ASSUME NEW t \in PdfSlot, IsGoodSlot(t, count, clock)
        PROVE  Pool!Repaired(t) \in PdfSlot /\ IsGoodSlot(Pool!Repaired(t), count, clock)
    BY <1>1 DEF Pool!Repaired, IsGoodSlot, PdfSlot
  <1>2. empty \in PdfSlot /\ IsGoodSlot(empty, count, clock)
    BY DEF PdfSlot, IsGoodSlot
  <1>3. Pool!Emptied(slot) = Pool!Repaired(empty)
    BY DEF Pool!Emptied
  <1> HIDE DEF empty
  <1> QED
    BY <1>1, <1>2, <1>3

LEMMA ReportLeavesGoodSlots ==
  ASSUME Pool!PoolAssumption, PoolInv, NEW w, NEW failed \in BOOLEAN,
         slots' = Pool!Reported(w, failed), Len(workers') = Len(workers), clock' = clock
  PROVE  slots' \in [Pool!Slot -> PdfSlot] /\ SlotsAreGood'
  <1>1. \A s \in Pool!Slot : slots'[s] = Pool!Emptied(slots[s]) \/ slots'[s] = slots[s]
    BY DEF Pool!Reported
  <1>2. \A s \in Pool!Slot : slots'[s] \in PdfSlot /\ IsGoodSlot(slots'[s], Len(workers), clock)
    BY <1>1, SlotsStayGood DEF PoolInv, PoolTypes, SlotsAreGood
  <1>3. slots' = [s \in Pool!Slot |-> slots'[s]]
    BY DEF Pool!Reported
  <1> QED
    BY <1>2, <1>3 DEF SlotsAreGood

LEMMA VisitLeavesGoodSlots ==
  ASSUME Pool!PoolAssumption, PoolInv, NEW limit \in Int,
         slots' = [t \in Pool!Slot |-> IF t < limit THEN Pool!Visited(t) ELSE slots[t]],
         Len(workers') = Len(workers), clock' = clock
  PROVE  slots' \in [Pool!Slot -> PdfSlot] /\ SlotsAreGood'
  <1>1. \A s \in Pool!Slot : slots'[s] \in
          {Pool!Emptied(slots[s]), Pool!Repaired(slots[s]), slots[s]}
    BY DEF Pool!Visited
  <1>2. \A s \in Pool!Slot : slots'[s] \in PdfSlot /\ IsGoodSlot(slots'[s], Len(workers), clock)
    BY <1>1, SlotsStayGood DEF PoolInv, PoolTypes, SlotsAreGood
  <1>3. slots' = [s \in Pool!Slot |-> slots'[s]]
    OBVIOUS
  <1> QED
    BY <1>2, <1>3 DEF SlotsAreGood

(* One worker and one call change.                                         *)
LEMMA WorkerUpdate ==
  ASSUME workers \in Seq(PdfWorker), NEW w \in 1..Len(workers), NEW x \in PdfWorker,
         workers' = [workers EXCEPT ![w] = x]
  PROVE  /\ workers' \in Seq(PdfWorker) /\ Len(workers') = Len(workers)
         /\ workers'[w] = x
         /\ \A v \in 1..Len(workers) : v # w => workers'[v] = workers[v]
  BY ExceptSeq

LEMMA WorkersAreTyped ==
  ASSUME PoolTypes
  PROVE  \A v \in 1..Len(workers) : workers[v] \in PdfWorker /\ v \in Nat
  BY ElementOfSeq, LenProperties DEF PoolTypes

(* A call that holds no worker changes.                                    *)
LEMMA CallWithoutWorker ==
  ASSUME Pool!PoolAssumption, PoolInv, NEW d \in Papers, NEW c \in PdfCall,
         extracts' = [extracts EXCEPT ![d] = c], UNCHANGED <<clock, workers, inbox>>,
         slots' \in [Pool!Slot -> PdfSlot], SlotsAreGood',
         extracts[d].step \in {"idle", "poll"}, c.step \in {"idle", "poll", "timeout"}
  PROVE  PoolInv'
  <1>1. PoolTypes'
    BY DEF PoolInv, PoolTypes
  <1>2. \A e \in Papers : e # d => extracts'[e] = extracts[e]
    BY DEF PoolInv, PoolTypes
  <1>3. extracts'[d] = c
    BY DEF PoolInv, PoolTypes
  <1>4. WorkersAreHeld' /\ HoldersAreAlone'
    BY <1>2, <1>3 DEF PoolInv, WorkersAreHeld, HoldersAreAlone, Holds
  <1>5. \A e \in Papers : CallIsServed(e)'
    BY <1>2, <1>3 DEF PoolInv, CallIsServed
  <1>6. ActiveCallsWait'
    <2>1. \A v \in 1..Len(workers) : workers[v].active \in Papers \cup {Nothing}
      BY WorkersAreTyped DEF PoolInv, PdfWorker
    <2> QED
      BY <2>1, <1>2, <1>3 DEF PoolInv, ActiveCallsWait
  <1>7. AnswersAreCurrent'
    BY DEF PoolInv, AnswersAreCurrent
  <1> QED
    BY <1>1, <1>4, <1>5, <1>6, <1>7 DEF PoolInv

(* A call becomes c and the one worker that it held, or that it holds from *)
(* now on, becomes x.                                                      *)
Exchanged(d, c, w, x) ==
  /\ extracts' = [extracts EXCEPT ![d] = c] /\ c \in PdfCall
  /\ w \in 1..Len(workers) /\ workers' = [workers EXCEPT ![w] = x] /\ x \in PdfWorker
  /\ clock' = clock /\ inbox' \subseteq inbox
  /\ slots' \in [Pool!Slot -> PdfSlot] /\ SlotsAreGood'
  /\ \A e \in Papers : e # d => ~Holds(e, w)
  /\ extracts[d].step \in {"extract", "wait"} => extracts[d].worker = w
  /\ workers[w].dead => x.dead
  /\ x.dead => ~x.reserved
  /\ x.reserved => c.step \in {"extract", "wait"}
  /\ c.step \in {"extract", "wait"} => c.worker = w /\ x.reserved
  /\ c.step = "extract" => x.active = Nothing
  /\ c.step = "wait" => x.active = d
  /\ x.active # Nothing => c.step = "wait"
  /\ c.step = "done" => c.text = d
  /\ \A m \in inbox' : m.worker = w =>
       m.request <= x.request /\ (m.request = x.request /\ c.step = "wait" => m.document = d)

LEMMA CallWithWorker ==
  ASSUME Pool!PoolAssumption, PoolInv, NEW d \in Papers, NEW c, NEW w, NEW x,
         Exchanged(d, c, w, x)
  PROVE  PoolInv'
  <1> USE DEF Exchanged
  <1>1. \A v \in 1..Len(workers) : workers[v] \in PdfWorker /\ v \in Nat
    BY WorkersAreTyped DEF PoolInv
  <1>2. /\ workers' \in Seq(PdfWorker) /\ Len(workers') = Len(workers)
        /\ workers'[w] = x
        /\ \A v \in 1..Len(workers) : v # w => workers'[v] = workers[v]
    BY WorkerUpdate DEF PoolInv, PoolTypes
  <1>3. /\ extracts'[d] = c
        /\ \A e \in Papers : e # d => extracts'[e] = extracts[e]
    BY DEF PoolInv, PoolTypes
  <1>4. PoolTypes'
    BY <1>2 DEF PoolInv, PoolTypes
  <1>5. \A e \in Papers : Holds(e, w)' => e = d
    BY <1>2, <1>3 DEF Holds
  <1>6. \A v \in 1..Len(workers) : \A e \in Papers : v # w => (Holds(e, v)' <=> Holds(e, v))
    BY <1>2, <1>3 DEF Holds
  <1>7. x.reserved => Holds(d, w)'
    BY <1>2, <1>3 DEF Holds
  <1>8. WorkersAreHeld'
    <2>1. \A v \in 1..Len(workers) : workers[v].reserved => \E e \in Papers : Holds(e, v)
      BY DEF PoolInv, WorkersAreHeld
    <2>2. \A v \in 1..Len(workers) : workers'[v].reserved => \E e \in Papers : Holds(e, v)'
      BY <2>1, <1>2, <1>6, <1>7
    <2>3. \A v \in 1..Len(workers) :
            workers'[v].dead => ~workers'[v].reserved /\ workers'[v].active = Nothing
      BY <1>2 DEF PoolInv, WorkersAreHeld
    <2> QED
      BY <1>2, <2>2, <2>3 DEF WorkersAreHeld
  <1>9. HoldersAreAlone'
    BY <1>2, <1>5, <1>6 DEF PoolInv, HoldersAreAlone
  <1>10. ASSUME NEW e \in Papers PROVE CallIsServed(e)'
    <2>1. CASE e = d
      BY <2>1, <1>2, <1>3 DEF CallIsServed
    <2>2. CASE e # d
      <3>1. CallIsServed(e) /\ extracts'[e] = extracts[e] /\ ~Holds(e, w)
        BY <2>2, <1>3 DEF PoolInv
      <3>2. extracts[e].step = "wait" => extracts[e].worker # w
        <4>1. workers[w].reserved => ~workers[w].dead
          BY DEF PoolInv, WorkersAreHeld
        <4> QED
          BY <3>1, <4>1 DEF Holds, CallIsServed
      <3> QED
        BY <3>1, <3>2, <1>2 DEF CallIsServed, Holds
    <2> QED
      BY <2>1, <2>2
  <1>11. ActiveCallsWait'
    <2>1. ASSUME NEW v \in 1..Len(workers), workers'[v].active # Nothing
          PROVE  extracts'[workers'[v].active].step = "wait"
                   /\ extracts'[workers'[v].active].worker = v
      <3>1. CASE v = w
        BY <2>1, <3>1, <1>2, <1>3
      <3>2. CASE v # w
        <4>1. workers'[v] = workers[v] /\ workers[v].active \in Papers
          BY <2>1, <3>2, <1>1, <1>2 DEF PdfWorker
        <4>2. extracts[workers[v].active].step = "wait" /\ extracts[workers[v].active].worker = v
          BY <2>1, <4>1 DEF PoolInv, ActiveCallsWait
        <4>3. workers[v].active # d
          BY <4>2, <3>2
        <4> QED
          BY <4>1, <4>2, <4>3, <1>3
      <3> QED
        BY <3>1, <3>2
    <2> QED
      BY <2>1, <1>2 DEF ActiveCallsWait
  <1>12. AnswersAreCurrent'
    BY <1>2 DEF PoolInv, AnswersAreCurrent
  <1> QED
    BY <1>4, <1>8, <1>9, <1>10, <1>11, <1>12 DEF PoolInv

LEMMA PoolBegin ==
  ASSUME Pool!PoolAssumption, PoolInv, NEW d \in Papers, Pool!Begin(d)
  PROVE  PoolInv'
  <1> DEFINE c == [extracts[d] EXCEPT !.step = "poll", !.deadline = clock + PdfTimeout]
  <1>1. /\ extracts' = [extracts EXCEPT ![d] = c]
        /\ UNCHANGED <<clock, slots, workers, inbox>>
        /\ extracts[d].step = "idle"
    BY DEF Pool!Begin, PoolInv, PoolTypes
  <1>2. clock + PdfTimeout \in Nat /\ extracts[d] \in PdfCall
    BY DEF PoolInv, PoolTypes, Pool!PoolAssumption
  <1>3. c \in PdfCall /\ c.step = "poll"
    BY <1>2 DEF PdfCall
  <1>4. slots' \in [Pool!Slot -> PdfSlot] /\ SlotsAreGood'
    BY <1>1 DEF PoolInv, PoolTypes, SlotsAreGood
  <1> HIDE DEF c
  <1> QED
    BY <1>1, <1>3, <1>4, CallWithoutWorker

LEMMA PoolPoll ==
  ASSUME Pool!PoolAssumption, PoolInv, NEW d \in Papers, Pool!Poll(d)
  PROVE  PoolInv'
  <1>1. /\ UNCHANGED <<clock, workers, inbox>> /\ extracts[d].step = "poll"
        /\ slots' = [s \in Pool!Slot |-> Pool!Visited(s)]
        /\ \/ UNCHANGED extracts
           \/ extracts' = [extracts EXCEPT ![d].step = "timeout"]
    BY DEF Pool!Poll
  <1>2. PICK c : /\ c = extracts[d] \/ c = [extracts[d] EXCEPT !.step = "timeout"]
                 /\ extracts' = [extracts EXCEPT ![d] = c]
    BY <1>1 DEF PoolInv, PoolTypes
  <1>3. c \in PdfCall /\ c.step \in {"poll", "timeout"}
    BY <1>1, <1>2 DEF PoolInv, PoolTypes, PdfCall
  <1>4. PoolSize + 1 \in Int
          /\ slots' = [t \in Pool!Slot |-> IF t < PoolSize + 1 THEN Pool!Visited(t) ELSE slots[t]]
    BY <1>1 DEF Pool!Slot, Pool!PoolAssumption
  <1>5. slots' \in [Pool!Slot -> PdfSlot] /\ SlotsAreGood'
    BY <1>1, <1>4, VisitLeavesGoodSlots
  <1> QED
    BY <1>1, <1>2, <1>3, <1>5, CallWithoutWorker

LEMMA PoolReserve ==
  ASSUME Pool!PoolAssumption, PoolInv, NEW d \in Papers, Pool!Reserve(d)
  PROVE  PoolInv'
  <1>1. PICK s \in Pool!First :
          /\ slots' = [t \in Pool!Slot |-> IF t < s THEN Pool!Visited(t) ELSE slots[t]]
          /\ workers' = [workers EXCEPT ![slots[s].worker].reserved = TRUE]
          /\ extracts' = [extracts EXCEPT ![d].step = "extract", ![d].worker = slots[s].worker]
    BY DEF Pool!Reserve
  <1>2. PICK w : w = slots[s].worker
    OBVIOUS
  <1>3. /\ w \in 1..Len(workers) /\ s \in Int /\ w \in Nat
        /\ ~workers[w].dead /\ ~workers[w].reserved /\ workers[w].active = Nothing
    BY <1>2 DEF Pool!First, Pool!Free, Pool!Available, PoolInv, PoolTypes, SlotsAreGood, IsGoodSlot,
         Pool!Slot, PdfSlot
  <1> DEFINE c == [extracts[d] EXCEPT !.step = "extract", !.worker = w]
             x == [workers[w] EXCEPT !.reserved = TRUE]
  <1>4. workers[w] \in PdfWorker /\ workers \in Seq(PdfWorker)
    BY <1>3, WorkersAreTyped DEF PoolInv, PoolTypes
  <1>5. c \in PdfCall /\ c.step = "extract" /\ c.worker = w
    BY <1>3 DEF PoolInv, PoolTypes, PdfCall
  <1>6. /\ x \in PdfWorker /\ x.reserved /\ ~x.dead /\ x.active = Nothing
        /\ x.request = workers[w].request
    BY <1>3, <1>4 DEF PdfWorker
  <1>7. extracts' = [extracts EXCEPT ![d] = c] /\ workers' = [workers EXCEPT ![w] = x]
    BY <1>1, <1>2, <1>3, <1>4 DEF PoolInv, PoolTypes
  <1>8. /\ UNCHANGED <<clock, inbox>> /\ extracts[d].step = "poll"
        /\ slots' = [t \in Pool!Slot |-> IF t < s THEN Pool!Visited(t) ELSE slots[t]]
    BY <1>1 DEF Pool!Reserve
  <1> HIDE DEF c, x
  <1>9. Len(workers') = Len(workers)
    BY <1>3, <1>4, <1>6, <1>7, WorkerUpdate
  <1>10. slots' \in [Pool!Slot -> PdfSlot] /\ SlotsAreGood'
    BY <1>3, <1>8, <1>9, VisitLeavesGoodSlots
  <1>11. \A e \in Papers : ~Holds(e, w)
    BY <1>3 DEF PoolInv, CallIsServed, Holds
  <1>12. \A m \in inbox : m.worker = w => m.request <= x.request
    BY <1>6 DEF PoolInv, AnswersAreCurrent
  <1>13. Exchanged(d, c, w, x)
    BY <1>3, <1>5, <1>6, <1>7, <1>8, <1>10, <1>11, <1>12 DEF Exchanged
  <1> QED
    BY <1>13, CallWithWorker

(* Nobody else holds the worker of a call, and it is there.                *)
LEMMA WorkerOfCall ==
  ASSUME PoolInv, NEW d \in Papers, extracts[d].step \in {"extract", "wait"},
         NEW w, w = extracts[d].worker
  PROVE  /\ w \in 1..Len(workers) /\ workers[w] \in PdfWorker
         /\ workers = [workers EXCEPT ![w] = workers[w]]
         /\ \A e \in Papers : e # d => ~Holds(e, w)
         /\ \A m \in inbox : m.worker = w => m.request <= workers[w].request
         /\ extracts[d] \in PdfCall
  <1>1. w \in 1..Len(workers)
    BY DEF PoolInv, CallIsServed
  <1>2. workers[w] \in PdfWorker
    BY <1>1, WorkersAreTyped DEF PoolInv
  <1>3. workers = [workers EXCEPT ![w] = workers[w]]
    BY <1>1, LenProperties DEF PoolInv, PoolTypes
  <1>4. \A e \in Papers : e # d => ~Holds(e, w)
    BY <1>1 DEF PoolInv, HoldersAreAlone, Holds
  <1>5. \A m \in inbox : m.worker = w => m.request <= workers[w].request
    BY DEF PoolInv, AnswersAreCurrent
  <1>6. extracts[d] \in PdfCall
    BY DEF PoolInv, PoolTypes
  <1> QED
    BY <1>1, <1>2, <1>3, <1>4, <1>5, <1>6

LEMMA PoolExtract ==
  ASSUME Pool!PoolAssumption, PoolInv, NEW d \in Papers, Pool!Extract(d)
  PROVE  PoolInv'
  <1>1. PICK w : w = extracts[d].worker
    OBVIOUS
  <1>2. extracts[d].step = "extract" /\ UNCHANGED <<clock, inbox>>
    BY DEF Pool!Extract
  <1>3. /\ w \in 1..Len(workers) /\ workers[w] \in PdfWorker
        /\ workers = [workers EXCEPT ![w] = workers[w]]
        /\ \A e \in Papers : e # d => ~Holds(e, w)
        /\ \A m \in inbox : m.worker = w => m.request <= workers[w].request
        /\ extracts[d] \in PdfCall
    BY <1>1, <1>2, WorkerOfCall
  <1>4. ~workers[w].dead => workers[w].reserved /\ workers[w].active = Nothing
    BY <1>1, <1>2 DEF PoolInv, CallIsServed
  <1>5. workers[w].dead => ~workers[w].reserved /\ workers[w].active = Nothing
    BY <1>3 DEF PoolInv, WorkersAreHeld
  <1>6. /\ workers \in Seq(PdfWorker) /\ slots \in [Pool!Slot -> PdfSlot] /\ SlotsAreGood
        /\ extracts \in [Papers -> PdfCall]
    BY DEF PoolInv, PoolTypes
  <1>7. CASE workers[w].dead
    <2> DEFINE c == [extracts[d] EXCEPT !.step = "failed"]
    <2>1. /\ extracts' = [extracts EXCEPT ![d] = c] /\ workers' = workers
          /\ slots' = Pool!Reported(w, TRUE)
      BY <1>1, <1>6, <1>7 DEF Pool!Extract
    <2>2. c \in PdfCall /\ c.step = "failed"
      BY <1>3 DEF PdfCall
    <2> HIDE DEF c
    <2>3. slots' \in [Pool!Slot -> PdfSlot] /\ SlotsAreGood'
      BY <2>1, <1>2, ReportLeavesGoodSlots
    <2>4. Exchanged(d, c, w, workers[w])
      BY <1>1, <1>2, <1>3, <1>5, <1>7, <2>1, <2>2, <2>3 DEF Exchanged
    <2> QED
      BY <2>4, CallWithWorker
  <1>8. CASE ~workers[w].dead /\ clock >= extracts[d].deadline
    <2> DEFINE c == [extracts[d] EXCEPT !.step = "timeout"]
               x == [workers[w] EXCEPT !.reserved = FALSE]
    <2>1. /\ extracts' = [extracts EXCEPT ![d] = c] /\ slots' = slots
          /\ workers' = [workers EXCEPT ![w] = x]
      BY <1>1, <1>3, <1>4, <1>6, <1>8 DEF Pool!Extract
    <2>2. c \in PdfCall /\ c.step = "timeout"
      BY <1>3 DEF PdfCall
    <2>3. /\ x \in PdfWorker /\ ~x.reserved /\ ~x.dead /\ x.active = Nothing
          /\ x.request = workers[w].request
      BY <1>3, <1>4, <1>8 DEF PdfWorker
    <2> HIDE DEF c, x
    <2>4. Len(workers') = Len(workers)
      BY <1>3, <1>6, <2>1, <2>3, WorkerUpdate
    <2>5. slots' \in [Pool!Slot -> PdfSlot] /\ SlotsAreGood'
      BY <1>2, <1>6, <2>1, <2>4 DEF SlotsAreGood
    <2>6. Exchanged(d, c, w, x)
      BY <1>1, <1>2, <1>3, <1>8, <2>1, <2>2, <2>3, <2>5 DEF Exchanged
    <2> QED
      BY <2>6, CallWithWorker
  <1>9. CASE ~workers[w].dead /\ ~(clock >= extracts[d].deadline)
    <2>0. PICK n : n = workers[w].request + 1
      OBVIOUS
    <2> DEFINE c == [extracts[d] EXCEPT !.step = "wait"]
               x == [workers[w] EXCEPT !.active = d, !.request = n]
    <2>1. /\ extracts' = [extracts EXCEPT ![d] = c] /\ slots' = slots
          /\ workers' = [workers EXCEPT ![w] = x]
      <3>1. /\ extracts' = [extracts EXCEPT ![d].step = "wait"] /\ slots' = slots
            /\ workers' = [workers EXCEPT ![w].active = d,
                                          ![w].request = workers[w].request + 1]
        BY <1>1, <1>4, <1>9 DEF Pool!Extract
      <3> QED
        BY <1>3, <1>6, <2>0, <3>1
    <2>2. c \in PdfCall /\ c.step = "wait" /\ c.worker = w
      BY <1>1, <1>3 DEF PdfCall
    <2>3. /\ x \in PdfWorker /\ x.reserved /\ ~x.dead /\ x.active = d
          /\ x.request = workers[w].request + 1 /\ workers[w].request \in Nat
      <3>1. workers[w].request \in Nat /\ n \in Nat
        BY <1>3, <2>0 DEF PdfWorker
      <3> QED
        BY <1>3, <1>4, <1>9, <2>0, <3>1 DEF PdfWorker
    <2> HIDE DEF c, x
    <2>4. Len(workers') = Len(workers)
      BY <1>3, <1>6, <2>1, <2>3, WorkerUpdate
    <2>5. slots' \in [Pool!Slot -> PdfSlot] /\ SlotsAreGood'
      BY <1>2, <1>6, <2>1, <2>4 DEF SlotsAreGood
    <2>6. \A m \in inbox : m.worker = w => m.request < x.request
      BY <1>3, <2>3 DEF PoolInv, PoolTypes
    <2>7. \A m \in inbox : m.worker = w => m.request <= x.request /\ m.request # x.request
      BY <2>3, <2>6 DEF PoolInv, PoolTypes
    <2>8. Exchanged(d, c, w, x)
      BY <1>1, <1>2, <1>3, <1>9, <2>1, <2>2, <2>3, <2>5, <2>7 DEF Exchanged
    <2> QED
      BY <2>8, CallWithWorker
  <1> QED
    BY <1>7, <1>8, <1>9

(* A worker dies with the call that waits for it.                          *)
LEMMA WorkerDiesWithCall ==
  ASSUME Pool!PoolAssumption, PoolInv, NEW d \in Papers, extracts[d].step = "wait",
         NEW w, w = extracts[d].worker, NEW outcome \in {"timeout", "failed"},
         workers' = [workers EXCEPT ![w] =
                       [@ EXCEPT !.dead = TRUE, !.reserved = FALSE, !.active = Nothing]],
         extracts' = [extracts EXCEPT ![d].step = outcome],
         slots' = Pool!Reported(w, TRUE), UNCHANGED <<clock, inbox>>
  PROVE  PoolInv'
  <1>1. /\ w \in 1..Len(workers) /\ workers[w] \in PdfWorker
        /\ \A e \in Papers : e # d => ~Holds(e, w)
        /\ \A m \in inbox : m.worker = w => m.request <= workers[w].request
        /\ extracts[d] \in PdfCall
    BY WorkerOfCall
  <1>2. workers \in Seq(PdfWorker)
    BY DEF PoolInv, PoolTypes
  <1> DEFINE c == [extracts[d] EXCEPT !.step = outcome]
             x == [workers[w] EXCEPT !.dead = TRUE, !.reserved = FALSE, !.active = Nothing]
  <1>3. extracts' = [extracts EXCEPT ![d] = c] /\ workers' = [workers EXCEPT ![w] = x]
    BY <1>1, <1>2 DEF PoolInv, PoolTypes
  <1>4. c \in PdfCall /\ c.step \in {"timeout", "failed"}
    BY <1>1 DEF PdfCall
  <1>5. /\ x \in PdfWorker /\ ~x.reserved /\ x.dead /\ x.active = Nothing
        /\ x.request = workers[w].request
    BY <1>1 DEF PdfWorker
  <1> HIDE DEF c, x
  <1>6. Len(workers') = Len(workers)
    BY <1>1, <1>2, <1>3, <1>5, WorkerUpdate
  <1>7. slots' \in [Pool!Slot -> PdfSlot] /\ SlotsAreGood'
    BY <1>6, ReportLeavesGoodSlots
  <1>8. Exchanged(d, c, w, x)
    BY <1>1, <1>3, <1>4, <1>5, <1>7 DEF Exchanged
  <1> QED
    BY <1>8, CallWithWorker

LEMMA PoolExpire ==
  ASSUME Pool!PoolAssumption, PoolInv, NEW d \in Papers, Pool!Expire(d)
  PROVE  PoolInv'
  BY WorkerDiesWithCall DEF Pool!Expire

LEMMA PoolDie ==
  ASSUME Pool!PoolAssumption, PoolInv, NEW w \in 1..Len(workers), Pool!Die(w)
  PROVE  PoolInv'
  <1>1. workers[w] \in PdfWorker /\ workers \in Seq(PdfWorker)
    BY WorkersAreTyped DEF PoolInv, PoolTypes
  <1>2. CASE workers[w].active # Nothing
    <2>1. PICK d \in Papers : d = workers[w].active
      BY <1>1, <1>2 DEF PdfWorker
    <2>2. extracts[d].step = "wait" /\ extracts[d].worker = w
      BY <1>2, <2>1 DEF PoolInv, ActiveCallsWait
    <2> QED
      BY <1>2, <2>1, <2>2, WorkerDiesWithCall DEF Pool!Die
  <1>3. CASE workers[w].active = Nothing
    <2> DEFINE x == [workers[w] EXCEPT !.dead = TRUE, !.reserved = FALSE, !.active = Nothing]
    <2>1. workers' = [workers EXCEPT ![w] = x] /\ UNCHANGED <<clock, slots, inbox, extracts>>
      BY <1>1, <1>3 DEF Pool!Die
    <2>2. /\ x \in PdfWorker /\ x.dead /\ ~x.reserved /\ x.active = Nothing
          /\ x.request = workers[w].request
      BY <1>1 DEF PdfWorker
    <2> HIDE DEF x
    <2>3. /\ workers' \in Seq(PdfWorker) /\ Len(workers') = Len(workers)
          /\ workers'[w] = x
          /\ \A v \in 1..Len(workers) : v # w => workers'[v] = workers[v]
      BY <1>1, <2>1, <2>2, WorkerUpdate
    <2>4. PoolTypes' /\ SlotsAreGood'
      BY <2>1, <2>3 DEF PoolInv, PoolTypes, SlotsAreGood
    <2>5. \A v \in 1..Len(workers) : \A e \in Papers :
            Holds(e, v)' <=> Holds(e, v) /\ v # w
      BY <2>1, <2>2, <2>3 DEF Holds
    <2>6. WorkersAreHeld' /\ HoldersAreAlone'
      BY <2>2, <2>3, <2>5 DEF PoolInv, WorkersAreHeld, HoldersAreAlone
    <2>7. \A e \in Papers : CallIsServed(e)'
      BY <1>3, <2>1, <2>2, <2>3, WorkersAreTyped DEF PoolInv, CallIsServed, Pool!PoolAssumption
    <2>8. ActiveCallsWait' /\ AnswersAreCurrent'
      BY <2>1, <2>2, <2>3 DEF PoolInv, ActiveCallsWait, AnswersAreCurrent
    <2> QED
      BY <2>4, <2>6, <2>7, <2>8 DEF PoolInv
  <1> QED
    BY <1>2, <1>3

(* An answer joins those under way: it is about the active request.        *)
LEMMA PoolAnswer ==
  ASSUME Pool!PoolAssumption, PoolInv, NEW w \in 1..Len(workers), Pool!Answer(w)
  PROVE  PoolInv'
  <1> DEFINE m == [worker |-> w, request |-> workers[w].request, document |-> workers[w].active]
  <1>1. inbox' = inbox \cup {m} /\ UNCHANGED <<clock, slots, workers, extracts>>
    BY DEF Pool!Answer
  <1>2. workers[w] \in PdfWorker /\ w \in Nat /\ workers[w].active # Nothing
    BY WorkersAreTyped DEF PoolInv, Pool!Answer
  <1>3. /\ m \in [worker : Nat, request : Nat, document : Papers]
        /\ m.worker = w /\ m.request = workers[w].request /\ m.document = workers[w].active
        /\ workers[w].request \in Nat
    BY <1>2 DEF PdfWorker
  <1> HIDE DEF m
  <1>4. PoolTypes'
    BY <1>1, <1>3 DEF PoolInv, PoolTypes
  <1>5. AnswersAreCurrent'
    BY <1>1, <1>3 DEF PoolInv, AnswersAreCurrent
  <1>6. SlotsAreGood' /\ WorkersAreHeld' /\ ActiveCallsWait' /\ HoldersAreAlone'
          /\ \A d \in Papers : CallIsServed(d)'
    BY <1>1 DEF PoolInv, SlotsAreGood, WorkersAreHeld, ActiveCallsWait, HoldersAreAlone, Holds,
         CallIsServed
  <1> QED
    BY <1>4, <1>5, <1>6 DEF PoolInv

(* What the handling of a message and the clock leave alone.               *)
LEMMA OnlyInboxAndClock ==
  ASSUME Pool!PoolAssumption, PoolInv, inbox' \subseteq inbox,
         clock' \in Nat, clock <= clock', UNCHANGED <<slots, workers, extracts>>
  PROVE  PoolInv'
  <1>1. PoolTypes'
    BY DEF PoolInv, PoolTypes
  <1>2. SlotsAreGood'
    <2>1. \A s \in Pool!Slot : slots[s].retryAt \in Nat
      BY DEF PoolInv, PoolTypes, PdfSlot
    <2>2. clock \in Nat /\ RepairDelay \in Nat
      BY DEF PoolInv, PoolTypes, Pool!PoolAssumption
    <2> QED
      BY <2>1, <2>2 DEF PoolInv, SlotsAreGood, IsGoodSlot
  <1>3. WorkersAreHeld' /\ ActiveCallsWait' /\ HoldersAreAlone'
          /\ \A d \in Papers : CallIsServed(d)'
    BY DEF PoolInv, WorkersAreHeld, ActiveCallsWait, HoldersAreAlone, Holds, CallIsServed
  <1>4. AnswersAreCurrent'
    BY DEF PoolInv, AnswersAreCurrent
  <1> QED
    BY <1>1, <1>2, <1>3, <1>4 DEF PoolInv

LEMMA PoolHandleMessage ==
  ASSUME Pool!PoolAssumption, PoolInv, NEW m \in inbox, Pool!HandleMessage(m)
  PROVE  PoolInv'
  <1>1. PICK w : w = m.worker
    OBVIOUS
  <1>2. w \in 1..Len(workers) /\ workers[w] \in PdfWorker /\ workers \in Seq(PdfWorker)
    BY <1>1, WorkersAreTyped DEF PoolInv, PoolTypes, AnswersAreCurrent
  <1>3. inbox' = inbox \ {m} /\ UNCHANGED <<clock, slots>> /\ clock \in Nat
    BY DEF Pool!HandleMessage, PoolInv, PoolTypes
  <1>4. CASE workers[w].active = Nothing \/ workers[w].request # m.request
    <2>1. UNCHANGED <<workers, extracts>>
      BY <1>1, <1>4 DEF Pool!HandleMessage
    <2> QED
      BY <1>3, <2>1, OnlyInboxAndClock
  <1>5. CASE workers[w].active # Nothing /\ workers[w].request = m.request
    <2>1. PICK d \in Papers : d = workers[w].active
      BY <1>2, <1>5 DEF PdfWorker
    <2>2. /\ extracts[d].step = "wait" /\ extracts[d].worker = w
          /\ m.document = d
      BY <1>1, <1>2, <1>5, <2>1 DEF PoolInv, ActiveCallsWait, AnswersAreCurrent
    <2>3. /\ \A e \in Papers : e # d => ~Holds(e, w)
          /\ \A n \in inbox : n.worker = w => n.request <= workers[w].request
          /\ extracts[d] \in PdfCall
      BY <2>2, WorkerOfCall
    <2>4. ~workers[w].dead
      BY <1>2, <1>5 DEF PoolInv, WorkersAreHeld
    <2> DEFINE c == [extracts[d] EXCEPT !.step = "done", !.text = d]
               x == [workers[w] EXCEPT !.active = Nothing, !.reserved = FALSE]
    <2>5. extracts' = [extracts EXCEPT ![d] = c] /\ workers' = [workers EXCEPT ![w] = x]
      BY <1>1, <1>2, <1>5, <2>1, <2>2, <2>3 DEF Pool!HandleMessage, PoolInv, PoolTypes
    <2>6. c \in PdfCall /\ c.step = "done" /\ c.text = d
      BY <2>3 DEF PdfCall
    <2>7. /\ x \in PdfWorker /\ ~x.reserved /\ x.active = Nothing
          /\ x.dead = workers[w].dead /\ x.request = workers[w].request
      BY <1>2 DEF PdfWorker
    <2> HIDE DEF c, x
    <2>8. Len(workers') = Len(workers)
      BY <1>2, <2>5, <2>7, WorkerUpdate
    <2>9. slots' \in [Pool!Slot -> PdfSlot] /\ SlotsAreGood'
      BY <1>3, <2>8 DEF PoolInv, PoolTypes, SlotsAreGood
    <2>10. Exchanged(d, c, w, x)
      BY <1>2, <1>3, <2>2, <2>3, <2>4, <2>5, <2>6, <2>7, <2>9 DEF Exchanged
    <2> QED
      BY <2>10, CallWithWorker
  <1> QED
    BY <1>4, <1>5

LEMMA PoolSettle ==
  ASSUME Pool!PoolAssumption, PoolInv, NEW s \in Pool!Slot, Pool!Settle(s)
  PROVE  PoolInv'
  <1>1. /\ slots[s].repair /\ UNCHANGED <<clock, inbox, extracts>>
        /\ slots \in [Pool!Slot -> PdfSlot] /\ slots[s] \in PdfSlot
        /\ workers \in Seq(PdfWorker) /\ Len(workers) \in Nat /\ clock \in Nat
        /\ RepairDelay \in Nat
    BY LenProperties DEF Pool!Settle, PoolInv, PoolTypes, Pool!PoolAssumption
  <1>2. slots[s].worker = Nothing
    BY <1>1 DEF PoolInv, SlotsAreGood, IsGoodSlot
  <1>3. CASE /\ workers' = Append(workers, Pool!NewWorker)
             /\ slots' = [slots EXCEPT ![s] = Pool!Settled(
                           [@ EXCEPT !.worker = Len(workers) + 1, !.retryAt = 0])]
    <2> DEFINE slot == Pool!Settled([slots[s] EXCEPT !.worker = Len(workers) + 1, !.retryAt = 0])
    <2>1. slots' = [slots EXCEPT ![s] = slot]
      BY <1>1, <1>3
    <2>2. /\ slot \in PdfSlot /\ slot.worker = Len(workers) + 1 /\ ~slot.repair
          /\ slot.retryAt = 0
      <3>1. PICK n \in Nat : n = Len(workers) + 1
        BY <1>1
      <3>2. slot = Pool!Settled([slots[s] EXCEPT !.worker = n, !.retryAt = 0])
        BY <3>1
      <3> HIDE DEF slot
      <3> QED
        BY <1>1, <3>1, <3>2 DEF PdfSlot, Pool!Settled
    <2> HIDE DEF slot
    <2>3. Pool!NewWorker \in PdfWorker
      BY DEF Pool!NewWorker, PdfWorker
    <2>4. /\ workers' \in Seq(PdfWorker) /\ Len(workers') = Len(workers) + 1
          /\ \A v \in 1..Len(workers) : workers'[v] = workers[v]
          /\ workers'[Len(workers) + 1] = Pool!NewWorker
      BY <1>1, <1>3, <2>3, AppendProperties
    <2>5. slots' \in [Pool!Slot -> PdfSlot]
      BY <1>1, <2>1, <2>2
    <2>6. PoolTypes'
      BY <1>1, <2>4, <2>5 DEF PoolInv, PoolTypes
    <2>7. SlotsAreGood'
      BY <1>1, <2>1, <2>2, <2>4 DEF PoolInv, SlotsAreGood, IsGoodSlot
    <2>8. \A v \in 1..Len(workers') : v = Len(workers) + 1 \/ v \in 1..Len(workers)
      BY <1>1, <2>4
    <2>9. /\ ~Pool!NewWorker.dead /\ ~Pool!NewWorker.reserved
          /\ Pool!NewWorker.active = Nothing
      BY DEF Pool!NewWorker
    <2>10. \A v \in 1..Len(workers) : \A e \in Papers : Holds(e, v)' <=> Holds(e, v)
      BY <1>1, <2>4 DEF Holds
    <2>11. \A v \in Nat : v = Len(workers) + 1 => \A e \in Papers : ~Holds(e, v)'
      BY <1>1, <2>4 DEF Holds, PoolInv, CallIsServed
    <2>12. WorkersAreHeld'
      BY <2>4, <2>8, <2>9, <2>10 DEF PoolInv, WorkersAreHeld
    <2>13. HoldersAreAlone'
      <3>1. ASSUME NEW v \in 1..Len(workers'), NEW d \in Papers, NEW e \in Papers,
                   Holds(d, v)', Holds(e, v)'
            PROVE  d = e
        <4>1. v \in 1..Len(workers)
          BY <2>8, <2>11, <3>1
        <4>2. Holds(d, v) /\ Holds(e, v)
          BY <2>10, <3>1, <4>1
        <4> QED
          BY <4>1, <4>2 DEF PoolInv, HoldersAreAlone
      <3> QED
        BY <3>1 DEF HoldersAreAlone
    <2>14. ASSUME NEW e \in Papers PROVE CallIsServed(e)'
      <3>1. CallIsServed(e) /\ extracts'[e] = extracts[e]
        BY <1>1 DEF PoolInv
      <3>2. CASE extracts[e].step \in {"extract", "wait"}
        <4>1. extracts[e].worker \in 1..Len(workers)
          BY <3>1, <3>2 DEF CallIsServed
        <4>2. /\ workers'[extracts[e].worker] = workers[extracts[e].worker]
              /\ extracts[e].worker \in 1..Len(workers')
          BY <1>1, <2>4, <4>1
        <4> QED
          BY <3>1, <4>2 DEF CallIsServed
      <3>3. CASE extracts[e].step \notin {"extract", "wait"}
        BY <3>1, <3>3 DEF CallIsServed
      <3> QED
        BY <3>2, <3>3
    <2>15. ActiveCallsWait'
      BY <1>1, <2>4, <2>8, <2>9 DEF PoolInv, ActiveCallsWait
    <2>16. AnswersAreCurrent'
      BY <1>1, <2>4 DEF PoolInv, AnswersAreCurrent
    <2> QED
      BY <2>6, <2>7, <2>12, <2>13, <2>14, <2>15, <2>16 DEF PoolInv
  <1>4. CASE /\ slots' = [slots EXCEPT ![s] =
                           Pool!Settled([@ EXCEPT !.retryAt = clock + RepairDelay])]
             /\ UNCHANGED workers
    <2> DEFINE slot == Pool!Settled([slots[s] EXCEPT !.retryAt = clock + RepairDelay])
    <2>1. slots' = [slots EXCEPT ![s] = slot]
      BY <1>1, <1>4
    <2>2. slot \in PdfSlot /\ slot.worker = Nothing /\ slot.retryAt = clock + RepairDelay
      <3>1. PICK n \in Nat : n = clock + RepairDelay
        BY <1>1
      <3>2. slot = Pool!Settled([slots[s] EXCEPT !.retryAt = n])
        BY <3>1
      <3> HIDE DEF slot
      <3> QED
        BY <1>1, <1>2, <3>1, <3>2 DEF PdfSlot, Pool!Settled
    <2> HIDE DEF slot
    <2>3. slots' \in [Pool!Slot -> PdfSlot] /\ PoolTypes'
      BY <1>1, <1>4, <2>1, <2>2 DEF PoolInv, PoolTypes
    <2>5. ASSUME NEW t \in Pool!Slot
          PROVE  IsGoodSlot(slots[t], Len(workers), clock)'
      <3>1. CASE t = s
        BY <1>1, <1>4, <2>1, <2>2, <3>1 DEF IsGoodSlot, PdfSlot
      <3>2. CASE t # s
        BY <1>1, <1>4, <2>1, <3>2 DEF PoolInv, SlotsAreGood, IsGoodSlot
      <3> QED
        BY <3>1, <3>2
    <2>6. SlotsAreGood'
      BY <2>5 DEF SlotsAreGood
    <2>4. WorkersAreHeld' /\ ActiveCallsWait' /\ HoldersAreAlone' /\ AnswersAreCurrent'
            /\ \A d \in Papers : CallIsServed(d)'
      BY <1>1, <1>4 DEF PoolInv, WorkersAreHeld, ActiveCallsWait, HoldersAreAlone, Holds,
           CallIsServed, AnswersAreCurrent
    <2> QED
      BY <2>3, <2>4, <2>6 DEF PoolInv
  <1> QED
    BY <1>3, <1>4 DEF Pool!Settle

LEMMA PoolStep ==
  ASSUME Pool!PoolAssumption, PoolInv, Pool!PoolNext
  PROVE  PoolInv'
  <1>1. ASSUME NEW d \in Papers,
               Pool!Begin(d) \/ Pool!Reserve(d) \/ Pool!Poll(d) \/ Pool!Extract(d) \/ Pool!Expire(d)
        PROVE  PoolInv'
    BY <1>1, PoolBegin, PoolReserve, PoolPoll, PoolExtract, PoolExpire
  <1>2. ASSUME NEW w \in 1..Len(workers), Pool!Answer(w) \/ Pool!Die(w) PROVE PoolInv'
    BY <1>2, PoolAnswer, PoolDie
  <1>3. ASSUME NEW m \in inbox, Pool!HandleMessage(m) PROVE PoolInv'
    BY <1>3, PoolHandleMessage
  <1>4. ASSUME NEW s \in Pool!Slot, Pool!Settle(s) PROVE PoolInv'
    BY <1>4, PoolSettle
  <1>5. CASE Pool!Tick
    <2>1. clock \in Nat
      BY DEF PoolInv, PoolTypes
    <2> QED
      BY <1>5, <2>1, OnlyInboxAndClock DEF Pool!Tick
  <1> QED
    BY <1>1, <1>2, <1>3, <1>4, <1>5 DEF Pool!PoolNext

LEMMA PoolStutter ==
  ASSUME Pool!PoolAssumption, PoolInv, UNCHANGED poolVars
  PROVE  PoolInv'
  <1>1. clock \in Nat
    BY DEF PoolInv, PoolTypes
  <1> QED
    BY <1>1, OnlyInboxAndClock DEF poolVars

LEMMA PoolCardinality == \A S : Pool!Cardinality(S) = Cardinality(S)
  BY Zenon DEF Pool!Cardinality, Cardinality

(* The calls that hold a worker are none or one.                           *)
LEMMA PoolProperty ==
  ASSUME Pool!PoolAssumption, PoolInv
  PROVE  Pool!SlotsComeBack
  <1>1. ASSUME NEW s \in Pool!Slot
        PROVE  \/ slots[s].worker # Nothing /\ ~slots[s].repair
               \/ slots[s].worker = Nothing /\ slots[s].retryAt <= clock + RepairDelay
    BY DEF PoolInv, SlotsAreGood, IsGoodSlot
  <1>2. ASSUME NEW w \in 1..Len(workers)
        PROVE  Cardinality({d \in Papers : /\ extracts[d].worker = w
                                           /\ extracts[d].step \in {"extract", "wait"}
                                           /\ ~workers[w].dead})
                 = IF workers[w].reserved THEN 1 ELSE 0
    <2> DEFINE H == {d \in Papers : Holds(d, w)}
    <2>1. H = {d \in Papers : /\ extracts[d].worker = w
                              /\ extracts[d].step \in {"extract", "wait"}
                              /\ ~workers[w].dead}
      BY DEF Holds
    <2>2. CASE workers[w].reserved
      <3>1. PICK d \in Papers : Holds(d, w)
        BY <2>2 DEF PoolInv, WorkersAreHeld
      <3>2. H = {d}
        BY <3>1 DEF PoolInv, HoldersAreAlone
      <3> HIDE DEF H
      <3> QED
        BY <2>1, <2>2, <3>2, FS_Singleton
    <2>3. CASE ~workers[w].reserved
      <3>1. \A d \in Papers : ~Holds(d, w)
        BY <2>3 DEF PoolInv, CallIsServed, Holds
      <3>2. H = {}
        BY <3>1
      <3> HIDE DEF H
      <3> QED
        BY <2>1, <2>3, <3>2, FS_EmptySet
    <2> QED
      BY <2>2, <2>3
  <1>3. \A d \in Papers : extracts[d].step = "done" => extracts[d].text = d
    BY DEF PoolInv, CallIsServed
  <1> QED
    BY <1>1, <1>2, <1>3, PoolCardinality DEF Pool!SlotsComeBack

(***************************************************************************)
(* The extraction of HTML                                                  *)
(***************************************************************************)
NoisyElements == {e \in PageElements : e.noisy}
IgnoredElements == {e \in PageElements : e.name \in IgnoredTags}
Named(tag) == {e \in PageElements : e.name = tag}
Links == {e \in Named("a") : e.href # Nothing}

(* How many of the elements k..n of s have this name.                      *)
Namesakes(s, k, n, tag) == {i \in k..n : s[i].name = tag}

(* The state of a pass over s up to n that skips elements of a kind, each  *)
(* to its own end: the name of the outermost one, and its depth.           *)
Skips(s, n, bad, tag, depth) ==
  IF tag = Nothing THEN \A i \in 1..n : s[i] \notin bad
  ELSE \E k \in 1..n :
         /\ s[k] \in bad /\ s[k].name = tag /\ \A j \in 1..(k - 1) : s[j] \notin bad
         /\ depth = Cardinality(Namesakes(s, k, n, tag))

(* An element of a kind is open, outside of all that are skipped.          *)
IsOpen(s, n, wanted, bad) == \E i \in 1..n : s[i] \in wanted /\ \A j \in 1..i : s[j] \notin bad

Agree(s, t, n) == \A i \in 1..n : t[i] = s[i]

LEMMA NamesakesGrow ==
  ASSUME NEW s, NEW n \in Nat, NEW k \in 1..(n + 1), NEW tag
  PROVE  /\ IsFiniteSet(Namesakes(s, k, n, tag))
         /\ Cardinality(Namesakes(s, k, n, tag)) \in Nat
         /\ Cardinality(Namesakes(s, k, n + 1, tag))
              = Cardinality(Namesakes(s, k, n, tag)) + (IF s[n + 1].name = tag THEN 1 ELSE 0)
  <1> DEFINE S == Namesakes(s, k, n, tag)
  <1>1. S \subseteq 1..n /\ n + 1 \notin S
    <2>1. \A i \in k..n : i \in 1..n /\ i # n + 1
      OBVIOUS
    <2> QED
      BY <2>1 DEF Namesakes
  <1>2. IsFiniteSet(S) /\ Cardinality(S) \in Nat
    <2>1. IsFiniteSet(1..n)
      BY FS_Interval
    <2> HIDE DEF S
    <2> QED
      BY <1>1, <2>1, FS_Subset, FS_CardinalityType
  <1>3. Namesakes(s, k, n + 1, tag) = IF s[n + 1].name = tag THEN S \cup {n + 1} ELSE S
    <2>1. \A i : i \in k..(n + 1) <=> i \in k..n \/ i = n + 1
      OBVIOUS
    <2> QED
      BY <2>1 DEF Namesakes
  <1>4. Cardinality(S \cup {n + 1}) = Cardinality(S) + 1
    BY <1>1, <1>2, FS_AddElement
  <1> HIDE DEF S
  <1>5. CASE s[n + 1].name = tag
    BY <1>2, <1>3, <1>4, <1>5 DEF S
  <1>6. CASE s[n + 1].name # tag
    BY <1>2, <1>3, <1>6 DEF S
  <1> QED
    BY <1>5, <1>6

LEMMA SkipsAgree ==
  ASSUME NEW s, NEW t, NEW n \in Nat, NEW bad, NEW tag, NEW depth,
         Agree(s, t, n), Skips(s, n, bad, tag, depth)
  PROVE  Skips(t, n, bad, tag, depth)
  <1>1. CASE tag = Nothing
    BY <1>1 DEF Agree, Skips
  <1>2. CASE tag # Nothing
    <2>1. PICK k \in 1..n :
            /\ s[k] \in bad /\ s[k].name = tag /\ \A j \in 1..(k - 1) : s[j] \notin bad
            /\ depth = Cardinality(Namesakes(s, k, n, tag))
      BY <1>2 DEF Skips
    <2>2. Namesakes(t, k, n, tag) = Namesakes(s, k, n, tag)
      BY DEF Agree, Namesakes
    <2> QED
      BY <1>2, <2>1, <2>2 DEF Agree, Skips
  <1> QED
    BY <1>1, <1>2

(* An element opens.                                                       *)
LEMMA SkipOpens ==
  ASSUME NEW s, NEW t, NEW n \in Nat, NEW bad, NEW tag, NEW depth,
         Agree(s, t, n), Skips(s, n, bad, tag, depth)
  PROVE  /\ tag = Nothing /\ t[n + 1] \notin bad => Skips(t, n + 1, bad, Nothing, depth)
         /\ tag = Nothing /\ t[n + 1] \in bad /\ t[n + 1].name # Nothing =>
              Skips(t, n + 1, bad, t[n + 1].name, 1)
         /\ tag # Nothing =>
              Skips(t, n + 1, bad, tag, depth + (IF t[n + 1].name = tag THEN 1 ELSE 0))
  <1>1. CASE tag = Nothing
    <2>1. \A i \in 1..n : t[i] \notin bad
      BY <1>1 DEF Agree, Skips
    <2>2. t[n + 1] \notin bad => \A i \in 1..(n + 1) : t[i] \notin bad
      BY <2>1
    <2>3. Cardinality(Namesakes(t, n + 1, n + 1, t[n + 1].name)) = 1
      <3>1. Namesakes(t, n + 1, n + 1, t[n + 1].name) = {n + 1}
        BY DEF Namesakes
      <3> QED
        BY <3>1, FS_Singleton
    <2>4. n + 1 \in 1..(n + 1) /\ n + 1 - 1 = n
      OBVIOUS
    <2> QED
      BY <1>1, <2>1, <2>2, <2>3, <2>4 DEF Skips
  <1>2. CASE tag # Nothing
    <2>1. Skips(t, n, bad, tag, depth)
      BY SkipsAgree
    <2>2. PICK k \in 1..n :
            /\ t[k] \in bad /\ t[k].name = tag /\ \A j \in 1..(k - 1) : t[j] \notin bad
            /\ depth = Cardinality(Namesakes(t, k, n, tag))
      BY <1>2, <2>1 DEF Skips
    <2>3. k \in 1..(n + 1)
      OBVIOUS
    <2>4. Cardinality(Namesakes(t, k, n + 1, tag))
            = depth + (IF t[n + 1].name = tag THEN 1 ELSE 0)
      BY <2>2, <2>3, NamesakesGrow
    <2> QED
      BY <1>2, <2>2, <2>3, <2>4 DEF Skips
  <1> QED
    BY <1>1, <1>2

(* The innermost element closes.                                           *)
LEMMA SkipCloses ==
  ASSUME NEW s, NEW n \in Nat, NEW bad, NEW tag, NEW depth, Skips(s, n + 1, bad, tag, depth)
  PROVE  /\ tag = Nothing \/ s[n + 1].name # tag => Skips(s, n, bad, tag, depth)
         /\ tag # Nothing /\ s[n + 1].name = tag /\ depth = 1 => Skips(s, n, bad, Nothing, 0)
         /\ tag # Nothing /\ s[n + 1].name = tag /\ depth # 1 =>
              Skips(s, n, bad, tag, depth - 1)
         /\ tag # Nothing /\ s[n + 1].name = tag => depth \in Nat \ {0}
  <1>1. CASE tag = Nothing
    BY <1>1 DEF Skips
  <1>2. CASE tag # Nothing
    <2>1. PICK k \in 1..(n + 1) :
            /\ s[k] \in bad /\ s[k].name = tag /\ \A j \in 1..(k - 1) : s[j] \notin bad
            /\ depth = Cardinality(Namesakes(s, k, n + 1, tag))
      BY <1>2 DEF Skips
    <2> DEFINE inner == Cardinality(Namesakes(s, k, n, tag))
    <2>2. /\ inner \in Nat
          /\ depth = inner + (IF s[n + 1].name = tag THEN 1 ELSE 0)
      BY <2>1, NamesakesGrow
    <2>3. k \in 1..n => inner # 0
      <3> SUFFICES ASSUME k \in 1..n PROVE inner # 0
        OBVIOUS
      <3>1. k \in Namesakes(s, k, n, tag)
        BY <2>1 DEF Namesakes
      <3> QED
        BY <2>1, <3>1, NamesakesGrow, FS_EmptySet
    <2>4. k = n + 1 => inner = 0
      <3> SUFFICES ASSUME k = n + 1 PROVE inner = 0
        OBVIOUS
      <3>1. Namesakes(s, k, n, tag) = {}
        BY DEF Namesakes
      <3> QED
        BY <3>1, FS_EmptySet
    <2> HIDE DEF inner
    <2>5. CASE s[n + 1].name # tag
      <3>1. k \in 1..n /\ depth = inner
        BY <2>1, <2>2, <2>5
      <3> QED
        BY <1>2, <2>1, <2>5, <3>1 DEF Skips, inner
    <2>6. CASE s[n + 1].name = tag /\ depth = 1
      <3>1. k = n + 1
        BY <2>2, <2>3, <2>6
      <3> QED
        BY <1>2, <2>1, <2>6, <3>1 DEF Skips
    <2>7. CASE s[n + 1].name = tag /\ depth # 1
      <3>1. k \in 1..n /\ depth - 1 = inner
        BY <2>2, <2>4, <2>7
      <3> QED
        BY <1>2, <2>1, <2>2, <2>7, <3>1 DEF Skips, inner
    <2>8. s[n + 1].name = tag => depth \in Nat \ {0}
      BY <2>2
    <2> QED
      BY <1>2, <2>5, <2>6, <2>7, <2>8
  <1> QED
    BY <1>1, <1>2

LEMMA IsOpenGrows ==
  ASSUME NEW s, NEW t, NEW n \in Nat, NEW wanted, NEW bad, Agree(s, t, n)
  PROVE  /\ IsOpen(t, n, wanted, bad) <=> IsOpen(s, n, wanted, bad)
         /\ IsOpen(t, n + 1, wanted, bad) <=>
              \/ IsOpen(s, n, wanted, bad)
              \/ t[n + 1] \in wanted /\ \A j \in 1..(n + 1) : t[j] \notin bad
  BY DEF Agree, IsOpen

(***************************************************************************)
(* The rendering of the first n elements of s.                             *)
(***************************************************************************)
PageNames == {e.name : e \in PageElements} \cup {Nothing}
PageUrls == {e.href : e \in PageElements} \cup {Nothing}

RenderState ==
  [noisy : PageNames, depth : Nat, head : Nat, pre : Nat, code : Nat, link : PageUrls,
   fence : BOOLEAN, tick : BOOLEAN, bracket : BOOLEAN]

InHead(s, n) == IsOpen(s, n, Named("head"), NoisyElements)
InPre(s, n) == IsOpen(s, n, Named("pre"), NoisyElements)
InCode(s, n) == IsOpen(s, n, Named("code"), NoisyElements \cup Named("pre"))
InLink(s, n) == IsOpen(s, n, Links, NoisyElements)

RenderIs(r, s, n) ==
  /\ r \in RenderState
  /\ Skips(s, n, NoisyElements, r.noisy, r.depth)
  /\ r.head = (IF InHead(s, n) THEN 1 ELSE 0)
  /\ r.pre = (IF InPre(s, n) THEN 1 ELSE 0) /\ (r.fence <=> InPre(s, n))
  /\ r.code = (IF InCode(s, n) THEN 1 ELSE 0) /\ (r.tick <=> InCode(s, n))
  /\ (r.link # Nothing <=> InLink(s, n)) /\ (r.bracket <=> InLink(s, n))

(* A number of the rendering and what is open by it.                       *)
Same(q, r) ==
  /\ q.noisy = r.noisy /\ q.depth = r.depth /\ q.head = r.head /\ q.link = r.link
  /\ q.bracket = r.bracket

LEMMA FenceUpdate ==
  ASSUME NEW r \in RenderState, NEW v \in Nat, NEW w \in BOOLEAN, NEW q,
         q = [r EXCEPT !.pre = v, !.fence = w]
  PROVE  /\ q \in RenderState /\ Same(q, r) /\ q.code = r.code /\ q.tick = r.tick
         /\ q.pre = v /\ (q.fence <=> w)
  <1>1. q \in RenderState
    BY Zenon DEF RenderState
  <1>2. Same(q, r) /\ q.code = r.code /\ q.tick = r.tick /\ q.pre = v /\ (q.fence <=> w)
    BY SMT DEF RenderState, Same
  <1> QED
    BY <1>1, <1>2

LEMMA TickUpdate ==
  ASSUME NEW r \in RenderState, NEW v \in Nat, NEW w \in BOOLEAN, NEW q,
         q = [r EXCEPT !.code = v, !.tick = w]
  PROVE  /\ q \in RenderState /\ Same(q, r) /\ q.pre = r.pre /\ q.fence = r.fence
         /\ q.code = v /\ (q.tick <=> w)
  <1>1. q \in RenderState
    BY Zenon DEF RenderState
  <1>2. Same(q, r) /\ q.pre = r.pre /\ q.fence = r.fence /\ q.code = v /\ (q.tick <=> w)
    BY SMT DEF RenderState, Same
  <1> QED
    BY <1>1, <1>2

(* What may open within the first n elements of s: MayOpen.                *)
Around(s, n) == {s[i].name : i \in 1..n}

Allowed(s, n, e) ==
  /\ e.name \in {"pre", "code", "a", "title", "head"} => e.name \notin Around(s, n)
  /\ "head" \in Around(s, n) => e.name \in {"title", "link", "script"} /\ "title" \notin Around(s, n)
  /\ e.name = "title" => "head" \in Around(s, n)
  /\ e.name = "head" => n = 0
  /\ "script" \notin Around(s, n)

LEMMA RenderAgrees ==
  ASSUME NEW r, NEW s, NEW t, NEW n \in Nat, Agree(s, t, n), RenderIs(r, s, n)
  PROVE  RenderIs(r, t, n)
  BY SkipsAgree, IsOpenGrows DEF RenderIs, InHead, InPre, InCode, InLink

(* A name that may not be doubled is not open around its element.          *)
LEMMA NotAround ==
  ASSUME NEW s, NEW n \in Nat, NEW tag, tag \notin Around(s, n), NEW bad
  PROVE  ~IsOpen(s, n, Named(tag), bad)
  BY DEF Around, IsOpen, Named

LEMMA NoLinkAround ==
  ASSUME NEW s, NEW n \in Nat, "a" \notin Around(s, n)
  PROVE  ~InLink(s, n)
  BY DEF Around, InLink, IsOpen, Links, Named

LEMMA RenderOpen ==
  ASSUME NEW r, NEW s, NEW t, NEW n \in Nat, NEW e \in PageElements,
         Html!HtmlAssumption, e.name \notin VoidTags,
         Agree(s, t, n), t[n + 1] = e, Allowed(s, n, e), RenderIs(r, s, n)
  PROVE  RenderIs(Html!RenderOpens(r, e), t, n + 1)
  <1> DEFINE q == Html!RenderOpens(r, e)
  <1>0. e.name # Nothing
    BY DEF Html!HtmlAssumption
  <1>1. /\ r \in RenderState /\ Nothing \in PageNames \cap PageUrls
        /\ e.name \in PageNames /\ e.href \in PageUrls
    BY DEF RenderIs, PageNames, PageUrls
  <1> DEFINE Clean == \A j \in 1..(n + 1) : t[j] \notin NoisyElements
             NoPre == \A j \in 1..(n + 1) : t[j] \notin Named("pre")
  <1>2. /\ InHead(t, n + 1) <=> InHead(s, n) \/ (e \in Named("head") /\ Clean)
        /\ InPre(t, n + 1) <=> InPre(s, n) \/ (e \in Named("pre") /\ Clean)
        /\ InLink(t, n + 1) <=> InLink(s, n) \/ (e \in Links /\ Clean)
    BY IsOpenGrows DEF InHead, InPre, InLink
  <1>3. InCode(t, n + 1) <=> InCode(s, n) \/ (e \in Named("code") /\ Clean /\ NoPre)
    BY IsOpenGrows DEF InCode
  <1>4. r.noisy # Nothing => ~Clean
    BY DEF RenderIs, Skips, Agree
  <1>5. r.noisy = Nothing => (Clean <=> e \notin NoisyElements)
    BY DEF RenderIs, Skips, Agree
  <1>6. r.noisy = Nothing /\ e.name # "pre" => (NoPre <=> ~InPre(s, n))
    BY DEF RenderIs, Skips, Agree, InPre, IsOpen, Named
  <1>7. (e \in NoisyElements <=> e.noisy) /\ \A tag : e \in Named(tag) <=> e.name = tag
    BY DEF NoisyElements, Named
  <1>8. e \in Links <=> e.name = "a" /\ e.href # Nothing
    BY DEF Links, Named
  <1>9. e.name \in {"pre", "code", "a", "head"} => ~InHead(s, n)
    BY NotAround DEF Allowed, InHead, Around
  <1>10. /\ e.name = "pre" => ~InPre(s, n)
         /\ e.name = "code" => ~InCode(s, n)
         /\ e.name = "a" => ~InLink(s, n)
    BY NotAround, NoLinkAround DEF Allowed, InPre, InCode
  <1>11. Skips(t, n + 1, NoisyElements, q.noisy, q.depth)
    <2>1. CASE r.noisy # Nothing
      <3>1. q.noisy = r.noisy /\ q.depth = r.depth + (IF e.name = r.noisy THEN 1 ELSE 0)
        BY <1>1, <2>1 DEF Html!RenderOpens, Html!Deepens, RenderState
      <3> QED
        BY <2>1, <3>1, SkipOpens DEF RenderIs
    <2>2. CASE r.noisy = Nothing /\ e.noisy
      <3>1. q.noisy = e.name /\ q.depth = 1
        BY <1>1, <2>2 DEF Html!RenderOpens, RenderState
      <3> QED
        BY <1>0, <1>7, <2>2, <3>1, SkipOpens DEF RenderIs
    <2>3. CASE r.noisy = Nothing /\ ~e.noisy
      <3>1. q.noisy = Nothing /\ q.depth = r.depth
        BY <1>1, <2>3 DEF Html!RenderOpens, Html!CloseBracket, RenderState
      <3> QED
        BY <1>7, <2>3, <3>1, SkipOpens DEF RenderIs
    <2> QED
      BY <2>1, <2>2, <2>3
  <1> HIDE DEF Clean, NoPre
  <1>12. CASE r.noisy # Nothing \/ e.noisy
    <2>1. q.head = r.head /\ q.pre = r.pre /\ q.fence = r.fence /\ q.code = r.code
            /\ q.tick = r.tick /\ q.link = r.link /\ q.bracket = r.bracket
      BY <1>1, <1>12 DEF Html!RenderOpens, RenderState
    <2>2. q \in RenderState
      <3>1. CASE r.noisy # Nothing
        <4>1. q = [r EXCEPT !.depth = r.depth + (IF Html!Deepens(r, e) THEN 1 ELSE 0)]
          BY <3>1 DEF Html!RenderOpens
        <4>2. r.depth + (IF Html!Deepens(r, e) THEN 1 ELSE 0) \in Nat
          BY <1>1 DEF RenderState
        <4> QED
          BY <1>1, <4>1, <4>2 DEF RenderState
      <3>2. CASE r.noisy = Nothing
        <4>1. q = [r EXCEPT !.noisy = e.name, !.depth = 1]
          BY <1>12, <3>2 DEF Html!RenderOpens
        <4> HIDE DEF q
        <4> QED
          BY <1>1, <4>1, Zenon DEF RenderState
      <3> QED
        BY <3>1, <3>2
    <2>3. ~Clean
      BY <1>4, <1>5, <1>7, <1>12
    <2> QED
      BY <1>2, <1>3, <1>11, <2>1, <2>2, <2>3 DEF RenderIs
  <1>13. CASE r.noisy = Nothing /\ ~e.noisy
    <2>1. Clean
      BY <1>5, <1>7, <1>13
    <2> USE DEF RenderIs
    <2>2. CASE e.name = "head"
      <3>1. q = [r EXCEPT !.head = @ + 1]
        BY <1>13, <2>2 DEF Html!RenderOpens
      <3>2. /\ q \in RenderState
            /\ q.head = r.head + 1 /\ q.pre = r.pre /\ q.fence = r.fence /\ q.code = r.code
            /\ q.tick = r.tick /\ q.link = r.link /\ q.bracket = r.bracket
        BY <1>1, <3>1 DEF RenderState
      <3> QED
        BY <1>2, <1>3, <1>7, <1>8, <1>9, <1>11, <2>1, <2>2, <3>2
    <2>3. CASE e.name = "pre"
      <3>1. r.pre = 0 /\ r.fence = FALSE
        BY <1>1, <1>10, <2>3 DEF RenderState
      <3>2. q = [r EXCEPT !.pre = r.pre + 1, !.fence = ~r.fence]
        BY <1>9, <1>13, <2>3 DEF Html!RenderOpens
      <3>3. PICK v \in Nat : v = r.pre + 1
        BY <3>1
      <3>4. (~r.fence) = TRUE
        BY <3>1
      <3>5. q = [r EXCEPT !.pre = v, !.fence = TRUE]
        BY <3>2, <3>3, <3>4
      <3>6. /\ q \in RenderState /\ Same(q, r) /\ q.code = r.code /\ q.tick = r.tick
            /\ q.pre = v /\ (q.fence <=> TRUE)
        BY <1>1, <3>5, FenceUpdate
      <3> QED
        BY <1>2, <1>3, <1>7, <1>8, <1>10, <1>11, <2>1, <2>3, <3>1, <3>3, <3>6 DEF Same
    <2>4. CASE e.name = "code" /\ ~InPre(s, n)
      <3>1. r.code = 0 /\ r.tick = FALSE
        BY <1>1, <1>10, <2>4 DEF RenderState
      <3>2. q = [r EXCEPT !.code = r.code + 1, !.tick = ~r.tick]
        BY <1>9, <1>13, <2>4 DEF Html!RenderOpens
      <3>3. PICK v \in Nat : v = r.code + 1
        BY <3>1
      <3>4. (~r.tick) = TRUE
        BY <3>1
      <3>5. q = [r EXCEPT !.code = v, !.tick = TRUE]
        BY <3>2, <3>3, <3>4
      <3>6. /\ q \in RenderState /\ Same(q, r) /\ q.pre = r.pre /\ q.fence = r.fence
            /\ q.code = v /\ (q.tick <=> TRUE)
        BY <1>1, <3>5, TickUpdate
      <3> QED
        BY <1>2, <1>3, <1>6, <1>7, <1>8, <1>10, <1>11, <1>13, <2>1, <2>4, <3>1, <3>3, <3>6 DEF Same
    <2>5. CASE e.name = "code" /\ InPre(s, n)
      <3>1. q = r
        BY <1>9, <1>13, <2>5 DEF Html!RenderOpens
      <3> QED
        BY <1>2, <1>3, <1>6, <1>7, <1>8, <1>11, <1>13, <2>5, <3>1
    <2>6. CASE e.name = "a" /\ e.href # Nothing
      <3>1. q = [Html!CloseBracket(r) EXCEPT !.link = e.href, !.bracket = TRUE]
        BY <1>9, <1>13, <2>6 DEF Html!RenderOpens
      <3>2. /\ q \in RenderState
            /\ q.head = r.head /\ q.pre = r.pre /\ q.fence = r.fence /\ q.code = r.code
            /\ q.tick = r.tick /\ q.link = e.href /\ q.bracket = TRUE
        BY <1>1, <3>1 DEF Html!CloseBracket, RenderState
      <3> QED
        BY <1>2, <1>3, <1>7, <1>8, <1>11, <2>1, <2>6, <3>2
    <2>7. CASE /\ e.name \notin {"head", "pre", "code"}
               /\ e.name # "a" \/ e.href = Nothing
      <3>1. q = r
        BY <1>13, <2>7 DEF Html!RenderOpens
      <3> QED
        BY <1>2, <1>3, <1>7, <1>8, <1>11, <2>7, <3>1
    <2> QED
      BY <2>2, <2>3, <2>4, <2>5, <2>6, <2>7
  <1> QED
    BY <1>12, <1>13

LEMMA RenderOpensVoid ==
  ASSUME NEW r \in RenderState, NEW e \in PageElements, Html!HtmlAssumption, e.name \in VoidTags
  PROVE  Html!RenderOpens(r, e) = r
  <1>1. e.name \notin {"head", "pre", "code", "a"}
    BY DEF Html!HtmlAssumption
  <1>2. CASE r.noisy # Nothing
    <2>1. ~Html!Deepens(r, e)
      BY DEF Html!Deepens
    <2>2. r.depth + 0 = r.depth
      BY DEF RenderState
    <2>3. Html!RenderOpens(r, e) = [r EXCEPT !.depth = r.depth + 0]
      BY <1>2, <2>1 DEF Html!RenderOpens
    <2>4. [r EXCEPT !.depth = r.depth] = r
      BY Zenon DEF RenderState
    <2> QED
      BY <2>2, <2>3, <2>4
  <1>3. CASE r.noisy = Nothing
    BY <1>1, <1>3 DEF Html!RenderOpens
  <1> QED
    BY <1>2, <1>3

LEMMA RenderClose ==
  ASSUME NEW r, NEW s, NEW n \in Nat, NEW e \in PageElements, Html!HtmlAssumption,
         s[n + 1] = e, Allowed(s, n, e), RenderIs(r, s, n + 1)
  PROVE  RenderIs(Html!RenderCloses(r, e.name), s, n)
  <1> DEFINE q == Html!RenderCloses(r, e.name)
             Clean == \A j \in 1..(n + 1) : s[j] \notin NoisyElements
             NoPre == \A j \in 1..(n + 1) : s[j] \notin Named("pre")
  <1>0. Agree(s, s, n) /\ e.name # Nothing
    BY DEF Agree, Html!HtmlAssumption
  <1>1. r \in RenderState /\ Nothing \in PageNames \cap PageUrls
    BY DEF RenderIs, PageNames, PageUrls
  <1>2. /\ InHead(s, n + 1) <=> InHead(s, n) \/ (e \in Named("head") /\ Clean)
        /\ InPre(s, n + 1) <=> InPre(s, n) \/ (e \in Named("pre") /\ Clean)
        /\ InLink(s, n + 1) <=> InLink(s, n) \/ (e \in Links /\ Clean)
    BY <1>0, IsOpenGrows DEF InHead, InPre, InLink
  <1>3. InCode(s, n + 1) <=> InCode(s, n) \/ (e \in Named("code") /\ Clean /\ NoPre)
    BY <1>0, IsOpenGrows DEF InCode
  <1>4. r.noisy # Nothing => ~Clean
    BY DEF RenderIs, Skips
  <1>5. r.noisy = Nothing => Clean
    BY DEF RenderIs, Skips
  <1>6. r.noisy = Nothing /\ e.name # "pre" => (NoPre <=> ~InPre(s, n))
    <2> SUFFICES ASSUME r.noisy = Nothing, e.name # "pre" PROVE NoPre <=> ~InPre(s, n)
      OBVIOUS
    <2>1. \A j \in 1..n : s[j] \notin NoisyElements
      BY <1>5
    <2>2. InPre(s, n) <=> \E i \in 1..n : s[i] \in Named("pre")
      BY <2>1 DEF InPre, IsOpen
    <2>3. NoPre <=> \A i \in 1..n : s[i] \notin Named("pre")
      BY DEF Named
    <2> QED
      BY <2>2, <2>3
  <1>7. \A tag : e \in Named(tag) <=> e.name = tag
    BY DEF Named
  <1>8. e \in Links => e.name = "a"
    BY DEF Links, Named
  <1>9. e.name \in {"pre", "code", "a", "head"} => ~InHead(s, n)
    BY NotAround DEF Allowed, InHead, Around
  <1>10. /\ e.name = "pre" => ~InPre(s, n)
         /\ e.name = "code" => ~InCode(s, n)
         /\ e.name = "a" => ~InLink(s, n)
    BY NotAround, NoLinkAround DEF Allowed, InPre, InCode
  <1>11. Skips(s, n + 1, NoisyElements, r.noisy, r.depth)
    BY DEF RenderIs
  <1> HIDE DEF Clean, NoPre
  <1>12. CASE r.noisy = e.name
    <2>1. q = [r EXCEPT !.depth = r.depth - 1, !.noisy = IF r.depth = 1 THEN Nothing ELSE r.noisy]
      BY <1>0, <1>12 DEF Html!RenderCloses
    <2>2. r.depth \in Nat \ {0}
      BY <1>0, <1>11, <1>12, SkipCloses
    <2>3. r.depth - 1 \in Nat /\ r.noisy \in PageNames
      BY <1>1, <2>2 DEF RenderState
    <2> DEFINE outer == IF r.depth = 1 THEN Nothing ELSE r.noisy
    <2>4. outer \in PageNames
      BY <1>1, <2>3
    <2> HIDE DEF outer
    <2>5. q = [r EXCEPT !.depth = r.depth - 1, !.noisy = outer]
      BY <2>1 DEF outer
    <2> HIDE DEF q
    <2>6. q \in RenderState
      BY <1>1, <2>3, <2>4, <2>5, Zenon DEF RenderState
    <2>7. /\ q.noisy = outer /\ q.depth = r.depth - 1 /\ q.head = r.head /\ q.pre = r.pre
          /\ q.fence = r.fence /\ q.code = r.code /\ q.tick = r.tick /\ q.link = r.link
          /\ q.bracket = r.bracket
      BY <1>1, <2>5, SMT DEF RenderState
    <2>8. Skips(s, n, NoisyElements, q.noisy, q.depth)
      <3>1. CASE r.depth = 1
        <4>1. q.noisy = Nothing /\ q.depth = 0
          BY <2>7, <3>1 DEF outer
        <4> QED
          BY <1>0, <1>11, <1>12, <3>1, <4>1, SkipCloses
      <3>2. CASE r.depth # 1
        <4>1. q.noisy = r.noisy /\ q.depth = r.depth - 1
          BY <2>7, <3>2 DEF outer
        <4> QED
          BY <1>0, <1>11, <1>12, <3>2, <4>1, SkipCloses
      <3> QED
        BY <3>1, <3>2
    <2> QED
      BY <1>0, <1>2, <1>3, <1>4, <1>12, <2>6, <2>7, <2>8 DEF RenderIs, q
  <1>13. CASE r.noisy # e.name
    <2>1. Skips(s, n, NoisyElements, r.noisy, r.depth)
      BY <1>11, <1>13, SkipCloses
    <2> USE DEF RenderIs
    <2>2. CASE r.noisy # Nothing
      <3>1. q = r
        BY <1>13, <2>2 DEF Html!RenderCloses
      <3> QED
        BY <1>2, <1>3, <1>4, <2>1, <2>2, <3>1
    <2>3. CASE r.noisy = Nothing /\ e.name = "head"
      <3>1. q = [r EXCEPT !.head = IF @ = 0 THEN 0 ELSE @ - 1]
        BY <1>13, <2>3 DEF Html!RenderCloses
      <3>2. r.head = 1
        BY <1>2, <1>5, <1>7, <2>3
      <3>3. q = [r EXCEPT !.head = 0]
        BY <3>1, <3>2
      <3>4. /\ q \in RenderState
            /\ q.noisy = r.noisy /\ q.depth = r.depth
            /\ q.head = 0 /\ q.pre = r.pre /\ q.fence = r.fence /\ q.code = r.code
            /\ q.tick = r.tick /\ q.link = r.link /\ q.bracket = r.bracket
        BY <1>1, <3>3 DEF RenderState
      <3> QED
        BY <1>2, <1>3, <1>7, <1>8, <1>9, <2>1, <2>3, <3>4
    <2>4. CASE r.noisy = Nothing /\ e.name = "pre"
      <3>1. r.pre = 1 /\ r.fence = TRUE /\ r.head = 0
        BY <1>1, <1>2, <1>5, <1>7, <1>9, <2>4 DEF RenderState
      <3>2. q = [r EXCEPT !.pre = IF r.pre = 0 THEN 0 ELSE r.pre - 1,
                          !.fence = (r.fence # (r.head = 0))]
        BY <1>13, <2>4 DEF Html!RenderCloses
      <3>3. /\ (IF r.pre = 0 THEN 0 ELSE r.pre - 1) = 0
            /\ (r.fence # (r.head = 0)) = FALSE
        <4>1. (r.head = 0) = TRUE
          BY <3>1
        <4>2. (r.fence # (r.head = 0)) = FALSE
          BY <3>1, <4>1, Zenon
        <4> QED
          BY <3>1, <4>2
      <3>4. q = [r EXCEPT !.pre = 0, !.fence = FALSE]
        BY <3>2, <3>3
      <3>5. /\ q \in RenderState /\ Same(q, r) /\ q.code = r.code /\ q.tick = r.tick
            /\ q.pre = 0 /\ (q.fence <=> FALSE)
        BY <1>1, <3>4, FenceUpdate
      <3> QED
        BY <1>2, <1>3, <1>7, <1>8, <1>10, <2>1, <2>4, <3>5 DEF Same
    <2>5. CASE r.noisy = Nothing /\ e.name = "code" /\ ~InPre(s, n)
      <3>1. r.code = 1 /\ r.tick = TRUE /\ r.head = 0 /\ r.pre = 0
        BY <1>1, <1>2, <1>3, <1>5, <1>6, <1>7, <1>9, <2>5 DEF RenderState
      <3>2. q = [r EXCEPT !.code = IF r.code = 0 THEN 0 ELSE r.code - 1,
                          !.tick = (r.tick # (r.head = 0))]
        BY <1>13, <2>5, <3>1 DEF Html!RenderCloses
      <3>3. /\ (IF r.code = 0 THEN 0 ELSE r.code - 1) = 0
            /\ (r.tick # (r.head = 0)) = FALSE
        <4>1. (r.head = 0) = TRUE
          BY <3>1
        <4>2. (r.tick # (r.head = 0)) = FALSE
          BY <3>1, <4>1, Zenon
        <4> QED
          BY <3>1, <4>2
      <3>4. q = [r EXCEPT !.code = 0, !.tick = FALSE]
        BY <3>2, <3>3
      <3>5. /\ q \in RenderState /\ Same(q, r) /\ q.pre = r.pre /\ q.fence = r.fence
            /\ q.code = 0 /\ (q.tick <=> FALSE)
        BY <1>1, <3>4, TickUpdate
      <3> QED
        BY <1>2, <1>7, <1>8, <1>10, <2>1, <2>5, <3>5 DEF Same
    <2>6. CASE r.noisy = Nothing /\ e.name = "code" /\ InPre(s, n)
      <3>1. q = r
        BY <1>2, <1>13, <2>6 DEF Html!RenderCloses
      <3> QED
        BY <1>2, <1>3, <1>6, <1>7, <1>8, <2>1, <2>6, <3>1
    <2>7. CASE r.noisy = Nothing /\ e.name = "a" /\ r.link # Nothing
      <3>1. q = [r EXCEPT !.bracket = r.bracket /\ r.link = Nothing, !.link = Nothing]
        <4>1. r.head = 0
          BY <1>2, <1>7, <1>9, <2>7
        <4> QED
          BY <1>13, <2>7, <4>1 DEF Html!RenderCloses, Html!CloseBracket
      <3>2. (r.bracket /\ r.link = Nothing) = FALSE
        BY <2>7
      <3>3. q = [r EXCEPT !.bracket = FALSE, !.link = Nothing]
        BY <3>1, <3>2
      <3> HIDE DEF q
      <3>4. q \in RenderState
        BY <1>1, <3>3, Zenon DEF RenderState
      <3>5. /\ q.noisy = r.noisy /\ q.depth = r.depth
            /\ q.head = r.head /\ q.pre = r.pre /\ q.fence = r.fence /\ q.code = r.code
            /\ q.tick = r.tick /\ q.link = Nothing /\ q.bracket = FALSE
        BY <1>1, <3>3, SMT DEF RenderState
      <3> QED
        BY <1>2, <1>3, <1>7, <1>10, <2>1, <2>7, <3>4, <3>5 DEF q
    <2>8. CASE r.noisy = Nothing /\ e.name = "a" /\ r.link = Nothing
      <3>1. q = r
        BY <1>13, <2>8 DEF Html!RenderCloses
      <3> QED
        BY <1>2, <1>3, <1>7, <2>1, <2>8, <3>1
    <2>9. CASE r.noisy = Nothing /\ e.name \notin {"head", "pre", "code", "a"}
      <3>1. q = r
        BY <1>13, <2>9 DEF Html!RenderCloses
      <3> QED
        BY <1>2, <1>3, <1>7, <1>8, <2>1, <2>9, <3>1
    <2> QED
      BY <2>2, <2>3, <2>4, <2>5, <2>6, <2>7, <2>8, <2>9
  <1> QED
    BY <1>12, <1>13

(***************************************************************************)
(* The pass over the metadata                                              *)
(***************************************************************************)
MetadataState ==
  [ignored : PageNames, depth : Nat, title : Nat, titled : BOOLEAN, canonical : PageUrls]

MetadataIs(m, s, n) ==
  /\ m \in MetadataState
  /\ Skips(s, n, IgnoredElements, m.ignored, m.depth)
  /\ m.title = IF "title" \in Around(s, n) THEN 1 ELSE 0

IsPage(s, n) ==
  \A i \in 1..n : s[i] \in PageElements /\ s[i].name \notin VoidTags /\ Allowed(s, i - 1, s[i])

(* A head holds a title or a script and nothing else that has to be closed.*)
LEMMA HeadHolds ==
  ASSUME NEW s, NEW n \in Nat, Html!HtmlAssumption, IsPage(s, n), "head" \in Around(s, n)
  PROVE  s[1].name = "head" /\ n <= 2 /\ (n = 2 => s[2].name \in {"title", "script"})
  <1>1. PICK i \in 1..n : s[i].name = "head"
    BY DEF Around
  <1>2. i = 1
    BY <1>1 DEF IsPage, Allowed
  <1>3. "head" \in Around(s, 1) /\ "head" \in Around(s, 2)
    BY <1>1, <1>2 DEF Around
  <1>4. n >= 2 => s[2].name \in {"title", "script"}
    <2> SUFFICES ASSUME n >= 2 PROVE s[2].name \in {"title", "script"}
      OBVIOUS
    <2>1. 2 \in 1..n /\ 2 - 1 = 1
      OBVIOUS
    <2>2. Allowed(s, 1, s[2]) /\ s[2].name \notin VoidTags
      BY <2>1 DEF IsPage
    <2> QED
      BY <1>3, <2>2 DEF Allowed, Html!HtmlAssumption
  <1>5. n <= 2
    <2> SUFFICES ASSUME n >= 3 PROVE FALSE
      OBVIOUS
    <2>1. 3 \in 1..n /\ 3 - 1 = 2
      OBVIOUS
    <2>2. Allowed(s, 2, s[3])
      BY <2>1 DEF IsPage
    <2>3. s[2].name \in Around(s, 2)
      BY DEF Around
    <2> QED
      BY <1>3, <1>4, <2>2, <2>3 DEF Allowed
  <1> QED
    BY <1>1, <1>2, <1>4, <1>5

(* Nothing is ignored around a title.                                      *)
LEMMA TitleIsRead ==
  ASSUME NEW m, NEW s, NEW n \in Nat, Html!HtmlAssumption, IsPage(s, n), MetadataIs(m, s, n),
         \/ "title" \in Around(s, n)
         \/ "head" \in Around(s, n) /\ {"title", "script"} \cap Around(s, n) = {}
  PROVE  m.ignored = Nothing
  <1>1. "head" \in Around(s, n)
    <2> SUFFICES ASSUME "title" \in Around(s, n) PROVE "head" \in Around(s, n)
      OBVIOUS
    <2>1. PICK i \in 1..n : s[i].name = "title"
      BY DEF Around
    <2>2. "head" \in Around(s, i - 1)
      BY <2>1 DEF IsPage, Allowed
    <2> QED
      BY <2>1, <2>2 DEF Around
  <1>2. s[1].name = "head" /\ n <= 2 /\ (n = 2 => s[2].name \in {"title", "script"})
    BY <1>1, HeadHolds
  <1>3. \A i \in 1..n : s[i].name \in Around(s, n)
    BY DEF Around
  <1>4. n = 2 => s[2].name = "title"
    <2> SUFFICES ASSUME n = 2, s[2].name = "script" PROVE FALSE
      BY <1>2
    <2>1. "title" \notin Around(s, n)
      <3> SUFFICES ASSUME NEW i \in 1..n, s[i].name = "title" PROVE FALSE
        BY DEF Around
      <3>1. i = 1 \/ i = 2
        OBVIOUS
      <3> QED
        BY <1>2, <3>1
    <2> QED
      BY <1>3, <2>1
  <1>5. \A i \in 1..n : s[i] \notin IgnoredElements
    <2> SUFFICES ASSUME NEW i \in 1..n PROVE s[i].name \notin IgnoredTags
      BY DEF IgnoredElements
    <2>1. i = 1 \/ (i = 2 /\ n = 2)
      BY <1>2
    <2> QED
      BY <1>2, <1>4, <2>1 DEF Html!HtmlAssumption
  <1> QED
    BY <1>5 DEF MetadataIs, Skips

LEMMA AroundGrows ==
  ASSUME NEW s, NEW t, NEW n \in Nat, Agree(s, t, n)
  PROVE  Around(t, n) = Around(s, n) /\ Around(t, n + 1) = Around(s, n) \cup {t[n + 1].name}
  <1>1. Around(t, n) = Around(s, n)
    BY DEF Around, Agree
  <1>2. Around(t, n + 1) = Around(t, n) \cup {t[n + 1].name}
    <2>1. \A i : i \in 1..(n + 1) <=> i \in 1..n \/ i = n + 1
      OBVIOUS
    <2> QED
      BY <2>1 DEF Around
  <1> QED
    BY <1>1, <1>2

LEMMA MetadataOpen ==
  ASSUME NEW s, NEW t, NEW n \in Nat, NEW e \in PageElements,
         Html!HtmlAssumption, e.name \notin VoidTags, IsPage(s, n),
         Agree(s, t, n), t[n + 1] = e, Allowed(s, n, e), MetadataIs(metadata, s, n)
  PROVE  MetadataIs(Html!MetadataOpens(e), t, n + 1)
  <1> DEFINE m == metadata
             q == Html!MetadataOpens(e)
  <1>1. /\ m \in MetadataState /\ e.name \in PageNames /\ e.href \in PageUrls
        /\ e.name # Nothing
    BY DEF MetadataIs, PageNames, PageUrls, Html!HtmlAssumption
  <1>2. e \in IgnoredElements <=> e.name \in IgnoredTags
    BY DEF IgnoredElements
  <1>3. Around(t, n + 1) = Around(s, n) \cup {e.name}
    BY AroundGrows
  <1>4. e.name \notin {"link"}
    BY DEF Html!HtmlAssumption
  <1>5. e.name = "title" =>
          "title" \notin Around(s, n) /\ m.ignored = Nothing /\ e.name \notin IgnoredTags
    <2> SUFFICES ASSUME e.name = "title"
                 PROVE  /\ "title" \notin Around(s, n) /\ m.ignored = Nothing
                        /\ e.name \notin IgnoredTags
      OBVIOUS
    <2>1. /\ "head" \in Around(s, n) /\ "title" \notin Around(s, n)
          /\ "script" \notin Around(s, n)
      BY DEF Allowed
    <2> QED
      BY <2>1, TitleIsRead DEF Html!HtmlAssumption
  <1>6. Skips(s, n, IgnoredElements, m.ignored, m.depth)
    BY DEF MetadataIs
  <1>7. CASE m.ignored # Nothing
    <2>1. q = [m EXCEPT !.depth = m.depth + (IF e.name = m.ignored THEN 1 ELSE 0)]
      BY <1>7 DEF Html!MetadataOpens
    <2>2. m.depth + (IF e.name = m.ignored THEN 1 ELSE 0) \in Nat
      BY <1>1 DEF MetadataState
    <2>3. /\ q \in MetadataState
          /\ q.ignored = m.ignored /\ q.title = m.title
          /\ q.depth = m.depth + (IF e.name = m.ignored THEN 1 ELSE 0)
      BY <1>1, <2>1, <2>2 DEF MetadataState
    <2> QED
      BY <1>3, <1>5, <1>6, <1>7, <2>3, SkipOpens DEF MetadataIs
  <1>8. CASE m.ignored = Nothing /\ e.name \in IgnoredTags
    <2>1. q = [m EXCEPT !.ignored = e.name, !.depth = 1]
      BY <1>4, <1>5, <1>8 DEF Html!MetadataOpens
    <2> HIDE DEF q
    <2>2. q \in MetadataState
      BY <1>1, <2>1, Zenon DEF MetadataState
    <2>3. q.ignored = e.name /\ q.title = m.title /\ q.depth = 1
      BY <1>1, <2>1, SMT DEF MetadataState
    <2> QED
      BY <1>1, <1>2, <1>3, <1>5, <1>6, <1>8, <2>2, <2>3, SkipOpens DEF MetadataIs, q
  <1>9. CASE m.ignored = Nothing /\ e.name = "title"
    <2>1. q = [m EXCEPT !.title = m.title + 1]
      BY <1>5, <1>9 DEF Html!MetadataOpens
    <2>2. m.title + 1 \in Nat
      BY <1>1 DEF MetadataState
    <2>3. /\ q \in MetadataState
          /\ q.ignored = m.ignored /\ q.title = m.title + 1 /\ q.depth = m.depth
      BY <1>1, <2>1, <2>2 DEF MetadataState
    <2> QED
      BY <1>2, <1>3, <1>5, <1>6, <1>9, <2>3, SkipOpens DEF MetadataIs
  <1>10. CASE m.ignored = Nothing /\ e.name \notin IgnoredTags /\ e.name # "title"
    <2>1. q = m
      BY <1>4, <1>10 DEF Html!MetadataOpens
    <2> QED
      BY <1>2, <1>3, <1>6, <1>10, <2>1, SkipOpens DEF MetadataIs
  <1> QED
    BY <1>7, <1>8, <1>9, <1>10

LEMMA MetadataOpenVoid ==
  ASSUME NEW s, NEW n \in Nat, NEW e \in PageElements, Html!HtmlAssumption,
         e.name \in VoidTags, MetadataIs(metadata, s, n)
  PROVE  MetadataIs(Html!MetadataOpens(e), s, n)
  <1> DEFINE m == metadata
             q == Html!MetadataOpens(e)
  <1>1. m \in MetadataState /\ e.href \in PageUrls /\ e.name # "title"
    BY DEF MetadataIs, PageUrls, Html!HtmlAssumption
  <1>2. q \in MetadataState /\ q.ignored = m.ignored /\ q.depth = m.depth /\ q.title = m.title
    <2>1. CASE m.ignored # Nothing
      <3>1. q = [m EXCEPT !.depth = m.depth + 0] /\ m.depth + 0 = m.depth
        BY <1>1, <2>1 DEF Html!MetadataOpens, MetadataState
      <3> QED
        BY <1>1, <3>1 DEF MetadataState
    <2>2. CASE m.ignored = Nothing /\ e.name = "link" /\ m.canonical = Nothing
      <3>1. q = [m EXCEPT !.canonical = e.href]
        BY <1>1, <2>2 DEF Html!MetadataOpens
      <3> QED
        BY <1>1, <3>1 DEF MetadataState
    <2>3. CASE m.ignored = Nothing /\ ~(e.name = "link" /\ m.canonical = Nothing)
      <3>1. q = m
        BY <1>1, <2>3 DEF Html!MetadataOpens
      <3> QED
        BY <1>1, <3>1
    <2> QED
      BY <2>1, <2>2, <2>3
  <1> QED
    BY <1>2 DEF MetadataIs

LEMMA MetadataClose ==
  ASSUME NEW s, NEW n \in Nat, NEW e \in PageElements, Html!HtmlAssumption,
         s[n + 1] = e, IsPage(s, n + 1), MetadataIs(metadata, s, n + 1)
  PROVE  MetadataIs(Html!MetadataCloses(e.name), s, n)
  <1> DEFINE m == metadata
             q == Html!MetadataCloses(e.name)
  <1>1. m \in MetadataState /\ Nothing \in PageNames /\ e.name # Nothing
    BY DEF MetadataIs, PageNames, Html!HtmlAssumption
  <1>2. Around(s, n + 1) = Around(s, n) \cup {e.name}
    BY AroundGrows DEF Agree
  <1>3. Skips(s, n + 1, IgnoredElements, m.ignored, m.depth)
    BY DEF MetadataIs
  <1>4. Allowed(s, n, e)
    <2>1. n + 1 \in 1..(n + 1) /\ n + 1 - 1 = n
      OBVIOUS
    <2> QED
      BY <2>1 DEF IsPage
  <1>5. e.name = "title" => "title" \notin Around(s, n) /\ m.ignored = Nothing
    BY <1>2, <1>4, TitleIsRead DEF Allowed
  <1>6. CASE m.ignored = e.name
    <2> DEFINE outer == IF m.depth = 1 THEN Nothing ELSE m.ignored
    <2>1. q = [m EXCEPT !.depth = m.depth - 1, !.ignored = outer]
      BY <1>1, <1>6 DEF Html!MetadataCloses
    <2>2. m.depth \in Nat \ {0}
      BY <1>1, <1>3, <1>6, SkipCloses
    <2>3. m.depth - 1 \in Nat /\ outer \in PageNames
      BY <1>1, <2>2 DEF MetadataState
    <2> HIDE DEF outer
    <2>4. q \in MetadataState /\ q.ignored = outer /\ q.title = m.title /\ q.depth = m.depth - 1
      BY <1>1, <2>1, <2>3 DEF MetadataState
    <2>5. Skips(s, n, IgnoredElements, q.ignored, q.depth)
      <3>1. CASE m.depth = 1
        <4>1. q.ignored = Nothing /\ q.depth = 0
          BY <2>4, <3>1 DEF outer
        <4>2. Skips(s, n, IgnoredElements, Nothing, 0)
          BY <1>1, <1>3, <1>6, <3>1, SkipCloses
        <4> QED
          BY <4>1, <4>2
      <3>2. CASE m.depth # 1
        <4>1. q.ignored = m.ignored /\ q.depth = m.depth - 1
          BY <2>4, <3>2 DEF outer
        <4> QED
          BY <1>1, <1>3, <1>6, <3>2, <4>1, SkipCloses
      <3> QED
        BY <3>1, <3>2
    <2>6. e.name # "title"
      BY <1>1, <1>5, <1>6
    <2> QED
      BY <1>2, <2>4, <2>5, <2>6 DEF MetadataIs
  <1>7. CASE m.ignored # e.name /\ e.name = "title"
    <2>1. m.title = 1
      BY <1>2, <1>7 DEF MetadataIs
    <2>2. q = [m EXCEPT !.title = 0]
      BY <1>5, <1>7, <2>1 DEF Html!MetadataCloses
    <2>3. q \in MetadataState /\ q.ignored = m.ignored /\ q.title = 0 /\ q.depth = m.depth
      BY <1>1, <2>2 DEF MetadataState
    <2> QED
      BY <1>3, <1>5, <1>7, <2>3, SkipCloses DEF MetadataIs
  <1>8. CASE m.ignored # e.name /\ e.name # "title"
    <2>1. q = m
      BY <1>8 DEF Html!MetadataCloses
    <2> QED
      BY <1>2, <1>3, <1>8, <2>1, SkipCloses DEF MetadataIs
  <1> QED
    BY <1>6, <1>7, <1>8

(***************************************************************************)
(* The invariant                                                           *)
(***************************************************************************)
(* The rendering is that of what is around the outermost active container. *)
SanitizerIs(x, r, s, n) ==
  \E k \in 0..n :
    /\ RenderIs(r, s, k)
    /\ \A i \in 1..k : s[i].name \notin ActiveTags
    /\ IF x = Nothing THEN k = n
       ELSE k < n /\ s[k + 1].name = x /\ x \in ActiveTags

ActiveAreApart(s, n) ==
  \A i, j \in 1..n : s[i].name \in ActiveTags /\ s[i].name = s[j].name => i = j

HtmlInv ==
  /\ nesting \in Seq(PageElements)
  /\ IsPage(nesting, Len(nesting))
  /\ MetadataIs(metadata, nesting, Len(nesting))
  /\ doubled \/ ActiveAreApart(nesting, Len(nesting))
  /\ doubled \/ ended \/ SanitizerIs(sanitizer, render, nesting, Len(nesting))
  /\ doubled \/ ~ended \/ (~render.fence /\ ~render.tick /\ ~render.bracket)

LEMMA HtmlInvInit == Html!HtmlInit => HtmlInv
  <1> SUFFICES ASSUME Html!HtmlInit PROVE HtmlInv
    OBVIOUS
  <1> DEFINE m == metadata
             r == render
  <1>1. nesting = <<>> /\ Len(nesting) = 0 /\ ended = FALSE /\ sanitizer = Nothing
    BY DEF Html!HtmlInit
  <1>2. m = [ignored |-> Nothing, depth |-> 0, title |-> 0, titled |-> FALSE,
             canonical |-> Nothing]
    BY DEF Html!HtmlInit
  <1>3. r = [noisy |-> Nothing, depth |-> 0, head |-> 0, pre |-> 0, code |-> 0,
             link |-> Nothing, fence |-> FALSE, tick |-> FALSE, bracket |-> FALSE]
    BY DEF Html!HtmlInit
  <1>4. Nothing \in PageNames /\ Nothing \in PageUrls
    BY DEF PageNames, PageUrls
  <1>5. \A bad, depth : Skips(nesting, 0, bad, Nothing, depth)
    BY DEF Skips
  <1>6. \A wanted, bad : ~IsOpen(nesting, 0, wanted, bad)
    BY DEF IsOpen
  <1> HIDE DEF m, r
  <1>7. MetadataIs(m, nesting, 0)
    <2>1. m \in MetadataState /\ m.ignored = Nothing /\ m.title = 0
      BY <1>2, <1>4 DEF MetadataState
    <2>2. "title" \notin Around(nesting, 0)
      BY DEF Around
    <2> QED
      BY <1>5, <2>1, <2>2 DEF MetadataIs
  <1>8. RenderIs(r, nesting, 0)
    <2>1. r \in RenderState
      BY <1>3, <1>4, Zenon DEF RenderState
    <2>2. /\ r.noisy = Nothing /\ r.head = 0 /\ r.pre = 0 /\ r.code = 0 /\ r.link = Nothing
          /\ ~r.fence /\ ~r.tick /\ ~r.bracket
      BY <1>3
    <2> QED
      BY <1>5, <1>6, <2>1, <2>2 DEF RenderIs, InHead, InPre, InCode, InLink
  <1>9. SanitizerIs(sanitizer, r, nesting, 0)
    BY <1>1, <1>8 DEF SanitizerIs
  <1> QED
    BY <1>1, <1>7, <1>9 DEF HtmlInv, IsPage, ActiveAreApart, m, r

LEMMA NamesAround ==
  ASSUME nesting \in Seq(PageElements)
  PROVE  Html!Names = Around(nesting, Len(nesting))
  BY DEF Html!Names, Around

LEMMA MayOpenIsAllowed ==
  ASSUME nesting \in Seq(PageElements), NEW e, Html!MayOpen(e)
  PROVE  Allowed(nesting, Len(nesting), e)
  <1>1. nesting = <<>> => Len(nesting) = 0
    OBVIOUS
  <1> QED
    BY <1>1, NamesAround DEF Html!MayOpen, Allowed

LEMMA HtmlOpen ==
  ASSUME Html!HtmlAssumption, HtmlInv, NEW e \in PageElements, Html!OpenTag(e)
  PROVE  HtmlInv'
  <1> DEFINE s == nesting
             n == Len(nesting)
  <1>1. /\ s \in Seq(PageElements) /\ n \in Nat /\ IsPage(s, n) /\ MetadataIs(metadata, s, n)
        /\ ended = FALSE /\ ended' = FALSE
    BY DEF HtmlInv, Html!OpenTag
  <1>2. Allowed(s, n, e)
    BY <1>1, MayOpenIsAllowed DEF Html!OpenTag
  <1>3. metadata' = Html!MetadataOpens(e) /\ sanitizer' = Html!SanitizerOpens(e)
    BY DEF Html!OpenTag
  <1>4. render' = IF Html!Passes(e) THEN Html!RenderOpens(render, e) ELSE render
    BY DEF Html!OpenTag
  <1>5. CASE e.name \in VoidTags
    <2>1. nesting' = nesting
      BY <1>5 DEF Html!OpenTag
    <2>2. MetadataIs(metadata', nesting', Len(nesting'))
      BY <1>1, <1>3, <1>5, <2>1, MetadataOpenVoid
    <2>3. e.name \notin ActiveTags
      BY <1>5 DEF Html!HtmlAssumption
    <2>4. sanitizer' = sanitizer
      BY <1>3, <2>3 DEF Html!SanitizerOpens
    <2>5. doubled' <=> doubled
      BY <2>3 DEF Html!OpenTag
    <2>6. ~doubled => render' = render
      <3> SUFFICES ASSUME ~doubled PROVE render' = render
        OBVIOUS
      <3>1. render \in RenderState
        BY <1>1 DEF HtmlInv, SanitizerIs, RenderIs
      <3> QED
        BY <1>4, <1>5, <3>1, RenderOpensVoid
    <2> QED
      BY <1>1, <2>1, <2>2, <2>4, <2>5, <2>6 DEF HtmlInv
  <1>6. CASE e.name \notin VoidTags
    <2> DEFINE t == Append(nesting, e)
    <2>1. nesting' = t
      BY <1>6 DEF Html!OpenTag
    <2>2. t \in Seq(PageElements) /\ Len(t) = n + 1 /\ Agree(s, t, n) /\ t[n + 1] = e
      BY <1>1 DEF Agree
    <2> HIDE DEF t
    <2>3. MetadataIs(metadata', t, n + 1)
      BY <1>1, <1>2, <1>3, <1>6, <2>2, MetadataOpen
    <2>4. IsPage(t, n + 1)
      <3>1. \A i \in 1..n : Allowed(t, i - 1, t[i])
        <4> SUFFICES ASSUME NEW i \in 1..n PROVE Allowed(t, i - 1, t[i])
          OBVIOUS
        <4>1. i - 1 \in Nat /\ Agree(s, t, i - 1) /\ t[i] = s[i]
          BY <1>1, <2>2 DEF Agree
        <4>2. Around(t, i - 1) = Around(s, i - 1)
          BY <4>1, AroundGrows
        <4>3. Allowed(s, i - 1, s[i])
          BY <1>1 DEF IsPage
        <4> QED
          BY <4>1, <4>2, <4>3 DEF Allowed
      <3>2. Allowed(t, n, t[n + 1]) /\ n + 1 - 1 = n
        <4>1. Around(t, n) = Around(s, n)
          BY <1>1, <2>2, AroundGrows
        <4> QED
          BY <1>1, <1>2, <2>2, <4>1 DEF Allowed
      <3> SUFFICES ASSUME NEW i \in 1..(n + 1)
                   PROVE  /\ t[i] \in PageElements /\ t[i].name \notin VoidTags
                          /\ Allowed(t, i - 1, t[i])
        BY DEF IsPage
      <3>3. CASE i \in 1..n
        BY <1>1, <2>2, <3>1, <3>3 DEF IsPage, Agree
      <3>4. CASE i = n + 1
        BY <1>6, <2>2, <3>2, <3>4
      <3> QED
        BY <1>1, <3>3, <3>4
    <2>5. doubled' \/ (~doubled /\ ActiveAreApart(t, n + 1))
      <3> SUFFICES ASSUME ~doubled'
                   PROVE  ~doubled /\ ActiveAreApart(t, n + 1)
        OBVIOUS
      <3>1. ~doubled /\ (e.name \in ActiveTags => e.name \notin Around(s, n))
        BY <1>1, NamesAround DEF Html!OpenTag
      <3>2. ActiveAreApart(s, n)
        BY <3>1 DEF HtmlInv
      <3>3. e.name \in ActiveTags => \A i \in 1..n : s[i].name # e.name
        BY <3>1 DEF Around
      <3> QED
        BY <1>1, <2>2, <3>1, <3>2, <3>3 DEF ActiveAreApart, Agree
    <2>6. doubled' \/ SanitizerIs(sanitizer', render', t, n + 1)
      <3> SUFFICES ASSUME ~doubled' PROVE SanitizerIs(sanitizer', render', t, n + 1)
        OBVIOUS
      <3>1. SanitizerIs(sanitizer, render, s, n)
        BY <1>1, <2>5 DEF HtmlInv
      <3>2. PICK k \in 0..n :
              /\ RenderIs(render, s, k)
              /\ \A i \in 1..k : s[i].name \notin ActiveTags
              /\ IF sanitizer = Nothing THEN k = n
                 ELSE k < n /\ s[k + 1].name = sanitizer /\ sanitizer \in ActiveTags
        BY <3>1 DEF SanitizerIs
      <3>3. Agree(s, t, k) /\ k \in Nat
        BY <1>1, <2>2 DEF Agree
      <3>4. RenderIs(render, t, k) /\ \A i \in 1..k : t[i].name \notin ActiveTags
        BY <3>2, <3>3, RenderAgrees DEF Agree
      <3>5. CASE sanitizer # Nothing
        <4>1. sanitizer' = sanitizer /\ render' = render
          BY <1>3, <1>4, <3>5 DEF Html!SanitizerOpens, Html!Passes
        <4>2. k \in 0..(n + 1) /\ k < n + 1 /\ t[k + 1].name = sanitizer
          BY <1>1, <2>2, <3>2, <3>5 DEF Agree
        <4> QED
          BY <3>2, <3>4, <3>5, <4>1, <4>2 DEF SanitizerIs
      <3>6. CASE sanitizer = Nothing /\ e.name \in ActiveTags
        <4>1. sanitizer' = e.name /\ render' = render
          BY <1>3, <1>4, <3>6 DEF Html!SanitizerOpens, Html!Passes
        <4>2. e.name # Nothing
          BY DEF Html!HtmlAssumption
        <4>3. k = n /\ k \in 0..(n + 1) /\ k < n + 1 /\ t[k + 1].name = e.name
          BY <1>1, <2>2, <3>2, <3>6
        <4> QED
          BY <3>4, <3>6, <4>1, <4>2, <4>3 DEF SanitizerIs
      <3>7. CASE sanitizer = Nothing /\ e.name \notin ActiveTags
        <4>1. e.name \notin ResourceTags
          BY <1>6 DEF Html!HtmlAssumption
        <4>2. sanitizer' = Nothing /\ render' = Html!RenderOpens(render, e)
          BY <1>3, <1>4, <3>7, <4>1 DEF Html!SanitizerOpens, Html!Passes
        <4>3. k = n
          BY <3>2, <3>7
        <4>4. RenderIs(render', t, n + 1)
          BY <1>1, <1>2, <1>6, <2>2, <3>2, <4>2, <4>3, RenderOpen
        <4>5. \A i \in 1..(n + 1) : t[i].name \notin ActiveTags
          BY <1>1, <2>2, <3>4, <3>7, <4>3
        <4>6. n + 1 \in 0..(n + 1)
          BY <1>1
        <4> QED
          BY <4>2, <4>4, <4>5, <4>6 DEF SanitizerIs
      <3> QED
        BY <3>5, <3>6, <3>7
    <2> QED
      BY <1>1, <2>1, <2>2, <2>3, <2>4, <2>5, <2>6 DEF HtmlInv
  <1> QED
    BY <1>5, <1>6

LEMMA HtmlClose ==
  ASSUME Html!HtmlAssumption, HtmlInv, Html!CloseTag
  PROVE  HtmlInv'
  <1> DEFINE s == nesting
             n == Len(nesting) - 1
             e == s[n + 1]
             t == nesting'
  <1>1. /\ s \in Seq(PageElements) /\ IsPage(s, Len(s)) /\ MetadataIs(metadata, s, Len(s))
        /\ ended = FALSE /\ ended' = FALSE /\ s # <<>>
    BY DEF HtmlInv, Html!CloseTag
  <1>2. n \in Nat /\ Len(s) = n + 1 /\ e \in PageElements
    BY <1>1
  <1>3. /\ t = SubSeq(s, 1, n)
        /\ metadata' = Html!MetadataCloses(e.name) /\ sanitizer' = Html!SanitizerCloses(e.name)
        /\ render' = IF sanitizer = Nothing THEN Html!RenderCloses(render, e.name) ELSE render
        /\ doubled' = doubled
    BY <1>2 DEF Html!CloseTag, Html!Last, Html!Front
  <1>4. t \in Seq(PageElements) /\ Len(t) = n /\ Agree(s, t, n)
    BY <1>1, <1>2, <1>3 DEF Agree
  <1>5. Allowed(s, n, e) /\ IsPage(s, n)
    <2>1. n + 1 \in 1..(n + 1) /\ n + 1 - 1 = n /\ \A i \in 1..n : i \in 1..(n + 1)
      BY <1>2
    <2> QED
      BY <1>1, <1>2, <2>1 DEF IsPage
  <1> HIDE DEF t, n, e
  <1>6. MetadataIs(metadata', t, n)
    <2>1. MetadataIs(metadata', s, n)
      BY <1>1, <1>2, <1>3, MetadataClose DEF e
    <2> QED
      BY <1>2, <1>4, <2>1, SkipsAgree, AroundGrows DEF MetadataIs
  <1>7. IsPage(t, n)
    <2> SUFFICES ASSUME NEW i \in 1..n
                 PROVE  /\ t[i] \in PageElements /\ t[i].name \notin VoidTags
                        /\ Allowed(t, i - 1, t[i])
      BY DEF IsPage
    <2>1. i - 1 \in Nat /\ Agree(s, t, i - 1) /\ t[i] = s[i]
      BY <1>2, <1>4 DEF Agree
    <2>2. Around(t, i - 1) = Around(s, i - 1)
      BY <2>1, AroundGrows
    <2> QED
      BY <1>5, <2>1, <2>2 DEF IsPage, Allowed
  <1>8. doubled' \/ (~doubled /\ ActiveAreApart(s, n + 1) /\ ActiveAreApart(t, n))
    BY <1>2, <1>3, <1>4 DEF HtmlInv, ActiveAreApart, Agree
  <1>9. doubled' \/ SanitizerIs(sanitizer', render', t, n)
    <2> SUFFICES ASSUME ~doubled' PROVE SanitizerIs(sanitizer', render', t, n)
      OBVIOUS
    <2>1. SanitizerIs(sanitizer, render, s, n + 1)
      BY <1>1, <1>2, <1>8 DEF HtmlInv
    <2>2. PICK k \in 0..(n + 1) :
            /\ RenderIs(render, s, k)
            /\ \A i \in 1..k : s[i].name \notin ActiveTags
            /\ IF sanitizer = Nothing THEN k = n + 1
               ELSE k < n + 1 /\ s[k + 1].name = sanitizer /\ sanitizer \in ActiveTags
      BY <2>1 DEF SanitizerIs
    <2>3. CASE sanitizer = Nothing
      <3>1. k = n + 1 /\ render' = Html!RenderCloses(render, e.name)
        BY <1>3, <2>2, <2>3
      <3>2. sanitizer' = Nothing
        BY <1>2, <1>3, <2>3 DEF Html!SanitizerCloses, Html!HtmlAssumption
      <3>3. RenderIs(render', s, n)
        BY <1>2, <1>5, <2>2, <3>1, RenderClose DEF e
      <3>4. RenderIs(render', t, n)
        BY <1>2, <1>4, <3>3, RenderAgrees
      <3>5. \A i \in 1..n : t[i].name \notin ActiveTags
        BY <1>2, <1>4, <2>2, <3>1 DEF Agree
      <3>6. n \in 0..n
        BY <1>2
      <3> QED
        BY <3>2, <3>4, <3>5, <3>6 DEF SanitizerIs
    <2>4. CASE sanitizer # Nothing
      <3>1. k \in 0..n /\ k \in Nat /\ Agree(s, t, k)
        BY <1>2, <1>4, <2>2, <2>4 DEF Agree
      <3>2. RenderIs(render', t, k)
        BY <1>3, <2>2, <2>4, <3>1, RenderAgrees
      <3>3. \A i \in 1..k : t[i].name \notin ActiveTags
        BY <2>2, <3>1 DEF Agree
      <3>4. CASE sanitizer = e.name
        <4>1. sanitizer' = Nothing
          BY <1>3, <3>4 DEF Html!SanitizerCloses
        <4>2. k + 1 \in 1..(n + 1) /\ n + 1 \in 1..(n + 1) /\ s[k + 1].name = s[n + 1].name
                /\ s[k + 1].name \in ActiveTags
          BY <1>2, <2>2, <2>4, <3>1, <3>4 DEF e
        <4>3. k = n
          <5>1. k + 1 = n + 1
            BY <1>8, <4>2 DEF ActiveAreApart
          <5> QED
            BY <1>2, <3>1, <5>1
        <4> QED
          BY <3>1, <3>2, <3>3, <4>1, <4>3 DEF SanitizerIs
      <3>5. CASE sanitizer # e.name
        <4>1. sanitizer' = sanitizer
          BY <1>3, <3>5 DEF Html!SanitizerCloses
        <4>2. k # n
          BY <2>2, <2>4, <3>5 DEF e
        <4>3. k < n /\ t[k + 1] = s[k + 1]
          BY <1>2, <1>4, <3>1, <4>2 DEF Agree
        <4> QED
          BY <2>2, <2>4, <3>1, <3>2, <3>3, <4>1, <4>3 DEF SanitizerIs
      <3> QED
        BY <3>4, <3>5
    <2> QED
      BY <2>3, <2>4
  <1> QED
    BY <1>1, <1>4, <1>6, <1>7, <1>8, <1>9 DEF HtmlInv, t

LEMMA HtmlReadTitle ==
  ASSUME HtmlInv, Html!ReadTitle
  PROVE  HtmlInv'
  <1>1. metadata' = [metadata EXCEPT !.titled = TRUE]
          /\ UNCHANGED <<nesting, ended, sanitizer, render, doubled>>
    BY DEF Html!ReadTitle
  <1>2. metadata \in MetadataState
    BY DEF HtmlInv, MetadataIs
  <1>3. metadata' \in MetadataState
    BY <1>1, <1>2, Zenon DEF MetadataState
  <1>4. metadata'.ignored = metadata.ignored /\ metadata'.depth = metadata.depth
          /\ metadata'.title = metadata.title
    BY <1>1, <1>2, SMT DEF MetadataState
  <1> QED
    BY <1>1, <1>3, <1>4 DEF HtmlInv, MetadataIs

LEMMA HtmlEndPage ==
  ASSUME HtmlInv, Html!EndPage
  PROVE  HtmlInv'
  <1>1. /\ ended = FALSE /\ ended' = TRUE /\ render' = Html!RenderEnds(render)
        /\ UNCHANGED <<nesting, metadata, sanitizer, doubled>>
    BY DEF Html!EndPage
  <1>2. doubled \/ (~render'.fence /\ ~render'.tick /\ ~render'.bracket)
    <2> SUFFICES ASSUME ~doubled PROVE ~render'.fence /\ ~render'.tick /\ ~render'.bracket
      OBVIOUS
    <2>1. PICK k : RenderIs(render, nesting, k)
      BY <1>1 DEF HtmlInv, SanitizerIs
    <2>2. render \in RenderState
      BY <2>1 DEF RenderIs
    <2>3. /\ render.pre \in {0, 1} /\ render.fence = (render.pre = 1)
          /\ render.code \in {0, 1} /\ render.tick = (render.code = 1)
          /\ (render.bracket /\ render.link = Nothing) = FALSE
      BY <2>1, <2>2 DEF RenderIs, RenderState
    <2>4. /\ (render.tick # (render.code % 2 = 1)) = FALSE
          /\ (render.fence # (render.pre % 2 = 1)) = FALSE
      <3>1. (render.code % 2 = 1) = (render.code = 1) /\ (render.pre % 2 = 1) = (render.pre = 1)
        BY <2>3
      <3> QED
        BY <2>3, <3>1
    <2>5. render' = [[render EXCEPT !.bracket = render.bracket /\ render.link = Nothing,
                                    !.link = Nothing]
                       EXCEPT !.tick = (render.tick # (render.code % 2 = 1)), !.code = 0,
                              !.fence = (render.fence # (render.pre % 2 = 1)), !.pre = 0]
      BY <1>1 DEF Html!RenderEnds, Html!CloseBracket
    <2>6. render' = [[render EXCEPT !.bracket = FALSE, !.link = Nothing]
                       EXCEPT !.tick = FALSE, !.code = 0, !.fence = FALSE, !.pre = 0]
      BY <2>3, <2>4, <2>5
    <2> QED
      BY <2>2, <2>6, SMT DEF RenderState
  <1> QED
    BY <1>1, <1>2 DEF HtmlInv

LEMMA HtmlStep ==
  ASSUME Html!HtmlAssumption, HtmlInv, Html!HtmlNext
  PROVE  HtmlInv'
  BY HtmlOpen, HtmlClose, HtmlReadTitle, HtmlEndPage DEF Html!HtmlNext

LEMMA HtmlStutter ==
  ASSUME HtmlInv, UNCHANGED pageVars
  PROVE  HtmlInv'
  BY DEF pageVars, HtmlInv

LEMMA HtmlProperty ==
  ASSUME Html!HtmlAssumption, HtmlInv
  PROVE  Html!OnlyContentIsShown
  <1> DEFINE s == nesting
             n == Len(nesting)
  <1>1. s \in Seq(PageElements) /\ n \in Nat /\ DOMAIN s = 1..n /\ IsPage(s, n)
          /\ MetadataIs(metadata, s, n)
    BY DEF HtmlInv
  <1>2. Html!MetadataReadsText <=> "title" \in Html!Names
    <2>1. metadata.title = IF "title" \in Around(s, n) THEN 1 ELSE 0
      BY <1>1 DEF MetadataIs
    <2>2. "title" \in Around(s, n) => metadata.ignored = Nothing
      BY <1>1, TitleIsRead
    <2>3. Html!Names = Around(s, n)
      BY <1>1, NamesAround
    <2> QED
      BY <2>1, <2>2, <2>3 DEF Html!MetadataReadsText
  <1>3. ASSUME ~doubled, ~ended
        PROVE  /\ (sanitizer = Nothing /\ Html!IsShown(render))
                    <=> \A i \in DOMAIN s : ~Html!Hides(s[i])
               /\ s = <<>> => ~render.fence /\ ~render.tick /\ ~render.bracket
    <2>1. PICK k \in 0..n :
            /\ RenderIs(render, s, k)
            /\ \A i \in 1..k : s[i].name \notin ActiveTags
            /\ IF sanitizer = Nothing THEN k = n
               ELSE k < n /\ s[k + 1].name = sanitizer /\ sanitizer \in ActiveTags
      BY <1>3 DEF HtmlInv, SanitizerIs
    <2>2. CASE sanitizer # Nothing
      <3>1. k + 1 \in DOMAIN s /\ Html!Hides(s[k + 1])
        BY <1>1, <2>1, <2>2 DEF Html!Hides
      <3>2. s # <<>>
        BY <1>1, <3>1
      <3> QED
        BY <2>2, <3>1, <3>2
    <2>3. CASE sanitizer = Nothing
      <3>1. /\ k = n /\ RenderIs(render, s, n)
            /\ \A i \in 1..n : s[i] \in PageElements /\ s[i].name \notin ActiveTags
        BY <1>1, <2>1, <2>3 DEF IsPage
      <3>2. \A i \in 1..n : Html!Hides(s[i]) <=> s[i] \in NoisyElements \/ s[i] \in Named("head")
        BY <3>1 DEF Html!Hides, NoisyElements, Named
      <3>3. render.noisy = Nothing <=> \A i \in 1..n : s[i] \notin NoisyElements
        BY <3>1 DEF RenderIs, Skips
      <3>4. render.head = 0 <=> ~InHead(s, n)
        BY <3>1 DEF RenderIs
      <3>5. render.noisy = Nothing =>
              (InHead(s, n) <=> \E i \in 1..n : s[i] \in Named("head"))
        BY <1>1, <3>3 DEF InHead, IsOpen
      <3>6. Html!IsShown(render) <=> \A i \in 1..n : ~Html!Hides(s[i])
        BY <3>2, <3>3, <3>4, <3>5 DEF Html!IsShown
      <3>7. s = <<>> => ~render.fence /\ ~render.tick /\ ~render.bracket
        <4> SUFFICES ASSUME n = 0 PROVE ~render.fence /\ ~render.tick /\ ~render.bracket
          OBVIOUS
        <4>1. ~InPre(s, 0) /\ ~InCode(s, 0) /\ ~InLink(s, 0)
          BY DEF InPre, InCode, InLink, IsOpen
        <4> QED
          BY <3>1, <4>1 DEF RenderIs
      <3> QED
        BY <1>1, <2>3, <3>6, <3>7
    <2> QED
      BY <2>2, <2>3
  <1>4. ~doubled /\ ended => ~render.fence /\ ~render.tick /\ ~render.bracket
    BY DEF HtmlInv
  <1> QED
    BY <1>2, <1>3, <1>4 DEF Html!OnlyContentIsShown

(***************************************************************************)
(* The selection of sections                                               *)
(***************************************************************************)
LEMMA SelectionCardinality == \A S : Selection!Cardinality(S) = Cardinality(S)
  BY Zenon DEF Selection!Cardinality, Cardinality

LEMMA ImageIsFinite ==
  ASSUME NEW f, IsFiniteSet(DOMAIN f), f = [x \in DOMAIN f |-> f[x]]
  PROVE  IsFiniteSet({f[x] : x \in DOMAIN f})
  <1> DEFINE T == {f[x] : x \in DOMAIN f}
  <1>1. f \in Surjection(DOMAIN f, T)
    BY DEF Surjection
  <1> QED
    BY <1>1, FS_Surjection

(* Places of different numbers are different, and finitely many.           *)
LEMMA PlacesAre ==
  ASSUME NEW lengths
  PROVE  \A p : p \in Selection!Places(lengths) <=>
                  \E i \in DOMAIN lengths : \E k \in 1..lengths[i] : p = <<i, k>>
  BY DEF Selection!Places

LEMMA PlacesAreFinite ==
  ASSUME NEW lengths, IsFiniteSet(DOMAIN lengths),
         \A i \in DOMAIN lengths : lengths[i] \in Nat
  PROVE  /\ IsFiniteSet(Selection!Places(lengths))
         /\ Selection!Total(lengths) = Cardinality(Selection!Places(lengths))
         /\ Selection!Total(lengths) \in Nat
  <1> DEFINE rows == [i \in DOMAIN lengths |-> {i} \X (1..lengths[i])]
             all == {rows[i] : i \in DOMAIN rows}
  <1>1. IsFiniteSet(all)
    <2>1. rows = [x \in DOMAIN rows |-> rows[x]] /\ DOMAIN rows = DOMAIN lengths
      OBVIOUS
    <2> HIDE DEF rows
    <2> QED
      BY <2>1, ImageIsFinite
  <1>2. ASSUME NEW i \in DOMAIN lengths PROVE IsFiniteSet({i} \X (1..lengths[i]))
    <2>1. IsFiniteSet(1..lengths[i])
      BY FS_Interval
    <2>2. IsFiniteSet({i})
      BY FS_Singleton
    <2> QED
      BY <2>1, <2>2, FS_Product
  <1>3. \A T \in all : IsFiniteSet(T)
    BY <1>2
  <1>4. Selection!Places(lengths) = UNION all
    BY DEF Selection!Places
  <1>5. IsFiniteSet(Selection!Places(lengths))
    <2> HIDE DEF all
    <2> QED
      BY <1>1, <1>3, <1>4, FS_UNION
  <1> QED
    BY <1>5, FS_CardinalityType, SelectionCardinality DEF Selection!Total

LEMMA TotalGrows ==
  ASSUME NEW lengths, IsFiniteSet(DOMAIN lengths),
         \A i \in DOMAIN lengths : lengths[i] \in Nat,
         NEW longer, NEW new, new \notin DOMAIN lengths,
         DOMAIN longer = DOMAIN lengths \cup {new}, longer[new] \in Nat,
         \A i \in DOMAIN lengths : longer[i] = lengths[i]
  PROVE  /\ Selection!Total(longer) = Selection!Total(lengths) + longer[new]
         /\ Selection!Total(lengths) \in Nat
  <1> DEFINE P == Selection!Places(lengths)
             N == {new} \X (1..longer[new])
  <1>1. Selection!Places(longer) = P \cup N
    <2>1. \A p : p \in N <=> \E k \in 1..longer[new] : p = <<new, k>>
      OBVIOUS
    <2>2. \A p : p \in Selection!Places(longer) <=>
                   \E i \in DOMAIN longer : \E k \in 1..longer[i] : p = <<i, k>>
      BY PlacesAre
    <2>3. \A p : p \in P <=> \E i \in DOMAIN lengths : \E k \in 1..lengths[i] : p = <<i, k>>
      BY PlacesAre
    <2> HIDE DEF P, N
    <2> QED
      BY <2>1, <2>2, <2>3
  <1>2. P \cap N = {}
    BY PlacesAre
  <1>3. IsFiniteSet(P) /\ Selection!Total(lengths) = Cardinality(P) /\ Cardinality(P) \in Nat
    BY PlacesAreFinite
  <1>4. IsFiniteSet(N) /\ Cardinality(N) = longer[new]
    <2>1. IsFiniteSet(1..longer[new]) /\ Cardinality(1..longer[new]) = longer[new]
      BY FS_Interval
    <2>2. IsFiniteSet({new}) /\ Cardinality({new}) = 1
      BY FS_Singleton
    <2> DEFINE A == {new}
               B == 1..longer[new]
    <2>3. IsFiniteSet(A \X B) /\ Cardinality(A \X B) = Cardinality(A) * Cardinality(B)
      <3> HIDE DEF A, B
      <3> QED
        BY <2>1, <2>2, FS_Product DEF A, B
    <2> QED
      BY <2>1, <2>2, <2>3
  <1>5. Cardinality(P \cup N) = Cardinality(P) + Cardinality(N) - Cardinality(P \cap N)
    BY <1>3, <1>4, FS_Union
  <1>6. Cardinality(P \cap N) = 0
    BY <1>2, FS_EmptySet
  <1> HIDE DEF P, N
  <1>7. Selection!Total(longer) = Cardinality(P) + Cardinality(N) - 0
    BY <1>1, <1>5, <1>6, SelectionCardinality DEF Selection!Total
  <1> QED
    BY <1>3, <1>4, <1>7

LEMMA TotalOfNothing == Selection!Total(<<>>) = 0
  <1>1. Selection!Places(<<>>) = {}
    BY PlacesAre
  <1> QED
    BY <1>1, FS_EmptySet, SelectionCardinality DEF Selection!Total

-----------------------------------------------------------------------------
(* The candidates of a page.                                               *)
IsAsked == document \in MarkdownPages /\ selection \in ContentQueries

LEMMA AskedTypes ==
  ASSUME Selection!SelectionAssumption, IsAsked
  PROVE  /\ DOMAIN document = 1..Len(document) /\ Len(document) \in Nat
         /\ \A i \in DOMAIN document : document[i].characters \in Nat
         /\ \A i \in DOMAIN document :
              /\ Len(document[i].terms) \in Nat
              /\ DOMAIN document[i].terms = 1..Len(document[i].terms)
         /\ selection.maxSections \in Nat \ {0} /\ selection.maxCharacters \in Nat \ {0}
         /\ {SectionCharacters, SectionTokens, QueryTokens, SectionCount} \subseteq Nat \ {0}
  BY DEF Selection!SelectionAssumption, IsAsked

LEMMA StartsAreLines ==
  ASSUME Selection!SelectionAssumption, IsAsked
  PROVE  /\ Selection!Starts \subseteq DOMAIN document /\ Selection!Starts \subseteq Nat
         /\ IsFiniteSet(Selection!Starts)
         /\ document # <<>> => 1 \in Selection!Starts
  <1>1. Selection!Headings \subseteq DOMAIN document
    BY DEF Selection!Headings, Selection!FirstOf
  <1>2. DOMAIN document = 1..Len(document) /\ Len(document) \in Nat
    BY AskedTypes
  <1>3. document # <<>> => 1 \in DOMAIN document
    BY <1>2, AskedTypes DEF Selection!SelectionAssumption, IsAsked
  <1>4. Selection!Starts \subseteq DOMAIN document
    BY <1>1, <1>3 DEF Selection!Starts
  <1>5. IsFiniteSet(1..Len(document))
    BY <1>2, FS_Interval
  <1> QED
    BY <1>2, <1>4, <1>5, FS_Subset DEF Selection!Starts

(* What is kept of a line: all of it, but for the end of a heading.        *)
LEMMA KeptTypes ==
  ASSUME Selection!SelectionAssumption, IsAsked, NEW i \in DOMAIN document,
         NEW headings \in SUBSET Selection!Headings
  PROVE  /\ Selection!Kept(i, headings).characters \in Nat
         /\ Len(Selection!Kept(i, headings).terms) \in Nat
         /\ \A k \in 1..Len(document[i].terms) :
              ~Selection!IsCutOff(<<i, k>>) =>
                /\ k \in 1..Len(Selection!Kept(i, headings).terms)
                /\ Selection!Kept(i, headings).terms[k] = document[i].terms[k]
  <1>1. CASE i \notin headings
    BY <1>1, AskedTypes DEF Selection!Kept
  <1>2. CASE i \in headings
    <2> DEFINE kept == document[i].kept
    <2>1. i \in Selection!Headings /\ document[i].kind = "heading"
      BY <1>2 DEF Selection!Headings, Selection!FirstOf
    <2>2. Selection!IsKept(kept, document[i])
      BY <2>1 DEF Selection!SelectionAssumption, IsAsked
    <2>3. /\ kept.characters \in Nat /\ Len(kept.terms) \in Nat
          /\ Selection!Kept(i, headings) = kept
      BY <1>2, <2>2 DEF Selection!IsKept, Selection!Kept
    <2> HIDE DEF kept
    <2>4. ASSUME NEW k \in 1..Len(document[i].terms), ~Selection!IsCutOff(<<i, k>>)
          PROVE  k \in 1..Len(kept.terms) /\ kept.terms[k] = document[i].terms[k]
      <3>1. CASE Selection!IsCut(document[i])
        <4>1. ~(k >= Len(kept.terms))
          BY <2>1, <2>4, <3>1 DEF Selection!IsCutOff, kept
        <4>2. k \in 1..(Len(kept.terms) - 1)
          BY <2>3, <4>1, AskedTypes
        <4> QED
          BY <2>2, <2>3, <3>1, <4>2 DEF Selection!IsKept
      <3>2. CASE ~Selection!IsCut(document[i])
        BY <2>2, <3>2 DEF Selection!IsKept
      <3> QED
        BY <3>1, <3>2
    <2> QED
      BY <2>3, <2>4
  <1> QED
    BY <1>1, <1>2

LEMMA SectionIsTyped ==
  ASSUME Selection!SelectionAssumption, IsAsked, NEW start \in Selection!Starts
  PROVE  /\ Selection!Section(start).characters \in Nat
         /\ Selection!Section(start).from = start
         /\ Selection!Section(start).lines = Selection!LinesFrom(start)
         /\ Selection!Section(start).tokens =
              Selection!Tokens(Selection!LinesFrom(start), {start} \cap Selection!Headings,
                               SectionTokens)
  <1> DEFINE lines == Selection!LinesFrom(start)
             heading == {start} \cap Selection!Headings
             lengths == [i \in lines |-> Selection!Kept(i, heading).characters]
  <1>1. start \in 1..Len(document) /\ Len(document) \in Nat
    BY StartsAreLines, AskedTypes
  <1>2. start \in lines /\ lines \subseteq 1..Len(document)
    BY <1>1 DEF Selection!LinesFrom
  <1>3. IsFiniteSet(lines)
    <2>1. IsFiniteSet(1..Len(document))
      BY <1>1, FS_Interval
    <2> QED
      BY <1>2, <2>1, FS_Subset
  <1>4. Cardinality(lines) \in Nat \ {0}
    BY <1>2, <1>3, FS_CardinalityType, FS_EmptySet
  <1>5. \A i \in lines : Selection!Kept(i, heading).characters \in Nat
    BY <1>2, KeptTypes, AskedTypes
  <1> HIDE DEF lines
  <1>6. Selection!Total(lengths) \in Nat
    <2>1. DOMAIN lengths = lines /\ \A i \in lines : lengths[i] \in Nat
      BY <1>5
    <2> HIDE DEF lengths
    <2> QED
      BY <2>1, <1>3, PlacesAreFinite
  <1>7. Selection!Rendered(lines, heading) \in Nat
    BY <1>4, <1>6, SelectionCardinality DEF Selection!Rendered
  <1> QED
    BY <1>7 DEF Selection!Section, lines

LEMMA CandidatesAreFinite ==
  ASSUME Selection!SelectionAssumption, IsAsked
  PROVE  /\ IsFiniteSet(Selection!Candidates) /\ Cardinality(Selection!Candidates) \in Nat
         /\ \A section \in Selection!Candidates :
              \E start \in Selection!Starts : section = Selection!Section(start)
         /\ \A section \in Selection!Candidates : section.characters \in Nat
  <1> DEFINE first == Selection!FirstOf(Selection!Starts, SectionCount)
             f == [start \in first |-> Selection!Section(start)]
  <1>1. first \subseteq Selection!Starts
    BY DEF Selection!FirstOf
  <1>2. IsFiniteSet(first)
    BY <1>1, StartsAreLines, FS_Subset
  <1>3. DOMAIN f = first /\ f = [x \in DOMAIN f |-> f[x]]
    OBVIOUS
  <1>4. Selection!Sections = {f[x] : x \in DOMAIN f}
    BY DEF Selection!Sections
  <1>5. IsFiniteSet(Selection!Sections)
    <2> HIDE DEF f
    <2> QED
      BY <1>2, <1>3, <1>4, ImageIsFinite
  <1>6. Selection!Candidates \subseteq Selection!Sections
    BY DEF Selection!Candidates
  <1>7. IsFiniteSet(Selection!Candidates)
    BY <1>5, <1>6, FS_Subset
  <1>8. \A section \in Selection!Sections :
          \E start \in Selection!Starts : section = Selection!Section(start)
    BY <1>1 DEF Selection!Sections
  <1>9. \A section \in Selection!Candidates :
          \E start \in Selection!Starts : section = Selection!Section(start)
    BY <1>6, <1>8
  <1> QED
    BY <1>7, <1>9, SectionIsTyped, FS_CardinalityType

-----------------------------------------------------------------------------
(* The sections that were taken are the best of the candidates, best first.*)
BestAreTaken ==
  \A i \in DOMAIN selected :
    /\ selected[i].characters <= SectionCharacters
    /\ \A j \in DOMAIN selected :
         i < j => /\ selected[i].section # selected[j].section
                  /\ Selection!IsBetter(selected[i].section, selected[j].section)
    /\ \A other \in candidates \ Selection!Taken :
         Selection!IsBetter(selected[i].section, other)

SelectionInv ==
  /\ IsAsked
  /\ candidates = Selection!Candidates
  /\ selected \in Seq([section : candidates, characters : Nat, cut : BOOLEAN])
  /\ full \in BOOLEAN /\ truncated \in BOOLEAN
  /\ BestAreTaken
  /\ Len(selected) <= selection.maxSections
  /\ Cardinality(Selection!Taken) = Len(selected)
  /\ ~full => remaining = selection.maxCharacters - Selection!Joined
  /\ Selection!Joined <= selection.maxCharacters
  /\ truncated <=> full \/ Cardinality(candidates) > selection.maxSections
  /\ full => Selection!Taken # candidates

LEMMA SelectedTypes ==
  ASSUME selected \in Seq([section : candidates, characters : Nat, cut : BOOLEAN])
  PROVE  /\ DOMAIN selected = 1..Len(selected) /\ Len(selected) \in Nat
         /\ \A i \in DOMAIN selected :
              /\ selected[i].section \in candidates
              /\ selected[i].characters \in Nat
              /\ selected[i].cut \in BOOLEAN
         /\ Selection!Taken \subseteq candidates
  <1> DEFINE Entries == [section : candidates, characters : Nat, cut : BOOLEAN]
  <1>1. /\ DOMAIN selected = 1..Len(selected) /\ Len(selected) \in Nat
        /\ \A i \in DOMAIN selected : selected[i] \in Entries
    <2>1. selected \in Seq(Entries)
      OBVIOUS
    <2> HIDE DEF Entries
    <2> QED
      BY <2>1
  <1>2. \A i \in DOMAIN selected :
          /\ selected[i].section \in candidates
          /\ selected[i].characters \in Nat
          /\ selected[i].cut \in BOOLEAN
    BY <1>1
  <1> QED
    BY <1>1, <1>2 DEF Selection!Taken

LEMMA JoinedIsNumber ==
  ASSUME selected \in Seq([section : candidates, characters : Nat, cut : BOOLEAN])
  PROVE  Selection!Joined \in Int
  <1> DEFINE lengths == [i \in DOMAIN selected |-> selected[i].characters]
  <1>1. DOMAIN lengths = 1..Len(selected) /\ Len(selected) \in Nat
    BY SelectedTypes
  <1>2. IsFiniteSet(1..Len(selected))
    BY <1>1, FS_Interval
  <1>3. \A i \in DOMAIN lengths : lengths[i] \in Nat
    BY SelectedTypes
  <1>4. Selection!Total(lengths) \in Nat
    <2> HIDE DEF lengths
    <2> QED
      BY <1>1, <1>2, <1>3, PlacesAreFinite
  <1> QED
    BY <1>1, <1>4 DEF Selection!Joined

LEMMA SelectionInvInit ==
  ASSUME Selection!SelectionAssumption, Selection!SelectionInit
  PROVE  SelectionInv
  <1>1. IsAsked /\ candidates = Selection!Candidates /\ selected = <<>>
    BY DEF Selection!SelectionInit, IsAsked
  <1>2. selected \in Seq([section : candidates, characters : Nat, cut : BOOLEAN])
    BY <1>1
  <1>3. BestAreTaken
    BY <1>1 DEF BestAreTaken
  <1>4. Selection!Taken = {} /\ Len(selected) = 0
    BY <1>1 DEF Selection!Taken
  <1>5. Cardinality(Selection!Taken) = 0
    BY <1>4, FS_EmptySet
  <1>6. Selection!Joined = 0
    <2>1. [i \in DOMAIN selected |-> selected[i].characters] = <<>>
      BY <1>1
    <2> QED
      BY <1>1, <2>1, TotalOfNothing DEF Selection!Joined
  <1>7. Cardinality(candidates) \in Nat
    BY <1>1, CandidatesAreFinite
  <1>8. /\ full = FALSE /\ remaining = selection.maxCharacters
        /\ truncated = (Cardinality(candidates) > selection.maxSections)
    BY SelectionCardinality DEF Selection!SelectionInit
  <1>9. selection.maxSections \in Nat /\ selection.maxCharacters \in Nat
    BY <1>1, AskedTypes
  <1>10. full \in BOOLEAN /\ truncated \in BOOLEAN /\ ~full
    <2>1. (Cardinality(candidates) > selection.maxSections) \in BOOLEAN
      BY <1>7, <1>9
    <2> QED
      BY <1>8, <2>1
  <1>11. truncated <=> full \/ Cardinality(candidates) > selection.maxSections
    BY <1>8, <1>10
  <1>12. remaining = selection.maxCharacters - Selection!Joined
           /\ Selection!Joined <= selection.maxCharacters
    BY <1>6, <1>8, <1>9
  <1>13. Len(selected) <= selection.maxSections /\ Cardinality(Selection!Taken) = Len(selected)
    BY <1>4, <1>5, <1>9
  <1> QED
    BY <1>1, <1>2, <1>3, <1>10, <1>11, <1>12, <1>13 DEF SelectionInv

LEMMA SameOrder ==
  ASSUME UNCHANGED selection
  PROVE  \A s, t : Selection!IsBetter(s, t)' <=> Selection!IsBetter(s, t)
  BY DEF Selection!IsBetter, Selection!Relevance, Selection!Terms

LEMMA BudgetIs ==
  ASSUME Selection!Room \in Int, SectionCharacters \in Nat
  PROVE  /\ Selection!Budget <= SectionCharacters /\ Selection!Budget <= Selection!Room
         /\ Selection!Budget \in Int
  <1> PICK room : room = Selection!Room
    OBVIOUS
  <1>1. Selection!Budget = Selection!Min({SectionCharacters, room})
    BY DEF Selection!Budget
  <1>2. \E x \in {SectionCharacters, room} : \A y \in {SectionCharacters, room} : x <= y
    OBVIOUS
  <1>3. /\ Selection!Budget \in {SectionCharacters, room}
        /\ \A y \in {SectionCharacters, room} : Selection!Budget <= y
    BY <1>1, <1>2 DEF Selection!Min
  <1> QED
    BY <1>3

(* A section that is taken adds its characters, and a blank line before it.*)
LEMMA JoinedGrows ==
  ASSUME selected \in Seq([section : candidates, characters : Nat, cut : BOOLEAN]),
         NEW entry, entry.characters \in Nat,
         selected' = Append(selected, entry)
  PROVE  Selection!Joined' = Selection!Joined + entry.characters
                               + (IF selected = <<>> THEN 0 ELSE 2)
  <1> DEFINE lengths == [i \in DOMAIN selected |-> selected[i].characters]
             longer == [i \in DOMAIN selected' |-> selected'[i].characters]
             new == Len(selected) + 1
  <1>1. DOMAIN lengths = 1..Len(selected) /\ Len(selected) \in Nat
    BY SelectedTypes
  <1>2. IsFiniteSet(DOMAIN lengths)
    BY <1>1, FS_Interval
  <1>3. \A i \in DOMAIN lengths : lengths[i] \in Nat
    BY SelectedTypes
  <1>4. /\ DOMAIN selected' = 1..new /\ selected'[new] = entry /\ Len(selected') = new
        /\ \A i \in 1..Len(selected) : selected'[i] = selected[i]
    BY <1>1
  <1>5. new \notin DOMAIN lengths /\ DOMAIN longer = DOMAIN lengths \cup {new}
    BY <1>1, <1>4
  <1>6. longer[new] = entry.characters /\ \A i \in DOMAIN lengths : longer[i] = lengths[i]
    BY <1>1, <1>4
  <1>7. /\ Selection!Joined = Selection!Total(lengths)
                               + (IF selected = <<>> THEN 0 ELSE 2 * (Len(selected) - 1))
        /\ Selection!Joined' = Selection!Total(longer)
                               + (IF selected' = <<>> THEN 0 ELSE 2 * (Len(selected') - 1))
    BY DEF Selection!Joined
  <1>8. selected' # <<>> /\ (selected = <<>> <=> Len(selected) = 0)
    BY <1>1, <1>4
  <1> HIDE DEF lengths, longer
  <1>9. Selection!Total(longer) = Selection!Total(lengths) + entry.characters
          /\ Selection!Total(lengths) \in Nat
    BY <1>2, <1>3, <1>5, <1>6, TotalGrows
  <1> QED
    BY <1>1, <1>4, <1>7, <1>8, <1>9

LEMMA CandidatesKeep ==
  ASSUME UNCHANGED <<document, selection>>
  PROVE  Selection!Candidates' = Selection!Candidates
  BY DEF Selection!Candidates, Selection!Sections, Selection!Section, Selection!Terms,
       Selection!LinesFrom, Selection!Rendered, Selection!HasCode, Selection!Tokens,
       Selection!Kept, Selection!Headings, Selection!Starts, Selection!OpenFence

LEMMA SelectionTakes ==
  ASSUME Selection!SelectionAssumption, SelectionInv, Selection!GoesOn, Selection!Room > 0,
         NEW section \in candidates, Selection!IsNext(section),
         NEW characters \in Nat, characters <= Selection!Budget, NEW isCut \in BOOLEAN,
         Selection!Take(section, characters, isCut)
  PROVE  SelectionInv'
  <1> DEFINE Entries == [section : candidates, characters : Nat, cut : BOOLEAN]
             entry == [section |-> section, characters |-> characters, cut |-> isCut]
  <1>1. /\ selected' = Append(selected, entry) /\ remaining' = Selection!Room - characters
        /\ UNCHANGED <<document, selection, candidates, full, truncated>>
    BY DEF Selection!Take
  <1>2. selected \in Seq(Entries) /\ entry \in Entries
    BY DEF SelectionInv
  <1>3. selected' \in Seq(Entries)
    BY <1>1, <1>2
  <1>4. IsAsked' /\ candidates' = Selection!Candidates'
    BY <1>1, CandidatesKeep DEF SelectionInv, IsAsked
  <1>5. ~full /\ Len(selected) < selection.maxSections /\ section \notin Selection!Taken
    BY DEF Selection!GoesOn, Selection!IsNext
  <1>6. Len(selected') = Len(selected) + 1 /\ Len(selected) \in Nat
    BY <1>1, <1>2
  <1>7. Selection!Taken' = Selection!Taken \cup {section}
    <2>1. /\ DOMAIN selected' = DOMAIN selected \cup {Len(selected) + 1}
          /\ \A i \in DOMAIN selected : selected'[i] = selected[i]
          /\ selected'[Len(selected) + 1] = entry
      BY <1>1, <1>2, SelectedTypes
    <2> QED
      BY <2>1 DEF Selection!Taken
  <1>8. Cardinality(Selection!Taken') = Len(selected')
    <2>1. IsFiniteSet(Selection!Taken)
      BY <1>2, SelectedTypes, CandidatesAreFinite, FS_Subset DEF SelectionInv
    <2> QED
      BY <1>5, <1>6, <1>7, <2>1, FS_AddElement DEF SelectionInv
  <1>10. /\ remaining = selection.maxCharacters - Selection!Joined
         /\ Selection!Joined \in Int /\ selection.maxCharacters \in Nat
    BY <1>2, <1>5, JoinedIsNumber, AskedTypes DEF SelectionInv
  <1>11. /\ remaining \in Int /\ Selection!Room \in Int
    BY <1>10 DEF Selection!Room
  <1>9. BestAreTaken'
    <2>1. /\ DOMAIN selected = 1..Len(selected) /\ DOMAIN selected' = 1..(Len(selected) + 1)
          /\ \A i \in DOMAIN selected : selected'[i] = selected[i]
          /\ selected'[Len(selected) + 1] = entry
      BY <1>1, <1>2, SelectedTypes
    <2>2. characters <= SectionCharacters
      BY <1>11, AskedTypes, BudgetIs DEF SelectionInv
    <2> SUFFICES ASSUME NEW i \in DOMAIN selected'
                 PROVE  /\ selected'[i].characters <= SectionCharacters
                        /\ \A j \in DOMAIN selected' :
                             i < j => /\ selected'[i].section # selected'[j].section
                                      /\ Selection!IsBetter(selected'[i].section, selected'[j].section)
                        /\ \A other \in candidates \ Selection!Taken' :
                             Selection!IsBetter(selected'[i].section, other)
      <3> QED
        BY <1>1, SameOrder DEF BestAreTaken
    <2>3. entry.section = section /\ entry.characters = characters
      OBVIOUS
    <2> HIDE DEF entry
    <2>4. CASE i \in DOMAIN selected
      <3>1. selected'[i] = selected[i] /\ selected[i].section \in Selection!Taken
        BY <2>1, <2>4 DEF Selection!Taken
      <3>2. /\ selected[i].characters <= SectionCharacters
            /\ \A other \in candidates \ Selection!Taken :
                 Selection!IsBetter(selected[i].section, other)
        BY <2>4 DEF SelectionInv, BestAreTaken
      <3>3. ASSUME NEW j \in DOMAIN selected', i < j
            PROVE  /\ selected[i].section # selected'[j].section
                   /\ Selection!IsBetter(selected[i].section, selected'[j].section)
        <4>1. CASE j \in DOMAIN selected
          BY <2>1, <2>4, <3>3, <4>1 DEF SelectionInv, BestAreTaken
        <4>2. CASE j = Len(selected) + 1
          BY <1>5, <2>1, <2>3, <3>1, <3>2, <4>2
        <4> QED
          BY <1>6, <2>1, <4>1, <4>2
      <3> QED
        BY <1>7, <3>1, <3>2, <3>3
    <2>5. CASE i = Len(selected) + 1
      <3>1. \A j \in DOMAIN selected' : ~(i < j)
        BY <1>6, <2>1, <2>5
      <3>2. \A other \in candidates \ Selection!Taken' : Selection!IsBetter(section, other)
        BY <1>7 DEF Selection!IsNext
      <3> QED
        BY <2>1, <2>2, <2>3, <2>5, <3>1, <3>2
    <2> QED
      BY <1>6, <2>1, <2>4, <2>5
  <1>12. entry.characters = characters
    OBVIOUS
  <1>13. Selection!Joined' = Selection!Joined + characters + (IF selected = <<>> THEN 0 ELSE 2)
    <2> HIDE DEF entry
    <2> QED
      BY <1>1, <1>2, <1>12, JoinedGrows
  <1>14. /\ remaining' = selection.maxCharacters - Selection!Joined'
         /\ Selection!Joined' <= selection.maxCharacters
    <2>1. characters <= Selection!Room
      BY <1>11, AskedTypes, BudgetIs DEF SelectionInv
    <2>2. remaining' = Selection!Room - characters
      BY <1>1
    <2>3. PICK joined : joined = Selection!Joined'
      OBVIOUS
    <2>4. joined = Selection!Joined + characters + (IF selected = <<>> THEN 0 ELSE 2)
      BY <1>13, <2>3
    <2>5. Selection!Room = selection.maxCharacters - Selection!Joined
                             - (IF selected = <<>> THEN 0 ELSE 2)
      BY <1>10 DEF Selection!Room
    <2>6. remaining' = selection.maxCharacters - joined /\ joined <= selection.maxCharacters
      <3>1. PICK room : room = Selection!Room
        OBVIOUS
      <3> QED
        BY <1>10, <2>1, <2>2, <2>4, <2>5, <3>1
    <2> QED
      BY <2>3, <2>6
  <1>15. UNCHANGED <<selection, candidates, full, truncated>>
    BY <1>1
  <1>16. truncated <=> Cardinality(candidates) > selection.maxSections
    BY <1>5 DEF SelectionInv
  <1>17. Len(selected') <= selection.maxSections
    BY <1>5, <1>6, AskedTypes DEF SelectionInv
  <1> QED
    BY <1>3, <1>4, <1>5, <1>8, <1>9, <1>14, <1>15, <1>16, <1>17 DEF SelectionInv

LEMMA SelectionStops ==
  ASSUME Selection!SelectionAssumption, SelectionInv, Selection!NoRoom
  PROVE  SelectionInv'
  <1>1. /\ full' = TRUE /\ truncated' = TRUE
        /\ UNCHANGED <<document, selection, candidates, selected>>
    BY DEF Selection!NoRoom
  <1>2. Selection!Taken # candidates
    BY DEF Selection!NoRoom, Selection!GoesOn
  <1>3. IsAsked' /\ candidates' = Selection!Candidates'
    BY <1>1, CandidatesKeep DEF SelectionInv, IsAsked
  <1>4. BestAreTaken' /\ Selection!Taken' = Selection!Taken
    BY <1>1, SameOrder DEF SelectionInv, BestAreTaken, Selection!Taken
  <1>5. Selection!Joined' = Selection!Joined
    BY <1>1 DEF Selection!Joined
  <1>6. full' \in BOOLEAN /\ truncated' \in BOOLEAN /\ full'
          /\ (truncated' <=> full' \/ Cardinality(candidates') > selection'.maxSections)
    BY <1>1
  <1> QED
    BY <1>1, <1>2, <1>3, <1>4, <1>5, <1>6 DEF SelectionInv

LEMMA SelectionStep ==
  ASSUME Selection!SelectionAssumption, SelectionInv, Selection!SelectionNext
  PROVE  SelectionInv'
  <1>1. CASE Selection!TakeWhole
    <2>1. PICK section \in candidates :
            /\ Selection!IsNext(section) /\ section.characters <= Selection!Budget
            /\ Selection!Take(section, section.characters, FALSE)
      BY <1>1 DEF Selection!TakeWhole
    <2>2. section.characters \in Nat
      BY CandidatesAreFinite DEF SelectionInv
    <2>3. Selection!GoesOn /\ Selection!Room > 0
      BY <1>1 DEF Selection!TakeWhole
    <2> QED
      BY <2>1, <2>2, <2>3, SelectionTakes
  <1>2. CASE Selection!TakeCut
    <2>1. PICK section \in candidates :
            /\ Selection!IsNext(section)
            /\ \E characters \in Selection!Truncated(Selection!Budget) :
                 Selection!Take(section, characters, TRUE)
      BY <1>2 DEF Selection!TakeCut
    <2>2. PICK characters \in Selection!Truncated(Selection!Budget) :
            Selection!Take(section, characters, TRUE)
      BY <2>1
    <2>3. Selection!GoesOn /\ Selection!Room > 0
      BY <1>2 DEF Selection!TakeCut
    <2>4. selection.maxCharacters \in Nat /\ SectionCharacters \in Nat
      BY AskedTypes DEF SelectionInv
    <2>5. Selection!Room \in Int
      BY <2>3, <2>4, JoinedIsNumber DEF SelectionInv, Selection!GoesOn, Selection!Room
    <2>6. characters \in Nat /\ characters <= Selection!Budget
      BY <2>4, <2>5, BudgetIs DEF Selection!Truncated
    <2> QED
      BY <2>1, <2>2, <2>3, <2>6, SelectionTakes
  <1> QED
    BY <1>1, <1>2, SelectionStops DEF Selection!SelectionNext

LEMMA SelectionStutter ==
  ASSUME Selection!SelectionAssumption, SelectionInv, UNCHANGED choiceVars
  PROVE  SelectionInv'
  <1>1. UNCHANGED <<document, selection, candidates, selected, remaining, full, truncated>>
    BY DEF choiceVars
  <1>2. IsAsked' /\ candidates' = Selection!Candidates'
    BY <1>1, CandidatesKeep DEF SelectionInv, IsAsked
  <1>3. BestAreTaken' /\ Selection!Taken' = Selection!Taken
    BY <1>1, SameOrder DEF SelectionInv, BestAreTaken, Selection!Taken
  <1>4. Selection!Joined' = Selection!Joined
    BY <1>1 DEF Selection!Joined
  <1> QED
    BY <1>1, <1>2, <1>3, <1>4 DEF SelectionInv

-----------------------------------------------------------------------------
(* What the invariant gives at the end.                                    *)
Whole == {selected[i].section : i \in {j \in DOMAIN selected : ~selected[j].cut}}

SaysTruncated == truncated \/ \E i \in DOMAIN selected : selected[i].cut

LEMMA TruncationIsTold ==
  ASSUME Selection!SelectionAssumption, SelectionInv, ~Selection!GoesOn
  PROVE  SaysTruncated <=> Whole # candidates
  <1>1. /\ \A i \in DOMAIN selected : selected[i].section \in candidates
        /\ Selection!Taken \subseteq candidates
        /\ DOMAIN selected = 1..Len(selected) /\ Len(selected) \in Nat
    BY SelectedTypes DEF SelectionInv
  <1>2. Whole \subseteq Selection!Taken
    BY DEF Whole, Selection!Taken
  <1>3. /\ IsFiniteSet(candidates) /\ Cardinality(candidates) \in Nat
        /\ selection.maxSections \in Nat
    BY CandidatesAreFinite, AskedTypes DEF SelectionInv
  <1>4. CASE truncated
    <2>1. CASE full
      BY <1>1, <1>2, <1>4, <2>1 DEF SelectionInv, SaysTruncated
    <2>2. CASE ~full
      <3>1. Cardinality(candidates) > Len(selected)
        BY <1>1, <1>3, <1>4, <2>2 DEF SelectionInv
      <3>2. Selection!Taken # candidates
        BY <1>1, <1>3, <3>1 DEF SelectionInv
      <3> QED
        BY <1>1, <1>2, <1>4, <3>2 DEF SaysTruncated
    <2> QED
      BY <2>1, <2>2
  <1>5. CASE \E i \in DOMAIN selected : selected[i].cut
    <2>1. PICK i \in DOMAIN selected : selected[i].cut
      BY <1>5
    <2>2. ASSUME NEW j \in DOMAIN selected, ~selected[j].cut
          PROVE  selected[j].section # selected[i].section
      <3>1. i < j \/ j < i
        BY <1>1, <2>1, <2>2
      <3> QED
        BY <3>1 DEF SelectionInv, BestAreTaken
    <2>3. selected[i].section \notin Whole
      BY <2>2 DEF Whole
    <2> QED
      BY <1>1, <1>5, <2>3 DEF SaysTruncated
  <1>6. CASE ~SaysTruncated
    <2>1. Whole = Selection!Taken
      BY <1>6 DEF Whole, Selection!Taken, SaysTruncated
    <2>2. ~full /\ Cardinality(candidates) <= selection.maxSections
      BY <1>3, <1>6 DEF SelectionInv, SaysTruncated
    <2>3. CASE ~(Len(selected) < selection.maxSections)
      <3>1. /\ Cardinality(candidates) <= Cardinality(Selection!Taken)
            /\ Cardinality(Selection!Taken) \in Nat
        BY <1>1, <1>3, <2>2, <2>3 DEF SelectionInv
      <3>2. Cardinality(Selection!Taken) = Cardinality(candidates)
        BY <1>1, <1>3, <3>1, FS_Subset
      <3> QED
        BY <1>1, <1>3, <1>6, <2>1, <3>2, FS_Subset
    <2>4. CASE Selection!Taken = candidates
      BY <1>6, <2>1, <2>4
    <2> QED
      BY <2>2, <2>3, <2>4 DEF Selection!GoesOn
  <1> QED
    BY <1>4, <1>5, <1>6 DEF SaysTruncated

(* The section of a line is that of the last start before it.              *)
LEMMA EveryLineHasItsSection ==
  ASSUME Selection!SelectionAssumption, IsAsked, NEW i \in DOMAIN document,
         Cardinality({s \in Selection!Starts : s <= i}) <= SectionCount
  PROVE  \E start \in Selection!Starts :
           /\ Selection!Section(start) \in Selection!Sections
           /\ start <= i /\ \A s \in Selection!Starts : s <= start \/ i < s
  <1> DEFINE upto == {s \in Selection!Starts : s <= i}
  <1>1. /\ Selection!Starts \subseteq Nat /\ IsFiniteSet(Selection!Starts)
        /\ i \in Nat \ {0} /\ 1 \in Selection!Starts
    BY StartsAreLines, AskedTypes
  <1>2. IsFiniteSet(upto) /\ upto \subseteq Nat /\ 1 \in upto
    <2>1. upto \subseteq Selection!Starts
      OBVIOUS
    <2> QED
      <3>1. IsFiniteSet(upto)
        <4> HIDE DEF upto
        <4> QED
          BY <1>1, <2>1, FS_Subset
      <3>2. upto \subseteq Nat
        BY <1>1, <2>1
      <3>3. 1 \in upto
        BY <1>1
      <3> QED
        BY <3>1, <3>2, <3>3
  <1>3. PICK start \in upto : \A s \in upto : start >= s
    <2> HIDE DEF upto
    <2> QED
      BY <1>2, SetHasExtremes
  <1>4. \A s \in Selection!Starts : s <= start \/ i < s
    BY <1>1, <1>3
  <1> DEFINE sooner == {y \in Selection!Starts : y < start}
  <1>5. Selection!Cardinality(sooner) < SectionCount
    <2>1. sooner \subseteq upto \ {start}
      <3>1. start \in Nat /\ start <= i
        BY <1>2, <1>3
      <3>2. ASSUME NEW y \in sooner PROVE y \in Selection!Starts /\ y <= i /\ y # start
        <4>1. y \in Nat /\ y \in Selection!Starts /\ y < start
          BY <1>1
        <4> QED
          BY <1>1, <3>1, <4>1
      <3> HIDE DEF sooner
      <3> QED
        BY <3>2
    <2>2. IsFiniteSet(upto \ {start}) /\ Cardinality(upto \ {start}) = Cardinality(upto) - 1
      <3> HIDE DEF upto
      <3> QED
        BY <1>2, <1>3, FS_RemoveElement
    <2>3. Cardinality(upto) \in Nat
      BY <1>2, FS_CardinalityType
    <2>4. IsFiniteSet(sooner) /\ Cardinality(sooner) <= Cardinality(upto \ {start})
      <3> HIDE DEF sooner, upto
      <3> QED
        BY <2>1, <2>2, FS_Subset
    <2>5. Cardinality(sooner) \in Nat /\ SectionCount \in Nat
      BY <2>4, FS_CardinalityType, AskedTypes
    <2> QED
      BY <2>2, <2>3, <2>4, <2>5, SelectionCardinality
  <1>6. start \in Selection!FirstOf(Selection!Starts, SectionCount)
    BY <1>3, <1>5 DEF Selection!FirstOf
  <1> QED
    BY <1>3, <1>4, <1>6 DEF Selection!Sections

LEMMA TermsBeforeAreFinite ==
  ASSUME Selection!SelectionAssumption, IsAsked, NEW place
  PROVE  IsFiniteSet(Selection!TermsBefore(place))
  <1> DEFINE every == [j \in DOMAIN document |->
                         Len(Selection!Kept(j, Selection!Headings).terms)]
  <1>1. Selection!TermsBefore(place) \subseteq Selection!Places(every)
    BY DEF Selection!TermsBefore
  <1>2. DOMAIN every = 1..Len(document) /\ Len(document) \in Nat
    BY AskedTypes
  <1>3. \A j \in DOMAIN every : every[j] \in Nat
    BY KeptTypes
  <1>4. IsFiniteSet(1..Len(document))
    BY <1>2, FS_Interval
  <1> HIDE DEF every
  <1>5. IsFiniteSet(Selection!Places(every))
    BY <1>2, <1>3, <1>4, PlacesAreFinite
  <1> QED
    BY <1>1, <1>5, FS_Subset

(* A term of a line is one of its section, unless as many stand before it  *)
(* or it is cut off with the end of a heading.                             *)
LEMMA TermIsInItsSection ==
  ASSUME Selection!SelectionAssumption, IsAsked, NEW start \in Selection!Starts,
         NEW i \in DOMAIN document, NEW k \in 1..Len(document[i].terms),
         start <= i, \A s \in Selection!Starts : s <= start \/ i < s,
         Cardinality(Selection!TermsBefore(<<i, k>>)) < SectionTokens,
         ~Selection!IsCutOff(<<i, k>>)
  PROVE  /\ i \in Selection!LinesFrom(start)
         /\ document[i].terms[k] \in Selection!Section(start).tokens
  <1> DEFINE lines == Selection!LinesFrom(start)
             heading == {start} \cap Selection!Headings
             lengths == [j \in lines |-> Len(Selection!Kept(j, heading).terms)]
             every == [j \in DOMAIN document |->
                         Len(Selection!Kept(j, Selection!Headings).terms)]
             place == <<i, k>>
             earlier == {o \in Selection!Places(lengths) : Selection!Precedes(o, place)}
  <1>1. /\ Selection!Starts \subseteq Nat /\ start \in 1..Len(document)
        /\ DOMAIN document = 1..Len(document) /\ Len(document) \in Nat
    BY StartsAreLines, AskedTypes
  <1>2. i \in lines /\ lines \subseteq DOMAIN document
    BY <1>1 DEF Selection!LinesFrom
  <1>3. \A j \in lines : j >= start /\ j \in Nat
    BY <1>1 DEF Selection!LinesFrom
  <1>9. \A j \in lines : Selection!Kept(j, heading) = Selection!Kept(j, Selection!Headings)
    BY <1>1, <1>2, <1>3 DEF Selection!Kept, Selection!LinesFrom, Selection!Starts
  <1>10. /\ k \in 1..Len(Selection!Kept(i, heading).terms)
         /\ Selection!Kept(i, heading).terms[k] = document[i].terms[k]
    BY KeptTypes
  <1>4. place \in Selection!Places(lengths)
    BY <1>2, <1>10, PlacesAre
  <1>5. earlier \subseteq Selection!TermsBefore(place)
    <2> SUFFICES ASSUME NEW o \in earlier PROVE o \in Selection!TermsBefore(place)
      OBVIOUS
    <2>1. PICK j \in lines :
            \E l \in 1..Len(Selection!Kept(j, heading).terms) : o = <<j, l>>
      <3>1. /\ DOMAIN lengths = lines
            /\ \A j \in lines : lengths[j] = Len(Selection!Kept(j, heading).terms)
        OBVIOUS
      <3>2. o \in Selection!Places(lengths)
        OBVIOUS
      <3> HIDE DEF lengths
      <3>3. \E j \in DOMAIN lengths : \E l \in 1..lengths[j] : o = <<j, l>>
        <4>1. \A p : p \in Selection!Places(lengths) <=>
                       \E j \in DOMAIN lengths : \E l \in 1..lengths[j] : p = <<j, l>>
          BY PlacesAre
        <4> QED
          BY <3>2, <4>1
      <3> QED
        BY <3>1, <3>3
    <2>2. o \in Selection!Places(every) /\ o[1] = j
      BY <1>2, <1>9, <2>1, PlacesAre
    <2>3. \A s \in Selection!Starts : s <= j \/ i < s
      BY <1>1, <1>3
    <2> QED
      BY <2>2, <2>3 DEF Selection!TermsBefore
  <1>6. IsFiniteSet(Selection!TermsBefore(place))
    BY TermsBeforeAreFinite
  <1>7. Selection!Cardinality(earlier) < SectionTokens
    <2> HIDE DEF earlier, place
    <2>1. IsFiniteSet(earlier) /\ Cardinality(earlier) <= Cardinality(Selection!TermsBefore(place))
      BY <1>5, <1>6, FS_Subset
    <2>2. /\ Cardinality(earlier) \in Nat /\ Cardinality(Selection!TermsBefore(place)) \in Nat
          /\ SectionTokens \in Nat
      BY <1>6, <2>1, FS_CardinalityType, AskedTypes
    <2> QED
      BY <2>1, <2>2, SelectionCardinality DEF place
  <1>8. document[i].terms[k] \in Selection!Tokens(lines, heading, SectionTokens)
    <2>1. place[1] = i /\ place[2] = k
      OBVIOUS
    <2> QED
      BY <1>4, <1>7, <1>10, <2>1 DEF Selection!Tokens
  <1> QED
    BY <1>2, <1>8, SectionIsTyped

LEMMA SelectionProperty ==
  ASSUME Selection!SelectionAssumption, SelectionInv
  PROVE  Selection!SelectionIsHonest
  <1> SUFFICES ASSUME ~Selection!GoesOn PROVE Selection!SelectionIsHonest
    BY DEF Selection!SelectionIsHonest
  <1>1. SaysTruncated <=> Whole # candidates
    BY TruncationIsTold
  <1>2. ASSUME NEW place \in Selection!Places([i \in DOMAIN document |-> Len(document[i].terms)]),
               document[place[1]].terms[place[2]] \in Selection!Terms, ~SaysTruncated
        PROVE  \/ \E section \in Whole : place[1] \in section.lines
               \/ Selection!IsCutOff(place)
               \/ Selection!Cardinality({s \in Selection!Starts : s <= place[1]}) > SectionCount
               \/ Selection!Cardinality(Selection!TermsBefore(place)) >= SectionTokens
    <2>1. PICK i \in DOMAIN document : \E k \in 1..Len(document[i].terms) : place = <<i, k>>
      BY PlacesAre
    <2>2. PICK k \in 1..Len(document[i].terms) : place = <<i, k>>
      BY <2>1
    <2> DEFINE upto == {s \in Selection!Starts : s <= i}
    <2>3. IsAsked /\ SectionCount \in Nat /\ SectionTokens \in Nat
      BY AskedTypes DEF SelectionInv
    <2>4. Cardinality(upto) \in Nat /\ Cardinality(Selection!TermsBefore(place)) \in Nat
      <3>1. IsFiniteSet(upto)
        <4>1. upto \subseteq Selection!Starts /\ IsFiniteSet(Selection!Starts)
          BY <2>3, StartsAreLines
        <4> HIDE DEF upto
        <4> QED
          BY <4>1, FS_Subset
      <3> HIDE DEF upto
      <3> QED
        BY <2>3, <3>1, TermsBeforeAreFinite, FS_CardinalityType
    <2>5. CASE Cardinality(upto) > SectionCount
      BY <2>2, <2>5, SelectionCardinality
    <2>6. CASE Cardinality(Selection!TermsBefore(place)) >= SectionTokens
      BY <2>6, SelectionCardinality
    <2>7. CASE /\ Cardinality(upto) <= SectionCount
               /\ Cardinality(Selection!TermsBefore(<<i, k>>)) < SectionTokens
               /\ ~Selection!IsCutOff(<<i, k>>)
      <3>1. PICK start \in Selection!Starts :
              /\ Selection!Section(start) \in Selection!Sections
              /\ start <= i /\ \A s \in Selection!Starts : s <= start \/ i < s
        BY <2>3, <2>7, EveryLineHasItsSection
      <3>2. /\ i \in Selection!Section(start).lines
            /\ document[i].terms[k] \in Selection!Section(start).tokens
        BY <2>3, <2>7, <3>1, TermIsInItsSection, SectionIsTyped
      <3>3. document[i].terms[k] \in Selection!Terms
        BY <1>2, <2>2
      <3>4. Selection!Section(start) \in Selection!Candidates
        BY <3>1, <3>2, <3>3 DEF Selection!Candidates
      <3>5. Selection!Section(start) \in Whole
        BY <1>1, <1>2, <3>4 DEF SelectionInv
      <3> QED
        BY <2>2, <3>2, <3>5
    <2> QED
      BY <2>2, <2>3, <2>4, <2>5, <2>6, <2>7
  <1>3. /\ Selection!Joined <= selection.maxCharacters
        /\ \A i \in DOMAIN selected :
             /\ selected[i].characters <= SectionCharacters
             /\ \A j \in DOMAIN selected :
                  i < j => Selection!IsBetter(selected[i].section, selected[j].section)
             /\ \A other \in candidates \ Selection!Taken :
                  Selection!IsBetter(selected[i].section, other)
    BY DEF SelectionInv, BestAreTaken
  <1> QED
    BY <1>1, <1>2, <1>3 DEF Selection!SelectionIsHonest, Whole, SaysTruncated

(***************************************************************************)
(* The snippets                                                            *)
(***************************************************************************)
LEMMA SnippetCardinality == \A S : Extracts!Cardinality(S) = Cardinality(S)
  BY Zenon DEF Extracts!Cardinality, Cardinality

LEMMA PassageTypes ==
  ASSUME Extracts!SnippetAssumption, passage \in Passages
  PROVE  /\ Len(passage) \in Nat \ {0} /\ DOMAIN passage = 1..Len(passage)
         /\ SnippetRadius \in Nat \ {0}
         /\ \A i \in 1..Len(passage) : Extracts!Units(passage[i]) \in Nat \ {0}
  <1>1. /\ passage \in Seq(Extracts!Range(passage)) /\ passage # <<>>
        /\ \A i \in DOMAIN passage : passage[i].characters \in Nat \ {0}
    BY DEF Extracts!SnippetAssumption
  <1>2. Len(passage) \in Nat \ {0} /\ DOMAIN passage = 1..Len(passage)
    BY <1>1
  <1>3. ASSUME NEW i \in 1..Len(passage) PROVE Extracts!Units(passage[i]) \in Nat \ {0}
    <2>1. PICK characters \in Nat \ {0} : characters = passage[i].characters
      BY <1>1, <1>2
    <2>2. /\ 2 * characters \in Nat \ {0}
          /\ Extracts!Units(passage[i]) \in {characters, 2 * characters}
      BY <2>1 DEF Extracts!Units
    <2> QED
      BY <2>1, <2>2
  <1> QED
    BY <1>2, <1>3 DEF Extracts!SnippetAssumption

(* A word begins after those before it, with a space between two of them.  *)
LEMMA UnitsAreFinite ==
  ASSUME Extracts!SnippetAssumption, passage \in Passages,
         NEW i \in Int, i <= Len(passage) + 1
  PROVE  IsFiniteSet(Extracts!UnitsBefore(i))
  <1> DEFINE rows == [j \in 1..(i - 1) |-> {j} \X (0..Extracts!Units(passage[j]))]
             all == {rows[j] : j \in DOMAIN rows}
  <1>1. IsFiniteSet(all)
    <2>1. rows = [x \in DOMAIN rows |-> rows[x]] /\ DOMAIN rows = 1..(i - 1)
      OBVIOUS
    <2>2. IsFiniteSet(1..(i - 1))
      BY FS_Interval
    <2> HIDE DEF rows
    <2> QED
      BY <2>1, <2>2, ImageIsFinite
  <1>2. ASSUME NEW j \in 1..(i - 1) PROVE IsFiniteSet({j} \X (0..Extracts!Units(passage[j])))
    <2>1. Extracts!Units(passage[j]) \in Nat
      BY PassageTypes
    <2>2. IsFiniteSet(0..Extracts!Units(passage[j]))
      BY <2>1, FS_Interval
    <2>3. IsFiniteSet({j})
      BY FS_Singleton
    <2> QED
      BY <2>2, <2>3, FS_Product
  <1>3. \A T \in all : IsFiniteSet(T)
    BY <1>2
  <1>4. Extracts!UnitsBefore(i) = UNION all
    BY DEF Extracts!UnitsBefore
  <1> HIDE DEF all
  <1> QED
    BY <1>1, <1>3, <1>4, FS_UNION

LEMMA StartsAreNumbers ==
  ASSUME Extracts!SnippetAssumption, passage \in Passages
  PROVE  /\ \A i \in 1..(Len(passage) + 1) : Extracts!StartOf(i) \in Nat
         /\ \A i \in 1..Len(passage) : Extracts!EndOf(i) \in Nat
         /\ Extracts!StartOf(1) = 0
  <1>1. ASSUME NEW i \in 1..(Len(passage) + 1) PROVE Extracts!StartOf(i) \in Nat
    <2>1. IsFiniteSet(Extracts!UnitsBefore(i))
      BY PassageTypes, UnitsAreFinite
    <2> QED
      BY <2>1, FS_CardinalityType, SnippetCardinality DEF Extracts!StartOf
  <1>2. Extracts!UnitsBefore(1) = {}
    BY DEF Extracts!UnitsBefore
  <1>3. \A i \in 1..Len(passage) : Extracts!EndOf(i) \in Nat
    BY <1>1, PassageTypes DEF Extracts!EndOf
  <1> QED
    BY <1>1, <1>2, <1>3, FS_EmptySet, SnippetCardinality DEF Extracts!StartOf

LEMMA NextStart ==
  ASSUME Extracts!SnippetAssumption, passage \in Passages, NEW i \in 1..Len(passage)
  PROVE  Extracts!StartOf(i + 1) = Extracts!EndOf(i) + 1
  <1> DEFINE P == Extracts!UnitsBefore(i)
             units == Extracts!Units(passage[i])
             B == 0..units
             N == {i} \X B
  <1>1. units \in Nat /\ i \in Nat /\ Len(passage) \in Nat
    BY PassageTypes
  <1>2. Extracts!UnitsBefore(i + 1) = P \cup N
    <2>1. 1..((i + 1) - 1) = (1..(i - 1)) \cup {i}
      BY <1>1
    <2> QED
      BY <2>1 DEF Extracts!UnitsBefore
  <1>3. P \cap N = {}
    BY <1>1 DEF Extracts!UnitsBefore
  <1>4. IsFiniteSet(P) /\ Cardinality(P) \in Nat
    BY <1>1, UnitsAreFinite, FS_CardinalityType
  <1>5. IsFiniteSet(N) /\ Cardinality(N) = units + 1
    <2>1. IsFiniteSet(B) /\ Cardinality(B) = units + 1
      <3>1. units \in Int /\ 0 \in Int /\ ~(0 > units) /\ units - 0 + 1 = units + 1
        BY <1>1
      <3> HIDE DEF units
      <3>2. /\ IsFiniteSet(0..units)
            /\ Cardinality(0..units) = IF 0 > units THEN 0 ELSE units - 0 + 1
        BY <3>1, FS_Interval
      <3> QED
        BY <3>1, <3>2
    <2>2. IsFiniteSet({i}) /\ Cardinality({i}) = 1
      BY FS_Singleton
    <2> HIDE DEF B
    <2>3. IsFiniteSet(N) /\ Cardinality(N) = Cardinality({i}) * Cardinality(B)
      BY <2>1, <2>2, FS_Product
    <2> HIDE DEF N, units
    <2> QED
      BY <1>1, <2>1, <2>2, <2>3
  <1> HIDE DEF P, N
  <1>6. Cardinality(P \cup N) = Cardinality(P) + Cardinality(N) - Cardinality(P \cap N)
    BY <1>4, <1>5, FS_Union
  <1>7. Cardinality(P \cap N) = 0
    BY <1>3, FS_EmptySet
  <1>8. Extracts!StartOf(i + 1) = Cardinality(P) + units + 1
    <2>1. Extracts!StartOf(i + 1) = Cardinality(P \cup N)
      BY <1>2, SnippetCardinality DEF Extracts!StartOf
    <2> HIDE DEF units
    <2> QED
      BY <1>1, <1>4, <1>5, <1>6, <1>7, <2>1
  <1> QED
    BY <1>1, <1>4, <1>8, SnippetCardinality DEF Extracts!StartOf, Extracts!EndOf, P

LEMMA StartsInOrder ==
  ASSUME Extracts!SnippetAssumption, passage \in Passages,
         NEW i \in 1..Len(passage), NEW j \in 1..Len(passage), i < j
  PROVE  Extracts!EndOf(i) < Extracts!StartOf(j)
  <1>1. i + 1 <= j /\ Len(passage) \in Nat
    BY PassageTypes
  <1>2. Extracts!UnitsBefore(i + 1) \subseteq Extracts!UnitsBefore(j)
    <2>1. 1..((i + 1) - 1) \subseteq 1..(j - 1)
      BY <1>1
    <2> QED
      BY <2>1 DEF Extracts!UnitsBefore
  <1>3. IsFiniteSet(Extracts!UnitsBefore(j))
    BY <1>1, UnitsAreFinite
  <1>4. Cardinality(Extracts!UnitsBefore(i + 1)) <= Cardinality(Extracts!UnitsBefore(j))
    BY <1>2, <1>3, FS_Subset
  <1>5. Extracts!StartOf(i + 1) <= Extracts!StartOf(j)
    BY <1>4, SnippetCardinality DEF Extracts!StartOf
  <1>6. Extracts!StartOf(i + 1) = Extracts!EndOf(i) + 1
    BY NextStart
  <1>7. Extracts!EndOf(i) \in Nat
    BY StartsAreNumbers
  <1>8. Extracts!StartOf(j) \in Nat
    BY <1>1, StartsAreNumbers
  <1> QED
    BY <1>5, <1>6, <1>7, <1>8

(* What a position is.                                                     *)
LEMMA WordsAreApart ==
  ASSUME Extracts!SnippetAssumption, passage \in Passages,
         NEW i \in 1..Len(passage), NEW j \in 1..Len(passage), NEW p \in Int,
         p \in Extracts!StartOf(i)..Extracts!EndOf(i), p \in Extracts!StartOf(j)..Extracts!EndOf(j)
  PROVE  i = j
  <1>1. i < j \/ j < i \/ i = j
    BY PassageTypes
  <1>2. /\ Extracts!StartOf(i) \in Nat /\ Extracts!StartOf(j) \in Nat
        /\ Extracts!EndOf(i) \in Nat /\ Extracts!EndOf(j) \in Nat
    BY PassageTypes, StartsAreNumbers
  <1>3. i < j => Extracts!EndOf(i) < Extracts!StartOf(j)
    BY StartsInOrder
  <1>4. j < i => Extracts!EndOf(j) < Extracts!StartOf(i)
    BY StartsInOrder
  <1> QED
    BY <1>1, <1>2, <1>3, <1>4

LEMMA Parity ==
  ASSUME NEW x \in Int, x % 2 = 1
  PROVE  (x - 1) % 2 # 1 /\ (x + 1) % 2 # 1 /\ x # 0
  OBVIOUS

LEMMA InsidePairs ==
  ASSUME Extracts!SnippetAssumption, passage \in Passages,
         NEW p \in Int, Extracts!InsidePair(p)
  PROVE  /\ p > 0 /\ p < Extracts!ContentLength
         /\ ~Extracts!InsidePair(p - 1) /\ ~Extracts!InsidePair(p + 1)
         /\ ~Extracts!IsSpace(p)
  <1>1. PICK i \in 1..Len(passage) :
          /\ passage[i].pairs /\ p \in Extracts!StartOf(i)..(Extracts!EndOf(i) - 1)
          /\ (p - Extracts!StartOf(i)) % 2 = 1
    BY PassageTypes DEF Extracts!InsidePair
  <1>2. /\ Extracts!StartOf(i) \in Nat /\ Extracts!EndOf(i) \in Nat
        /\ DOMAIN passage = 1..Len(passage)
    BY PassageTypes, StartsAreNumbers
  <1>3. p # Extracts!StartOf(i) /\ p > Extracts!StartOf(i)
    BY <1>1, <1>2, Parity
  <1>4. ASSUME NEW q \in {p - 1, p + 1} PROVE ~Extracts!InsidePair(q)
    <2>1. SUFFICES ASSUME NEW j \in 1..Len(passage),
                          q \in Extracts!StartOf(j)..(Extracts!EndOf(j) - 1),
                          (q - Extracts!StartOf(j)) % 2 = 1
                   PROVE  FALSE
      BY <1>2 DEF Extracts!InsidePair
    <2>2. Extracts!StartOf(j) \in Nat /\ Extracts!EndOf(j) \in Nat
      BY <1>2, StartsAreNumbers
    <2>3. q \in Extracts!StartOf(i)..Extracts!EndOf(i)
      BY <1>1, <1>2, <1>3
    <2>4. i = j
      BY <1>2, <2>1, <2>2, <2>3, WordsAreApart
    <2>5. PICK x \in Int : x = p - Extracts!StartOf(i)
      BY <1>2
    <2>6. x % 2 = 1
      BY <1>1, <2>5
    <2>7. q - Extracts!StartOf(i) = x - 1 \/ q - Extracts!StartOf(i) = x + 1
      BY <1>2, <2>5
    <2> QED
      BY <2>1, <2>4, <2>6, <2>7, Parity
  <1>5. ~Extracts!IsSpace(p)
    <2>1. SUFFICES ASSUME NEW j \in 1..Len(passage), p = Extracts!EndOf(j) PROVE FALSE
      BY <1>2 DEF Extracts!IsSpace
    <2>2. /\ Extracts!StartOf(j) \in Nat /\ Extracts!EndOf(j) \in Nat
          /\ Extracts!Units(passage[j]) \in Nat
      BY <1>2, StartsAreNumbers, PassageTypes
    <2>3. p \in Extracts!StartOf(j)..Extracts!EndOf(j)
      BY <2>1, <2>2 DEF Extracts!EndOf
    <2>4. i = j
      BY <1>1, <1>2, <2>3, WordsAreApart
    <2> QED
      BY <1>1, <1>2, <2>1, <2>4
  <1>6. p < Extracts!ContentLength
    <2>1. Len(passage) \in 1..Len(passage) /\ i <= Len(passage)
      BY PassageTypes
    <2>2. /\ Extracts!StartOf(Len(passage)) \in Nat /\ Extracts!EndOf(Len(passage)) \in Nat
          /\ Extracts!Units(passage[Len(passage)]) \in Nat
      BY <2>1, StartsAreNumbers, PassageTypes
    <2>3. Extracts!EndOf(i) <= Extracts!EndOf(Len(passage))
      <3>1. CASE i = Len(passage)
        BY <1>2, <3>1
      <3>2. CASE i < Len(passage)
        <4>1. Extracts!EndOf(i) < Extracts!StartOf(Len(passage))
          BY <2>1, <3>2, StartsInOrder
        <4> QED
          BY <1>2, <2>2, <4>1 DEF Extracts!EndOf
      <3> QED
        BY <2>1, <3>1, <3>2
    <2> QED
      BY <1>1, <1>2, <2>2, <2>3 DEF Extracts!ContentLength
  <1> QED
    BY <1>2, <1>3, <1>4, <1>5, <1>6

LEMMA WordStarts ==
  ASSUME Extracts!SnippetAssumption, passage \in Passages, NEW i \in DOMAIN passage
  PROVE  /\ Extracts!StartOf(i) \in Nat /\ Extracts!StartOf(i) < Extracts!ContentLength
         /\ ~Extracts!InsidePair(Extracts!StartOf(i)) /\ ~Extracts!IsSpace(Extracts!StartOf(i))
         /\ Extracts!StartOf(i) > 0 => Extracts!IsSpace(Extracts!StartOf(i) - 1)
         /\ Extracts!ContentLength \in Nat /\ ~Extracts!InsidePair(Extracts!ContentLength)
         /\ ~Extracts!InsidePair(0)
  <1> DEFINE n == Len(passage)
             p == Extracts!StartOf(i)
  <1>1. /\ i \in 1..n /\ n \in Nat \ {0} /\ n \in 1..n /\ DOMAIN passage = 1..n
        /\ 1 \in 1..n
    BY PassageTypes
  <1>2. \A j \in 1..n : /\ Extracts!StartOf(j) \in Nat /\ Extracts!EndOf(j) \in Nat
                        /\ Extracts!StartOf(j) < Extracts!EndOf(j)
    <2> SUFFICES ASSUME NEW j \in 1..n
                 PROVE  /\ Extracts!StartOf(j) \in Nat /\ Extracts!EndOf(j) \in Nat
                        /\ Extracts!StartOf(j) < Extracts!EndOf(j)
      OBVIOUS
    <2>1. Extracts!StartOf(j) \in Nat /\ Extracts!EndOf(j) \in Nat
      BY <1>1, StartsAreNumbers
    <2>2. Extracts!Units(passage[j]) \in Nat \ {0}
      BY PassageTypes
    <2> QED
      BY <2>1, <2>2 DEF Extracts!EndOf
  <1>3. \A j \in 1..n : ~Extracts!InsidePair(Extracts!StartOf(j))
    <2> SUFFICES ASSUME NEW j \in 1..n, NEW k \in 1..n,
                        Extracts!StartOf(j) \in Extracts!StartOf(k)..(Extracts!EndOf(k) - 1),
                        (Extracts!StartOf(j) - Extracts!StartOf(k)) % 2 = 1
                 PROVE  FALSE
      BY <1>1 DEF Extracts!InsidePair
    <2>1. j = k
      <3>1. PICK q \in Int : q = Extracts!StartOf(j)
        BY <1>2
      <3>2. q \in Extracts!StartOf(j)..Extracts!EndOf(j)
        BY <1>2, <3>1
      <3>3. q \in Extracts!StartOf(k)..Extracts!EndOf(k)
        BY <1>2, <3>1
      <3> QED
        BY <3>2, <3>3, WordsAreApart
    <2>2. PICK s \in Nat : s = Extracts!StartOf(j)
      BY <1>2
    <2> QED
      BY <2>1, <2>2, Parity
  <1>4. ~Extracts!IsSpace(p)
    <2> SUFFICES ASSUME NEW j \in 1..n, p = Extracts!EndOf(j) PROVE FALSE
      BY <1>1 DEF Extracts!IsSpace
    <2>1. i = j
      BY <1>1, <1>2, WordsAreApart
    <2> QED
      BY <1>2, <2>1
  <1>5. p > 0 => Extracts!IsSpace(p - 1)
    <2> SUFFICES ASSUME p > 0 PROVE Extracts!IsSpace(p - 1)
      OBVIOUS
    <2>1. i # 1
      BY StartsAreNumbers
    <2>2. i - 1 \in 1..n /\ (i - 1) + 1 = i
      BY <1>1, <2>1
    <2>3. p = Extracts!EndOf(i - 1) + 1
      BY <2>2, NextStart
    <2> QED
      BY <1>1, <1>2, <2>2, <2>3 DEF Extracts!IsSpace
  <1>6. Extracts!ContentLength \in Nat
    BY <1>1, <1>2 DEF Extracts!ContentLength
  <1>7. ~Extracts!InsidePair(Extracts!ContentLength)
    BY <1>6, InsidePairs
  <1>8. p < Extracts!ContentLength
    <2>1. CASE i = n
      BY <1>1, <1>2, <2>1 DEF Extracts!ContentLength
    <2>2. CASE i < n
      <3>1. Extracts!EndOf(i) < Extracts!StartOf(n)
        BY <1>1, <2>2, StartsInOrder
      <3> QED
        BY <1>1, <1>2, <3>1 DEF Extracts!ContentLength
    <2> QED
      BY <1>1, <2>1, <2>2
  <1>9. ~Extracts!InsidePair(0)
    BY <1>1, <1>3, StartsAreNumbers
  <1> QED
    BY <1>1, <1>2, <1>3, <1>4, <1>5, <1>6, <1>7, <1>8, <1>9

(* Characters of a range.                                                  *)
LEMMA CharactersAre ==
  ASSUME NEW from \in Int, NEW to \in Int
  PROVE  /\ Extracts!Characters(from, to) \in Nat
         /\ to <= from => Extracts!Characters(from, to) = 0
         /\ from <= to => Extracts!Characters(from, to + 1) =
              Extracts!Characters(from, to) + (IF Extracts!InsidePair(to) THEN 0 ELSE 1)
  <1> DEFINE range == {p \in from..(to - 1) : ~Extracts!InsidePair(p)}
             longer == {p \in from..to : ~Extracts!InsidePair(p)}
  <1>1. IsFiniteSet(range)
    <2>1. IsFiniteSet(from..(to - 1)) /\ range \subseteq from..(to - 1)
      BY FS_Interval
    <2> QED
      BY <2>1, FS_Subset
  <1>2. Extracts!Characters(from, to) = Cardinality(range)
    BY SnippetCardinality DEF Extracts!Characters
  <1>3. Cardinality(range) \in Nat
    BY <1>1, FS_CardinalityType
  <1>4. to <= from => range = {}
    OBVIOUS
  <1>5. Extracts!Characters(from, to + 1) = Cardinality(longer)
    <2>1. (to + 1) - 1 = to
      OBVIOUS
    <2> QED
      BY <2>1, SnippetCardinality DEF Extracts!Characters
  <1>6. from <= to => longer = IF Extracts!InsidePair(to) THEN range ELSE range \cup {to}
    <2>1. from <= to => from..to = (from..(to - 1)) \cup {to}
      OBVIOUS
    <2> QED
      BY <2>1
  <1>7. to \notin range
    OBVIOUS
  <1> HIDE DEF range, longer
  <1>8. Cardinality(range \cup {to}) = Cardinality(range) + 1
    BY <1>1, <1>7, FS_AddElement
  <1> QED
    BY <1>2, <1>3, <1>4, <1>5, <1>6, <1>8, FS_EmptySet

LEMMA CharactersGrow ==
  ASSUME NEW from \in Int, NEW to \in Int, NEW more \in Int, to <= more
  PROVE  Extracts!Characters(from, to) <= Extracts!Characters(from, more)
  <1> DEFINE range == {p \in from..(to - 1) : ~Extracts!InsidePair(p)}
             longer == {p \in from..(more - 1) : ~Extracts!InsidePair(p)}
  <1>1. IsFiniteSet(longer)
    <2>1. IsFiniteSet(from..(more - 1)) /\ longer \subseteq from..(more - 1)
      BY FS_Interval
    <2> QED
      BY <2>1, FS_Subset
  <1>2. range \subseteq longer
    OBVIOUS
  <1>3. /\ Extracts!Characters(from, to) = Cardinality(range)
        /\ Extracts!Characters(from, more) = Cardinality(longer)
    BY SnippetCardinality DEF Extracts!Characters
  <1> HIDE DEF range, longer
  <1> QED
    BY <1>1, <1>2, <1>3, FS_Subset

(* The second half of a pair begins no character.                          *)
LEMMA CharactersAreFew ==
  ASSUME NEW from \in Int, NEW to \in Int, from <= to
  PROVE  /\ Extracts!Characters(from, to) <= to - from
         /\ \A q \in from..(to - 1) :
              Extracts!InsidePair(q) => Extracts!Characters(from, to) <= to - from - 1
  <1> DEFINE range == {p \in from..(to - 1) : ~Extracts!InsidePair(p)}
             all == from..(to - 1)
  <1>1. IsFiniteSet(all) /\ Cardinality(all) = to - from
    <2>1. from \in Int /\ to - 1 \in Int /\ (from > to - 1 => to - from = 0)
          /\ (to - 1) - from + 1 = to - from
      OBVIOUS
    <2>2. /\ IsFiniteSet(from..(to - 1))
          /\ Cardinality(from..(to - 1)) = IF from > to - 1 THEN 0 ELSE (to - 1) - from + 1
      BY <2>1, FS_Interval
    <2> QED
      BY <2>1, <2>2
  <1>2. range \subseteq all
    OBVIOUS
  <1>3. \A q \in all : Extracts!InsidePair(q) => range \subseteq all \ {q}
    OBVIOUS
  <1>4. Extracts!Characters(from, to) = Cardinality(range)
    BY SnippetCardinality DEF Extracts!Characters
  <1>5. all = from..(to - 1)
    OBVIOUS
  <1> HIDE DEF range, all
  <1>6. Cardinality(range) <= Cardinality(all) /\ Cardinality(range) \in Nat
    BY <1>1, <1>2, FS_Subset, FS_CardinalityType
  <1>7. ASSUME NEW q \in all, Extracts!InsidePair(q)
        PROVE  Cardinality(range) <= to - from - 1
    <2>1. IsFiniteSet(all \ {q}) /\ Cardinality(all \ {q}) = Cardinality(all) - 1
      BY <1>1, FS_RemoveElement
    <2>2. Cardinality(range) <= Cardinality(all \ {q})
      BY <1>3, <1>7, <2>1, FS_Subset
    <2> QED
      BY <1>1, <1>6, <2>1, <2>2
  <1> QED
    BY <1>1, <1>4, <1>5, <1>6, <1>7

(* A text too long has a place to be cut at.                               *)
LEMMA CutIsThere ==
  ASSUME Extracts!SnippetAssumption, passage \in Passages,
         NEW from \in Nat, NEW to \in Int, NEW n \in Nat \ {0}, ~Extracts!InsidePair(to),
         Extracts!Characters(from, to) > n
  PROVE  \E p \in from..to : Extracts!Characters(from, p) = n /\ ~Extracts!InsidePair(p)
  <1> DEFINE far == {p \in from..to : Extracts!Characters(from, p) >= n}
  <1>1. from < to
    BY CharactersAre
  <1>2. to \in far /\ IsFiniteSet(far) /\ far \subseteq Nat
    <2>1. to \in far /\ far \subseteq from..to /\ from..to \subseteq Nat
      <3>1. Extracts!Characters(from, to) \in Nat
        BY CharactersAre
      <3> QED
        BY <1>1, <3>1
    <2>2. IsFiniteSet(from..to)
      BY FS_Interval
    <2> QED
      BY <2>1, <2>2, FS_Subset
  <1>3. PICK p \in far : \A q \in far : p <= q
    <2> HIDE DEF far
    <2> QED
      BY <1>2, SetHasExtremes
  <1>4. p \in from..to /\ Extracts!Characters(from, p) >= n
    BY <1>3
  <1>5. p > from
    BY <1>4, CharactersAre
  <1>6. p - 1 \in from..to /\ Extracts!Characters(from, p - 1) < n
    <2>1. p - 1 \in from..to /\ p - 1 \notin far
      BY <1>3, <1>4, <1>5
    <2> QED
      BY <2>1, CharactersAre
  <1>7. Extracts!Characters(from, p) = n
    <2>0. PICK last \in Int : last = p - 1 /\ from <= last
      BY <1>6
    <2>1. /\ Extracts!Characters(from, p - 1) \in Nat
          /\ Extracts!Characters(from, (p - 1) + 1) =
               Extracts!Characters(from, p - 1) + (IF Extracts!InsidePair(p - 1) THEN 0 ELSE 1)
      <3>1. /\ Extracts!Characters(from, last) \in Nat
            /\ Extracts!Characters(from, last + 1) =
                 Extracts!Characters(from, last) + (IF Extracts!InsidePair(last) THEN 0 ELSE 1)
        <4>1. from \in Int /\ last \in Int /\ from <= last
          BY <2>0
        <4> QED
          BY <4>1, CharactersAre
      <3> QED
        BY <2>0, <3>1
    <2>2. (p - 1) + 1 = p
      BY <1>4
    <2> QED
      BY <1>4, <1>6, <2>1, <2>2
  <1>8. CASE Extracts!InsidePair(p)
    <2>1. p # to
      BY <1>8
    <2>2. p + 1 \in from..to
      BY <1>4, <2>1
    <2>3. ~Extracts!InsidePair(p + 1)
      BY <1>4, <1>8, InsidePairs
    <2>4. Extracts!Characters(from, p + 1) = n
      BY <1>4, <1>7, <1>8, CharactersAre
    <2> QED
      BY <2>2, <2>3, <2>4
  <1> QED
    BY <1>4, <1>7, <1>8

LEMMA ExtremesOfTwo ==
  ASSUME NEW a \in Int, NEW b \in Int
  PROVE  /\ Extracts!Max({a, b}) = IF a >= b THEN a ELSE b
         /\ Extracts!Min({a, b}) = IF a <= b THEN a ELSE b
  <1>1. /\ \E x \in {a, b} : \A y \in {a, b} : x >= y
        /\ \E x \in {a, b} : \A y \in {a, b} : x <= y
    OBVIOUS
  <1>2. /\ Extracts!Max({a, b}) \in {a, b} /\ \A y \in {a, b} : Extracts!Max({a, b}) >= y
        /\ Extracts!Min({a, b}) \in {a, b} /\ \A y \in {a, b} : Extracts!Min({a, b}) <= y
    BY <1>1 DEF Extracts!Max, Extracts!Min
  <1> QED
    BY <1>2

(* A window holds the occurrence it is for, at most SnippetRadius after its*)
(* start, or else it reaches the end.                                      *)
LEMMA WindowsReachBack ==
  ASSUME Extracts!SnippetAssumption, passage \in Passages,
         NEW position \in Nat, position < Extracts!ContentLength, Extracts!ContentLength \in Nat
  PROVE  /\ Extracts!WindowStart(position) \in Nat
         /\ Extracts!WindowStart(position) <= position
         /\ position < Extracts!WindowStart(position) + 2 * SnippetRadius
         /\ \/ Extracts!ContentLength <= Extracts!WindowStart(position) + 2 * SnippetRadius
            \/ position - Extracts!WindowStart(position) <= SnippetRadius
  <1>1. SnippetRadius \in Nat \ {0}
    BY PassageTypes
  <1>2. PICK r \in Nat \ {0}, l \in Nat : r = SnippetRadius /\ l = Extracts!ContentLength
    BY <1>1
  <1>3. PICK x \in Int, y \in Int : x = position - r /\ y = l - 2 * r
    OBVIOUS
  <1>4. PICK u \in Int, v \in Int : /\ u = Extracts!Max({0, x}) /\ u = (IF 0 >= x THEN 0 ELSE x)
                                    /\ v = Extracts!Max({0, y}) /\ v = (IF 0 >= y THEN 0 ELSE y)
    BY ExtremesOfTwo
  <1>5. Extracts!WindowStart(position) = Extracts!Min({u, v})
    BY <1>2, <1>3, <1>4 DEF Extracts!WindowStart, Extracts!SnippetLength
  <1>6. Extracts!WindowStart(position) = IF u <= v THEN u ELSE v
    BY <1>5, ExtremesOfTwo
  <1> QED
    BY <1>2, <1>3, <1>4, <1>6

(* A space is cut off, and no word with it.                                *)
LEMMA TrimmedIs ==
  ASSUME Extracts!SnippetAssumption, passage \in Passages,
         NEW end \in Int, ~Extracts!InsidePair(end)
  PROVE  /\ Extracts!Trimmed(end) \in Int
         /\ Extracts!Trimmed(end) <= end
         /\ ~Extracts!InsidePair(Extracts!Trimmed(end))
         /\ \A i \in DOMAIN passage :
              Extracts!StartOf(i) < end => Extracts!StartOf(i) < Extracts!Trimmed(end)
  <1>1. CASE Extracts!IsSpace(end - 1)
    <2>1. PICK last \in Int : last = end - 1
      OBVIOUS
    <2>2. Extracts!Trimmed(end) = last /\ Extracts!IsSpace(last)
      BY <1>1, <2>1 DEF Extracts!Trimmed
    <2>3. ~Extracts!InsidePair(last)
      BY <2>2, InsidePairs
    <2>4. \A i \in DOMAIN passage : Extracts!StartOf(i) \in Nat /\ Extracts!StartOf(i) # last
      BY <2>2, WordStarts
    <2> QED
      BY <2>1, <2>2, <2>3, <2>4
  <1>2. CASE ~Extracts!IsSpace(end - 1)
    BY <1>2 DEF Extracts!Trimmed
  <1> QED
    BY <1>1, <1>2

LEMMA BoundariesArePrevious ==
  ASSUME Extracts!SnippetAssumption, passage \in Passages, NEW position \in Nat
  PROVE  /\ Extracts!PreviousUnicodeBoundary(position) \in Nat
         /\ Extracts!PreviousUnicodeBoundary(position) \in {position - 1, position}
         /\ ~Extracts!InsidePair(Extracts!PreviousUnicodeBoundary(position))
         /\ Extracts!PreviousUnicodeBoundary(position) # position => Extracts!InsidePair(position)
         /\ ~Extracts!InsidePair(position) =>
              Extracts!PreviousUnicodeBoundary(position) = position
  <1>1. CASE Extracts!InsidePair(position)
    <2>1. PICK last \in Int : last = position - 1
      OBVIOUS
    <2>2. position > 0 /\ ~Extracts!InsidePair(position - 1)
      BY <1>1, InsidePairs
    <2>3. Extracts!PreviousUnicodeBoundary(position) = last
      BY <1>1, <2>1 DEF Extracts!PreviousUnicodeBoundary
    <2> QED
      BY <1>1, <2>1, <2>2, <2>3
  <1>2. CASE ~Extracts!InsidePair(position)
    BY <1>2 DEF Extracts!PreviousUnicodeBoundary
  <1> QED
    BY <1>1, <1>2

(* What is shown of a window: the occurrence it is for, and no more        *)
(* characters than a snippet has.                                          *)
LEMMA CutsKeepTheWord ==
  ASSUME Extracts!SnippetAssumption, passage \in Passages,
         NEW i \in DOMAIN passage, NEW window \in Nat, NEW start \in Nat, NEW from \in Nat,
         NEW end \in Int, NEW cut \in Int,
         window = Extracts!WindowStart(Extracts!StartOf(i)),
         start = Extracts!PreviousUnicodeBoundary(window),
         from = IF Extracts!IsSpace(start) THEN start + 1 ELSE start,
         end <= Extracts!ContentLength,
         Extracts!StartOf(i) < end,
         Extracts!Characters(from, end) > 2 * SnippetRadius,
         Extracts!Characters(from, cut) = 2 * SnippetRadius - 1
  PROVE  Extracts!StartOf(i) < cut
  <1>1. PICK pos \in Nat, r \in Nat \ {0}, l \in Nat :
          pos = Extracts!StartOf(i) /\ r = SnippetRadius /\ l = Extracts!ContentLength
    BY WordStarts, PassageTypes
  <1>2. /\ pos < l /\ ~Extracts!InsidePair(pos) /\ ~Extracts!IsSpace(pos)
        /\ pos > 0 => Extracts!IsSpace(pos - 1)
    BY <1>1, WordStarts
  <1>3. /\ window <= pos /\ pos < window + 2 * r
        /\ l <= window + 2 * r \/ pos - window <= r
    BY <1>1, <1>2, WindowsReachBack
  <1>4. /\ start = window \/ (start = window - 1 /\ Extracts!InsidePair(window))
        /\ ~Extracts!InsidePair(start)
    BY BoundariesArePrevious
  <1>5. from <= pos
    <2>1. start <= pos
      BY <1>3, <1>4
    <2>2. Extracts!IsSpace(start) => start # pos
      BY <1>2
    <2> QED
      BY <2>1, <2>2
  <1> DEFINE all == Extracts!Characters(from, end)
             shown == Extracts!Characters(from, pos)
  <1>a. /\ from \in Int /\ end \in Int /\ pos \in Int /\ cut \in Int /\ window \in Int
        /\ from <= pos /\ from <= end
    BY <1>1, <1>5
  <1>b. all \in Nat /\ shown \in Nat
    BY <1>a, CharactersAre
  <1>6. all <= end - from /\ shown <= pos - from
    BY <1>a, CharactersAreFew
  <1>7. SUFFICES ASSUME cut <= pos PROVE FALSE
    BY <1>1
  <1>8. shown >= 2 * r - 1
    <2>1. Extracts!Characters(from, cut) <= shown
      BY <1>7, <1>a, CharactersGrow
    <2> HIDE DEF shown
    <2> QED
      BY <1>1, <1>b, <2>1
  <1>9. pos - from >= 2 * r - 1
    <2> HIDE DEF shown
    <2> QED
      BY <1>1, <1>6, <1>8, <1>b
  <1>10. pos # window => ~(pos = window + 1 /\ Extracts!InsidePair(window))
    <2> SUFFICES ASSUME pos = window + 1, Extracts!InsidePair(window) PROVE FALSE
      OBVIOUS
    <2>1. Extracts!IsSpace(window)
      BY <1>2
    <2> QED
      BY <2>1, InsidePairs
  <1>11. CASE from = window - 1
    <2>1. Extracts!InsidePair(window) /\ window # pos /\ window < pos
      BY <1>2, <1>3, <1>4, <1>11
    <2>2. all <= end - from - 1
      <3>1. window \in from..(end - 1) /\ from <= end
        BY <1>1, <1>11, <2>1
      <3> QED
        BY <1>a, <2>1, <3>1, CharactersAreFew
    <2>3. shown <= pos - from - 1
      <3>1. window \in from..(pos - 1)
        BY <1>11, <2>1
      <3> QED
        BY <1>a, <2>1, <3>1, CharactersAreFew
    <2>4. PICK m \in Nat, n \in Nat : m = all /\ n = shown
      BY <1>b
    <2>5. m > 2 * r /\ m <= end - window /\ n >= 2 * r - 1 /\ n <= pos - window /\ end <= l
      BY <1>1, <1>8, <1>11, <2>2, <2>3, <2>4
    <2>6. pos = window + 1
      BY <1>3, <2>1, <2>5
    <2> QED
      BY <1>10, <2>1, <2>6
  <1>12. CASE from >= window
    <2>1. PICK m \in Nat : m = all
      BY <1>b
    <2>2. m > 2 * r /\ m <= end - from /\ end <= l
      BY <1>1, <1>6, <2>1
    <2>3. pos = window + 1 /\ from = window
      BY <1>3, <1>9, <1>12, <2>2
    <2>4. Extracts!IsSpace(window)
      BY <1>2, <2>3
    <2>5. start # window
      BY <2>3, <2>4
    <2> QED
      BY <1>4, <2>4, <2>5, InsidePairs
  <1> QED
    BY <1>4, <1>11, <1>12

(* The windows.                                                            *)
WindowOf(i) == Extracts!Score(Extracts!WindowStart(Extracts!StartOf(i)))

Windows == [start : Nat, matched : Nat, span : Int]

LEMMA WindowsAreNumbers ==
  ASSUME Extracts!SnippetAssumption, passage \in Passages, NEW i \in Extracts!Occurrences
  PROVE  /\ i \in DOMAIN passage
         /\ WindowOf(i) \in Windows
         /\ WindowOf(i).start = Extracts!WindowStart(Extracts!StartOf(i))
  <1> DEFINE start == Extracts!WindowStart(Extracts!StartOf(i))
             end == Extracts!Min({Extracts!ContentLength, start + Extracts!SnippetLength})
             inside == {j \in Extracts!Occurrences : Extracts!StartOf(j) \in start..(end - 1)}
             terms == [j \in inside |-> passage[j].term]
             ends == [j \in inside |-> Extracts!Min({end, Extracts!EndOf(j)})]
             starts == [j \in inside |-> Extracts!StartOf(j)]
             matched == Extracts!Cardinality({passage[j].term : j \in inside})
             span == Extracts!Max({Extracts!Min({end, Extracts!EndOf(j)}) : j \in inside})
                       - Extracts!Min({Extracts!StartOf(j) : j \in inside})
  <1>1. i \in DOMAIN passage /\ Extracts!Occurrences \subseteq DOMAIN passage
    BY DEF Extracts!Occurrences
  <1>2. /\ DOMAIN passage = 1..Len(passage) /\ Len(passage) \in Nat
        /\ SnippetRadius \in Nat \ {0}
    BY PassageTypes
  <1>3. /\ Extracts!StartOf(i) \in Nat /\ Extracts!StartOf(i) < Extracts!ContentLength
        /\ Extracts!ContentLength \in Nat
    BY <1>1, WordStarts
  <1>4. start \in Nat /\ start <= Extracts!StartOf(i)
        /\ Extracts!StartOf(i) < start + 2 * SnippetRadius
    BY <1>3, WindowsReachBack
  <1>5. end \in Int /\ Extracts!StartOf(i) < end
    <2> HIDE DEF start
    <2>1. PICK a \in Int, b \in Int :
            a = Extracts!ContentLength /\ b = start + 2 * SnippetRadius
      BY <1>2, <1>3, <1>4
    <2>2. end = Extracts!Min({a, b})
      BY <2>1 DEF Extracts!SnippetLength
    <2>3. end = IF a <= b THEN a ELSE b
      BY <2>2, ExtremesOfTwo
    <2> QED
      BY <1>3, <1>4, <2>1, <2>3
  <1>6. i \in inside
    BY <1>3, <1>4, <1>5
  <1>7. IsFiniteSet(inside)
    <2>1. inside \subseteq 1..Len(passage)
      BY <1>1, <1>2
    <2>2. IsFiniteSet(1..Len(passage))
      BY <1>2, FS_Interval
    <2> HIDE DEF inside
    <2> QED
      BY <2>1, <2>2, FS_Subset
  <1>8. \A j \in inside : Extracts!StartOf(j) \in Nat /\ Extracts!EndOf(j) \in Nat
    <2>1. inside \subseteq 1..Len(passage)
      BY <1>1, <1>2
    <2>2. \A j \in 1..Len(passage) : Extracts!EndOf(j) \in Nat /\ Extracts!StartOf(j) \in Nat
      BY <1>2, StartsAreNumbers
    <2> HIDE DEF inside
    <2> QED
      BY <2>1, <2>2
  <1>9. matched \in Nat
    <2>1. IsFiniteSet({terms[j] : j \in DOMAIN terms})
      <3>1. terms = [x \in DOMAIN terms |-> terms[x]] /\ DOMAIN terms = inside
        OBVIOUS
      <3> HIDE DEF terms, inside
      <3> QED
        BY <1>7, <3>1, ImageIsFinite
    <2>2. {terms[j] : j \in DOMAIN terms} = {passage[j].term : j \in inside}
      <3> HIDE DEF inside
      <3> QED
        OBVIOUS
    <2>3. matched = Cardinality({terms[j] : j \in DOMAIN terms})
      <3> HIDE DEF inside, terms
      <3> QED
        BY <2>2, SnippetCardinality
    <2> HIDE DEF matched, terms
    <2> QED
      BY <2>1, <2>3, FS_CardinalityType
  <1>10. span \in Int
    <2> HIDE DEF inside, end
    <2> DEFINE E == {ends[j] : j \in DOMAIN ends}
               S == {starts[j] : j \in DOMAIN starts}
    <2>1. IsFiniteSet(E) /\ IsFiniteSet(S)
      <3>1. /\ ends = [x \in DOMAIN ends |-> ends[x]] /\ DOMAIN ends = inside
            /\ starts = [x \in DOMAIN starts |-> starts[x]] /\ DOMAIN starts = inside
        OBVIOUS
      <3> HIDE DEF ends, starts
      <3> QED
        BY <1>7, <3>1, ImageIsFinite
    <2>2. /\ E = {Extracts!Min({end, Extracts!EndOf(j)}) : j \in inside}
          /\ S = {Extracts!StartOf(j) : j \in inside}
      OBVIOUS
    <2>3. E # {} /\ S # {}
      <3>1. i \in DOMAIN ends /\ i \in DOMAIN starts
        BY <1>6
      <3> HIDE DEF ends, starts
      <3> QED
        BY <3>1
    <2>4. E \subseteq Nat /\ S \subseteq Nat
      <3>1. ASSUME NEW j \in inside
            PROVE  Extracts!Min({end, Extracts!EndOf(j)}) \in Nat /\ Extracts!StartOf(j) \in Nat
        <4>1. PICK a \in Nat, b \in Nat : a = end /\ b = Extracts!EndOf(j)
          BY <1>3, <1>5, <1>8
        <4>2. Extracts!Min({a, b}) = IF a <= b THEN a ELSE b
          BY ExtremesOfTwo
        <4> QED
          BY <1>8, <4>1, <4>2
      <3> HIDE DEF E, S
      <3> QED
        BY <2>2, <3>1
    <2> HIDE DEF E, S
    <2>5. /\ \E x \in E : \A y \in E : x >= y
          /\ \E x \in S : \A y \in S : x <= y
      BY <2>1, <2>3, <2>4, SetHasExtremes
    <2>6. Extracts!Max(E) \in Nat /\ Extracts!Min(S) \in Nat
      BY <2>4, <2>5 DEF Extracts!Max, Extracts!Min
    <2>7. span = Extracts!Max(E) - Extracts!Min(S)
      BY <2>2
    <2> HIDE DEF span
    <2> QED
      BY <2>6, <2>7
  <1>11. WindowOf(i) = [start |-> start, matched |-> matched, span |-> span]
    BY DEF WindowOf, Extracts!Score
  <1> HIDE DEF start, matched, span
  <1>12. WindowOf(i).start = start /\ WindowOf(i) \in Windows
    BY <1>4, <1>9, <1>10, <1>11 DEF Windows
  <1> QED
    BY <1>1, <1>12 DEF start

LEMMA BetterIsTransitive ==
  ASSUME NEW u \in Windows, NEW v \in Windows, NEW w \in Windows,
         Extracts!IsBetterWindow(u, v), Extracts!IsBetterWindow(v, w)
  PROVE  Extracts!IsBetterWindow(u, w)
  BY DEF Windows, Extracts!IsBetterWindow

LEMMA BetterIsFirst ==
  ASSUME NEW u \in Windows, NEW v \in Windows, Extracts!Precedes(u, v)
  PROVE  Extracts!IsBetterWindow(u, v)
  <1> DEFINE rank(w) == <<0 - w.matched, w.span, w.start>>
  <1>1. PICK k \in 1..3 : /\ \A j \in 1..(k - 1) : rank(u)[j] = rank(v)[j]
                          /\ rank(u)[k] < rank(v)[k]
    BY DEF Extracts!Precedes
  <1>2. /\ rank(u)[1] = 0 - u.matched /\ rank(u)[2] = u.span /\ rank(u)[3] = u.start
        /\ rank(v)[1] = 0 - v.matched /\ rank(v)[2] = v.span /\ rank(v)[3] = v.start
    OBVIOUS
  <1> HIDE DEF rank
  <1>3. /\ u.matched \in Nat /\ v.matched \in Nat /\ u.span \in Int /\ v.span \in Int
        /\ u.start \in Nat /\ v.start \in Nat
    BY DEF Windows
  <1>4. CASE k = 1
    BY <1>1, <1>2, <1>3, <1>4 DEF Extracts!IsBetterWindow
  <1>5. CASE k = 2
    <2>1. rank(u)[1] = rank(v)[1] /\ rank(u)[2] < rank(v)[2]
      BY <1>1, <1>5
    <2> QED
      BY <1>2, <1>3, <2>1 DEF Extracts!IsBetterWindow
  <1>6. CASE k = 3
    <2>1. rank(u)[1] = rank(v)[1] /\ rank(u)[2] = rank(v)[2] /\ rank(u)[3] < rank(v)[3]
      BY <1>1, <1>6
    <2> QED
      BY <1>2, <1>3, <2>1 DEF Extracts!IsBetterWindow
  <1> QED
    BY <1>4, <1>5, <1>6

(* What a snippet shows.                                                   *)
ShowsWell(s) ==
  LET windows == {Extracts!Score(Extracts!WindowStart(Extracts!StartOf(i))) :
                    i \in Extracts!Occurrences}
  IN  /\ ~Extracts!InsidePair(s.start) /\ ~Extracts!InsidePair(s.to)
      /\ Extracts!Characters(s.from, s.to) <= Extracts!SnippetLength
      /\ windows # {} =>
           \E w \in windows :
             /\ \A other \in windows : ~Extracts!Precedes(other, w)
             /\ s.start \in {w.start - 1, w.start}
             /\ \E i \in Extracts!Occurrences :
                  /\ w.start = Extracts!WindowStart(Extracts!StartOf(i))
                  /\ Extracts!StartOf(i) \in s.from..(s.to - 1)

BestIsScored ==
  /\ (\A i \in Extracts!Occurrences : i > anchor) => best = {}
  /\ (\E i \in Extracts!Occurrences : i <= anchor) =>
       \E i \in Extracts!Occurrences :
         /\ i <= anchor /\ best = {WindowOf(i)}
         /\ \A j \in Extracts!Occurrences :
              j <= anchor => ~Extracts!IsBetterWindow(WindowOf(j), WindowOf(i))

SnippetInv ==
  /\ passage \in Passages
  /\ anchor \in Nat
  /\ BestIsScored
  /\ \A s \in snippet : ShowsWell(s)

(* Where a snippet ends.                                                   *)
LEMMA SnippetEnds ==
  ASSUME Extracts!SnippetAssumption, passage \in Passages, NEW start \in Nat, NEW end,
         end = Extracts!PreviousUnicodeBoundary(
                 Extracts!Min({Extracts!ContentLength, start + 2 * Extracts!SnippetLength}))
  PROVE  /\ end \in Nat /\ ~Extracts!InsidePair(end)
         /\ end <= Extracts!ContentLength
         /\ \/ end = Extracts!ContentLength
            \/ end >= start + 4 * SnippetRadius - 1
  <1>1. PICK r \in Nat \ {0}, l \in Nat : r = SnippetRadius /\ l = Extracts!ContentLength
    <2>1. 1 \in DOMAIN passage
      BY PassageTypes
    <2> QED
      BY <2>1, PassageTypes, WordStarts
  <1>2. ~Extracts!InsidePair(l)
    <2>1. 1 \in DOMAIN passage
      BY PassageTypes
    <2> QED
      BY <1>1, <2>1, WordStarts
  <1>3. PICK b \in Nat : b = start + 2 * (2 * r)
    OBVIOUS
  <1>4. end = Extracts!PreviousUnicodeBoundary(Extracts!Min({l, b}))
    BY <1>1, <1>3 DEF Extracts!SnippetLength
  <1>5. PICK m \in Nat : m = Extracts!Min({l, b}) /\ m = (IF l <= b THEN l ELSE b)
    <2>1. l \in Int /\ b \in Int
      BY <1>1, <1>3
    <2>2. Extracts!Min({l, b}) = IF l <= b THEN l ELSE b
      BY <2>1, ExtremesOfTwo
    <2> QED
      BY <2>2
  <1>6. end = Extracts!PreviousUnicodeBoundary(m)
    BY <1>4, <1>5
  <1>7. end \in Nat /\ end \in {m - 1, m} /\ ~Extracts!InsidePair(end)
    BY <1>6, BoundariesArePrevious
  <1>8. l <= b => end = m
    BY <1>2, <1>5, <1>6, BoundariesArePrevious
  <1> QED
    BY <1>1, <1>3, <1>5, <1>7, <1>8

LEMMA TruncatedIs ==
  ASSUME Extracts!SnippetAssumption, passage \in Passages,
         NEW from \in Nat, NEW end \in Int, ~Extracts!InsidePair(end)
  PROVE  LET to == Extracts!Truncated(from, end)
         IN  /\ ~Extracts!InsidePair(to)
             /\ Extracts!Characters(from, to) <= 2 * SnippetRadius
             /\ \/ to = end
                \/ /\ Extracts!Characters(from, end) > 2 * SnippetRadius
                   /\ \E cut \in Int :
                        /\ Extracts!Characters(from, cut) = 2 * SnippetRadius - 1
                        /\ ~Extracts!InsidePair(cut)
                        /\ to = Extracts!Trimmed(cut)
  <1>1. PICK r \in Nat \ {0} : r = SnippetRadius
    BY PassageTypes
  <1>2. PICK all \in Nat : all = Extracts!Characters(from, end)
    <2>1. from \in Int /\ end \in Int
      OBVIOUS
    <2> QED
      BY <2>1, CharactersAre
  <1>3. CASE all <= 2 * r
    BY <1>1, <1>2, <1>3 DEF Extracts!Truncated, Extracts!SnippetLength
  <1>4. CASE all > 2 * r
    <2>1. PICK n \in Nat \ {0} : n = 2 * r - 1
      OBVIOUS
    <2>2. \E p \in from..end : Extracts!Characters(from, p) = n /\ ~Extracts!InsidePair(p)
      <3>1. Extracts!Characters(from, end) > n
        BY <1>2, <1>4, <2>1
      <3> QED
        BY <3>1, CutIsThere
    <2> DEFINE cut == CHOOSE p \in from..end :
                        Extracts!Characters(from, p) = n /\ ~Extracts!InsidePair(p)
    <2>3. cut \in from..end /\ Extracts!Characters(from, cut) = n /\ ~Extracts!InsidePair(cut)
      BY <2>2
    <2>4. Extracts!Truncated(from, end) = Extracts!Trimmed(cut)
      BY <1>1, <1>2, <1>4, <2>1 DEF Extracts!Truncated, Extracts!SnippetLength
    <2> HIDE DEF cut
    <2>5. PICK to \in Int : /\ to = Extracts!Trimmed(cut) /\ to <= cut
                            /\ ~Extracts!InsidePair(to)
      BY <2>3, TrimmedIs
    <2>6. Extracts!Characters(from, to) <= n
      <3>1. from \in Int /\ to \in Int /\ cut \in Int /\ to <= cut
        BY <2>3, <2>5
      <3>2. Extracts!Characters(from, to) <= Extracts!Characters(from, cut)
        BY <3>1, CharactersGrow
      <3> QED
        BY <2>3, <3>2
    <2>7. Extracts!Characters(from, to) <= 2 * r
      <3>1. from \in Int /\ to \in Int
        BY <2>5
      <3>2. PICK m \in Nat : m = Extracts!Characters(from, to)
        BY <3>1, CharactersAre
      <3> QED
        BY <2>1, <2>6, <3>2
    <2> QED
      BY <1>1, <1>2, <1>4, <2>1, <2>3, <2>4, <2>5, <2>7
  <1> QED
    BY <1>3, <1>4

(* A snippet shows the occurrence that its window is for.                  *)
LEMMA SnippetKeepsTheWord ==
  ASSUME Extracts!SnippetAssumption, passage \in Passages,
         NEW i \in DOMAIN passage, NEW window \in Nat, NEW start \in Nat, NEW from \in Nat,
         NEW end \in Nat,
         window = Extracts!WindowStart(Extracts!StartOf(i)),
         start = Extracts!PreviousUnicodeBoundary(window),
         from = IF Extracts!IsSpace(start) THEN start + 1 ELSE start,
         end = Extracts!PreviousUnicodeBoundary(
                 Extracts!Min({Extracts!ContentLength, start + 2 * Extracts!SnippetLength}))
  PROVE  Extracts!StartOf(i) \in from..(Extracts!Truncated(from, Extracts!Trimmed(end)) - 1)
  <1>1. PICK pos \in Nat, r \in Nat \ {0}, l \in Nat :
          pos = Extracts!StartOf(i) /\ r = SnippetRadius /\ l = Extracts!ContentLength
    BY WordStarts, PassageTypes
  <1>2. pos < l /\ ~Extracts!IsSpace(pos)
    BY <1>1, WordStarts
  <1>3. window <= pos /\ pos < window + 2 * r
    BY <1>1, <1>2, WindowsReachBack
  <1>4. start = window \/ start = window - 1
    BY BoundariesArePrevious
  <1>5. from <= pos
    <2>1. start <= pos /\ (Extracts!IsSpace(start) => start # pos)
      BY <1>2, <1>3, <1>4
    <2> QED
      BY <2>1
  <1>6. ~Extracts!InsidePair(end) /\ end <= l /\ (end = l \/ end >= start + 4 * r - 1)
    BY <1>1, SnippetEnds
  <1>7. pos < end
    BY <1>2, <1>3, <1>4, <1>6
  <1>8. PICK e \in Int : e = Extracts!Trimmed(end)
    BY <1>6, TrimmedIs
  <1>9. e <= l /\ ~Extracts!InsidePair(e) /\ pos < e
    <2>1. e <= end
      BY <1>6, <1>8, TrimmedIs
    <2>2. ~Extracts!InsidePair(e) /\ pos < e
      BY <1>1, <1>6, <1>7, <1>8, TrimmedIs
    <2> QED
      BY <1>6, <2>1, <2>2
  <1> DEFINE to == Extracts!Truncated(from, e)
  <1>10. \/ to = e
         \/ /\ Extracts!Characters(from, e) > 2 * SnippetRadius
            /\ \E cut \in Int :
                 /\ Extracts!Characters(from, cut) = 2 * SnippetRadius - 1
                 /\ ~Extracts!InsidePair(cut)
                 /\ to = Extracts!Trimmed(cut)
    BY <1>9, TruncatedIs
  <1> HIDE DEF to
  <1>11. to \in Int /\ pos < to
    <2>1. CASE to = e
      BY <1>9, <2>1
    <2>2. CASE to # e
      <3>1. PICK cut \in Int :
              /\ Extracts!Characters(from, cut) = 2 * SnippetRadius - 1
              /\ ~Extracts!InsidePair(cut)
              /\ to = Extracts!Trimmed(cut)
        BY <1>10, <2>2
      <3>2. /\ e <= Extracts!ContentLength /\ Extracts!StartOf(i) < e
            /\ Extracts!Characters(from, e) > 2 * SnippetRadius
        BY <1>1, <1>9, <1>10, <2>2
      <3>3. pos < cut
        BY <1>1, <3>1, <3>2, CutsKeepTheWord
      <3> QED
        BY <1>1, <3>1, <3>3, TrimmedIs
    <2> QED
      BY <2>1, <2>2
  <1> QED
    BY <1>1, <1>5, <1>8, <1>11 DEF to

(* The window that no other one precedes.                                  *)
LEMMA ShowsTheBest ==
  ASSUME Extracts!SnippetAssumption, SnippetInv, \A i \in Extracts!Occurrences : i <= anchor,
         NEW start, NEW end, NEW from,
         start = Extracts!PreviousUnicodeBoundary(Extracts!RequestedStart),
         end = Extracts!PreviousUnicodeBoundary(
                 Extracts!Min({Extracts!ContentLength, start + 2 * Extracts!SnippetLength})),
         from = IF Extracts!IsSpace(start) THEN start + 1 ELSE start
  PROVE  ShowsWell([start |-> start, from |-> from,
                    to |-> Extracts!Truncated(from, Extracts!Trimmed(end))])
  <1> DEFINE to == Extracts!Truncated(from, Extracts!Trimmed(end))
             s == [start |-> start, from |-> from, to |-> to]
             windows == {Extracts!Score(Extracts!WindowStart(Extracts!StartOf(i))) :
                           i \in Extracts!Occurrences}
  <1>1. passage \in Passages /\ SnippetRadius \in Nat \ {0}
    BY PassageTypes DEF SnippetInv
  <1>2. ASSUME NEW window \in Nat, window = Extracts!RequestedStart
        PROVE  /\ start \in Nat /\ ~Extracts!InsidePair(start) /\ start \in {window - 1, window}
               /\ ~Extracts!InsidePair(to) /\ Extracts!Characters(from, to) <= 2 * SnippetRadius
    <2>1. start \in Nat /\ ~Extracts!InsidePair(start) /\ start \in {window - 1, window}
      BY <1>1, <1>2, BoundariesArePrevious
    <2>2. end \in Nat /\ ~Extracts!InsidePair(end)
      BY <1>1, <2>1, SnippetEnds
    <2>3. Extracts!Trimmed(end) \in Int /\ ~Extracts!InsidePair(Extracts!Trimmed(end))
      BY <1>1, <2>2, TrimmedIs
    <2>4. from \in Nat
      BY <2>1
    <2> QED
      BY <1>1, <2>1, <2>3, <2>4, TruncatedIs
  <1> HIDE DEF to
  <1>3. CASE Extracts!Occurrences = {}
    <2>1. best = {}
      BY <1>3 DEF SnippetInv, BestIsScored
    <2>2. PICK window \in Nat : window = 0 /\ window = Extracts!RequestedStart
      BY <2>1 DEF Extracts!RequestedStart
    <2>3. windows = {}
      BY <1>3
    <2>4. /\ ~Extracts!InsidePair(s.start) /\ ~Extracts!InsidePair(s.to)
          /\ Extracts!Characters(s.from, s.to) <= Extracts!SnippetLength
      BY <1>2, <2>2 DEF Extracts!SnippetLength
    <2>5. ShowsWell(s)
      <3> HIDE DEF s
      <3> QED
        BY <2>3, <2>4 DEF ShowsWell
    <2> QED
      BY <2>5 DEF to
  <1>4. CASE Extracts!Occurrences # {}
    <2>1. PICK i \in Extracts!Occurrences :
            /\ best = {WindowOf(i)}
            /\ \A j \in Extracts!Occurrences :
                 ~Extracts!IsBetterWindow(WindowOf(j), WindowOf(i))
      BY <1>4 DEF SnippetInv, BestIsScored
    <2>2. /\ i \in DOMAIN passage /\ WindowOf(i) \in Windows
          /\ WindowOf(i).start = Extracts!WindowStart(Extracts!StartOf(i))
      BY <1>1, WindowsAreNumbers
    <2>3. PICK window \in Nat : window = WindowOf(i).start
      BY <2>2 DEF Windows
    <2>4. window = Extracts!RequestedStart
      <3>1. best # {} /\ (CHOOSE w \in best : TRUE) = WindowOf(i)
        BY <2>1
      <3> QED
        BY <2>3, <3>1 DEF Extracts!RequestedStart
    <2>5. /\ start \in Nat /\ ~Extracts!InsidePair(start) /\ start \in {window - 1, window}
          /\ ~Extracts!InsidePair(to) /\ Extracts!Characters(from, to) <= 2 * SnippetRadius
      BY <1>2, <2>4
    <2>6. end \in Nat /\ from \in Nat
      <3>1. end \in Nat
        BY <1>1, <2>5, SnippetEnds
      <3> QED
        BY <2>5, <3>1
    <2>7. Extracts!StartOf(i) \in from..(to - 1)
      <3>1. /\ window = Extracts!WindowStart(Extracts!StartOf(i))
            /\ start = Extracts!PreviousUnicodeBoundary(window)
        BY <2>2, <2>3, <2>4
      <3> QED
        BY <1>1, <2>2, <2>5, <2>6, <3>1, SnippetKeepsTheWord DEF to
    <2>8. WindowOf(i) \in windows
      BY DEF WindowOf
    <2>9. \A other \in windows : ~Extracts!Precedes(other, WindowOf(i))
      <3>1. ASSUME NEW j \in Extracts!Occurrences
            PROVE  ~Extracts!Precedes(WindowOf(j), WindowOf(i))
        <4>1. WindowOf(j) \in Windows /\ ~Extracts!IsBetterWindow(WindowOf(j), WindowOf(i))
          BY <1>1, <2>1, WindowsAreNumbers
        <4> QED
          BY <2>2, <4>1, BetterIsFirst
      <3>2. windows = {WindowOf(j) : j \in Extracts!Occurrences}
        BY DEF WindowOf
      <3> HIDE DEF windows
      <3> QED
        BY <3>1, <3>2
    <2>10. \E w \in windows :
             /\ \A other \in windows : ~Extracts!Precedes(other, w)
             /\ s.start \in {w.start - 1, w.start}
             /\ \E k \in Extracts!Occurrences :
                  /\ w.start = Extracts!WindowStart(Extracts!StartOf(k))
                  /\ Extracts!StartOf(k) \in s.from..(s.to - 1)
      <3>1. s.start = start /\ s.from = from /\ s.to = to
        OBVIOUS
      <3> HIDE DEF windows, s
      <3> QED
        BY <2>2, <2>3, <2>5, <2>7, <2>8, <2>9, <3>1
    <2>11. /\ ~Extracts!InsidePair(s.start) /\ ~Extracts!InsidePair(s.to)
           /\ Extracts!Characters(s.from, s.to) <= Extracts!SnippetLength
      BY <2>5 DEF Extracts!SnippetLength
    <2>12. ShowsWell(s)
      <3> HIDE DEF s
      <3> QED
        BY <2>10, <2>11 DEF ShowsWell
    <2> QED
      BY <2>12 DEF to
  <1> QED
    BY <1>3, <1>4

LEMMA SnippetInvInit ==
  ASSUME Extracts!SnippetAssumption, Extracts!SnippetInit
  PROVE  SnippetInv
  <1>1. passage \in Passages /\ anchor = 0 /\ best = {} /\ snippet = {}
    BY DEF Extracts!SnippetInit
  <1>2. \A i \in Extracts!Occurrences : i \in Nat /\ i > 0
    BY <1>1, PassageTypes DEF Extracts!Occurrences
  <1>3. BestIsScored
    BY <1>1, <1>2 DEF BestIsScored
  <1> QED
    BY <1>1, <1>3 DEF SnippetInv

(* The windows are those of the passage and of the query.                  *)
LEMMA PassageStays ==
  ASSUME passage' = passage, sought' = sought
  PROVE  /\ Extracts!Occurrences' = Extracts!Occurrences
         /\ \A i : WindowOf(i)' = WindowOf(i)
         /\ \A s : ShowsWell(s)' = ShowsWell(s)
  <1>1. \A i : Extracts!UnitsBefore(i)' = Extracts!UnitsBefore(i)
    BY DEF Extracts!UnitsBefore
  <1>2. \A i : Extracts!StartOf(i)' = Extracts!StartOf(i)
    BY <1>1 DEF Extracts!StartOf
  <1>3. \A i : Extracts!EndOf(i)' = Extracts!EndOf(i)
    BY <1>2 DEF Extracts!EndOf
  <1>4. Extracts!ContentLength' = Extracts!ContentLength
    BY <1>3 DEF Extracts!ContentLength
  <1>5. Extracts!Occurrences' = Extracts!Occurrences
    BY DEF Extracts!Occurrences, Extracts!Terms
  <1>6. \A p : Extracts!WindowStart(p)' = Extracts!WindowStart(p)
    BY <1>4 DEF Extracts!WindowStart
  <1>7. \A w : Extracts!Score(w)' = Extracts!Score(w)
    BY <1>2, <1>3, <1>4, <1>5 DEF Extracts!Score
  <1>8. \A i : WindowOf(i)' = WindowOf(i)
    BY <1>2, <1>6, <1>7 DEF WindowOf
  <1>9. \A p : Extracts!InsidePair(p)' = Extracts!InsidePair(p)
    BY <1>2, <1>3 DEF Extracts!InsidePair
  <1>10. \A p, q : Extracts!Characters(p, q)' = Extracts!Characters(p, q)
    BY <1>9 DEF Extracts!Characters
  <1>11. \A s : ShowsWell(s)' = ShowsWell(s)
    BY <1>2, <1>5, <1>6, <1>7, <1>9, <1>10 DEF ShowsWell
  <1> QED
    BY <1>5, <1>8, <1>11

(* A window that is scored takes the place of the best when it is better.  *)
LEMMA WindowIsScored ==
  ASSUME Extracts!SnippetAssumption, SnippetInv, Extracts!ScoreWindow
  PROVE  SnippetInv'
  <1>1. PICK i \in Extracts!Occurrences :
          /\ anchor < i /\ \A j \in Extracts!Occurrences : j <= anchor \/ i <= j
          /\ anchor' = i
          /\ best' = IF \A other \in best : Extracts!IsBetterWindow(WindowOf(i), other)
                     THEN {WindowOf(i)} ELSE best
          /\ UNCHANGED <<passage, sought, snippet>>
    BY DEF Extracts!ScoreWindow, WindowOf
  <1>2. passage \in Passages /\ anchor \in Nat
    BY DEF SnippetInv
  <1>3. \A j \in Extracts!Occurrences : WindowOf(j) \in Windows /\ j \in Nat
    <2>1. ASSUME NEW j \in Extracts!Occurrences PROVE WindowOf(j) \in Windows /\ j \in Nat
      <3>1. WindowOf(j) \in Windows /\ j \in DOMAIN passage
        BY <1>2, WindowsAreNumbers
      <3> QED
        BY <1>2, <3>1, PassageTypes
    <2> QED
      BY <2>1
  <1>4. \A j \in Extracts!Occurrences : j <= i <=> j = i \/ j <= anchor
    BY <1>1, <1>2, <1>3
  <1>5. ~Extracts!IsBetterWindow(WindowOf(i), WindowOf(i))
    <2>1. WindowOf(i) \in Windows
      BY <1>3
    <2> QED
      BY <2>1 DEF Windows, Extracts!IsBetterWindow
  <1>6. \E k \in Extracts!Occurrences :
          /\ k <= i /\ best' = {WindowOf(k)}
          /\ \A j \in Extracts!Occurrences :
               j <= i => ~Extracts!IsBetterWindow(WindowOf(j), WindowOf(k))
    <2>1. CASE \A j \in Extracts!Occurrences : j > anchor
      <3>1. best' = {WindowOf(i)}
        BY <1>1, <2>1 DEF SnippetInv, BestIsScored
      <3>2. \A j \in Extracts!Occurrences : j <= i => j = i
        BY <1>2, <1>3, <1>4, <2>1
      <3> QED
        BY <1>3, <1>5, <3>1, <3>2
    <2>2. CASE \E j \in Extracts!Occurrences : j <= anchor
      <3>1. PICK k \in Extracts!Occurrences :
              /\ k <= anchor /\ best = {WindowOf(k)}
              /\ \A j \in Extracts!Occurrences :
                   j <= anchor => ~Extracts!IsBetterWindow(WindowOf(j), WindowOf(k))
        BY <2>2 DEF SnippetInv, BestIsScored
      <3>2. CASE Extracts!IsBetterWindow(WindowOf(i), WindowOf(k))
        <4>1. best' = {WindowOf(i)}
          BY <1>1, <3>1, <3>2
        <4>2. ASSUME NEW j \in Extracts!Occurrences, j <= i
              PROVE  ~Extracts!IsBetterWindow(WindowOf(j), WindowOf(i))
          <5>1. CASE j = i
            BY <1>5, <5>1
          <5>2. CASE j # i
            <6>1. ~Extracts!IsBetterWindow(WindowOf(j), WindowOf(k))
              BY <1>4, <3>1, <4>2, <5>2
            <6>2. WindowOf(i) \in Windows /\ WindowOf(j) \in Windows /\ WindowOf(k) \in Windows
              BY <1>3
            <6> QED
              BY <3>2, <6>1, <6>2, BetterIsTransitive
          <5> QED
            BY <5>1, <5>2
        <4> QED
          BY <1>3, <4>1, <4>2
      <3>3. CASE ~Extracts!IsBetterWindow(WindowOf(i), WindowOf(k))
        <4>1. best' = best
          BY <1>1, <3>1, <3>3
        <4>2. k <= i
          BY <1>4, <3>1
        <4> QED
          BY <1>4, <3>1, <3>3, <4>1, <4>2
      <3> QED
        BY <3>2, <3>3
    <2> QED
      BY <1>2, <1>3, <2>1, <2>2
  <1>7. /\ Extracts!Occurrences' = Extracts!Occurrences
        /\ \A j : WindowOf(j)' = WindowOf(j)
        /\ \A s : ShowsWell(s)' = ShowsWell(s)
    BY <1>1, PassageStays
  <1>8. BestIsScored'
    <2>1. /\ ~\A j \in Extracts!Occurrences : j > i
      BY <1>3
    <2> QED
      BY <1>1, <1>6, <1>7, <2>1 DEF BestIsScored
  <1>9. \A s \in snippet' : ShowsWell(s)'
    BY <1>1, <1>7 DEF SnippetInv
  <1>10. passage' \in Passages /\ anchor' \in Nat
    BY <1>1, <1>2, <1>3
  <1> QED
    BY <1>8, <1>9, <1>10 DEF SnippetInv

LEMMA SnippetStutter ==
  ASSUME SnippetInv, UNCHANGED snippetVars
  PROVE  SnippetInv'
  <1>1. UNCHANGED <<passage, sought, anchor, best, snippet>>
    BY DEF snippetVars
  <1>2. /\ Extracts!Occurrences' = Extracts!Occurrences
        /\ \A j : WindowOf(j)' = WindowOf(j)
        /\ \A s : ShowsWell(s)' = ShowsWell(s)
    BY <1>1, PassageStays
  <1> QED
    BY <1>1, <1>2 DEF SnippetInv, BestIsScored

LEMMA SnippetStep ==
  ASSUME Extracts!SnippetAssumption, SnippetInv, Extracts!SnippetNext
  PROVE  SnippetInv'
  <1>1. CASE Extracts!ShowSnippet
    <2> DEFINE start == Extracts!PreviousUnicodeBoundary(Extracts!RequestedStart)
               end == Extracts!PreviousUnicodeBoundary(
                        Extracts!Min({Extracts!ContentLength,
                                      start + 2 * Extracts!SnippetLength}))
               from == IF Extracts!IsSpace(start) THEN start + 1 ELSE start
               s == [start |-> start, from |-> from,
                     to |-> Extracts!Truncated(from, Extracts!Trimmed(end))]
    <2>1. /\ \A j \in Extracts!Occurrences : j <= anchor
          /\ snippet' = {s}
          /\ UNCHANGED <<passage, sought, anchor, best>>
      BY <1>1 DEF Extracts!ShowSnippet
    <2>2. ShowsWell(s)
      BY <2>1, ShowsTheBest
    <2> HIDE DEF s
    <2>3. /\ Extracts!Occurrences' = Extracts!Occurrences
          /\ \A j : WindowOf(j)' = WindowOf(j)
          /\ \A t : ShowsWell(t)' = ShowsWell(t)
      BY <2>1, PassageStays
    <2>4. \A t \in snippet' : ShowsWell(t)'
      BY <2>1, <2>2, <2>3
    <2> QED
      BY <2>1, <2>3, <2>4 DEF SnippetInv, BestIsScored
  <1> QED
    BY <1>1, WindowIsScored DEF Extracts!SnippetNext

LEMMA SnippetProperty ==
  ASSUME SnippetInv
  PROVE  Extracts!SnippetShowsTheBestMatch
  BY DEF SnippetInv, ShowsWell, Extracts!SnippetShowsTheBestMatch

(***************************************************************************)
(* The theorems                                                            *)
(***************************************************************************)
mcVars == <<part, storageVars, documentVars, sourceVars>>

(* A behaviour takes the steps of its component, and no other moves.       *)
LEMMA OneComponentMoves ==
  ASSUME [MCNext]_mcVars
  PROVE  /\ part' = part
         /\ part = "migrations" => MigrationsNext \/ UNCHANGED migrationVars
         /\ part = "backups" => Backups!BackupNext \/ UNCHANGED backupVars
         /\ part = "cycles" => Cycles!MaintenanceNext \/ UNCHANGED cycleVars
         /\ part = "history" => Histories!HistoryNext \/ UNCHANGED storedVars
         /\ part = "pool" => Pool!PoolNext \/ UNCHANGED poolVars
         /\ part = "html" => Html!HtmlNext \/ UNCHANGED pageVars
         /\ part = "selection" => Selection!SelectionNext \/ UNCHANGED choiceVars
         /\ part = "snippets" => Extracts!SnippetNext \/ UNCHANGED snippetVars
         /\ part = "commands" => Commands!CommandsNext \/ UNCHANGED sourceVars
  <1>1. CASE MCNext
    BY <1>1 DEF MCNext, Storing, Reading
  <1>2. CASE UNCHANGED mcVars
    BY <1>2 DEF mcVars, storageVars, documentVars
  <1> QED
    BY <1>1, <1>2

(* The opening of a database: whatever processes of whatever builds open it*)
(* at once and wherever they stop, every migration runs once and in order, *)
(* a process that has it open has its own schema, and only a build with an *)
(* edited migration is refused (the three migration runners).              *)
THEOREM LedgersStayTrue == MCSpec => []LedgersAreTrue
  <1> DEFINE I == part = "migrations" => MigrationInv
  <1>1. MCInit => I
    BY StorageAssumptions, MigrationInvInit DEF MCInit
  <1>2. I /\ [MCNext]_mcVars => I'
    BY StorageAssumptions, OneComponentMoves, MigrationStep, MigrationStutter
  <1>3. I => LedgersAreTrue
    BY StorageAssumptions, MigrationProperty DEF LedgersAreTrue
  <1> QED
    BY <1>1, <1>2, <1>3, PTL DEF MCSpec, mcVars

(* catalog:backup: whatever processes, crashes and power losses there are, *)
(* what has the name of a backup is whole, and a backup that was reported  *)
(* is there (SqliteCatalogBackup).                                         *)
THEOREM BackupsHoldAlways == MCSpec => []BackupsHold
  <1> DEFINE I == part = "backups" => BackupInv
  <1>1. MCInit => I
    BY StorageAssumptions, BackupInvInit DEF MCInit
  <1>2. I /\ [MCNext]_mcVars => I'
    BY StorageAssumptions, OneComponentMoves, BackupStep, BackupStutter
  <1>3. I => BackupsHold
    BY StorageAssumptions, BackupProperty DEF BackupsHold
  <1> QED
    BY <1>1, <1>2, <1>3, PTL DEF MCSpec, mcVars

(* catalog:maintain: a cycle whose lock was recovered does one more thing  *)
(* at most and does not say that it maintained the catalogue, and no event *)
(* names a run that is not there (SqliteCatalogMaintenance).               *)
THEOREM MaintenanceStaysExclusive == MCSpec => []MaintenanceIsExclusive
  <1> DEFINE I == part = "cycles" => CycleInv
  <1>1. MCInit => I
    BY StorageAssumptions, CycleInvInit DEF MCInit
  <1>2. I /\ [MCNext]_mcVars => I'
    BY StorageAssumptions, OneComponentMoves, CycleStep, CycleStutter
  <1>3. I => MaintenanceIsExclusive
    BY CycleProperty DEF MaintenanceIsExclusive
  <1> QED
    BY <1>1, <1>2, <1>3, PTL DEF MCSpec, mcVars

(* list_search_history: whatever processes append and prune meanwhile, a   *)
(* walk shows the rows from the newest to the oldest and every one that was*)
(* there throughout, and a row goes only when it is too old or too many    *)
(* newer ones are there (SqliteSearchHistoryRepository).                   *)
THEOREM HistoryStaysTrue == MCSpec => []HistoryIsTrue
  <1> DEFINE I == part = "history" => HistoryInv
  <1>1. MCInit => I
    BY HistoryInvInit DEF MCInit
  <1>2. I /\ [MCNext]_mcVars => I'
    BY OneComponentMoves, HistoryStep, HistoryStutter
  <1>3. I => HistoryIsTrue
    BY HistoryProperty DEF HistoryIsTrue
  <1> QED
    BY <1>1, <1>2, <1>3, PTL DEF MCSpec, mcVars

(* The PDF workers: whatever dies, answers late or runs out of time, no    *)
(* slot and no reservation is lost, and no call has the text of another    *)
(* document (RecoveringWorkerPool, PdfWorkerClient).                       *)
THEOREM SlotsAlwaysComeBack == MCSpec => []SlotsComeBack
  <1> DEFINE I == part = "pool" => PoolInv
  <1>1. MCInit => I
    BY DocumentAssumptions, PoolInvInit DEF MCInit
  <1>2. I /\ [MCNext]_mcVars => I'
    BY DocumentAssumptions, OneComponentMoves, PoolStep, PoolStutter
  <1>3. I => SlotsComeBack
    BY DocumentAssumptions, PoolProperty DEF SlotsComeBack
  <1> QED
    BY <1>1, <1>2, <1>3, PTL DEF MCSpec, mcVars

(* The extraction of HTML: whatever elements a page nests, whether they are*)
(* void, noisy, ignored or active, and wherever the passes stop, what the  *)
(* Markdown shows is the text outside of what they remove, all of it, with *)
(* no fence, tick or link left open, and the title is read outside of what *)
(* is ignored (extractMetadata, sanitizePreparedHtml, renderSanitizedHtml).*)
THEOREM ContentAloneIsShown == MCSpec => []OnlyContentIsShown
  <1> DEFINE I == part = "html" => HtmlInv
  <1>1. MCInit => I
    BY DocumentAssumptions, HtmlInvInit DEF MCInit
  <1>2. I /\ [MCNext]_mcVars => I'
    BY DocumentAssumptions, OneComponentMoves, HtmlStep, HtmlStutter
  <1>3. I => OnlyContentIsShown
    BY DocumentAssumptions, HtmlProperty DEF OnlyContentIsShown
  <1> QED
    BY <1>1, <1>2, <1>3, PTL DEF MCSpec, mcVars

(* The sections that fetch_url answers: whatever the page and the query,   *)
(* and wherever a section is cut, the answer and its sections keep their   *)
(* limits, the best sections come first, what is not there whole is told,  *)
(* but for the end of a heading, and an answer that does not tell has every*)
(* term of the query that the split of the page and the cut of its headings*)
(* kept (selectRelevantContent, splitMarkdown, tokenize, truncateUnicode). *)
THEOREM SelectionsStayHonest == MCSpec => []SelectionIsHonest
  <1> DEFINE I == part = "selection" => SelectionInv
  <1>1. MCInit => I
    BY DocumentAssumptions, SelectionInvInit DEF MCInit
  <1>2. I /\ [MCNext]_mcVars => I'
    BY DocumentAssumptions, OneComponentMoves, SelectionStep, SelectionStutter
  <1>3. I => SelectionIsHonest
    BY DocumentAssumptions, SelectionProperty DEF SelectionIsHonest
  <1> QED
    BY <1>1, <1>2, <1>3, PTL DEF MCSpec, mcVars

(* The snippet of a search result: whatever the passage, its surrogate     *)
(* pairs and the query, it begins the window that no other precedes, splits*)
(* no pair, has no more characters than a snippet may have, and shows the  *)
(* occurrence that its window was chosen for (createSnippet,               *)
(* findBestMultiTermSnippetStart, truncateUnicode).                        *)
THEOREM SnippetsShowTheBest == MCSpec => []SnippetShowsTheBestMatch
  <1> DEFINE I == part = "snippets" => SnippetInv
  <1>1. MCInit => I
    BY DocumentAssumptions, SnippetInvInit DEF MCInit
  <1>2. I /\ [MCNext]_mcVars => I'
    BY DocumentAssumptions, OneComponentMoves, SnippetStep, SnippetStutter
  <1>3. I => SnippetShowsTheBestMatch
    BY SnippetProperty DEF SnippetShowsTheBestMatch
  <1> QED
    BY <1>1, <1>2, <1>3, PTL DEF MCSpec, mcVars

(* The commands that read catalog-sources.yml: whatever operators load, add*)
(* and synchronize at once, whatever is edited meanwhile and wherever they *)
(* stop, a load leaves the sources as the file it read has them, a dry run *)
(* announces what the synchronization fetches, and a batch that is resumed *)
(* goes on after the document that the report named, in the configuration  *)
(* it was about, or is refused (load-catalog-sources.ts,                   *)
(* plan-catalog-sync.ts, sync-catalog-documents.ts, cli/catalog.ts).       *)
THEOREM CommandsAlwaysAgree == MCSpec => []CommandsAgree
  <1> DEFINE I == part = "commands" => CommandInv
  <1>1. MCInit => I
    BY CommandInvInit DEF MCInit
  <1>2. I /\ [MCNext]_mcVars => I'
    BY DocumentAssumptions, OneComponentMoves, CommandStep, CommandStutter
  <1>3. I => CommandsAgree
    BY DocumentAssumptions, LoadsReconcileHolds, PlanForetells, BatchesFollow DEF CommandsAgree
  <1> QED
    BY <1>1, <1>2, <1>3, PTL DEF MCSpec, mcVars
=============================================================================
