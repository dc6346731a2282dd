---------------------- MODULE AnnouncementServiceProofs ----------------------
(***************************************************************************)
(* Proofs about AnnouncementService, for every set of announcements, stop   *)
(* requests and engine chains: its invariants, and that it implements       *)
(* AnnouncementQueue.                                                       *)
(*                                                                          *)
(* What the threads share without a lock is right because each of it        *)
(* follows the worker's pc (Shown), because an announcement is in exactly   *)
(* one of the queue, the worker's hands and the reports (Owed), and because *)
(* the stop that cuts an announcement off decides, through every step from  *)
(* there to the report, how it ends (Blamed).                               *)
(***************************************************************************)
EXTENDS AnnouncementService, TLAPS

(* From the take of an announcement to its report; from `current` set to    *)
(* reset; from SPEAKING to the next IDLE or BUSY; inside an attempt.        *)
Busy == WorkerPC \ {"loop", "ended", "settle"}
Announcing == WorkerPC \ {"loop", "taken", "settle"}
Speaking == WorkerPC \ {"loop", "taken", "speaking"}
Attempting == {"start", "await", "timeout", "release"}

Queued ==
    /\ heap = {a \in Ann : fate[a] = "queued"}
    /\ pc # "loop" => worker = "away"

Shown ==
    /\ pc # "loop" => next \in Ann
    /\ current = IF pc \in Announcing THEN next ELSE NoAnn
    /\ state = "SPEAKING" <=> pc \in Speaking
    /\ wakeLock <=> pc \in Speaking
    /\ active # "none" <=> pc \in Attempting
    /\ focus <=> pc \in Attempting
    /\ playback = "playing" => pc \in {"await", "timeout"}
    /\ pc = "activate" => plan # <<>>

Owed ==
    /\ \A a \in Ann : result[a] # "none" \/ cutOff[a] # "no" => fate[a] = "taken"
    /\ \A a \in Ann : fate[a] = "taken" => result[a] # "none" \/ (a = next /\ pc \in Busy)
    /\ pc \in Busy => fate[next] = "taken" /\ result[next] = "none"

Blamed ==
    /\ pc \in {"taken", "speaking", "select", "activate", "start", "timeout"} =>
          cutOff[next] # "awaited"
    /\ pc = "await" => (cutOff[next] = "awaited" <=> playback = "interrupted")
    /\ pc \in {"release", "decide", "report"} =>
          (cutOff[next] = "awaited" <=> outcome = "interrupted")
    /\ InterruptedMeansStopped

IInv == TypeOK /\ Queued /\ Shown /\ Owed /\ Blamed
-----------------------------------------------------------------------------
(* The queue's methods, from where they are called.                         *)
QueueStep ==
    \/ \E a \in Ann : Q!Build(a) \/ Q!OfferDuplicate(a) \/ Q!OfferAccept(a)
    \/ Q!TakeNothing \/ Q!Clear \/ Q!Tick

LEMMA QueueTyped ==
    ASSUME Q!TypeOK, QueueStep
    PROVE  Q!TypeOK'
<1> USE ServiceAssumption DEF Q!TypeOK
<1>p. Q!Purged \in [Keys -> Q!Time \union {Q!NoTime}]
  BY DEF Q!Purged
<1>1. ASSUME NEW a \in Ann, Q!Build(a) PROVE Q!TypeOK'
  BY <1>1 DEF Q!Build, Q!Fates
<1>2. ASSUME NEW a \in Ann, Q!OfferDuplicate(a) PROVE Q!TypeOK'
  BY <1>2, <1>p DEF Q!OfferDuplicate, Q!Fates
<1>3. ASSUME NEW a \in Ann, Q!OfferAccept(a) PROVE Q!TypeOK'
  <2>1. recent' \in [Keys -> Q!Time \union {Q!NoTime}]
    BY <1>3, <1>p DEF Q!OfferAccept
  <2>2. accepted' \in Seq(Ann)
    BY <1>3 DEF Q!OfferAccept
  <2>3. worker' \in Q!WorkerStates /\ heap' \subseteq Ann
    BY <1>3 DEF Q!OfferAccept, Q!WorkerStates
  <2> QED
    BY <1>3, <2>1, <2>2, <2>3 DEF Q!OfferAccept, Q!Fates
<1>4. CASE Q!TakeNothing
  <2>1. fate' \in [Ann -> Q!Fates]
    BY <1>4 DEF Q!TakeNothing, Q!Drop, Q!Fates
  <2> QED
    BY <1>4, <2>1 DEF Q!TakeNothing, Q!WorkerStates
<1>5. CASE Q!Clear
  <2>1. fate' \in [Ann -> Q!Fates]
    BY <1>5 DEF Q!Clear, Q!Drop, Q!Fates
  <2> QED
    BY <1>5, <2>1 DEF Q!Clear
<1>6. CASE Q!Tick
  BY <1>6 DEF Q!Tick, Q!Time
<1> QED
  BY <1>1, <1>2, <1>3, <1>4, <1>5, <1>6 DEF QueueStep

(* They keep the heap in step with the fates, take nothing and, unless the  *)
(* worker is in the queue already, leave it where it is.                    *)
LEMMA QueueKeeps ==
    ASSUME Q!TypeOK, heap = {a \in Ann : fate[a] = "queued"}, QueueStep
    PROVE  /\ heap' = {a \in Ann : fate'[a] = "queued"}
           /\ \A a \in Ann : fate'[a] = "taken" <=> fate[a] = "taken"
           /\ worker = "away" => worker' = "away"
<1> DEFINE Good == /\ heap' = {a \in Ann : fate'[a] = "queued"}
                   /\ \A a \in Ann : fate'[a] = "taken" <=> fate[a] = "taken"
                   /\ worker = "away" => worker' = "away"
<1> USE DEF Q!TypeOK
<1>1. ASSUME NEW a \in Ann, Q!Build(a) PROVE Good
  BY <1>1 DEF Q!Build
<1>2. ASSUME NEW a \in Ann, Q!OfferDuplicate(a) PROVE Good
  BY <1>2 DEF Q!OfferDuplicate
<1>3. ASSUME NEW a \in Ann, Q!OfferAccept(a) PROVE Good
  BY <1>3 DEF Q!OfferAccept
<1>4. CASE Q!TakeNothing
  BY <1>4 DEF Q!TakeNothing, Q!Drop
<1>5. CASE Q!Clear
  BY <1>5 DEF Q!Clear, Q!Drop
<1>6. CASE Q!Tick
  BY <1>6 DEF Q!Tick
<1> QED
  BY <1>1, <1>2, <1>3, <1>4, <1>5, <1>6 DEF QueueStep

(* A step beside the worker: what the threads share with it stands.         *)
LEMMA BesideKeeps ==
    ASSUME IInv, UNCHANGED <<serviceVars, pc, engineVars, historyVars>>,
           UNCHANGED queueVars \/ QueueStep,
           handler' \in [Threads -> HandlerPC], interrupts' \in [Ann -> BOOLEAN],
           aim' \in [Threads -> [engine : Engines \union {"none"}, attempt : Nat]]
    PROVE  IInv'
<1> USE DEF serviceVars, engineVars, historyVars
<1>1. /\ Q!TypeOK' /\ heap' = {a \in Ann : fate'[a] = "queued"}
      /\ \A a \in Ann : fate'[a] = "taken" <=> fate[a] = "taken"
      /\ worker = "away" => worker' = "away"
  <2>1. Q!TypeOK /\ heap = {a \in Ann : fate[a] = "queued"}
    BY DEF IInv, TypeOK, Queued
  <2>2. CASE QueueStep
    BY <2>1, <2>2, QueueTyped, QueueKeeps
  <2>3. CASE UNCHANGED queueVars
    BY <2>1, <2>3 DEF queueVars, Q!TypeOK
  <2> QED
    BY <2>2, <2>3
<1>2. TypeOK'
  BY <1>1 DEF IInv, TypeOK
<1>3. Queued'
  BY <1>1 DEF IInv, Queued
<1>4. Shown'
  BY DEF IInv, Shown
<1>5. Owed'
  BY <1>1 DEF IInv, Owed, Shown, Busy
<1>6. Blamed'
  BY DEF IInv, Blamed, InterruptedMeansStopped
<1> QED
  BY <1>2, <1>3, <1>4, <1>5, <1>6 DEF IInv

LEMMA GoesTo ==
    ASSUME TypeOK, NEW t \in Threads, NEW where \in HandlerPC, GoTo(t, where)
    PROVE  handler' \in [Threads -> HandlerPC]
BY DEF TypeOK, GoTo

LEMMA ReceiveKeeps ==
    ASSUME IInv, NEW a \in Ann, Receive(a)
    PROVE  IInv'
<1>1. handler' \in [Threads -> HandlerPC]
  BY GoesTo DEF Receive, HandlerPC, Threads, IInv
<1> QED
  BY <1>1, BesideKeeps DEF Receive, QueueStep, IInv, TypeOK

LEMMA RequestStopKeeps ==
    ASSUME IInv, NEW s \in Stops, RequestStop(s)
    PROVE  IInv'
<1>1. handler' \in [Threads -> HandlerPC]
  BY GoesTo DEF RequestStop, HandlerPC, Threads, IInv
<1> QED
  BY <1>1, BesideKeeps DEF RequestStop, IInv, TypeOK

LEMMA ReadCurrentKeeps ==
    ASSUME IInv, NEW a \in Ann, ReadCurrent(a)
    PROVE  IInv'
<1>1. handler' \in [Threads -> HandlerPC]
  BY GoesTo DEF ReadCurrent, HandlerPC, Threads, IInv
<1>2. MayInterrupt(a, current) \in BOOLEAN
  <2>1. CASE current = NoAnn
    BY <2>1 DEF MayInterrupt
  <2>2. CASE current # NoAnn
    <3>1. req[current] \in Requests
      BY <2>2 DEF IInv, TypeOK, Q!TypeOK
    <3> QED
      BY <3>1, ServiceAssumption DEF MayInterrupt
  <2> QED
    BY <2>1, <2>2
<1>3. interrupts' \in [Ann -> BOOLEAN]
  BY <1>2 DEF ReadCurrent, IInv, TypeOK
<1> QED
  BY <1>1, <1>3, BesideKeeps DEF ReadCurrent, IInv, TypeOK

LEMMA EnqueueKeeps ==
    ASSUME IInv, NEW a \in Ann, Enqueue(a)
    PROVE  IInv'
<1>1. handler' \in [Threads -> HandlerPC]
  BY GoesTo DEF Enqueue, HandlerPC, Threads, IInv
<1> QED
  BY <1>1, BesideKeeps DEF Enqueue, QueueStep, IInv, TypeOK

LEMMA AimKeeps ==
    ASSUME IInv, NEW t \in Threads, Aim(t)
    PROVE  IInv'
<1>1. handler' \in [Threads -> HandlerPC]
  BY GoesTo DEF Aim, AfterInterrupt, HandlerPC, IInv
<1>2. aim' \in [Threads -> [engine : Engines \union {"none"}, attempt : Nat]]
  BY DEF Aim, IInv, TypeOK
<1> QED
  BY <1>1, <1>2, BesideKeeps DEF Aim, IInv, TypeOK

LEMMA ClearQueueKeeps ==
    ASSUME IInv, NEW s \in Stops, ClearQueue(s)
    PROVE  IInv'
<1>1. handler' \in [Threads -> HandlerPC]
  BY GoesTo DEF ClearQueue, HandlerPC, Threads, IInv
<1> QED
  BY <1>1, BesideKeeps DEF ClearQueue, QueueStep, IInv, TypeOK

LEMMA TickKeeps ==
    ASSUME IInv, Tick
    PROVE  IInv'
BY BesideKeeps DEF Tick, QueueStep, handlerVars, IInv, TypeOK

(* The stop that reaches the playback: the one place where the blame falls. *)
LEMMA StopKeeps ==
    ASSUME IInv, NEW t \in Threads, Stop(t)
    PROVE  IInv'
<1>1. handler' \in [Threads -> HandlerPC]
  BY GoesTo DEF Stop, AfterInterrupt, HandlerPC, IInv
<1>2. aim' \in [Threads -> [engine : Engines \union {"none"}, attempt : Nat]]
  BY DEF Stop, NoAim, IInv, TypeOK
<1>3. CASE UNCHANGED <<playback, cutOff>>
  BY <1>1, <1>2, <1>3, BesideKeeps DEF Stop, serviceVars, engineVars, historyVars, IInv, TypeOK
<1>4. CASE /\ playback = "playing" /\ playback' = "interrupted"
           /\ cutOff' = [cutOff EXCEPT ![next] = IF pc = "await" THEN "awaited" ELSE "late"]
  <2>1. pc \in {"await", "timeout"} /\ next \in Ann
    BY <1>4 DEF IInv, Shown
  <2>2. cutOff' \in [Ann -> {"no", "awaited", "late"}]
        /\ \A a \in Ann \ {next} : cutOff'[a] = cutOff[a]
    BY <1>4, <2>1 DEF IInv, TypeOK
  <2>3. cutOff'[next] = IF pc = "await" THEN "awaited" ELSE "late"
    BY <1>4, <2>1 DEF IInv, TypeOK
  <2>4. UNCHANGED <<queueVars, serviceVars, pc, next, plan, onUrl, active, attempt, outcome,
                    focus, result, interrupts>>
    BY DEF Stop
  <2>5. TypeOK'
    <3>1. Q!TypeOK'
      BY <2>4 DEF IInv, TypeOK, Q!TypeOK, queueVars
    <3> QED
      BY <1>1, <1>2, <1>4, <2>2, <2>4, <3>1 DEF IInv, TypeOK, serviceVars, Settled
  <2>6. Queued'
    BY <2>4 DEF IInv, Queued, queueVars
  <2>7. Shown'
    BY <1>4, <2>4 DEF IInv, Shown, serviceVars
  <2>8. fate[next] = "taken" /\ result[next] = "none"
    BY <2>1 DEF IInv, Owed, Busy, WorkerPC
  <2>9. Owed'
    BY <2>2, <2>4, <2>8 DEF IInv, Owed, queueVars, Busy
  <2>10. Blamed'
    BY <1>4, <2>1, <2>2, <2>3, <2>4, <2>8 DEF IInv, Blamed, InterruptedMeansStopped
  <2> QED
    BY <2>5, <2>6, <2>7, <2>9, <2>10 DEF IInv
<1> QED
  BY <1>3, <1>4 DEF Stop, Reaches
-----------------------------------------------------------------------------
(* The worker.                                                              *)
LEMMA CallTakeKeeps ==
    ASSUME IInv, CallTake
    PROVE  IInv'
<1> USE DEF CallTake, Q!CallTake, serviceVars, engineVars, historyVars, handlerVars, IInv
<1>1. TypeOK'
  BY DEF TypeOK, Q!TypeOK, Q!WorkerStates
<1>2. Queued'
  BY DEF Queued
<1>3. Shown' /\ Owed'
  BY DEF Shown, Owed, Busy
<1>4. Blamed'
  BY DEF Blamed, InterruptedMeansStopped
<1> QED
  BY <1>1, <1>2, <1>3, <1>4

LEMMA TakeNothingKeeps ==
    ASSUME IInv, TakeNothing
    PROVE  IInv'
BY BesideKeeps DEF TakeNothing, QueueStep, handlerVars, IInv, TypeOK

LEMMA TakeKeeps ==
    ASSUME IInv, NEW a \in heap, Take(a)
    PROVE  IInv'
<1>1. PICK D \in SUBSET (heap \ {a}) :
         /\ heap' = heap \ (D \union {a})
         /\ fate' = [Q!Drop(fate, D, "stale") EXCEPT ![a] = "taken"]
  BY DEF Take, Q!TakeFresh
<1>2. /\ pc = "loop" /\ pc' = "taken" /\ next' = a /\ worker' = "away"
      /\ a \in Ann /\ fate[a] = "queued"
      /\ UNCHANGED <<now, req, born, recent, acceptedAt, accepted>>
      /\ UNCHANGED <<serviceVars, plan, onUrl, active, attempt, playback, outcome,
                     focus, historyVars, handlerVars>>
  BY DEF Take, Q!TakeFresh, IInv, TypeOK, WorkerPC, Queued
<1>3. /\ fate' \in [Ann -> Q!Fates] /\ heap' \subseteq Ann
      /\ fate'[a] = "taken"
      /\ \A b \in Ann \ {a} : fate'[b] = IF b \in D THEN "stale" ELSE fate[b]
  BY <1>1, <1>2 DEF Q!Drop, Q!Fates, IInv, TypeOK, Q!TypeOK
<1>4. TypeOK'
  <2>1. Q!TypeOK'
    BY <1>2, <1>3 DEF IInv, TypeOK, Q!TypeOK, Q!WorkerStates
  <2> QED
    BY <1>2, <2>1 DEF IInv, TypeOK, serviceVars, historyVars, handlerVars, WorkerPC
<1>5. Queued'
  BY <1>1, <1>2, <1>3 DEF IInv, Queued
<1>6. Shown'
  BY <1>2 DEF IInv, Shown, serviceVars, Announcing, Speaking, Attempting
<1>7. result[a] = "none" /\ cutOff[a] = "no"
  BY <1>2 DEF IInv, Owed
<1>8. Owed'
  <2>1. \A b \in Ann : fate[b] = "taken" => fate'[b] = "taken"
    BY <1>1, <1>2, <1>3 DEF IInv, Queued
  <2>2. \A b \in Ann \ {a} : fate'[b] = "taken" => fate[b] = "taken"
    BY <1>3
  <2> QED
    BY <1>2, <1>3, <1>7, <2>1, <2>2 DEF IInv, Owed, historyVars, Busy, WorkerPC
<1>9. Blamed'
  BY <1>2, <1>7 DEF IInv, Blamed, InterruptedMeansStopped, historyVars
<1> QED
  BY <1>4, <1>5, <1>6, <1>8, <1>9 DEF IInv

(* Steps of the worker that go from pc to pc' and touch neither the queue   *)
(* nor what the handlers keep.                                              *)
LEMMA WorkTyped ==
    ASSUME IInv, UNCHANGED <<queueVars, handlerVars>>, pc # "loop"
    PROVE  /\ Q!TypeOK' /\ Queued'
           /\ handler' \in [Threads -> HandlerPC] /\ interrupts' \in [Ann -> BOOLEAN]
           /\ aim' \in [Threads -> [engine : Engines \union {"none"}, attempt : Nat]]
BY DEF IInv, TypeOK, Q!TypeOK, Queued, queueVars, handlerVars

LEMMA SetCurrentKeeps == ASSUME IInv, SetCurrent PROVE IInv'
<1> USE DEF SetCurrent, engineVars, historyVars
<1>1. TypeOK' /\ Queued'
  BY WorkTyped DEF IInv, TypeOK, Shown, WorkerPC
<1>2. Shown'
  BY DEF IInv, Shown, Announcing, Speaking, Attempting, WorkerPC
<1>3. Owed'
  BY DEF IInv, Owed, Busy, WorkerPC, queueVars
<1>4. Blamed'
  BY DEF IInv, Blamed, InterruptedMeansStopped
<1> QED
  BY <1>1, <1>2, <1>3, <1>4 DEF IInv

LEMMA SetSpeakingKeeps == ASSUME IInv, SetSpeaking PROVE IInv'
<1> USE DEF SetSpeaking, engineVars, historyVars
<1>1. TypeOK' /\ Queued'
  BY WorkTyped DEF IInv, TypeOK, WorkerPC
<1>2. Shown'
  BY DEF IInv, Shown, Announcing, Speaking, Attempting, WorkerPC
<1>3. Owed'
  BY DEF IInv, Owed, Busy, WorkerPC, queueVars
<1>4. Blamed'
  BY DEF IInv, Blamed, InterruptedMeansStopped
<1> QED
  BY <1>1, <1>2, <1>3, <1>4 DEF IInv

(* A chain is made of engines, and there is one to try.                     *)
LEMMA ChainsTyped ==
    ASSUME NEW c \in Chains
    PROVE  c \in Seq(Engines) /\ c # <<>>
<1>1. c \in Seq({"remote", "device"}) /\ c # <<>>
  BY ServiceAssumption
<1> QED
  BY <1>1 DEF Engines

LEMMA SelectKeeps == ASSUME IInv, Select PROVE IInv'
<1> USE DEF Select, serviceVars, historyVars
<1>1. plan' \in Seq(Engines) /\ plan' # <<>> /\ onUrl' \in BOOLEAN
  <2>1. <<"url">> \in Seq(Engines) /\ <<"url">> # <<>>
    BY DEF Engines
  <2> QED
    BY <2>1, ChainsTyped
<1>2. TypeOK' /\ Queued'
  BY <1>1, WorkTyped DEF IInv, TypeOK, WorkerPC
<1>3. Shown'
  BY <1>1 DEF IInv, Shown, Announcing, Speaking, Attempting, WorkerPC
<1>4. Owed'
  BY DEF IInv, Owed, Busy, WorkerPC, queueVars
<1>5. Blamed'
  BY DEF IInv, Blamed, InterruptedMeansStopped
<1> QED
  BY <1>2, <1>3, <1>4, <1>5 DEF IInv

LEMMA ActivateKeeps == ASSUME IInv, Activate PROVE IInv'
<1> USE DEF Activate, serviceVars, historyVars
<1>1. active' \in Engines /\ plan' \in Seq(Engines)
  BY DEF IInv, TypeOK, Shown
<1>2. active' # "none"
  BY <1>1 DEF Engines
<1>3. TypeOK' /\ Queued'
  BY <1>1, WorkTyped DEF IInv, TypeOK, WorkerPC
<1>4. Shown'
  BY <1>2 DEF IInv, Shown, Announcing, Speaking, Attempting, WorkerPC
<1>5. Owed'
  BY DEF IInv, Owed, Busy, WorkerPC, queueVars
<1>6. Blamed'
  BY DEF IInv, Blamed, InterruptedMeansStopped
<1> QED
  BY <1>3, <1>4, <1>5, <1>6 DEF IInv

LEMMA StartKeeps == ASSUME IInv, Start PROVE IInv'
<1> USE DEF Start, serviceVars, historyVars
<1>1. TypeOK' /\ Queued'
  BY WorkTyped DEF IInv, TypeOK, WorkerPC
<1>2. Shown'
  BY DEF IInv, Shown, Announcing, Speaking, Attempting, WorkerPC
<1>3. Owed'
  BY DEF IInv, Owed, Busy, WorkerPC, queueVars
<1>4. Blamed'
  BY DEF IInv, Blamed, InterruptedMeansStopped
<1> QED
  BY <1>1, <1>2, <1>3, <1>4 DEF IInv

LEMMA SettleKeeps ==
    ASSUME IInv, NEW how \in {"finished", "error"}, Settle(how)
    PROVE  IInv'
<1> USE DEF Settle, serviceVars, historyVars
<1>1. pc \in {"await", "timeout"}
  BY DEF IInv, Shown
<1>2. TypeOK' /\ Queued'
  BY <1>1, WorkTyped DEF IInv, TypeOK, Settled
<1>3. Shown'
  BY <1>1 DEF IInv, Shown
<1>4. Owed'
  BY DEF IInv, Owed, queueVars
<1>5. Blamed'
  BY <1>1 DEF IInv, Blamed, InterruptedMeansStopped
<1> QED
  BY <1>2, <1>3, <1>4, <1>5 DEF IInv

LEMMA AwaitDoneKeeps == ASSUME IInv, AwaitDone PROVE IInv'
<1> USE DEF AwaitDone, serviceVars, historyVars
<1>1. TypeOK' /\ Queued'
  BY WorkTyped DEF IInv, TypeOK, WorkerPC, Settled
<1>2. Shown'
  BY DEF IInv, Shown, Announcing, Speaking, Attempting, WorkerPC, Settled
<1>3. Owed'
  BY DEF IInv, Owed, Busy, WorkerPC, queueVars
<1>4. Blamed'
  BY DEF IInv, Blamed, InterruptedMeansStopped
<1> QED
  BY <1>1, <1>2, <1>3, <1>4 DEF IInv

LEMMA AwaitTimeoutKeeps == ASSUME IInv, AwaitTimeout PROVE IInv'
<1> USE DEF AwaitTimeout, serviceVars, engineVars, historyVars
<1>1. TypeOK' /\ Queued'
  BY WorkTyped DEF IInv, TypeOK, WorkerPC
<1>2. Shown'
  BY DEF IInv, Shown, Announcing, Speaking, Attempting, WorkerPC
<1>3. Owed'
  BY DEF IInv, Owed, Busy, WorkerPC, queueVars
<1>4. Blamed'
  BY DEF IInv, Blamed, InterruptedMeansStopped
<1> QED
  BY <1>1, <1>2, <1>3, <1>4 DEF IInv

LEMMA StopAfterTimeoutKeeps == ASSUME IInv, StopAfterTimeout PROVE IInv'
<1> USE DEF StopAfterTimeout, serviceVars, historyVars
<1>1. playback' # "playing" /\ playback' \in {"none", "playing"} \union Settled
  BY DEF IInv, TypeOK, Settled
<1>2. TypeOK' /\ Queued'
  BY <1>1, WorkTyped DEF IInv, TypeOK, WorkerPC
<1>3. Shown'
  BY <1>1 DEF IInv, Shown, Announcing, Speaking, Attempting, WorkerPC
<1>4. Owed'
  BY DEF IInv, Owed, Busy, WorkerPC, queueVars
<1>5. Blamed'
  BY DEF IInv, Blamed, InterruptedMeansStopped
<1> QED
  BY <1>2, <1>3, <1>4, <1>5 DEF IInv

LEMMA ReleaseKeeps == ASSUME IInv, Release PROVE IInv'
<1> USE DEF Release, serviceVars, historyVars
<1>1. TypeOK' /\ Queued'
  BY WorkTyped DEF IInv, TypeOK, WorkerPC
<1>2. Shown'
  BY DEF IInv, Shown, Announcing, Speaking, Attempting, WorkerPC
<1>3. Owed'
  BY DEF IInv, Owed, Busy, WorkerPC, queueVars
<1>4. Blamed'
  BY DEF IInv, Blamed, InterruptedMeansStopped
<1> QED
  BY <1>1, <1>2, <1>3, <1>4 DEF IInv

(* Another engine is tried only for an announcement nobody cut off.         *)
LEMMA DecideKeeps == ASSUME IInv, Decide PROVE IInv'
<1> USE DEF Decide, serviceVars, historyVars
<1>1. /\ pc = "decide" /\ plan' \in Seq(Engines) /\ onUrl' \in BOOLEAN
      /\ \/ pc' = "activate" /\ plan' # <<>> /\ outcome # "interrupted"
         \/ pc' = "report"
  BY ChainsTyped DEF IInv, TypeOK
<1>2. UNCHANGED <<queueVars, serviceVars, next, active, attempt, playback, outcome,
                  focus, historyVars, handlerVars>>
  OBVIOUS
<1> HIDE DEF Decide
<1>3. TypeOK' /\ Queued'
  BY <1>1, <1>2, WorkTyped DEF IInv, TypeOK, WorkerPC
<1>4. Shown'
  BY <1>1, <1>2 DEF IInv, Shown, Announcing, Speaking, Attempting, WorkerPC
<1>5. Owed'
  BY <1>1, <1>2 DEF IInv, Owed, Busy, WorkerPC, queueVars
<1>6. Blamed'
  BY <1>1, <1>2 DEF IInv, Blamed, InterruptedMeansStopped
<1> QED
  BY <1>3, <1>4, <1>5, <1>6 DEF IInv

LEMMA ReportKeeps == ASSUME IInv, Report PROVE IInv'
<1> DEFINE how == CASE outcome = "finished" -> "success"
                    [] outcome = "interrupted" -> "interrupted"
                    [] OTHER -> "failed"
<1>1. /\ how \in {"success", "interrupted", "failed"}
      /\ how = "interrupted" <=> outcome = "interrupted"
  OBVIOUS
<1>2. /\ pc = "report" /\ pc' = "ended" /\ result' = [result EXCEPT ![next] = how]
      /\ UNCHANGED <<queueVars, serviceVars, engineVars, cutOff, handlerVars>>
  BY DEF Report
<1> HIDE DEF how
<1> USE DEF serviceVars, engineVars
<1>3. next \in Ann
  BY <1>2 DEF IInv, Shown
<1>4. /\ result' \in [Ann -> {"none", "success", "interrupted", "failed"}]
      /\ result'[next] = how
      /\ \A a \in Ann \ {next} : result'[a] = result[a]
  BY <1>1, <1>2, <1>3 DEF IInv, TypeOK
<1>5. TypeOK' /\ Queued'
  BY <1>2, <1>4, WorkTyped DEF IInv, TypeOK, WorkerPC
<1>6. Shown'
  BY <1>2 DEF IInv, Shown, Announcing, Speaking, Attempting, WorkerPC
<1>7. Owed'
  BY <1>1, <1>2, <1>3, <1>4 DEF IInv, Owed, Busy, WorkerPC, queueVars
<1>8. Blamed'
  BY <1>1, <1>2, <1>3, <1>4 DEF IInv, Blamed, InterruptedMeansStopped
<1> QED
  BY <1>5, <1>6, <1>7, <1>8 DEF IInv

LEMMA ResetCurrentKeeps == ASSUME IInv, ResetCurrent PROVE IInv'
<1> USE DEF ResetCurrent, engineVars, historyVars
<1>1. TypeOK' /\ Queued'
  BY WorkTyped DEF IInv, TypeOK, WorkerPC
<1>2. Shown'
  BY DEF IInv, Shown, Announcing, Speaking, Attempting, WorkerPC
<1>3. Owed'
  BY DEF IInv, Owed, Busy, WorkerPC, queueVars
<1>4. Blamed'
  BY DEF IInv, Blamed, InterruptedMeansStopped
<1> QED
  BY <1>1, <1>2, <1>3, <1>4 DEF IInv

LEMMA SetIdleOrBusyKeeps == ASSUME IInv, SetIdleOrBusy PROVE IInv'
<1> USE DEF SetIdleOrBusy, engineVars, historyVars
<1>1. TypeOK' /\ Queued'
  BY WorkTyped DEF IInv, TypeOK, WorkerPC
<1>2. Shown'
  BY DEF IInv, Shown, Announcing, Speaking, Attempting, WorkerPC
<1>3. Owed'
  BY DEF IInv, Owed, Busy, WorkerPC, queueVars
<1>4. Blamed'
  BY DEF IInv, Blamed, InterruptedMeansStopped
<1> QED
  BY <1>1, <1>2, <1>3, <1>4 DEF IInv
-----------------------------------------------------------------------------
LEMMA InitSound == Init => IInv
<1> SUFFICES ASSUME Init PROVE IInv
  OBVIOUS
<1> USE DEF Init, Q!Init
<1>1. TypeOK
  <2>1. Q!TypeOK
    BY ServiceAssumption DEF Q!TypeOK, Q!Time, Q!NoTime, Q!WorkerStates, Q!Fates
  <2>2. plan \in Seq(Engines)
    OBVIOUS
  <2>3. aim \in [Threads -> [engine : Engines \union {"none"}, attempt : Nat]]
    BY DEF NoAim
  <2> QED
    BY <2>1, <2>2, <2>3 DEF TypeOK, WorkerPC, HandlerPC
<1>2. Queued /\ Shown
  BY DEF Queued, Shown, Announcing, Speaking, Attempting
<1>3. Owed /\ Blamed
  BY DEF Owed, Blamed, Busy, InterruptedMeansStopped
<1> QED
  BY <1>1, <1>2, <1>3 DEF IInv

LEMMA StepKeeps == IInv /\ [Next]_vars => IInv'
<1> SUFFICES ASSUME IInv, [Next]_vars PROVE IInv'
  OBVIOUS
<1>1. ASSUME NEW t \in Threads, Handle(t) PROVE IInv'
  BY <1>1, ReadCurrentKeeps, EnqueueKeeps, AimKeeps, StopKeeps, ClearQueueKeeps DEF Handle
<1>2. ASSUME Fetch PROVE IInv'
  BY <1>2, CallTakeKeeps, TakeNothingKeeps, TakeKeeps DEF Fetch
<1>3. ASSUME Work PROVE IInv'
  BY <1>3, SetCurrentKeeps, SetSpeakingKeeps, SelectKeeps, ActivateKeeps, StartKeeps,
     AwaitDoneKeeps, StopAfterTimeoutKeeps, ReleaseKeeps, DecideKeeps, ReportKeeps,
     ResetCurrentKeeps, SetIdleOrBusyKeeps DEF Work
<1>4. CASE UNCHANGED vars
  BY <1>4, BesideKeeps DEF vars, handlerVars, IInv, TypeOK
<1> QED
  BY <1>1, <1>2, <1>3, <1>4, ReceiveKeeps, RequestStopKeeps, AwaitTimeoutKeeps, SettleKeeps,
     TickKeeps DEF Next

(* Every interleaving of the handlers, the worker and the provider keeps    *)
(* the inductive invariant.                                                 *)
THEOREM Invariance == Spec => []IInv
BY InitSound, StepKeeps, PTL DEF Spec

(* Every variable keeps its type.                                           *)
THEOREM Typing == Spec => []TypeOK
<1>1. IInv => TypeOK
  BY DEF IInv
<1> QED
  BY <1>1, Invariance, PTL

(* Nothing is audible that /status does not show as current and speaking,   *)
(* or that no stop could reach.                                             *)
THEOREM AudibleIsShown == Spec => []AudibleIsReported
<1>1. IInv => AudibleIsReported
  BY DEF IInv, Shown, Owed, AudibleIsReported, Announcing, Speaking, Attempting, Busy, WorkerPC
<1> QED
  BY <1>1, Invariance, PTL

(* A worker that waits owes no report and holds neither focus, wake lock    *)
(* nor provider.                                                            *)
THEOREM QuietAtRest == Spec => []QuietWhenWaiting
<1>1. IInv => QuietWhenWaiting
  BY DEF IInv, Queued, Shown, Owed, QuietWhenWaiting, Announcing, Speaking, Attempting, Busy
<1> QED
  BY <1>1, Invariance, PTL

(* What was cut off under the worker's eyes plays no more.                  *)
THEOREM CutOffIsOver == Spec => []InterruptEndsIt
<1>1. IInv => InterruptEndsIt
  BY DEF IInv, Shown, Blamed, InterruptEndsIt
<1> QED
  BY <1>1, Invariance, PTL

(* "interrupted" is the report of a stop that was awaited, and of no other  *)
(* end.                                                                     *)
THEOREM InterruptedIsStopped == Spec => []InterruptedMeansStopped
<1>1. IInv => InterruptedMeansStopped
  BY DEF IInv, Blamed
<1> QED
  BY <1>1, Invariance, PTL
-----------------------------------------------------------------------------
(* The service implements the queue: every step is one of the queue's       *)
(* methods or leaves it alone.                                              *)
LEMMA StepAllowed == [Next]_vars => [Q!Next]_(Q!vars)
<1> SUFFICES ASSUME [Next]_vars PROVE Q!Next \/ UNCHANGED Q!vars
  OBVIOUS
<1> USE DEF queueVars, Q!vars, Q!Next, Q!Offer, Q!Take
<1>1. ASSUME NEW a \in Ann, Receive(a) PROVE Q!Next
  BY <1>1 DEF Receive
<1>2. ASSUME NEW s \in Stops, RequestStop(s) PROVE UNCHANGED Q!vars
  BY <1>2 DEF RequestStop
<1>3. ASSUME NEW a \in Ann, ReadCurrent(a) PROVE UNCHANGED Q!vars
  BY <1>3 DEF ReadCurrent
<1>4. ASSUME NEW a \in Ann, Enqueue(a) PROVE Q!Next
  BY <1>4 DEF Enqueue
<1>5. ASSUME NEW t \in Threads, Aim(t) \/ Stop(t) PROVE UNCHANGED Q!vars
  BY <1>5 DEF Aim, Stop
<1>6. ASSUME NEW s \in Stops, ClearQueue(s) PROVE Q!Next \/ UNCHANGED Q!vars
  BY <1>6 DEF ClearQueue
<1>7. ASSUME Fetch \/ Tick PROVE Q!Next
  BY <1>7 DEF Fetch, CallTake, TakeNothing, Take, Tick
<1>8. ASSUME Work PROVE UNCHANGED Q!vars
  BY <1>8 DEF Work, SetCurrent, SetSpeaking, Select, Activate, Start, AwaitDone,
     StopAfterTimeout, Release, Decide, Report, ResetCurrent, SetIdleOrBusy
<1>9. ASSUME AwaitTimeout \/ \E how \in {"finished", "error"} : Settle(how)
      PROVE  UNCHANGED Q!vars
  BY <1>9 DEF AwaitTimeout, Settle
<1>10. CASE UNCHANGED vars
  BY <1>10 DEF vars
<1> QED
  BY <1>1, <1>2, <1>3, <1>4, <1>5, <1>6, <1>7, <1>8, <1>9, <1>10 DEF Next, Handle

(* Whatever AnnouncementQueueProofs says of the queue holds in the service. *)
THEOREM Implementation == Spec => ImplementsQueue
<1>1. Init => Q!Init
  BY DEF Init
<1> QED
  BY <1>1, StepAllowed, PTL DEF Spec, ImplementsQueue, Q!Spec
=============================================================================
