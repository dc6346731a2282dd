------------------------- MODULE AnnouncementService -------------------------
(***************************************************************************)
(* The Android service around the queue: handler threads that enqueue and  *)
(* interrupt (AnnouncementService.enqueue, stopCurrentAndMaybeClear), the   *)
(* worker loop (startWorker) and the engine it plays through                *)
(* (AnnouncementEngine.play, runEngineChain, attempt).                      *)
(*                                                                          *)
(* The threads share three things without a common lock: `current`, which   *)
(* the worker sets and enqueue reads; the engine's `activeProvider`, which   *)
(* an attempt sets and interruptCurrent reads before it stops what it read; *)
(* and the queue, whose methods are the steps of AnnouncementQueue.  Each   *)
(* access to one of them is a step here.                                    *)
(*                                                                          *)
(* A provider is its contract: play starts a playback, which ends by itself *)
(* with success or an error, or never; stop ends a playback in progress     *)
(* with the error "interrupted" and does nothing otherwise.  The url and    *)
(* device providers are shared objects, so a stop aimed at an earlier       *)
(* attempt reaches the playback of a later one; a remote provider is a new  *)
(* object in every attempt.                                                 *)
(***************************************************************************)
EXTENDS Integers, Sequences

CONSTANTS
    Ann, Keys, Requests, MaxAge, DedupWindow, MaxTime,  \* see AnnouncementQueue
    Stops,          \* stop requests: POST /stop, the notification, the session
    Clearing,       \* those of them with clear=true
    Chains,         \* engine chains the registry may resolve: engine kinds
    NoAnn           \* null, for `current`

ASSUME ServiceAssumption ==
    /\ \A r \in Requests : /\ r.key \in Keys /\ r.rank \in 0..3
                           /\ r.interruptible \in BOOLEAN
                           /\ r.audio \in {"url", "text", "both"}
    /\ MaxAge \in [Keys -> Nat]
    /\ DedupWindow \in Nat \ {0} /\ MaxTime \in Nat
    /\ Clearing \subseteq Stops
    /\ Stops \intersect Ann = {}
    /\ NoAnn \notin Ann
    /\ \A c \in Chains : c \in Seq({"remote", "device"}) /\ c # <<>>

VARIABLES
    now, req, born, heap, recent, worker, fate, acceptedAt, accepted,
                    \* the queue: see AnnouncementQueue
    current,        \* AnnouncementService.current
    state,          \* AnnouncementService.state
    wakeLock,       \* the wake lock is held
    pc,             \* where the worker is, outside takeNextFresh (WorkerPC)
    next,           \* the announcement the worker took last
    plan,           \* the engines still to be tried for it
    onUrl,          \* the attempt is the one of its url, before any chain
    active,         \* AnnouncementEngine.activeProvider
    attempt,        \* number of the attempt: which remote instance it is
    playback,       \* the playback of the attempt
    outcome,        \* how the attempt ended
    focus,          \* audio focus is requested
    result,         \* history: what onAnnouncementFinished reported
    cutOff,         \* history: whether a handler's stop ended a playback of
                    \* each announcement, while the worker awaited it or late
    handler,        \* where each handler thread is (HandlerPC)
    interrupts,     \* enqueue's shouldInterruptCurrent
    aim             \* interruptCurrent's provider, and the attempt it was in

queueVars == <<now, req, born, heap, recent, worker, fate, acceptedAt, accepted>>
serviceVars == <<current, state, wakeLock>>
engineVars == <<next, plan, onUrl, active, attempt, playback, outcome, focus>>
historyVars == <<result, cutOff>>
handlerVars == <<handler, interrupts, aim>>

vars == <<queueVars, serviceVars, pc, engineVars, historyVars, handlerVars>>

Q == INSTANCE AnnouncementQueue

Threads == Ann \union Stops

WorkerPC == {"loop", "taken", "speaking", "select", "activate", "start",
             "await", "timeout", "release", "decide", "report", "ended", "settle"}

HandlerPC == {"idle", "read", "offer", "aim", "stop", "clear", "done"}

Engines == {"url", "remote", "device"}
Settled == {"finished", "error", "interrupted"}

Rank(a) == req[a].rank

TypeOK ==
    /\ Q!TypeOK
    /\ current \in Ann \union {NoAnn}
    /\ state \in {"IDLE", "SPEAKING", "BUSY"}
    /\ wakeLock \in BOOLEAN
    /\ pc \in WorkerPC
    /\ next \in Ann \union {NoAnn}
    /\ plan \in Seq(Engines)
    /\ onUrl \in BOOLEAN
    /\ active \in Engines \union {"none"}
    /\ attempt \in Nat
    /\ playback \in {"none", "playing"} \union Settled
    /\ outcome \in {"none", "timeout"} \union Settled
    /\ focus \in BOOLEAN
    /\ result \in [Ann -> {"none", "success", "interrupted", "failed"}]
    /\ cutOff \in [Ann -> {"no", "awaited", "late"}]
    /\ handler \in [Threads -> HandlerPC]
    /\ interrupts \in [Ann -> BOOLEAN]
    /\ aim \in [Threads -> [engine : Engines \union {"none"}, attempt : Nat]]

NoAim == [engine |-> "none", attempt |-> 0]

Init ==
    /\ Q!Init
    /\ current = NoAnn
    /\ state = "IDLE"
    /\ wakeLock = FALSE
    /\ pc = "loop"
    /\ next = NoAnn
    /\ plan = <<>>
    /\ onUrl = FALSE
    /\ active = "none"
    /\ attempt = 0
    /\ playback = "none"
    /\ outcome = "none"
    /\ focus = FALSE
    /\ result = [a \in Ann |-> "none"]
    /\ cutOff = [a \in Ann |-> "no"]
    /\ handler = [t \in Threads |-> "idle"]
    /\ interrupts = [a \in Ann |-> FALSE]
    /\ aim = [t \in Threads |-> NoAim]

(* The definitions named Mutant... are deliberately wrong forms of the      *)
(* definition after them; no action uses them.                              *)

-----------------------------------------------------------------------------
(* Handler threads: POST /announce and onStartCommand                       *)

GoTo(t, where) == handler' = [handler EXCEPT ![t] = where]

Receive(a) ==
    /\ handler[a] = "idle"
    /\ Q!Build(a)
    /\ GoTo(a, "read")
    /\ UNCHANGED <<serviceVars, pc, engineVars, historyVars, interrupts, aim>>

(* enqueue looks at `current` before it offers.                             *)
MayInterrupt(a, playing) ==
    /\ playing # NoAnn
    /\ Rank(a) < Rank(playing)
    /\ req[playing].interruptible \/ Rank(a) = 0

ReadCurrent(a) ==
    /\ handler[a] = "read"
    /\ interrupts' = [interrupts EXCEPT ![a] = MayInterrupt(a, current)]
    /\ GoTo(a, "offer")
    /\ UNCHANGED <<queueVars, serviceVars, pc, engineVars, historyVars, aim>>

Enqueue(a) ==
    /\ handler[a] = "offer"
    /\ \/ Q!OfferDuplicate(a) /\ GoTo(a, "done")
       \/ Q!OfferAccept(a) /\ GoTo(a, IF interrupts[a] THEN "aim" ELSE "done")
    /\ UNCHANGED <<serviceVars, pc, engineVars, historyVars, interrupts, aim>>

RequestStop(s) ==
    /\ handler[s] = "idle"
    /\ GoTo(s, "aim")
    /\ UNCHANGED <<queueVars, serviceVars, pc, engineVars, historyVars, interrupts, aim>>

(* After interruptCurrent only a stop request with clear=true has more to   *)
(* do.                                                                      *)
AfterInterrupt(t) == IF t \in Clearing THEN "clear" ELSE "done"

(* interruptCurrent, first half: activeProvider.get()                       *)
Aim(t) ==
    /\ handler[t] = "aim"
    /\ aim' = [aim EXCEPT ![t] = [engine |-> active, attempt |-> attempt]]
    /\ GoTo(t, IF active = "none" THEN AfterInterrupt(t) ELSE "stop")
    /\ UNCHANGED <<queueVars, serviceVars, pc, engineVars, historyVars, interrupts>>

(* A stop reaches the playback in progress if its target is the object that *)
(* is playing: the shared provider of the attempt, or its remote instance.  *)
Reaches(target) ==
    /\ playback = "playing"
    /\ target.engine = active
    /\ active = "remote" => target.attempt = attempt

(* interruptCurrent, second half: p.stop()                                  *)
Stop(t) ==
    /\ handler[t] = "stop"
    /\ IF Reaches(aim[t])
         THEN /\ playback' = "interrupted"
              /\ cutOff' = [cutOff EXCEPT ![next] =
                               IF pc = "await" THEN "awaited" ELSE "late"]
         ELSE UNCHANGED <<playback, cutOff>>
    /\ GoTo(t, AfterInterrupt(t))
    /\ aim' = [aim EXCEPT ![t] = NoAim]
    /\ UNCHANGED <<queueVars, serviceVars, pc, next, plan, onUrl, active,
                   attempt, outcome, focus, result, interrupts>>

(* A clear that forgets the recently accepted keys too.                     *)
MutantClearRecent(s) ==
    /\ handler[s] = "clear"
    /\ IF heap = {} THEN UNCHANGED queueVars
       ELSE /\ heap' = {}
            /\ fate' = Q!Drop(fate, heap, "cleared")
            /\ recent' = [k \in Keys |-> Q!NoTime]
            /\ UNCHANGED <<now, req, born, worker, acceptedAt, accepted>>
    /\ GoTo(s, "done")
    /\ UNCHANGED <<serviceVars, pc, engineVars, historyVars, interrupts, aim>>

ClearQueue(s) ==
    /\ handler[s] = "clear"
    /\ IF heap = {} THEN UNCHANGED queueVars ELSE Q!Clear
    /\ GoTo(s, "done")
    /\ UNCHANGED <<serviceVars, pc, engineVars, historyVars, interrupts, aim>>

-----------------------------------------------------------------------------
(* The worker loop                                                          *)

CallTake ==
    /\ pc = "loop"
    /\ Q!CallTake
    /\ UNCHANGED <<serviceVars, pc, engineVars, historyVars, handlerVars>>

TakeNothing ==
    /\ Q!TakeNothing
    /\ UNCHANGED <<serviceVars, pc, engineVars, historyVars, handlerVars>>

Take(a) ==
    /\ Q!TakeFresh(a)
    /\ next' = a
    /\ pc' = "taken"
    /\ UNCHANGED <<serviceVars, plan, onUrl, active, attempt, playback, outcome,
                   focus, historyVars, handlerVars>>

SetCurrent ==
    /\ pc = "taken"
    /\ current' = next
    /\ pc' = "speaking"
    /\ UNCHANGED <<queueVars, state, wakeLock, engineVars, historyVars, handlerVars>>

SetSpeaking ==
    /\ pc = "speaking"
    /\ state' = "SPEAKING"
    /\ wakeLock' = TRUE
    /\ pc' = "select"
    /\ UNCHANGED <<queueVars, current, engineVars, historyVars, handlerVars>>

(* engine.play: a url is tried by itself, a text through the chain the      *)
(* registry resolves at that moment.                                        *)
Select ==
    /\ pc = "select"
    /\ \/ /\ req[next].audio \in {"url", "both"}
          /\ plan' = <<"url">> /\ onUrl' = TRUE
       \/ /\ req[next].audio = "text"
          /\ plan' \in Chains /\ onUrl' = FALSE
    /\ pc' = "activate"
    /\ UNCHANGED <<queueVars, serviceVars, next, active, attempt, playback,
                   outcome, focus, historyVars, handlerVars>>

(* attempt: the provider is active, and focus requested, before it plays.   *)
Activate ==
    /\ pc = "activate"
    /\ active' = Head(plan)
    /\ plan' = Tail(plan)
    /\ attempt' = attempt + 1
    /\ playback' = "none"
    /\ outcome' = "none"
    /\ focus' = TRUE
    /\ pc' = "start"
    /\ UNCHANGED <<queueVars, serviceVars, next, onUrl, historyVars, handlerVars>>

Start ==
    /\ pc = "start"
    /\ playback' = "playing"
    /\ pc' = "await"
    /\ UNCHANGED <<queueVars, serviceVars, next, plan, onUrl, active, attempt,
                   outcome, focus, historyVars, handlerVars>>

(* The provider settles by itself: onFinished or onError.                   *)
Settle(how) ==
    /\ playback = "playing"
    /\ playback' = how
    /\ UNCHANGED <<queueVars, serviceVars, pc, next, plan, onUrl, active, attempt,
                   outcome, focus, historyVars, handlerVars>>

(* done.await returns true.                                                 *)
AwaitDone ==
    /\ pc = "await"
    /\ playback \in Settled
    /\ outcome' = playback
    /\ pc' = "release"
    /\ UNCHANGED <<queueVars, serviceVars, next, plan, onUrl, active, attempt,
                   playback, focus, historyVars, handlerVars>>

(* A wait without end for a url.                                            *)
MutantUrlNeverTimesOut ==
    /\ pc = "await"
    /\ playback = "playing" /\ active # "url"
    /\ pc' = "timeout"
    /\ UNCHANGED <<queueVars, serviceVars, engineVars, historyVars, handlerVars>>

(* done.await returns false; the provider may still settle, or be stopped,  *)
(* before the worker stops it.                                              *)
AwaitTimeout ==
    /\ pc = "await"
    /\ playback = "playing"
    /\ pc' = "timeout"
    /\ UNCHANGED <<queueVars, serviceVars, engineVars, historyVars, handlerVars>>

(* The provider left playing after a timeout.                               *)
MutantNoStop ==
    /\ pc = "timeout"
    /\ outcome' = "timeout"
    /\ pc' = "release"
    /\ UNCHANGED <<queueVars, serviceVars, next, plan, onUrl, active, attempt,
                   playback, focus, historyVars, handlerVars>>

(* "timeout" noted before provider.stop() and overwritten by it.            *)
MutantStopLast ==
    /\ pc = "timeout"
    /\ playback' = IF playback = "playing" THEN "interrupted" ELSE playback
    /\ outcome' = playback'
    /\ pc' = "release"
    /\ UNCHANGED <<queueVars, serviceVars, next, plan, onUrl, active, attempt,
                   focus, historyVars, handlerVars>>

StopAfterTimeout ==
    /\ pc = "timeout"
    /\ playback' = IF playback = "playing" THEN "interrupted" ELSE playback
    /\ outcome' = "timeout"
    /\ pc' = "release"
    /\ UNCHANGED <<queueVars, serviceVars, next, plan, onUrl, active, attempt,
                   focus, historyVars, handlerVars>>

(* Focus given up only when the provider answered, not in a finally.        *)
MutantKeepFocus ==
    /\ pc = "release"
    /\ focus' = (outcome = "timeout")
    /\ active' = "none"
    /\ pc' = "decide"
    /\ UNCHANGED <<queueVars, serviceVars, next, plan, onUrl, attempt, playback,
                   outcome, historyVars, handlerVars>>

Release ==
    /\ pc = "release"
    /\ focus' = FALSE
    /\ active' = "none"
    /\ pc' = "decide"
    /\ UNCHANGED <<queueVars, serviceVars, next, plan, onUrl, attempt, playback,
                   outcome, historyVars, handlerVars>>

(* An interruption taken for a failure, which goes on to the next engine.   *)
MutantFallBackAlways ==
    /\ pc = "decide"
    /\ LET over == outcome = "finished"
       IN  \/ /\ ~over /\ plan # <<>>
              /\ pc' = "activate"
              /\ UNCHANGED <<plan, onUrl>>
           \/ /\ over \/ plan = <<>>
              /\ pc' = "report"
              /\ UNCHANGED <<plan, onUrl>>
    /\ UNCHANGED <<queueVars, serviceVars, next, active, attempt, playback,
                   outcome, focus, historyVars, handlerVars>>

(* runEngineChain and play: success and interruption end the announcement,  *)
(* a failure goes on to the next engine, from the url to the chain if the   *)
(* announcement has a text.                                                 *)
Decide ==
    /\ pc = "decide"
    /\ LET over == outcome \in {"finished", "interrupted"}
       IN  \/ /\ ~over /\ plan # <<>>
              /\ pc' = "activate"
              /\ UNCHANGED <<plan, onUrl>>
           \/ /\ ~over /\ plan = <<>> /\ onUrl /\ req[next].audio = "both"
              /\ pc' = "activate"
              /\ plan' \in Chains /\ onUrl' = FALSE
           \/ /\ \/ over
                 \/ plan = <<>> /\ ~(onUrl /\ req[next].audio = "both")
              /\ pc' = "report"
              /\ UNCHANGED <<plan, onUrl>>
    /\ UNCHANGED <<queueVars, serviceVars, next, active, attempt, playback,
                   outcome, focus, historyVars, handlerVars>>

(* The outcome of the last attempt passed on as it is.                      *)
MutantReportOutcome ==
    /\ pc = "report"
    /\ result' = [result EXCEPT ![next] = outcome]
    /\ pc' = "ended"
    /\ UNCHANGED <<queueVars, serviceVars, engineVars, cutOff, handlerVars>>

(* onAnnouncementFinished                                                   *)
Report ==
    /\ pc = "report"
    /\ result' = [result EXCEPT ![next] =
                     CASE outcome = "finished" -> "success"
                       [] outcome = "interrupted" -> "interrupted"
                       [] OTHER -> "failed"]
    /\ pc' = "ended"
    /\ UNCHANGED <<queueVars, serviceVars, engineVars, cutOff, handlerVars>>

ResetCurrent ==
    /\ pc = "ended"
    /\ current' = NoAnn
    /\ pc' = "settle"
    /\ UNCHANGED <<queueVars, state, wakeLock, engineVars, historyVars, handlerVars>>

SetIdleOrBusy ==
    /\ pc = "settle"
    /\ state' = IF heap # {} THEN "BUSY" ELSE "IDLE"
    /\ wakeLock' = FALSE
    /\ pc' = "loop"
    /\ UNCHANGED <<queueVars, current, engineVars, historyVars, handlerVars>>

Tick ==
    /\ Q!Tick
    /\ UNCHANGED <<serviceVars, pc, engineVars, historyVars, handlerVars>>

-----------------------------------------------------------------------------
Handle(t) ==
    \/ t \in Ann /\ (ReadCurrent(t) \/ Enqueue(t))
    \/ Aim(t) \/ Stop(t)
    \/ t \in Stops /\ ClearQueue(t)

(* What the worker does outside the queue and outside await.                *)
Work ==
    \/ SetCurrent \/ SetSpeaking \/ Select \/ Activate \/ Start \/ AwaitDone
    \/ StopAfterTimeout \/ Release \/ Decide \/ Report \/ ResetCurrent
    \/ SetIdleOrBusy

Fetch == CallTake \/ TakeNothing \/ \E a \in heap : Take(a)

Next ==
    \/ \E a \in Ann : Receive(a)
    \/ \E s \in Stops : RequestStop(s)
    \/ \E t \in Threads : Handle(t)
    \/ Fetch
    \/ Work
    \/ AwaitTimeout
    \/ \E how \in {"finished", "error"} : Settle(how)
    \/ Tick

Spec == Init /\ [][Next]_vars

(* The threads run, and done.await(timeoutMs) returns in the end, whatever  *)
(* the provider does.  A provider need never settle by itself.              *)
FairSpec ==
    /\ Spec
    /\ \A t \in Threads : WF_vars(Handle(t))
    /\ WF_vars(Fetch)
    /\ WF_vars(Work)
    /\ WF_vars(AwaitTimeout)

-----------------------------------------------------------------------------
(* What is audible is what the service reports and can reach: while a       *)
(* playback is in progress its provider is the active one, audio focus and  *)
(* the wake lock are held, /status says SPEAKING with this announcement as  *)
(* current, and its finish has not been reported.                           *)
AudibleIsReported ==
    playback = "playing" =>
        /\ active # "none" /\ focus /\ wakeLock
        /\ state = "SPEAKING" /\ current = next
        /\ fate[next] = "taken" /\ result[next] = "none"

(* A worker that waits for work holds nothing back: no announcement is      *)
(* current, no provider active or playing, focus and wake lock are given    *)
(* up, and every announcement taken so far has been reported.               *)
QuietWhenWaiting ==
    worker = "waiting" =>
        /\ current = NoAnn /\ state # "SPEAKING"
        /\ active = "none" /\ playback # "playing"
        /\ ~focus /\ ~wakeLock
        /\ \A a \in Ann : fate[a] = "taken" => result[a] # "none"

(* An announcement whose awaited playback was stopped is not heard again:   *)
(* the chain ends with the interrupted attempt, also when the stop was      *)
(* meant for an earlier attempt and reached this one through the provider   *)
(* they share.                                                              *)
InterruptEndsIt ==
    playback = "playing" => cutOff[next] # "awaited"

(* "interrupted" is reported exactly for announcements that a stop cut off: *)
(* the stop the worker itself calls after a timeout is a failure, and goes  *)
(* on to the next engine.  (So does a stop that comes after the timeout and *)
(* before the worker's own, cutOff "late": attempt notes "timeout" over the *)
(* provider's "interrupted", and the chain plays on.)                       *)
InterruptedMeansStopped ==
    \A a \in Ann : result[a] # "none" => (result[a] = "interrupted" <=> cutOff[a] = "awaited")

(* The service uses its queue only through the queue's methods: whatever    *)
(* holds of AnnouncementQueue holds here.                                   *)
ImplementsQueue == Q!Spec

(* Every accepted announcement is answered for, though a provider may never *)
(* settle and stops arrive at any time: it is dropped as stale, cleared, or *)
(* taken and its finish reported.                                           *)
EveryAcceptedEnds ==
    \A a \in Ann : fate[a] = "queued" ~>
        fate[a] \in {"stale", "cleared"} \/ result[a] # "none"

-----------------------------------------------------------------------------
(* The interruption rules of the documentation, which the code breaks.      *)

(* "Any other priority only interrupts the current item if the current      *)
(* item's interruptible is true and the new item has strictly higher        *)
(* priority" (docs/reference.md:108): the announcement a handler cuts off   *)
(* is one its own announcement may interrupt.                               *)
OnlyRuledInterruptions ==
    [][\A a \in Ann :
          handler[a] = "stop" /\ handler'[a] = "done" /\ Reaches(aim[a])
             => MayInterrupt(a, next)]_vars
=============================================================================
