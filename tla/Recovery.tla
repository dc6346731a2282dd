------------------------------- MODULE Recovery -------------------------------
(***************************************************************************)
(* How Home Assistant notices that a box is gone and that it is back: the  *)
(* life of a config entry (__init__.py), the coordinator that polls         *)
(* (coordinator.py), the webhook the box pushes to (webhook.py) and the     *)
(* RecoveryManager that listens to both (recovery.py).                      *)
(*                                                                          *)
(* All of it runs on one event loop: a step ends at an await.  What is in   *)
(* flight across awaits is the poll, the pushes and, for each outage that   *)
(* ended, the task that registers the webhook again before it fires         *)
(* ttsbridge_recovered.  A request is decided when it reaches the box or    *)
(* fails to, and its answer is handled later, whatever happened since.      *)
(*                                                                          *)
(* DataUpdateCoordinator belongs to Home Assistant.  What is assumed of it: *)
(* it polls only while somebody listens, one poll at a time; a push and a   *)
(* successful poll call the listeners, a failed poll only if the update     *)
(* before it, as it was when the poll began, had succeeded.                 *)
(***************************************************************************)
EXTENDS Integers, FiniteSets

CONSTANTS
    Outages,        \* the outages that may be unfinished at one time
    MaxPushes       \* bound on the pushes on the wire

ASSUME RecoveryAssumption == MaxPushes \in Nat

VARIABLES
    up,             \* the service on the box runs and can be reached
    told,           \* the box has the webhook's url (kept in its preferences)
    pushes,         \* pushes on the wire
    phase,          \* where async_setup_entry is (Phases)
    urlKnown,       \* async_get_webhook_url found an internal url
    request,        \* setup's own request to the box (Requests)
    success,        \* coordinator.last_update_success
    poll,           \* the poll in flight (Requests)
    before,         \* last_update_success when that poll began
    was,            \* RecoveryManager._was_available
    timers,         \* interval timers of recovery managers that are running
    outage,         \* history and task of each outage (OutageStates)
    heard           \* the last event of this entry an automation received

boxVars == <<up, told, pushes>>
setupVars == <<phase, urlKnown, request>>
coordinatorVars == <<success, poll, before>>
managerVars == <<was, timers, outage, heard>>
vars == <<boxVars, setupVars, coordinatorVars, managerVars>>

Phases == {"unloaded", "refreshing", "registering", "loaded"}
Requests == {"none", "sent", "answered", "failed"}

(* An outage is noticed, then over; its task sends the registration and     *)
(* waits.  An entry unloaded meanwhile abandons the outage.                 *)
OutageStates == {"free", "noticed", "sent", "answered", "failed"}

TypeOK ==
    /\ up \in BOOLEAN /\ told \in BOOLEAN
    /\ pushes \in 0..MaxPushes
    /\ phase \in Phases /\ urlKnown \in BOOLEAN /\ request \in Requests
    /\ success \in BOOLEAN /\ poll \in Requests /\ before \in BOOLEAN
    /\ was \in BOOLEAN
    /\ timers \in {0, 1}
    /\ outage \in [Outages -> OutageStates]
    /\ heard \in {"nothing", "recovery_needed", "recovered"}

Init ==
    /\ up \in BOOLEAN
    /\ told = FALSE
    /\ pushes = 0
    /\ phase = "unloaded"
    /\ urlKnown = FALSE
    /\ request = "none"
    /\ success = TRUE
    /\ poll = "none"
    /\ before = TRUE
    /\ was = TRUE
    /\ timers = 0
    /\ outage = [o \in Outages |-> "free"]
    /\ heard = "nothing"

(* The definitions named Mutant... are deliberately wrong forms of the      *)
(* definition after them; no action uses them.                              *)

-----------------------------------------------------------------------------
(* The box                                                                  *)

(* The process dies, or the network does, and it comes back.                *)
Appear ==
    /\ up' = ~up
    /\ UNCHANGED <<told, pushes, setupVars, coordinatorVars, managerVars>>

(* The app's data are cleared, or it is installed anew.                     *)
Forget ==
    /\ ~up
    /\ told' = FALSE
    /\ UNCHANGED <<up, pushes, setupVars, coordinatorVars, managerVars>>

(* pushWebhookUpdate, on a transition and on every heartbeat.               *)
Push ==
    /\ up /\ told /\ pushes < MaxPushes
    /\ pushes' = pushes + 1
    /\ UNCHANGED <<up, told, setupVars, coordinatorVars, managerVars>>

PushLost ==
    /\ pushes > 0
    /\ pushes' = pushes - 1
    /\ UNCHANGED <<up, told, setupVars, coordinatorVars, managerVars>>

(* A request meets the box, or does not.  A registration that does is kept, *)
(* and answered with a push of the present status; the box may vanish       *)
(* before its answer is through.                                            *)
Reached == IF up THEN "answered" ELSE "failed"
RegistrationAnswers == {Reached, "failed"}

TakesRegistration ==
    /\ told' = (told \/ up)
    /\ pushes' = IF up /\ pushes < MaxPushes THEN pushes + 1 ELSE pushes
    /\ UNCHANGED up

-----------------------------------------------------------------------------
(* RecoveryManager                                                          *)

(* The outage of the present manager, which has a timer while there is one. *)
Noticed == {o \in Outages : outage[o] = "noticed"}

(* The end of an outage without the cancelling of its timer.                *)
MutantRecoverKeepsTimer ==
    /\ timers' = timers
    /\ outage' = [o \in Outages |->
          CASE outage[o] # "noticed" -> outage[o]
            [] urlKnown -> "sent"
            [] OTHER -> "answered"]

(* Recovered: the timer is cancelled and the task created.                  *)
Recover ==
    /\ timers' = timers - Cardinality(Noticed)
    /\ outage' = [o \in Outages |->
          CASE outage[o] # "noticed" -> outage[o]
            [] urlKnown -> "sent"
            [] OTHER -> "answered"]

(* _fire_recovery_needed and _start_retry_timer, which starts a timer only  *)
(* if this manager has none.                                                *)
Alarm ==
    /\ \E o \in Outages : /\ outage[o] = "free"
                          /\ outage' = [outage EXCEPT ![o] = "noticed"]
    /\ timers' = IF Noticed = {} THEN timers + 1 ELSE timers
    /\ heard' = "recovery_needed"

(* _was_available kept as it was when the outage ends.                      *)
MutantForgetRecovery(available) ==
    /\ was' = (was /\ available)
    /\ \/ available /\ ~was /\ Recover /\ UNCHANGED heard
       \/ ~available /\ was /\ Alarm
       \/ available = was /\ UNCHANGED <<timers, outage, heard>>

_handle_update(available) ==
    /\ was' = available
    /\ \/ available /\ ~was /\ Recover /\ UNCHANGED heard
       \/ ~available /\ was /\ Alarm
       \/ available = was /\ UNCHANGED <<timers, outage, heard>>

(* The retries stop after the first.                                        *)
MutantTickSilent ==
    /\ timers > 0
    /\ UNCHANGED vars

_retry_tick ==
    /\ timers > 0
    /\ heard' = IF success THEN heard ELSE "recovery_needed"
    /\ UNCHANGED <<boxVars, setupVars, coordinatorVars, was, timers, outage>>

(* _async_on_recovered: the registration is sent, and whatever becomes of   *)
(* it, the event is fired.                                                  *)
RegisterAgain(o) ==
    /\ outage[o] = "sent"
    /\ \E answer \in RegistrationAnswers : outage' = [outage EXCEPT ![o] = answer]
    /\ TakesRegistration
    /\ UNCHANGED <<setupVars, coordinatorVars, was, timers, heard>>

(* Only a registration that succeeded is followed by the event.             *)
MutantFireIfRegistered(o) ==
    /\ outage[o] = "answered"
    /\ heard' = "recovered"
    /\ outage' = [outage EXCEPT ![o] = "free"]
    /\ UNCHANGED <<boxVars, setupVars, coordinatorVars, was, timers>>

FireRecovered(o) ==
    /\ outage[o] \in {"answered", "failed"}
    /\ heard' = "recovered"
    /\ outage' = [outage EXCEPT ![o] = "free"]
    /\ UNCHANGED <<boxVars, setupVars, coordinatorVars, was, timers>>

-----------------------------------------------------------------------------
(* The coordinator and the webhook                                          *)

Listening == phase = "loaded"

(* async_update_listeners                                                   *)
TellListeners(available) ==
    IF Listening THEN _handle_update(available) ELSE UNCHANGED managerVars

StartPoll ==
    /\ Listening /\ poll = "none"
    /\ poll' = "sent"
    /\ before' = success
    /\ UNCHANGED <<boxVars, setupVars, success, managerVars>>

ReachPoll ==
    /\ poll = "sent"
    /\ poll' = Reached
    /\ UNCHANGED <<boxVars, setupVars, success, before, managerVars>>

(* _async_update_data returned, or raised UpdateFailed.                     *)
EndPoll ==
    /\ \/ /\ poll = "answered"
          /\ success' = TRUE
          /\ TellListeners(TRUE)
       \/ /\ poll = "failed"
          /\ success' = FALSE
          /\ IF before THEN TellListeners(FALSE) ELSE UNCHANGED managerVars
    /\ poll' = "none"
    /\ UNCHANGED <<boxVars, setupVars, before>>

(* The webhook's handler: async_set_updated_data.                           *)
ReceivePush ==
    /\ pushes > 0
    /\ pushes' = pushes - 1
    /\ IF phase \in {"registering", "loaded"}
         THEN success' = TRUE /\ TellListeners(TRUE)
         ELSE UNCHANGED <<success, managerVars>>
    /\ UNCHANGED <<up, told, setupVars, poll, before>>

-----------------------------------------------------------------------------
(* The config entry                                                         *)

(* A new coordinator, and its first refresh.                                *)
Setup ==
    /\ phase = "unloaded" /\ request = "none"
    /\ phase' = "refreshing"
    /\ request' = "sent"
    /\ success' = TRUE
    /\ poll' = "none"
    /\ UNCHANGED <<boxVars, urlKnown, before, managerVars>>

Refresh ==
    /\ phase = "refreshing" /\ request = "sent"
    /\ request' = Reached
    /\ UNCHANGED <<boxVars, phase, urlKnown, coordinatorVars, managerVars>>

(* ConfigEntryNotReady: Home Assistant tries again later.                   *)
NotReady ==
    /\ phase = "refreshing" /\ request = "failed"
    /\ phase' = "unloaded"
    /\ request' = "none"
    /\ UNCHANGED <<boxVars, urlKnown, coordinatorVars, managerVars>>

(* The receiver is registered, and the box told if there is a url.          *)
Ready ==
    /\ phase = "refreshing" /\ request = "answered"
    /\ phase' = "registering"
    /\ urlKnown' \in BOOLEAN
    /\ request' = IF urlKnown' THEN "sent" ELSE "none"
    /\ UNCHANGED <<boxVars, coordinatorVars, managerVars>>

Register ==
    /\ phase = "registering" /\ request = "sent"
    /\ request' \in RegistrationAnswers
    /\ TakesRegistration
    /\ UNCHANGED <<phase, urlKnown, coordinatorVars, managerVars>>

(* The manager is made whatever became of the registration.                 *)
Load ==
    /\ phase = "registering" /\ request # "sent"
    /\ phase' = "loaded"
    /\ request' = "none"
    /\ was' = TRUE
    /\ UNCHANGED <<boxVars, urlKnown, coordinatorVars, timers, outage, heard>>

(* An unload that forgets the retry timer.                                  *)
MutantUnloadKeepsTimer ==
    /\ Listening
    /\ phase' = "unloaded"
    /\ poll' = "none"
    /\ outage' = [o \in Outages |-> IF o \in Noticed THEN "free" ELSE outage[o]]
    /\ UNCHANGED <<boxVars, urlKnown, request, success, before, was, timers, heard>>

(* unload() and async_unregister_webhook_receiver.  A poll in flight has    *)
(* nobody left to tell; a task goes on.                                     *)
Unload ==
    /\ Listening
    /\ phase' = "unloaded"
    /\ poll' = "none"
    /\ timers' = timers - Cardinality(Noticed)
    /\ outage' = [o \in Outages |-> IF o \in Noticed THEN "free" ELSE outage[o]]
    /\ UNCHANGED <<boxVars, urlKnown, request, success, before, was, heard>>

-----------------------------------------------------------------------------
Task == \E o \in Outages : RegisterAgain(o) \/ FireRecovered(o)

Next ==
    \/ Appear \/ Forget \/ Push \/ PushLost \/ ReceivePush
    \/ StartPoll \/ ReachPoll \/ EndPoll
    \/ _retry_tick
    \/ Task
    \/ Setup \/ Refresh \/ NotReady \/ Ready \/ Register \/ Load \/ Unload

Spec == Init /\ [][Next]_vars

(* The event loop runs what is due: the 30 s poll, the timer, answers and   *)
(* tasks (each request has a timeout).  Nothing is assumed of the box, of   *)
(* the pushes or of who sets up and unloads the entry.                      *)
FairSpec ==
    /\ Spec
    /\ WF_vars(StartPoll) /\ WF_vars(ReachPoll) /\ WF_vars(EndPoll)
    /\ WF_vars(_retry_tick)
    /\ \A o \in Outages : WF_vars(RegisterAgain(o) \/ FireRecovered(o))

-----------------------------------------------------------------------------
(* An outage that was noticed is asked about until an update succeeds, and  *)
(* nothing is asked for otherwise: the timer runs exactly while the manager *)
(* of a loaded entry believes the box is gone, there is then one such       *)
(* outage, and the last update did fail.                                    *)
RetriedWhileNoticed ==
    /\ timers = 1 <=> Listening /\ ~was
    /\ timers = 1 => ~success /\ \E o \in Outages : Noticed = {o}
    /\ timers = 0 => Noticed = {}

(* Once the box is back for good the requests for help stop, also those     *)
(* made in error by a poll that failed before it was back.                  *)
RetriesEnd == <>[]up => <>[](timers = 0)

(* Every outage that ended is announced as recovered, whether or not the    *)
(* registration succeeds, the box dies again or the entry is unloaded.      *)
RecoveryAnnounced ==
    \A o \in Outages : outage[o] \in {"sent", "answered"} ~> heard = "recovered"

(* The recovered event of an earlier outage may be late and follow the      *)
(* first request of the next one; the retries correct it.                   *)
LateRecoveredCorrected ==
    Listening /\ ~was ~> heard = "recovery_needed" \/ was \/ ~Listening

(* "keeps re-firing it every 150 seconds for as long as it stays down"      *)
(* (docs/reference.md:504): a box that is gone for good, with the entry     *)
(* loaded, is asked about for ever.                                         *)
RetriesWhileDown == <>[](~up /\ Listening) => <>[](timers = 1)
=============================================================================
