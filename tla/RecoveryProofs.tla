---------------------------- MODULE RecoveryProofs ----------------------------
(***************************************************************************)
(* Proofs about Recovery, for every number of unfinished outages and of     *)
(* pushes on the wire.                                                      *)
(*                                                                          *)
(* Neither conjunct is inductive alone: that there is at most one timer     *)
(* needs that an outage is noticed only when none is, and that the manager  *)
(* stops the right number of timers needs that there is one per outage      *)
(* noticed.                                                                 *)
(***************************************************************************)
EXTENDS Recovery, FiniteSetTheorems, TLAPS

IInv == TypeOK /\ RetriedWhileNoticed

(* A step that leaves the manager, the entry's phase and success alone.     *)
LEMMA ManagerUntouched ==
    ASSUME RetriedWhileNoticed,
           UNCHANGED <<phase, was, timers, success>>,
           \A o \in Outages : outage'[o] = "noticed" <=> outage[o] = "noticed"
    PROVE  RetriedWhileNoticed'
BY DEF RetriedWhileNoticed, Noticed, Listening

(* What Cardinality(Noticed) is, which Recover and Unload subtract.         *)
LEMMA TimersCountOutages ==
    ASSUME IInv
    PROVE  timers = Cardinality(Noticed)
<1>1. CASE timers = 0
  BY <1>1, FS_EmptySet DEF IInv, RetriedWhileNoticed
<1>2. CASE timers = 1
  <2>1. PICK o \in Outages : Noticed = {o}
    BY <1>2 DEF IInv, RetriedWhileNoticed
  <2> QED
    BY <1>2, <2>1, FS_Singleton
<1> QED
  BY <1>1, <1>2 DEF IInv, TypeOK

LEMMA RegistrationKeepsTypes ==
    ASSUME TypeOK, TakesRegistration
    PROVE  up' \in BOOLEAN /\ told' \in BOOLEAN /\ pushes' \in 0..MaxPushes
BY RecoveryAssumption DEF TypeOK, TakesRegistration

LEMMA RecoverKeeps ==
    ASSUME IInv, Listening, Recover, was' = TRUE, success' = TRUE,
           UNCHANGED <<phase, heard>>
    PROVE  /\ timers' = 0 /\ outage' \in [Outages -> OutageStates]
           /\ RetriedWhileNoticed'
<1>1. timers' = 0
  BY TimersCountOutages DEF Recover, IInv, TypeOK
<1>2. outage' \in [Outages -> OutageStates]
  BY DEF Recover, IInv, TypeOK, OutageStates
<1>3. Noticed' = {}
  BY DEF Noticed, Recover
<1> QED
  BY <1>1, <1>2, <1>3 DEF RetriedWhileNoticed

LEMMA AlarmKeeps ==
    ASSUME IInv, Listening, was, Alarm, was' = FALSE, success' = FALSE,
           UNCHANGED phase
    PROVE  /\ timers' = 1 /\ outage' \in [Outages -> OutageStates]
           /\ RetriedWhileNoticed'
<1>1. timers = 0 /\ Noticed = {}
  BY DEF IInv, TypeOK, RetriedWhileNoticed
<1>2. PICK o \in Outages : /\ outage[o] = "free"
                           /\ outage' = [outage EXCEPT ![o] = "noticed"]
  BY DEF Alarm
<1>3. Noticed' = {o}
  BY <1>1, <1>2 DEF Noticed, IInv, TypeOK
<1>4. timers' = 1
  BY <1>1 DEF Alarm
<1>5. outage' \in [Outages -> OutageStates]
  BY <1>2 DEF IInv, TypeOK, OutageStates
<1> QED
  BY <1>3, <1>4, <1>5 DEF RetriedWhileNoticed, Listening

(* An update reported to the listeners, if there are any.                   *)
LEMMA UpdateKeeps ==
    ASSUME IInv, NEW b \in BOOLEAN, TellListeners(b), success' = b,
           UNCHANGED phase
    PROVE  /\ was' \in BOOLEAN /\ timers' \in {0, 1}
           /\ outage' \in [Outages -> OutageStates]
           /\ heard' \in {"nothing", "recovery_needed", "recovered"}
           /\ RetriedWhileNoticed'
<1>1. CASE ~Listening
  BY <1>1 DEF TellListeners, managerVars, IInv, TypeOK, RetriedWhileNoticed,
              Noticed, Listening
<1>2. CASE Listening
  <2>0. _handle_update(b)
    BY <1>2 DEF TellListeners
  <2>1. CASE b /\ ~was /\ Recover /\ UNCHANGED heard
    BY <1>2, <2>0, <2>1, RecoverKeeps DEF _handle_update, IInv, TypeOK
  <2>2. CASE ~b /\ was /\ Alarm
    <3>1. heard' = "recovery_needed"
      BY <2>2 DEF Alarm
    <3> QED
      BY <1>2, <2>0, <2>2, <3>1, AlarmKeeps DEF _handle_update
  <2>3. CASE b = was /\ UNCHANGED <<timers, outage, heard>>
    BY <1>2, <2>0, <2>3 DEF _handle_update, IInv, TypeOK, RetriedWhileNoticed,
                            Noticed, Listening
  <2> QED
    BY <2>0, <2>1, <2>2, <2>3 DEF _handle_update
<1> QED
  BY <1>1, <1>2

(* The timer runs exactly during an outage that was noticed, for every      *)
(* number of outages and pushes.                                            *)
THEOREM RecoveryInvariance == Spec => [](TypeOK /\ RetriedWhileNoticed)
<1>1. Init => IInv
  <2> SUFFICES ASSUME Init PROVE IInv
    OBVIOUS
  <2>1. pushes \in 0..MaxPushes
    BY RecoveryAssumption DEF Init
  <2>2. TypeOK
    BY <2>1 DEF Init, TypeOK, Phases, Requests, OutageStates
  <2>3. RetriedWhileNoticed
    BY DEF Init, RetriedWhileNoticed, Listening, Noticed
  <2> QED
    BY <2>2, <2>3 DEF IInv
<1>2. IInv /\ [Next]_vars => IInv'
  <2> SUFFICES ASSUME IInv, [Next]_vars
               PROVE  IInv'
    OBVIOUS
  <2>t. TypeOK /\ RetriedWhileNoticed
    BY DEF IInv
  <2> USE DEF setupVars, boxVars, coordinatorVars, managerVars
  <2>1. ASSUME Appear \/ Forget \/ Push \/ PushLost PROVE IInv'
    <3>1. TypeOK'
      <4>1. up' \in BOOLEAN /\ told' \in BOOLEAN
        BY <2>1, <2>t, Zenon DEF Appear, Forget, Push, PushLost, TypeOK
      <4>2. pushes' \in 0..MaxPushes
        BY <2>1, <2>t, RecoveryAssumption DEF Appear, Forget, Push, PushLost, TypeOK
      <4>3. UNCHANGED <<setupVars, coordinatorVars, managerVars>>
        BY <2>1 DEF Appear, Forget, Push, PushLost
      <4> QED
        BY <2>t, <4>1, <4>2, <4>3 DEF TypeOK
    <3>2. RetriedWhileNoticed'
      BY <2>1, <2>t, ManagerUntouched DEF Appear, Forget, Push, PushLost
    <3> QED
      BY <3>1, <3>2 DEF IInv
  <2>2. CASE ReceivePush
    <3>1. CASE phase \in {"registering", "loaded"}
      <4>1. success' = TRUE /\ TellListeners(TRUE) /\ UNCHANGED phase
        BY <2>2, <3>1 DEF ReceivePush
      <4> HIDE DEF managerVars
      <4>2. /\ was' \in BOOLEAN /\ timers' \in {0, 1}
            /\ outage' \in [Outages -> OutageStates]
            /\ heard' \in {"nothing", "recovery_needed", "recovered"}
            /\ RetriedWhileNoticed'
        BY <4>1, UpdateKeeps
      <4> QED
        BY <2>2, <2>t, <4>1, <4>2, RecoveryAssumption DEF ReceivePush, IInv, TypeOK
    <3>2. CASE phase \notin {"registering", "loaded"}
      <4>1. RetriedWhileNoticed'
        BY <2>2, <3>2, <2>t, ManagerUntouched DEF ReceivePush
      <4> QED
        BY <2>2, <3>2, <2>t, <4>1, RecoveryAssumption DEF ReceivePush, IInv, TypeOK
    <3> QED
      BY <3>1, <3>2
  <2>3. ASSUME StartPoll \/ ReachPoll PROVE IInv'
    <3>1. TypeOK'
      BY <2>3, <2>t DEF StartPoll, ReachPoll, TypeOK, Requests, Reached
    <3>2. RetriedWhileNoticed'
      BY <2>3, <2>t, ManagerUntouched DEF StartPoll, ReachPoll
    <3> QED
      BY <3>1, <3>2 DEF IInv
  <2>4. CASE EndPoll
    <3>0. UNCHANGED <<boxVars, setupVars, before>> /\ poll' = "none"
      BY <2>4 DEF EndPoll
    <3>1. ASSUME NEW b \in BOOLEAN, success' = b, TellListeners(b) PROVE IInv'
      <4>1. /\ was' \in BOOLEAN /\ timers' \in {0, 1}
            /\ outage' \in [Outages -> OutageStates]
            /\ heard' \in {"nothing", "recovery_needed", "recovered"}
            /\ RetriedWhileNoticed'
        BY <3>0, <3>1, UpdateKeeps
      <4> QED
        BY <2>t, <3>0, <3>1, <4>1 DEF IInv, TypeOK, Requests
    <3>2. ASSUME success' = FALSE, UNCHANGED managerVars PROVE IInv'
      <4>1. RetriedWhileNoticed'
        BY <2>t, <3>0, <3>2 DEF RetriedWhileNoticed, Noticed, Listening
      <4> QED
        BY <2>t, <3>0, <3>2, <4>1 DEF IInv, TypeOK, Requests
    <3> QED
      BY <2>4, <3>1, <3>2 DEF EndPoll
  <2>5. CASE _retry_tick
    <3>1. RetriedWhileNoticed'
      BY <2>5, <2>t, ManagerUntouched DEF _retry_tick
    <3> QED
      BY <2>5, <2>t, <3>1 DEF _retry_tick, IInv, TypeOK
  <2>6. ASSUME NEW o \in Outages, RegisterAgain(o) PROVE IInv'
    <3>1. RetriedWhileNoticed'
      BY <2>6, <2>t, ManagerUntouched DEF RegisterAgain, TypeOK, Reached,
         RegistrationAnswers
    <3>2. up' \in BOOLEAN /\ told' \in BOOLEAN /\ pushes' \in 0..MaxPushes
      BY <2>6, <2>t, RegistrationKeepsTypes DEF RegisterAgain
    <3> QED
      BY <2>6, <2>t, <3>1, <3>2 DEF RegisterAgain, IInv, TypeOK, OutageStates,
         Reached, RegistrationAnswers
  <2>7. ASSUME NEW o \in Outages, FireRecovered(o) PROVE IInv'
    <3>1. RetriedWhileNoticed'
      BY <2>7, <2>t, ManagerUntouched DEF FireRecovered, TypeOK
    <3> QED
      BY <2>7, <2>t, <3>1 DEF FireRecovered, IInv, TypeOK, OutageStates
  <2>8. CASE Setup
    BY <2>8, <2>t DEF Setup, IInv, TypeOK, RetriedWhileNoticed, Noticed,
                      Listening, Phases, Requests
  <2>9. ASSUME Refresh \/ NotReady \/ Ready PROVE IInv'
    BY <2>9, <2>t DEF Refresh, NotReady, Ready, IInv, TypeOK, Reached,
       RetriedWhileNoticed, Noticed, Listening, Phases, Requests
  <2>10. CASE Register
    <3>1. RetriedWhileNoticed'
      BY <2>10, <2>t, ManagerUntouched DEF Register
    <3>2. up' \in BOOLEAN /\ told' \in BOOLEAN /\ pushes' \in 0..MaxPushes
      BY <2>10, <2>t, RegistrationKeepsTypes DEF Register
    <3> QED
      BY <2>10, <2>t, <3>1, <3>2 DEF Register, IInv, TypeOK, Requests, Reached,
         RegistrationAnswers
  <2>11. CASE Load
    BY <2>11, <2>t DEF Load, IInv, TypeOK, RetriedWhileNoticed, Noticed,
                       Listening, Phases, Requests
  <2>12. CASE Unload
    <3>1. timers' = 0
      BY <2>12, TimersCountOutages DEF Unload, IInv, TypeOK
    <3>2. outage' \in [Outages -> OutageStates] /\ Noticed' = {}
      BY <2>12, <2>t DEF Unload, TypeOK, Noticed, OutageStates
    <3> QED
      BY <2>12, <2>t, <3>1, <3>2 DEF Unload, IInv, TypeOK, RetriedWhileNoticed,
                                     Listening, Phases, Requests
  <2>13. CASE UNCHANGED vars
    BY <2>13, <2>t DEF vars, IInv, TypeOK, RetriedWhileNoticed, Noticed, Listening
  <2> QED
    BY <2>1, <2>2, <2>3, <2>4, <2>5, <2>6, <2>7, <2>8, <2>9, <2>10, <2>11,
       <2>12, <2>13 DEF Next, Task
<1> QED
  BY <1>1, <1>2, PTL DEF Spec, IInv

(* Type correctness of the recovery, for every number of outages and pushes. *)
THEOREM RecoveryTyping == Spec => []TypeOK
  BY RecoveryInvariance, PTL
=============================================================================
