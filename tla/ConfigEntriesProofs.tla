------------------------- MODULE ConfigEntriesProofs -------------------------
(***************************************************************************)
(* Proofs about ConfigEntries, for every number of boxes, addresses,        *)
(* entries and webhook ids.                                                 *)
(***************************************************************************)
EXTENDS ConfigEntries, TLAPS

UnderWay == {"refreshing", "registering", "forwarding", "installing", "loaded"}
Hooked == {"registering", "forwarding", "installing", "loaded", "failed"}

(* Setup and its later phases have their entry, and a webhook id is kept    *)
(* from the first refresh to the unload.                                    *)
Phased ==
    \A e \in Entries :
        /\ phase[e] \in UnderWay => entry[e] # None
        /\ stored[e] # None <=> phase[e] \in Hooked

(* The webhook ids an entry answers to, or will once it is set up.          *)
Ids(e) == ({stored[e]} \cup {entry[f].token : f \in {e} \cap Existing}) \ {None}

IdsApart == \A e, f \in Entries : e # f => Ids(e) \cap Ids(f) = {}

(* While an entry is set up, its data and its client speak of one address   *)
(* and one webhook id, unless a reconfiguration has taken the id out.       *)
DataFollowed ==
    \A e \in Existing \ overlapped :
        /\ phase[e] = "refreshing" => client[e] = entry[e].host
        /\ stored[e] # None /\ entry[e].token # None =>
              entry[e].token = stored[e] /\ entry[e].host = client[e]

(* A box that was told an entry's id was told it at the entry's address.    *)
ToldThere ==
    \A e \in Existing \ overlapped, b \in Boxes : told[b] # None =>
        /\ told[b] = stored[e] => toldAt[b] = client[e]
        /\ told[b] = entry[e].token => toldAt[b] = entry[e].host

IInv ==
    TypeOK /\ HooksMatch /\ FilesOwned /\ Phased /\ IdsApart /\ DataFollowed /\ ToldThere

-----------------------------------------------------------------------------
LEMMA InitHolds == Init => IInv
<1> SUFFICES ASSUME Init PROVE IInv
  OBVIOUS
<1> USE DEF Init
<1>1. TypeOK
  BY DEF TypeOK, FlowSteps, Phases, Option
<1>2. HooksMatch /\ FilesOwned /\ Phased
  BY DEF HooksMatch, FilesOwned, Phased, UnderWay, Hooked
<1>3. IdsApart
  BY DEF IdsApart, Ids, Existing
<1>4. DataFollowed /\ ToldThere
  BY DEF DataFollowed, ToldThere, Existing
<1> QED
  BY <1>1, <1>2, <1>3, <1>4 DEF IInv

(* The two ways in which the data of an entry that is there is rewritten.   *)
LEMMA ReplacedData ==
    ASSUME NEW d \in Data, NEW h \in Hosts
    PROVE  /\ Replaced(d, h) \in Data
           /\ Replaced(d, h).host = h /\ Replaced(d, h).token = None
BY DEF Replaced, Data, Option

LEMMA TokenData ==
    ASSUME NEW d \in Data, NEW k \in Tokens
    PROVE  /\ [d EXCEPT !.token = k] \in Data
           /\ [d EXCEPT !.token = k].host = d.host /\ [d EXCEPT !.token = k].token = k
BY DEF Data, Option

LEMMA ReconfigureWrites ==
    ASSUME TypeOK, NEW h \in Hosts, NEW e \in Entries, async_step_reconfigure(e, h)
    PROVE  \E d \in Data :
              /\ entry[e] # None /\ entry' = [entry EXCEPT ![e] = d]
              /\ d # None /\ d.host = h /\ d.token = None
<1>1. entry[e] \in Data /\ entry[e] # None
  BY DEF TypeOK, async_step_reconfigure, Existing, Option
<1>2. entry' = [entry EXCEPT ![e] = Replaced(entry[e], h)]
  BY DEF async_step_reconfigure
<1> QED
  BY <1>1, <1>2, ReplacedData, ConfigAssumption

(* A first refresh that fails changes the phase alone; one that succeeds    *)
(* takes the id in the data or a new one.                                   *)
LEMMA RefreshWrites ==
    ASSUME TypeOK, Phased, NEW e \in Entries, Refresh(e)
    PROVE  \/ /\ phase' = [phase EXCEPT ![e] = "unloaded"]
              /\ UNCHANGED <<entry, hooks, stored>>
           \/ \E k \in Tokens, d \in Data :
                /\ entry[e].token = k \/ (entry[e].token = None /\ NewToken(k))
                /\ entry[e] # None /\ entry' = [entry EXCEPT ![e] = d]
                /\ d # None /\ d.host = entry[e].host /\ d.token = k
                /\ hooks' = hooks \cup {<<k, e>>}
                /\ stored' = [stored EXCEPT ![e] = k]
                /\ phase' = [phase EXCEPT ![e] = "registering"]
<1>1. CASE ~_validate_connection(client[e])
  BY <1>1 DEF Refresh
<1>2. CASE _validate_connection(client[e])
  <2>1. PICK k \in Tokens : /\ async_get_or_create_webhook_id(e, k)
                            /\ hooks' = hooks \cup {<<k, e>>}
                            /\ stored' = [stored EXCEPT ![e] = k]
    BY <1>2 DEF Refresh
  <2>2. entry[e] \in Data /\ entry[e] # None
    BY DEF Refresh, TypeOK, Phased, UnderWay, Option
  <2>3. phase' = [phase EXCEPT ![e] = "registering"]
    BY <1>2 DEF Refresh
  <2>4. entry' = [entry EXCEPT ![e] = [entry[e] EXCEPT !.token = k]]
    BY <2>1 DEF async_get_or_create_webhook_id
  <2>5. entry[e].token = k \/ (entry[e].token = None /\ NewToken(k))
    BY <2>1 DEF async_get_or_create_webhook_id
  <2> QED
    BY <2>1, <2>2, <2>3, <2>4, <2>5, TokenData, ConfigAssumption
<1> QED
  BY <1>1, <1>2

(* The types, and with them the phases: a step that writes into an entry's  *)
(* data needs the entry to be there.                                        *)
LEMMA TypesKept ==
    ASSUME TypeOK, Phased, Next
    PROVE  TypeOK' /\ Phased'
<1> USE ConfigAssumption DEF TypeOK, Phased, UnderWay, Hooked, Phases, FlowSteps, Option,
        boxVars, setupVars
<1>1. ASSUME NEW b \in Boxes, Stops(b) PROVE TypeOK' /\ Phased'
  BY <1>1 DEF Stops
<1>2. ASSUME NEW b \in Boxes, NEW h \in Hosts, Move(b, h) PROVE TypeOK' /\ Phased'
  BY <1>2 DEF Move
<1>3. ASSUME NEW h \in Hosts, async_step_user(h) PROVE TypeOK' /\ Phased'
  BY <1>3 DEF async_step_user
<1>4. ASSUME NEW h \in Hosts, Settled(h) PROVE TypeOK' /\ Phased'
  BY <1>4 DEF Settled
<1>5. ASSUME NEW h \in Hosts, Close(h) PROVE TypeOK' /\ Phased'
  BY <1>5 DEF Close
<1>6. ASSUME NEW h \in Hosts, NEW b \in Boxes, async_step_start_service(h, b)
      PROVE  TypeOK' /\ Phased'
  BY <1>6 DEF async_step_start_service, StartService
<1>7. ASSUME NEW h \in Hosts, NEW e \in Entries, async_step_reconfigure(e, h)
      PROVE  TypeOK' /\ Phased'
  <2>1. PICK d \in Data : entry[e] # None /\ entry' = [entry EXCEPT ![e] = d] /\ d # None
    BY <1>7, ReconfigureWrites
  <2>2. overlapped' \subseteq Entries
    BY <1>7 DEF async_step_reconfigure
  <2>3. UNCHANGED <<boxVars, flow, setupVars, file>>
    BY <1>7 DEF async_step_reconfigure
  <2> QED
    BY <2>1, <2>2, <2>3
<1>8. ASSUME NEW h \in Hosts, NEW e \in Entries, NEW media \in Option(Boxes),
             async_step_setup_automations(h, e, media)
      PROVE  TypeOK' /\ Phased'
  BY <1>8 DEF async_step_setup_automations, Data
<1>9. ASSUME NEW e \in Entries, Setup(e) PROVE TypeOK' /\ Phased'
  BY <1>9 DEF Setup, Existing, Data
<1>10. ASSUME NEW e \in Entries, Refresh(e) PROVE TypeOK' /\ Phased'
  BY <1>10, RefreshWrites DEF Refresh
<1>11. ASSUME NEW e \in Entries, Register(e) PROVE TypeOK' /\ Phased'
  BY <1>11 DEF Register
<1>12. ASSUME NEW e \in Entries, Forward(e) PROVE TypeOK' /\ Phased'
  BY <1>12 DEF Forward, Wanted, Left, Data
<1>13. ASSUME NEW e \in Entries, async_install_automations(e) PROVE TypeOK' /\ Phased'
  BY <1>13 DEF async_install_automations
<1>14. ASSUME NEW e \in Entries, async_unload_entry(e) PROVE TypeOK' /\ Phased'
  BY <1>14 DEF async_unload_entry, Forgotten
<1>15. ASSUME NEW e \in Entries, async_remove_entry(e) PROVE TypeOK' /\ Phased'
  BY <1>15 DEF async_remove_entry
<1>16. ASSUME NEW e \in Entries, SelfHeal(e) \/ StartOnPowerOn(e) PROVE TypeOK' /\ Phased'
  BY <1>16 DEF SelfHeal, StartOnPowerOn, StartService
<1>17. CASE Restart
  BY <1>17 DEF Restart
<1> QED
  BY <1>1, <1>2, <1>3, <1>4, <1>5, <1>6, <1>7, <1>8, <1>9, <1>10, <1>11, <1>12, <1>13,
     <1>14, <1>15, <1>16, <1>17 DEF Next

(* Each disjunct of Next that does not touch webhooks, and what it leaves.  *)
LEMMA HooksKept ==
    ASSUME IInv, Next
    PROVE  HooksMatch'
<1> USE DEF IInv, TypeOK, Phased, HooksMatch, UnderWay, Hooked, Phases, boxVars, setupVars
<1>1. ASSUME UNCHANGED <<phase, stored, hooks>> PROVE HooksMatch'
  BY <1>1
<1>2. ASSUME NEW e \in Entries, Setup(e) PROVE HooksMatch'
  BY <1>2 DEF Setup
<1>3. ASSUME NEW e \in Entries, Refresh(e) PROVE HooksMatch'
  BY <1>3 DEF Refresh
<1>4. ASSUME NEW e \in Entries, Register(e) \/ Forward(e) \/ async_install_automations(e)
      PROVE  HooksMatch'
  BY <1>4 DEF Register, Forward, async_install_automations
<1>5. ASSUME NEW e \in Entries, async_unload_entry(e) PROVE HooksMatch'
  <2>1. CASE Forgotten(e)
    <3>1. stored[e] # None
      BY <1>5 DEF async_unload_entry
    <3>2. \A f \in Entries \ {e} : stored[f] # stored[e]
      BY <3>1, Zenon DEF IdsApart, Ids
    <3> QED
      BY <1>5, <2>1, <3>1, <3>2 DEF async_unload_entry, Forgotten, Unregistered
  <2>2. CASE phase' = [phase EXCEPT ![e] = "failed"] /\ UNCHANGED <<hooks, stored, client>>
    BY <1>5, <2>2 DEF async_unload_entry
  <2> QED
    BY <1>5, <2>1, <2>2 DEF async_unload_entry
<1>6. CASE Restart
  BY <1>6 DEF Restart
<1> QED
  BY <1>1, <1>2, <1>3, <1>4, <1>5, <1>6 DEF Next, Stops, Move, async_step_user, Settled, Close,
     async_step_start_service, async_step_reconfigure, async_step_setup_automations,
     async_remove_entry, SelfHeal, StartOnPowerOn

LEMMA FilesKept ==
    ASSUME TypeOK, Phased, FilesOwned, Next
    PROVE  /\ FilesOwned'
           /\ \A e \in Entries : file[e] # None /\ entry'[e] # None => file'[e] # None
<1> DEFINE Kept == \A e \in Entries : file[e] # None /\ entry'[e] # None => file'[e] # None
<1> USE ConfigAssumption DEF TypeOK, Phased, FilesOwned, UnderWay, boxVars, setupVars
<1>1. ASSUME UNCHANGED <<entry, file>> PROVE FilesOwned' /\ Kept
  BY <1>1
<1>2. ASSUME NEW h \in Hosts, NEW e \in Entries, async_step_reconfigure(e, h)
      PROVE  FilesOwned' /\ Kept
  BY <1>2, ReconfigureWrites DEF async_step_reconfigure
<1>3. ASSUME NEW h \in Hosts, NEW e \in Entries, NEW media \in Option(Boxes),
             async_step_setup_automations(h, e, media)
      PROVE  FilesOwned' /\ Kept
  BY <1>3 DEF async_step_setup_automations, Data
<1>4. ASSUME NEW e \in Entries, Refresh(e) PROVE FilesOwned' /\ Kept
  BY <1>4, RefreshWrites DEF Refresh
<1>5. ASSUME NEW e \in Entries, Forward(e) \/ async_install_automations(e)
      PROVE  FilesOwned' /\ Kept
  BY <1>5 DEF Forward, Left, async_install_automations
<1>6. ASSUME NEW e \in Entries, async_remove_entry(e) PROVE FilesOwned' /\ Kept
  BY <1>6 DEF async_remove_entry, Removed
<1> QED
  BY <1>1, <1>2, <1>3, <1>4, <1>5, <1>6 DEF Next, Stops, Move, async_step_user, Settled, Close,
     async_step_start_service, Setup, Register, async_unload_entry, Restart, SelfHeal,
     StartOnPowerOn

LEMMA IdsStayApart ==
    ASSUME IInv, Next
    PROVE  IdsApart'
<1> USE ConfigAssumption DEF IInv, TypeOK, Phased, UnderWay, Hooked, Option, boxVars, setupVars
<1> DEFINE Shrink == \A e \in Entries : Ids(e)' \subseteq Ids(e)
<1>2. ASSUME Shrink PROVE IdsApart'
  BY <1>2 DEF IdsApart
<1>3. ASSUME UNCHANGED <<entry, stored>> PROVE Shrink
  BY <1>3 DEF Ids, Existing
<1>4. ASSUME NEW h \in Hosts, NEW e \in Entries, async_step_reconfigure(e, h) PROVE Shrink
  <2>1. PICK d \in Data : entry[e] # None /\ entry' = [entry EXCEPT ![e] = d] /\ d.token = None
    BY <1>4, ReconfigureWrites
  <2>2. stored' = stored
    BY <1>4 DEF async_step_reconfigure
  <2>3. Ids(e)' \subseteq Ids(e)
    BY <2>1, <2>2 DEF Ids, Existing
  <2>4. \A f \in Entries \ {e} : Ids(f)' = Ids(f)
    BY <2>1, <2>2 DEF Ids, Existing
  <2> QED
    BY <2>3, <2>4
<1>5. ASSUME NEW h \in Hosts, NEW e \in Entries, NEW media \in Option(Boxes),
             async_step_setup_automations(h, e, media)
      PROVE  Shrink
  BY <1>5 DEF async_step_setup_automations, Ids, Existing
<1>6. ASSUME NEW e \in Entries, Refresh(e) PROVE IdsApart'
  <2>1. CASE UNCHANGED <<entry, stored>>
    BY <2>1, <1>2, <1>3
  <2>2. ASSUME NEW k \in Tokens, NEW d \in Data,
               entry[e].token = k \/ (entry[e].token = None /\ NewToken(k)),
               entry[e] # None, entry' = [entry EXCEPT ![e] = d],
               d # None, d.token = k,
               stored' = [stored EXCEPT ![e] = k]
        PROVE  IdsApart'
    <3>1. Ids(e)' = {k}
      BY <2>2 DEF Ids, Existing
    <3>2. \A f \in Entries \ {e} : Ids(f)' = Ids(f)
      BY <2>2 DEF Ids, Existing
    <3>3. \A f \in Entries \ {e} : k \notin Ids(f)
      <4>1. CASE entry[e].token = k
        <5>1. k \in Ids(e)
          BY <4>1, <2>2 DEF Ids, Existing
        <5> QED
          BY <5>1 DEF IdsApart
      <4>2. CASE NewToken(k)
        BY <4>2 DEF NewToken, Ids, Existing
      <4> QED
        BY <2>2, <4>1, <4>2
    <3> QED
      BY <3>1, <3>2, <3>3 DEF IdsApart
  <2> QED
    BY <1>6, <2>1, <2>2, RefreshWrites
<1>7. ASSUME NEW e \in Entries, async_unload_entry(e) PROVE Shrink
  BY <1>7 DEF async_unload_entry, Forgotten, Ids, Existing
<1>8. ASSUME NEW e \in Entries, async_remove_entry(e) PROVE Shrink
  BY <1>8 DEF async_remove_entry, Ids, Existing
<1>9. CASE Restart
  BY <1>9, <1>2 DEF Restart, Ids, Existing
<1> QED
  BY <1>2, <1>3, <1>4, <1>5, <1>6, <1>7, <1>8, <1>9 DEF Next, Stops, Move, async_step_user,
     Settled, Close, async_step_start_service, Setup, Register, Forward,
     async_install_automations, SelfHeal, StartOnPowerOn

LEMMA DataStaysFollowed ==
    ASSUME IInv, Next
    PROVE  DataFollowed'
<1> USE ConfigAssumption DEF IInv, TypeOK, Phased, DataFollowed, UnderWay, Hooked, Existing,
        boxVars, setupVars
<1>1. ASSUME UNCHANGED <<entry, phase, client, stored, overlapped>> PROVE DataFollowed'
  BY <1>1
<1>2. ASSUME NEW h \in Hosts, NEW e \in Entries, async_step_reconfigure(e, h)
      PROVE  DataFollowed'
  <2>1. PICK d \in Data : entry[e] # None /\ entry' = [entry EXCEPT ![e] = d] /\ d.token = None
    BY <1>2, ReconfigureWrites
  <2>2. UNCHANGED <<phase, client, stored>> /\ overlapped \subseteq overlapped'
        /\ (phase[e] = "refreshing" => e \in overlapped')
    BY <1>2 DEF async_step_reconfigure
  <2> QED
    BY <2>1, <2>2
<1>3. ASSUME NEW h \in Hosts, NEW e \in Entries, NEW media \in Option(Boxes),
             async_step_setup_automations(h, e, media)
      PROVE  DataFollowed'
  BY <1>3 DEF async_step_setup_automations
<1>4. ASSUME NEW e \in Entries, Setup(e) PROVE DataFollowed'
  BY <1>4 DEF Setup
<1>5. ASSUME NEW e \in Entries, Refresh(e) PROVE DataFollowed'
  <2>1. UNCHANGED <<client, overlapped>> /\ phase[e] = "refreshing"
    BY <1>5 DEF Refresh
  <2>2. CASE UNCHANGED <<entry, stored>> /\ phase' = [phase EXCEPT ![e] = "unloaded"]
    BY <2>1, <2>2
  <2>3. ASSUME NEW k \in Tokens, NEW d \in Data,
               entry[e] # None, entry' = [entry EXCEPT ![e] = d],
               d # None, d.host = entry[e].host, d.token = k,
               stored' = [stored EXCEPT ![e] = k],
               phase' = [phase EXCEPT ![e] = "registering"]
        PROVE  DataFollowed'
    BY <2>1, <2>3
  <2> QED
    BY <1>5, <2>2, <2>3, RefreshWrites
<1>6. ASSUME NEW e \in Entries,
             Register(e) \/ Forward(e) \/ async_install_automations(e)
      PROVE  DataFollowed'
  BY <1>6 DEF Register, Forward, async_install_automations
<1>7. ASSUME NEW e \in Entries, async_unload_entry(e) PROVE DataFollowed'
  BY <1>7 DEF async_unload_entry, Forgotten
<1>8. ASSUME NEW e \in Entries, async_remove_entry(e) PROVE DataFollowed'
  BY <1>8 DEF async_remove_entry
<1>9. CASE Restart
  BY <1>9 DEF Restart
<1> QED
  BY <1>1, <1>2, <1>3, <1>4, <1>5, <1>6, <1>7, <1>8, <1>9 DEF Next, Stops, Move,
     async_step_user, Settled, Close, async_step_start_service, SelfHeal, StartOnPowerOn

LEMMA StaysToldThere ==
    ASSUME IInv, Next
    PROVE  ToldThere'
<1> USE ConfigAssumption DEF IInv, TypeOK, Phased, ToldThere, UnderWay, Hooked, Existing,
        boxVars, setupVars
<1>1. ASSUME UNCHANGED <<entry, client, stored, overlapped, told, toldAt>> PROVE ToldThere'
  BY <1>1
<1>2. ASSUME NEW h \in Hosts, NEW e \in Entries, async_step_reconfigure(e, h)
      PROVE  ToldThere'
  <2>1. PICK d \in Data : entry[e] # None /\ entry' = [entry EXCEPT ![e] = d] /\ d.token = None
    BY <1>2, ReconfigureWrites
  <2>2. UNCHANGED <<client, stored, told, toldAt>> /\ overlapped \subseteq overlapped'
    BY <1>2 DEF async_step_reconfigure
  <2> QED
    BY <2>1, <2>2
<1>3. ASSUME NEW h \in Hosts, NEW e \in Entries, NEW media \in Option(Boxes),
             async_step_setup_automations(h, e, media)
      PROVE  ToldThere'
  BY <1>3 DEF async_step_setup_automations
<1>4. ASSUME NEW e \in Entries, Setup(e) PROVE ToldThere'
  BY <1>4 DEF Setup
<1>5. ASSUME NEW e \in Entries, Refresh(e) PROVE ToldThere'
  <2>1. UNCHANGED <<client, overlapped, told, toldAt>> /\ phase[e] = "refreshing"
    BY <1>5 DEF Refresh
  <2>2. CASE UNCHANGED <<entry, stored>>
    BY <2>1, <2>2
  <2>3. ASSUME NEW k \in Tokens, NEW d \in Data,
               entry[e].token = k \/ (entry[e].token = None /\ NewToken(k)),
               entry[e] # None, entry' = [entry EXCEPT ![e] = d],
               d # None, d.host = entry[e].host, d.token = k,
               stored' = [stored EXCEPT ![e] = k]
        PROVE  ToldThere'
    <3>1. e \notin overlapped => client[e] = entry[e].host
      BY <2>1, <2>3 DEF DataFollowed
    <3>2. \A b \in Boxes : told[b] = k => entry[e].token = k
      BY <2>3 DEF NewToken
    <3> QED
      BY <2>1, <2>3, <3>1, <3>2
  <2> QED
    BY <1>5, <2>2, <2>3, RefreshWrites
<1>6. ASSUME NEW e \in Entries, Register(e) PROVE ToldThere'
  <2>1. CASE UNCHANGED <<told, toldAt>>
    BY <1>6, <2>1 DEF Register
  <2>2. ASSUME NEW b \in Boxes,
               told' = [told EXCEPT ![b] = stored[e]],
               toldAt' = [toldAt EXCEPT ![b] = client[e]]
        PROVE  ToldThere'
    <3>1. stored[e] # None /\ UNCHANGED <<entry, client, stored, overlapped>>
      BY <1>6 DEF Register
    <3>2. \A f \in Existing : stored[e] \in {stored[f], entry[f].token} => f = e
      <4>1. stored[e] \in Ids(e)
        BY <3>1 DEF Ids
      <4>2. ASSUME NEW f \in Existing, stored[e] \in {stored[f], entry[f].token}
            PROVE  stored[e] \in Ids(f)
        BY <3>1, <4>2 DEF Ids
      <4> QED
        BY <4>1, <4>2 DEF IdsApart
    <3>3. e \in Existing \ overlapped /\ stored[e] = entry[e].token => entry[e].host = client[e]
      BY <3>1 DEF DataFollowed
    <3> QED
      BY <2>2, <3>1, <3>2, <3>3
  <2> QED
    BY <1>6, <2>1, <2>2 DEF Register
<1>7. ASSUME NEW e \in Entries, Forward(e) \/ async_install_automations(e) PROVE ToldThere'
  BY <1>7, <1>1 DEF Forward, async_install_automations
<1>8. ASSUME NEW e \in Entries, async_unload_entry(e) PROVE ToldThere'
  BY <1>8 DEF async_unload_entry, Forgotten
<1>9. ASSUME NEW e \in Entries, async_remove_entry(e) PROVE ToldThere'
  BY <1>9 DEF async_remove_entry
<1>10. CASE Restart
  BY <1>10 DEF Restart
<1> QED
  BY <1>1, <1>2, <1>3, <1>4, <1>5, <1>6, <1>7, <1>8, <1>9, <1>10 DEF Next, Stops, Move,
     async_step_user, Settled, Close, async_step_start_service, SelfHeal, StartOnPowerOn
-----------------------------------------------------------------------------
(* The inductive invariant holds of every instance.                         *)
THEOREM Invariance == Spec => []IInv
<1>1. IInv /\ [Next]_vars => IInv'
  <2> SUFFICES ASSUME IInv, [Next]_vars PROVE IInv'
    OBVIOUS
  <2>1. CASE Next
    BY <2>1, TypesKept, HooksKept, FilesKept, IdsStayApart, DataStaysFollowed, StaysToldThere
       DEF IInv
  <2>2. CASE UNCHANGED vars
    <3> USE <2>2 DEF vars, boxVars, setupVars, IInv, Existing
    <3>1. TypeOK' /\ Phased'
      BY DEF TypeOK, Phased
    <3>2. HooksMatch' /\ FilesOwned'
      BY DEF HooksMatch, FilesOwned
    <3>3. IdsApart'
      BY DEF IdsApart, Ids
    <3>4. DataFollowed' /\ ToldThere'
      BY DEF DataFollowed, ToldThere
    <3> QED
      BY <3>1, <3>2, <3>3, <3>4
  <2> QED
    BY <2>1, <2>2
<1> QED
  BY <1>1, InitHolds, PTL DEF Spec

(* Type correctness.                                                        *)
THEOREM Typing == Spec => []TypeOK
<1>1. IInv => TypeOK
  BY DEF IInv
<1> QED
  BY <1>1, Invariance, PTL

(* The webhooks registered are those of the entries set up, each under the  *)
(* id its setup was given, through every reconfiguration, failed unload and *)
(* removal.                                                                 *)
THEOREM WebhooksMatch == Spec => []HooksMatch
<1>1. IInv => HooksMatch
  BY DEF IInv
<1> QED
  BY <1>1, Invariance, PTL

(* A loaded entry hears no box but one told its webhook where its client    *)
(* reaches, unless it was reconfigured during its first refresh.            *)
THEOREM HeardFromItsAddress == Spec => []HearsItsAddress
<1>1. IInv => HearsItsAddress
  BY DEF IInv, HearsItsAddress, ToldThere, Phased, UnderWay, Existing
<1> QED
  BY <1>1, Invariance, PTL

(* No generated file outlives its entry.                                    *)
THEOREM NoOrphanedFiles == Spec => []FilesOwned
<1>1. IInv => FilesOwned
  BY DEF IInv
<1> QED
  BY <1>1, Invariance, PTL

(* And none goes before it.                                                 *)
THEOREM FilesKeptWithEntry == Spec => FilesStay
<1> DEFINE Kept == \A e \in Entries : file[e] # None /\ entry'[e] # None => file'[e] # None
<1>1. IInv /\ [Next]_vars => [Kept]_vars
  BY FilesKept DEF IInv
<1> QED
  BY <1>1, Invariance, PTL DEF Spec, FilesStay
=============================================================================
