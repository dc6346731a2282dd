---------------------------- MODULE ConfigEntries ----------------------------
(***************************************************************************)
(* The boxes Home Assistant knows: the flows that add and change them       *)
(* (config_flow.py), their setup, unload and removal (__init__.py), the     *)
(* webhook each is heard through (webhook.py), and the automations file     *)
(* that is generated for a box on request (automations.py), with what the   *)
(* automations in it do.                                                    *)
(*                                                                          *)
(* A step ends at an await.  Home Assistant keeps setup, unload and removal *)
(* of one entry apart, and two flows for one address; a flow and the setup  *)
(* of an entry it changes may overlap.  A reload is an unload and a setup,  *)
(* and comes whenever the user wants one, or soon after a reconfiguration.  *)
(***************************************************************************)
EXTENDS Integers, FiniteSets

CONSTANTS
    Boxes,          \* TVs; each has one androidtv entity, and is named by it
    Hosts,          \* addresses; also an entry's unique id
    Entries,        \* entry ids
    Tokens,         \* webhook ids
    None

VARIABLES
    at,             \* the address each box has
    running,        \* its service runs
    told,           \* the webhook it pushes to, kept in its preferences
    toldAt,         \* history: the address at which it was told
    flow,           \* the step of the flow for each address (FlowSteps)
    entry,          \* each entry's data, or None
    phase,          \* how far each entry's setup is (Phases)
    client,         \* the address its api client uses
    stored,         \* hass.data's webhook id of the entry
    hooks,          \* webhooks registered, pairs <<token, entry>>
    install,        \* the box to start in the installation that is under way
    overlapped,     \* history: entries reconfigured during their first refresh
    file            \* automations/ttsbridge_<entry>.yaml: the box it starts, or None

boxVars == <<at, running, told, toldAt>>
setupVars == <<phase, client, stored, hooks, install>>
vars == <<boxVars, flow, entry, setupVars, overlapped, file>>

FlowSteps == {"none", "start_service", "started", "setup_automations"}
Phases == {"unloaded", "refreshing", "registering", "forwarding",
           "installing", "loaded", "failed"}

Option(S) == S \cup {None}

(* The webhook id and the entity for adb commands are there only at times.  *)
(* (The entity whose state tells of the TV's power is not modelled.)        *)
Data == [host : Hosts, unique : Hosts, token : Option(Tokens),
         media : Option(Boxes)]

ASSUME ConfigAssumption == None \notin Boxes \cup Tokens \cup Data

TypeOK ==
    /\ at \in [Boxes -> Hosts] /\ running \in [Boxes -> BOOLEAN]
    /\ told \in [Boxes -> Option(Tokens)] /\ toldAt \in [Boxes -> Option(Hosts)]
    /\ flow \in [Hosts -> FlowSteps]
    /\ entry \in [Entries -> Option(Data)]
    /\ phase \in [Entries -> Phases]
    /\ client \in [Entries -> Option(Hosts)] /\ stored \in [Entries -> Option(Tokens)]
    /\ hooks \subseteq Tokens \X Entries
    /\ install \in [Entries -> Option(Boxes)]
    /\ \A e \in Entries : install[e] # None <=> phase[e] = "installing"
    /\ overlapped \subseteq Entries
    /\ file \in [Entries -> Option(Boxes)]

Init ==
    /\ at \in [Boxes -> Hosts]
    /\ \A b, c \in Boxes : b # c => at[b] # at[c]
    /\ running \in [Boxes -> BOOLEAN]
    /\ told = [b \in Boxes |-> None] /\ toldAt = [b \in Boxes |-> None]
    /\ flow = [h \in Hosts |-> "none"]
    /\ entry = [e \in Entries |-> None]
    /\ phase = [e \in Entries |-> "unloaded"]
    /\ client = [e \in Entries |-> None] /\ stored = [e \in Entries |-> None]
    /\ hooks = {}
    /\ install = [e \in Entries |-> None]
    /\ overlapped = {}
    /\ file = [e \in Entries |-> None]

(* The definitions named Mutant... are deliberately wrong forms of the      *)
(* definition that follows them.                                            *)
-----------------------------------------------------------------------------
(* The boxes.                                                               *)

Stops(b) ==
    /\ running[b]
    /\ running' = [running EXCEPT ![b] = FALSE]
    /\ UNCHANGED <<at, told, toldAt, flow, entry, setupVars, overlapped, file>>

(* DHCP gives the address of a box to it, or to another one in exchange.    *)
Move(b, h) ==
    /\ at[b] # h
    /\ at' = [c \in Boxes |-> IF c = b THEN h ELSE IF at[c] = h THEN at[b] ELSE at[c]]
    /\ UNCHANGED <<running, told, toldAt, flow, entry, setupVars, overlapped, file>>

(* am start-foreground-service, by adb.                                     *)
StartService(b) == running' = [running EXCEPT ![b] = TRUE]

(* BridgeApiClient.status is answered.                                      *)
_validate_connection(h) == \E b \in Boxes : at[b] = h /\ running[b]
-----------------------------------------------------------------------------
(* The flows.                                                               *)

Existing == {e \in Entries : entry[e] # None}

(* An address that is some entry's unique id is not asked about again.      *)
async_step_user(h) ==
    /\ flow[h] = "none"
    /\ \A e \in Existing : entry[e].unique # h
    /\ flow' = [flow EXCEPT ![h] = IF _validate_connection(h)
                                     THEN "setup_automations" ELSE "start_service"]
    /\ UNCHANGED <<boxVars, entry, setupVars, overlapped, file>>

(* The adb command starts the box picked, whatever its address, or fails    *)
(* and the form is shown again.  After 5 s the address is tried again.      *)
async_step_start_service(h, b) ==
    /\ flow[h] = "start_service"
    /\ StartService(b)
    /\ flow' = [flow EXCEPT ![h] = "started"]
    /\ UNCHANGED <<at, told, toldAt, entry, setupVars, overlapped, file>>

Settled(h) ==
    /\ flow[h] = "started"
    /\ flow' = [flow EXCEPT ![h] = IF _validate_connection(h)
                                     THEN "setup_automations" ELSE "start_service"]
    /\ UNCHANGED <<boxVars, entry, setupVars, overlapped, file>>

(* The form is filled with the entity picked before; the user may change it. *)
async_step_setup_automations(h, e, media) ==
    /\ flow[h] = "setup_automations"
    /\ entry[e] = None /\ phase[e] = "unloaded"
    /\ entry' = [entry EXCEPT ![e] =
                   [host |-> h, unique |-> h, token |-> None, media |-> media]]
    /\ flow' = [flow EXCEPT ![h] = "none"]
    /\ UNCHANGED <<boxVars, setupVars, overlapped, file>>

Close(h) ==
    /\ flow[h] \in {"start_service", "setup_automations"}
    /\ flow' = [flow EXCEPT ![h] = "none"]
    /\ UNCHANGED <<boxVars, entry, setupVars, overlapped, file>>

(* All of the data is replaced; the unique id is not part of it.            *)
MutantReplaced(data, h) == [data EXCEPT !.host = h]

Replaced(data, h) ==
    [data EXCEPT !.host = h, !.token = None, !.media = None]

async_step_reconfigure(e, h) ==
    /\ e \in Existing
    /\ _validate_connection(h)
    /\ entry' = [entry EXCEPT ![e] = Replaced(@, h)]
    /\ overlapped' = IF phase[e] = "refreshing" THEN overlapped \cup {e} ELSE overlapped
    /\ UNCHANGED <<boxVars, flow, setupVars, file>>
-----------------------------------------------------------------------------
(* The life of an entry.                                                    *)

Setup(e) ==
    /\ e \in Existing /\ phase[e] = "unloaded"
    /\ phase' = [phase EXCEPT ![e] = "refreshing"]
    /\ client' = [client EXCEPT ![e] = entry[e].host]
    /\ UNCHANGED <<boxVars, flow, entry, stored, hooks, install, overlapped, file>>

(* A token nobody has any more stands for a new one.                        *)
NewToken(k) ==
    /\ \A b \in Boxes : told[b] # k
    /\ \A e \in Entries : stored[e] # k /\ (entry[e] # None => entry[e].token # k)

async_get_or_create_webhook_id(e, k) ==
    /\ IF entry[e].token # None THEN k = entry[e].token ELSE NewToken(k)
    /\ entry' = [entry EXCEPT ![e].token = k]

(* The first refresh, and what follows before the next await.               *)
Refresh(e) ==
    /\ phase[e] = "refreshing"
    /\ \/ /\ _validate_connection(client[e])
          /\ \E k \in Tokens :
               /\ async_get_or_create_webhook_id(e, k)
               /\ hooks' = hooks \cup {<<k, e>>}
               /\ stored' = [stored EXCEPT ![e] = k]
          /\ phase' = [phase EXCEPT ![e] = "registering"]
       \/ /\ ~ _validate_connection(client[e])
          /\ phase' = [phase EXCEPT ![e] = "unloaded"]
          /\ UNCHANGED <<entry, hooks, stored>>
    /\ UNCHANGED <<boxVars, flow, client, install, overlapped, file>>

(* The box is told the url, or is not: no internal url, or no answer.       *)
Register(e) ==
    /\ phase[e] = "registering"
    /\ phase' = [phase EXCEPT ![e] = "forwarding"]
    /\ \/ \E b \in Boxes :
            /\ at[b] = client[e] /\ running[b]
            /\ told' = [told EXCEPT ![b] = stored[e]]
            /\ toldAt' = [toldAt EXCEPT ![b] = client[e]]
       \/ UNCHANGED <<told, toldAt>>
    /\ UNCHANGED <<at, running, flow, entry, client, stored, hooks, install, overlapped, file>>

(* The platforms are set up; then the entry's data is looked at again.  An  *)
(* entry without an entity is left alone, and so is the file it may have.   *)
MutantWanted(e) == TRUE

Wanted(e) == entry[e].media # None

MutantLeft(e) == None

Left(e) == file[e]

Forward(e) ==
    /\ phase[e] = "forwarding"
    /\ IF Wanted(e)
         THEN /\ phase' = [phase EXCEPT ![e] = "installing"]
              /\ install' = [install EXCEPT ![e] = entry[e].media]
              /\ UNCHANGED file
         ELSE /\ phase' = [phase EXCEPT ![e] = "loaded"]
              /\ file' = [file EXCEPT ![e] = Left(e)]
              /\ UNCHANGED install
    /\ UNCHANGED <<boxVars, flow, entry, client, stored, hooks, overlapped>>

(* Written over what is there; an error is logged and no more.              *)
async_install_automations(e) ==
    /\ phase[e] = "installing"
    /\ phase' = [phase EXCEPT ![e] = "loaded"]
    /\ install' = [install EXCEPT ![e] = None]
    /\ \/ file' = [file EXCEPT ![e] = install[e]]
       \/ UNCHANGED file
    /\ UNCHANGED <<boxVars, flow, entry, client, stored, hooks, overlapped>>

(* The id that was stored at setup is unregistered, whatever the data says. *)
MutantUnregistered(e) == {p \in hooks : p[2] = e /\ entry[e] # None /\ p[1] = entry[e].token}

Unregistered(e) == {p \in hooks : p[1] = stored[e]}

Forgotten(e) ==
    /\ hooks' = hooks \ Unregistered(e)
    /\ stored' = [stored EXCEPT ![e] = None]
    /\ client' = [client EXCEPT ![e] = None]
    /\ phase' = [phase EXCEPT ![e] = "unloaded"]

(* If the platforms refuse nothing is undone, until Home Assistant starts   *)
(* again.                                                                   *)
async_unload_entry(e) ==
    /\ phase[e] = "loaded"
    /\ \/ Forgotten(e)
       \/ /\ phase' = [phase EXCEPT ![e] = "failed"]
          /\ UNCHANGED <<hooks, stored, client>>
    /\ UNCHANGED <<boxVars, flow, entry, install, overlapped, file>>

(* Removal comes after an unload, also one that failed.  The file goes,     *)
(* whether the data still speaks of it or not.                              *)
MutantRemoved(e) == entry[e].media # None

Removed(e) == file[e] # None

async_remove_entry(e) ==
    /\ e \in Existing /\ phase[e] \in {"unloaded", "failed"}
    /\ entry' = [entry EXCEPT ![e] = None]
    /\ file' = [file EXCEPT ![e] = IF Removed(e) THEN None ELSE @]
    /\ overlapped' = overlapped \ {e}
    /\ UNCHANGED <<boxVars, flow, setupVars>>

(* Home Assistant starts again.                                             *)
Restart ==
    /\ flow' = [h \in Hosts |-> "none"]
    /\ phase' = [e \in Entries |-> "unloaded"]
    /\ client' = [e \in Entries |-> None] /\ stored' = [e \in Entries |-> None]
    /\ hooks' = {} /\ install' = [e \in Entries |-> None]
    /\ UNCHANGED <<boxVars, entry, overlapped, file>>
-----------------------------------------------------------------------------
(* The generated automations.  The event ttsbridge_recovery_needed comes    *)
(* again and again while an entry is loaded and its box does not answer.    *)
SelfHeal(e) ==
    /\ file[e] # None
    /\ phase[e] = "loaded" /\ ~ _validate_connection(client[e])
    /\ StartService(file[e])
    /\ UNCHANGED <<at, told, toldAt, flow, entry, setupVars, overlapped, file>>

(* The TV that is watched leaves a state that is like off.                  *)
StartOnPowerOn(e) ==
    /\ file[e] # None
    /\ StartService(file[e])
    /\ UNCHANGED <<at, told, toldAt, flow, entry, setupVars, overlapped, file>>

Next ==
    \/ \E b \in Boxes : Stops(b) \/ \E h \in Hosts : Move(b, h)
    \/ \E h \in Hosts :
         \/ async_step_user(h) \/ Settled(h) \/ Close(h)
         \/ \E b \in Boxes : async_step_start_service(h, b)
         \/ \E e \in Entries : async_step_reconfigure(e, h)
         \/ \E e \in Entries, media \in Option(Boxes) :
              async_step_setup_automations(h, e, media)
    \/ \E e \in Entries :
         \/ Setup(e) \/ Refresh(e) \/ Register(e) \/ Forward(e)
         \/ async_install_automations(e) \/ async_unload_entry(e)
         \/ async_remove_entry(e)
         \/ SelfHeal(e) \/ StartOnPowerOn(e)
    \/ Restart

Spec == Init /\ [][Next]_vars
-----------------------------------------------------------------------------
(* The webhooks registered are those of the entries that are loaded or on   *)
(* their way, each under the id its setup was given: none is left behind by *)
(* a reconfiguration that takes the id out of the data, none is missing.    *)
HooksMatch ==
    hooks = {<<stored[e], e>> : e \in {x \in Entries : phase[x] \in
        {"registering", "forwarding", "installing", "loaded", "failed"}}}

(* What a loaded entry hears through its webhook comes from a box that was  *)
(* reached where the entry's client reaches: once reconfigured and set up   *)
(* again, an entry no longer takes the pushes of the box it had before.     *)
(* (Unless the reconfiguration came while the setup waited for its first    *)
(* refresh: the id it then makes gets into the new data.)                   *)
HearsItsAddress ==
    \A e \in Entries \ overlapped, b \in Boxes :
        phase[e] = "loaded" /\ told[b] # None /\ told[b] = stored[e]
            => toldAt[b] = client[e]

(* Uninstalling leaves no orphaned automations (automations.py): a file has *)
(* its entry, also if a reconfiguration made the data forget the file.      *)
FilesOwned == \A e \in Entries : file[e] # None => entry[e] # None

(* And nothing else takes them away: the choice made at setup stands.       *)
FilesStay ==
    [][\A e \in Entries : file[e] # None /\ entry'[e] # None => file'[e] # None]_vars
=============================================================================
