---------------------------- MODULE EngineRegistry ----------------------------
(***************************************************************************)
(* The registered speech engines and the default order they are tried in   *)
(* (core/EngineRegistry.java, core/EngineConfig.java), as the HTTP routes   *)
(* change them, SharedPreferences keep them and the engine resolves them.   *)
(*                                                                          *)
(* Every method is synchronized, so it is one step.  save() hands the blob  *)
(* to SharedPreferences.apply(), which changes the copy in memory at once   *)
(* and the file some time later: a process that dies in between comes back  *)
(* with the older file.                                                     *)
(***************************************************************************)
EXTENDS Integers, SequencesExt, OrderedSets

CONSTANTS
    Names,          \* the strings used as engine ids
    Trim,           \* Trim[n]: n without the blanks around it
    Reserved,       \* the trimmed names no engine may register
    Slips,          \* untrimmed forms of them that the test does not recognise
    Device,         \* "device"
    Configs,        \* what an engine is registered with
    NoConfig,       \* an id that is not registered
    MaxChain        \* bound on the length of a default chain

ASSUME NamesAssumption ==
    /\ Trim \in [Names -> Names]
    /\ \A n \in Names : Trim[Trim[n]] = Trim[n]
    /\ Reserved \subseteq Names /\ Device \in Reserved
    /\ \A n \in Reserved : Trim[n] = n
    /\ Slips \subseteq {n \in Names : Trim[n] \in Reserved /\ n \notin Reserved}
    /\ NoConfig \notin Configs
    /\ MaxChain \in Nat

VARIABLES
    engines,        \* EngineRegistry.engines
    defaultChain,   \* EngineRegistry.defaultChain
    prefs,          \* the blob in SharedPreferences, as apply() left it
    disk            \* the blob in the preferences file

vars == <<engines, defaultChain, prefs, disk>>

Chains == BoundedSeq(Names, MaxChain)
Tables == [Names -> Configs \union {NoConfig}]
Blobs == [engines : Tables, chain : Chains]

Registered(n) == engines[n] # NoConfig

(* fromJson refuses a reserved id, but looks at it before it is trimmed.    *)
Refused(n) == Trim[n] \in Reserved /\ n \notin Slips

TypeOK ==
    /\ engines \in Tables
    /\ defaultChain \in Chains
    /\ prefs \in Blobs
    /\ disk \in Blobs

Empty == [engines |-> [n \in Names |-> NoConfig], chain |-> <<>>]

Init ==
    /\ engines = Empty.engines
    /\ defaultChain = Empty.chain
    /\ prefs = Empty
    /\ disk = Empty

(* The definitions named Mutant... are deliberately wrong forms of the      *)
(* definition after them; no action uses them.                              *)

-----------------------------------------------------------------------------
save == prefs' = [engines |-> engines', chain |-> defaultChain']

(* A registration kept in memory only.                                      *)
MutantUpsertUnsaved(n, c) ==
    /\ ~Refused(n)
    /\ engines' = [engines EXCEPT ![Trim[n]] = c]
    /\ UNCHANGED <<defaultChain, prefs, disk>>

upsert(n, c) ==
    /\ ~Refused(n)
    /\ engines' = [engines EXCEPT ![Trim[n]] = c]
    /\ UNCHANGED <<defaultChain, disk>>
    /\ save

(* List.remove takes out the first occurrence.  The blob is written only if *)
(* the id was registered.                                                   *)
remove(n) ==
    /\ engines' = [engines EXCEPT ![n] = NoConfig]
    /\ defaultChain' = RemoveFirst(defaultChain, n)
    /\ IF Registered(n) THEN save ELSE UNCHANGED prefs
    /\ UNCHANGED disk

(* A chain of any length appended to the old one instead of replacing it.   *)
MutantChainAppended(ids) ==
    /\ defaultChain' = defaultChain \o ids
    /\ UNCHANGED <<engines, disk>>
    /\ save

setDefaultChain(ids) ==
    /\ defaultChain' = ids
    /\ UNCHANGED <<engines, disk>>
    /\ save

(* apply()'s write reaches the file.                                        *)
Flush ==
    /\ disk' = prefs
    /\ UNCHANGED <<engines, defaultChain, prefs>>

(* load(): an entry fromJson refuses is skipped as corrupt.                 *)
load(blob) ==
    /\ engines' = [n \in Names |-> IF Refused(n) THEN NoConfig ELSE blob.engines[n]]
    /\ defaultChain' = blob.chain

(* The process dies, with or without the last write, and starts again.      *)
Restart ==
    /\ load(disk)
    /\ prefs' = disk
    /\ UNCHANGED disk

Next ==
    \/ \E n \in Names, c \in Configs : upsert(n, c)
    \/ \E n \in Names : remove(n)
    \/ \E ids \in Chains : setDefaultChain(ids)
    \/ Flush
    \/ Restart

Spec == Init /\ [][Next]_vars

-----------------------------------------------------------------------------
(* resolveChain: the request's own engine if it names one, the default      *)
(* chain and the device, each where it comes first, unknown ids skipped.    *)

Known == {Device} \cup {n \in Names : Registered(n)}

(* The device only when nothing else is configured.                         *)
MutantDeviceIfEmpty(own) ==
    LET order == FirstOccurrences([i \in DOMAIN own |-> Trim[own[i]]] \o defaultChain)
        known == Only(order, Known)
    IN  IF order = <<>> THEN <<Device>> ELSE known

(* own is <<n>> for a request that names engine n and <<>> for the others.  *)
resolveChain(own) ==
    LET order == FirstOccurrences(
                    [i \in DOMAIN own |-> Trim[own[i]]] \o defaultChain \o <<Device>>)
    IN  Only(order, Known)

Requests == {<<>>} \union {<<n>> : n \in Names}

(* An announcement is never silently dropped because of what is configured: *)
(* whatever was registered, removed or lost in a restart, every chain has   *)
(* the device in it, tries no engine twice and none that is unknown, and    *)
(* tries the request's own engine, if known, before any other.              *)
ChainsUsable ==
    \A own \in Requests :
        LET chain == resolveChain(own)
        IN  /\ Contains(chain, Device)
            /\ IsInjective(chain)
            /\ ToSet(chain) \subseteq Known
            /\ own # <<>> /\ Trim[own[1]] \in Known => chain[1] = Trim[own[1]]

(* What is registered is what the preferences hold, reserved names aside:   *)
(* no registration or removal is answered without having been handed to     *)
(* apply(), and a restart agrees with the blob it came from.                *)
EnginesSaved ==
    \A n \in Names \ Reserved : engines[n] = prefs.engines[n]
=============================================================================
