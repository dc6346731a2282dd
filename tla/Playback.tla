------------------------------ MODULE Playback ------------------------------
(***************************************************************************)
(* One attempt after another to play an announcement's url, as the engine's *)
(* worker makes them (attempt in core/AnnouncementEngine.java), with the    *)
(* provider (providers/UrlAudioProvider.java), the cache of clips           *)
(* (core/SpeechCache.java) and the audio focus (core/AudioFocusManager.java) *)
(* they go through.                                                         *)
(*                                                                          *)
(* Four kinds of threads share the provider, without a lock: the worker,    *)
(* HTTP handlers that stop what is active, the main thread, on which a      *)
(* MediaPlayer calls back, and one thread for each download, which may      *)
(* outlive its attempt.  The cache is synchronized.  The module             *)
(* AnnouncementService assumes a provider that stops when it is told to;    *)
(* this one says how far that is true.                                      *)
(***************************************************************************)
EXTENDS Integers, SequencesExt, OrderedSets

CONSTANTS
    MaxAttempts,    \* bound on the attempts
    Keys,           \* cache keys; a clip is known by its key
    None,           \* no key, no volume
    MaxEntries,     \* DEFAULT_MAX_ENTRIES
    Levels, Ducked, \* volumes of the music stream; 30 % of the highest
    MaxEvents       \* bound on what comes from outside: changes of volume
                    \* and strategy, deaths of the process

ASSUME PlaybackAssumption ==
    /\ MaxAttempts \in Nat /\ MaxEvents \in Nat
    /\ None \notin Keys \cup Levels /\ MaxEntries \in Nat \ {0}
    /\ Levels \subseteq Nat /\ Ducked \in Levels

Attempts == 1 .. MaxAttempts
Stoppers == {"worker", "handler"}
Settlements == {"finished", "error", "interrupted"}

VARIABLES
    pc,             \* where attempt() is: idle, play, inside, await, stopping
    n,              \* the attempt made last, 0 before the first
    key,            \* the cacheKey of each attempt that still needs it
    told,           \* what its listener was told: the latch and the error
    listener,       \* activeListener and activeAnnouncement, by attempt
    settled, cancelled,
    player,         \* the attempt mediaPlayer was made for, or 0
    clip,           \* what each attempt's MediaPlayer does
    carrier,        \* how far it is on the way to its MediaPlayer
    main,           \* the main thread has releaseInternal() still to call
    stop,           \* how far each caller of stop() is
    files,          \* the clips whole in the cache's directory
    index,          \* SpeechCache.index, least recently used first
    saved,          \* the index in the preferences file
    strategy, held, savedStreamVolume, volume,
    events,
    early,          \* history: some attempt was over before it had a player
    lost,           \* history: a crash came before the index was written
    switched,       \* history: the strategy was switched while focus was held
    chosen          \* history: volumes somebody chose since the attempt began

workerVars == <<pc, n, key>>
playerVars == <<player, clip>>
gateVars == <<told, settled>>
providerVars == <<listener, cancelled, gateVars, playerVars, carrier, main, stop>>
cacheVars == <<files, index, saved, lost>>
focusVars == <<strategy, held, savedStreamVolume, volume, switched, chosen>>
vars == <<workerVars, providerVars, cacheVars, focusVars, events, early>>

Clips == {"none", "preparing", "playing"}
Carriers == {"none", "fetch", "failed", "fetched", "copying", "committed",
             "swapUrl", "swapFile", "createUrl", "createFile"}

TypeOK ==
    /\ pc \in {"idle", "play", "inside", "await", "stopping"} /\ n \in 0 .. MaxAttempts
    /\ key \in [Attempts -> Keys \cup {None}]
    /\ told \in Settlements \cup {"nothing"}
    /\ listener \in 0 .. n /\ player \in 0 .. n
    /\ settled \in BOOLEAN /\ cancelled \in BOOLEAN
    /\ clip \in [Attempts -> Clips] /\ carrier \in [Attempts -> Carriers]
    /\ main \in BOOLEAN
    /\ stop \in [Stoppers -> {"none", "called", "cancelled", "settled"}]
    /\ files \subseteq Keys /\ {index, saved} \subseteq Seq(Keys)
    /\ Len(index) <= MaxEntries /\ IsInjective(index)
    /\ strategy \in {"system", "manual_duck_only"} /\ held \in BOOLEAN
    /\ savedStreamVolume \in Levels \cup {None} /\ volume \in Levels
    /\ events \in 0 .. MaxEvents
    /\ {early, lost, switched} \subseteq BOOLEAN /\ chosen \subseteq Levels

Init ==
    /\ pc = "idle" /\ listener = 0 /\ player = 0 /\ settled = TRUE /\ cancelled = FALSE
    /\ clip = [m \in Attempts |-> "none"] /\ carrier = [m \in Attempts |-> "none"]
    /\ main = FALSE /\ stop = [t \in Stoppers |-> "none"]
    /\ held = FALSE /\ savedStreamVolume = None /\ switched = FALSE /\ early = FALSE
    /\ n = 0 /\ key = [m \in Attempts |-> None] /\ told = "nothing"
    /\ files = {} /\ index = <<>> /\ saved = <<>> /\ lost = FALSE
    /\ strategy \in {"system", "manual_duck_only"}
    /\ volume \in Levels /\ chosen = {volume}
    /\ events = 0

(* The definitions named Mutant... are deliberately wrong forms of the      *)
(* definition that follows them.                                            *)
-----------------------------------------------------------------------------
(* The provider's two small methods.                                        *)

(* The gate is shared, the listener is the one the caller was made with.    *)
(* What earlier listeners are told nobody waits for.                        *)
MutantFinishOnce(m, how) ==
    /\ settled' = TRUE
    /\ told' = IF ~settled /\ told = "nothing" THEN how ELSE told

finishOnce(m, how) ==
    /\ settled' = TRUE
    /\ told' = IF ~settled /\ m = n /\ told = "nothing" THEN how ELSE told

(* What becomes of the clips when the player of attempt p is released.      *)
Released(p) ==
    [m \in Attempts |-> IF m = p THEN "none" ELSE clip[m]]

(* The reference dropped, the player not released.                          *)
MutantReleaseInternal ==
    /\ player' = 0
    /\ UNCHANGED clip

releaseInternal ==
    /\ clip' = Released(player)
    /\ player' = 0
-----------------------------------------------------------------------------
(* The audio focus and the music stream.                                    *)

(* Under manual_duck_only the stream is ducked whatever the announcement    *)
(* says.  Then the announcement's own volume is set, if it has one.         *)
request(duck, level) ==
    LET ducking == (duck \/ strategy = "manual_duck_only") /\ volume > Ducked
    IN  /\ held' = (held \/ strategy = "system")
        /\ savedStreamVolume' = IF ducking THEN volume ELSE savedStreamVolume
        /\ volume' = IF level # None THEN level ELSE IF ducking THEN Ducked ELSE volume
        /\ chosen' = {volume} \cup ({level} \ {None})
        /\ UNCHANGED <<strategy, switched>>

(* Restored under the strategy that is meant to do without focus only.      *)
MutantRestored == IF strategy = "system" \/ savedStreamVolume = None
                    THEN volume ELSE savedStreamVolume

Restored == IF savedStreamVolume = None THEN volume ELSE savedStreamVolume

(* The strategy looked at once more: nothing abandoned unless it ducked.    *)
MutantStillHeld == held /\ (strategy = "manual_duck_only" \/ savedStreamVolume = None)

StillHeld == held /\ strategy = "manual_duck_only"

abandon ==
    /\ held' = StillHeld
    /\ switched' = (switched /\ StillHeld)
    /\ volume' = Restored
    /\ savedStreamVolume' = None
    /\ UNCHANGED <<strategy, chosen>>

Event == events < MaxEvents /\ events' = events + 1

setStrategy(s) ==
    /\ Event
    /\ strategy' = s
    /\ switched' = (switched \/ (held /\ s # strategy))
    /\ UNCHANGED <<workerVars, providerVars, cacheVars, held, savedStreamVolume, volume,
                   chosen, early>>

(* /volume, or the remote control.                                          *)
setVolumePercent(level) ==
    /\ Event
    /\ volume' = level /\ chosen' = chosen \cup {level}
    /\ UNCHANGED <<workerVars, providerVars, cacheVars, strategy, held,
                   savedStreamVolume, switched, early>>
-----------------------------------------------------------------------------
(* The cache.  A lock is held while a clip is copied.                       *)

Locked == \E m \in Attempts : carrier[m] = "copying"

Without(k) == Only(index, Keys \ {k})

Used(k) == Append(Without(k), k)

(* A hit has an entry and its file; an entry without a file is dropped.     *)
get(k) == k \in ToSet(index) \cap files

(* The least recently used entries go, with their files.                    *)
MutantKeptAll(entries) == entries

MutantKeptOldest(entries) ==
    SubSeq(entries, 1, IF Len(entries) > MaxEntries THEN MaxEntries ELSE Len(entries))

Kept(entries) ==
    SubSeq(entries, IF Len(entries) > MaxEntries THEN Len(entries) - MaxEntries + 1 ELSE 1,
           Len(entries))

(* Renamed into place, indexed, the oldest evicted: one synchronized step.  *)
put(k) ==
    /\ index' = Kept(Used(k))
    /\ files' = (files \cup {k}) \ (ToSet(Used(k)) \ ToSet(Kept(Used(k))))

(* saveIndex's apply() reaches the file.                                    *)
Flush ==
    /\ saved # index
    /\ saved' = index
    /\ UNCHANGED <<workerVars, providerVars, files, index, lost, focusVars, events, early>>

(* loadIndex and pruneOrphansAndMissing, which only removes entries.        *)
MutantLoaded == saved

Loaded == Only(saved, files)
-----------------------------------------------------------------------------
(* The worker: attempt() and UrlAudioProvider.play().                       *)

Attempt(k, duck, level) ==
    /\ pc = "idle" /\ n < MaxAttempts
    /\ n' = n + 1 /\ told' = "nothing"
    /\ key' = [m \in Attempts |-> IF m = n' THEN k ELSE IF carrier[m] = "none" THEN None ELSE key[m]]
    /\ request(duck, level)
    /\ pc' = "play"
    /\ UNCHANGED <<listener, cancelled, settled, playerVars, carrier, main, stop,
                   cacheVars, events, early>>

(* The fields are set and the cache is asked.  What it does not have a      *)
(* thread fetches; else the worker goes on inside play().  (A stop between  *)
(* the writes has the effect of one that began before them.)                *)
play ==
    /\ pc = "play" /\ ~Locked
    /\ listener' = n /\ settled' = FALSE /\ cancelled' = FALSE
    /\ IF get(key[n])
         THEN /\ index' = Used(key[n])
              /\ carrier' = [carrier EXCEPT ![n] = "swapFile"]
         ELSE /\ index' = Without(key[n])
              /\ carrier' = [carrier EXCEPT ![n] = IF key[n] = None THEN "swapUrl" ELSE "fetch"]
    /\ pc' = IF carrier'[n] = "fetch" THEN "await" ELSE "inside"
    /\ UNCHANGED <<n, key, told, playerVars, main, stop, files, saved, lost, focusVars,
                   events, early>>

(* done.await returns, or the time is over and the worker stops the         *)
(* provider.                                                                *)
AwaitTimeout ==
    /\ pc = "await" /\ told = "nothing"
    /\ pc' = "stopping"
    /\ stop' = [stop EXCEPT !["worker"] = "called"]
    /\ UNCHANGED <<n, key, listener, cancelled, gateVars, playerVars, carrier, main,
                   cacheVars, focusVars, events, early>>

End ==
    /\ \/ pc = "await" /\ told # "nothing"
       \/ pc = "stopping" /\ stop["worker"] = "none"
    /\ abandon
    /\ pc' = "idle"
    /\ early' = (early \/ carrier[n] # "none")
    /\ UNCHANGED <<n, key, providerVars, cacheVars, events>>
-----------------------------------------------------------------------------
(* The way to the MediaPlayer, on the worker or on the download's thread.   *)

Carry(m, to) == carrier' = [carrier EXCEPT ![m] = to]

(* downloadToTempFile.  It looks at cancelled between two reads; what it    *)
(* throws is looked into by the next step.                                  *)
Fetch(m) ==
    /\ carrier[m] = "fetch"
    /\ \/ ~cancelled /\ Carry(m, "fetched")
       \/ Carry(m, "failed")
    /\ UNCHANGED <<workerVars, listener, cancelled, gateVars, playerVars, main, stop,
                   cacheVars, focusVars, events, early>>

Failed(m) ==
    /\ carrier[m] = "failed"
    /\ Carry(m, "none")
    /\ IF cancelled THEN UNCHANGED gateVars ELSE finishOnce(m, "error")
    /\ UNCHANGED <<workerVars, listener, cancelled, playerVars, main, stop, cacheVars,
                   focusVars, events, early>>

Fetched(m) ==
    /\ carrier[m] = "fetched"
    /\ \/ cancelled /\ Carry(m, "none")
       \/ ~cancelled /\ ~Locked /\ Carry(m, "copying")
    /\ UNCHANGED <<workerVars, listener, cancelled, gateVars, playerVars, main, stop,
                   cacheVars, focusVars, events, early>>

(* put.  If it fails the url is streamed, and nobody looks at cancelled.    *)
Copied(m) ==
    /\ carrier[m] = "copying"
    /\ \/ put(key[m]) /\ Carry(m, "committed")
       \/ Carry(m, "swapUrl") /\ UNCHANGED <<files, index>>
    /\ UNCHANGED <<workerVars, listener, cancelled, gateVars, playerVars, main, stop,
                   saved, lost, focusVars, events, early>>

Committed(m) ==
    /\ carrier[m] = "committed"
    /\ Carry(m, IF cancelled THEN "none" ELSE "swapFile")
    /\ UNCHANGED <<workerVars, listener, cancelled, gateVars, playerVars, main, stop,
                   cacheVars, focusVars, events, early>>

(* playDataSource: the player that is there is released, ...                *)
Swap(m) ==
    /\ carrier[m] \in {"swapUrl", "swapFile"}
    /\ Carry(m, IF carrier[m] = "swapUrl" THEN "createUrl" ELSE "createFile")
    /\ clip' = Released(player)
    /\ UNCHANGED <<workerVars, listener, cancelled, gateVars, player, main, stop,
                   cacheVars, focusVars, events, early>>

(* ... then a new one takes its place and prepares.  A file that is no      *)
(* longer there is an exception.                                            *)
Create(m) ==
    /\ carrier[m] \in {"createUrl", "createFile"}
    /\ Carry(m, "none")
    /\ player' = m
    /\ \/ /\ carrier[m] = "createFile" => key[m] \in files
          /\ clip' = [clip EXCEPT ![m] = "preparing"]
          /\ UNCHANGED gateVars
       \/ /\ carrier[m] = "createFile" /\ key[m] \notin files
          /\ finishOnce(m, "error") /\ UNCHANGED clip
    /\ pc' = IF pc = "inside" /\ m = n THEN "await" ELSE pc
    /\ UNCHANGED <<n, key, listener, cancelled, main, stop, cacheVars, focusVars, events, early>>
-----------------------------------------------------------------------------
(* The main thread.  A released MediaPlayer does not call back.             *)

Prepared(m) ==
    /\ ~main /\ clip[m] = "preparing"
    /\ clip' = [clip EXCEPT ![m] = "playing"]
    /\ UNCHANGED <<workerVars, listener, cancelled, gateVars, player, carrier, main, stop,
                   cacheVars, focusVars, events, early>>

Completed(m) ==
    /\ ~main /\ clip[m] = "playing"
    /\ clip' = [clip EXCEPT ![m] = "none"]
    /\ finishOnce(m, "finished")
    /\ main' = TRUE
    /\ UNCHANGED <<workerVars, listener, cancelled, player, carrier, stop, cacheVars,
                   focusVars, events, early>>

Broken(m) ==
    /\ ~main /\ clip[m] \in {"preparing", "playing"}
    /\ clip' = [clip EXCEPT ![m] = "none"]
    /\ finishOnce(m, "error")
    /\ main' = TRUE
    /\ UNCHANGED <<workerVars, listener, cancelled, player, carrier, stop, cacheVars,
                   focusVars, events, early>>

ReleaseAfter ==
    /\ main /\ main' = FALSE
    /\ releaseInternal
    /\ UNCHANGED <<workerVars, listener, cancelled, gateVars, carrier, stop, cacheVars,
                   focusVars, events, early>>
-----------------------------------------------------------------------------
(* stop(), by the worker after a timeout or by a handler.                   *)

interruptCurrent ==
    /\ pc # "idle" /\ stop["handler"] = "none"
    /\ stop' = [stop EXCEPT !["handler"] = "called"]
    /\ UNCHANGED <<workerVars, listener, cancelled, gateVars, playerVars, carrier, main,
                   cacheVars, focusVars, events, early>>

(* cancelled is set, and what plays is stopped.                             *)
Cancel(t) ==
    /\ stop[t] = "called" /\ stop' = [stop EXCEPT ![t] = "cancelled"]
    /\ cancelled' = TRUE
    /\ clip' = [m \in Attempts |-> IF m = player /\ clip[m] = "playing" THEN "none" ELSE clip[m]]
    /\ UNCHANGED <<workerVars, listener, gateVars, player, carrier, main, cacheVars,
                   focusVars, events, early>>

SettleStopped(t) ==
    /\ stop[t] = "cancelled" /\ stop' = [stop EXCEPT ![t] = "settled"]
    /\ \/ /\ listener = 0
          /\ UNCHANGED <<gateVars, early>>
       \/ /\ listener # 0
          /\ finishOnce(listener, "interrupted")
          /\ early' = (early \/ carrier[listener] # "none")
    /\ UNCHANGED <<workerVars, listener, cancelled, playerVars, carrier, main, cacheVars,
                   focusVars, events>>

ReleaseStopped(t) ==
    /\ stop[t] = "settled" /\ stop' = [stop EXCEPT ![t] = "none"]
    /\ releaseInternal
    /\ UNCHANGED <<workerVars, listener, cancelled, gateVars, carrier, main, cacheVars,
                   focusVars, events, early>>

(* The process dies and is started again.  Files, the saved index, the      *)
(* strategy and the volume of the stream are what remains.                  *)
Crash ==
    /\ Event
    /\ pc' = "idle" /\ listener' = 0 /\ player' = 0 /\ settled' = TRUE /\ cancelled' = FALSE
    /\ clip' = [m \in Attempts |-> "none"] /\ carrier' = [m \in Attempts |-> "none"]
    /\ main' = FALSE /\ stop' = [t \in Stoppers |-> "none"]
    /\ held' = FALSE /\ savedStreamVolume' = None /\ switched' = FALSE /\ early' = FALSE
    /\ lost' = (lost \/ saved # index)
    /\ index' = Loaded /\ saved' = saved
    /\ chosen' = {volume}
    /\ UNCHANGED <<n, key, told, files, strategy, volume>>
-----------------------------------------------------------------------------
Next ==
    \/ \E k \in Keys \cup {None}, duck \in BOOLEAN, level \in Levels \cup {None} :
         Attempt(k, duck, level)
    \/ play \/ AwaitTimeout \/ End
    \/ \E m \in Attempts :
         \/ Fetch(m) \/ Failed(m) \/ Fetched(m) \/ Copied(m) \/ Committed(m)
         \/ Swap(m) \/ Create(m) \/ Prepared(m) \/ Completed(m) \/ Broken(m)
    \/ ReleaseAfter \/ interruptCurrent
    \/ \E t \in Stoppers : Cancel(t) \/ SettleStopped(t) \/ ReleaseStopped(t)
    \/ \E s \in {"system", "manual_duck_only"} : setStrategy(s)
    \/ \E level \in Levels : setVolumePercent(level)
    \/ Flush \/ Crash

Spec == Init /\ [][Next]_vars
-----------------------------------------------------------------------------
(* Success is reported only for an announcement that was played to its end, *)
(* although the gate, the player and the cancel flag are shared with the    *)
(* attempts before it and with download threads that outlived theirs.       *)
FinishedWasHeard ==
    [][told' = "finished" /\ told # "finished" => n # 0 /\ clip[n] = "playing" /\ clip'[n] = "none"]_vars

(* What is heard is the attempt under way, or is about to be released by a  *)
(* stop or a callback that has settled it already: neither timeouts nor     *)
(* stops nor failures leave a player behind.  The one way out of turn is an *)
(* attempt that ends before it has a player; what carries it there may play *)
(* over the attempts that follow.                                           *)
HeardInTurn ==
    ~early => \A m \in Attempts : clip[m] # "none" =>
                  \/ m = n /\ pc # "idle"
                  \/ main \/ \E t \in Stoppers : stop[t] = "settled"

(* The index names only files that are there, and all of them, but for what *)
(* a crash kept it from writing down.                                       *)
DiskMatchesIndex ==
    /\ ToSet(index) \subseteq files
    /\ ~lost => files = ToSet(index)

(* The path that get or put returned still has its file when it is played:  *)
(* eviction takes another one, even if there is room for one clip only.     *)
ServedFromDisk ==
    ~early => \A m \in Attempts :
                  carrier[m] \in {"committed", "swapFile", "createFile"} => key[m] \in files

(* After an attempt the music is as loud as before it, or as somebody chose *)
(* meanwhile: no ducked volume stays behind, and none is taken for the      *)
(* volume to go back to, whatever becomes of the strategy.                  *)
VolumeGivenBack == pc = "idle" => savedStreamVolume = None /\ volume \in chosen

(* After an attempt no focus is held, unless the strategy was switched      *)
(* while it was; then the next attempt under "system" gives it back.        *)
FocusGivenBack == pc = "idle" /\ held => switched
=============================================================================
