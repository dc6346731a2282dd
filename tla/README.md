# TTS Bridge: a TLA+ verification project

TTS Bridge speaks announcements on an Android TV box. A foreground service on the
box (`src/android`, Java) accepts them over HTTP, queues them by priority and plays
them through a url player, remote TTS servers or the device's own TTS engine. A Home
Assistant integration (`src/custom_components/ttsbridge`, Python) sends the
announcements, renders chimes, watches the device and retries when it is away. The
repository has no tests; `src/docs/reference.md` says what the parts promise.

This directory holds TLA+ models of the parts, written from the code, the TLC
configurations that check them on small instances, and TLAPS proofs of what matters
most for every instance. `J/` below stands for
`src/android/app/src/main/java/dev/local/ttsbridge/` and `P/` for
`src/custom_components/ttsbridge/`.

## 1. Inventory

### The box (Java)

| component | state it keeps | operations | what makes it correct |
|---|---|---|---|
| `J/core/Announcement.java`, `Priority.java` | immutable: text, url, key, priority, `enqueuedAt` stamped by the constructor | `dedupeKey`, `isStale` | stale exactly when older than the category's limit; limit 0 never goes stale |
| `J/core/AnnouncementQueue.java` | a heap by (rank, enqueuedAt), the map of recently accepted keys; one lock, one condition | `offer`, `takeNextFresh`, `clear`, `snapshot` | no duplicate within the window or while queued; none suppressed without a reason; the most urgent, then oldest, first; stale ones dropped; nothing accepted is forgotten; the map stays bounded |
| `J/AnnouncementService.java` | volatile `current`, `state`, wake lock, media session, webhook target | HTTP routes, the worker loop, stop, status pushes, volume watcher, `onDestroy` | what is heard is what is reported; urgent ones interrupt by the documented rules; every announcement ends with one report; idle means idle |
| `J/core/AnnouncementEngine.java` | `activeProvider` | `play` (url, then the engine chain), `attempt` with a timeout, `interruptCurrent` | a failure falls back, an interruption does not; an attempt leaves no focus and no provider behind |
| `J/core/EngineRegistry.java`, `EngineConfig.java` | registered engines, default chain, their blob in SharedPreferences | `upsert`, `remove`, `setDefaultChain`, `load`, `save`, `resolveChain` | every chain can speak; registrations survive restarts; reserved ids are not taken |
| `J/core/AudioFocusManager.java` | strategy, focus request, volume saved at a duck | `request`, `abandon`, `setStrategy`, `setVolumePercent` | focus and volume come back after every attempt |
| `J/core/SpeechCache.java` | index, files, saved index | `get`, `put`, eviction, orphan pruning | bounded; an index entry has its file, also after a crash |
| `J/providers/UrlAudioProvider.java` | a shared MediaPlayer, download thread, `settled`, `cancelled` | `play`, `stop`, callbacks | one settlement for each play; stop silences this playback and no other |
| `J/providers/DeviceTtsProvider.java` | TTS engine, `ready`, one pending play, `settled` | `onInit`, `play`, `stop`, utterance callbacks | the same contract |
| `J/providers/RemoteHttpTtsProvider.java` | one instance for each attempt: synthesis thread, player, temp file | `play`, `stop` | the same contract; the cache is written once |
| `J/http/ControlHttpServer.java` | accept loop, cached thread pool | `start`, `stop`, one handler thread for each connection | requests in parallel; a bad one does not end the loop |
| `J/BootReceiver.java` | none | starts the service at boot | |

### Home Assistant (Python, one event loop, executor jobs for blocking calls)

| component | state it keeps | operations | what makes it correct |
|---|---|---|---|
| `P/coordinator.py`, `webhook.py`, `recovery.py` | last status, online flag, failure time, retry timer | 30 s poll, webhook push, failure detection, retry every 150 s, `recovered` events | each outage gives one failure and one recovery; the timer runs exactly during an outage |
| `P/__init__.py`, `config_flow.py`, `automations.py` | the config entry, the generated automation | setup, unload, reconfigure | setup is undone by unload; reconfigure keeps what it does not ask for |
| `P/chime.py` | cache of joined audio, message and audio logs, poison generation for each engine (`.storage`) | render, signature and collision checks, generation bump | poisoned audio is not played again; a good message is not refused for ever |
| `P/notify.py` | none | `announce`, `cancel`, cache checks, media resolution | the right key reaches the device |
| `P/api.py`, `bridge.py`, `sensor.py` | none | HTTP calls, entity properties | pass-through |

### How they interact

A handler thread of `ControlHttpServer` runs the service's route: it builds an
announcement, reads `current`, offers to the queue and may call
`engine.interruptCurrent()`. The single worker thread takes from the queue, sets
`current` and `state`, and plays: the engine asks the registry for a chain, makes one
provider active after another, calls `play` and waits on a latch with a timeout. The
provider counts the latch down from a thread of its own (MediaPlayer callback,
download thread, TTS binder thread). State changes are pushed to Home Assistant's
webhook; Home Assistant also polls.

### What is hard here

* Handlers and the worker share `current` and `activeProvider` without a common lock:
  each is read first and acted on later.
* A stop, a provider's own end and the attempt's timeout race; each order decides
  between fallback and end.
* Shared providers (url, device) receive stops and callbacks meant for an earlier
  playback.
* The queue's window tests, staleness and order depend on wall-clock boundaries.
* Preferences are written after the call returns.
* On the Home Assistant side every `await` is a point where another task runs.

The full list, with the line where each bites and the property that covers it, is
under `hazards` in `PROJECT.json`.

## 2. Plan

The order puts first what every announcement goes through.

1. **`AnnouncementQueue`** (done): the queue with its lock and condition, written so
   that it can be proved about. Proofs in `AnnouncementQueueProofs` (done).
2. **`AnnouncementService`** (done for handlers, worker and engine): composes the
   queue (INSTANCE) with the threads around it; providers are their contract. It
   implements `AnnouncementQueue!Spec`.
3. **`EngineRegistry`** (done), with **`OrderedSets`**, the operators on insertion-ordered
   sets.
4. **`Recovery`** (done): setup, coordinator, webhook and recovery manager against a
   box that goes and returns. Proofs in `RecoveryProofs` (done).
5. **`PoisonDetection`** (done): generations, log and cache of `chime.py` with
   interleaved calls. It implements **`PoisonContract`** (done), what the integration
   promises about degraded synthesis.
6. **`Playback`** (done): one attempt after another through `UrlAudioProvider`,
   `SpeechCache` and `AudioFocusManager`, at the grain of the fields their threads
   share: it shows how far the provider keeps what `AnnouncementService` assumes of it.
7. **`ConfigEntries`** (done): flows, setup, unload and removal of entries, their
   webhooks and generated files.
8. Left: `DeviceTtsProvider` and `RemoteHttpTtsProvider` in the manner of `Playback`;
   status pushes and `onDestroy` of the service.

Every module has its proofs: `AnnouncementQueueProofs`, `AnnouncementServiceProofs`,
`EngineRegistryProofs`, `RecoveryProofs`, `PoisonDetectionProofs`, `PlaybackProofs`,
`ConfigEntriesProofs`, and `OrderedSetsProofs` for the two operators the registry and the
cache share. Theorems worth proving next: a contract of what `AnnouncementService`
assumes of a provider, stated as a specification, and how far `Playback` implements it.

## 3. What is modelled

### `AnnouncementQueue`

State: `heap` (the PriorityQueue, as a set: its order is `Before`), `recent`
(`recentlyAccepted`), `worker` (inside `takeNextFresh`, waiting on the condition, or
busy elsewhere), `now` (the wall clock), and for each announcement its content `req`, its
construction time `born` and its `fate`. `accepted` and `acceptedAt` are history: which
announcements were accepted and when.

Every queue method holds the lock throughout, so it is one action: `OfferDuplicate`
and `OfferAccept` are `offer` with its purge of old keys, `TakeFresh` and `TakeNothing`
are `takeNextFresh` from one wake-up to the next (with all stale drops on the way),
`Clear` is `clear`. Building an announcement (`Build`) is a step of its own because the
constructor stamps `enqueuedAt` before the lock is taken. Equal stamps are not ordered:
`java.util.PriorityQueue` leaves ties open, and so does the model.

| run | question | result |
|---|---|---|
| `queue` | duplicates, reasons for suppression, order, staleness, bound of the map | holds |
| `queue_live` | does every accepted announcement leave the queue? | holds under fairness |

Bounds: three announcements of two ranks and two categories, one that goes stale and
one that does not, window 2, clock 0..4. Three announcements are the least that allow
an accepted one, its duplicate and one between them; the clock runs past the window and
past the staleness limit with room on both sides of each boundary. The instance for
liveness has two announcements, window 1 and clock 0..3 (no symmetry).

"FIFO within the same rank" (`J/core/AnnouncementQueue.java:14`) holds of the order of
construction, which is what `UrgentFirst` says, and not of the order of acceptance: two
handlers may build their announcements in one order and reach the lock in the other.

### `AnnouncementService`

Threads: one handler for each announcement (`POST /announce`, start intents), one for
each stop request (`POST /stop`, notification, media session), the worker, the
provider, the clock. Each access to something shared is its own step.

| code | actions |
|---|---|
| `enqueue` | `ReadCurrent` (the volatile read), `Enqueue` (the offer), then `Aim` and `Stop` if it decided to interrupt |
| `interruptCurrent` | `Aim` reads `activeProvider`, `Stop` stops what was read |
| `stopCurrentAndMaybeClear` | `RequestStop`, `Aim`, `Stop`, `ClearQueue` |
| the worker loop | `CallTake`, `TakeNothing`, `Take`, `SetCurrent`, `SetSpeaking`, ..., `Report`, `ResetCurrent`, `SetIdleOrBusy` |
| `engine.play`, `runEngineChain` | `Select`, `Decide` |
| `attempt` | `Activate`, `Start`, `AwaitDone` or `AwaitTimeout` and `StopAfterTimeout`, `Release` |
| a provider | `Settle` (it ends by itself), `Stop` |

The queue's variables are the same variables, changed only through the instance
`Q == INSTANCE AnnouncementQueue`. Its abstract specification is `Q!Spec`, and
`ImplementsQueue` checks that every step of the service is a step of the queue or a
stutter. `cutOff` and `result` are history.

The provider is a contract here: a playback is in progress until it settles once, and
a stop ends it at once. A shared provider (url, device) that is active again is hit by
a stop aimed at the attempt before; a remote provider is a new object in each attempt.
Where the providers' own code breaks the contract is listed under hazards.

| run | question | result |
|---|---|---|
| `service` | what is audible is reported; a waiting worker holds nothing; interruptions end the announcement; "interrupted" is reported for them alone; the queue is implemented | holds |
| `service_live` | does every accepted announcement end, though a provider may hang? | holds under fairness |
| `service_rules` | are only announcements cut off that may be? | violated: stale `current` |

Bounds: two announcements out of three requests (a LOW one that may not be
interrupted, with a url and a text; a HIGH text; an EMERGENCY url), one stop request
that clears, a chain of two engines. Two announcements are what a race between a handler
and the playing announcement takes, and two attempts in a chain, with the url before
them, what a stop that reaches the wrong attempt takes. The clock runs to 2, which makes
the LOW one stale; the runs on rules that do not depend on time keep it at 0.

Two more sentences of the code are not true of the model. An EMERGENCY "always interrupts
whatever is currently playing" (`J/core/Priority.java:4`) unless it arrives after the
worker's take and before `SetCurrent`, or between two attempts, when no provider is
active: then nothing is stopped. And the media session stays active with nothing to
announce (`J/AnnouncementService.java:475`) when the queue is cleared after the worker
saw it non-empty: the state is BUSY while the worker waits.

### `EngineRegistry`

State: `engines`, `defaultChain`, `prefs` (the copy in memory that `apply()` changes at
once) and `disk` (the file, changed by `Flush`). Methods are synchronized, each one
action; `Restart` kills the process and loads the file. `resolveChain` is an operator,
evaluated in every reachable state for every request. Its two operators on ordered sets,
`FirstOccurrences` (a `LinkedHashSet` that is filled) and `Only` (what is left of one), are
in `OrderedSets`, as recursive functions: `FoldLeft` and `SelectSeq` have no proof rules.

| run | question | result |
|---|---|---|
| `registry` | every chain can speak, tries nothing twice, honours the override; registrations are saved | holds |

Bounds: two ordinary names, "device", and "device" with a blank (the reserved name the
untrimmed test misses), chains of length up to 2.

That the device is last in every chain (`J/core/EngineRegistry.java:19`) is true only of
default chains that do not name it: it stays where the first of its mentions is.

### `Recovery`

Home Assistant runs on one event loop, so a step ends where the code awaits. State: the
entry's `phase` and setup's own `request`, the coordinator's `success`
(`last_update_success`) and its `poll` in flight, the manager's `was`
(`_was_available`) and timer, one task for each outage that ended, the box (`up`,
`told`: it has the webhook's url) and the `pushes` on the wire. A request is decided
when it reaches the box or fails to; its answer is handled later.

| code | actions |
|---|---|
| `async_setup_entry` | `Setup`, `Refresh`, `NotReady` or `Ready`, `Register`, `Load` |
| `async_unload_entry`, `RecoveryManager.unload` | `Unload` |
| `_async_update_data` | `StartPoll`, `ReachPoll`, `EndPoll` |
| the webhook's `_handle` | `ReceivePush` |
| `_handle_update` | `_handle_update` with `Recover` and `Alarm`, inside the two above |
| `_retry_tick`, `_async_on_recovered` | `_retry_tick`; `RegisterAgain`, `FireRecovered` |
| the box: `pushWebhookUpdate`, `POST /webhook` | `Push`, `PushLost`, `TakesRegistration` |

Home Assistant's `DataUpdateCoordinator` is not in the repository. What is assumed of
it is at the head of the module; the assumption that matters to `recovery_missed` is
that a failed poll calls the listeners only if the update before it, as it was when the
poll began, had succeeded.

| run | question | result |
|---|---|---|
| `recovery` | does the timer run exactly during a noticed outage? do retries end, is each end announced, is a late `recovered` corrected? | holds |
| `recovery_missed` | is a box that stays away asked about for ever? | violated: a push handled during a failing poll hides the failure |

Bounds: two outages unfinished at a time (one noticed, one whose task still waits) and
two pushes on the wire. Nothing else is bounded: the box may go and come back, and the
entry be set up and unloaded, any number of times.

### `PoisonDetection` and `PoisonContract`

Service calls are tasks of Home Assistant's event loop. State: for each call its `job`
(the step it is at, and what it carries across awaits: the key, the url, the temp file,
the copies of log and generations it has read and changed) and the `result` of its last
announcement; `log.json` (`log`) and `generations.json` (`gens`), which an executor
thread truncates and then writes, so that they may be `Truncated`, or `Garbled` by two
writers; the files of the joined audio (`partial` while ffmpeg writes, then `durable`);
the detection option of each entry. `answers` and `trusted` are history. A clip is a
model value with a signature; a signature may be registered as bad.

| code | actions |
|---|---|
| `async_announce`, `async_check_cache` | `Announce`, then `compute_chime_cache_key`, `try_get_cached_url`, `_async_resolve_ha_tts_url`, `async_check_tts_url`, ..., `Speak` |
| `_check_signature` | `Sign` (decoding, the registered signatures and the read of the log), `OpenLog` and `_save_signature_log`, `_load_poison_generations`, `OpenGens` and `_save_poison_generations` |
| `async_render` | `async_check_tts_url` and `_check_signature` again at stage "render" if the first fetch failed, `StartJoin`, `_async_ffmpeg_concat`, `Rename` |
| an exception | `Raise`: the announcement is lost at the first check and falls back to plain speech in `async_render` |
| options, process | `SetOption`, `Restart` |

`PoisonContract` is the abstract specification: what engines answered, what the durable
cache serves and each call's verdict. A clip enters the stock only as an answer to its
message and, while the detection is on, never if it is registered; a refusal has
evidence; a call ends once. The refinement maps the stock to the files in `durable` and
the verdict to the task and its result; every other step is a stutter.

| run | question | result |
|---|---|---|
| `poison` | is the contract implemented, whatever overlaps and fails? is the log true, are keys changed only on evidence, are temp files removed? | holds |
| `poison_lost` | "Never fails the announcement outright" (`P/chime.py:12`) | violated: a call reads a file another one has just truncated |

Bounds: two calls at a time, three events (calls started or restarts); two messages,
each with a genuine clip, a registered bad clip and one nobody registered that an engine
may give for either. Two calls are what every overlap of a read-change-write takes; the
third event gives a collision something earlier to collide with, or a restart between.
Clip, fetch and disk failures may happen at each step that meets them. `poison_lost` has
no failures and two events: the overlap alone suffices.

Three things the model shows without a property. Clips that ffmpeg cannot decode share
the signature `""`, so that the second message answered with one is refused as a
collision, although a clip that cannot be decoded is meant to be "couldn't verify", not
"confirmed poisoned" (`P/chime.py:639`); the contract counts it as evidence, as the
code does. Of two overlapping refusals of different messages one undoes the other's bump
(`P/chime.py:188`), so that the message refused first keeps its old key. And the
generation is part of the key of announcements with a chime only (listed under hazards).

### `ConfigEntries`

State: where each box is (`at`), whether its service runs, which webhook it pushes to
(`told`); the flow for each address; each entry's data, the phase of its setup, the
address of its client, the webhook id in `hass.data` (`stored`) and the file generated
for it; the webhooks registered (`hooks`). `toldAt` and `overlapped` are history.

| code | actions |
|---|---|
| the config flow | `async_step_user`, `async_step_start_service`, `Settled` (its second try after 5 s), `async_step_setup_automations`, `Close`, `async_step_reconfigure` |
| `async_setup_entry` | `Setup`, `Refresh` (with the webhook id and registration), `Register`, `Forward`, `async_install_automations` |
| `async_unload_entry`, `async_remove_entry` | the same; an unload may fail |
| the generated automations | `SelfHeal`, `StartOnPowerOn` |
| outside | `Stops`, `Move` (DHCP), `Restart` |

| run | question | result |
|---|---|---|
| `entries` | are exactly the right webhooks registered? is an entry heard only through the box at its address? does a generated file live exactly as long as its entry? | holds |

Bounds: one box, two addresses, two entries, three webhook ids (one for each entry and
one that a box still has from an entry that is gone). Two addresses and two entries are
what a reconfiguration to another address, and an entry made for an address that another
one has left, take. With two boxes the state space outgrows the time for a run; what a
second box adds, that an address is someone else's, is there as the box's move.

`HearsItsAddress` excepts entries reconfigured while their setup awaits its first
refresh (`overlapped`): the webhook id made afterwards goes into the new data, while the
client has the old address. The caveat is the code's; the box that answered stays
connected through the id until the reload that follows, and after it.

### `Playback`

The worker makes one attempt after another; an HTTP handler may stop what is active at
any time; MediaPlayer calls back on the main thread; each download has a thread of its
own, which may outlive its attempt. State: where the worker is (`pc`, `n`), what the
attempt's listener was told, the provider's fields as the threads see them (`listener`,
`settled`, `cancelled`, `player`), what each MediaPlayer does (`clip`), how far the
carrier of each attempt is (`carrier`), the steps of each `stop()`; the cache (`files`,
`index`, `saved`); strategy, focus, saved volume and the volume of the stream.

| code | actions |
|---|---|
| `AnnouncementEngine.attempt` | `Attempt` (with `request`), `play`, `AwaitTimeout`, `End` (with `abandon`) |
| `UrlAudioProvider.play`, the download thread | `play`, `Fetch`, `Failed`, `Fetched`, `Copied`, `Committed`, `Swap`, `Create` |
| callbacks | `Prepared`, `Completed`, `Broken`, then `ReleaseAfter` |
| `stop` | `Cancel`, `SettleStopped`, `ReleaseStopped`; called by `AwaitTimeout` and `interruptCurrent` |
| `SpeechCache` | `get`, `put` (inside the above, under its lock), `Flush`, `Loaded` |
| `AudioFocusManager` | `request`, `abandon`, `setStrategy`, `setVolumePercent` (two strategies: "system", "manual_duck_only") |
| the process | `Crash` |

Four history variables state what the code does not promise. `early`: an attempt ended
before it had a MediaPlayer; the last look at `cancelled` comes before the player is
made, and the next `play()` resets the flag, so its clip may then play out of turn and
over others. `lost`: a crash came before `apply()` had written the index; files that it
does not name stay until a clip of their key is stored again. `switched`: the strategy
was changed while focus was held, which `abandon` then does not give back. `chosen`: the
volumes somebody set during the attempt; the volume before it is restored over them.

| run | question | result |
|---|---|---|
| `playback` | is "finished" said only of a clip that played to its end? is nothing heard out of turn? are index and files in agreement, is a path still there when it is played? do volume and focus come back? | holds, within the four caveats |

Bounds: two attempts, as all the races are between an attempt and the next; two keys and
a cache of one entry, so that every `put` evicts; two volumes; one event from outside
(a volume change, a strategy switch or a death of the process), since each of them alone
is what a caveat or property is about. Attempts run out, hence `CHECK_DEADLOCK FALSE`.

## 4. Fairness

`AnnouncementQueue!FairSpec` assumes that the worker thread, once signalled, runs
(`takeNextFresh` returns or waits again) and calls `takeNextFresh` again after each
announcement. `AnnouncementService!FairSpec` spells this out: handler threads and the
worker run (weak fairness of `Handle(t)`, `Fetch`, `Work`), because the JVM schedules
threads and the lock is held for short, loop-free sections, and `done.await(timeoutMs)`
returns (`AwaitTimeout`). Nothing is assumed of a provider (it may never call its
listener), of clients, stop requests or the clock.

`Recovery!FairSpec` assumes that the event loop runs what is due: the next poll starts,
requests end (each has a timeout), the interval timer ticks, tasks go on. Nothing is
assumed of the box, of pushes or of who sets up and unloads the entry.

`PoisonDetection`, `ConfigEntries` and `Playback` state safety only, without fairness.

Runs with `CHECK_DEADLOCK FALSE` stop because the announcements, stop requests and the
clock of an instance run out and the worker waits, as it should.

## 5. Proofs

Each invariant that TLC checks on an instance is also a theorem, for every value of the
constants, as are the action properties and both refinements. What the proofs assume of
the constants is in the ASSUME of each module: types, and that a "none" is none of the
values it stands beside. TLC evaluates it in the runs. Each inductive invariant `IInv`
was checked by TLC on the instance of its run before it was proved.

| module | theorems (`Spec =>`) |
|---|---|
| `AnnouncementQueueProofs` | `Typing`: `TypeOK`; `DuplicatesSuppressed`: `DedupSpacing`, `NoDuplicateQueued` (alone: `NeverQueuedTwice`); `SuppressionHasCause`: `SuppressedForCause`; `RecentNeverGrowsOld`: `RecentBounded`; `UrgentAreTakenFirst`: `UrgentFirst` |
| `AnnouncementServiceProofs` | `Typing`: `TypeOK`; `AudibleIsShown`: `AudibleIsReported`; `QuietAtRest`: `QuietWhenWaiting`; `CutOffIsOver`: `InterruptEndsIt`; `InterruptedIsStopped`: `InterruptedMeansStopped`; `Implementation`: `ImplementsQueue` |
| `EngineRegistryProofs` | `Typing`: `TypeOK`; `RegistrationsAreSaved`: `EnginesSaved`; `ChainsStayUsable`: `ChainsUsable` |
| `RecoveryProofs` | `RecoveryTyping`: `TypeOK`; `RecoveryInvariance`: `RetriedWhileNoticed` |
| `PoisonDetectionProofs` | `Typing`: `TypeOK`; `LogNeverLies`: `LogSound`; `BustOnEvidence`: `BustHasEvidence`; `TempFilesRemoved`: `SpeechReleased`; `RegisteredStaysOut`: `RegisteredNeverDurable`; `Implementation`: `ImplementsContract` |
| `ConfigEntriesProofs` | `Typing`: `TypeOK`; `WebhooksMatch`: `HooksMatch`; `HeardFromItsAddress`: `HearsItsAddress`; `NoOrphanedFiles`: `FilesOwned`; `FilesKeptWithEntry`: `FilesStay` |
| `PlaybackProofs` | `Typing`: `TypeOK`; `NothingHeardOutOfTurn`: `HeardInTurn`; `DiskAgrees`: `DiskMatchesIndex`; `FileStaysUntilPlayed`: `ServedFromDisk`; `MusicAsLoudAsBefore`: `VolumeGivenBack`; `FocusReturned`: `FocusGivenBack`; `SuccessMeansHeard`: `FinishedWasHeard` |

**The queue.** `DedupSpacing` is not inductive: it speaks of the history of acceptances,
while the code decides by the map. `IInv` relates the two. `RecentComplete`: every
acceptance within the window is remembered in `recent`, with a time no older than it.
`RecentSound`: what `recent` holds is the time of an acceptance of that key. `History`:
the heap is what is queued, and nothing lies in the future. With the first, an offer
accepted now is far enough from every earlier one; with the second, a suppression has a
cause. The steps that could break them are those that touch `recent`: the purge drops
only entries as old as the window (`PurgeKeeps`, `PurgeIsRecent`), and an acceptance
overwrites an entry by a later one (`AcceptKeeps`). What leaves the queue, taken,
stale or cleared, touches neither (`LeavingKeeps`, `PurgingKeeps`). `UrgentFirst` is
about one step: what a take drops is stale, and what it hands over comes before the rest
(`TakeIsUrgent`). One assumption more is in the model itself: the clock (`Tick`) never
goes back.

**The service.** None of its invariants is inductive alone, since no lock ties `current`,
`state`, the provider and the queue together. `IInv` ties each of them to the worker's
`pc` (`Shown`: from which step to which an announcement is current, the state SPEAKING,
the focus held, a provider active), says where an announcement is (`Owed`: queued, in the
worker's hands, or reported, and only taken ones are ever cut off), and follows a stop
through the provider's outcome to the report (`Blamed`). Handlers, stop requests and the
clock touch none of what `Shown` speaks of, but for `Stop`, the one step of theirs that
reaches a playback (`StopKeeps`). The refinement needs no invariant: each step of the
service is one of the queue's methods on the same variables, or leaves them alone
(`StepAllowed`).

**The registry.** `EnginesSaved` needs that only trimmed names are stored (`Trimmed`):
`load` refuses an entry by the trimmed form of its name, so a blob with an untrimmed one
would come back without it. `ChainsUsable` follows from the types and from what
`FirstOccurrences` and `Only` return, proved in `OrderedSetsProofs` by induction over the
length of the sequence. The library's induction theorems take an operator as a parameter
and cannot be cited; `Induction` is stated over membership in a set instead, and follows
from `LeastElement`, which follows from `WFMin` of `WellFoundedInduction`. `Iteration`
gives the function that a recursive definition speaks of.

**Recovery.** `TypeOK` and `RetriedWhileNoticed` are inductive together: that there is at
most one timer needs that an outage is noticed only when none is; that a manager stops
the right number of timers needs that there is one for each outage noticed
(`TimersCountOutages`). `UpdateKeeps` shows it once for an update from either source, a
push or a poll.

**Poison detection.** What is on disk is true only if what the tasks hold in their hands
is: `JobSound` says, for each step of a task, what it may rely on after its awaits (the
clip it holds answers its message; what it read of the log and of the generations is
true; it is about to refuse on evidence only, and to join only what may be joined).
Other tasks only add to `answers` and `trusted`, so what was sound stays so
(`SoundGrows`): that is why awaits do no harm here. `FilesSound` says the same of the
joined files, and that one key has one file being written. The refinement goes action by
action to the contract's actions or to a stutter (`StepAllowed`), with `IInv` for the
guards of the contract.

**Config entries.** `HearsItsAddress` relates a box to an entry through a webhook id that
is in the entry's data, in `hass.data`, in a running setup and in the box. `IdsApart`: no
id belongs to two entries; `DataFollowed`: while an entry is set up, its data and its
client speak of one address and one id, unless a reconfiguration took the id out;
`ToldThere`: a box that was told an entry's id was told it at the entry's address.
`Phased` gives `HooksMatch` and `FilesOwned` their phases.

**Playback.** `Progress` holds always: what the worker's `pc` says of listener, carriers
and stops. `OneAtATime` holds until an attempt is over before it has a player (`early`):
till then at most one url is on its way, that of the attempt under way, nothing has
settled it, and every clip that plays is the one the provider has its player for, so that
the next release silences it. `HeardInTurn` is inductive with these; `ServedFromDisk`
needs them too, since an eviction by another carrier's `put` could take the file. The
index is an ordered set (`IsIndex`); what removal, use, eviction and loading make of it
are lemmas (`WithoutFacts`, `UsedFacts`, `KeptFacts`, `LoadedFacts`) over those of
`OrderedSetsProofs`. `Volumes` and `Focus` say where the saved volume and the focus can
come from during an attempt.

Only checked by TLC, not proved: the liveness properties `EventuallyLeaves`,
`EveryAcceptedEnds`, `RetriesEnd`, `RecoveryAnnounced` and `LateRecoveredCorrected`, which
rest on fairness and so on ENABLED, out of the prover's reach. The three violations are
counterexamples TLC finds.

## 6. What is not modelled

* `DeviceTtsProvider` and `RemoteHttpTtsProvider`: `AnnouncementService` assumes their
  contract. Two places where the code does not keep it are listed as hazards: utterance
  ids are ignored (`DeviceTtsProvider.java:90`; also, a play that waits for `onInit`,
  `:72`, outlives its attempt), and a stop during synthesis leaves no mark
  (`RemoteHttpTtsProvider.java:128`).
* `ControlHttpServer`, `BootReceiver`, `P/api.py`, `P/bridge.py`, `P/sensor.py`: I/O and
  pass-through without state of their own.
* In `AnnouncementService`: status pushes, the heartbeat, the volume watcher,
  `onDestroy`; the wake lock's 30 s (`:508`), an exception in the worker's loop, caught
  with the announcement still current (`:239`), the two reads of `current` in
  `buildStatusJson` (`:277`), the media session updated from two threads (`:486`).
* In `EngineRegistry`: `remove` takes an id out of the default chain but saves only if
  the id was registered (`:45`) is in the model; no property speaks of the saved chain.
* In `Playback`: the cache's bound on bytes, temp and `.tmp` files left by a crash,
  `release()` at `onDestroy`; a duck lost at a death of the process is a new volume to
  the model (`AudioFocusManager.java:33`).
* In `PoisonDetection`: the archived sample and the log line about an earlier message
  that collides (`chime.py:305`), which the code does not read.
* In `ConfigEntries`: the port, the entity whose state tells of the TV's power, what a
  user edits in a generated file, which each setup writes over (`__init__.py:99`); the
  unique id, which stays the address of the first setup (`config_flow.py:152`), is in
  the model, and no property speaks of it.
* JSON parsing and rendering, the HTML page, notifications and logging: no property is
  about them. A wall clock that is set back is a hazard outside the queue's model.
