--------------------------- MODULE PoisonDetection ---------------------------
(***************************************************************************)
(* An announcement through one of Home Assistant's own engines, from        *)
(* ttsbridge.announce (notify.py) through the check of the clip and the     *)
(* join with a chime (chime.py) to the call that reaches the box.           *)
(*                                                                          *)
(* Service calls are tasks of one event loop: a step ends at an await that  *)
(* another task can make a difference to.  log.json and generations.json    *)
(* are read, changed in memory and written back across awaits, the write by *)
(* an executor thread that truncates the file first.  A step may fail where *)
(* the code meets ffmpeg, the disk or the network.                          *)
(*                                                                          *)
(* Data: a message stands for its pair with the engine; a clip for the      *)
(* audio, with its PCM signature; there is one chime, whose file does not   *)
(* change, so that a key is the message, whether the chime is folded in,    *)
(* and the poison generation.                                               *)
(***************************************************************************)
EXTENDS Integers, FiniteSets

CONSTANTS
    Calls,          \* service calls that may run at one time
    Messages,       \* pairs of a text and an engine
    Clips,          \* what an engine may answer with
    Signatures,
    Signature(_),   \* of a clip; one for all that ffmpeg cannot decode
    Registered,     \* known_bad_signatures.json
    Answers(_),     \* the clips an engine may give for a message
    Entries,        \* config entries, one for each box
    Faults,         \* what may fail: "ffmpeg", "disk", "fetch"
    MaxEvents,      \* bound: calls started and restarts of Home Assistant
    NoMessage, NoClip, NoKey, Truncated, Garbled

ASSUME PoisonAssumption ==
    /\ \A c \in Clips : Signature(c) \in Signatures
    /\ Registered \subseteq Signatures
    /\ \A m \in Messages : Answers(m) \subseteq Clips
    /\ MaxEvents \in Nat
    /\ NoClip \notin Clips

VARIABLES
    job,            \* the task of each call: a Job
    result,         \* how each call's latest announcement ended
    log,            \* log.json: messages heard with each signature (a Log)
    gens,           \* generations.json: poison generation of each message
    partial,        \* <key>.mp3.tmp files: a set of Files
    durable,        \* ttsbridge_chimes_cache/<key>.mp3: a set of Files
    options,        \* the detection option of each entry
    answers,        \* history: pairs <<message, clip>> engines answered
    trusted,        \* history: those accepted while detection was off
    events          \* calls started and restarts so far

files == <<log, gens>>
cache == <<partial, durable>>
history == <<answers, trusted>>
vars == <<job, result, files, cache, options, history, events>>

Keys == [message : Messages, chimed : BOOLEAN, gen : Nat]
PlainKey(m) == [message |-> m, chimed |-> FALSE, gen |-> 0]

Logs == [Signatures -> SUBSET Messages]     \* {}: no entry
Gens == [Messages -> Nat]
Unreadable == {Truncated, Garbled}
NoLog == [s \in Signatures |-> {}]
NoGens == [m \in Messages |-> 0]

ASSUME FormsAssumption ==
    /\ \A x \in Unreadable : x \notin Logs /\ x \notin Gens
    /\ NoKey \notin Keys

Steps == {"idle", "key", "lookup", "resolve", "download", "sign",
          "openLog", "saveLog", "loadGens", "openGens", "saveGens", "join",
          "joining", "rename", "combined", "plain"}

(* op: async_announce or async_check_cache.  stage: the first check, or     *)
(* async_render on its own.  url: what the engine's url serves.  speech:    *)
(* the downloaded temp file.  logCopy, gensCopy: what was read, changed.    *)
Jobs == [pc : Steps, op : {"announce", "check"},
         message : Messages \cup {NoMessage},
         chime : {"none", "missing", "ready"}, stage : {"verify", "render"},
         key : Keys \cup {NoKey}, url : Clips \cup {NoClip},
         speech : Clips \cup {NoClip}, logCopy : Logs, gensCopy : Gens]

(* by: the call whose ffmpeg has still to finish the file, or one of the    *)
(* states below.                                                            *)
Files == [key : Keys, clip : Clips, by : Calls \cup {"whole", "torn"}]

Results == {"none", "spoken", "refused", "lost", "told", "unrendered"}

Running(t) == job[t].pc # "idle"

TypeOK ==
    /\ job \in [Calls -> Jobs]
    /\ result \in [Calls -> Results]
    /\ log \in Logs \cup Unreadable
    /\ gens \in Gens \cup Unreadable
    /\ partial \subseteq Files /\ durable \subseteq Files
    /\ options \in [Entries -> BOOLEAN]
    /\ answers \subseteq Messages \X Clips /\ trusted \subseteq Messages \X Clips
    /\ events \in Nat

Idle ==
    [pc |-> "idle", op |-> "announce", message |-> NoMessage, chime |-> "none",
     stage |-> "verify", key |-> NoKey, url |-> NoClip, speech |-> NoClip,
     logCopy |-> NoLog, gensCopy |-> NoGens]

Init ==
    /\ job = [t \in Calls |-> Idle]
    /\ result = [t \in Calls |-> "none"]
    /\ log = NoLog /\ gens = NoGens
    /\ partial = {} /\ durable = {}
    /\ options = [e \in Entries |-> TRUE]
    /\ answers = {} /\ trusted = {}
    /\ events = 0

(* The definitions named Mutant... are deliberately wrong forms of the      *)
(* definition that follows them.                                            *)
-----------------------------------------------------------------------------
At(t, pc) == job[t].pc = pc
Go(t, pc) == job' = [job EXCEPT ![t].pc = pc]

(* The call ends; speech is the temp file it leaves behind.                 *)
Finish(t, how, left) ==
    /\ job' = [job EXCEPT ![t] = [Idle EXCEPT !.speech = left]]
    /\ result' = [result EXCEPT ![t] = how]

(* An exception that is not PoisonedSynthesis.  async_check_tts_url lets it *)
(* through, and the announcement is lost; async_render catches it, removes  *)
(* the speech and falls back to the engine's url, under the chime's key.    *)
Raise(t) ==
    IF job[t].stage = "verify"
      THEN Finish(t, "lost", job[t].speech)
      ELSE /\ job' = [job EXCEPT ![t].pc = "plain", ![t].speech = NoClip]
           /\ UNCHANGED result

(* Without a chime a cache check answers at once.                           *)
Announce(t, m, op, chime) ==
    /\ ~Running(t)
    /\ op = "check" => chime # "none"
    /\ events < MaxEvents
    /\ events' = events + 1
    /\ job' = [job EXCEPT ![t] =
                 [Idle EXCEPT !.op = op, !.message = m, !.chime = chime,
                     !.pc = IF chime = "none" THEN "resolve" ELSE "key"]]
    /\ result' = [result EXCEPT ![t] = "none"]
    /\ UNCHANGED <<files, cache, options, history>>

(* The option of any entry turns the detection off for all.                 *)
_is_detection_enabled == \A e \in Entries : options[e]

(* TtsBridgeOptionsFlow, read anew at each check.                           *)
SetOption(e) ==
    /\ options' = [options EXCEPT ![e] = ~ @]
    /\ UNCHANGED <<job, result, files, cache, history, events>>

(* A message that was never refused has no entry.                           *)
_get_poison_generation(m) == gens[m]

(* A missing chime has no key and is not a reason to fail.  A generations   *)
(* file that cannot be parsed is: FileNotFoundError alone is caught.        *)
compute_chime_cache_key(t) ==
    /\ At(t, "key")
    /\ \/ /\ job[t].chime = "missing"
          /\ job[t].op = "announce"
          /\ Go(t, "resolve")
          /\ UNCHANGED result
       \/ /\ job[t].chime = "missing"
          /\ job[t].op = "check"
          /\ Finish(t, "told", NoClip)
       \/ /\ job[t].chime = "ready" /\ gens \in Unreadable
          /\ Finish(t, "lost", NoClip)
       \/ /\ job[t].chime = "ready" /\ gens \notin Unreadable
          /\ job' = [job EXCEPT
                ![t].pc = "lookup",
                ![t].key = [message |-> job[t].message, chimed |-> TRUE,
                            gen |-> _get_poison_generation(job[t].message)]]
          /\ UNCHANGED result
    /\ UNCHANGED <<files, cache, options, history, events>>

(* Existence is all that is asked of the file.                              *)
try_get_cached_url(t) ==
    /\ At(t, "lookup")
    /\ LET hit == \E f \in durable : f.key = job[t].key IN
         \/ /\ job[t].op = "check"
            /\ Finish(t, "told", NoClip)
         \/ /\ job[t].op = "announce"
            /\ Go(t, IF hit THEN "combined" ELSE "resolve")
            /\ UNCHANGED result
    /\ UNCHANGED <<files, cache, options, history, events>>

(* The engine answers with a clip of its own, or not at all.                *)
_async_resolve_ha_tts_url(t) ==
    /\ At(t, "resolve")
    /\ \/ /\ "fetch" \in Faults
          /\ Finish(t, "unrendered", NoClip)
          /\ UNCHANGED answers
       \/ /\ \E c \in Answers(job[t].message) :
               /\ job' = [job EXCEPT ![t].pc = "download", ![t].url = c]
               /\ answers' = answers \cup {<<job[t].message, c>>}
          /\ UNCHANGED result
    /\ UNCHANGED <<files, cache, options, trusted, events>>

(* The clip is fit to play: joined with the chime if there is a key for it, *)
(* else played as it is and the temp file discarded.                        *)
MutantPassedKeepsTemp(t, clip) ==
    /\ job' = [job EXCEPT ![t].pc = IF job[t].key = NoKey THEN "plain" ELSE "join",
                  ![t].stage = "render", ![t].speech = clip]
    /\ UNCHANGED result

MutantPassedDiscards(t, clip) ==
    /\ job' = [job EXCEPT ![t].pc = IF job[t].key = NoKey THEN "plain" ELSE "join",
                  ![t].stage = "render", ![t].speech = NoClip]
    /\ UNCHANGED result

Passed(t, clip) ==
    /\ IF job[t].key = NoKey
         THEN job' = [job EXCEPT ![t].pc = "plain", ![t].speech = NoClip]
         ELSE job' = [job EXCEPT ![t].pc = "join", ![t].stage = "render",
                                 ![t].speech = clip]
    /\ UNCHANGED result

(* A fetch that fails in async_check_tts_url is no reason to stop: the url  *)
(* goes on unchecked, and async_render tries again for itself.              *)
MutantChecked(t) == _is_detection_enabled /\ job[t].stage = "verify"

Checked(t) == _is_detection_enabled

async_check_tts_url(t) ==
    /\ At(t, "download")
    /\ \/ /\ Checked(t)
          /\ job' = [job EXCEPT ![t].pc = "sign", ![t].speech = job[t].url]
          /\ UNCHANGED <<result, trusted>>
       \/ /\ ~Checked(t)
          /\ Passed(t, job[t].url)
          /\ trusted' = IF _is_detection_enabled THEN trusted
                        ELSE trusted \cup {<<job[t].message, job[t].url>>}
       \/ /\ "fetch" \in Faults
          /\ job' = [job EXCEPT
                ![t].pc = IF job[t].stage = "verify" /\ job[t].key # NoKey
                            THEN "download" ELSE "plain",
                ![t].stage = IF job[t].key # NoKey THEN "render" ELSE "verify"]
          /\ UNCHANGED <<result, trusted>>
    /\ UNCHANGED <<files, cache, options, answers, events>>
-----------------------------------------------------------------------------
(* _check_signature, from the signature to the verdict.                     *)

_async_pcm_signature(t) == Signature(job[t].speech)

MutantNoted(m, s) == [r \in Signatures |-> log[r] \cup {m}]

Noted(m, s) == [log EXCEPT ![s] = @ \cup {m}]

(* ffmpeg decodes the clip, the registered signatures are in memory, and    *)
(* the log is read: an exception if it cannot be parsed.  A message heard   *)
(* before with the signature is not suspicious.                             *)
Sign(t) ==
    LET m == job[t].message
        s == _async_pcm_signature(t)
    IN /\ At(t, "sign")
       /\ \/ /\ "ffmpeg" \in Faults
             /\ Raise(t)
          \/ /\ s \in Registered
             /\ Go(t, "loadGens")
             /\ UNCHANGED result
          \/ /\ s \notin Registered /\ log \in Unreadable
             /\ Raise(t)
          \/ /\ s \notin Registered /\ log \notin Unreadable /\ m \in log[s]
             /\ Passed(t, job[t].speech)
          \/ /\ s \notin Registered /\ log \notin Unreadable /\ m \notin log[s]
             /\ job' = [job EXCEPT ![t].pc = "openLog",
                          ![t].logCopy = Noted(m, s)]
             /\ UNCHANGED result
       /\ UNCHANGED <<files, cache, options, history, events>>

(* open(path, "w") empties the file; the content follows at the close.  If  *)
(* another writer's content went in between, it may show behind this one.   *)
Written(old, new) == IF old = Truncated THEN {new} ELSE {new, Garbled}

OpenLog(t) ==
    /\ At(t, "openLog")
    /\ log' = Truncated
    /\ Go(t, "saveLog")
    /\ UNCHANGED <<result, gens, cache, options, history, events>>

(* The first message with this signature passes; a later one collides.      *)
MutantFirst(t) == FALSE

First(t) == job[t].logCopy[_async_pcm_signature(t)] = {job[t].message}

_save_signature_log(t) ==
    /\ At(t, "saveLog")
    /\ \/ /\ log' \in Written(log, job[t].logCopy)
          /\ IF First(t)
               THEN Passed(t, job[t].speech)
               ELSE Go(t, "loadGens") /\ UNCHANGED result
       \/ /\ "disk" \in Faults
          /\ Raise(t)
          /\ UNCHANGED log
    /\ UNCHANGED <<gens, cache, options, history, events>>

(* _bump_poison_generation, and the exception that refuses the call.        *)
MutantBumped(m) == [n \in Messages |-> gens[n] + 1]

Bumped(m) == [gens EXCEPT ![m] = @ + 1]

_load_poison_generations(t) ==
    /\ At(t, "loadGens")
    /\ \/ /\ gens \in Unreadable
          /\ Raise(t)
       \/ /\ gens \notin Unreadable
          /\ job' = [job EXCEPT ![t].pc = "openGens",
                       ![t].gensCopy = Bumped(job[t].message)]
          /\ UNCHANGED result
    /\ UNCHANGED <<files, cache, options, history, events>>

OpenGens(t) ==
    /\ At(t, "openGens")
    /\ gens' = Truncated
    /\ Go(t, "saveGens")
    /\ UNCHANGED <<result, log, cache, options, history, events>>

_save_poison_generations(t) ==
    /\ At(t, "saveGens")
    /\ \/ /\ gens' \in Written(gens, job[t].gensCopy)
          /\ Finish(t, "refused", NoClip)
       \/ /\ "disk" \in Faults
          /\ Raise(t)
          /\ UNCHANGED gens
    /\ UNCHANGED <<log, cache, options, history, events>>
-----------------------------------------------------------------------------
(* async_render, from ffmpeg's start to the rename.                         *)

Without(set, k) == {f \in set : f.key # k}

(* ffmpeg -y truncates <key>.mp3.tmp, also while another ffmpeg writes it.  *)
StartJoin(t) ==
    /\ At(t, "join")
    /\ \/ /\ partial' = Without(partial, job[t].key) \cup
               {[key |-> job[t].key, clip |-> job[t].speech, by |-> t]}
          /\ Go(t, "joining")
          /\ UNCHANGED result
       \/ /\ "ffmpeg" \in Faults
          /\ Raise(t)
          /\ UNCHANGED partial
    /\ UNCHANGED <<files, durable, options, history, events>>

(* The file t writes, wherever it is by now, comes to state s.              *)
Close(set, t, s) == {IF f.by = t THEN [f EXCEPT !.by = s] ELSE f : f \in set}

(* It exits well, or it fails or is killed after 15 s.                      *)
_async_ffmpeg_concat(t) ==
    /\ At(t, "joining")
    /\ \/ /\ partial' = Close(partial, t, "whole")
          /\ durable' = Close(durable, t, "whole")
          /\ Go(t, "rename")
          /\ UNCHANGED result
       \/ /\ "ffmpeg" \in Faults
          /\ partial' = Close(partial, t, "torn")
          /\ durable' = Close(durable, t, "torn")
          /\ Raise(t)
    /\ UNCHANGED <<files, options, history, events>>

(* os.replace moves what is there: if another call has moved it, it raises. *)
Rename(t) ==
    /\ At(t, "rename")
    /\ LET k == job[t].key
           mine == {f \in partial : f.key = k}
       IN \/ /\ mine = {}
             /\ Raise(t)
             /\ UNCHANGED cache
          \/ /\ mine # {}
             /\ partial' = Without(partial, k)
             /\ durable' = Without(durable, k) \cup mine
             /\ job' = [job EXCEPT ![t].pc = "combined", ![t].speech = NoClip]
             /\ UNCHANGED result
    /\ UNCHANGED <<files, options, history, events>>
-----------------------------------------------------------------------------
(* announce_audio, with the key under which the box keeps what it fetches:  *)
(* the chime's if there is one, also after a fallback.                      *)
CacheKey(t) ==
    IF job[t].key = NoKey THEN PlainKey(job[t].message) ELSE job[t].key

Speak(t) ==
    /\ \/ At(t, "plain")
       \/ At(t, "combined")
    /\ Finish(t, "spoken", job[t].speech)
    /\ UNCHANGED <<files, cache, options, history, events>>

(* Home Assistant stops: the tasks end where they are, a running ffmpeg     *)
(* leaves its file as it is, the files on the disk stay.                    *)
Abandon(set) == {IF f.by \in Calls THEN [f EXCEPT !.by = "torn"] ELSE f : f \in set}

Restart ==
    /\ events < MaxEvents
    /\ events' = events + 1
    /\ job' = [t \in Calls |-> Idle]
    /\ result' = [t \in Calls |-> "none"]
    /\ partial' = Abandon(partial) /\ durable' = Abandon(durable)
    /\ UNCHANGED <<files, options, history>>

async_announce(t) ==
    \/ compute_chime_cache_key(t) \/ try_get_cached_url(t)
    \/ _async_resolve_ha_tts_url(t) \/ async_check_tts_url(t)
    \/ Speak(t)

_check_signature(t) ==
    \/ Sign(t) \/ OpenLog(t) \/ _save_signature_log(t)
    \/ _load_poison_generations(t) \/ OpenGens(t) \/ _save_poison_generations(t)

async_render(t) == StartJoin(t) \/ _async_ffmpeg_concat(t) \/ Rename(t)

Next ==
    \/ \E t \in Calls :
         \/ \E m \in Messages, op \in {"announce", "check"},
               chime \in {"none", "missing", "ready"} : Announce(t, m, op, chime)
         \/ async_announce(t) \/ _check_signature(t) \/ async_render(t)
    \/ \E e \in Entries : SetOption(e)
    \/ Restart

Spec == Init /\ [][Next]_vars
-----------------------------------------------------------------------------
(* The contract, with a call's verdict read off its task and its result,    *)
(* and the stock off the files the cache serves.                            *)
Verdict(t) == IF Running(t) THEN "asking" ELSE result[t]

Contract == INSTANCE PoisonContract WITH
    stock <- {<<f.key.message, f.clip>> : f \in durable},
    verdict <- [t \in Calls |-> Verdict(t)]

(* Every step of every call, with all their failures and overlaps, is one   *)
(* the contract allows: registered clips stay out of the durable cache, a   *)
(* refusal has evidence, a call ends once.                                  *)
ImplementsContract == Contract!Spec

(* What log.json says was heard was heard: a lost update may drop a message *)
(* from an entry, none may put one where it does not belong, or the next    *)
(* genuine clip would be refused for it.                                    *)
LogSound ==
    log \in Logs =>
        \A s \in Signatures : \A m \in log[s] :
            \E c \in Clips : <<m, c>> \in answers /\ Signature(c) = s

(* The keys of a message change only if something spoke against it: its     *)
(* entries on every device stay valid otherwise.                            *)
BustHasEvidence ==
    gens \in Gens =>
        \A m \in Messages : gens[m] > 0 => Contract!Evidence(answers, m)

(* Whoever owns the temp file when a call is spoken or refused has removed  *)
(* it, on each of the ways through async_announce and async_render.         *)
SpeechReleased ==
    \A t \in Calls :
        ~Running(t) /\ result[t] \in {"spoken", "refused"} => job[t].speech = NoClip

(* No file of the durable cache, nor one ffmpeg still writes, holds a clip  *)
(* that is registered as bad, and would play it for ever, unless it was     *)
(* accepted while the detection was off.                                    *)
RegisteredNeverDurable ==
    \A f \in partial \cup durable :
        Signature(f.clip) \in Registered => <<f.key.message, f.clip>> \in trusted
-----------------------------------------------------------------------------
(* What the code's comments promise and the code does not keep.             *)

(* chime.py:12: an announcement the engine rendered is never failed         *)
(* outright, if ffmpeg is missing, or anything else goes wrong.             *)
NeverLost == \A t \in Calls : result[t] # "lost"
=============================================================================
