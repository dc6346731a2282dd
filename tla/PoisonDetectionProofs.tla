------------------------ MODULE PoisonDetectionProofs ------------------------
(***************************************************************************)
(* Proofs about PoisonDetection, for every set of calls, messages, clips,   *)
(* entries and faults, and every number of events: its invariants, and that *)
(* it implements PoisonContract.                                            *)
(***************************************************************************)
EXTENDS PoisonDetection, TLAPS

Evidence(m) == Contract!Evidence(answers, m)

LogTrue(l) ==
    \A s \in Signatures : \A m \in l[s] :
        \E c \in Clips : <<m, c>> \in answers /\ Signature(c) = s

GensTrue(g) == \A m \in Messages : g[m] > 0 => Evidence(m)

WithSpeech == {"sign", "openLog", "saveLog", "loadGens", "openGens", "saveGens",
               "join", "joining", "rename"}

(* What a task may rely on after its awaits: the clip it holds answers its  *)
(* message, what it read of the log and of the generations is true, it is   *)
(* about to refuse on evidence only and to join only what may be joined.    *)
JobSound(j) ==
    /\ j.pc # "idle" => j.message \in Messages
    /\ j.pc \in {"lookup", "join", "joining", "rename"} => j.key # NoKey
    /\ j.key # NoKey => j.key.message = j.message
    /\ j.pc = "download" => j.url \in Clips /\ <<j.message, j.url>> \in answers
    /\ IF j.pc \in WithSpeech
         THEN j.speech \in Clips /\ <<j.message, j.speech>> \in answers
         ELSE j.pc # "idle" => j.speech = NoClip
    /\ j.pc \in {"openLog", "saveLog"} =>
          /\ Signature(j.speech) \notin Registered
          /\ j.message \in j.logCopy[Signature(j.speech)]
          /\ LogTrue(j.logCopy)
    /\ j.pc \in {"loadGens", "openGens", "saveGens"} => Evidence(j.message)
    /\ j.pc \in {"openGens", "saveGens"} => GensTrue(j.gensCopy)
    /\ j.pc \in {"join", "joining", "rename"} =>
          (Signature(j.speech) \in Registered => <<j.message, j.speech>> \in trusted)

JobsSound == \A t \in Calls : JobSound(job[t])

(* Joined clips answer their messages, and a key has one file that ffmpeg   *)
(* writes.                                                                  *)
FilesSound ==
    /\ \A f \in partial \cup durable : <<f.key.message, f.clip>> \in answers
    /\ \A f, g \in partial : f.key = g.key => f = g

IInv ==
    /\ TypeOK /\ JobsSound /\ FilesSound
    /\ LogSound /\ BustHasEvidence /\ SpeechReleased /\ RegisteredNeverDurable
-----------------------------------------------------------------------------
(* Answers and trust are never taken back, so what was sound stays so.      *)
LEMMA EvidenceGrows ==
    ASSUME answers \subseteq answers', NEW m, Evidence(m)
    PROVE  Evidence(m)'
BY DEF Evidence, Contract!Evidence

LEMMA LogTrueGrows ==
    ASSUME answers \subseteq answers', NEW l, LogTrue(l)
    PROVE  LogTrue(l)'
BY DEF LogTrue

LEMMA GensTrueGrows ==
    ASSUME answers \subseteq answers', NEW g, GensTrue(g)
    PROVE  GensTrue(g)'
BY EvidenceGrows DEF GensTrue

LEMMA SoundGrows ==
    ASSUME answers \subseteq answers', trusted \subseteq trusted', NEW j, JobSound(j)
    PROVE  JobSound(j)'
BY EvidenceGrows, LogTrueGrows, GensTrueGrows DEF JobSound

(* A step of one task.                                                      *)
LEMMA OneJob ==
    ASSUME TypeOK, JobsSound, NEW t \in Calls, NEW j \in Jobs,
           job' = [job EXCEPT ![t] = j],
           answers \subseteq answers', trusted \subseteq trusted', JobSound(j)'
    PROVE  job' \in [Calls -> Jobs] /\ JobsSound'
<1>1. job' \in [Calls -> Jobs]
  BY DEF TypeOK
<1>2. ASSUME NEW u \in Calls PROVE JobSound(job[u])'
  <2>1. CASE u = t
    <3>1. job'[u] = j
      BY <2>1 DEF TypeOK
    <3> QED
      BY <3>1 DEF JobSound
  <2>2. CASE u # t
    <3>1. PICK v : v = job[u] /\ v = job'[u]
      BY <2>2 DEF TypeOK
    <3>2. JobSound(v)
      BY <3>1 DEF JobsSound
    <3>3. JobSound(v)'
      BY <3>2, SoundGrows
    <3> QED
      BY <3>1, <3>3 DEF JobSound
  <2> QED
    BY <2>1, <2>2
<1> QED
  BY <1>1, <1>2 DEF JobsSound
-----------------------------------------------------------------------------
(* What the steps write into a task's record.                               *)
LEMMA GoWrites ==
    ASSUME TypeOK, NEW t \in Calls, NEW p \in Steps, Go(t, p)
    PROVE  \E j \in Jobs : /\ job' = [job EXCEPT ![t] = j]
                           /\ j = [job[t] EXCEPT !.pc = p]
BY DEF Go, TypeOK, Jobs

LEMMA KeyWrites ==
    ASSUME TypeOK, NEW t \in Calls, NEW k \in Keys,
           job' = [job EXCEPT ![t].pc = "lookup", ![t].key = k]
    PROVE  \E j \in Jobs : /\ job' = [job EXCEPT ![t] = j] /\ j.pc = "lookup" /\ j.key = k
                           /\ j.message = job[t].message /\ j.speech = job[t].speech
<1> DEFINE j == [job[t] EXCEPT !.pc = "lookup", !.key = k]
<1>1. job[t] \in Jobs
  BY DEF TypeOK
<1>2. j \in Jobs /\ j.pc = "lookup" /\ j.key = k
      /\ j.message = job[t].message /\ j.speech = job[t].speech
  BY <1>1 DEF Jobs, Steps
<1>3. job' = [job EXCEPT ![t] = j]
  BY DEF TypeOK
<1> HIDE DEF j
<1> QED
  BY <1>2, <1>3

LEMMA UrlWrites ==
    ASSUME TypeOK, NEW t \in Calls, NEW c \in Clips,
           job' = [job EXCEPT ![t].pc = "download", ![t].url = c]
    PROVE  \E j \in Jobs : /\ job' = [job EXCEPT ![t] = j] /\ j.pc = "download" /\ j.url = c
                           /\ j.message = job[t].message /\ j.speech = job[t].speech
                           /\ j.key = job[t].key
<1> DEFINE j == [job[t] EXCEPT !.pc = "download", !.url = c]
<1>1. job[t] \in Jobs
  BY DEF TypeOK
<1>2. j \in Jobs /\ j.pc = "download" /\ j.url = c
      /\ j.message = job[t].message /\ j.speech = job[t].speech /\ j.key = job[t].key
  BY <1>1 DEF Jobs, Steps
<1>3. job' = [job EXCEPT ![t] = j]
  BY DEF TypeOK
<1> HIDE DEF j
<1> QED
  BY <1>2, <1>3

LEMMA FinishWrites ==
    ASSUME TypeOK, NEW t \in Calls, NEW how \in Results, NEW left \in Clips \cup {NoClip},
           Finish(t, how, left)
    PROVE  \E j \in Jobs : /\ job' = [job EXCEPT ![t] = j] 
                           /\ j.pc = "idle" /\ j.key = NoKey /\ j.speech = left
                           /\ result' = [result EXCEPT ![t] = how]
<1>1. [Idle EXCEPT !.speech = left] \in Jobs
  BY DEF Jobs, Idle, NoLog, NoGens, Logs, Gens, Steps
<1> QED
  BY <1>1 DEF Finish, Idle

LEMMA PassedWrites ==
    ASSUME TypeOK, NEW t \in Calls, NEW clip \in Clips, Passed(t, clip)
    PROVE  \E j \in Jobs : /\ job' = [job EXCEPT ![t] = j] /\ UNCHANGED result
                           /\ j.message = job[t].message /\ j.key = job[t].key
                           /\ \/ job[t].key = NoKey /\ j.pc = "plain" /\ j.speech = NoClip
                              \/ job[t].key # NoKey /\ j.pc = "join" /\ j.speech = clip
BY DEF Passed, TypeOK, Jobs, Steps

LEMMA RaiseWrites ==
    ASSUME TypeOK, NEW t \in Calls, Raise(t)
    PROVE  \/ Finish(t, "lost", job[t].speech)
           \/ \E j \in Jobs : /\ job' = [job EXCEPT ![t] = j] /\ UNCHANGED result
                              /\ j.message = job[t].message /\ j.key = job[t].key
                              /\ j.pc = "plain" /\ j.speech = NoClip
BY DEF Raise, TypeOK, Jobs, Steps
-----------------------------------------------------------------------------
(* One step of a task: what it shows in its own record is enough, whether   *)
(* it goes on or ends.                                                      *)
LEMMA TaskStep ==
    ASSUME TypeOK, JobsSound, SpeechReleased, NEW t \in Calls, NEW j \in Jobs,
           job' = [job EXCEPT ![t] = j], JobSound(j)',
           answers \subseteq answers', trusted \subseteq trusted',
           \/ UNCHANGED result /\ j.pc # "idle"
           \/ \E how \in Results : /\ result' = [result EXCEPT ![t] = how]
                                   /\ how \in {"spoken", "refused"} => j.speech = NoClip
    PROVE  /\ job' \in [Calls -> Jobs] /\ result' \in [Calls -> Results]
           /\ JobsSound' /\ SpeechReleased'
<1>1. job' \in [Calls -> Jobs] /\ JobsSound'
  BY OneJob
<1>2. result' \in [Calls -> Results]
  BY DEF TypeOK
<1>3. SpeechReleased'
  BY DEF SpeechReleased, TypeOK, Running
<1> QED
  BY <1>1, <1>2, <1>3

LEMMA SharedKept ==
    ASSUME IInv, UNCHANGED <<files, cache>>,
           answers \subseteq answers', trusted \subseteq trusted'
    PROVE  FilesSound' /\ LogSound' /\ BustHasEvidence' /\ RegisteredNeverDurable'
<1> USE DEF IInv, files, cache
<1>1. FilesSound'
  BY DEF FilesSound
<1>2. LogSound'
  BY DEF LogSound
<1>3. BustHasEvidence'
  BY EvidenceGrows DEF BustHasEvidence, Evidence
<1>4. RegisteredNeverDurable'
  BY DEF RegisteredNeverDurable
<1> QED
  BY <1>1, <1>2, <1>3, <1>4

LEMMA GoKeeps ==
    ASSUME IInv, NEW t \in Calls, NEW p \in Steps, Go(t, p), p # "idle",
           UNCHANGED <<result, history>>,
           JobSound([job[t] EXCEPT !.pc = p])
    PROVE  /\ job' \in [Calls -> Jobs] /\ result' \in [Calls -> Results]
           /\ JobsSound' /\ SpeechReleased'
<1>1. PICK j \in Jobs : job' = [job EXCEPT ![t] = j] /\ j = [job[t] EXCEPT !.pc = p]
  BY GoWrites DEF IInv
<1>2. j.pc = p
  BY <1>1 DEF IInv, TypeOK, Jobs
<1>3. JobSound(j)
  BY <1>1
<1>4. answers \subseteq answers' /\ trusted \subseteq trusted'
  BY DEF history
<1> QED
  BY <1>1, <1>2, <1>3, <1>4, SoundGrows, TaskStep DEF IInv

LEMMA FinishKeeps ==
    ASSUME IInv, NEW t \in Calls, NEW how \in Results, NEW left \in Clips \cup {NoClip},
           Finish(t, how, left), how \in {"spoken", "refused"} => left = NoClip,
           UNCHANGED history
    PROVE  /\ job' \in [Calls -> Jobs] /\ result' \in [Calls -> Results]
           /\ JobsSound' /\ SpeechReleased'
<1>1. PICK j \in Jobs : /\ job' = [job EXCEPT ![t] = j] 
                        /\ j.pc = "idle" /\ j.key = NoKey /\ j.speech = left
                        /\ result' = [result EXCEPT ![t] = how]
  BY FinishWrites DEF IInv
<1>2. JobSound(j)
  BY <1>1 DEF JobSound, WithSpeech
<1>4. answers \subseteq answers' /\ trusted \subseteq trusted'
  BY DEF history
<1> QED
  BY <1>1, <1>2, <1>4, SoundGrows, TaskStep DEF IInv

LEMMA PassedKeeps ==
    ASSUME IInv, NEW t \in Calls, NEW clip \in Clips, Passed(t, clip),
           job[t].pc # "idle", <<job[t].message, clip>> \in answers',
           answers \subseteq answers', trusted \subseteq trusted',
           Signature(clip) \in Registered => <<job[t].message, clip>> \in trusted'
    PROVE  /\ job' \in [Calls -> Jobs] /\ result' \in [Calls -> Results]
           /\ JobsSound' /\ SpeechReleased'
<1>1. PICK j \in Jobs : /\ job' = [job EXCEPT ![t] = j] /\ UNCHANGED result
                        /\ j.message = job[t].message /\ j.key = job[t].key
                        /\ \/ job[t].key = NoKey /\ j.pc = "plain" /\ j.speech = NoClip
                           \/ job[t].key # NoKey /\ j.pc = "join" /\ j.speech = clip
  BY PassedWrites DEF IInv
<1>2. JobSound(job[t])
  BY DEF IInv, JobsSound
<1>3. JobSound(j)'
  BY <1>1, <1>2 DEF JobSound, WithSpeech
<1> QED
  BY <1>1, <1>3, TaskStep DEF IInv

LEMMA RaiseKeeps ==
    ASSUME IInv, NEW t \in Calls, job[t].pc # "idle", Raise(t), UNCHANGED history
    PROVE  /\ job' \in [Calls -> Jobs] /\ result' \in [Calls -> Results]
           /\ JobsSound' /\ SpeechReleased'
<1>1. CASE Finish(t, "lost", job[t].speech)
  <2>1. job[t].speech \in Clips \cup {NoClip}
    BY DEF IInv, TypeOK, Jobs
  <2> QED
    BY <1>1, <2>1, FinishKeeps DEF Results
<1>2. ASSUME NEW j \in Jobs, job' = [job EXCEPT ![t] = j], UNCHANGED result,
             j.message = job[t].message, j.key = job[t].key,
             j.pc = "plain", j.speech = NoClip
      PROVE  /\ job' \in [Calls -> Jobs] /\ result' \in [Calls -> Results]
             /\ JobsSound' /\ SpeechReleased'
  <2>1. JobSound(job[t])
    BY DEF IInv, JobsSound
  <2>2. JobSound(j)
    BY <1>2, <2>1 DEF JobSound, WithSpeech
  <2>3. answers \subseteq answers' /\ trusted \subseteq trusted'
    BY DEF history
  <2> QED
    BY <1>2, <2>2, <2>3, SoundGrows, TaskStep DEF IInv
<1> QED
  BY <1>1, <1>2, RaiseWrites DEF IInv
-----------------------------------------------------------------------------
(* The inductive step, operation by operation.                              *)
LEMMA AnnounceKeeps ==
    ASSUME IInv, NEW t \in Calls, NEW m \in Messages, NEW op \in {"announce", "check"},
           NEW chime \in {"none", "missing", "ready"}, Announce(t, m, op, chime)
    PROVE  IInv'
<1>1. PICK j : /\ job' = [job EXCEPT ![t] = j]
               /\ j = [Idle EXCEPT !.op = op, !.message = m, !.chime = chime,
                          !.pc = IF chime = "none" THEN "resolve" ELSE "key"]
  BY DEF Announce
<1>2. /\ j \in Jobs /\ j.pc \in {"resolve", "key"} /\ j.message = m
      /\ j.key = NoKey /\ j.speech = NoClip
  BY <1>1 DEF Jobs, Idle, NoLog, NoGens, Logs, Gens, Steps
<1>3. JobSound(j)
  BY <1>2 DEF JobSound, WithSpeech
<1>4. answers \subseteq answers' /\ trusted \subseteq trusted' /\ UNCHANGED <<files, cache>>
  BY DEF Announce, history
<1>5. /\ job' \in [Calls -> Jobs] /\ result' \in [Calls -> Results]
      /\ JobsSound' /\ SpeechReleased'
  <2>1. result' = [result EXCEPT ![t] = "none"]
    BY DEF Announce
  <2> QED
    BY <1>1, <1>2, <1>3, <1>4, <2>1, SoundGrows, TaskStep DEF IInv, Results
<1>6. TypeOK'
  BY <1>5, PoisonAssumption DEF Announce, IInv, TypeOK, files, cache, history
<1> QED
  BY <1>4, <1>5, <1>6, SharedKept DEF IInv

LEMMA KeyKeeps ==
    ASSUME IInv, NEW t \in Calls, compute_chime_cache_key(t)
    PROVE  IInv'
<1>0. JobSound(job[t]) /\ job[t] \in Jobs /\ job[t].pc = "key"
  BY DEF IInv, JobsSound, TypeOK, compute_chime_cache_key, At
<1>1. answers \subseteq answers' /\ trusted \subseteq trusted' /\ UNCHANGED <<files, cache>>
      /\ UNCHANGED history
  BY DEF history, compute_chime_cache_key
<1> DEFINE Good == /\ job' \in [Calls -> Jobs] /\ result' \in [Calls -> Results]
                   /\ JobsSound' /\ SpeechReleased'
<1>2. ASSUME Go(t, "resolve"), UNCHANGED result PROVE Good
  <2>1. JobSound([job[t] EXCEPT !.pc = "resolve"])
    BY <1>0 DEF JobSound, WithSpeech, Jobs
  <2> QED
    BY <1>1, <1>2, <2>1, GoKeeps DEF history, Steps
<1>3. ASSUME NEW how \in {"told", "lost"}, Finish(t, how, NoClip) PROVE Good
  BY <1>1, <1>3, FinishKeeps DEF Results
<1>4. ASSUME gens \notin Unreadable,
             job' = [job EXCEPT
                ![t].pc = "lookup",
                ![t].key = [message |-> job[t].message, chimed |-> TRUE,
                            gen |-> _get_poison_generation(job[t].message)]],
             UNCHANGED result
      PROVE  Good
  <2>1. job[t].message \in Messages /\ gens \in Gens
    BY <1>0, <1>4 DEF JobSound, IInv, TypeOK
  <2>2. PICK k : k = [message |-> job[t].message, chimed |-> TRUE,
                      gen |-> _get_poison_generation(job[t].message)]
    OBVIOUS
  <2>3. k \in Keys /\ k.message = job[t].message /\ k # NoKey
    <3>1. _get_poison_generation(job[t].message) \in Nat
      BY <2>1 DEF Gens, _get_poison_generation
    <3>2. k \in Keys
      BY <2>1, <2>2, <3>1 DEF Keys
    <3>3. k.message = job[t].message
      BY <2>2
    <3> QED
      BY <3>2, <3>3, FormsAssumption
  <2>4. job' = [job EXCEPT ![t].pc = "lookup", ![t].key = k]
    BY <1>4, <2>2, Zenon
  <2>5. PICK j \in Jobs : /\ job' = [job EXCEPT ![t] = j] /\ j.pc = "lookup" /\ j.key = k
                          /\ j.message = job[t].message /\ j.speech = job[t].speech
    BY <2>3, <2>4, KeyWrites DEF IInv
  <2>6. JobSound(j)
    BY <1>0, <2>3, <2>5 DEF JobSound, WithSpeech
  <2> QED
    BY <1>1, <1>4, <2>5, <2>6, SoundGrows, TaskStep DEF IInv
<1>5. Good
  BY <1>2, <1>3, <1>4 DEF compute_chime_cache_key
<1>6. TypeOK'
  BY <1>5 DEF IInv, TypeOK, files, cache, compute_chime_cache_key, history
<1> QED
  BY <1>1, <1>5, <1>6, SharedKept DEF IInv

LEMMA LookupKeeps ==
    ASSUME IInv, NEW t \in Calls, try_get_cached_url(t)
    PROVE  IInv'
<1>0. JobSound(job[t]) /\ job[t] \in Jobs /\ job[t].pc = "lookup"
  BY DEF IInv, JobsSound, TypeOK, try_get_cached_url, At
<1>1. answers \subseteq answers' /\ trusted \subseteq trusted' /\ UNCHANGED <<files, cache>>
      /\ UNCHANGED history
  BY DEF history, try_get_cached_url
<1> DEFINE Good == /\ job' \in [Calls -> Jobs] /\ result' \in [Calls -> Results]
                   /\ JobsSound' /\ SpeechReleased'
<1>2. ASSUME Finish(t, "told", NoClip) PROVE Good
  BY <1>1, <1>2, FinishKeeps DEF Results
<1>3. ASSUME NEW p \in {"combined", "resolve"}, Go(t, p), UNCHANGED result PROVE Good
  <2>1. JobSound([job[t] EXCEPT !.pc = p])
    BY <1>0 DEF JobSound, WithSpeech, Jobs
  <2> QED
    BY <1>1, <1>3, <2>1, GoKeeps DEF history, Steps
<1>4. Good
  BY <1>2, <1>3 DEF try_get_cached_url
<1>5. TypeOK'
  BY <1>4 DEF IInv, TypeOK, files, cache, try_get_cached_url, history
<1> QED
  BY <1>1, <1>4, <1>5, SharedKept DEF IInv

LEMMA ResolveKeeps ==
    ASSUME IInv, NEW t \in Calls, _async_resolve_ha_tts_url(t)
    PROVE  IInv'
<1>0. JobSound(job[t]) /\ job[t] \in Jobs /\ job[t].pc = "resolve" /\ job[t].message \in Messages
  BY DEF IInv, JobsSound, TypeOK, JobSound, _async_resolve_ha_tts_url, At
<1> DEFINE Good == /\ job' \in [Calls -> Jobs] /\ result' \in [Calls -> Results]
                   /\ JobsSound' /\ SpeechReleased'
                   /\ answers \subseteq answers' /\ answers' \subseteq Messages \X Clips
<1>1. ASSUME Finish(t, "unrendered", NoClip), UNCHANGED answers PROVE Good
  BY <1>1, FinishKeeps DEF Results, history, IInv, TypeOK, _async_resolve_ha_tts_url
<1>2. ASSUME NEW c \in Answers(job[t].message),
             job' = [job EXCEPT ![t].pc = "download", ![t].url = c],
             answers' = answers \cup {<<job[t].message, c>>},
             UNCHANGED result
      PROVE  Good
  <2>1. c \in Clips
    BY <1>0, PoisonAssumption
  <2>2. PICK j \in Jobs : /\ job' = [job EXCEPT ![t] = j] /\ j.pc = "download" /\ j.url = c
                          /\ j.message = job[t].message /\ j.speech = job[t].speech
                          /\ j.key = job[t].key
    BY <1>2, <2>1, UrlWrites DEF IInv
  <2>3. JobSound(j)'
    BY <1>0, <1>2, <2>1, <2>2 DEF JobSound, WithSpeech, _async_resolve_ha_tts_url
  <2>4. trusted \subseteq trusted' /\ answers \subseteq answers'
    BY <1>2 DEF _async_resolve_ha_tts_url
  <2>5. answers' \subseteq Messages \X Clips
    <3>1. <<job[t].message, c>> \in Messages \X Clips
      BY <1>0, <2>1
    <3>2. answers \subseteq Messages \X Clips
      BY DEF IInv, TypeOK
    <3> QED
      BY <1>2, <3>1, <3>2
  <2> QED
    BY <1>2, <2>2, <2>3, <2>4, <2>5, TaskStep DEF IInv
<1>3. Good
  BY <1>1, <1>2 DEF _async_resolve_ha_tts_url
<1>4. TypeOK'
  BY <1>3 DEF IInv, TypeOK, files, cache, _async_resolve_ha_tts_url
<1> QED
  BY <1>3, <1>4, SharedKept DEF IInv, _async_resolve_ha_tts_url

LEMMA CheckKeeps ==
    ASSUME IInv, NEW t \in Calls, async_check_tts_url(t)
    PROVE  IInv'
<1>0. /\ JobSound(job[t]) /\ job[t] \in Jobs /\ job[t].pc = "download"
      /\ job[t].message \in Messages /\ job[t].url \in Clips
      /\ <<job[t].message, job[t].url>> \in answers
  BY DEF IInv, JobsSound, TypeOK, JobSound, async_check_tts_url, At
<1>1. UNCHANGED <<files, cache, options, answers, events>>
  BY DEF async_check_tts_url
<1> DEFINE Good == /\ job' \in [Calls -> Jobs] /\ result' \in [Calls -> Results]
                   /\ JobsSound' /\ SpeechReleased'
                   /\ trusted \subseteq trusted' /\ trusted' \subseteq Messages \X Clips
<1>2. ASSUME job' = [job EXCEPT ![t].pc = "sign", ![t].speech = job[t].url],
             UNCHANGED <<result, trusted>>
      PROVE  Good
  <2> DEFINE j == [job[t] EXCEPT !.pc = "sign", !.speech = job[t].url]
  <2>1. /\ j \in Jobs /\ j.pc = "sign" /\ j.speech = job[t].url
        /\ j.message = job[t].message /\ j.key = job[t].key
    BY <1>0 DEF Jobs, Steps
  <2>2. job' = [job EXCEPT ![t] = j]
    BY <1>2 DEF IInv, TypeOK
  <2> HIDE DEF j
  <2>3. JobSound(j)
    BY <1>0, <2>1 DEF JobSound, WithSpeech
  <2>4. answers \subseteq answers' /\ trusted \subseteq trusted'
    BY <1>1, <1>2
  <2>5. trusted' \subseteq Messages \X Clips
    BY <1>2 DEF IInv, TypeOK
  <2> QED
    BY <1>2, <2>1, <2>2, <2>3, <2>4, <2>5, SoundGrows, TaskStep DEF IInv
<1>3. ASSUME ~Checked(t), Passed(t, job[t].url),
             trusted' = IF _is_detection_enabled THEN trusted
                        ELSE trusted \cup {<<job[t].message, job[t].url>>}
      PROVE  Good
  <2>1. trusted' = trusted \cup {<<job[t].message, job[t].url>>}
    BY <1>3 DEF Checked
  <2>2. trusted' \subseteq Messages \X Clips
    <3>1. <<job[t].message, job[t].url>> \in Messages \X Clips
      BY <1>0
    <3>2. trusted \subseteq Messages \X Clips
      BY DEF IInv, TypeOK
    <3> QED
      BY <2>1, <3>1, <3>2
  <2> QED
    BY <1>0, <1>1, <1>3, <2>1, <2>2, PassedKeeps
<1>4. ASSUME NEW p \in {"download", "plain"}, NEW q \in {"verify", "render"},
             job' = [job EXCEPT ![t].pc = p, ![t].stage = q],
             UNCHANGED <<result, trusted>>
      PROVE  Good
  <2> DEFINE j == [job[t] EXCEPT !.pc = p, !.stage = q]
  <2>1. /\ j \in Jobs /\ j.pc = p /\ j.speech = job[t].speech /\ j.url = job[t].url
        /\ j.message = job[t].message /\ j.key = job[t].key
    BY <1>0 DEF Jobs, Steps
  <2>2. job' = [job EXCEPT ![t] = j]
    BY <1>4 DEF IInv, TypeOK
  <2> HIDE DEF j
  <2>3. JobSound(j)
    BY <1>0, <1>4, <2>1 DEF JobSound, WithSpeech
  <2>4. answers \subseteq answers' /\ trusted \subseteq trusted'
    BY <1>1, <1>4
  <2>5. trusted' \subseteq Messages \X Clips
    BY <1>4 DEF IInv, TypeOK
  <2> QED
    BY <1>4, <2>1, <2>2, <2>3, <2>4, <2>5, SoundGrows, TaskStep DEF IInv
<1>5. Good
  <2>1. CASE /\ Checked(t)
             /\ job' = [job EXCEPT ![t].pc = "sign", ![t].speech = job[t].url]
             /\ UNCHANGED <<result, trusted>>
    BY <1>2, <2>1
  <2>2. CASE /\ ~Checked(t) /\ Passed(t, job[t].url)
             /\ trusted' = IF _is_detection_enabled THEN trusted
                           ELSE trusted \cup {<<job[t].message, job[t].url>>}
    BY <1>3, <2>2
  <2>3. CASE /\ job' = [job EXCEPT
                   ![t].pc = IF job[t].stage = "verify" /\ job[t].key # NoKey
                               THEN "download" ELSE "plain",
                   ![t].stage = IF job[t].key # NoKey THEN "render" ELSE "verify"]
             /\ UNCHANGED <<result, trusted>>
    BY <1>4, <2>3
  <2> QED
    BY <2>1, <2>2, <2>3 DEF async_check_tts_url
<1>6. TypeOK'
  BY <1>1, <1>5 DEF IInv, TypeOK, files, cache
<1> QED
  BY <1>1, <1>5, <1>6, SharedKept DEF IInv

(* The signature, the read of the log and what follows from them.           *)
LEMMA SignKeeps ==
    ASSUME IInv, NEW t \in Calls, Sign(t)
    PROVE  IInv'
<1> DEFINE m == job[t].message
           s == _async_pcm_signature(t)
<1>0. /\ JobSound(job[t]) /\ job[t] \in Jobs /\ job[t].pc = "sign"
      /\ m \in Messages /\ job[t].speech \in Clips
      /\ <<m, job[t].speech>> \in answers
  BY DEF IInv, JobsSound, TypeOK, JobSound, WithSpeech, Sign, At
<1>1. UNCHANGED <<files, cache, options, history, events>>
  BY DEF Sign
<1>2. s = Signature(job[t].speech) /\ s \in Signatures
  BY <1>0, PoisonAssumption DEF _async_pcm_signature
<1> HIDE DEF m, s
<1> DEFINE Good == /\ job' \in [Calls -> Jobs] /\ result' \in [Calls -> Results]
                   /\ JobsSound' /\ SpeechReleased'
<1>3. ASSUME Raise(t) PROVE Good
  BY <1>0, <1>1, <1>3, RaiseKeeps
<1>4. ASSUME s \in Registered, Go(t, "loadGens"), UNCHANGED result PROVE Good
  <2>1. Evidence(m)
    BY <1>0, <1>2, <1>4 DEF Evidence, Contract!Evidence
  <2>2. JobSound([job[t] EXCEPT !.pc = "loadGens"])
    BY <1>0, <2>1 DEF JobSound, WithSpeech, Jobs, m
  <2> QED
    BY <1>1, <1>4, <2>2, GoKeeps DEF history, Steps
<1>5. ASSUME s \notin Registered, Passed(t, job[t].speech) PROVE Good
  BY <1>0, <1>1, <1>2, <1>5, PassedKeeps DEF history, m
<1>6. ASSUME s \notin Registered, log \notin Unreadable,
             job' = [job EXCEPT ![t].pc = "openLog", ![t].logCopy = Noted(m, s)],
             UNCHANGED result
      PROVE  Good
  <2>1. log \in Logs /\ LogTrue(log)
    BY <1>6 DEF IInv, TypeOK, LogSound, LogTrue
  <2>2. Noted(m, s) \in Logs /\ m \in Noted(m, s)[s]
    BY <1>0, <1>2, <2>1 DEF Noted, Logs
  <2>3. LogTrue(Noted(m, s))
    BY <1>0, <1>2, <2>1 DEF Noted, Logs, LogTrue
  <2> DEFINE j == [job[t] EXCEPT !.pc = "openLog", !.logCopy = Noted(m, s)]
  <2>4. /\ j \in Jobs /\ j.pc = "openLog" /\ j.speech = job[t].speech
        /\ j.message = m /\ j.key = job[t].key /\ j.logCopy = Noted(m, s)
    BY <1>0, <2>2 DEF Jobs, Steps, m
  <2>5. job' = [job EXCEPT ![t] = j]
    BY <1>6 DEF IInv, TypeOK
  <2> HIDE DEF j
  <2>6. JobSound(j)
    BY <1>0, <1>2, <1>6, <2>2, <2>3, <2>4 DEF JobSound, WithSpeech, m
  <2>7. answers \subseteq answers' /\ trusted \subseteq trusted'
    BY <1>1 DEF history
  <2> QED
    BY <1>6, <2>4, <2>5, <2>6, <2>7, SoundGrows, TaskStep DEF IInv
<1>7. Good
  BY <1>3, <1>4, <1>5, <1>6 DEF Sign, m, s
<1>8. TypeOK'
  BY <1>1, <1>7 DEF IInv, TypeOK, files, cache, history
<1> QED
  BY <1>1, <1>7, <1>8, SharedKept DEF IInv, history

(* A step that leaves history, options and files of the cache alone, and    *)
(* writes one of the two json files: what it wrote has to be true.          *)
LEMMA FilesWritten ==
    ASSUME IInv, UNCHANGED <<cache, options, history, events>>,
           log' \in Unreadable \/ log' = log \/ (log' \in Logs /\ LogTrue(log')),
           gens' \in Unreadable \/ gens' = gens \/ (gens' \in Gens /\ GensTrue(gens')),
           job' \in [Calls -> Jobs], result' \in [Calls -> Results],
           JobsSound', SpeechReleased'
    PROVE  IInv'
<1>1. TypeOK'
  BY DEF IInv, TypeOK, cache, history
<1>2. FilesSound' /\ RegisteredNeverDurable'
  BY DEF IInv, FilesSound, RegisteredNeverDurable, cache, history
<1>3. LogSound'
  BY FormsAssumption DEF IInv, LogSound, LogTrue, history
<1>4. BustHasEvidence'
  BY FormsAssumption DEF IInv, BustHasEvidence, GensTrue, Evidence, history
<1> QED
  BY <1>1, <1>2, <1>3, <1>4 DEF IInv

LEMMA OpenLogKeeps ==
    ASSUME IInv, NEW t \in Calls, OpenLog(t)
    PROVE  IInv'
<1>1. JobSound(job[t]) /\ job[t] \in Jobs /\ job[t].pc = "openLog"
  BY DEF IInv, JobsSound, TypeOK, OpenLog, At
<1>2. JobSound([job[t] EXCEPT !.pc = "saveLog"])
  BY <1>1 DEF JobSound, WithSpeech, Jobs
<1>3. /\ job' \in [Calls -> Jobs] /\ result' \in [Calls -> Results]
      /\ JobsSound' /\ SpeechReleased'
  BY <1>2, GoKeeps DEF OpenLog, Steps
<1> QED
  BY <1>3, FilesWritten DEF OpenLog, Unreadable

LEMMA SaveLogKeeps ==
    ASSUME IInv, NEW t \in Calls, _save_signature_log(t)
    PROVE  IInv'
<1> DEFINE m == job[t].message
           s == _async_pcm_signature(t)
           l == job[t].logCopy
<1>0. /\ JobSound(job[t]) /\ job[t] \in Jobs /\ job[t].pc = "saveLog"
      /\ m \in Messages /\ job[t].speech \in Clips /\ <<m, job[t].speech>> \in answers
      /\ l \in Logs /\ LogTrue(l)
  BY DEF IInv, JobsSound, TypeOK, JobSound, WithSpeech, _save_signature_log, At, Jobs
<1>1. UNCHANGED <<gens, cache, options, history, events>>
  BY DEF _save_signature_log
<1>2. s = Signature(job[t].speech) /\ s \in Signatures /\ s \notin Registered /\ m \in l[s]
  BY <1>0, PoisonAssumption DEF _async_pcm_signature, JobSound
<1> DEFINE Good == /\ job' \in [Calls -> Jobs] /\ result' \in [Calls -> Results]
                   /\ JobsSound' /\ SpeechReleased'
<1>3. ASSUME Raise(t) PROVE Good
  BY <1>0, <1>1, <1>3, RaiseKeeps
<1>4. ASSUME Passed(t, job[t].speech) PROVE Good
  BY <1>0, <1>1, <1>2, <1>4, PassedKeeps DEF history
<1>5. ASSUME ~First(t), Go(t, "loadGens"), UNCHANGED result PROVE Good
  <2>1. PICK n \in l[s] : n # m
    BY <1>2, <1>5 DEF First
  <2>2. n \in Messages
    BY <1>0, <1>2, <2>1 DEF Logs
  <2>3. PICK c \in Clips : <<n, c>> \in answers /\ Signature(c) = s
    BY <1>0, <1>2, <2>1 DEF LogTrue
  <2>4. Evidence(m)
    BY <1>0, <1>2, <2>1, <2>2, <2>3 DEF Evidence, Contract!Evidence
  <2>5. JobSound([job[t] EXCEPT !.pc = "loadGens"])
    BY <1>0, <2>4 DEF JobSound, WithSpeech, Jobs
  <2> QED
    BY <1>1, <1>5, <2>5, GoKeeps DEF history, Steps
<1>6. Good
  BY <1>3, <1>4, <1>5 DEF _save_signature_log
<1>7. log' \in Unreadable \/ log' = log \/ (log' \in Logs /\ LogTrue(log'))
  BY <1>0 DEF _save_signature_log, Written, Unreadable
<1> HIDE DEF Good
<1> QED
  BY <1>1, <1>6, <1>7, FilesWritten DEF Good

LEMMA LoadGensKeeps ==
    ASSUME IInv, NEW t \in Calls, _load_poison_generations(t)
    PROVE  IInv'
<1>0. /\ JobSound(job[t]) /\ job[t] \in Jobs /\ job[t].pc = "loadGens"
      /\ job[t].message \in Messages /\ Evidence(job[t].message)
  BY DEF IInv, JobsSound, TypeOK, JobSound, _load_poison_generations, At
<1>1. UNCHANGED <<files, cache, options, history, events>>
  BY DEF _load_poison_generations
<1> DEFINE Good == /\ job' \in [Calls -> Jobs] /\ result' \in [Calls -> Results]
                   /\ JobsSound' /\ SpeechReleased'
<1>2. ASSUME Raise(t) PROVE Good
  BY <1>0, <1>1, <1>2, RaiseKeeps
<1>3. ASSUME gens \notin Unreadable, UNCHANGED result,
             job' = [job EXCEPT ![t].pc = "openGens",
                       ![t].gensCopy = Bumped(job[t].message)]
      PROVE  Good
  <2>1. gens \in Gens /\ GensTrue(gens)
    BY <1>3 DEF IInv, TypeOK, BustHasEvidence, GensTrue, Evidence
  <2>2. PICK g : g = Bumped(job[t].message)
    OBVIOUS
  <2>3. g \in Gens /\ GensTrue(g)
    BY <1>0, <2>1, <2>2 DEF Bumped, Gens, GensTrue
  <2> DEFINE j == [job[t] EXCEPT !.pc = "openGens", !.gensCopy = g]
  <2>4. /\ j \in Jobs /\ j.pc = "openGens" /\ j.speech = job[t].speech
        /\ j.message = job[t].message /\ j.key = job[t].key /\ j.gensCopy = g
    BY <1>0, <2>3 DEF Jobs, Steps
  <2>5. job' = [job EXCEPT ![t] = j]
    BY <1>3, <2>2 DEF IInv, TypeOK
  <2> HIDE DEF j
  <2>6. JobSound(j)
    BY <1>0, <2>3, <2>4 DEF JobSound, WithSpeech
  <2>7. answers \subseteq answers' /\ trusted \subseteq trusted'
    BY <1>1 DEF history
  <2> QED
    BY <1>3, <2>4, <2>5, <2>6, <2>7, SoundGrows, TaskStep DEF IInv
<1>4. Good
  BY <1>2, <1>3 DEF _load_poison_generations
<1> QED
  BY <1>1, <1>4, FilesWritten DEF files

LEMMA OpenGensKeeps ==
    ASSUME IInv, NEW t \in Calls, OpenGens(t)
    PROVE  IInv'
<1>1. JobSound(job[t]) /\ job[t] \in Jobs /\ job[t].pc = "openGens"
  BY DEF IInv, JobsSound, TypeOK, OpenGens, At
<1>2. JobSound([job[t] EXCEPT !.pc = "saveGens"])
  BY <1>1 DEF JobSound, WithSpeech, Jobs
<1>3. /\ job' \in [Calls -> Jobs] /\ result' \in [Calls -> Results]
      /\ JobsSound' /\ SpeechReleased'
  BY <1>2, GoKeeps DEF OpenGens, Steps
<1> QED
  BY <1>3, FilesWritten DEF OpenGens, Unreadable

LEMMA SaveGensKeeps ==
    ASSUME IInv, NEW t \in Calls, _save_poison_generations(t)
    PROVE  IInv'
<1>0. /\ JobSound(job[t]) /\ job[t] \in Jobs /\ job[t].pc = "saveGens"
      /\ job[t].gensCopy \in Gens /\ GensTrue(job[t].gensCopy)
  BY DEF IInv, JobsSound, TypeOK, JobSound, _save_poison_generations, At, Jobs
<1>1. UNCHANGED <<log, cache, options, history, events>>
  BY DEF _save_poison_generations
<1>2. /\ job' \in [Calls -> Jobs] /\ result' \in [Calls -> Results]
      /\ JobsSound' /\ SpeechReleased'
  <2>1. CASE Raise(t)
    BY <1>0, <1>1, <2>1, RaiseKeeps
  <2>2. CASE Finish(t, "refused", NoClip)
    BY <1>1, <2>2, FinishKeeps DEF Results
  <2> QED
    BY <2>1, <2>2 DEF _save_poison_generations
<1>3. gens' \in Unreadable \/ gens' = gens \/ (gens' \in Gens /\ GensTrue(gens'))
  BY <1>0 DEF _save_poison_generations, Written, Unreadable
<1> QED
  BY <1>1, <1>2, <1>3, FilesWritten
-----------------------------------------------------------------------------
(* The files of the cache.                                                  *)
LEMMA CacheWritten ==
    ASSUME IInv, UNCHANGED <<files, options, history, events>>,
           partial' \subseteq Files, durable' \subseteq Files,
           FilesSound', RegisteredNeverDurable',
           job' \in [Calls -> Jobs], result' \in [Calls -> Results],
           JobsSound', SpeechReleased'
    PROVE  IInv'
<1>1. TypeOK'
  BY DEF IInv, TypeOK, files, history
<1>2. LogSound'
  BY DEF IInv, LogSound, files, history
<1>3. BustHasEvidence'
  BY DEF IInv, BustHasEvidence, files, history
<1> QED
  BY <1>1, <1>2, <1>3 DEF IInv

LEMMA StartJoinKeeps ==
    ASSUME IInv, NEW t \in Calls, StartJoin(t)
    PROVE  IInv'
<1> DEFINE k == job[t].key
           f0 == [key |-> k, clip |-> job[t].speech, by |-> t]
<1>0. /\ JobSound(job[t]) /\ job[t] \in Jobs /\ job[t].pc = "join"
      /\ k \in Keys /\ k.message = job[t].message /\ job[t].speech \in Clips
      /\ <<k.message, job[t].speech>> \in answers
      /\ Signature(job[t].speech) \in Registered => <<k.message, job[t].speech>> \in trusted
  BY DEF IInv, JobsSound, TypeOK, JobSound, WithSpeech, StartJoin, At, Jobs
<1>1. UNCHANGED <<files, durable, options, history, events>>
  BY DEF StartJoin
<1> DEFINE Good == /\ job' \in [Calls -> Jobs] /\ result' \in [Calls -> Results]
                   /\ JobsSound' /\ SpeechReleased'
<1>2. CASE Raise(t) /\ UNCHANGED partial
  <2>1. Good
    BY <1>0, <1>1, <1>2, RaiseKeeps
  <2> QED
    BY <1>1, <1>2, <2>1, FilesWritten DEF files, cache
<1>3. CASE Go(t, "joining") /\ UNCHANGED result /\ partial' = Without(partial, k) \cup {f0}
  <2>1. JobSound([job[t] EXCEPT !.pc = "joining"])
    BY <1>0 DEF JobSound, WithSpeech, Jobs
  <2>2. Good
    BY <1>1, <1>3, <2>1, GoKeeps DEF history, Steps
  <2>3. f0 \in Files /\ f0.key = k /\ f0.clip = job[t].speech
    BY <1>0 DEF Files
  <2> HIDE DEF f0
  <2>4. partial' \subseteq Files /\ durable' \subseteq Files
    BY <1>1, <1>3, <2>3 DEF IInv, TypeOK, Without
  <2>5. FilesSound'
    BY <1>0, <1>1, <1>3, <2>3 DEF IInv, FilesSound, Without, history
  <2>6. RegisteredNeverDurable'
    BY <1>0, <1>1, <1>3, <2>3 DEF IInv, RegisteredNeverDurable, Without, history
  <2> QED
    BY <1>1, <2>2, <2>4, <2>5, <2>6, CacheWritten
<1> QED
  BY <1>2, <1>3 DEF StartJoin

(* Closing a file and leaving it change who writes it, nothing else.        *)
LEMMA SameFiles ==
    ASSUME IInv, UNCHANGED history, NEW F \in [Files -> Files],
           \A f \in Files : F[f].key = f.key /\ F[f].clip = f.clip,
           partial' = {F[f] : f \in partial}, durable' = {F[f] : f \in durable}
    PROVE  /\ partial' \subseteq Files /\ durable' \subseteq Files
           /\ FilesSound' /\ RegisteredNeverDurable'
<1>1. partial \subseteq Files /\ durable \subseteq Files
  BY DEF IInv, TypeOK
<1>2. partial' \subseteq Files /\ durable' \subseteq Files
  BY <1>1
<1>3. \A f \in partial' \cup durable' :
          \E g \in partial \cup durable : f.key = g.key /\ f.clip = g.clip
  BY <1>1
<1>4. \A f, g \in partial' : f.key = g.key => f = g
  BY <1>1 DEF IInv, FilesSound
<1>5. FilesSound'
  BY <1>3, <1>4 DEF IInv, FilesSound, history
<1>6. RegisteredNeverDurable'
  BY <1>3 DEF IInv, RegisteredNeverDurable, FilesSound, history
<1> QED
  BY <1>2, <1>5, <1>6

LEMMA ConcatKeeps ==
    ASSUME IInv, NEW t \in Calls, _async_ffmpeg_concat(t)
    PROVE  IInv'
<1>0. JobSound(job[t]) /\ job[t] \in Jobs /\ job[t].pc = "joining"
  BY DEF IInv, JobsSound, TypeOK, _async_ffmpeg_concat, At
<1>1. UNCHANGED <<files, options, history, events>>
  BY DEF _async_ffmpeg_concat
<1>2. /\ job' \in [Calls -> Jobs] /\ result' \in [Calls -> Results]
      /\ JobsSound' /\ SpeechReleased'
  <2>1. CASE Raise(t)
    BY <1>0, <1>1, <2>1, RaiseKeeps
  <2>2. CASE Go(t, "rename") /\ UNCHANGED result
    <3>1. JobSound([job[t] EXCEPT !.pc = "rename"])
      BY <1>0 DEF JobSound, WithSpeech, Jobs
    <3> QED
      BY <1>1, <2>2, <3>1, GoKeeps DEF history, Steps
  <2> QED
    BY <2>1, <2>2 DEF _async_ffmpeg_concat
<1>3. PICK s \in {"whole", "torn"} :
         partial' = Close(partial, t, s) /\ durable' = Close(durable, t, s)
  BY DEF _async_ffmpeg_concat
<1> DEFINE F == [f \in Files |-> IF f.by = t THEN [f EXCEPT !.by = s] ELSE f]
<1>4. F \in [Files -> Files] /\ \A f \in Files : F[f].key = f.key /\ F[f].clip = f.clip
  BY DEF Files
<1>5. partial' = {F[f] : f \in partial} /\ durable' = {F[f] : f \in durable}
  BY <1>3 DEF Close, IInv, TypeOK
<1> HIDE DEF F
<1>6. /\ partial' \subseteq Files /\ durable' \subseteq Files
      /\ FilesSound' /\ RegisteredNeverDurable'
  BY <1>1, <1>4, <1>5, SameFiles
<1> QED
  BY <1>1, <1>2, <1>6, CacheWritten

LEMMA RenameKeeps ==
    ASSUME IInv, NEW t \in Calls, Rename(t)
    PROVE  IInv'
<1> DEFINE k == job[t].key
           mine == {f \in partial : f.key = k}
<1>0. JobSound(job[t]) /\ job[t] \in Jobs /\ job[t].pc = "rename"
  BY DEF IInv, JobsSound, TypeOK, Rename, At
<1>1. UNCHANGED <<files, options, history, events>>
  BY DEF Rename
<1>2. CASE Raise(t) /\ UNCHANGED cache
  <2>1. /\ job' \in [Calls -> Jobs] /\ result' \in [Calls -> Results]
        /\ JobsSound' /\ SpeechReleased'
    BY <1>0, <1>1, <1>2, RaiseKeeps
  <2> QED
    BY <1>1, <1>2, <2>1, FilesWritten DEF files
<1>3. CASE /\ partial' = Without(partial, k)
           /\ durable' = Without(durable, k) \cup mine
           /\ job' = [job EXCEPT ![t].pc = "combined", ![t].speech = NoClip]
           /\ UNCHANGED result
  <2> DEFINE j == [job[t] EXCEPT !.pc = "combined", !.speech = NoClip]
  <2>1. /\ j \in Jobs /\ j.pc = "combined" /\ j.speech = NoClip
        /\ j.message = job[t].message /\ j.key = job[t].key
    BY <1>0 DEF Jobs, Steps
  <2>2. job' = [job EXCEPT ![t] = j]
    BY <1>3 DEF IInv, TypeOK
  <2> HIDE DEF j
  <2>3. JobSound(j)
    BY <1>0, <2>1 DEF JobSound, WithSpeech
  <2>4. answers \subseteq answers' /\ trusted \subseteq trusted'
    BY <1>1 DEF history
  <2>5. /\ job' \in [Calls -> Jobs] /\ result' \in [Calls -> Results]
        /\ JobsSound' /\ SpeechReleased'
    BY <1>3, <2>1, <2>2, <2>3, <2>4, SoundGrows, TaskStep DEF IInv
  <2>6. partial' \subseteq partial /\ durable' \subseteq durable \cup partial
    BY <1>3 DEF Without
  <2>7. FilesSound' /\ RegisteredNeverDurable'
    BY <1>1, <2>6 DEF IInv, FilesSound, RegisteredNeverDurable, history
  <2>8. partial' \subseteq Files /\ durable' \subseteq Files
    BY <2>6 DEF IInv, TypeOK
  <2> QED
    BY <1>1, <2>5, <2>7, <2>8, CacheWritten
<1> QED
  BY <1>2, <1>3 DEF Rename
-----------------------------------------------------------------------------
LEMMA SpeakKeeps ==
    ASSUME IInv, NEW t \in Calls, Speak(t)
    PROVE  IInv'
<1>1. UNCHANGED <<files, cache, options, history, events>> /\ Finish(t, "spoken", job[t].speech)
  BY DEF Speak
<1>2. job[t].speech = NoClip
  BY DEF IInv, JobsSound, JobSound, WithSpeech, Speak, At
<1>3. /\ job' \in [Calls -> Jobs] /\ result' \in [Calls -> Results]
      /\ JobsSound' /\ SpeechReleased'
  BY <1>1, <1>2, FinishKeeps DEF Results
<1> QED
  BY <1>1, <1>3, FilesWritten DEF files

LEMMA SetOptionKeeps ==
    ASSUME IInv, NEW e \in Entries, SetOption(e)
    PROVE  IInv'
<1>1. UNCHANGED <<job, result, files, cache, history, events>>
  BY DEF SetOption
<1>2. TypeOK'
  BY <1>1 DEF IInv, TypeOK, SetOption, files, cache, history
<1>3. answers \subseteq answers' /\ trusted \subseteq trusted'
  BY <1>1 DEF history
<1>4. JobsSound'
  <2>1. \A t \in Calls : JobSound(job[t])'
    <3>1. PICK f : f = job
      OBVIOUS
    <3>2. \A t \in Calls : JobSound(f[t])'
      BY <1>3, <3>1, SoundGrows DEF IInv, JobsSound
    <3> QED
      BY <1>1, <3>1, <3>2 DEF JobSound
  <2> QED
    BY <2>1 DEF JobsSound
<1>5. SpeechReleased'
  BY <1>1 DEF IInv, SpeechReleased, Running
<1> QED
  BY <1>1, <1>2, <1>3, <1>4, <1>5, SharedKept DEF IInv

LEMMA IdleSound == Idle \in Jobs /\ Idle.pc = "idle" /\ JobSound(Idle) /\ JobSound(Idle)'
BY DEF Idle, Jobs, Steps, NoLog, NoGens, Logs, Gens, JobSound, WithSpeech

LEMMA RestartKeeps ==
    ASSUME IInv, Restart
    PROVE  IInv'
<1>1. /\ UNCHANGED <<files, options, history>> /\ events' = events + 1
      /\ job' = [t \in Calls |-> Idle] /\ result' = [t \in Calls |-> "none"]
  BY DEF Restart
<1>2. \A t \in Calls : JobSound(job[t])'
  BY <1>1, IdleSound DEF JobSound
<1>3. job' \in [Calls -> Jobs] /\ result' \in [Calls -> Results] /\ JobsSound'
  BY <1>1, <1>2, IdleSound DEF JobsSound, Results
<1>4. SpeechReleased'
  BY <1>1 DEF SpeechReleased
<1> DEFINE F == [f \in Files |-> IF f.by \in Calls THEN [f EXCEPT !.by = "torn"] ELSE f]
<1>5. F \in [Files -> Files] /\ \A f \in Files : F[f].key = f.key /\ F[f].clip = f.clip
  BY DEF Files
<1>6. partial' = {F[f] : f \in partial} /\ durable' = {F[f] : f \in durable}
  BY DEF Restart, Abandon, IInv, TypeOK
<1> HIDE DEF F
<1>7. /\ partial' \subseteq Files /\ durable' \subseteq Files
      /\ FilesSound' /\ RegisteredNeverDurable'
  BY <1>1, <1>5, <1>6, SameFiles
<1>8. TypeOK'
  BY <1>1, <1>3, <1>7 DEF IInv, TypeOK, files, history
<1>9. LogSound' /\ BustHasEvidence'
  BY <1>1 DEF IInv, LogSound, BustHasEvidence, files, history
<1> QED
  BY <1>3, <1>4, <1>7, <1>8, <1>9 DEF IInv
-----------------------------------------------------------------------------
LEMMA InitSound == Init => IInv
<1> SUFFICES ASSUME Init PROVE IInv
  OBVIOUS
<1>1. JobsSound
  BY IdleSound DEF Init, JobsSound
<1>2. TypeOK
  BY IdleSound DEF Init, TypeOK, NoLog, NoGens, Logs, Gens, Results
<1>3. FilesSound /\ RegisteredNeverDurable
  BY DEF Init, FilesSound, RegisteredNeverDurable
<1>4. LogSound /\ BustHasEvidence /\ SpeechReleased
  BY DEF Init, LogSound, BustHasEvidence, SpeechReleased, NoLog, NoGens
<1> QED
  BY <1>1, <1>2, <1>3, <1>4 DEF IInv

LEMMA StutterKeeps ==
    ASSUME IInv, UNCHANGED vars
    PROVE  IInv'
<1> USE DEF vars, files, cache, history
<1>1. JobsSound'
  <2>1. PICK f : f = job
    OBVIOUS
  <2>2. \A t \in Calls : JobSound(f[t])'
    BY <2>1, SoundGrows DEF IInv, JobsSound
  <2> QED
    BY <2>1, <2>2 DEF JobsSound, JobSound
<1>2. TypeOK' /\ SpeechReleased'
  BY DEF IInv, TypeOK, SpeechReleased, Running
<1> QED
  BY <1>1, <1>2, SharedKept DEF IInv

LEMMA StepKeeps == IInv /\ [Next]_vars => IInv'
<1> SUFFICES ASSUME IInv, [Next]_vars PROVE IInv'
  OBVIOUS
<1>1. ASSUME NEW t \in Calls, async_announce(t) PROVE IInv'
  BY <1>1, KeyKeeps, LookupKeeps, ResolveKeeps, CheckKeeps, SpeakKeeps DEF async_announce
<1>2. ASSUME NEW t \in Calls, _check_signature(t) PROVE IInv'
  BY <1>2, SignKeeps, OpenLogKeeps, SaveLogKeeps, LoadGensKeeps, OpenGensKeeps,
     SaveGensKeeps DEF _check_signature
<1>3. ASSUME NEW t \in Calls, async_render(t) PROVE IInv'
  BY <1>3, StartJoinKeeps, ConcatKeeps, RenameKeeps DEF async_render
<1> QED
  BY <1>1, <1>2, <1>3, AnnounceKeeps, SetOptionKeeps, RestartKeeps, StutterKeeps DEF Next

(* Every state of every interleaving of the calls, with their failures and  *)
(* the restarts of Home Assistant, satisfies the inductive invariant.       *)
THEOREM Invariance == Spec => []IInv
BY InitSound, StepKeeps, PTL DEF Spec

(* The tasks' records, the json files and the cache keep their form.        *)
THEOREM Typing == Spec => []TypeOK
<1>1. IInv => TypeOK
  BY DEF IInv
<1> QED
  BY <1>1, Invariance, PTL

(* log.json never says a message was heard with a signature it was not      *)
(* answered with, whatever writes overlap or are lost.                      *)
THEOREM LogNeverLies == Spec => []LogSound
<1>1. IInv => LogSound
  BY DEF IInv
<1> QED
  BY <1>1, Invariance, PTL

(* generations.json moves a message's keys only on evidence against it.     *)
THEOREM BustOnEvidence == Spec => []BustHasEvidence
<1>1. IInv => BustHasEvidence
  BY DEF IInv
<1> QED
  BY <1>1, Invariance, PTL

(* A call that was spoken or refused has left no temp file of its own.      *)
THEOREM TempFilesRemoved == Spec => []SpeechReleased
<1>1. IInv => SpeechReleased
  BY DEF IInv
<1> QED
  BY <1>1, Invariance, PTL

(* A clip registered as bad enters the cache only if the user, with the     *)
(* detection off, let it through.                                           *)
THEOREM RegisteredStaysOut == Spec => []RegisteredNeverDurable
<1>1. IInv => RegisteredNeverDurable
  BY DEF IInv
<1> QED
  BY <1>1, Invariance, PTL
-----------------------------------------------------------------------------
(* The refinement of PoisonContract, step by step.                          *)
Verdicts == [t \in Calls |-> Verdict(t)]
Stock == {<<f.key.message, f.clip>> : f \in durable}

(* A task that goes on shows nothing of it.                                 *)
LEMMA GoesOn ==
    ASSUME UNCHANGED result, \A u \in Calls : job'[u].pc = "idle" <=> job[u].pc = "idle"
    PROVE  UNCHANGED Verdicts
BY DEF Verdicts, Verdict, Running

(* One that ends shows how.                                                 *)
LEMMA Ends ==
    ASSUME TypeOK, NEW t \in Calls, NEW how, NEW left, job[t].pc # "idle",
           Finish(t, how, left)
    PROVE  /\ Verdicts[t] = "asking"
           /\ Verdicts' = [Verdicts EXCEPT ![t] = how]
<1>1. PICK j : j = [Idle EXCEPT !.speech = left]
  OBVIOUS
<1>2. j.pc = "idle" /\ job' = [job EXCEPT ![t] = j] /\ result' = [result EXCEPT ![t] = how]
  BY <1>1 DEF Finish, Idle
<1> QED
  BY <1>2 DEF TypeOK, Verdicts, Verdict, Running

LEMMA RaiseShows ==
    ASSUME TypeOK, NEW t \in Calls, job[t].pc # "idle", Raise(t)
    PROVE  \/ UNCHANGED Verdicts
           \/ /\ Verdicts[t] = "asking"
              /\ Verdicts' = [Verdicts EXCEPT ![t] = "lost"]
<1>1. CASE Finish(t, "lost", job[t].speech)
  BY <1>1, Ends
<1>2. ASSUME NEW j \in Jobs, job' = [job EXCEPT ![t] = j], UNCHANGED result, j.pc = "plain"
      PROVE  UNCHANGED Verdicts
  BY <1>2, GoesOn DEF TypeOK
<1> QED
  BY <1>1, <1>2, RaiseWrites

LEMMA PassedShows ==
    ASSUME TypeOK, NEW t \in Calls, NEW clip \in Clips, job[t].pc # "idle", Passed(t, clip)
    PROVE  UNCHANGED Verdicts
<1>1. PICK j \in Jobs : job' = [job EXCEPT ![t] = j] /\ UNCHANGED result
                        /\ j.pc \in {"plain", "join"}
  BY PassedWrites
<1> QED
  BY <1>1, GoesOn DEF TypeOK

LEMMA GoShows ==
    ASSUME TypeOK, NEW t \in Calls, NEW p, job[t].pc # "idle", p # "idle",
           Go(t, p), UNCHANGED result
    PROVE  UNCHANGED Verdicts
BY GoesOn DEF TypeOK, Jobs, Go

(* What the contract says of a call's end, in the terms of the tasks.       *)
LEMMA EndAllowed ==
    ASSUME NEW t \in Calls, NEW how \in {"spoken", "lost", "told", "unrendered"},
           Verdicts[t] = "asking", Verdicts' = [Verdicts EXCEPT ![t] = how],
           UNCHANGED <<Stock, history>>
    PROVE  Contract!Next
<1>1. Contract!Finish(t)
  BY DEF Contract!Finish, Verdicts, Stock, history
<1> QED
  BY <1>1 DEF Contract!Next

LEMMA StutterAllowed ==
    ASSUME UNCHANGED <<Verdicts, Stock, history>>
    PROVE  UNCHANGED Contract!vars
BY DEF Contract!vars, Verdicts, Stock, history

LEMMA AnnounceAllowed ==
    ASSUME IInv, NEW t \in Calls, NEW m \in Messages, NEW op \in {"announce", "check"},
           NEW chime \in {"none", "missing", "ready"}, Announce(t, m, op, chime)
    PROVE  Contract!Next
<1>1. PICK j : /\ job' = [job EXCEPT ![t] = j]
               /\ j = [Idle EXCEPT !.op = op, !.message = m, !.chime = chime,
                          !.pc = IF chime = "none" THEN "resolve" ELSE "key"]
  BY DEF Announce
<1>2. j.pc # "idle"
  BY <1>1 DEF Idle
<1>3. result' = [result EXCEPT ![t] = "none"] /\ UNCHANGED <<Stock, history>> /\ ~Running(t)
  BY DEF Announce, cache, Stock
<1>4. Verdicts' = [Verdicts EXCEPT ![t] = "asking"] /\ Verdicts[t] # "asking"
  BY <1>1, <1>2, <1>3 DEF IInv, TypeOK, Results, Verdicts, Verdict, Running
<1>5. Contract!Ask(t)
  BY <1>3, <1>4 DEF Contract!Ask, Verdicts, Stock, history
<1> QED
  BY <1>5 DEF Contract!Next

LEMMA KeyAllowed ==
    ASSUME IInv, NEW t \in Calls, compute_chime_cache_key(t)
    PROVE  Contract!Next \/ UNCHANGED Contract!vars
<1>1. TypeOK /\ job[t].pc = "key" /\ UNCHANGED <<Stock, history>>
  BY DEF IInv, compute_chime_cache_key, At, cache, Stock
<1>2. CASE Go(t, "resolve") /\ UNCHANGED result
  BY <1>1, <1>2, GoShows, StutterAllowed
<1>3. CASE Finish(t, "told", NoClip) \/ Finish(t, "lost", NoClip)
  BY <1>1, <1>3, Ends, EndAllowed
<1>4. ASSUME NEW k, job' = [job EXCEPT ![t].pc = "lookup", ![t].key = k], UNCHANGED result
      PROVE  UNCHANGED Contract!vars
  <2>1. UNCHANGED Verdicts
    BY <1>1, <1>4, GoesOn DEF TypeOK, Jobs
  <2> QED
    BY <1>1, <2>1, StutterAllowed
<1> QED
  BY <1>2, <1>3, <1>4 DEF compute_chime_cache_key

LEMMA LookupAllowed ==
    ASSUME IInv, NEW t \in Calls, try_get_cached_url(t)
    PROVE  Contract!Next \/ UNCHANGED Contract!vars
<1>1. TypeOK /\ job[t].pc = "lookup" /\ UNCHANGED <<Stock, history>>
  BY DEF IInv, try_get_cached_url, At, cache, Stock
<1>2. ASSUME NEW p \in {"combined", "resolve"}, Go(t, p), UNCHANGED result
      PROVE  UNCHANGED Contract!vars
  BY <1>1, <1>2, GoShows, StutterAllowed
<1>3. CASE Finish(t, "told", NoClip)
  BY <1>1, <1>3, Ends, EndAllowed
<1> QED
  BY <1>2, <1>3 DEF try_get_cached_url

LEMMA ResolveAllowed ==
    ASSUME IInv, NEW t \in Calls, _async_resolve_ha_tts_url(t)
    PROVE  Contract!Next \/ UNCHANGED Contract!vars
<1>1. /\ TypeOK /\ job[t].pc = "resolve" /\ UNCHANGED <<Stock, trusted>>
      /\ job[t].message \in Messages
  BY DEF IInv, JobsSound, JobSound, _async_resolve_ha_tts_url, At, cache, Stock
<1>2. CASE Finish(t, "unrendered", NoClip) /\ UNCHANGED answers
  BY <1>1, <1>2, Ends, EndAllowed DEF history
<1>3. ASSUME NEW c \in Answers(job[t].message),
             job' = [job EXCEPT ![t].pc = "download", ![t].url = c],
             answers' = answers \cup {<<job[t].message, c>>}, UNCHANGED result
      PROVE  Contract!Next
  <2>1. UNCHANGED Verdicts
    BY <1>1, <1>3, GoesOn DEF TypeOK, Jobs
  <2>2. c \in Clips
    BY <1>1, PoisonAssumption
  <2>3. Contract!Answer(job[t].message, c)
    BY <1>1, <1>3, <2>1 DEF Contract!Answer, Verdicts, Stock
  <2> QED
    BY <1>1, <2>2, <2>3 DEF Contract!Next
<1> QED
  BY <1>2, <1>3 DEF _async_resolve_ha_tts_url

(* The clip that nobody checks is one the user trusts.                      *)
LEMMA CheckAllowed ==
    ASSUME IInv, NEW t \in Calls, async_check_tts_url(t)
    PROVE  Contract!Next \/ UNCHANGED Contract!vars
<1>1. /\ TypeOK /\ job[t] \in Jobs /\ job[t].pc = "download" /\ UNCHANGED <<Stock, answers>>
      /\ job[t].message \in Messages /\ job[t].url \in Clips
      /\ <<job[t].message, job[t].url>> \in answers
  BY DEF IInv, TypeOK, JobsSound, JobSound, async_check_tts_url, At, cache, Stock
<1>2. CASE job' = [job EXCEPT ![t].pc = "sign", ![t].speech = job[t].url]
           /\ UNCHANGED <<result, trusted>>
  <2>1. UNCHANGED Verdicts
    BY <1>1, <1>2, GoesOn DEF TypeOK, Jobs
  <2> QED
    BY <1>1, <1>2, <2>1, StutterAllowed DEF history
<1>3. CASE /\ ~Checked(t) /\ Passed(t, job[t].url)
           /\ trusted' = IF _is_detection_enabled THEN trusted
                         ELSE trusted \cup {<<job[t].message, job[t].url>>}
  <2>1. UNCHANGED Verdicts
    BY <1>1, <1>3, PassedShows
  <2>2. trusted' = trusted \cup {<<job[t].message, job[t].url>>}
    BY <1>3 DEF Checked
  <2>3. Contract!Trust(job[t].message, job[t].url)
    BY <1>1, <2>1, <2>2 DEF Contract!Trust, Verdicts, Stock
  <2> QED
    BY <1>1, <2>3 DEF Contract!Next
<1>4. ASSUME NEW p \in {"download", "plain"}, NEW q,
             job' = [job EXCEPT ![t].pc = p, ![t].stage = q], UNCHANGED <<result, trusted>>
      PROVE  UNCHANGED Contract!vars
  <2>1. UNCHANGED Verdicts
    BY <1>1, <1>4, GoesOn DEF TypeOK, Jobs
  <2> QED
    BY <1>1, <1>4, <2>1, StutterAllowed DEF history
<1>5. CASE /\ job' = [job EXCEPT
                 ![t].pc = IF job[t].stage = "verify" /\ job[t].key # NoKey
                             THEN "download" ELSE "plain",
                 ![t].stage = IF job[t].key # NoKey THEN "render" ELSE "verify"]
           /\ UNCHANGED <<result, trusted>>
  BY <1>4, <1>5
<1> QED
  BY <1>2, <1>3, <1>5 DEF async_check_tts_url

LEMMA SpeakAllowed ==
    ASSUME IInv, NEW t \in Calls, Speak(t)
    PROVE  Contract!Next
<1>1. job[t].pc # "idle" /\ UNCHANGED <<Stock, history>> /\ Finish(t, "spoken", job[t].speech)
  BY DEF Speak, At, cache, Stock
<1> QED
  BY <1>1, Ends, EndAllowed DEF IInv

(* A failure is a stutter, if it falls back, or the loss of the call.       *)
LEMMA RaiseAllowed ==
    ASSUME IInv, NEW t \in Calls, job[t].pc # "idle", Raise(t), UNCHANGED <<Stock, history>>
    PROVE  Contract!Next \/ UNCHANGED Contract!vars
BY RaiseShows, EndAllowed, StutterAllowed DEF IInv

LEMMA SignatureAllowed ==
    ASSUME IInv, NEW t \in Calls,
           \/ Sign(t) \/ OpenLog(t) \/ _save_signature_log(t)
           \/ _load_poison_generations(t) \/ OpenGens(t)
    PROVE  Contract!Next \/ UNCHANGED Contract!vars
<1>1. TypeOK /\ job[t].pc \in WithSpeech /\ UNCHANGED <<Stock, history>>
  BY DEF IInv, WithSpeech, Sign, OpenLog, _save_signature_log, _load_poison_generations,
     OpenGens, At, cache, Stock
<1>2. job[t].pc # "idle" /\ job[t].speech \in Clips
  BY <1>1 DEF WithSpeech, IInv, JobsSound, JobSound
<1>3. CASE Raise(t)
  BY <1>1, <1>2, <1>3, RaiseAllowed
<1>4. CASE Passed(t, job[t].speech)
  BY <1>1, <1>2, <1>4, PassedShows, StutterAllowed
<1>5. ASSUME NEW p \in Steps \ {"idle"}, Go(t, p), UNCHANGED result
      PROVE  UNCHANGED Contract!vars
  BY <1>1, <1>2, <1>5, GoShows, StutterAllowed
<1>6. ASSUME NEW l, job' = [job EXCEPT ![t].pc = "openLog", ![t].logCopy = l], UNCHANGED result
      PROVE  UNCHANGED Contract!vars
  <2>1. UNCHANGED Verdicts
    BY <1>1, <1>2, <1>6, GoesOn DEF TypeOK, Jobs
  <2> QED
    BY <1>1, <2>1, StutterAllowed
<1>7. ASSUME NEW g, job' = [job EXCEPT ![t].pc = "openGens", ![t].gensCopy = g],
             UNCHANGED result
      PROVE  UNCHANGED Contract!vars
  <2>1. UNCHANGED Verdicts
    BY <1>1, <1>2, <1>7, GoesOn DEF TypeOK, Jobs
  <2> QED
    BY <1>1, <2>1, StutterAllowed
<1>8. CASE Sign(t)
  BY <1>3, <1>4, <1>5, <1>6, <1>8 DEF Sign, Steps
<1>9. CASE OpenLog(t) \/ OpenGens(t)
  BY <1>5, <1>9 DEF OpenLog, OpenGens, Steps
<1>10. CASE _save_signature_log(t)
  BY <1>3, <1>4, <1>5, <1>10 DEF _save_signature_log, Steps
<1>11. CASE _load_poison_generations(t)
  BY <1>3, <1>7, <1>11 DEF _load_poison_generations
<1> QED
  BY <1>8, <1>9, <1>10, <1>11

(* The refusal: the evidence is what the task has collected.                *)
LEMMA RefusalAllowed ==
    ASSUME IInv, NEW t \in Calls, _save_poison_generations(t)
    PROVE  Contract!Next \/ UNCHANGED Contract!vars
<1>1. /\ TypeOK /\ job[t].pc = "saveGens" /\ UNCHANGED <<Stock, history>>
      /\ job[t].message \in Messages /\ Evidence(job[t].message)
  BY DEF IInv, JobsSound, JobSound, _save_poison_generations, At, cache, Stock
<1>2. CASE Raise(t)
  BY <1>1, <1>2, RaiseAllowed
<1>3. CASE Finish(t, "refused", NoClip)
  <2>1. Verdicts[t] = "asking" /\ Verdicts' = [Verdicts EXCEPT ![t] = "refused"]
    BY <1>1, <1>3, Ends
  <2>2. Contract!Refuse(t, job[t].message)
    BY <1>1, <2>1 DEF Contract!Refuse, Verdicts, Stock, Evidence, history
  <2> QED
    BY <1>1, <2>2 DEF Contract!Next
<1> QED
  BY <1>2, <1>3 DEF _save_poison_generations

LEMMA JoinAllowed ==
    ASSUME IInv, NEW t \in Calls, StartJoin(t)
    PROVE  Contract!Next \/ UNCHANGED Contract!vars
<1>1. TypeOK /\ job[t].pc = "join" /\ UNCHANGED <<Stock, history>>
  BY DEF IInv, StartJoin, At, Stock
<1>2. CASE Raise(t)
  BY <1>1, <1>2, RaiseAllowed
<1>3. CASE Go(t, "joining") /\ UNCHANGED result
  BY <1>1, <1>3, GoShows, StutterAllowed
<1> QED
  BY <1>2, <1>3 DEF StartJoin

(* Who writes a file is not part of the stock.                              *)
LEMMA SameStock ==
    ASSUME IInv, NEW F \in [Files -> Files],
           \A f \in Files : F[f].key = f.key /\ F[f].clip = f.clip,
           durable' = {F[f] : f \in durable}
    PROVE  UNCHANGED Stock
<1>1. durable \subseteq Files
  BY DEF IInv, TypeOK
<1>2. \A f \in durable' : \E g \in durable : f.key = g.key /\ f.clip = g.clip
  BY <1>1
<1>3. \A g \in durable : \E f \in durable' : f.key = g.key /\ f.clip = g.clip
  BY <1>1
<1>4. Stock' \subseteq Stock
  <2> SUFFICES ASSUME NEW p \in Stock' PROVE p \in Stock
    OBVIOUS
  <2>1. PICK f \in durable' : p = <<f.key.message, f.clip>>
    BY DEF Stock
  <2>2. PICK g \in durable : f.key = g.key /\ f.clip = g.clip
    BY <1>2, <2>1
  <2> QED
    BY <2>1, <2>2 DEF Stock
<1>5. Stock \subseteq Stock'
  BY <1>3, Zenon DEF Stock
<1> QED
  BY <1>4, <1>5

LEMMA ConcatAllowed ==
    ASSUME IInv, NEW t \in Calls, _async_ffmpeg_concat(t)
    PROVE  Contract!Next \/ UNCHANGED Contract!vars
<1>1. TypeOK /\ job[t].pc = "joining" /\ UNCHANGED history
  BY DEF IInv, _async_ffmpeg_concat, At
<1>2. PICK s \in {"whole", "torn"} : durable' = Close(durable, t, s)
  BY DEF _async_ffmpeg_concat
<1> DEFINE F == [f \in Files |-> IF f.by = t THEN [f EXCEPT !.by = s] ELSE f]
<1>3. F \in [Files -> Files] /\ \A f \in Files : F[f].key = f.key /\ F[f].clip = f.clip
  BY DEF Files
<1>4. durable' = {F[f] : f \in durable}
  BY <1>1, <1>2 DEF Close, TypeOK
<1> HIDE DEF F
<1>5. UNCHANGED Stock
  BY <1>3, <1>4, SameStock
<1>6. CASE Raise(t)
  BY <1>1, <1>5, <1>6, RaiseAllowed
<1>7. CASE Go(t, "rename") /\ UNCHANGED result
  BY <1>1, <1>5, <1>7, GoShows, StutterAllowed
<1> QED
  BY <1>6, <1>7 DEF _async_ffmpeg_concat

(* The file takes the place of the one with its key, if there is one: what  *)
(* goes is at most what no other key of the message serves.                 *)
LEMMA RenameAllowed ==
    ASSUME IInv, NEW t \in Calls, Rename(t)
    PROVE  Contract!Next \/ UNCHANGED Contract!vars
<1> DEFINE k == job[t].key
           mine == {f \in partial : f.key = k}
<1>1. /\ TypeOK /\ job[t] \in Jobs /\ job[t].pc = "rename" /\ UNCHANGED history
      /\ k \in Keys /\ k.message \in Messages
  BY DEF IInv, TypeOK, JobsSound, JobSound, Rename, At, Jobs, Keys
<1>2. CASE Raise(t) /\ UNCHANGED cache
  <2>1. UNCHANGED Stock
    BY <1>2 DEF cache, Stock
  <2> QED
    BY <1>1, <1>2, <2>1, RaiseAllowed
<1>3. CASE /\ mine # {}
           /\ durable' = Without(durable, k) \cup mine
           /\ job' = [job EXCEPT ![t].pc = "combined", ![t].speech = NoClip]
           /\ UNCHANGED result
  <2>1. UNCHANGED Verdicts
    BY <1>1, <1>3, GoesOn DEF TypeOK, Jobs
  <2>2. PICK f \in partial : f.key = k /\ mine = {f}
    BY <1>3 DEF IInv, FilesSound
  <2>3. /\ f.clip \in Clips /\ <<k.message, f.clip>> \in answers
        /\ Signature(f.clip) \in Registered => <<k.message, f.clip>> \in trusted
    BY <1>1, <2>2 DEF IInv, TypeOK, FilesSound, RegisteredNeverDurable, Files
  <2> DEFINE kept == {<<g.key.message, g.clip>> : g \in Without(durable, k)}
             gone == Stock \ kept
  <2>4. Stock' = kept \cup {<<k.message, f.clip>>}
    BY <1>3, <2>2 DEF Stock
  <2>5. kept \subseteq Stock
    BY DEF Stock, Without
  <2>6. gone \in SUBSET {p \in Stock : p[1] = k.message}
    BY DEF Stock, Without
  <2>7. Stock' = (Stock \ gone) \cup {<<k.message, f.clip>>}
    BY <2>4, <2>5
  <2> HIDE DEF kept, gone
  <2>8. Contract!Publish(k.message, f.clip)
    BY <1>1, <2>1, <2>3, <2>6, <2>7 DEF Contract!Publish, Verdicts, Stock, history
  <2> QED
    BY <1>1, <2>3, <2>8 DEF Contract!Next
<1> QED
  BY <1>2, <1>3 DEF Rename

LEMMA SetOptionAllowed ==
    ASSUME NEW e \in Entries, SetOption(e)
    PROVE  UNCHANGED Contract!vars
<1>1. UNCHANGED <<Verdicts, Stock, history>>
  BY DEF SetOption, Verdicts, Verdict, Running, Stock, cache
<1> QED
  BY <1>1, StutterAllowed

LEMMA RestartAllowed ==
    ASSUME IInv, Restart
    PROVE  Contract!Next
<1>1. Verdicts' = [t \in Calls |-> "none"] /\ UNCHANGED history
  BY DEF Restart, Verdicts, Verdict, Running, Idle
<1> DEFINE F == [f \in Files |-> IF f.by \in Calls THEN [f EXCEPT !.by = "torn"] ELSE f]
<1>2. F \in [Files -> Files] /\ \A f \in Files : F[f].key = f.key /\ F[f].clip = f.clip
  BY DEF Files
<1>3. durable' = {F[f] : f \in durable}
  BY DEF Restart, Abandon, IInv, TypeOK
<1> HIDE DEF F
<1>4. UNCHANGED Stock
  BY <1>2, <1>3, SameStock
<1>5. Contract!Forget
  BY <1>1, <1>4 DEF Contract!Forget, Verdicts, Stock, history
<1> QED
  BY <1>5 DEF Contract!Next

LEMMA StepAllowed ==
    ASSUME IInv, [Next]_vars
    PROVE  [Contract!Next]_(Contract!vars)
<1>1. ASSUME NEW t \in Calls, async_announce(t)
      PROVE  Contract!Next \/ UNCHANGED Contract!vars
  BY <1>1, KeyAllowed, LookupAllowed, ResolveAllowed, CheckAllowed, SpeakAllowed
  DEF async_announce
<1>2. ASSUME NEW t \in Calls, _check_signature(t)
      PROVE  Contract!Next \/ UNCHANGED Contract!vars
  BY <1>2, SignatureAllowed, RefusalAllowed DEF _check_signature
<1>3. ASSUME NEW t \in Calls, async_render(t)
      PROVE  Contract!Next \/ UNCHANGED Contract!vars
  BY <1>3, JoinAllowed, ConcatAllowed, RenameAllowed DEF async_render
<1>4. CASE UNCHANGED vars
  <2>1. UNCHANGED <<Verdicts, Stock, history>>
    BY <1>4 DEF vars, cache, Verdicts, Verdict, Running, Stock
  <2> QED
    BY <2>1, StutterAllowed
<1> QED
  BY <1>1, <1>2, <1>3, <1>4, AnnounceAllowed, SetOptionAllowed, RestartAllowed DEF Next

(* Files, generations, awaits and failures implement the contract: what     *)
(* enters the cache was answered and is not registered, unless trusted; a   *)
(* refusal has evidence; a call ends once.                                  *)
THEOREM Implementation == Spec => ImplementsContract
<1>1. Init => Contract!Init
  BY DEF Init, Contract!Init, Verdict, Running, Idle
<1>2. IInv /\ [Next]_vars => [Contract!Next]_(Contract!vars)
  BY StepAllowed
<1> QED
  BY <1>1, <1>2, Invariance, PTL DEF Spec, ImplementsContract, Contract!Spec
=============================================================================
