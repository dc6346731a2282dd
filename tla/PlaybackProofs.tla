--------------------------- MODULE PlaybackProofs ---------------------------
(***************************************************************************)
(* Proofs about Playback, for any number of attempts and events, any keys,  *)
(* any size of the cache and any volumes.                                   *)
(*                                                                          *)
(* HeardInTurn is far from inductive: whether a clip may be heard depends   *)
(* on where its attempt, the carrier of its url and the callers of stop()   *)
(* are.  Progress holds always.  OneAtATime holds until an attempt is over  *)
(* before it has a player: till then at most one url is on its way, that of *)
(* the attempt under way, nothing has settled it, and no clip plays that    *)
(* the provider has lost sight of.                                          *)
(***************************************************************************)
EXTENDS Playback, OrderedSetsProofs

(* The saved index is one that the cache had.                               *)
Saved == Len(saved) <= MaxEntries /\ IsInjective(saved)

(* What is fetched, copied or played from a file has a key.                 *)
WithKey == {"fetch", "failed", "fetched", "copying", "committed", "swapFile", "createFile"}

Keyed == \A m \in Attempts : carrier[m] \in WithKey => key[m] \in Keys

Creating == {"createUrl", "createFile"}

Progress ==
    /\ pc # "idle" => n \in Attempts
    /\ \A m \in Attempts : m > n => carrier[m] = "none" /\ clip[m] = "none"
    /\ stop["worker"] # "none" => pc = "stopping"
    /\ pc \in {"inside", "await", "stopping"} => listener = n
    /\ pc = "play" => /\ listener < n /\ told = "nothing"
                      /\ carrier[n] = "none" /\ clip[n] = "none"
    /\ pc = "inside" => carrier[n] \in {"swapUrl", "swapFile"} \cup Creating

Silent == \A m \in Attempts : clip[m] = "none"
Empty == \A m \in Attempts : carrier[m] = "none"
Releasing == main \/ \E t \in Stoppers : stop[t] = "settled"

OneAtATime ==
    /\ \A m \in Attempts : carrier[m] # "none" =>
          /\ m = n /\ listener = n /\ pc \in {"inside", "await", "stopping"}
          /\ told = "nothing" /\ clip[m] = "none"
          /\ carrier[m] \in Creating => Silent
    /\ \A m \in Attempts : clip[m] # "none" => player = m
    /\ told # "nothing" \/ pc = "idle" => Silent \/ Releasing
    /\ pc = "stopping" /\ stop["worker"] \in {"settled", "none"} => Empty
    /\ pc = "stopping" /\ stop["worker"] = "none" => Silent

Turns == ~early => OneAtATime

(* What the music's volume can go back to was chosen by somebody.           *)
Volumes ==
    /\ pc = "idle" => savedStreamVolume = None
    /\ savedStreamVolume = None => volume \in chosen
    /\ savedStreamVolume # None => savedStreamVolume \in chosen

Focus ==
    /\ held /\ strategy = "manual_duck_only" => switched
    /\ pc = "idle" /\ held => switched

IInv == /\ TypeOK /\ Saved /\ Keyed /\ Progress /\ Turns /\ HeardInTurn
        /\ DiskMatchesIndex /\ ServedFromDisk /\ Volumes /\ Focus
-----------------------------------------------------------------------------
(* The operators of the cache.                                              *)

(* An index of the cache: a sequence of keys, each of them once.            *)
IsIndex(s) == s \in Seq(Keys) /\ IsInjective(s) /\ Len(s) <= MaxEntries

LEMMA WithoutFacts ==
  ASSUME IsIndex(index), NEW k
  PROVE  /\ IsIndex(Without(k)) /\ Len(Without(k)) <= Len(index)
         /\ ToSet(Without(k)) = ToSet(index) \ {k}
         /\ k \in ToSet(index) => Len(Without(k)) < Len(index)
<1> USE PlaybackAssumption
<1>1. ToSet(index) \subseteq Keys
  BY DEF IsIndex, ToSet
<1> DEFINE keep == Keys \ {k}
           w == Only(index, keep)
<1>2. /\ w \in Seq(Keys) /\ ToSet(w) = ToSet(index) \cap keep /\ Len(w) <= Len(index)
      /\ (\E x \in ToSet(index) : x \notin keep) => Len(w) < Len(index)
      /\ IsInjective(w)
  <2> HIDE DEF keep
  <2> QED
    BY OnlyKeeps DEF IsIndex
<1>3. w = Without(k)
  BY DEF Without
<1> HIDE DEF w
<1>4. ToSet(w) = ToSet(index) \ {k} /\ (k \in ToSet(index) => Len(w) < Len(index))
  BY <1>1, <1>2
<1>5. Len(w) <= MaxEntries
  BY <1>2 DEF IsIndex
<1> QED
  BY <1>2, <1>3, <1>4, <1>5 DEF IsIndex

LEMMA UsedFacts ==
  ASSUME IsIndex(index), NEW k \in Keys
  PROVE  /\ Used(k) \in Seq(Keys) /\ IsInjective(Used(k)) /\ Len(Used(k)) > 0
         /\ ToSet(Used(k)) = ToSet(index) \cup {k}
         /\ Used(k)[Len(Used(k))] = k
         /\ k \in ToSet(index) => IsIndex(Used(k))
<1> DEFINE w == Without(k)
<1>1. /\ w \in Seq(Keys) /\ IsInjective(w) /\ Len(w) <= Len(index)
      /\ ToSet(w) = ToSet(index) \ {k} /\ (k \in ToSet(index) => Len(w) < Len(index))
  BY WithoutFacts DEF IsIndex
<1>2. Used(k) = Append(w, k)
  BY DEF Used
<1> HIDE DEF w
<1>3. /\ Append(w, k) \in Seq(Keys) /\ Len(Append(w, k)) = Len(w) + 1
      /\ ToSet(Append(w, k)) = ToSet(w) \cup {k} /\ IsInjective(Append(w, k))
  BY <1>1, Appending
<1>4. Append(w, k)[Len(w) + 1] = k /\ Len(w) \in Nat
  BY <1>1
<1>5. k \in ToSet(index) => Len(Append(w, k)) <= MaxEntries
  BY <1>1, <1>3, <1>4, PlaybackAssumption DEF IsIndex
<1>6. ToSet(Append(w, k)) = ToSet(index) \cup {k}
  BY <1>1, <1>3
<1> QED
  BY <1>2, <1>3, <1>4, <1>5, <1>6 DEF IsIndex

LEMMA KeptFacts ==
  ASSUME NEW s \in Seq(Keys), IsInjective(s), Len(s) > 0
  PROVE  /\ IsIndex(Kept(s))
         /\ ToSet(Kept(s)) \subseteq ToSet(s)
         /\ s[Len(s)] \in ToSet(Kept(s))
<1> USE PlaybackAssumption
<1> DEFINE a == IF Len(s) > MaxEntries THEN Len(s) - MaxEntries + 1 ELSE 1
           z == Len(s)
<1>1. z \in Nat /\ a \in 1 .. z /\ z - a + 1 <= MaxEntries
  OBVIOUS
<1>2. Kept(s) = SubSeq(s, a, z)
  BY DEF Kept
<1> HIDE DEF a
<1>3. /\ SubSeq(s, a, z) \in Seq(Keys) /\ Len(SubSeq(s, a, z)) = z - a + 1
      /\ \A i \in 1 .. z - a + 1 : SubSeq(s, a, z)[i] = s[a + i - 1]
  BY <1>1
<1> DEFINE q == SubSeq(s, a, z)
<1>4. DOMAIN q = 1 .. z - a + 1 /\ DOMAIN s = 1 .. z
  BY <1>3
<1> HIDE DEF q, z
<1>5. q \in Seq(Keys) /\ Len(q) = z - a + 1 /\ \A i \in 1 .. z - a + 1 : q[i] = s[a + i - 1]
  BY <1>3 DEF q
<1>6. \A i \in 1 .. z - a + 1 : a + i - 1 \in 1 .. z
  BY <1>1
<1>7. ToSet(q) \subseteq ToSet(s)
  BY <1>4, <1>5, <1>6 DEF ToSet
<1>8. IsInjective(q)
  <2> SUFFICES ASSUME NEW i \in 1 .. z - a + 1, NEW j \in 1 .. z - a + 1, q[i] = q[j]
               PROVE  i = j
    BY <1>4 DEF IsInjective
  <2>1. s[a + i - 1] = s[a + j - 1]
    BY <1>5
  <2>2. a + i - 1 = a + j - 1
    BY <2>1, <1>4, <1>6 DEF IsInjective
  <2> QED
    BY <2>2, <1>1
<1>9. s[z] \in ToSet(q)
  <2>1. z - a + 1 \in 1 .. z - a + 1 /\ a + (z - a + 1) - 1 = z
    BY <1>1
  <2>2. q[z - a + 1] = s[z]
    BY <2>1, <1>5
  <2> QED
    BY <2>1, <2>2, <1>4 DEF ToSet
<1> QED
  BY <1>1, <1>2, <1>5, <1>7, <1>8, <1>9 DEF IsIndex, q, z

LEMMA LoadedFacts ==
  ASSUME IsIndex(saved)
  PROVE  IsIndex(Loaded) /\ ToSet(Loaded) = ToSet(saved) \cap files
<1>1. /\ Loaded \in Seq(Keys) /\ ToSet(Loaded) = ToSet(saved) \cap files
      /\ Len(Loaded) <= Len(saved) /\ IsInjective(Loaded)
  BY OnlyKeeps DEF Loaded, IsIndex
<1>2. Len(Loaded) <= MaxEntries
  BY <1>1, PlaybackAssumption DEF IsIndex
<1> QED
  BY <1>1, <1>2 DEF IsIndex
-----------------------------------------------------------------------------
(* The types, by the thread or the component they belong to.                *)

WorkerType ==
    /\ pc \in {"idle", "play", "inside", "await", "stopping"} /\ n \in 0 .. MaxAttempts
    /\ key \in [Attempts -> Keys \cup {None}]

ProviderType ==
    /\ told \in Settlements \cup {"nothing"}
    /\ listener \in 0 .. n /\ player \in 0 .. n
    /\ settled \in BOOLEAN /\ cancelled \in BOOLEAN /\ main \in BOOLEAN
    /\ clip \in [Attempts -> Clips] /\ carrier \in [Attempts -> Carriers]
    /\ stop \in [Stoppers -> {"none", "called", "cancelled", "settled"}]
    /\ early \in BOOLEAN

CacheType ==
    /\ files \subseteq Keys /\ IsIndex(index) /\ IsIndex(saved) /\ lost \in BOOLEAN

FocusType ==
    /\ strategy \in {"system", "manual_duck_only"} /\ held \in BOOLEAN
    /\ savedStreamVolume \in Levels \cup {None} /\ volume \in Levels
    /\ switched \in BOOLEAN /\ chosen \subseteq Levels
    /\ events \in 0 .. MaxEvents

Typed == WorkerType /\ ProviderType /\ CacheType /\ FocusType

LEMMA TypesTogether == TypeOK /\ Saved <=> Typed
  BY DEF TypeOK, Saved, Typed, WorkerType, ProviderType, CacheType, FocusType, IsIndex

LEMMA TypesTogetherNext == (TypeOK /\ Saved)' <=> Typed'
  BY DEF TypeOK, Saved, Typed, WorkerType, ProviderType, CacheType, FocusType, IsIndex

LEMMA WorkerTypePreserved ==
  ASSUME Typed, Next
  PROVE  WorkerType'
<1> USE PlaybackAssumption DEF Typed, WorkerType, workerVars
<1>1. ASSUME NEW k \in Keys \cup {None}, NEW duck \in BOOLEAN, NEW level \in Levels \cup {None},
             Attempt(k, duck, level)
      PROVE  WorkerType'
  BY <1>1 DEF Attempt
<1>2. CASE play
  BY <1>2 DEF play
<1>3. CASE AwaitTimeout \/ End
  BY <1>3 DEF AwaitTimeout, End
<1>4. ASSUME NEW m \in Attempts,
             Fetch(m) \/ Failed(m) \/ Fetched(m) \/ Copied(m) \/ Committed(m) \/ Swap(m)
      PROVE  WorkerType'
  BY <1>4 DEF Fetch, Failed, Fetched, Copied, Committed, Swap
<1>5. ASSUME NEW m \in Attempts, Create(m)
      PROVE  WorkerType'
  BY <1>5 DEF Create
<1>6. ASSUME NEW m \in Attempts, Prepared(m) \/ Completed(m) \/ Broken(m)
      PROVE  WorkerType'
  BY <1>6 DEF Prepared, Completed, Broken
<1>7. CASE ReleaseAfter \/ interruptCurrent
  BY <1>7 DEF ReleaseAfter, interruptCurrent
<1>8. ASSUME NEW t \in Stoppers, Cancel(t) \/ SettleStopped(t) \/ ReleaseStopped(t)
      PROVE  WorkerType'
  BY <1>8 DEF Cancel, SettleStopped, ReleaseStopped
<1>9. ASSUME NEW s \in {"system", "manual_duck_only"}, setStrategy(s)
      PROVE  WorkerType'
  BY <1>9 DEF setStrategy
<1>10. ASSUME NEW level \in Levels, setVolumePercent(level)
       PROVE  WorkerType'
  BY <1>10 DEF setVolumePercent
<1>11. CASE Flush \/ Crash
  BY <1>11 DEF Flush, Crash
<1> QED
  BY <1>1, <1>2, <1>3, <1>4, <1>5, <1>6, <1>7, <1>8, <1>9, <1>10, <1>11 DEF Next

LEMMA ReleasedType ==
  ASSUME clip \in [Attempts -> Clips], NEW p
  PROVE  Released(p) \in [Attempts -> Clips]
  BY DEF Released, Clips

LEMMA ProviderTypePreserved ==
  ASSUME Typed, Progress, Next
  PROVE  ProviderType'
<1> USE PlaybackAssumption DEF Typed, WorkerType, ProviderType, Attempts
<1>1. ASSUME NEW k \in Keys \cup {None}, NEW duck \in BOOLEAN, NEW level \in Levels \cup {None},
             Attempt(k, duck, level)
      PROVE  ProviderType'
  BY <1>1 DEF Attempt, playerVars
<1>2. CASE play
  <2>1. n \in Attempts
    BY <1>2 DEF play, Progress
  <2>2. carrier' \in [Attempts -> Carriers]
    BY <1>2, <2>1 DEF play, Carriers
  <2>3. listener' \in 0 .. n' /\ player' \in 0 .. n'
    BY <1>2, <2>1 DEF play, playerVars
  <2>4. UNCHANGED <<told, clip, main, stop, early>> /\ settled' = FALSE /\ cancelled' = FALSE
    BY <1>2 DEF play, playerVars
  <2> QED
    BY <2>2, <2>3, <2>4
<1>3. CASE AwaitTimeout
  BY <1>3 DEF AwaitTimeout, gateVars, playerVars, Stoppers
<1>4. CASE End
  BY <1>4 DEF End, providerVars, gateVars, playerVars
<1> USE DEF workerVars, gateVars, playerVars, Carry, finishOnce, releaseInternal, Settlements
<1>5. ASSUME NEW m \in Attempts,
             Fetch(m) \/ Failed(m) \/ Fetched(m) \/ Copied(m) \/ Committed(m)
      PROVE  ProviderType'
  BY <1>5 DEF Fetch, Failed, Fetched, Copied, Committed, Carriers
<1>6. ASSUME NEW m \in Attempts, Swap(m)
      PROVE  ProviderType'
  <2>1. clip' \in [Attempts -> Clips]
    BY <1>6, ReleasedType DEF Swap
  <2>2. carrier' \in [Attempts -> Carriers]
    BY <1>6 DEF Swap, Carriers
  <2> QED
    BY <1>6, <2>1, <2>2 DEF Swap
<1>7. ASSUME NEW m \in Attempts, Create(m)
      PROVE  ProviderType'
  <2>1. m <= n
    BY <1>7 DEF Create, Progress
  <2>2. clip' \in [Attempts -> Clips] /\ carrier' \in [Attempts -> Carriers]
    BY <1>7 DEF Create, Clips, Carriers
  <2>3. listener' \in 0 .. n' /\ player' \in 0 .. n'
    BY <1>7, <2>1 DEF Create
  <2>4. told' \in Settlements \cup {"nothing"} /\ settled' \in BOOLEAN
    BY <1>7 DEF Create
  <2>5. UNCHANGED <<cancelled, main, stop, early>>
    BY <1>7 DEF Create
  <2> QED
    BY <2>2, <2>3, <2>4, <2>5
<1>8. ASSUME NEW m \in Attempts, Prepared(m) \/ Completed(m) \/ Broken(m)
      PROVE  ProviderType'
  BY <1>8 DEF Prepared, Completed, Broken, Clips
<1>9. CASE ReleaseAfter
  <2>1. clip' \in [Attempts -> Clips]
    BY <1>9, ReleasedType DEF ReleaseAfter
  <2>2. player' \in 0 .. n' /\ main' = FALSE
    BY <1>9 DEF ReleaseAfter
  <2> QED
    BY <1>9, <2>1, <2>2 DEF ReleaseAfter
<1>10. CASE interruptCurrent
  BY <1>10 DEF interruptCurrent, Stoppers
<1>11. ASSUME NEW t \in Stoppers, Cancel(t)
       PROVE  ProviderType'
  BY <1>11 DEF Cancel, Clips
<1>12. ASSUME NEW t \in Stoppers, SettleStopped(t)
       PROVE  ProviderType'
  BY <1>12 DEF SettleStopped
<1>13. ASSUME NEW t \in Stoppers, ReleaseStopped(t)
       PROVE  ProviderType'
  BY <1>13, ReleasedType DEF ReleaseStopped
<1>14. ASSUME NEW s \in {"system", "manual_duck_only"}, setStrategy(s)
       PROVE  ProviderType'
  BY <1>14 DEF setStrategy, providerVars
<1>15. ASSUME NEW level \in Levels, setVolumePercent(level)
       PROVE  ProviderType'
  BY <1>15 DEF setVolumePercent, providerVars
<1>16. CASE Flush
  BY <1>16 DEF Flush, providerVars
<1>17. CASE Crash
  <2>1. clip' \in [Attempts -> Clips] /\ carrier' \in [Attempts -> Carriers]
    BY <1>17 DEF Crash, Clips, Carriers
  <2>2. stop' \in [Stoppers -> {"none", "called", "cancelled", "settled"}]
    BY <1>17 DEF Crash
  <2>3. listener' \in 0 .. n' /\ player' \in 0 .. n'
    BY <1>17 DEF Crash
  <2>4. /\ settled' = TRUE /\ cancelled' = FALSE /\ main' = FALSE /\ early' = FALSE
        /\ told' = told
    BY <1>17 DEF Crash
  <2> QED
    BY <2>1, <2>2, <2>3, <2>4
<1> QED
  BY <1>1, <1>2, <1>3, <1>4, <1>5, <1>6, <1>7, <1>8, <1>9, <1>10, <1>11, <1>12, <1>13,
     <1>14, <1>15, <1>16, <1>17 DEF Next

(* The actions that touch neither the index nor the files.                  *)
LEMMA CacheUntouched ==
  ASSUME UNCHANGED cacheVars
  PROVE  CacheType <=> CacheType'
  BY DEF CacheType, cacheVars, IsIndex

LEMMA CacheTypePreserved ==
  ASSUME Typed, Keyed, Next
  PROVE  CacheType'
<1> USE PlaybackAssumption DEF Typed
<1>1. ASSUME NEW k \in Keys \cup {None}, NEW duck \in BOOLEAN, NEW level \in Levels \cup {None},
             Attempt(k, duck, level)
      PROVE  CacheType'
  BY <1>1, CacheUntouched DEF Attempt
<1>2. CASE play
  <2>1. IsIndex(index)
    BY DEF CacheType
  <2>2. CASE get(key[n])
    <3>1. key[n] \in ToSet(index) /\ key[n] \in Keys
      BY <2>2 DEF get, CacheType
    <3>2. IsIndex(Used(key[n]))
      BY <2>1, <3>1, UsedFacts
    <3>3. index' = Used(key[n]) /\ UNCHANGED <<files, saved, lost>>
      BY <1>2, <2>2 DEF play
    <3> QED
      BY <3>2, <3>3 DEF CacheType, IsIndex
  <2>3. CASE ~get(key[n])
    <3>1. index' = Without(key[n]) /\ UNCHANGED <<files, saved, lost>>
      BY <1>2, <2>3 DEF play
    <3>2. IsIndex(Without(key[n]))
      BY <2>1, WithoutFacts
    <3> QED
      BY <3>1, <3>2 DEF CacheType, IsIndex
  <2> QED
    BY <2>2, <2>3
<1>3. CASE AwaitTimeout \/ End
  BY <1>3, CacheUntouched DEF AwaitTimeout, End
<1>4. ASSUME NEW m \in Attempts,
             Fetch(m) \/ Failed(m) \/ Fetched(m) \/ Committed(m) \/ Swap(m) \/ Create(m)
      PROVE  CacheType'
  BY <1>4, CacheUntouched DEF Fetch, Failed, Fetched, Committed, Swap, Create
<1>5. ASSUME NEW m \in Attempts, Copied(m)
      PROVE  CacheType'
  <2>1. CASE put(key[m])
    <3>1. key[m] \in Keys
      BY <1>5 DEF Copied, Keyed, WithKey
    <3>2. IsIndex(index) /\ files \subseteq Keys
      BY DEF CacheType
    <3>3. IsIndex(Kept(Used(key[m])))
      BY <3>1, <3>2, UsedFacts, KeptFacts
    <3>4. index' = Kept(Used(key[m])) /\ files' \subseteq Keys
      BY <2>1, <3>1, <3>2 DEF put
    <3>5. UNCHANGED <<saved, lost>>
      BY <1>5 DEF Copied
    <3> QED
      BY <3>3, <3>4, <3>5 DEF CacheType, IsIndex
  <2>2. CASE UNCHANGED <<files, index>>
    BY <1>5, <2>2, CacheUntouched DEF Copied, cacheVars
  <2> QED
    BY <1>5, <2>1, <2>2 DEF Copied
<1>6. ASSUME NEW m \in Attempts, Prepared(m) \/ Completed(m) \/ Broken(m)
      PROVE  CacheType'
  BY <1>6, CacheUntouched DEF Prepared, Completed, Broken
<1>7. CASE ReleaseAfter \/ interruptCurrent
  BY <1>7, CacheUntouched DEF ReleaseAfter, interruptCurrent
<1>8. ASSUME NEW t \in Stoppers, Cancel(t) \/ SettleStopped(t) \/ ReleaseStopped(t)
      PROVE  CacheType'
  BY <1>8, CacheUntouched DEF Cancel, SettleStopped, ReleaseStopped
<1>9. ASSUME NEW s \in {"system", "manual_duck_only"}, setStrategy(s)
      PROVE  CacheType'
  BY <1>9, CacheUntouched DEF setStrategy
<1>10. ASSUME NEW level \in Levels, setVolumePercent(level)
       PROVE  CacheType'
  BY <1>10, CacheUntouched DEF setVolumePercent
<1>11. CASE Flush
  BY <1>11 DEF Flush, CacheType, IsIndex
<1>12. CASE Crash
  <2>1. IsIndex(Loaded)
    BY LoadedFacts DEF CacheType
  <2>2. index' = Loaded /\ UNCHANGED <<files, saved>> /\ lost' \in BOOLEAN
    BY <1>12 DEF Crash, CacheType
  <2> QED
    BY <2>1, <2>2 DEF CacheType, IsIndex
<1> QED
  BY <1>1, <1>2, <1>3, <1>4, <1>5, <1>6, <1>7, <1>8, <1>9, <1>10, <1>11, <1>12 DEF Next

LEMMA FocusTypePreserved ==
  ASSUME Typed, Next
  PROVE  FocusType'
<1> USE PlaybackAssumption DEF Typed, FocusType, focusVars
<1>1. ASSUME NEW k \in Keys \cup {None}, NEW duck \in BOOLEAN, NEW level \in Levels \cup {None},
             Attempt(k, duck, level)
      PROVE  FocusType'
  BY <1>1 DEF Attempt, request
<1>2. CASE play \/ AwaitTimeout
  BY <1>2 DEF play, AwaitTimeout
<1>3. CASE End
  BY <1>3 DEF End, abandon, Restored, StillHeld
<1>4. ASSUME NEW m \in Attempts,
             Fetch(m) \/ Failed(m) \/ Fetched(m) \/ Copied(m) \/ Committed(m) \/ Swap(m)
      PROVE  FocusType'
  BY <1>4 DEF Fetch, Failed, Fetched, Copied, Committed, Swap
<1>5. ASSUME NEW m \in Attempts, Create(m) \/ Prepared(m) \/ Completed(m) \/ Broken(m)
      PROVE  FocusType'
  BY <1>5 DEF Create, Prepared, Completed, Broken
<1>6. CASE ReleaseAfter \/ interruptCurrent
  BY <1>6 DEF ReleaseAfter, interruptCurrent
<1>7. ASSUME NEW t \in Stoppers, Cancel(t) \/ SettleStopped(t) \/ ReleaseStopped(t)
      PROVE  FocusType'
  BY <1>7 DEF Cancel, SettleStopped, ReleaseStopped
<1>8. ASSUME NEW s \in {"system", "manual_duck_only"}, setStrategy(s)
      PROVE  FocusType'
  BY <1>8 DEF setStrategy, Event
<1>9. ASSUME NEW level \in Levels, setVolumePercent(level)
      PROVE  FocusType'
  BY <1>9 DEF setVolumePercent, Event
<1>10. CASE Flush
  BY <1>10 DEF Flush
<1>11. CASE Crash
  <2>1. events' \in 0 .. MaxEvents /\ chosen' \subseteq Levels
    BY <1>11 DEF Crash, Event
  <2>2. /\ held' = FALSE /\ savedStreamVolume' = None /\ switched' = FALSE
        /\ strategy' = strategy /\ volume' = volume
    BY <1>11 DEF Crash
  <2> QED
    BY <2>1, <2>2
<1> QED
  BY <1>1, <1>2, <1>3, <1>4, <1>5, <1>6, <1>7, <1>8, <1>9, <1>10, <1>11 DEF Next
-----------------------------------------------------------------------------
(* Every way a step can change where the urls are on their way.             *)
LEMMA KeyedPreserved ==
  ASSUME Typed, Progress, Keyed, Next
  PROVE  Keyed'
<1> USE PlaybackAssumption DEF Typed, WorkerType, ProviderType, Keyed, WithKey
<1>1. ASSUME NEW k \in Keys \cup {None}, NEW duck \in BOOLEAN, NEW level \in Levels \cup {None},
             Attempt(k, duck, level)
      PROVE  Keyed'
  <2> SUFFICES ASSUME NEW m \in Attempts, carrier'[m] \in WithKey PROVE key'[m] \in Keys
    OBVIOUS
  <2>1. carrier' = carrier /\ n' = n + 1
    BY <1>1 DEF Attempt
  <2>2. m # n'
    BY <2>1 DEF Progress, Attempts
  <2>3. key'[m] = key[m]
    BY <1>1, <2>1, <2>2 DEF Attempt
  <2> QED
    BY <2>1, <2>3
<1>2. CASE play
  <2>1. n \in Attempts /\ key' = key
    BY <1>2 DEF play, Progress
  <2>2. CASE get(key[n])
    BY <1>2, <2>1, <2>2 DEF play, get, CacheType
  <2>3. CASE ~get(key[n])
    BY <1>2, <2>1, <2>3 DEF play
  <2> QED
    BY <2>2, <2>3
<1>3. CASE AwaitTimeout \/ End
  BY <1>3 DEF AwaitTimeout, End, providerVars
<1> USE DEF workerVars, Carry
<1>4. ASSUME NEW m \in Attempts, Fetch(m) \/ Failed(m) \/ Fetched(m)
      PROVE  Keyed'
  BY <1>4 DEF Fetch, Failed, Fetched
<1>5. ASSUME NEW m \in Attempts, Copied(m) \/ Committed(m) \/ Swap(m) \/ Create(m)
      PROVE  Keyed'
  BY <1>5 DEF Copied, Committed, Swap, Create
<1>6. ASSUME NEW m \in Attempts, Prepared(m) \/ Completed(m) \/ Broken(m)
      PROVE  Keyed'
  BY <1>6 DEF Prepared, Completed, Broken
<1>7. CASE ReleaseAfter \/ interruptCurrent
  BY <1>7 DEF ReleaseAfter, interruptCurrent
<1>8. ASSUME NEW t \in Stoppers, Cancel(t) \/ SettleStopped(t) \/ ReleaseStopped(t)
      PROVE  Keyed'
  BY <1>8 DEF Cancel, SettleStopped, ReleaseStopped
<1>9. ASSUME NEW s \in {"system", "manual_duck_only"}, setStrategy(s)
      PROVE  Keyed'
  BY <1>9 DEF setStrategy, providerVars
<1>10. ASSUME NEW level \in Levels, setVolumePercent(level)
       PROVE  Keyed'
  BY <1>10 DEF setVolumePercent, providerVars
<1>11. CASE Flush
  BY <1>11 DEF Flush, providerVars
<1>12. CASE Crash
  BY <1>12 DEF Crash
<1> QED
  BY <1>1, <1>2, <1>3, <1>4, <1>5, <1>6, <1>7, <1>8, <1>9, <1>10, <1>11, <1>12 DEF Next

LEMMA ProgressPreserved ==
  ASSUME Typed, Progress, Next
  PROVE  Progress'
<1> USE PlaybackAssumption DEF Typed, WorkerType, ProviderType, Attempts, Progress, Creating
<1>1. ASSUME NEW k \in Keys \cup {None}, NEW duck \in BOOLEAN, NEW level \in Levels \cup {None},
             Attempt(k, duck, level)
      PROVE  Progress'
  BY <1>1 DEF Attempt, playerVars
<1>2. CASE play
  <2>1. n \in Attempts
    BY <1>2 DEF play
  <2>2. pc' \in {"inside", "await"}
    BY <1>2 DEF play
  <2>3. /\ carrier'[n] \in {"swapFile", "swapUrl", "fetch"}
        /\ \A m \in Attempts : m # n => carrier'[m] = carrier[m]
        /\ pc' = "inside" => carrier'[n] # "fetch"
    BY <1>2, <2>1 DEF play
  <2>4. /\ n' = n /\ listener' = n /\ clip' = clip /\ stop' = stop /\ told' = told
        /\ stop["worker"] = "none"
    BY <1>2 DEF play, playerVars
  <2> QED
    BY <2>1, <2>2, <2>3, <2>4
<1>3. CASE AwaitTimeout
  BY <1>3 DEF AwaitTimeout, gateVars, playerVars
<1>4. CASE End
  BY <1>4 DEF End, providerVars, gateVars, playerVars
<1> USE DEF workerVars, gateVars, playerVars, Carry, finishOnce, releaseInternal
<1>5. ASSUME NEW m \in Attempts, Fetch(m)
      PROVE  Progress'
  BY <1>5 DEF Fetch
<1>6. ASSUME NEW m \in Attempts, Failed(m)
      PROVE  Progress'
  BY <1>6 DEF Failed
<1>7. ASSUME NEW m \in Attempts, Fetched(m) \/ Copied(m) \/ Committed(m)
      PROVE  Progress'
  BY <1>7 DEF Fetched, Copied, Committed
<1>8. ASSUME NEW m \in Attempts, Swap(m)
      PROVE  Progress'
  BY <1>8 DEF Swap, Released
<1>9. ASSUME NEW m \in Attempts, Create(m)
      PROVE  Progress'
  BY <1>9 DEF Create
<1>10. ASSUME NEW m \in Attempts, Prepared(m) \/ Completed(m) \/ Broken(m)
       PROVE  Progress'
  BY <1>10 DEF Prepared, Completed, Broken
<1>11. CASE ReleaseAfter
  BY <1>11 DEF ReleaseAfter, Released
<1>12. CASE interruptCurrent
  BY <1>12 DEF interruptCurrent, Stoppers
<1>13. ASSUME NEW t \in Stoppers, Cancel(t)
       PROVE  Progress'
  BY <1>13 DEF Cancel, Stoppers
<1>14. ASSUME NEW t \in Stoppers, SettleStopped(t)
       PROVE  Progress'
  BY <1>14 DEF SettleStopped, Stoppers
<1>15. ASSUME NEW t \in Stoppers, ReleaseStopped(t)
       PROVE  Progress'
  BY <1>15 DEF ReleaseStopped, Released, Stoppers
<1>16. ASSUME NEW s \in {"system", "manual_duck_only"}, setStrategy(s)
       PROVE  Progress'
  BY <1>16 DEF setStrategy, providerVars
<1>17. ASSUME NEW level \in Levels, setVolumePercent(level)
       PROVE  Progress'
  BY <1>17 DEF setVolumePercent, providerVars
<1>18. CASE Flush
  BY <1>18 DEF Flush, providerVars
<1>19. CASE Crash
  BY <1>19 DEF Crash, Stoppers
<1> QED
  BY <1>1, <1>2, <1>3, <1>4, <1>5, <1>6, <1>7, <1>8, <1>9, <1>10, <1>11, <1>12, <1>13,
     <1>14, <1>15, <1>16, <1>17, <1>18, <1>19 DEF Next
-----------------------------------------------------------------------------
(* What is heard is heard in turn, as long as no attempt is over before it  *)
(* has a player.                                                            *)
Heard ==
    \A m \in Attempts : clip[m] # "none" => (m = n /\ pc # "idle") \/ Releasing

InTurn == OneAtATime /\ Heard

LEMMA TurnsPreserved ==
  ASSUME Typed, Progress, InTurn, Next, ~early'
  PROVE  InTurn'
<1> USE PlaybackAssumption DEF Typed, WorkerType, ProviderType, Attempts, Progress, Creating,
        Silent, Empty, Releasing, OneAtATime, Heard, InTurn
<1>1. ASSUME NEW k \in Keys \cup {None}, NEW duck \in BOOLEAN, NEW level \in Levels \cup {None},
             Attempt(k, duck, level)
      PROVE  InTurn'
  BY <1>1 DEF Attempt, playerVars
<1>2. CASE play
  <2>1. n \in Attempts
    BY <1>2 DEF play
  <2>2. pc = "play" /\ pc' \in {"inside", "await"}
    BY <1>2 DEF play
  <2>3. /\ carrier'[n] \in {"swapFile", "swapUrl", "fetch"}
        /\ \A m \in Attempts : m # n => carrier'[m] = carrier[m]
    BY <1>2, <2>1 DEF play
  <2>4. /\ n' = n /\ listener' = n /\ clip' = clip /\ stop' = stop /\ told' = told
        /\ player' = player /\ main' = main
    BY <1>2 DEF play, playerVars
  <2> QED
    BY <2>1, <2>2, <2>3, <2>4
<1>3. CASE AwaitTimeout
  BY <1>3 DEF AwaitTimeout, gateVars, playerVars, Stoppers
<1>4. CASE End
  BY <1>4 DEF End, providerVars, gateVars, playerVars
<1> USE DEF workerVars, gateVars, playerVars, Carry, finishOnce, releaseInternal
<1>5. ASSUME NEW m \in Attempts, Fetch(m)
      PROVE  InTurn'
  BY <1>5 DEF Fetch
<1>6. ASSUME NEW m \in Attempts, Failed(m)
      PROVE  InTurn'
  BY <1>6 DEF Failed
<1>7. ASSUME NEW m \in Attempts, Fetched(m) \/ Copied(m) \/ Committed(m)
      PROVE  InTurn'
  BY <1>7 DEF Fetched, Copied, Committed
<1>8. ASSUME NEW m \in Attempts, Swap(m)
      PROVE  InTurn'
  BY <1>8 DEF Swap, Released
<1>9. ASSUME NEW m \in Attempts, Create(m)
      PROVE  InTurn'
  BY <1>9 DEF Create
<1>10. ASSUME NEW m \in Attempts, Prepared(m)
       PROVE  InTurn'
  BY <1>10 DEF Prepared
<1>11. ASSUME NEW m \in Attempts, Completed(m) \/ Broken(m)
       PROVE  InTurn'
  BY <1>11 DEF Completed, Broken
<1>12. CASE ReleaseAfter
  BY <1>12 DEF ReleaseAfter, Released
<1>13. CASE interruptCurrent
  BY <1>13 DEF interruptCurrent, Stoppers
<1>14. ASSUME NEW t \in Stoppers, Cancel(t)
       PROVE  InTurn'
  BY <1>14 DEF Cancel, Stoppers
<1>15. ASSUME NEW t \in Stoppers, SettleStopped(t)
       PROVE  InTurn'
  <2>1. /\ UNCHANGED <<pc, n, listener, player, clip, carrier, main>>
        /\ stop' = [stop EXCEPT ![t] = "settled"]
    BY <1>15 DEF SettleStopped
  <2>2. Releasing'
    BY <2>1
  <2>3. Empty
    <3>1. CASE listener = 0
      BY <3>1
    <3>2. CASE listener # 0
      <4>1. carrier[listener] = "none"
        BY <1>15, <3>2 DEF SettleStopped
      <4> QED
        BY <4>1
    <3> QED
      BY <3>1, <3>2
  <2>4. t # "worker" => stop'["worker"] = stop["worker"]
    BY <2>1
  <2>5. t = "worker" => stop'["worker"] = "settled"
    BY <2>1 DEF Stoppers
  <2> QED
    BY <2>1, <2>2, <2>3, <2>4, <2>5
<1>16. ASSUME NEW t \in Stoppers, ReleaseStopped(t)
       PROVE  InTurn'
  BY <1>16 DEF ReleaseStopped, Released, Stoppers
<1>17. ASSUME NEW s \in {"system", "manual_duck_only"}, setStrategy(s)
       PROVE  InTurn'
  BY <1>17 DEF setStrategy, providerVars
<1>18. ASSUME NEW level \in Levels, setVolumePercent(level)
       PROVE  InTurn'
  BY <1>18 DEF setVolumePercent, providerVars
<1>19. CASE Flush
  BY <1>19 DEF Flush, providerVars
<1>20. CASE Crash
  BY <1>20 DEF Crash, Stoppers
<1> QED
  BY <1>1, <1>2, <1>3, <1>4, <1>5, <1>6, <1>7, <1>8, <1>9, <1>10, <1>11, <1>12, <1>13,
     <1>14, <1>15, <1>16, <1>17, <1>18, <1>19, <1>20 DEF Next

(* After a crash nothing is under way.                                      *)
LEMMA CrashInTurn ==
  ASSUME Crash
  PROVE  InTurn'
  BY DEF Crash, InTurn, OneAtATime, Heard, Silent, Empty, Releasing, Stoppers

LEMMA EarlyStays ==
  ASSUME early, Next
  PROVE  early' \/ Crash
<1> USE DEF workerVars, providerVars, cacheVars, focusVars
<1>1. ASSUME NEW k \in Keys \cup {None}, NEW duck \in BOOLEAN, NEW level \in Levels \cup {None},
             Attempt(k, duck, level)
      PROVE  early'
  BY <1>1 DEF Attempt
<1>2. ASSUME play \/ AwaitTimeout \/ End \/ ReleaseAfter \/ interruptCurrent \/ Flush
      PROVE  early'
  BY <1>2 DEF play, AwaitTimeout, End, ReleaseAfter, interruptCurrent, Flush
<1>3. ASSUME NEW m \in Attempts,
             Fetch(m) \/ Failed(m) \/ Fetched(m) \/ Copied(m) \/ Committed(m) \/ Swap(m)
      PROVE  early'
  BY <1>3 DEF Fetch, Failed, Fetched, Copied, Committed, Swap
<1>4. ASSUME NEW m \in Attempts, Create(m) \/ Prepared(m) \/ Completed(m) \/ Broken(m)
      PROVE  early'
  BY <1>4 DEF Create, Prepared, Completed, Broken
<1>5. ASSUME NEW t \in Stoppers, Cancel(t) \/ SettleStopped(t) \/ ReleaseStopped(t)
      PROVE  early'
  BY <1>5 DEF Cancel, SettleStopped, ReleaseStopped
<1>6. ASSUME NEW s \in {"system", "manual_duck_only"}, setStrategy(s)
      PROVE  early'
  BY <1>6 DEF setStrategy
<1>7. ASSUME NEW level \in Levels, setVolumePercent(level)
      PROVE  early'
  BY <1>7 DEF setVolumePercent
<1> QED
  BY <1>1, <1>2, <1>3, <1>4, <1>5, <1>6, <1>7 DEF Next
-----------------------------------------------------------------------------
(* The index and the files stay together; what put or get answered with     *)
(* stays there until it is played.                                          *)
Served == \A m \in Attempts :
              carrier[m] \in {"committed", "swapFile", "createFile"} => key[m] \in files

(* The actions that change neither the index, nor the files.                *)
LEMMA DiskUntouched ==
  ASSUME DiskMatchesIndex, UNCHANGED <<index, files, lost>>
  PROVE  DiskMatchesIndex'
  BY DEF DiskMatchesIndex

LEMMA DiskPreserved ==
  ASSUME Typed, Keyed, DiskMatchesIndex, Next
  PROVE  DiskMatchesIndex'
<1> USE PlaybackAssumption DEF Typed
<1>0. IsIndex(index) /\ IsIndex(saved)
  BY DEF CacheType
<1> USE DEF cacheVars
<1>1. ASSUME NEW k \in Keys \cup {None}, NEW duck \in BOOLEAN, NEW level \in Levels \cup {None},
             Attempt(k, duck, level)
      PROVE  DiskMatchesIndex'
  BY <1>1, DiskUntouched DEF Attempt
<1>2. CASE play
  <2>1. UNCHANGED <<files, lost>>
    BY <1>2 DEF play
  <2>2. CASE get(key[n])
    <3>1. key[n] \in ToSet(index) /\ key[n] \in Keys
      BY <2>2 DEF get, CacheType
    <3>2. ToSet(Used(key[n])) = ToSet(index)
      <4>1. ToSet(Used(key[n])) = ToSet(index) \cup {key[n]}
        BY <1>0, <3>1, UsedFacts
      <4> QED
        BY <3>1, <4>1
    <3>3. index' = Used(key[n])
      BY <1>2, <2>2 DEF play
    <3>4. ToSet(index') = ToSet(index)
      BY <3>2, <3>3
    <3> QED
      BY <3>4, <2>1 DEF DiskMatchesIndex
  <2>3. CASE ~get(key[n])
    <3>1. key[n] \notin ToSet(index)
      BY <2>3 DEF get, DiskMatchesIndex
    <3>2. ToSet(Without(key[n])) = ToSet(index)
      BY <1>0, <3>1, WithoutFacts
    <3>3. index' = Without(key[n])
      BY <1>2, <2>3 DEF play
    <3>4. ToSet(index') = ToSet(index)
      BY <3>2, <3>3
    <3> QED
      BY <3>4, <2>1 DEF DiskMatchesIndex
  <2> QED
    BY <2>2, <2>3
<1>3. CASE AwaitTimeout \/ End \/ ReleaseAfter \/ interruptCurrent
  BY <1>3, DiskUntouched DEF AwaitTimeout, End, ReleaseAfter, interruptCurrent
<1>4. ASSUME NEW m \in Attempts,
             Fetch(m) \/ Failed(m) \/ Fetched(m) \/ Committed(m) \/ Swap(m)
      PROVE  DiskMatchesIndex'
  BY <1>4, DiskUntouched DEF Fetch, Failed, Fetched, Committed, Swap
<1>5. ASSUME NEW m \in Attempts, Copied(m)
      PROVE  DiskMatchesIndex'
  <2>1. CASE put(key[m])
    <3> DEFINE used == Used(key[m])
    <3>1. key[m] \in Keys
      BY <1>5 DEF Copied, Keyed, WithKey
    <3>2. /\ used \in Seq(Keys) /\ IsInjective(used) /\ Len(used) > 0
          /\ ToSet(used) = ToSet(index) \cup {key[m]} /\ used[Len(used)] = key[m]
      BY <1>0, <3>1, UsedFacts
    <3> HIDE DEF used
    <3>3. ToSet(Kept(used)) \subseteq ToSet(used)
      BY <3>2, KeptFacts
    <3>4. /\ index' = Kept(used) /\ lost' = lost
          /\ files' = (files \cup {key[m]}) \ (ToSet(used) \ ToSet(Kept(used)))
      BY <1>5, <2>1 DEF used, put, Copied
    <3>5. ToSet(index') \subseteq files'
      BY <3>2, <3>3, <3>4 DEF DiskMatchesIndex
    <3>6. ~lost' => files' = ToSet(index')
      BY <3>2, <3>3, <3>4 DEF DiskMatchesIndex
    <3> QED
      BY <3>5, <3>6 DEF DiskMatchesIndex
  <2>2. CASE UNCHANGED <<files, index>>
    BY <1>5, <2>2, DiskUntouched DEF Copied
  <2> QED
    BY <1>5, <2>1, <2>2 DEF Copied
<1>6. ASSUME NEW m \in Attempts, Create(m) \/ Prepared(m) \/ Completed(m) \/ Broken(m)
      PROVE  DiskMatchesIndex'
  BY <1>6, DiskUntouched DEF Create, Prepared, Completed, Broken
<1>7. ASSUME NEW t \in Stoppers, Cancel(t) \/ SettleStopped(t) \/ ReleaseStopped(t)
      PROVE  DiskMatchesIndex'
  BY <1>7, DiskUntouched DEF Cancel, SettleStopped, ReleaseStopped
<1>8. ASSUME NEW s \in {"system", "manual_duck_only"}, setStrategy(s)
      PROVE  DiskMatchesIndex'
  BY <1>8, DiskUntouched DEF setStrategy
<1>9. ASSUME NEW level \in Levels, setVolumePercent(level)
      PROVE  DiskMatchesIndex'
  BY <1>9, DiskUntouched DEF setVolumePercent
<1>10. CASE Flush
  BY <1>10, DiskUntouched DEF Flush
<1>11. CASE Crash
  <2>1. ToSet(Loaded) = ToSet(saved) \cap files
    BY <1>0, LoadedFacts
  <2>2. index' = Loaded /\ files' = files /\ lost' = (lost \/ saved # index)
    BY <1>11 DEF Crash
  <2>3. ToSet(index') = ToSet(saved) \cap files
    BY <2>1, <2>2
  <2>4. ~lost' => ToSet(saved) = ToSet(index) /\ ~lost
    BY <2>2
  <2> QED
    BY <2>2, <2>3, <2>4 DEF DiskMatchesIndex
<1> QED
  BY <1>1, <1>2, <1>3, <1>4, <1>5, <1>6, <1>7, <1>8, <1>9, <1>10, <1>11 DEF Next

LEMMA ServedPreserved ==
  ASSUME Typed, Progress, Keyed, InTurn, Served, Next
  PROVE  Served'
<1> USE PlaybackAssumption DEF Typed, WorkerType, ProviderType, Served
<1>1. ASSUME NEW k \in Keys \cup {None}, NEW duck \in BOOLEAN, NEW level \in Levels \cup {None},
             Attempt(k, duck, level)
      PROVE  Served'
  <2> SUFFICES ASSUME NEW m \in Attempts, carrier'[m] \in {"committed", "swapFile", "createFile"}
               PROVE  key'[m] \in files'
    OBVIOUS
  <2>1. carrier' = carrier /\ n' = n + 1 /\ files' = files
    BY <1>1 DEF Attempt, cacheVars
  <2>2. m # n'
    BY <2>1 DEF Progress, Attempts
  <2>3. key'[m] = key[m]
    BY <1>1, <2>1, <2>2 DEF Attempt
  <2> QED
    BY <2>1, <2>3
<1>2. CASE play
  <2>1. n \in Attempts /\ key' = key /\ files' = files
    BY <1>2 DEF play, Progress
  <2>2. CASE get(key[n])
    BY <1>2, <2>1, <2>2 DEF play, get
  <2>3. CASE ~get(key[n])
    BY <1>2, <2>1, <2>3 DEF play
  <2> QED
    BY <2>2, <2>3
<1> USE DEF workerVars, providerVars, cacheVars, Carry
<1>3. CASE AwaitTimeout \/ End \/ ReleaseAfter \/ interruptCurrent
  BY <1>3 DEF AwaitTimeout, End, ReleaseAfter, interruptCurrent
<1>4. ASSUME NEW m \in Attempts, Fetch(m) \/ Failed(m) \/ Fetched(m)
      PROVE  Served'
  BY <1>4 DEF Fetch, Failed, Fetched
<1>5. ASSUME NEW m \in Attempts, Copied(m)
      PROVE  Served'
  <2>1. /\ carrier[m] = "copying" /\ key' = key
        /\ \A l \in Attempts : l # m => carrier'[l] = carrier[l] /\ carrier[l] = "none"
    BY <1>5 DEF Copied, InTurn, OneAtATime
  <2>2. CASE put(key[m])
    <3> DEFINE used == Used(key[m])
    <3>1. key[m] \in Keys
      BY <2>1 DEF Keyed, WithKey
    <3>2. /\ used \in Seq(Keys) /\ IsInjective(used) /\ Len(used) > 0
          /\ used[Len(used)] = key[m]
      BY <3>1, UsedFacts DEF CacheType
    <3> HIDE DEF used
    <3>3. key[m] \in ToSet(Kept(used))
      BY <3>2, KeptFacts
    <3>4. files' = (files \cup {key[m]}) \ (ToSet(used) \ ToSet(Kept(used)))
      BY <2>2 DEF used, put
    <3> QED
      BY <2>1, <3>3, <3>4
  <2>3. CASE Carry(m, "swapUrl") /\ UNCHANGED <<files, index>>
    BY <2>1, <2>3
  <2> QED
    BY <1>5, <2>2, <2>3 DEF Copied
<1>6. ASSUME NEW m \in Attempts, Committed(m) \/ Swap(m) \/ Create(m)
      PROVE  Served'
  BY <1>6 DEF Committed, Swap, Create
<1>7. ASSUME NEW m \in Attempts, Prepared(m) \/ Completed(m) \/ Broken(m)
      PROVE  Served'
  BY <1>7 DEF Prepared, Completed, Broken
<1>8. ASSUME NEW t \in Stoppers, Cancel(t) \/ SettleStopped(t) \/ ReleaseStopped(t)
      PROVE  Served'
  BY <1>8 DEF Cancel, SettleStopped, ReleaseStopped
<1>9. ASSUME NEW s \in {"system", "manual_duck_only"}, setStrategy(s)
      PROVE  Served'
  BY <1>9 DEF setStrategy
<1>10. ASSUME NEW level \in Levels, setVolumePercent(level)
       PROVE  Served'
  BY <1>10 DEF setVolumePercent
<1>11. CASE Flush
  BY <1>11 DEF Flush
<1>12. CASE Crash
  BY <1>12 DEF Crash
<1> QED
  BY <1>1, <1>2, <1>3, <1>4, <1>5, <1>6, <1>7, <1>8, <1>9, <1>10, <1>11, <1>12 DEF Next
-----------------------------------------------------------------------------
(* The music's volume and the focus, whatever the rest does.                *)
LEMMA FocusUntouched ==
  ASSUME Volumes, Focus, UNCHANGED focusVars, pc' = "idle" => pc = "idle"
  PROVE  Volumes' /\ Focus'
  BY DEF Volumes, Focus, focusVars

LEMMA FocusPreserved ==
  ASSUME Typed, Volumes, Focus, Next
  PROVE  Volumes' /\ Focus'
<1> USE PlaybackAssumption DEF Typed, WorkerType, FocusType
<1>1. ASSUME NEW k \in Keys \cup {None}, NEW duck \in BOOLEAN, NEW level \in Levels \cup {None},
             Attempt(k, duck, level)
      PROVE  Volumes' /\ Focus'
  <2>1. Focus'
    BY <1>1 DEF Attempt, request, Focus
  <2>2. Volumes'
    <3>1. savedStreamVolume = None /\ pc' = "play"
      BY <1>1 DEF Attempt, Volumes
    <3>2. chosen' = {volume} \cup ({level} \ {None})
      BY <1>1 DEF Attempt, request
    <3>3. savedStreamVolume' \in {None, volume}
      BY <1>1, <3>1 DEF Attempt, request
    <3>4. savedStreamVolume' = None => volume' \in {volume, level} /\ volume' # None
      <4>1. volume # None /\ volume' # None
        BY <1>1 DEF Attempt, request
      <4> QED
        BY <1>1, <4>1 DEF Attempt, request
    <3> QED
      BY <3>1, <3>2, <3>3, <3>4 DEF Volumes
  <2> QED
    BY <2>1, <2>2
<1>2. CASE play \/ AwaitTimeout
  BY <1>2, FocusUntouched DEF play, AwaitTimeout
<1>3. CASE End
  BY <1>3 DEF End, abandon, Restored, StillHeld, Volumes, Focus
<1> USE DEF workerVars
<1>4. ASSUME NEW m \in Attempts,
             Fetch(m) \/ Failed(m) \/ Fetched(m) \/ Copied(m) \/ Committed(m) \/ Swap(m)
      PROVE  Volumes' /\ Focus'
  BY <1>4, FocusUntouched DEF Fetch, Failed, Fetched, Copied, Committed, Swap
<1>5. ASSUME NEW m \in Attempts, Create(m) \/ Prepared(m) \/ Completed(m) \/ Broken(m)
      PROVE  Volumes' /\ Focus'
  BY <1>5, FocusUntouched DEF Create, Prepared, Completed, Broken
<1>6. CASE ReleaseAfter \/ interruptCurrent
  BY <1>6, FocusUntouched DEF ReleaseAfter, interruptCurrent
<1>7. ASSUME NEW t \in Stoppers, Cancel(t) \/ SettleStopped(t) \/ ReleaseStopped(t)
      PROVE  Volumes' /\ Focus'
  BY <1>7, FocusUntouched DEF Cancel, SettleStopped, ReleaseStopped
<1>8. ASSUME NEW s \in {"system", "manual_duck_only"}, setStrategy(s)
      PROVE  Volumes' /\ Focus'
  BY <1>8 DEF setStrategy, Volumes, Focus
<1>9. ASSUME NEW level \in Levels, setVolumePercent(level)
      PROVE  Volumes' /\ Focus'
  BY <1>9 DEF setVolumePercent, Volumes, Focus
<1>10. CASE Flush
  BY <1>10, FocusUntouched DEF Flush
<1>11. CASE Crash
  BY <1>11 DEF Crash, Volumes, Focus
<1> QED
  BY <1>1, <1>2, <1>3, <1>4, <1>5, <1>6, <1>7, <1>8, <1>9, <1>10, <1>11 DEF Next
-----------------------------------------------------------------------------
LEMMA InitIInv ==
  ASSUME Init
  PROVE  IInv
<1> USE PlaybackAssumption
<1>1. TypeOK
  <2>1. index = <<>> /\ saved = <<>> /\ Len(index) = 0 /\ DOMAIN index = {}
    BY DEF Init
  <2>2. {index, saved} \subseteq Seq(Keys) /\ Len(index) <= MaxEntries /\ IsInjective(index)
    BY <2>1 DEF IsInjective
  <2>3. /\ clip \in [Attempts -> Clips] /\ carrier \in [Attempts -> Carriers]
        /\ stop \in [Stoppers -> {"none", "called", "cancelled", "settled"}]
        /\ key \in [Attempts -> Keys \cup {None}]
    BY DEF Init, Clips, Carriers
  <2>4. n \in 0 .. MaxAttempts /\ listener \in 0 .. n /\ player \in 0 .. n
        /\ events \in 0 .. MaxEvents
    BY DEF Init
  <2> QED
    BY <2>2, <2>3, <2>4 DEF Init, TypeOK
<1>2. Saved /\ DiskMatchesIndex
  <2>1. Len(saved) = 0 /\ DOMAIN saved = {} /\ index = saved /\ files = {}
    BY DEF Init
  <2> QED
    BY <2>1 DEF Saved, DiskMatchesIndex, IsInjective, ToSet
<1>3. Keyed /\ Progress /\ Turns /\ HeardInTurn /\ ServedFromDisk
  BY DEF Init, Keyed, WithKey, Progress, Turns, OneAtATime, Silent, Empty, Releasing,
         HeardInTurn, ServedFromDisk, Attempts, Stoppers, Creating
<1>4. Volumes /\ Focus
  BY DEF Init, Volumes, Focus
<1> QED
  BY <1>1, <1>2, <1>3, <1>4 DEF IInv

LEMMA NextIInv ==
  ASSUME IInv, Next
  PROVE  IInv'
<1>1. Typed
  BY TypesTogether DEF IInv
<1>2. Typed'
  BY <1>1, WorkerTypePreserved, ProviderTypePreserved, CacheTypePreserved, FocusTypePreserved
     DEF IInv, Typed
<1>3. (TypeOK /\ Saved)'
  BY <1>2, TypesTogetherNext
<1>4. Keyed' /\ Progress' /\ DiskMatchesIndex' /\ Volumes' /\ Focus'
  BY <1>1, KeyedPreserved, ProgressPreserved, DiskPreserved, FocusPreserved DEF IInv
<1>5. ASSUME ~early, ~early'
      PROVE  InTurn' /\ Served'
  <2>1. InTurn /\ Served
    BY <1>5 DEF IInv, Turns, HeardInTurn, ServedFromDisk, InTurn, Heard, Releasing, Served
  <2> QED
    BY <2>1, <1>1, <1>5, TurnsPreserved, ServedPreserved DEF IInv
<1>6. ASSUME early, ~early'
      PROVE  InTurn' /\ Served'
  <2>1. Crash
    BY <1>6, EarlyStays
  <2>2. Served'
    BY <2>1 DEF Crash, Served
  <2> QED
    BY <2>1, <2>2, CrashInTurn
<1>7. Turns' /\ HeardInTurn' /\ ServedFromDisk'
  BY <1>5, <1>6 DEF Turns, HeardInTurn, ServedFromDisk, InTurn, Heard, Releasing, Served
<1> QED
  BY <1>3, <1>4, <1>7 DEF IInv

(* The inductive invariant.                                                 *)
THEOREM Invariance == Spec => []IInv
<1>1. IInv /\ UNCHANGED vars => IInv'
  BY DEF IInv, TypeOK, Saved, Keyed, Progress, Turns, OneAtATime, Silent, Empty, Releasing,
         HeardInTurn, DiskMatchesIndex, ServedFromDisk, Volumes, Focus, vars, workerVars,
         providerVars, gateVars, playerVars, cacheVars, focusVars
<1>2. IInv /\ [Next]_vars => IInv'
  BY <1>1, NextIInv
<1>3. Init => IInv
  BY InitIInv
<1> QED
  BY <1>2, <1>3, PTL DEF Spec

(* Every variable keeps its type; the index never outgrows its bound and    *)
(* names no clip twice, across evictions, failed copies and crashes.        *)
THEOREM Typing == Spec => []TypeOK
<1>1. IInv => TypeOK
  BY DEF IInv
<1> QED
  BY <1>1, Invariance, PTL

(* However timeouts, stops, callbacks and downloads interleave, what is     *)
(* heard is the attempt under way or about to be released, until an attempt *)
(* is over before it has a player.                                          *)
THEOREM NothingHeardOutOfTurn == Spec => []HeardInTurn
<1>1. IInv => HeardInTurn
  BY DEF IInv
<1> QED
  BY <1>1, Invariance, PTL

(* The index names only files that are there, and all of them, but for what *)
(* a crash kept it from writing down.                                       *)
THEOREM DiskAgrees == Spec => []DiskMatchesIndex
<1>1. IInv => DiskMatchesIndex
  BY DEF IInv
<1> QED
  BY <1>1, Invariance, PTL

(* No eviction takes the file that get or put answered with before it is    *)
(* played.                                                                  *)
THEOREM FileStaysUntilPlayed == Spec => []ServedFromDisk
<1>1. IInv => ServedFromDisk
  BY DEF IInv
<1> QED
  BY <1>1, Invariance, PTL

(* After every attempt the volume of the music is one somebody chose.       *)
THEOREM MusicAsLoudAsBefore == Spec => []VolumeGivenBack
<1>1. IInv => VolumeGivenBack
  BY DEF IInv, Volumes, VolumeGivenBack
<1> QED
  BY <1>1, Invariance, PTL

(* After every attempt the focus is given back, unless the strategy was     *)
(* switched while it was held.                                              *)
THEOREM FocusReturned == Spec => []FocusGivenBack
<1>1. IInv => FocusGivenBack
  BY DEF IInv, Focus, FocusGivenBack
<1> QED
  BY <1>1, Invariance, PTL

(* Only the callback of the attempt under way, from a clip that played to   *)
(* its end, makes an attempt a success.                                     *)
THEOREM SuccessMeansHeard == Spec => FinishedWasHeard
<1> DEFINE Heard1 == told' = "finished" /\ told # "finished"
                       => n # 0 /\ clip[n] = "playing" /\ clip'[n] = "none"
<1>1. ASSUME Typed, Next
      PROVE  Heard1
  <2> SUFFICES ASSUME told' = "finished", told # "finished"
               PROVE  n # 0 /\ clip[n] = "playing" /\ clip'[n] = "none"
    OBVIOUS
  <2> USE DEF workerVars, providerVars, gateVars, playerVars, finishOnce
  <2>1. ASSUME NEW m \in Attempts, Completed(m)
        PROVE  n # 0 /\ clip[n] = "playing" /\ clip'[n] = "none"
    <3>1. m = n /\ m # 0
      BY <2>1, PlaybackAssumption DEF Completed, Attempts
    <3> QED
      BY <2>1, <3>1, <1>1 DEF Completed, Typed, ProviderType
  <2>2. ASSUME NEW m \in Attempts,
               Fetch(m) \/ Failed(m) \/ Fetched(m) \/ Copied(m) \/ Committed(m)
                 \/ Swap(m) \/ Create(m) \/ Prepared(m) \/ Broken(m)
        PROVE  FALSE
    BY <2>2 DEF Fetch, Failed, Fetched, Copied, Committed, Swap, Create, Prepared, Broken
  <2>3. ASSUME NEW k \in Keys \cup {None}, NEW duck \in BOOLEAN,
               NEW level \in Levels \cup {None}, Attempt(k, duck, level)
        PROVE  FALSE
    BY <2>3 DEF Attempt
  <2>4. ASSUME play \/ AwaitTimeout \/ End \/ ReleaseAfter \/ interruptCurrent \/ Flush \/ Crash
        PROVE  FALSE
    BY <2>4 DEF play, AwaitTimeout, End, ReleaseAfter, interruptCurrent, Flush, Crash
  <2>5. ASSUME NEW t \in Stoppers, Cancel(t) \/ SettleStopped(t) \/ ReleaseStopped(t)
        PROVE  FALSE
    BY <2>5 DEF Cancel, SettleStopped, ReleaseStopped
  <2>6. ASSUME NEW s \in {"system", "manual_duck_only"}, setStrategy(s)
        PROVE  FALSE
    BY <2>6 DEF setStrategy
  <2>7. ASSUME NEW level \in Levels, setVolumePercent(level)
        PROVE  FALSE
    BY <2>7 DEF setVolumePercent
  <2> QED
    BY <1>1, <2>1, <2>2, <2>3, <2>4, <2>5, <2>6, <2>7 DEF Next
<1>2. IInv /\ [Next]_vars => [Heard1]_vars
  BY <1>1, TypesTogether DEF IInv
<1> QED
  BY <1>2, Invariance, PTL DEF Spec, FinishedWasHeard
=============================================================================
