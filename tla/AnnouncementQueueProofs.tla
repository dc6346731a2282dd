----------------------- MODULE AnnouncementQueueProofs -----------------------
(***************************************************************************)
(* Proofs about AnnouncementQueue, for every set of announcements, every    *)
(* clock bound, window and staleness rule.                                  *)
(*                                                                          *)
(* DedupSpacing is not inductive: it says nothing of what the map of recent *)
(* keys holds.  Two facts make it so.  The map remembers every acceptance   *)
(* younger than the window (RecentComplete), so an offer cannot be accepted *)
(* too early; and what it remembers was really accepted (RecentSound), so   *)
(* an offer is not suppressed without cause.                                *)
(***************************************************************************)
EXTENDS AnnouncementQueue, TLAPS

(* The heap holds what is queued, and acceptances lie in the past.          *)
History ==
    /\ heap = {a \in Ann : fate[a] = "queued"}
    /\ \A a \in Ann : Accepted(a) => acceptedAt[a] <= now
    /\ \A k \in Keys : recent[k] <= now

RecentComplete ==
    \A a \in Ann : Accepted(a) /\ now - acceptedAt[a] < DedupWindow
                      => recent[Key(a)] >= acceptedAt[a]

RecentSound ==
    \A k \in Keys : recent[k] # NoTime =>
        \E a \in Ann : Accepted(a) /\ Key(a) = k /\ acceptedAt[a] = recent[k]

IInv == TypeOK /\ History /\ RecentComplete /\ RecentSound
               /\ DedupSpacing /\ NoDuplicateQueued

(* Every variable keeps its type.                                           *)
THEOREM Typing == Spec => []TypeOK
<1>1. Init => TypeOK
  BY RequestsAssumption, TimeAssumption
     DEF Init, TypeOK, Time, WorkerStates, Fates, NoTime
<1>2. TypeOK /\ [Next]_vars => TypeOK'
  <2> SUFFICES ASSUME TypeOK, [Next]_vars
               PROVE  TypeOK'
    OBVIOUS
  <2> USE TimeAssumption DEF TypeOK
  <2>p. Purged \in [Keys -> Time \union {NoTime}]
    BY DEF Purged
  <2>1. ASSUME NEW a \in Ann, Build(a) PROVE TypeOK'
    BY <2>1 DEF Build, Fates
  <2>2. ASSUME NEW a \in Ann, OfferDuplicate(a) PROVE TypeOK'
    BY <2>2, <2>p DEF OfferDuplicate, Fates
  <2>3. ASSUME NEW a \in Ann, OfferAccept(a) PROVE TypeOK'
    <3>1. recent' \in [Keys -> Time \union {NoTime}]
      BY <2>3, <2>p DEF OfferAccept
    <3>2. accepted' \in Seq(Ann)
      BY <2>3 DEF OfferAccept
    <3>3. worker' \in WorkerStates /\ heap' \subseteq Ann
      BY <2>3 DEF OfferAccept, WorkerStates
    <3> QED
      BY <2>3, <3>1, <3>2, <3>3 DEF OfferAccept, Fates
  <2>4. CASE CallTake
    BY <2>4 DEF CallTake, WorkerStates
  <2>5. ASSUME NEW a \in heap, TakeFresh(a) PROVE TypeOK'
    <3>1. PICK D \in SUBSET (heap \ {a}) :
             /\ heap' = heap \ (D \union {a})
             /\ fate' = [Drop(fate, D, "stale") EXCEPT ![a] = "taken"]
      BY <2>5 DEF TakeFresh
    <3>2. fate' \in [Ann -> Fates]
      BY <3>1 DEF Drop, Fates
    <3> QED
      BY <2>5, <3>1, <3>2 DEF TakeFresh, WorkerStates
  <2>6. CASE TakeNothing
    <3>1. fate' \in [Ann -> Fates]
      BY <2>6 DEF TakeNothing, Drop, Fates
    <3> QED
      BY <2>6, <3>1 DEF TakeNothing, WorkerStates
  <2>7. CASE Clear
    <3>1. fate' \in [Ann -> Fates]
      BY <2>7 DEF Clear, Drop, Fates
    <3> QED
      BY <2>7, <3>1 DEF Clear
  <2>8. CASE Tick
    BY <2>8 DEF Tick, Time
  <2>9. CASE UNCHANGED vars
    BY <2>9 DEF vars
  <2> QED
    BY <2>1, <2>2, <2>3, <2>4, <2>5, <2>6, <2>7, <2>8, <2>9 DEF Next, Offer, Take
<1> QED
  BY <1>1, <1>2, PTL DEF Spec

-----------------------------------------------------------------------------
(* What an offer knows of the past.  The purge forgets only what is older   *)
(* than the window, so a key not just accepted has no acceptance within it. *)
LEMMA PurgeKeeps ==
    ASSUME TypeOK, History, RecentComplete, NEW a \in Ann, ~JustAccepted(a),
           NEW b \in Ann, Accepted(b), Key(b) = Key(a)
    PROVE  now - acceptedAt[b] >= DedupWindow
<1>1. Key(a) \in Keys
  BY RequestsAssumption DEF TypeOK, Key
<1>2. /\ now \in Int /\ DedupWindow \in Int /\ acceptedAt[b] \in Int
      /\ acceptedAt[b] >= 0
      /\ recent[Key(a)] \in Int
  BY <1>1, TimeAssumption DEF TypeOK, Time, NoTime
<1>3. CASE now - acceptedAt[b] < DedupWindow
  <2>1. recent[Key(a)] >= acceptedAt[b]
    BY <1>3 DEF RecentComplete
  <2>2. Purged[Key(a)] = recent[Key(a)]
    BY <1>1, <1>2, <1>3, <2>1 DEF Purged, NoTime
  <2> QED
    BY <1>2, <1>3, <2>1, <2>2 DEF JustAccepted, NoTime
<1> QED
  BY <1>2, <1>3

(* The purge keeps the entry of a key or removes it because it is old.      *)
LEMMA PurgeIsRecent ==
    ASSUME TypeOK, NEW k \in Keys
    PROVE  \/ Purged[k] = recent[k]
           \/ Purged[k] = NoTime /\ now - recent[k] > DedupWindow
BY DEF Purged

(* A step that only moves queued announcements to another fate of accepted  *)
(* ones: a take, a clear.                                                   *)
LEMMA LeavingKeeps ==
    ASSUME IInv, TypeOK', UNCHANGED <<now, req, born, recent, acceptedAt>>,
           heap' \subseteq heap,
           heap' = {a \in Ann : fate'[a] = "queued"},
           \A a \in Ann : Accepted(a)' <=> Accepted(a)
    PROVE  IInv'
<1>1. History'
  BY DEF IInv, History
<1>2. RecentComplete' /\ RecentSound' /\ DedupSpacing'
  BY DEF IInv, RecentComplete, RecentSound, DedupSpacing, Key
<1>3. NoDuplicateQueued'
  BY DEF IInv, NoDuplicateQueued, Key
<1> QED
  BY <1>1, <1>2, <1>3 DEF IInv

(* The first half of an offer: a purge, and the same acceptances.           *)
LEMMA PurgingKeeps ==
    ASSUME IInv, TypeOK', UNCHANGED <<now, req, heap, acceptedAt>>,
           recent' = Purged,
           \A a \in Ann : /\ Accepted(a)' <=> Accepted(a)
                          /\ fate'[a] = "queued" <=> fate[a] = "queued"
    PROVE  IInv'
<1> USE TimeAssumption, RequestsAssumption
<1>k. \A a \in Ann : Key(a) \in Keys /\ Key(a)' = Key(a)
  BY DEF IInv, TypeOK, Key
<1>p. \A k \in Keys : \/ recent'[k] = recent[k]
                      \/ recent'[k] = NoTime /\ now - recent[k] > DedupWindow
  BY PurgeIsRecent DEF IInv
<1>t. /\ \A k \in Keys : recent[k] \in Int
      /\ \A a \in Ann : acceptedAt[a] \in Int
      /\ now \in Int /\ now >= 0 /\ DedupWindow \in Int
  BY DEF IInv, TypeOK, Time, NoTime
<1>1. History'
  BY <1>p, <1>t DEF IInv, History, NoTime
<1>2. RecentComplete'
  <2> SUFFICES ASSUME NEW a \in Ann, Accepted(a), now - acceptedAt[a] < DedupWindow
               PROVE  recent'[Key(a)] >= acceptedAt[a]
    BY <1>k DEF RecentComplete
  <2>1. recent[Key(a)] >= acceptedAt[a]
    BY DEF IInv, RecentComplete
  <2> QED
    BY <2>1, <1>k, <1>p, <1>t
<1>3. RecentSound'
  BY <1>k, <1>p DEF IInv, RecentSound
<1>4. DedupSpacing' /\ NoDuplicateQueued'
  BY <1>k DEF IInv, DedupSpacing, NoDuplicateQueued, TypeOK
<1> QED
  BY <1>1, <1>2, <1>3, <1>4 DEF IInv

LEMMA AcceptKeeps ==
    ASSUME IInv, TypeOK', NEW a \in Ann, OfferAccept(a)
    PROVE  IInv'
<1> USE TimeAssumption, RequestsAssumption
<1>k. \A b \in Ann : Key(b) \in Keys /\ Key(b)' = Key(b)
  BY DEF IInv, TypeOK, Key, OfferAccept
<1>t. /\ \A k \in Keys : recent[k] \in Int
      /\ \A b \in Ann : acceptedAt[b] \in Int
      /\ now \in Int /\ now >= 0 /\ now' = now /\ DedupWindow \in Int
  BY DEF IInv, TypeOK, Time, NoTime, OfferAccept
<1>f. /\ ~Accepted(a) /\ Accepted(a)' /\ acceptedAt'[a] = now /\ fate'[a] = "queued"
      /\ \A b \in Ann \ {a} : /\ Accepted(b)' <=> Accepted(b)
                              /\ acceptedAt'[b] = acceptedAt[b]
                              /\ fate'[b] = fate[b]
  BY DEF IInv, TypeOK, OfferAccept, Accepted
<1>r. /\ recent'[Key(a)] = now
      /\ \A k \in Keys \ {Key(a)} :
            \/ recent'[k] = recent[k]
            \/ recent'[k] = NoTime /\ now - recent[k] > DedupWindow
  BY <1>k, PurgeIsRecent DEF OfferAccept, Purged, IInv, TypeOK
<1>1. History'
  <2>1. heap' = {b \in Ann : fate'[b] = "queued"}
    BY <1>f DEF OfferAccept, IInv, History
  <2>2. \A b \in Ann : Accepted(b)' => acceptedAt'[b] <= now'
    BY <1>f, <1>t DEF IInv, History
  <2>3. \A k \in Keys : recent'[k] <= now'
    BY <1>r, <1>t DEF IInv, History, NoTime
  <2> QED
    BY <2>1, <2>2, <2>3 DEF History
<1>2. RecentComplete'
  <2> SUFFICES ASSUME NEW b \in Ann, Accepted(b)', now - acceptedAt'[b] < DedupWindow
               PROVE  recent'[Key(b)] >= acceptedAt'[b]
    BY <1>k, <1>t DEF RecentComplete
  <2>1. CASE Key(b) = Key(a)
    BY <2>1, <1>f, <1>r, <1>t DEF IInv, History
  <2>2. CASE Key(b) # Key(a)
    <3>1. recent[Key(b)] >= acceptedAt[b] /\ acceptedAt'[b] = acceptedAt[b]
      BY <2>2, <1>f DEF IInv, RecentComplete
    <3> QED
      BY <2>2, <3>1, <1>k, <1>r, <1>t
  <2> QED
    BY <2>1, <2>2
<1>3. RecentSound'
  <2> SUFFICES ASSUME NEW k \in Keys, recent'[k] # NoTime
               PROVE  \E b \in Ann : /\ Accepted(b)' /\ Key(b) = k
                                     /\ acceptedAt'[b] = recent'[k]
    BY <1>k DEF RecentSound
  <2>1. CASE k = Key(a)
    BY <2>1, <1>f, <1>r
  <2>2. CASE k # Key(a)
    <3>1. recent'[k] = recent[k]
      BY <2>2, <1>r
    <3>2. PICK b \in Ann : Accepted(b) /\ Key(b) = k /\ acceptedAt[b] = recent[k]
      BY <3>1 DEF IInv, RecentSound
    <3> QED
      BY <3>1, <3>2, <1>f
  <2> QED
    BY <2>1, <2>2
<1>4. DedupSpacing'
  <2>1. \A b \in Ann : Accepted(b) /\ Key(b) = Key(a)
                         => now - acceptedAt[b] >= DedupWindow
    BY PurgeKeeps DEF IInv, OfferAccept
  <2> SUFFICES ASSUME NEW b \in Ann, NEW c \in Ann, b # c,
                      Accepted(b)', Accepted(c)', Key(b) = Key(c)
               PROVE  \/ acceptedAt'[b] - acceptedAt'[c] >= DedupWindow
                      \/ acceptedAt'[c] - acceptedAt'[b] >= DedupWindow
    BY <1>k DEF DedupSpacing
  <2>2. CASE b = a
    BY <2>1, <2>2, <1>f
  <2>3. CASE c = a
    BY <2>1, <2>3, <1>f
  <2>4. CASE b # a /\ c # a
    BY <2>4, <1>f DEF IInv, DedupSpacing
  <2> QED
    BY <2>2, <2>3, <2>4
<1>5. NoDuplicateQueued'
  BY <1>k DEF IInv, TypeOK, OfferAccept, AlreadyQueued, NoDuplicateQueued
<1> QED
  BY <1>1, <1>2, <1>3, <1>4, <1>5 DEF IInv

(* The invariant holds, at first and after every step.                      *)
THEOREM Invariance == Spec => []IInv
<1>1. Init => IInv
  <2> SUFFICES ASSUME Init PROVE IInv
    OBVIOUS
  <2>1. TypeOK
    BY RequestsAssumption, TimeAssumption
       DEF Init, TypeOK, Time, WorkerStates, Fates, NoTime
  <2>2. \A a \in Ann : ~Accepted(a)
    BY DEF Init, Accepted
  <2> QED
    BY <2>1, <2>2 DEF Init, IInv, History, RecentComplete, RecentSound,
                      DedupSpacing, NoDuplicateQueued, NoTime
<1>2. IInv /\ TypeOK' /\ [Next]_vars => IInv'
  <2> SUFFICES ASSUME IInv, TypeOK', [Next]_vars
               PROVE  IInv'
    OBVIOUS
  <2>1. ASSUME NEW a \in Ann, Build(a) PROVE IInv'
    <3>1. /\ UNCHANGED <<now, req, heap, recent, acceptedAt>>
          /\ \A b \in Ann : /\ Accepted(b)' <=> Accepted(b)
                            /\ fate'[b] = "queued" <=> fate[b] = "queued"
      BY <2>1 DEF Build, Accepted, IInv, TypeOK
    <3>2. RecentComplete' /\ RecentSound' /\ DedupSpacing' /\ NoDuplicateQueued'
      BY <3>1 DEF IInv, RecentComplete, RecentSound, DedupSpacing,
                  NoDuplicateQueued, Key
    <3>3. History'
      BY <3>1 DEF IInv, History
    <3> QED
      BY <3>2, <3>3 DEF IInv
  <2>2. ASSUME NEW a \in Ann, OfferDuplicate(a) PROVE IInv'
    <3>1. \A b \in Ann : /\ Accepted(b)' <=> Accepted(b)
                         /\ fate'[b] = "queued" <=> fate[b] = "queued"
      BY <2>2 DEF OfferDuplicate, Accepted, IInv, TypeOK
    <3> QED
      BY <2>2, <3>1, PurgingKeeps DEF OfferDuplicate
  <2>3. ASSUME NEW a \in Ann, OfferAccept(a) PROVE IInv'
    BY <2>3, AcceptKeeps
  <2>4. CASE CallTake
    BY <2>4, LeavingKeeps DEF CallTake, IInv, History, Accepted
  <2>5. ASSUME NEW a \in heap, TakeFresh(a) PROVE IInv'
    <3>1. PICK D \in SUBSET (heap \ {a}) :
             /\ heap' = heap \ (D \union {a})
             /\ fate' = [Drop(fate, D, "stale") EXCEPT ![a] = "taken"]
      BY <2>5 DEF TakeFresh
    <3>2. /\ heap' = {b \in Ann : fate'[b] = "queued"}
          /\ \A b \in Ann : Accepted(b)' <=> Accepted(b)
      BY <3>1 DEF Drop, Accepted, IInv, TypeOK, History
    <3> QED
      BY <2>5, <3>1, <3>2, LeavingKeeps DEF TakeFresh
  <2>6. CASE TakeNothing
    <3>1. /\ heap' = {b \in Ann : fate'[b] = "queued"}
          /\ \A b \in Ann : Accepted(b)' <=> Accepted(b)
      BY <2>6 DEF TakeNothing, Drop, Accepted, IInv, TypeOK, History
    <3> QED
      BY <2>6, <3>1, LeavingKeeps DEF TakeNothing
  <2>7. CASE Clear
    <3>1. /\ heap' = {b \in Ann : fate'[b] = "queued"}
          /\ \A b \in Ann : Accepted(b)' <=> Accepted(b)
      BY <2>7 DEF Clear, Drop, Accepted, IInv, TypeOK, History
    <3> QED
      BY <2>7, <3>1, LeavingKeeps DEF Clear
  <2>8. CASE Tick
    <3>1. /\ now' = now + 1
          /\ UNCHANGED <<req, heap, recent, fate, acceptedAt>>
          /\ now \in Int /\ DedupWindow \in Int
          /\ \A k \in Keys : recent[k] \in Int
          /\ \A b \in Ann : acceptedAt[b] \in Int
      BY <2>8, TimeAssumption DEF Tick, IInv, TypeOK, Time, NoTime
    <3>2. History' /\ RecentComplete'
      BY <3>1 DEF IInv, History, RecentComplete, Accepted, Key
    <3>3. RecentSound' /\ DedupSpacing' /\ NoDuplicateQueued'
      BY <3>1 DEF IInv, RecentSound, DedupSpacing, NoDuplicateQueued, Accepted, Key
    <3> QED
      BY <3>2, <3>3 DEF IInv
  <2>9. CASE UNCHANGED vars
    BY <2>9 DEF vars, IInv, TypeOK, History, RecentComplete, RecentSound,
                DedupSpacing, NoDuplicateQueued, Accepted, Key
  <2> QED
    BY <2>1, <2>2, <2>3, <2>4, <2>5, <2>6, <2>7, <2>8, <2>9 DEF Next, Offer, Take
<1> QED
  BY <1>1, <1>2, Typing, PTL DEF Spec

(* No key is accepted twice within the window, and none is queued twice.    *)
THEOREM DuplicatesSuppressed == Spec => [](DedupSpacing /\ NoDuplicateQueued)
<1>1. IInv => DedupSpacing /\ NoDuplicateQueued
  BY DEF IInv
<1> QED
  BY <1>1, Invariance, PTL

(* An announcement equal to a queued one is never queued beside it.         *)
THEOREM NeverQueuedTwice == Spec => []NoDuplicateQueued
  BY DuplicatesSuppressed, PTL

-----------------------------------------------------------------------------
(* Only offer suppresses.                                                   *)
LEMMA SuppressionIsOffer ==
    ASSUME TypeOK, [Next]_vars, NEW a \in Ann,
           fate[a] = "built", fate'[a] = "duplicate"
    PROVE  OfferDuplicate(a)
<1>1. ASSUME NEW b \in Ann, Build(b) PROVE FALSE
  BY <1>1 DEF Build, TypeOK
<1>2. ASSUME NEW b \in Ann, OfferDuplicate(b) PROVE OfferDuplicate(a)
  BY <1>2 DEF OfferDuplicate, TypeOK
<1>3. ASSUME NEW b \in Ann, OfferAccept(b) PROVE FALSE
  BY <1>3 DEF OfferAccept, TypeOK
<1>4. ASSUME NEW b \in heap, TakeFresh(b) PROVE FALSE
  <2>1. PICK D \in SUBSET (heap \ {b}) :
           fate' = [Drop(fate, D, "stale") EXCEPT ![b] = "taken"]
    BY <1>4 DEF TakeFresh
  <2> QED
    BY <2>1 DEF Drop, TypeOK
<1>5. ASSUME TakeNothing \/ Clear PROVE FALSE
  BY <1>5 DEF TakeNothing, Clear, Drop
<1>6. ASSUME CallTake \/ Tick \/ UNCHANGED vars PROVE FALSE
  BY <1>6 DEF CallTake, Tick, vars
<1> QED
  BY <1>1, <1>2, <1>3, <1>4, <1>5, <1>6 DEF Next, Offer, Take

(* Nothing is suppressed without a cause still standing.                    *)
THEOREM SuppressionHasCause == Spec => SuppressedForCause
<1>1. ASSUME IInv, [Next]_vars, NEW a \in Ann,
             fate[a] = "built", fate'[a] = "duplicate"
      PROVE  \E b \in Ann \ {a} :
                /\ Accepted(b) /\ Key(b) = Key(a)
                /\ b \in heap \/ now - acceptedAt[b] < DedupWindow
  <2>1. OfferDuplicate(a)
    BY <1>1, SuppressionIsOffer DEF IInv
  <2>2. ~Accepted(a) /\ Key(a) \in Keys
    BY <1>1, RequestsAssumption DEF Accepted, IInv, TypeOK, Key
  <2>3. CASE AlreadyQueued(a)
    BY <1>1, <2>2, <2>3 DEF AlreadyQueued, IInv, History, Accepted
  <2>4. CASE JustAccepted(a)
    <3>1. /\ recent[Key(a)] # NoTime
          /\ now - recent[Key(a)] < DedupWindow
      BY <1>1, <2>2, <2>4, PurgeIsRecent DEF IInv, JustAccepted
    <3>2. PICK b \in Ann : /\ Accepted(b) /\ Key(b) = Key(a)
                           /\ acceptedAt[b] = recent[Key(a)]
      BY <1>1, <2>2, <3>1 DEF IInv, RecentSound
    <3> QED
      BY <2>2, <3>1, <3>2
  <2> QED
    BY <2>1, <2>3, <2>4 DEF OfferDuplicate
<1>2. IInv /\ [Next]_vars =>
         [\A a \in Ann :
             fate[a] = "built" /\ fate'[a] = "duplicate" =>
                \E b \in Ann \ {a} :
                   /\ Accepted(b) /\ Key(b) = Key(a)
                   /\ b \in heap \/ now - acceptedAt[b] < DedupWindow]_vars
  BY <1>1
<1> QED
  BY <1>2, Invariance, PTL DEF Spec, SuppressedForCause
-----------------------------------------------------------------------------
(* Only offer settles what was built and not yet offered.                   *)
LEMMA OfferedIsOffer ==
    ASSUME IInv, [Next]_vars, NEW a \in Ann, Offered(a)
    PROVE  Offer(a)
<1> USE DEF Offered
<1>1. a \notin heap
  BY DEF IInv, History
<1>2. ASSUME NEW b \in Ann, Build(b) PROVE FALSE
  BY <1>2 DEF Build, IInv, TypeOK
<1>3. ASSUME NEW b \in Ann, Offer(b) PROVE Offer(a)
  BY <1>3 DEF Offer, OfferDuplicate, OfferAccept, IInv, TypeOK
<1>4. ASSUME NEW b \in heap, TakeFresh(b) PROVE FALSE
  <2>1. PICK D \in SUBSET (heap \ {b}) :
           fate' = [Drop(fate, D, "stale") EXCEPT ![b] = "taken"]
    BY <1>4 DEF TakeFresh
  <2> QED
    BY <1>1, <2>1 DEF Drop, IInv, TypeOK
<1>5. ASSUME TakeNothing \/ Clear PROVE FALSE
  BY <1>1, <1>5 DEF TakeNothing, Clear, Drop
<1>6. ASSUME CallTake \/ Tick \/ UNCHANGED vars PROVE FALSE
  BY <1>6 DEF CallTake, Tick, vars
<1> QED
  BY <1>2, <1>3, <1>4, <1>5, <1>6 DEF Next, Take

(* Each offer leaves only keys accepted within the window.                  *)
THEOREM RecentNeverGrowsOld == Spec => RecentBounded
<1>1. ASSUME IInv, [Next]_vars, NEW a \in Ann, Offered(a),
             NEW k \in Keys, recent'[k] # NoTime
      PROVE  now - recent'[k] <= DedupWindow
  <2>1. Offer(a)
    BY <1>1, OfferedIsOffer
  <2>2. /\ now \in Int /\ DedupWindow \in Nat
        /\ recent[k] \in Int /\ Key(a) \in Keys
    BY <1>1, TimeAssumption, RequestsAssumption DEF IInv, TypeOK, Time, NoTime, Key
  <2>3. Purged[k] # NoTime => now - Purged[k] <= DedupWindow
    BY <1>1, <2>2 DEF Purged
  <2>4. recent' = Purged \/ recent' = [Purged EXCEPT ![Key(a)] = now]
    BY <2>1 DEF Offer, OfferDuplicate, OfferAccept
  <2>5. recent'[k] = Purged[k] \/ recent'[k] = now
    BY <1>1, <2>2, <2>4 DEF Purged
  <2> QED
    BY <1>1, <2>2, <2>3, <2>5
<1>2. IInv /\ [Next]_vars =>
         [(\E a \in Ann : Offered(a)) =>
             \A k \in Keys : recent'[k] # NoTime => now - recent'[k] <= DedupWindow]_vars
  BY <1>1
<1> QED
  BY <1>2, Invariance, PTL DEF Spec, RecentBounded

-----------------------------------------------------------------------------
(* Only a take hands an announcement out, and only a take drops for age.    *)
LEMMA LeavingIsTake ==
    ASSUME IInv, [Next]_vars, NEW a \in heap, fate'[a] \in {"stale", "taken"}
    PROVE  Take
<1>1. a \in Ann /\ fate[a] = "queued"
  BY DEF IInv, History
<1>2. ASSUME NEW b \in Ann, Build(b) \/ Offer(b) PROVE FALSE
  BY <1>1, <1>2 DEF Build, Offer, OfferDuplicate, OfferAccept, IInv, TypeOK
<1>3. ASSUME Clear PROVE FALSE
  BY <1>1, <1>3 DEF Clear, Drop
<1>4. ASSUME CallTake \/ Tick \/ UNCHANGED vars PROVE FALSE
  BY <1>1, <1>4 DEF CallTake, Tick, vars
<1> QED
  BY <1>2, <1>3, <1>4 DEF Next

Fresh(a) == MaxAge[Key(a)] = 0 \/ now - born[a] <= MaxAge[Key(a)]

(* The heap's comparator reads each announcement's own rank and birth.      *)
LEMMA Numbers ==
    ASSUME TypeOK, NEW a \in Ann
    PROVE  /\ Rank(a) \in Int /\ born[a] \in Int /\ now \in Int
           /\ MaxAge[Key(a)] \in Nat
           /\ Fresh(a) <=> ~IsStale(a)
<1>0. req[a] \in Requests /\ born[a] \in Time /\ now \in Time
  BY DEF TypeOK
<1>1. /\ Rank(a) \in Int /\ born[a] \in Int /\ now \in Int
      /\ MaxAge[Key(a)] \in Nat
  BY <1>0, RequestsAssumption, TimeAssumption DEF Rank, Key, Ranks, Time
<1> QED
  BY <1>1 DEF Fresh, IsStale

(* What a take hands out is fresh, and no fresh announcement comes before   *)
(* it; what it drops is stale.                                              *)
LEMMA TakeIsUrgent ==
    ASSUME IInv, Take, NEW a \in heap
    PROVE  /\ fate'[a] = "stale" => ~Fresh(a)
           /\ fate'[a] = "taken" =>
                /\ Fresh(a)
                /\ \A b \in heap : Fresh(b) =>
                      \/ Rank(a) < Rank(b)
                      \/ Rank(a) = Rank(b) /\ born[a] <= born[b]
<1> DEFINE Good == /\ fate'[a] = "stale" => ~Fresh(a)
                   /\ fate'[a] = "taken" =>
                        /\ Fresh(a)
                        /\ \A b \in heap : Fresh(b) =>
                              \/ Rank(a) < Rank(b)
                              \/ Rank(a) = Rank(b) /\ born[a] <= born[b]
<1>1. heap \subseteq Ann /\ \A b \in heap : fate[b] = "queued"
  BY DEF IInv, History
<1>2. \A b \in heap : /\ Rank(b) \in Int /\ born[b] \in Int
                      /\ Fresh(b) <=> ~IsStale(b)
  BY <1>1, Numbers DEF IInv
<1>3. ASSUME TakeNothing PROVE Good
  BY <1>1, <1>2, <1>3 DEF TakeNothing, Drop
<1>4. ASSUME NEW c \in heap, TakeFresh(c) PROVE Good
  <2>1. PICK D \in SUBSET (heap \ {c}) :
           /\ \A d \in D : IsStale(d)
           /\ IsHead(c, heap \ D)
           /\ fate' = [Drop(fate, D, "stale") EXCEPT ![c] = "taken"]
    BY <1>4 DEF TakeFresh
  <2>2. fate'[a] = IF a = c THEN "taken" ELSE IF a \in D THEN "stale" ELSE "queued"
    BY <1>1, <2>1 DEF Drop
  <2>3. CASE a = c
    <3>1. Fresh(a)
      BY <1>2, <1>4, <2>3 DEF TakeFresh
    <3>2. ASSUME NEW b \in heap, Fresh(b)
          PROVE  \/ Rank(a) < Rank(b)
                 \/ Rank(a) = Rank(b) /\ born[a] <= born[b]
      <4>1. b \in heap \ D
        BY <1>2, <2>1, <3>2
      <4>2. ~Before(b, a)
        BY <2>1, <2>3, <4>1 DEF IsHead
      <4> QED
        BY <1>2, <4>2 DEF Before
    <3> QED
      BY <2>2, <2>3, <3>1, <3>2
  <2>4. CASE a # c
    BY <1>2, <2>1, <2>2, <2>4
  <2> QED
    BY <2>3, <2>4
<1> QED
  BY <1>3, <1>4 DEF Take

(* The worker is handed the most urgent fresh announcement, then the        *)
(* oldest, and only what is too old is dropped on the way.                  *)
THEOREM UrgentAreTakenFirst == Spec => UrgentFirst
<1> DEFINE Ordered ==
      LET fresh == {a \in heap : MaxAge[Key(a)] = 0 \/ now - born[a] <= MaxAge[Key(a)]}
      IN  \A a \in heap :
             /\ fate'[a] = "stale" => a \notin fresh
             /\ fate'[a] = "taken" =>
                  /\ a \in fresh
                  /\ \A b \in fresh :
                        \/ Rank(a) < Rank(b)
                        \/ Rank(a) = Rank(b) /\ born[a] <= born[b]
<1>1. ASSUME IInv, [Next]_vars PROVE Ordered
  <2> SUFFICES ASSUME NEW a \in heap, fate'[a] \in {"stale", "taken"}
               PROVE  /\ fate'[a] = "stale" => ~Fresh(a)
                      /\ fate'[a] = "taken" =>
                           /\ Fresh(a)
                           /\ \A b \in heap : Fresh(b) =>
                                 \/ Rank(a) < Rank(b)
                                 \/ Rank(a) = Rank(b) /\ born[a] <= born[b]
    BY DEF Fresh
  <2> QED
    BY <1>1, LeavingIsTake, TakeIsUrgent
<1>2. IInv /\ [Next]_vars => [Ordered]_vars
  BY <1>1
<1> QED
  BY <1>2, Invariance, PTL DEF Spec, UrgentFirst
=============================================================================
