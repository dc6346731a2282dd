-------------------------- MODULE AnnouncementQueue --------------------------
(***************************************************************************)
(* The queue of the Android service (core/AnnouncementQueue.java): a heap   *)
(* ordered by (priority rank, enqueuedAt) under one lock, with duplicate    *)
(* suppression when an announcement is offered and staleness when the       *)
(* worker takes one.                                                        *)
(*                                                                          *)
(* HTTP threads build announcements (which stamps enqueuedAt) and offer     *)
(* them, one worker thread takes them, and a stop request may clear the     *)
(* queue.  Every method holds the lock from its first to its last line,     *)
(* except for takeNextFresh, which gives it up in notEmpty.await(): so each *)
(* method is one step and takeNextFresh is two, up to the await and after   *)
(* the signal.  The construction of an announcement is a step of its own,   *)
(* because enqueuedAt is stamped before the lock is requested.              *)
(***************************************************************************)
EXTENDS Integers, Sequences

CONSTANTS
    Ann,            \* the announcements clients send, one identity per request
    Keys,           \* dedupe keys: category and payload (text or url)
    Requests,       \* what a client may ask for: records with key and rank
    MaxAge,         \* MaxAge[k]: the staleness rule of k's category, 0 = never
    DedupWindow,    \* DEDUP_WINDOW_MS
    MaxTime         \* bound on the clock

Ranks == 0..3       \* EMERGENCY, HIGH, NORMAL, LOW

NoTime == -1        \* a key recentlyAccepted holds no entry for

ASSUME RequestsAssumption ==
    \A r \in Requests : r.key \in Keys /\ r.rank \in Ranks

ASSUME TimeAssumption ==
    /\ MaxAge \in [Keys -> Nat]
    /\ DedupWindow \in Nat \ {0}
    /\ MaxTime \in Nat

VARIABLES
    now,            \* System.currentTimeMillis(), in units of the model
    req,            \* req[a]: the request a is built from
    born,           \* born[a]: enqueuedAt, once a is built
    heap,           \* the announcements in the heap
    recent,         \* recentlyAccepted: the last acceptance of each key
    worker,         \* where the worker thread is (WorkerStates)
    fate,           \* history: what became of each announcement (Fates)
    acceptedAt,     \* history: the time offer accepted an announcement
    accepted        \* history: the accepted announcements, in that order

vars == <<now, req, born, heap, recent, worker, fate, acceptedAt, accepted>>

\* away: outside takeNextFresh; taking: in it, contending for the lock;
\* waiting: in notEmpty.await()
WorkerStates == {"away", "taking", "waiting"}

Fates == {"new", "built", "duplicate", "queued", "taken", "stale", "cleared"}

Time == 0..MaxTime

Key(a) == req[a].key
Rank(a) == req[a].rank

TypeOK ==
    /\ now \in Time
    /\ req \in [Ann -> Requests]
    /\ born \in [Ann -> Time]
    /\ heap \subseteq Ann
    /\ recent \in [Keys -> Time \union {NoTime}]
    /\ worker \in WorkerStates
    /\ fate \in [Ann -> Fates]
    /\ acceptedAt \in [Ann -> Time]
    /\ accepted \in Seq(Ann)

Init ==
    /\ now = 0
    /\ req \in [Ann -> Requests]
    /\ born = [a \in Ann |-> 0]
    /\ heap = {}
    /\ recent = [k \in Keys |-> NoTime]
    /\ worker = "away"
    /\ fate = [a \in Ann |-> "new"]
    /\ acceptedAt = [a \in Ann |-> 0]
    /\ accepted = <<>>

-----------------------------------------------------------------------------
(* The definitions named Mutant... are deliberately wrong forms of the      *)
(* definition after them; no action uses them.  Each one is a slip the code *)
(* could contain, and a property of this module excludes it.                *)

(* The tie-break of the comparator forgotten.                               *)
MutantRankOnly(a, b) == Rank(a) < Rank(b)

(* The comparator of the heap.  Two announcements of one rank built in the  *)
(* same millisecond compare equal, and java.util.PriorityQueue polls equal  *)
(* elements in an order it does not define.                                 *)
Before(a, b) ==
    \/ Rank(a) < Rank(b)
    \/ Rank(a) = Rank(b) /\ born[a] < born[b]

(* poll() on the heap S may return a.                                       *)
IsHead(a, S) == a \in S /\ \A b \in S : ~Before(b, a)

IsStale(a) == MaxAge[Key(a)] > 0 /\ now - born[a] > MaxAge[Key(a)]

(* Entries aged by a window instead of removed.                             *)
MutantPurgeShifts ==
    [k \in Keys |-> IF recent[k] # NoTime /\ now - recent[k] > DedupWindow
                    THEN recent[k] - DedupWindow ELSE recent[k]]

(* purgeStaleRecentKeys                                                     *)
Purged ==
    [k \in Keys |-> IF recent[k] # NoTime /\ now - recent[k] > DedupWindow
                    THEN NoTime ELSE recent[k]]

(* Only a duplicate of the same priority counts.                            *)
MutantSameRankQueued(a) == \E b \in heap : Key(b) = Key(a) /\ Rank(b) = Rank(a)

AlreadyQueued(a) == \E b \in heap : Key(b) = Key(a)

(* The window closed instead of half-open.                                  *)
MutantWindowClosed(a) ==
    LET last == Purged[Key(a)]
    IN  last # NoTime /\ now - last <= DedupWindow

JustAccepted(a) ==
    LET last == Purged[Key(a)]
    IN  last # NoTime /\ now - last < DedupWindow

-----------------------------------------------------------------------------
Build(a) ==
    /\ fate[a] = "new"
    /\ fate' = [fate EXCEPT ![a] = "built"]
    /\ born' = [born EXCEPT ![a] = now]
    /\ UNCHANGED <<now, req, heap, recent, worker, acceptedAt, accepted>>

(* The duplicate checks made before the purge.                              *)
MutantReturnBeforePurge(a) ==
    /\ fate[a] = "built"
    /\ AlreadyQueued(a) \/ JustAccepted(a)
    /\ fate' = [fate EXCEPT ![a] = "duplicate"]
    /\ UNCHANGED <<now, req, born, heap, recent, worker, acceptedAt, accepted>>

(* offer returns null: the purge has happened all the same.                 *)
OfferDuplicate(a) ==
    /\ fate[a] = "built"
    /\ AlreadyQueued(a) \/ JustAccepted(a)
    /\ recent' = Purged
    /\ fate' = [fate EXCEPT ![a] = "duplicate"]
    /\ UNCHANGED <<now, req, born, heap, worker, acceptedAt, accepted>>

(* The worker not signalled.                                                *)
MutantNoSignal(a) ==
    /\ fate[a] = "built"
    /\ ~AlreadyQueued(a) /\ ~JustAccepted(a)
    /\ recent' = [Purged EXCEPT ![Key(a)] = now]
    /\ heap' = heap \union {a}
    /\ fate' = [fate EXCEPT ![a] = "queued"]
    /\ acceptedAt' = [acceptedAt EXCEPT ![a] = now]
    /\ accepted' = Append(accepted, a)
    /\ UNCHANGED <<now, req, born, worker>>

OfferAccept(a) ==
    /\ fate[a] = "built"
    /\ ~AlreadyQueued(a) /\ ~JustAccepted(a)
    /\ recent' = [Purged EXCEPT ![Key(a)] = now]
    /\ heap' = heap \union {a}
    /\ worker' = IF worker = "waiting" THEN "taking" ELSE worker  \* signalAll
    /\ fate' = [fate EXCEPT ![a] = "queued"]
    /\ acceptedAt' = [acceptedAt EXCEPT ![a] = now]
    /\ accepted' = Append(accepted, a)
    /\ UNCHANGED <<now, req, born>>

Offer(a) == OfferDuplicate(a) \/ OfferAccept(a)

(* The worker comes back for the next announcement.                         *)
CallTake ==
    /\ worker = "away"
    /\ worker' = "taking"
    /\ UNCHANGED <<now, req, born, heap, recent, fate, acceptedAt, accepted>>

Drop(f, S, what) == [a \in Ann |-> IF a \in S THEN what ELSE f[a]]

(* takeNextFresh polls the stale announcements D that come before a, or tie *)
(* with it, and returns a.                                                  *)
TakeFresh(a) ==
    /\ worker = "taking"
    /\ ~IsStale(a)
    /\ \E D \in SUBSET (heap \ {a}) :
          /\ \A d \in D : IsStale(d) /\ ~Before(a, d)
          /\ IsHead(a, heap \ D)
          /\ heap' = heap \ (D \union {a})
          /\ fate' = [Drop(fate, D, "stale") EXCEPT ![a] = "taken"]
    /\ worker' = "away"
    /\ UNCHANGED <<now, req, born, recent, acceptedAt, accepted>>

(* takeNextFresh finds nothing fresh: it has emptied the heap and awaits.   *)
TakeNothing ==
    /\ worker = "taking"
    /\ \A a \in heap : IsStale(a)
    /\ heap' = {}
    /\ fate' = Drop(fate, heap, "stale")
    /\ worker' = "waiting"
    /\ UNCHANGED <<now, req, born, recent, acceptedAt, accepted>>

Take == TakeNothing \/ \E a \in heap : TakeFresh(a)

(* The recent keys cleared together with the heap.                          *)
MutantClearRecent ==
    /\ heap # {}
    /\ heap' = {}
    /\ recent' = [k \in Keys |-> NoTime]
    /\ fate' = Drop(fate, heap, "cleared")
    /\ UNCHANGED <<now, req, born, worker, acceptedAt, accepted>>

(* clear() forgets what is queued but not what was recently accepted.       *)
Clear ==
    /\ heap # {}
    /\ heap' = {}
    /\ fate' = Drop(fate, heap, "cleared")
    /\ UNCHANGED <<now, req, born, recent, worker, acceptedAt, accepted>>

Tick ==
    /\ now < MaxTime
    /\ now' = now + 1
    /\ UNCHANGED <<req, born, heap, recent, worker, fate, acceptedAt, accepted>>

Next ==
    \/ \E a \in Ann : Build(a) \/ Offer(a)
    \/ CallTake
    \/ Take
    \/ Clear
    \/ Tick

Spec == Init /\ [][Next]_vars

(* The worker loop comes back to the queue and, once it holds the lock,     *)
(* runs; a handler that built an announcement offers it.  Nothing makes     *)
(* clients send, stop requests arrive, or the model's clock advance.        *)
FairSpec ==
    /\ Spec
    /\ WF_vars(CallTake)
    /\ WF_vars(Take)
    /\ \A a \in Ann : WF_vars(Offer(a))

-----------------------------------------------------------------------------
Accepted(a) == fate[a] \in {"queued", "taken", "stale", "cleared"}

Offered(a) == fate[a] = "built" /\ fate'[a] # "built"

(* No announcement is accepted twice within the window: two acceptances of  *)
(* one dedupe key are at least DedupWindow apart, whether the first one is  *)
(* still queued, playing, finished, dropped as stale or cleared.            *)
DedupSpacing ==
    \A a, b \in Ann :
        a # b /\ Accepted(a) /\ Accepted(b) /\ Key(a) = Key(b)
            => \/ acceptedAt[a] - acceptedAt[b] >= DedupWindow
               \/ acceptedAt[b] - acceptedAt[a] >= DedupWindow

(* However long an announcement stays queued, a second one with its key is  *)
(* never queued beside it, the window being long over.                      *)
NoDuplicateQueued ==
    \A a, b \in heap : a # b => Key(a) # Key(b)

(* offer suppresses an announcement only because of another one with the    *)
(* same key that is still queued or was accepted within the window: what    *)
(* the purge and the map of recent keys remember is never out of date.      *)
SuppressedForCause ==
    [][\A a \in Ann :
          fate[a] = "built" /\ fate'[a] = "duplicate" =>
             \E b \in Ann \ {a} :
                /\ Accepted(b) /\ Key(b) = Key(a)
                /\ b \in heap \/ now - acceptedAt[b] < DedupWindow]_vars

(* recentlyAccepted does not grow with the history of the service: every    *)
(* offer, suppressed or not, leaves in it only keys accepted at most a      *)
(* window ago.                                                              *)
RecentBounded ==
    [][(\E a \in Ann : Offered(a)) =>
          \A k \in Keys : recent'[k] # NoTime => now - recent'[k] <= DedupWindow]_vars

(* The worker is handed an announcement that is still within its category's *)
(* age, and of all those in the heap that are, the most urgent and then the *)
(* oldest; what a take drops on its way is beyond its age.  Dropping stale  *)
(* heads never lets a later announcement overtake, and a clear or an offer  *)
(* drops nothing for its age.                                               *)
UrgentFirst ==
    [][LET fresh == {a \in heap : MaxAge[Key(a)] = 0 \/ now - born[a] <= MaxAge[Key(a)]}
       IN  \A a \in heap :
             /\ fate'[a] = "stale" => a \notin fresh
             /\ fate'[a] = "taken" =>
                  /\ a \in fresh
                  /\ \A b \in fresh :
                        \/ Rank(a) < Rank(b)
                        \/ Rank(a) = Rank(b) /\ born[a] <= born[b]]_vars

(* Every accepted announcement leaves the queue: no signal is lost between  *)
(* an offer and a worker that is about to wait, also when a clear empties   *)
(* the heap under a worker already signalled.                               *)
EventuallyLeaves ==
    \A a \in Ann : fate[a] = "queued" ~> fate[a] # "queued"
=============================================================================
