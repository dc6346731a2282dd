------------------------ MODULE EngineRegistryProofs ------------------------
(***************************************************************************)
(* Proofs about EngineRegistry, for any names, any trimming and chains of   *)
(* any length.                                                              *)
(*                                                                          *)
(* EnginesSaved is not inductive: load() refuses an entry by the trimmed    *)
(* form of its name, so a blob with an untrimmed one would come back        *)
(* without it.  None is ever written (Trimmed), because upsert trims what   *)
(* it stores: that holds of the memory, the preferences and the file.       *)
(***************************************************************************)
EXTENDS EngineRegistry, OrderedSetsProofs

(* Only trimmed names are registered.                                       *)
OnlyTrimmed(table) == \A n \in Names : table[n] # NoConfig => Trim[n] = n

Trimmed == /\ OnlyTrimmed(engines)
           /\ OnlyTrimmed(prefs.engines)
           /\ OnlyTrimmed(disk.engines)

IInv == TypeOK /\ Trimmed /\ EnginesSaved
-----------------------------------------------------------------------------
(* A bounded sequence is a sequence that is not too long.                   *)
LEMMA Bounded ==
  ASSUME NEW K, NEW b \in Nat, NEW s
  PROVE  s \in BoundedSeq(K, b) <=> s \in Seq(K) /\ Len(s) <= b
<1>1. ASSUME s \in BoundedSeq(K, b)
      PROVE  s \in Seq(K) /\ Len(s) <= b
  <2>1. PICK m \in 0 .. b : s \in [1 .. m -> K]
    BY <1>1 DEF BoundedSeq, SeqOf
  <2> QED
    BY <2>1
<1>2. ASSUME s \in Seq(K), Len(s) <= b
      PROVE  s \in BoundedSeq(K, b)
  <2>1. Len(s) \in 0 .. b /\ s \in [1 .. Len(s) -> K]
    BY <1>2
  <2> QED
    BY <2>1 DEF BoundedSeq, SeqOf
<1> QED
  BY <1>1, <1>2

(* Taking an element out leaves a sequence no longer than before.           *)
LEMMA RemoveFirstType ==
  ASSUME NEW K, NEW s \in Seq(K), NEW e
  PROVE  RemoveFirst(s, e) \in Seq(K) /\ Len(RemoveFirst(s, e)) <= Len(s)
<1> DEFINE I == {i \in 1 .. Len(s) : s[i] = e}
<1>1. CASE I = {}
  BY <1>1 DEF RemoveFirst
<1>2. CASE I # {}
  <2> DEFINE p == CHOOSE i \in I : \A j \in I : i <= j
  <2>1. I \subseteq Nat
    OBVIOUS
  <2>2. p \in I
    <3> HIDE DEF I
    <3>1. \E i \in I : \A j \in I : i <= j
      BY <1>2, <2>1, LeastElement
    <3> QED
      BY <3>1
  <2>3. p \in 1 .. Len(s)
    BY <2>2
  <2>4. RemoveFirst(s, e) = SubSeq(s, 1, p - 1) \o SubSeq(s, p + 1, Len(s))
    BY <1>2 DEF RemoveFirst, RemoveAt, SelectInSeq, Min
  <2> DEFINE a == SubSeq(s, 1, p - 1)
             z == SubSeq(s, p + 1, Len(s))
  <2> HIDE DEF p
  <2>5. a \in Seq(K) /\ Len(a) = p - 1 /\ z \in Seq(K) /\ Len(z) = Len(s) - p
    BY <2>3
  <2> HIDE DEF a, z
  <2>6. a \o z \in Seq(K) /\ Len(a \o z) = Len(a) + Len(z)
    BY <2>5
  <2>7. Len(a \o z) <= Len(s)
    BY <2>3, <2>5, <2>6
  <2> QED
    BY <2>4, <2>6, <2>7 DEF a, z
<1> QED
  BY <1>1, <1>2
-----------------------------------------------------------------------------
LEMMA TypePreserved ==
  ASSUME TypeOK, Next
  PROVE  TypeOK'
<1> USE NamesAssumption DEF TypeOK, Tables, Blobs
<1>1. ASSUME NEW n \in Names, NEW c \in Configs, upsert(n, c)
      PROVE  TypeOK'
  BY <1>1 DEF upsert, save
<1>2. ASSUME NEW n \in Names, remove(n)
      PROVE  TypeOK'
  <2>1. defaultChain \in Seq(Names) /\ Len(defaultChain) <= MaxChain
    BY Bounded DEF Chains
  <2>2. /\ RemoveFirst(defaultChain, n) \in Seq(Names)
        /\ Len(RemoveFirst(defaultChain, n)) <= Len(defaultChain)
    BY <2>1, RemoveFirstType
  <2>3. RemoveFirst(defaultChain, n) \in Chains
    <3> DEFINE s == RemoveFirst(defaultChain, n)
    <3>1. s \in Seq(Names) /\ Len(s) <= MaxChain
      <4>1. Len(s) \in Nat /\ Len(defaultChain) \in Nat
        BY <2>1, <2>2
      <4> HIDE DEF s
      <4>2. Len(s) <= Len(defaultChain) => Len(s) <= MaxChain
        BY <4>1, <2>1
      <4> QED
        BY <2>2, <4>2 DEF s
    <3> HIDE DEF s
    <3>2. s \in Chains
      BY <3>1, Bounded DEF Chains
    <3> QED
      BY <3>2 DEF s
  <2>4. defaultChain' \in Chains /\ engines' \in Tables
    BY <1>2, <2>3 DEF remove
  <2> QED
    BY <1>2, <2>4 DEF remove, save
<1>3. ASSUME NEW ids \in Chains, setDefaultChain(ids)
      PROVE  TypeOK'
  BY <1>3 DEF setDefaultChain, save
<1>4. CASE Flush
  BY <1>4 DEF Flush
<1>5. CASE Restart
  <2>1. engines' \in Tables /\ defaultChain' \in Chains
    BY <1>5 DEF Restart, load
  <2> QED
    BY <1>5, <2>1 DEF Restart
<1> QED
  BY <1>1, <1>2, <1>3, <1>4, <1>5 DEF Next

LEMMA TrimmedPreserved ==
  ASSUME TypeOK, Trimmed, Next
  PROVE  Trimmed'
<1> USE NamesAssumption DEF TypeOK, Tables, Blobs, Trimmed, OnlyTrimmed
<1>1. ASSUME NEW n \in Names, NEW c \in Configs, upsert(n, c)
      PROVE  Trimmed'
  BY <1>1 DEF upsert, save
<1>2. ASSUME NEW n \in Names, remove(n)
      PROVE  Trimmed'
  BY <1>2 DEF remove, save
<1>3. ASSUME NEW ids \in Chains, setDefaultChain(ids)
      PROVE  Trimmed'
  BY <1>3 DEF setDefaultChain, save
<1>4. CASE Flush
  BY <1>4 DEF Flush
<1>5. CASE Restart
  BY <1>5 DEF Restart, load
<1> QED
  BY <1>1, <1>2, <1>3, <1>4, <1>5 DEF Next

LEMMA SavedPreserved ==
  ASSUME TypeOK, Trimmed, EnginesSaved, Next
  PROVE  EnginesSaved'
<1> USE NamesAssumption DEF TypeOK, Tables, Blobs, EnginesSaved
<1>1. ASSUME NEW n \in Names, NEW c \in Configs, upsert(n, c)
      PROVE  EnginesSaved'
  BY <1>1 DEF upsert, save
<1>2. ASSUME NEW n \in Names, remove(n)
      PROVE  EnginesSaved'
  BY <1>2 DEF remove, save, Registered
<1>3. ASSUME NEW ids \in Chains, setDefaultChain(ids)
      PROVE  EnginesSaved'
  BY <1>3 DEF setDefaultChain, save
<1>4. CASE Flush
  BY <1>4 DEF Flush
<1>5. CASE Restart
  <2>1. ASSUME NEW n \in Names \ Reserved, Refused(n)
        PROVE  disk.engines[n] = NoConfig
    <3>1. Trim[n] # n
      BY <2>1 DEF Refused
    <3> QED
      BY <3>1 DEF Trimmed, OnlyTrimmed
  <2> QED
    BY <1>5, <2>1 DEF Restart, load
<1> QED
  BY <1>1, <1>2, <1>3, <1>4, <1>5 DEF Next

(* The inductive invariant.                                                 *)
THEOREM Invariance == Spec => []IInv
<1>1. Init => IInv
  <2> SUFFICES ASSUME Init PROVE IInv
    OBVIOUS
  <2> USE NamesAssumption DEF Init, Empty
  <2>1. <<>> \in Chains
    <3>1. <<>> \in Seq(Names) /\ Len(<<>>) <= MaxChain
      OBVIOUS
    <3> QED
      BY <3>1, Bounded DEF Chains
  <2>2. TypeOK
    BY <2>1 DEF TypeOK, Tables, Blobs
  <2>3. Trimmed /\ EnginesSaved
    BY DEF Trimmed, OnlyTrimmed, EnginesSaved
  <2> QED
    BY <2>2, <2>3 DEF IInv
<1>2. IInv /\ [Next]_vars => IInv'
  <2>1. ASSUME IInv, Next PROVE IInv'
    BY <2>1, TypePreserved, TrimmedPreserved, SavedPreserved DEF IInv
  <2>2. ASSUME IInv, UNCHANGED vars PROVE IInv'
    BY <2>2 DEF IInv, TypeOK, Trimmed, EnginesSaved, vars
  <2> QED
    BY <2>1, <2>2
<1> QED
  BY <1>1, <1>2, PTL DEF Spec

(* Every variable keeps its type; no default chain outgrows its bound.      *)
THEOREM Typing == Spec => []TypeOK
<1>1. IInv => TypeOK
  BY DEF IInv
<1> QED
  BY <1>1, Invariance, PTL

(* What the HTTP routes registered or removed was handed to the             *)
(* preferences, and a restart agrees with the blob it read.                 *)
THEOREM RegistrationsAreSaved == Spec => []EnginesSaved
<1>1. IInv => EnginesSaved
  BY DEF IInv
<1> QED
  BY <1>1, Invariance, PTL
-----------------------------------------------------------------------------
(* What a chain that begins with the sequence own is resolved to.           *)
LEMMA Resolved ==
  ASSUME TypeOK, NEW own \in Seq(Names)
  PROVE  /\ resolveChain(own) \in Seq(Names)
         /\ Device \in ToSet(resolveChain(own))
         /\ ToSet(resolveChain(own)) \subseteq Known
         /\ IsInjective(resolveChain(own))
         /\ own # <<>> /\ Trim[own[1]] \in Known => resolveChain(own)[1] = Trim[own[1]]
<1> USE NamesAssumption
<1> DEFINE mine == [i \in DOMAIN own |-> Trim[own[i]]]
           rest == defaultChain \o <<Device>>
           all == mine \o defaultChain \o <<Device>>
           order == FirstOccurrences(all)
<1>1. mine \in Seq(Names) /\ Len(mine) = Len(own)
  OBVIOUS
<1>2. defaultChain \in Seq(Names) /\ Device \in Names
  BY Bounded DEF TypeOK, Chains
<1> HIDE DEF mine
<1>3. all \in Seq(Names) /\ Device \in ToSet(all)
  <2>1. mine \o defaultChain \in Seq(Names)
    BY <1>1, <1>2
  <2> DEFINE begin == mine \o defaultChain
  <2> HIDE DEF begin
  <2>2. begin \in Seq(Names) => /\ begin \o <<Device>> \in Seq(Names)
                                /\ Len(begin \o <<Device>>) = Len(begin) + 1
                                /\ (begin \o <<Device>>)[Len(begin) + 1] = Device
    BY <1>2
  <2>3. begin \in Seq(Names) => Device \in ToSet(begin \o <<Device>>)
    BY <2>2 DEF ToSet
  <2> QED
    BY <2>1, <2>2, <2>3 DEF begin
<1>4. own # <<>> => all # <<>> /\ all[1] = Trim[own[1]]
  <2> SUFFICES ASSUME own # <<>> PROVE all # <<>> /\ all[1] = Trim[own[1]]
    OBVIOUS
  <2>1. Len(mine) > 0 /\ mine[1] = Trim[own[1]]
    BY <1>1 DEF mine
  <2>2. /\ Len(mine \o defaultChain) > 0 /\ (mine \o defaultChain)[1] = mine[1]
        /\ mine \o defaultChain \in Seq(Names)
    BY <2>1, <1>1, <1>2
  <2> DEFINE begin == mine \o defaultChain
  <2> HIDE DEF begin
  <2>3. begin \in Seq(Names) /\ Len(begin) > 0
            => begin \o <<Device>> # <<>> /\ (begin \o <<Device>>)[1] = begin[1]
    BY <1>2
  <2> QED
    BY <2>1, <2>2, <2>3 DEF begin
<1> HIDE DEF all
<1>5. /\ order \in Seq(Names) /\ ToSet(order) = ToSet(all) /\ IsInjective(order)
      /\ all # <<>> => order[1] = all[1]
  BY <1>3, FirstOccurrencesKeeps
<1>6. all # <<>> => order # <<>>
  <2>1. all # <<>> => all[1] \in ToSet(all)
    BY <1>3 DEF ToSet
  <2>2. order = <<>> => ToSet(order) = {}
    BY DEF ToSet
  <2> QED
    BY <2>1, <2>2, <1>5
<1>7. resolveChain(own) = Only(order, Known)
  BY DEF resolveChain, all, mine
<1> HIDE DEF order
<1>8. /\ Only(order, Known) \in Seq(Names)
      /\ ToSet(Only(order, Known)) = ToSet(order) \cap Known
      /\ IsInjective(Only(order, Known))
      /\ order # <<>> /\ order[1] \in Known => Only(order, Known)[1] = order[1]
  BY <1>5, OnlyKeeps
<1>9. Device \in Known
  BY DEF Known
<1> QED
  BY <1>3, <1>4, <1>5, <1>6, <1>7, <1>8, <1>9

(* Whatever was registered, removed or lost in a restart, every request's   *)
(* chain has the device in it, no engine twice, none that is unknown, and   *)
(* begins with the request's own engine if that is known.                   *)
THEOREM ChainsStayUsable == Spec => []ChainsUsable
<1>1. TypeOK => ChainsUsable
  <2> SUFFICES ASSUME TypeOK, NEW own \in Requests
               PROVE  LET chain == resolveChain(own)
                      IN  /\ Contains(chain, Device)
                          /\ IsInjective(chain)
                          /\ ToSet(chain) \subseteq Known
                          /\ own # <<>> /\ Trim[own[1]] \in Known => chain[1] = Trim[own[1]]
    BY DEF ChainsUsable
  <2>1. own \in Seq(Names)
    <3>1. CASE own = <<>>
      BY <3>1
    <3>2. ASSUME NEW n \in Names, own = <<n>>
          PROVE  own \in Seq(Names)
      BY <3>2
    <3> QED
      BY <3>1, <3>2 DEF Requests
  <2>2. resolveChain(own) \in Seq(Names) /\ Device \in ToSet(resolveChain(own))
    BY <2>1, Resolved
  <2>3. Contains(resolveChain(own), Device)
    BY <2>2 DEF Contains, ToSet
  <2> QED
    BY <2>1, <2>3, Resolved
<1> QED
  BY <1>1, Typing, PTL
=============================================================================
