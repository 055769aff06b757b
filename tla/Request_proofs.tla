---------------------------- MODULE Request_proofs ----------------------------
(***************************************************************************)
(* Proofs about a request on its way: the filter factories it leases       *)
(* (FilterManager), the answers it gets through pooled contexts and the    *)
(* MCP filter (HttpRequest), and the circuit breaker and the token cache   *)
(* of the key-value cache filter (KvCache).                                *)
(***************************************************************************)
EXTENDS FilterManager, HttpRequest, KvCache, FiniteSetTheorems, TLAPS

-----------------------------------------------------------------------------
(***************************************************************************)
(* Filter factories, for any number of requests, reloads and filters       *)
(***************************************************************************)
Types ==
    /\ created \in 0 .. MaxFactories
    /\ filtersArray \in SUBSET (1 .. created)
    /\ retired \in SUBSET (1 .. created)
    /\ factoryRefs \in [Factory -> Int]
    /\ closes \in [Factory -> {0, 1}]
    /\ lease \in [Request -> {Nothing} \cup SUBSET Factory]
    /\ reload \in [Reloader -> {Nothing} \cup [built : SUBSET (1 .. created), todo : Nat, strict : BOOLEAN]]
    /\ ready \in [Thread -> SUBSET (1 .. created)]

\* The requests that lease a factory, and what a reloader has built.
Leasing(f) == {r \in Request : lease[r] # Nothing /\ f \in lease[r]}
Building(t) == IF reload[t] = Nothing THEN {} ELSE reload[t].built

RefsAreLeases == \A f \in Factory : factoryRefs[f] = Cardinality(Leasing(f))

\* A factory is in one place at a time: in use, retired, being built, waiting to be
\* closed, or closed.
OnePlace ==
    /\ filtersArray \cap retired = {}
    /\ \A t \in Reloader : Building(t) \cap (filtersArray \cup retired) = {}
    /\ \A t, u \in Reloader : t # u => Building(t) \cap Building(u) = {}
    /\ \A t \in Thread : ready[t] \cap (filtersArray \cup retired) = {}
    /\ \A t \in Thread : \A u \in Reloader : ready[t] \cap Building(u) = {}
    /\ \A t, u \in Thread : t # u => ready[t] \cap ready[u] = {}
    /\ \A f \in Factory : closes[f] = 1 =>
          /\ f \in 1 .. created /\ f \notin filtersArray /\ f \notin retired
          /\ \A t \in Reloader : f \notin Building(t)
          /\ \A t \in Thread : f \notin ready[t]

\* None is nowhere.
SomePlace ==
    \A f \in 1 .. created :
        \/ f \in filtersArray \/ f \in retired \/ closes[f] = 1
        \/ \E t \in Reloader : f \in Building(t)
        \/ \E t \in Thread : f \in ready[t]

\* A leased factory is in use or retired; a retired one is leased.
LeasesKeep ==
    \A f \in Factory : /\ Leasing(f) # {} => f \in filtersArray \cup retired
                       /\ f \in retired => Leasing(f) # {}

IInv == Types /\ RefsAreLeases /\ OnePlace /\ SomePlace /\ LeasesKeep /\ (closed => filtersArray = {})

LEMMA InitIInv == Constants /\ Init => IInv
<1> SUFFICES ASSUME Constants, Init PROVE IInv
    OBVIOUS
<1> USE DEF Init, Constants
<1>1. Types
    BY DEF Types, Factory
<1>2. \A f : Leasing(f) = {}
    BY DEF Leasing
<1>3. RefsAreLeases
    BY <1>2, FS_EmptySet DEF RefsAreLeases
<1>4. OnePlace /\ SomePlace
    BY DEF OnePlace, SomePlace, Building, Factory
<1>5. LeasesKeep
    BY <1>2 DEF LeasesKeep
<1> QED BY <1>1, <1>3, <1>4, <1>5 DEF IInv

\* The references of a factory, and whether there are any.
LEMMA Refs ==
    ASSUME Constants, IInv, NEW f \in Factory
    PROVE  /\ IsFiniteSet(Leasing(f)) /\ Cardinality(Leasing(f)) \in Nat
           /\ factoryRefs[f] = Cardinality(Leasing(f))
           /\ factoryRefs[f] = 0 <=> Leasing(f) = {}
<1>1. IsFiniteSet(Leasing(f))
    BY FS_Subset DEF Leasing, Constants
<1> QED BY <1>1, FS_CardinalityType, FS_EmptySet DEF IInv, RefsAreLeases

\* What is in 1 .. created is a factory.
LEMMA CreatedIsFactory ==
    ASSUME Constants, Types
    PROVE  created \in Nat /\ 1 .. created \subseteq Factory
BY DEF Constants, Types, Factory

-----------------------------------------------------------------------------
LEMMA newLeasedFilterChainStep ==
    ASSUME Constants, IInv, NEW r \in Request, newLeasedFilterChain(r)
    PROVE  IInv'
<1> USE DEF IInv, newLeasedFilterChain
<1>1. filtersArray \in SUBSET Factory /\ filtersArray # Nothing
    BY CreatedIsFactory DEF Types, Constants
<1>2. \A f : Leasing(f)' = IF f \in filtersArray THEN Leasing(f) \cup {r} ELSE Leasing(f)
    BY <1>1 DEF Leasing, Types
<1>3. \A f : r \notin Leasing(f)
    BY DEF Leasing
<1>4. Types'
  <2>1. factoryRefs' \in [Factory -> Int]
      BY DEF Types
  <2> QED BY <2>1, <1>1 DEF Types
<1>5. RefsAreLeases'
  <2> SUFFICES ASSUME NEW f \in Factory PROVE factoryRefs'[f] = Cardinality(Leasing(f)')
      BY DEF RefsAreLeases
  <2>1. IsFiniteSet(Leasing(f)) /\ Cardinality(Leasing(f)) \in Nat /\ factoryRefs[f] = Cardinality(Leasing(f))
      BY Refs
  <2>2. Cardinality(Leasing(f) \cup {r}) = Cardinality(Leasing(f)) + 1
      BY <2>1, <1>3, FS_AddElement
  <2>3. factoryRefs'[f] = factoryRefs[f] + (IF f \in filtersArray THEN 1 ELSE 0)
      OBVIOUS
  <2>4. CASE f \in filtersArray
    <3>1. Leasing(f)' = Leasing(f) \cup {r}
        BY <2>4, <1>2
    <3> QED BY <3>1, <2>1, <2>2, <2>3, <2>4
  <2>5. CASE f \notin filtersArray
    <3>1. Leasing(f)' = Leasing(f)
        BY <2>5, <1>2
    <3> QED BY <3>1, <2>1, <2>3, <2>5
  <2> QED BY <2>4, <2>5
<1>6. OnePlace' /\ SomePlace'
    BY DEF OnePlace, SomePlace, Building
<1>7. LeasesKeep'
    BY <1>2 DEF LeasesKeep
<1> QED BY <1>4, <1>5, <1>6, <1>7

LEMMA releaseFactoriesStep ==
    ASSUME Constants, IInv, NEW r \in Request, releaseFactories(r)
    PROVE  IInv'
<1> USE DEF IInv
<1> DEFINE last == {f \in lease[r] \cap retired : factoryRefs[f] = 1}
<1>1. /\ lease[r] # Nothing
      /\ factoryRefs' = [f \in Factory |-> factoryRefs[f] - (IF f \in lease[r] THEN 1 ELSE 0)]
      /\ retired' = retired \ last
      /\ ready' = [ready EXCEPT ![r] = @ \cup last]
      /\ lease' = [lease EXCEPT ![r] = Nothing]
      /\ UNCHANGED <<filtersArray, closed, created, reload, closes>>
    BY DEF releaseFactories
<1>2. lease[r] \in SUBSET Factory
    BY <1>1 DEF Types
<1>3. \A f : Leasing(f)' = Leasing(f) \ {r} /\ (r \in Leasing(f) <=> f \in lease[r])
    BY <1>1 DEF Leasing, Types
<1>4. ASSUME NEW f \in Factory
      PROVE  /\ factoryRefs'[f] = Cardinality(Leasing(f) \ {r})
             /\ f \in lease[r] => (factoryRefs[f] = 1 <=> Leasing(f) \ {r} = {})
  <2>1. IsFiniteSet(Leasing(f)) /\ Cardinality(Leasing(f)) \in Nat /\ factoryRefs[f] = Cardinality(Leasing(f))
      BY Refs
  <2>2. /\ IsFiniteSet(Leasing(f) \ {r})
        /\ Cardinality(Leasing(f) \ {r}) =
              IF r \in Leasing(f) THEN Cardinality(Leasing(f)) - 1 ELSE Cardinality(Leasing(f))
      BY <2>1, FS_RemoveElement
  <2>3. Cardinality(Leasing(f) \ {r}) = 0 <=> Leasing(f) \ {r} = {}
      BY <2>2, FS_EmptySet
  <2>4. r \in Leasing(f) <=> f \in lease[r]
      BY <1>3
  <2>5. factoryRefs'[f] = factoryRefs[f] - (IF f \in lease[r] THEN 1 ELSE 0)
      BY <1>1
  <2> QED BY <2>1, <2>2, <2>3, <2>4, <2>5
<1>5. last \in SUBSET retired /\ \A f \in last : Leasing(f) \ {r} = {}
    BY <1>2, <1>4
<1>6. \A f \in retired \ last : f \in lease[r] => Leasing(f) \ {r} # {}
    BY <1>2, <1>4
<1>7. r \in Thread /\ ready'[r] = ready[r] \cup last /\ \A t \in Thread \ {r} : ready'[t] = ready[t]
    BY <1>1 DEF Types, Thread
<1> HIDE DEF last
<1>8. Types'
  <2>1. factoryRefs' \in [Factory -> Int]
      BY <1>1 DEF Types
  <2>2. lease' \in [Request -> {Nothing} \cup SUBSET Factory]
      BY <1>1 DEF Types
  <2>3. ready' \in [Thread -> SUBSET (1 .. created)]
      BY <1>1, <1>5 DEF Types
  <2> QED BY <2>1, <2>2, <2>3, <1>1 DEF Types
<1>9. RefsAreLeases'
  <2> SUFFICES ASSUME NEW f \in Factory PROVE factoryRefs'[f] = Cardinality(Leasing(f)')
      BY DEF RefsAreLeases
  <2>1. Leasing(f)' = Leasing(f) \ {r}
      BY <1>3
  <2> QED BY <2>1, <1>4
<1>10. \A t \in Reloader : Building(t)' = Building(t)
    BY <1>1 DEF Building
<1>11. OnePlace'
  <2>1. \A t \in Thread : ready'[t] \subseteq ready[t] \cup last /\ (t # r => ready'[t] = ready[t])
      BY <1>7
  <2>2. /\ filtersArray' \cap retired' = {}
        /\ \A t \in Reloader : Building(t)' \cap (filtersArray' \cup retired') = {}
        /\ \A t, u \in Reloader : t # u => Building(t)' \cap Building(u)' = {}
      BY <1>1, <1>10 DEF OnePlace
  <2>3. \A t \in Thread : ready'[t] \cap (filtersArray' \cup retired') = {}
      BY <2>1, <1>1, <1>5 DEF OnePlace
  <2>4. \A t \in Thread : \A u \in Reloader : ready'[t] \cap Building(u)' = {}
      BY <2>1, <1>5, <1>10 DEF OnePlace
  <2>5. \A t, u \in Thread : t # u => ready'[t] \cap ready'[u] = {}
      BY <2>1, <1>5 DEF OnePlace
  <2>6. \A f \in Factory : closes'[f] = 1 =>
          /\ f \in 1 .. created' /\ f \notin filtersArray' /\ f \notin retired'
          /\ \A t \in Reloader : f \notin Building(t)'
          /\ \A t \in Thread : f \notin ready'[t]
      BY <2>1, <1>1, <1>5, <1>10 DEF OnePlace
  <2> QED BY <2>2, <2>3, <2>4, <2>5, <2>6 DEF OnePlace
<1>12. SomePlace'
    BY <1>1, <1>7, <1>10 DEF SomePlace
<1>13. LeasesKeep'
  <2> SUFFICES ASSUME NEW f \in Factory
               PROVE  /\ Leasing(f)' # {} => f \in filtersArray' \cup retired'
                      /\ f \in retired' => Leasing(f)' # {}
      BY DEF LeasesKeep
  <2>1. Leasing(f)' = Leasing(f) \ {r} /\ (r \in Leasing(f) <=> f \in lease[r])
      BY <1>3
  <2>2. (Leasing(f) # {} => f \in filtersArray \cup retired) /\ (f \in retired => Leasing(f) # {})
      BY DEF LeasesKeep
  <2> QED BY <2>1, <2>2, <1>1, <1>5, <1>6
<1> QED BY <1>1, <1>8, <1>9, <1>11, <1>12, <1>13

LEMMA closeFactoriesStep ==
    ASSUME Constants, IInv, NEW t \in Thread, closeFactories(t)
    PROVE  IInv'
<1> USE DEF IInv
<1>1. /\ closes' = [f \in Factory |-> closes[f] + (IF f \in ready[t] THEN 1 ELSE 0)]
      /\ ready' = [ready EXCEPT ![t] = {}]
      /\ UNCHANGED <<filtersArray, factoryRefs, retired, closed, created, reload, lease>>
    BY DEF closeFactories
<1>2. ready'[t] = {} /\ \A u \in Thread \ {t} : ready'[u] = ready[u]
    BY <1>1 DEF Types
<1>3. \A f \in ready[t] : f \in Factory /\ f \in 1 .. created /\ closes[f] = 0
    BY CreatedIsFactory DEF Types, OnePlace
<1>4. \A f \in Factory : closes'[f] = IF f \in ready[t] THEN 1 ELSE closes[f]
    BY <1>1, <1>3 DEF Types
<1>5. (\A u \in Reloader : Building(u)' = Building(u)) /\ \A f : Leasing(f)' = Leasing(f)
    BY <1>1 DEF Building, Leasing
<1>6. Types'
  <2>1. closes' \in [Factory -> {0, 1}]
      BY <1>1, <1>4 DEF Types
  <2>2. ready' \in [Thread -> SUBSET (1 .. created)]
      BY <1>1 DEF Types
  <2> QED BY <2>1, <2>2, <1>1 DEF Types
<1>7. RefsAreLeases' /\ LeasesKeep'
    BY <1>1, <1>5 DEF RefsAreLeases, LeasesKeep
<1>8. OnePlace'
  <2>1. \A u \in Thread : ready'[u] \subseteq ready[u] /\ ready'[u] \cap ready[t] = {}
      BY <1>2 DEF OnePlace
  <2>2. \A f \in Factory : closes'[f] = 1 =>
          /\ f \in 1 .. created' /\ f \notin filtersArray' /\ f \notin retired'
          /\ \A u \in Reloader : f \notin Building(u)'
          /\ \A u \in Thread : f \notin ready'[u]
      BY <2>1, <1>1, <1>3, <1>4, <1>5 DEF OnePlace
  <2>3. /\ filtersArray' \cap retired' = {}
        /\ \A u \in Reloader : Building(u)' \cap (filtersArray' \cup retired') = {}
        /\ \A u, v \in Reloader : u # v => Building(u)' \cap Building(v)' = {}
      BY <1>1, <1>5 DEF OnePlace
  <2>4. /\ \A u \in Thread : ready'[u] \cap (filtersArray' \cup retired') = {}
        /\ \A u \in Thread : \A v \in Reloader : ready'[u] \cap Building(v)' = {}
        /\ \A u, v \in Thread : u # v => ready'[u] \cap ready'[v] = {}
      BY <2>1, <1>1, <1>5 DEF OnePlace
  <2> QED BY <2>2, <2>3, <2>4 DEF OnePlace
<1>9. SomePlace'
  <2> SUFFICES ASSUME NEW f \in 1 .. created
               PROVE  \/ f \in filtersArray' \/ f \in retired' \/ closes'[f] = 1
                      \/ \E u \in Reloader : f \in Building(u)'
                      \/ \E u \in Thread : f \in ready'[u]
      BY <1>1 DEF SomePlace
  <2>1. f \in Factory
      BY CreatedIsFactory
  <2> QED BY <2>1, <1>1, <1>2, <1>4, <1>5 DEF SomePlace
<1> QED BY <1>1, <1>6, <1>7, <1>8, <1>9

-----------------------------------------------------------------------------
\* A reloader gives up what it has built.
LEMMA DropStep ==
    ASSUME Constants, IInv, NEW t \in Reloader, reload[t] # Nothing,
           ready' = [ready EXCEPT ![t] = @ \cup reload[t].built],
           reload' = [reload EXCEPT ![t] = Nothing],
           UNCHANGED <<filtersArray, factoryRefs, retired, closed, created, lease, closes>>
    PROVE  IInv'
<1> USE DEF IInv
<1>1. t \in Thread /\ ready'[t] = ready[t] \cup Building(t) /\ \A u \in Thread \ {t} : ready'[u] = ready[u]
    BY DEF Types, Thread, Building
<1>2. Building(t)' = {} /\ \A u \in Reloader \ {t} : Building(u)' = Building(u)
    BY DEF Types, Building
<1>3. \A f : Leasing(f)' = Leasing(f)
    BY DEF Leasing
<1>4. Types'
  <2>1. Building(t) \in SUBSET (1 .. created)
      BY DEF Types, Building
  <2>2. ready' \in [Thread -> SUBSET (1 .. created)]
      BY <2>1, <1>1 DEF Types
  <2> QED BY <2>2 DEF Types
<1>5. RefsAreLeases' /\ LeasesKeep'
    BY <1>3 DEF RefsAreLeases, LeasesKeep
<1>6. OnePlace'
  <2>1. \A u \in Thread : ready'[u] \subseteq ready[u] \cup Building(t) /\ (u # t => ready'[u] = ready[u])
      BY <1>1
  <2>2. \A u \in Reloader : Building(u)' \subseteq Building(u) /\ (Building(u)' # {} => u # t)
      BY <1>2
  <2>3. /\ filtersArray' \cap retired' = {}
        /\ \A u \in Reloader : Building(u)' \cap (filtersArray' \cup retired') = {}
        /\ \A u, v \in Reloader : u # v => Building(u)' \cap Building(v)' = {}
      BY <2>2 DEF OnePlace
  <2>4. /\ \A u \in Thread : ready'[u] \cap (filtersArray' \cup retired') = {}
        /\ \A u, v \in Thread : u # v => ready'[u] \cap ready'[v] = {}
      BY <2>1 DEF OnePlace
  <2>5. \A u \in Thread : \A v \in Reloader : ready'[u] \cap Building(v)' = {}
      BY <2>1, <2>2 DEF OnePlace
  <2>6. \A f \in Factory : closes'[f] = 1 =>
          /\ f \in 1 .. created' /\ f \notin filtersArray' /\ f \notin retired'
          /\ \A u \in Reloader : f \notin Building(u)'
          /\ \A u \in Thread : f \notin ready'[u]
      BY <2>1, <2>2 DEF OnePlace
  <2> QED BY <2>3, <2>4, <2>5, <2>6 DEF OnePlace
<1>7. SomePlace'
    BY <1>1, <1>2 DEF SomePlace
<1> QED BY <1>4, <1>5, <1>6, <1>7

\* New factories take the place of the ones in use.
LEMMA ReplaceStep ==
    ASSUME Constants, IInv, NEW t \in Thread, NEW new \in SUBSET (1 .. created),
           filtersArray' = new, retireFactories(t, filtersArray),
           reload' \in [Reloader -> {Nothing} \cup [built : SUBSET (1 .. created), todo : Nat, strict : BOOLEAN]],
           \A u \in Reloader : Building(u)' \subseteq Building(u) /\ Building(u)' \cap new = {},
           \A u \in Reloader : Building(u) \subseteq Building(u)' \cup new,
           \A f \in new : \E u \in Reloader : f \in Building(u),
           closed' => new = {},
           UNCHANGED <<factoryRefs, created, lease, closes>>
    PROVE  IInv'
<1> USE DEF IInv
<1> DEFINE unused == {f \in filtersArray : factoryRefs[f] = 0}
<1>1. retired' = (retired \cup filtersArray) \ unused /\ ready' = [ready EXCEPT ![t] = @ \cup unused]
    BY DEF retireFactories
<1>2. unused \in SUBSET filtersArray /\ \A f \in filtersArray : f \in unused <=> Leasing(f) = {}
    BY CreatedIsFactory, Refs DEF Types
<1>3. ready'[t] = ready[t] \cup unused /\ \A u \in Thread \ {t} : ready'[u] = ready[u]
    BY <1>1 DEF Types
<1> HIDE DEF unused
<1>4. \A f : Leasing(f)' = Leasing(f)
    BY DEF Leasing
<1>5. retired' = retired \cup (filtersArray \ unused)
    BY <1>1, <1>2 DEF OnePlace
<1>6. Types'
  <2>1. ready' \in [Thread -> SUBSET (1 .. created)] /\ retired' \in SUBSET (1 .. created)
      BY <1>1, <1>2 DEF Types
  <2> QED BY <2>1 DEF Types
<1>7. RefsAreLeases'
    BY <1>4 DEF RefsAreLeases
<1>8. LeasesKeep'
    BY <1>2, <1>4, <1>5 DEF LeasesKeep
<1>9. OnePlace'
  <2>1. \A u \in Thread : ready'[u] \subseteq ready[u] \cup unused /\ (u # t => ready'[u] = ready[u])
      BY <1>3
  <2>2. \A f \in new : /\ f \notin filtersArray /\ f \notin retired
                       /\ \A u \in Thread : f \notin ready[u]
      BY DEF OnePlace
  <2>3. filtersArray' \cap retired' = {}
      BY <2>2, <1>5
  <2>4. \A u \in Reloader : Building(u)' \cap (filtersArray' \cup retired') = {}
      BY <1>5 DEF OnePlace
  <2>5. \A u, v \in Reloader : u # v => Building(u)' \cap Building(v)' = {}
      BY DEF OnePlace
  <2>6. \A u \in Thread : ready'[u] \cap (filtersArray' \cup retired') = {}
      BY <2>1, <2>2, <1>2, <1>5 DEF OnePlace
  <2>7. \A u \in Thread : \A v \in Reloader : ready'[u] \cap Building(v)' = {}
      BY <2>1, <1>2 DEF OnePlace
  <2>8. \A u, v \in Thread : u # v => ready'[u] \cap ready'[v] = {}
      BY <2>1, <1>2 DEF OnePlace
  <2>9. ASSUME NEW f \in Factory, closes'[f] = 1
        PROVE  /\ f \in 1 .. created' /\ f \notin filtersArray' /\ f \notin retired'
               /\ \A u \in Reloader : f \notin Building(u)'
               /\ \A u \in Thread : f \notin ready'[u]
      BY <2>1, <2>9, <1>2, <1>5 DEF OnePlace
  <2> QED BY <2>3, <2>4, <2>5, <2>6, <2>7, <2>8, <2>9 DEF OnePlace
<1>10. SomePlace'
  <2> SUFFICES ASSUME NEW f \in 1 .. created
               PROVE  \/ f \in filtersArray' \/ f \in retired' \/ closes'[f] = 1
                      \/ \E u \in Reloader : f \in Building(u)'
                      \/ \E u \in Thread : f \in ready'[u]
      BY DEF SomePlace
  <2>1. CASE f \in filtersArray
      BY <2>1, <1>3, <1>5
  <2>2. CASE f \in retired \/ closes[f] = 1
      BY <2>2, <1>5
  <2>3. CASE \E u \in Reloader : f \in Building(u)
      BY <2>3
  <2>4. CASE \E u \in Thread : f \in ready[u]
      BY <2>4, <1>3
  <2> QED BY <2>1, <2>2, <2>3, <2>4 DEF SomePlace
<1> QED BY <1>6, <1>7, <1>8, <1>9, <1>10

LEMMA CloseStep ==
    ASSUME Constants, IInv, Close
    PROVE  IInv'
<1>1. Closer \in Thread /\ {} \in SUBSET (1 .. created) /\ filtersArray' = {}
    BY DEF Thread, Close
<1>2. \A u \in Reloader : Building(u)' = Building(u)
    BY DEF Building, Close
<1> QED BY <1>1, <1>2, ReplaceStep DEF Close, IInv, Types

LEMMA SwapStep ==
    ASSUME Constants, IInv, NEW t \in Reloader, Swap(t)
    PROVE  IInv'
<1>1. reload[t] # Nothing /\ reload' = [reload EXCEPT ![t] = Nothing]
      /\ UNCHANGED <<factoryRefs, closed, created, lease, closes>>
    BY DEF Swap
<1>2. CASE closed
    BY <1>1, <1>2, DropStep DEF Swap
<1>3. CASE ~closed
  <2>1. t \in Thread /\ Building(t) \in SUBSET (1 .. created) /\ Building(t) = reload[t].built
      BY <1>1 DEF Thread, Building, IInv, Types
  <2>2. filtersArray' = Building(t) /\ retireFactories(t, filtersArray)
      BY <2>1, <1>3 DEF Swap
  <2>3. Building(t)' = {} /\ \A u \in Reloader \ {t} : Building(u)' = Building(u)
      BY <1>1 DEF Building, IInv, Types
  <2>4. \A u \in Reloader \ {t} : Building(u) \cap Building(t) = {}
      BY DEF IInv, OnePlace
  <2>5. \A u \in Reloader : /\ Building(u)' \subseteq Building(u)
                            /\ Building(u)' \cap Building(t) = {}
                            /\ Building(u) \subseteq Building(u)' \cup Building(t)
      BY <2>3, <2>4
  <2>6. reload' \in [Reloader -> {Nothing} \cup [built : SUBSET (1 .. created), todo : Nat, strict : BOOLEAN]]
      BY <1>1 DEF IInv, Types
  <2> HIDE DEF IInv, Building
  <2> QED BY <2>1, <2>2, <2>5, <2>6, <1>1, <1>3, ReplaceStep
<1> QED BY <1>2, <1>3

\* A reload begins, or goes on without the factory that failed.
LEMMA SameBuildings ==
    ASSUME Constants, IInv,
           reload' \in [Reloader -> {Nothing} \cup [built : SUBSET (1 .. created), todo : Nat, strict : BOOLEAN]],
           \A u \in Reloader : Building(u)' = Building(u),
           UNCHANGED <<filtersArray, factoryRefs, retired, closed, created, lease, ready, closes>>
    PROVE  IInv'
<1> USE DEF IInv
<1>1. \A f : Leasing(f)' = Leasing(f)
    BY DEF Leasing
<1>2. Types' /\ RefsAreLeases' /\ LeasesKeep'
    BY <1>1 DEF Types, RefsAreLeases, LeasesKeep
<1>3. OnePlace'
    BY DEF OnePlace
<1>4. SomePlace'
    BY DEF SomePlace
<1> QED BY <1>2, <1>3, <1>4

LEMMA BeginReloadStep ==
    ASSUME Constants, IInv, NEW t \in Reloader, NEW strict \in BOOLEAN, BeginReload(t, strict)
    PROVE  IInv'
<1> DEFINE new == [built |-> {}, todo |-> Filters, strict |-> strict]
<1>1. reload[t] = Nothing /\ reload' = [reload EXCEPT ![t] = new]
    BY DEF BeginReload
<1>2. new \in [built : SUBSET (1 .. created), todo : Nat, strict : BOOLEAN] /\ new.built = {}
    BY DEF Constants
<1> HIDE DEF new
<1>3. \A u \in Reloader : Building(u)' = Building(u)
    BY <1>1, <1>2 DEF Building, IInv, Types
<1>4. reload' \in [Reloader -> {Nothing} \cup [built : SUBSET (1 .. created), todo : Nat, strict : BOOLEAN]]
    BY <1>1, <1>2 DEF IInv, Types
<1> QED BY <1>3, <1>4, SameBuildings DEF BeginReload

LEMMA ApplyFailsStep ==
    ASSUME Constants, IInv, NEW t \in Reloader, ApplyFails(t)
    PROVE  IInv'
<1>1. CASE reload[t].strict
    BY <1>1, DropStep DEF ApplyFails
<1>2. CASE ~reload[t].strict
  <2> DEFINE new == [reload[t] EXCEPT !.todo = @ - 1]
  <2>1. reload[t] \in [built : SUBSET (1 .. created), todo : Nat, strict : BOOLEAN] /\ reload[t].todo > 0
      BY DEF ApplyFails, IInv, Types
  <2>2. /\ new \in [built : SUBSET (1 .. created), todo : Nat, strict : BOOLEAN]
        /\ new.built = reload[t].built
      BY <2>1
  <2>3. created \in Nat /\ new # Nothing
    <3>1. new \in [built : SUBSET Factory, todo : Nat, strict : BOOLEAN]
        BY <2>2, CreatedIsFactory DEF IInv
    <3> QED BY <3>1, CreatedIsFactory DEF Constants, IInv
  <2>4. reload[t] # Nothing /\ reload' = [reload EXCEPT ![t] = new]
      BY <1>2 DEF ApplyFails
  <2> HIDE DEF new
  <2>5. \A u \in Reloader : Building(u)' = Building(u)
      BY <2>2, <2>3, <2>4 DEF Building, IInv, Types
  <2>6. reload' \in [Reloader -> {Nothing} \cup [built : SUBSET (1 .. created), todo : Nat, strict : BOOLEAN]]
      BY <2>2, <2>4 DEF IInv, Types
  <2> QED BY <2>5, <2>6, <1>2, SameBuildings DEF ApplyFails
<1> QED BY <1>1, <1>2

LEMMA ApplyStep ==
    ASSUME Constants, IInv, NEW t \in Reloader, Apply(t)
    PROVE  IInv'
<1> USE DEF IInv
<1> DEFINE fresh == created + 1
           new == [reload[t] EXCEPT !.built = @ \cup {fresh}, !.todo = @ - 1]
<1>1. /\ reload[t] # Nothing /\ reload[t].todo > 0 /\ created < MaxFactories /\ created' = fresh
      /\ UNCHANGED <<filtersArray, factoryRefs, retired, closed, lease, ready, closes>>
    BY DEF Apply
<1>2. reload' = [reload EXCEPT ![t] = new]
    BY DEF Apply, Types
<1>3. /\ created \in Nat /\ fresh \in 1 .. MaxFactories /\ fresh \in Factory /\ fresh \notin 1 .. created
      /\ created' \in 0 .. MaxFactories
      /\ 1 .. created' = (1 .. created) \cup {fresh} /\ 1 .. created \subseteq Factory
  <2>1. MaxFactories \in Nat /\ created \in 0 .. MaxFactories
      BY DEF Constants, Types
  <2> QED BY <2>1, <1>1 DEF Factory
<1>4. reload[t] \in [built : SUBSET (1 .. created), todo : Nat, strict : BOOLEAN]
    BY <1>1 DEF Types
<1>5. /\ new \in [built : SUBSET (1 .. created'), todo : Nat, strict : BOOLEAN]
      /\ new.built = reload[t].built \cup {fresh}
  <2>1. reload[t].built \cup {fresh} \in SUBSET (1 .. created') /\ reload[t].todo - 1 \in Nat
      BY <1>1, <1>3, <1>4
  <2> HIDE DEF fresh
  <2> QED BY <2>1, <1>4
<1>6. new # Nothing
  <2>1. new \in [built : SUBSET Factory, todo : Nat, strict : BOOLEAN]
      BY <1>3, <1>5
  <2> QED BY <2>1 DEF Constants
<1> HIDE DEF new, fresh
<1>7. Building(t)' = Building(t) \cup {fresh} /\ \A u \in Reloader \ {t} : Building(u)' = Building(u)
    BY <1>1, <1>2, <1>5, <1>6 DEF Types, Building
<1>8. \A f : Leasing(f)' = Leasing(f)
    BY <1>1 DEF Leasing
<1>9. Types'
  <2>1. reload' \in [Reloader -> {Nothing} \cup [built : SUBSET (1 .. created'), todo : Nat, strict : BOOLEAN]]
    <3>1. \A u \in Reloader : reload[u] \in {Nothing} \cup [built : SUBSET (1 .. created'), todo : Nat, strict : BOOLEAN]
        BY <1>3 DEF Types
    <3> QED BY <3>1, <1>2, <1>5 DEF Types
  <2>2. filtersArray' \in SUBSET (1 .. created') /\ retired' \in SUBSET (1 .. created')
      BY <1>1, <1>3 DEF Types
  <2>3. ready' \in [Thread -> SUBSET (1 .. created')]
      BY <1>1, <1>3 DEF Types
  <2> QED BY <2>1, <2>2, <2>3, <1>1, <1>3 DEF Types
<1>10. RefsAreLeases' /\ LeasesKeep'
    BY <1>1, <1>8 DEF RefsAreLeases, LeasesKeep
<1>11. /\ fresh \notin filtersArray /\ fresh \notin retired /\ closes[fresh] # 1
       /\ \A u \in Reloader : fresh \notin Building(u)
       /\ \A u \in Thread : fresh \notin ready[u]
    BY <1>3 DEF Types, Building, OnePlace
<1>12. OnePlace'
  <2>1. \A u \in Reloader : Building(u)' \subseteq Building(u) \cup {fresh} /\ (u # t => Building(u)' = Building(u))
      BY <1>7
  <2>2. /\ filtersArray' \cap retired' = {}
        /\ \A u \in Reloader : Building(u)' \cap (filtersArray' \cup retired') = {}
        /\ \A u, v \in Reloader : u # v => Building(u)' \cap Building(v)' = {}
      BY <2>1, <1>1, <1>11 DEF OnePlace
  <2>3. /\ \A u \in Thread : ready'[u] \cap (filtersArray' \cup retired') = {}
        /\ \A u \in Thread : \A v \in Reloader : ready'[u] \cap Building(v)' = {}
        /\ \A u, v \in Thread : u # v => ready'[u] \cap ready'[v] = {}
      BY <2>1, <1>1, <1>11 DEF OnePlace
  <2>4. ASSUME NEW f \in Factory, closes'[f] = 1
        PROVE  /\ f \in 1 .. created' /\ f \notin filtersArray' /\ f \notin retired'
               /\ \A u \in Reloader : f \notin Building(u)'
               /\ \A u \in Thread : f \notin ready'[u]
      BY <2>1, <2>4, <1>1, <1>3, <1>11 DEF OnePlace
  <2> QED BY <2>2, <2>3, <2>4 DEF OnePlace
<1>13. SomePlace'
  <2> SUFFICES ASSUME NEW f \in (1 .. created) \cup {fresh}
               PROVE  \/ f \in filtersArray' \/ f \in retired' \/ closes'[f] = 1
                      \/ \E u \in Reloader : f \in Building(u)'
                      \/ \E u \in Thread : f \in ready'[u]
      BY <1>3 DEF SomePlace
  <2>1. \A u \in Reloader : Building(u) \subseteq Building(u)'
      BY <1>7
  <2> QED BY <2>1, <1>1, <1>7 DEF SomePlace
<1> QED BY <1>1, <1>9, <1>10, <1>12, <1>13

LEMMA NextIInv ==
    ASSUME Constants, IInv, [Next]_vars
    PROVE  IInv'
<1>1. CASE UNCHANGED vars
  <2>1. \A u \in Reloader : Building(u)' = Building(u)
      BY <1>1 DEF vars, Building
  <2> QED BY <2>1, <1>1, SameBuildings DEF vars, IInv, Types
<1> QED BY <1>1, newLeasedFilterChainStep, releaseFactoriesStep, closeFactoriesStep, BeginReloadStep,
           ApplyStep, ApplyFailsStep, SwapStep, CloseStep DEF Next

(***************************************************************************)
(* For any number of requests, reloads and filters: a factory is never     *)
(* closed under a request that leases it, and every factory that is no     *)
(* longer held is closed exactly once.                                     *)
(***************************************************************************)
THEOREM FactoriesStaySound ==
    ASSUME Constants
    PROVE  Spec => []FactoriesAreSound
<1>1. Init => IInv
    BY InitIInv
<1>2. IInv /\ [Next]_vars => IInv'
    BY NextIInv
<1>3. IInv => FactoriesAreSound
  <2> SUFFICES ASSUME IInv PROVE FactoriesAreSound
      OBVIOUS
  <2> USE DEF IInv
  <2>1. \A f \in 1 .. created : f \in Factory
      BY CreatedIsFactory
  <2>2. LeasedIsOpen
    <3> SUFFICES ASSUME NEW r \in Request, lease[r] # Nothing, NEW f \in lease[r]
                 PROVE  closes[f] = 0 /\ \A t \in Thread : f \notin ready[t]
        BY DEF LeasedIsOpen
    <3>1. f \in Factory /\ r \in Leasing(f)
        BY DEF Types, Leasing
    <3>2. f \in filtersArray \cup retired
        BY <3>1 DEF LeasesKeep
    <3> QED BY <3>1, <3>2 DEF OnePlace, Types
  <2>3. NoFactoryLeaks
    <3> SUFFICES ASSUME NEW f \in 1 .. created
                 PROVE  LET owners == {t \in Thread : f \in ready[t]}
                            held == \/ f \in filtersArray /\ ~closed
                                    \/ \E t \in Reloader : reload[t] # Nothing /\ f \in reload[t].built
                                    \/ f \in retired /\ \E r \in Request : lease[r] # Nothing /\ f \in lease[r]
                        IN  Cardinality(owners) + closes[f] = IF held THEN 0 ELSE 1
        BY DEF NoFactoryLeaks
    <3> DEFINE owners == {t \in Thread : f \in ready[t]}
               held == \/ f \in filtersArray /\ ~closed
                       \/ \E t \in Reloader : reload[t] # Nothing /\ f \in reload[t].built
                       \/ f \in retired /\ \E r \in Request : lease[r] # Nothing /\ f \in lease[r]
    <3>1. f \in Factory /\ closes[f] \in {0, 1}
        BY <2>1 DEF Types
    <3>2. held <=> f \in filtersArray \/ f \in retired \/ \E t \in Reloader : f \in Building(t)
      <4>1. f \in retired => \E r \in Request : lease[r] # Nothing /\ f \in lease[r]
          BY <3>1 DEF LeasesKeep, Leasing
      <4>2. \A t \in Reloader : f \in Building(t) <=> reload[t] # Nothing /\ f \in reload[t].built
          BY DEF Building
      <4> QED BY <4>1, <4>2
    <3> HIDE DEF held
    <3>3. CASE owners = {}
      <4>1. closes[f] = IF held THEN 0 ELSE 1
          BY <3>1, <3>2, <3>3 DEF OnePlace, SomePlace
      <4>2. Cardinality(owners) = 0
          BY <3>3, FS_EmptySet
      <4> HIDE DEF owners
      <4> QED BY <4>1, <4>2, <3>1 DEF owners, held
    <3>4. ASSUME NEW t \in owners
          PROVE  Cardinality(owners) + closes[f] = IF held THEN 0 ELSE 1
      <4>1. t \in Thread /\ f \in ready[t]
          OBVIOUS
      <4>2. owners = {t}
          BY <4>1 DEF OnePlace
      <4>3. Cardinality(owners) = 1
          BY <4>2, FS_Singleton
      <4>4. ~held /\ closes[f] = 0
          BY <4>1, <3>1, <3>2 DEF OnePlace
      <4> HIDE DEF owners
      <4> QED BY <4>3, <4>4
    <3> QED BY <3>3, <3>4 DEF held
  <2> QED BY <2>2, <2>3 DEF FactoriesAreSound
<1> QED BY <1>1, <1>2, <1>3, PTL DEF Spec
-----------------------------------------------------------------------------
(***************************************************************************)
(* Answers, for any number of requests and pooled contexts                 *)
(***************************************************************************)
HttpTypes ==
    /\ free \in SUBSET Context
    /\ params \in [Context -> Data \cup {Unset}]
    /\ req \in [HttpReq -> Exchange \cup {Unset}]
    /\ body \in [HttpReq -> Seq(Text)]
    /\ events \in Seq([id : HttpReq, from : HttpReq])
    /\ ended \in SUBSET HttpReq

Busy(r) == req[r] # Unset /\ req[r].at # "done"

\* A context serves one request at a time.
OwnContext ==
    /\ \A r \in HttpReq : Busy(r) => req[r].ctx \notin free
    /\ \A r, s \in HttpReq : Busy(r) /\ Busy(s) /\ r # s => req[r].ctx # req[s].ctx

Unanswered(r) == body[r] = <<>> /\ SentFor(r) = {}

Answered(r) ==
    \/ Len(body[r]) = 1 /\ SentFor(r) = {}
    \/ Len(body[r]) = 0 /\ IF req[r].kind = "notification" THEN SentFor(r) = {}
                           ELSE \E i \in DOMAIN events : SentFor(r) = {i}

\* The requests that are to be answered once.
Counted(r) == req[r].fresh /\ ~(req[r].interrupted /\ req[r].kind = "call")

\* Before the encode phase a request was not answered, in that phase it was if a
\* filter replied, and a tools/call that is encoded was not unless interrupted.
AnswerOK(r) ==
    /\ req[r] = Unset => Unanswered(r) /\ r \notin ended
    /\ req[r] # Unset =>
          /\ r \in ended <=> req[r].at = "done"
          /\ req[r].at \in {"decode", "handle", "proxy"} =>
                Unanswered(r) /\ ~req[r].local /\ ~req[r].interrupted
          /\ req[r].at = "encode" => IF req[r].local THEN Answered(r) ELSE Unanswered(r)
          /\ req[r].at = "encode" /\ Counted(r) /\ IsMCPToolCall(r) => ~req[r].local
          /\ req[r].at = "write" /\ Counted(r) => IF req[r].local THEN Answered(r) ELSE Unanswered(r)
          /\ req[r].at = "done" /\ Counted(r) => Answered(r)

\* A context that held nothing holds nothing or what its request put there.
HoldsOwn(r) ==
    (Busy(r) /\ req[r].fresh) =>
        /\ MCPData(r) # Unset => MCPData(r).id = r /\ (MCPData(r).call => req[r].kind = "call")
        /\ req[r].at = "decode" => MCPData(r) = Unset

EventsOK ==
    \A i \in DOMAIN events :
        /\ req[events[i].from] # Unset
        /\ req[events[i].from].fresh => events[i].id = events[i].from

HttpInv ==
    /\ HttpTypes /\ OwnContext /\ EventsOK
    /\ \A r \in HttpReq : AnswerOK(r) /\ HoldsOwn(r)

LEMMA HttpInvInit == HttpInit => HttpInv
<1> SUFFICES ASSUME HttpInit PROVE HttpInv
  OBVIOUS
<1>1. HttpTypes /\ OwnContext /\ EventsOK
  BY DEF HttpInit, HttpTypes, OwnContext, EventsOK, Busy
<1>2. \A r \in HttpReq : AnswerOK(r) /\ HoldsOwn(r)
  BY DEF HttpInit, AnswerOK, HoldsOwn, Busy, Unanswered, SentFor
<1> QED BY <1>1, <1>2 DEF HttpInv

\* What a step of another request leaves alone stays right.
LEMMA OthersStay ==
    ASSUME HttpInv, NEW s \in HttpReq,
           req'[s] = req[s], body'[s] = body[s], SentFor(s)' = SentFor(s),
           s \in ended' <=> s \in ended, DOMAIN events \subseteq DOMAIN events',
           Busy(s) => params'[req[s].ctx] = params[req[s].ctx]
    PROVE  AnswerOK(s)' /\ HoldsOwn(s)'
<1>1. AnswerOK(s) /\ HoldsOwn(s)
  BY DEF HttpInv
<1>2. (Unanswered(s)' <=> Unanswered(s)) /\ (Answered(s) => Answered(s)') /\ (Counted(s)' <=> Counted(s))
  BY DEF Unanswered, Answered, Counted
<1>3. Busy(s) => (MCPData(s)' = MCPData(s) /\ (IsMCPToolCall(s)' <=> IsMCPToolCall(s)))
  BY DEF MCPData, IsMCPToolCall
<1>4. Busy(s)' <=> Busy(s)
  BY DEF Busy
<1>5. AnswerOK(s)'
  BY <1>1, <1>2, <1>3 DEF AnswerOK, Busy
<1>6. HoldsOwn(s)'
  BY <1>1, <1>3, <1>4 DEF HoldsOwn
<1> QED BY <1>5, <1>6
LEMMA ElementOf ==
    ASSUME NEW S, NEW seq \in Seq(S), NEW i \in DOMAIN seq PROVE seq[i] \in S
OBVIOUS

\* A message that is sent is the only one of its request, if it is the first.
LEMMA SentAppends ==
    ASSUME HttpTypes, NEW r \in HttpReq, NEW e \in [id : HttpReq, from : HttpReq],
           e.from = r, events' = Append(events, e)
    PROVE  /\ events' \in Seq([id : HttpReq, from : HttpReq])
           /\ DOMAIN events \subseteq DOMAIN events'
           /\ \A s \in HttpReq : s # r => SentFor(s)' = SentFor(s)
           /\ SentFor(r) = {} => \E i \in DOMAIN events' : SentFor(r)' = {i}
           /\ \A i \in DOMAIN events' : events'[i] = e \/ (i \in DOMAIN events /\ events'[i] = events[i])
<1>1. /\ events \in Seq([id : HttpReq, from : HttpReq]) /\ Len(events) \in Nat
      /\ DOMAIN events = 1 .. Len(events)
  BY DEF HttpTypes
<1>2. /\ events' \in Seq([id : HttpReq, from : HttpReq])
      /\ DOMAIN events' = 1 .. Len(events) + 1
      /\ events'[Len(events) + 1] = e
      /\ \A i \in 1 .. Len(events) : events'[i] = events[i]
  BY <1>1
<1>3. \A s \in HttpReq : s # r => SentFor(s)' = SentFor(s)
  BY <1>1, <1>2 DEF SentFor
<1>4. SentFor(r) = {} => SentFor(r)' = {Len(events) + 1}
  BY <1>1, <1>2 DEF SentFor
<1>5. Len(events) + 1 \in DOMAIN events'
  BY <1>1, <1>2
<1> QED BY <1>1, <1>2, <1>3, <1>4, <1>5

(***************************************************************************)
(* A step of one request that is served: it keeps its context, or gives it *)
(* back in the end, and what it sends carries its own ID if its context    *)
(* held nothing.  What is left to show is about that request.              *)
(***************************************************************************)
LEMMA ServedStep ==
    ASSUME HttpInv, NEW r \in HttpReq, Busy(r),
           NEW q \in Exchange, req' = [req EXCEPT ![r] = q],
           q.ctx = req[r].ctx, q.fresh = req[r].fresh,
           NEW text \in Seq(Text), body' = [body EXCEPT ![r] = text],
           params' \in [Context -> Data \cup {Unset}],
           \A c \in Context : c # q.ctx => params'[c] = params[c],
           \/ free' = free /\ ended' = ended
           \/ q.at = "done" /\ free' = free \cup {q.ctx} /\ ended' = ended \cup {r},
           \/ events' = events
           \/ \E id \in HttpReq : /\ events' = Append(events, [id |-> id, from |-> r])
                                  /\ q.fresh => id = r,
           AnswerOK(r)', HoldsOwn(r)'
    PROVE  HttpInv'
<1> USE DEF HttpInv
<1>1. /\ req[r] \in Exchange /\ req[r] # Unset /\ q # Unset
      /\ req' \in [HttpReq -> Exchange \cup {Unset}] /\ req'[r] = q
      /\ \A s \in HttpReq : s # r => req'[s] = req[s]
      /\ q.ctx \in Context
  BY UnsetAssumption DEF HttpTypes, Busy, Exchange
<1>2. /\ body' \in [HttpReq -> Seq(Text)]
      /\ \A s \in HttpReq : s # r => body'[s] = body[s]
  BY DEF HttpTypes
<1>3. /\ events' \in Seq([id : HttpReq, from : HttpReq])
      /\ DOMAIN events \subseteq DOMAIN events'
      /\ \A s \in HttpReq : s # r => SentFor(s)' = SentFor(s)
      /\ \A i \in DOMAIN events' :
            \/ events'[i].from = r /\ (q.fresh => events'[i].id = r)
            \/ i \in DOMAIN events /\ events'[i] = events[i]
  <2>1. CASE events' = events
    BY <2>1 DEF HttpTypes, SentFor
  <2>2. ASSUME NEW id \in HttpReq, events' = Append(events, [id |-> id, from |-> r]), q.fresh => id = r
        PROVE  <1>3!:
    <3> DEFINE e == [id |-> id, from |-> r]
    <3>1. e \in [id : HttpReq, from : HttpReq] /\ e.from = r /\ e.id = id
      OBVIOUS
    <3> HIDE DEF e
    <3> QED BY <2>2, <3>1, SentAppends DEF e
  <2> QED BY <2>1, <2>2
<1>4. /\ free' \in SUBSET Context /\ ended' \in SUBSET HttpReq
      /\ \A s \in HttpReq : s # r => (s \in ended' <=> s \in ended)
  BY <1>1 DEF HttpTypes
<1>5. HttpTypes'
  BY <1>1, <1>2, <1>3, <1>4 DEF HttpTypes
<1>6. \A s \in HttpReq : s # r => (Busy(s)' <=> Busy(s))
  BY <1>1 DEF Busy
<1>7. Busy(r)' <=> q.at # "done"
  BY <1>1 DEF Busy
<1>8. OwnContext'
  <2>1. \A s \in HttpReq : s # r /\ Busy(s) => req[s].ctx # q.ctx /\ req[s].ctx \notin free
    BY DEF OwnContext
  <2>2. \A s \in HttpReq : Busy(s)' => req'[s].ctx \notin free'
    BY <1>1, <1>6, <1>7, <2>1 DEF OwnContext
  <2>3. \A s, t \in HttpReq : Busy(s)' /\ Busy(t)' /\ s # t => req'[s].ctx # req'[t].ctx
    BY <1>1, <1>6, <2>1 DEF OwnContext
  <2> QED BY <2>2, <2>3 DEF OwnContext
<1>9. EventsOK'
  <2> SUFFICES ASSUME NEW i \in DOMAIN events'
               PROVE  /\ req'[events'[i].from] # Unset
                      /\ req'[events'[i].from].fresh => events'[i].id = events'[i].from
    BY DEF EventsOK
  <2>1. CASE events'[i].from = r /\ (q.fresh => events'[i].id = r)
    BY <2>1, <1>1
  <2>2. CASE i \in DOMAIN events /\ events'[i] = events[i]
    <3>1. events[i].from \in HttpReq
      <4>1. events \in Seq([id : HttpReq, from : HttpReq])
        BY DEF HttpTypes
      <4>2. events[i] \in [id : HttpReq, from : HttpReq]
        BY <2>2, <4>1, ElementOf
      <4> QED BY <4>2
    <3>2. CASE events[i].from = r
      BY <2>2, <3>2, <1>1 DEF EventsOK
    <3>3. CASE events[i].from # r
      BY <2>2, <3>1, <3>3, <1>1 DEF EventsOK
    <3> QED BY <3>2, <3>3
  <2> QED BY <2>1, <2>2, <1>3
<1>10. ASSUME NEW s \in HttpReq, s # r PROVE AnswerOK(s)' /\ HoldsOwn(s)'
  <2>1. Busy(s) => req[s].ctx \in Context /\ req[s].ctx # q.ctx
    BY <1>10 DEF OwnContext, Busy, HttpTypes, Exchange
  <2>2. Busy(s) => params'[req[s].ctx] = params[req[s].ctx]
    BY <2>1
  <2> QED BY <2>2, <1>1, <1>2, <1>3, <1>4, <1>10, OthersStay
<1> QED BY <1>5, <1>8, <1>9, <1>10
\* What the invariant says of a request that is served.
LEMMA ServedFacts ==
    ASSUME HttpInv, NEW r \in HttpReq, NEW step \in {"decode", "handle", "proxy", "encode", "write"}, At(r, step)
    PROVE  /\ Busy(r) /\ req[r] # Unset /\ req[r] \in Exchange /\ req[r].at = step
           /\ body[r] \in Seq(Text) /\ AnswerOK(r) /\ HoldsOwn(r) /\ r \notin ended
           /\ req[r].ctx \in Context /\ params[req[r].ctx] \in Data \cup {Unset}
<1>1. Busy(r) /\ req[r] # Unset /\ req[r] \in Exchange /\ req[r].at = step
  BY DEF HttpInv, HttpTypes, At, Busy
<1>2. req[r].ctx \in Context
  BY <1>1 DEF Exchange
<1> QED BY <1>1, <1>2 DEF HttpInv, HttpTypes, AnswerOK

LEMMA ServeHTTPStep ==
    ASSUME HttpInv, NEW r \in HttpReq, NEW c \in Context, NEW kind \in Kind, ServeHTTP(r, c, kind)
    PROVE  HttpInv'
<1> USE DEF HttpInv
<1> DEFINE q == [at |-> "decode", kind |-> kind, ctx |-> c, local |-> FALSE, target |-> "none",
                 fresh |-> params[c] = Unset, interrupted |-> FALSE]
<1>1. /\ req[r] = Unset /\ r \notin ended /\ c \in free /\ free' = free \ {c}
      /\ req' = [req EXCEPT ![r] = q]
      /\ UNCHANGED <<params, body, events, ended>>
  BY DEF ServeHTTP
<1>2. /\ q \in Exchange /\ q.at = "decode" /\ q.ctx = c /\ q.local = FALSE /\ q.interrupted = FALSE
      /\ q.fresh = (params[c] = Unset) /\ q.kind = kind
  BY DEF Exchange, Text
<1> HIDE DEF q
<1>3. /\ req' \in [HttpReq -> Exchange \cup {Unset}] /\ req'[r] = q /\ q # Unset
      /\ \A s \in HttpReq : s # r => req'[s] = req[s]
  BY <1>1, <1>2, UnsetAssumption DEF HttpTypes
<1>4. HttpTypes'
  BY <1>1, <1>3 DEF HttpTypes
<1>5. \A s \in HttpReq : SentFor(s)' = SentFor(s)
  BY <1>1 DEF SentFor
<1>6. \A s \in HttpReq : s # r => (Busy(s)' <=> Busy(s))
  BY <1>3 DEF Busy
<1>7. OwnContext'
  <2>1. \A s \in HttpReq : s # r /\ Busy(s) => req[s].ctx # c /\ req[s].ctx \notin free
    BY <1>1 DEF OwnContext
  <2>2. \A s \in HttpReq : Busy(s)' => req'[s].ctx \notin free'
    BY <1>1, <1>2, <1>3, <1>6, <2>1
  <2>3. \A s, t \in HttpReq : Busy(s)' /\ Busy(t)' /\ s # t => req'[s].ctx # req'[t].ctx
    BY <1>2, <1>3, <1>6, <2>1 DEF OwnContext
  <2> QED BY <2>2, <2>3 DEF OwnContext
<1>8. EventsOK'
  <2> SUFFICES ASSUME NEW i \in DOMAIN events
               PROVE  /\ req'[events[i].from] # Unset
                      /\ req'[events[i].from].fresh => events[i].id = events[i].from
    BY <1>1 DEF EventsOK
  <2>1. events \in Seq([id : HttpReq, from : HttpReq])
    BY DEF HttpTypes
  <2>2. events[i] \in [id : HttpReq, from : HttpReq]
    BY <2>1, ElementOf
  <2>3. events[i].from \in HttpReq /\ events[i].from # r
    BY <1>1, <2>2 DEF EventsOK
  <2> QED BY <2>3, <1>3 DEF EventsOK
<1>9. ASSUME NEW s \in HttpReq PROVE AnswerOK(s)' /\ HoldsOwn(s)'
  <2>1. CASE s # r
    <3>1. /\ req'[s] = req[s] /\ body'[s] = body[s] /\ SentFor(s)' = SentFor(s)
          /\ s \in ended' <=> s \in ended
          /\ DOMAIN events \subseteq DOMAIN events'
          /\ Busy(s) => params'[req[s].ctx] = params[req[s].ctx]
      BY <2>1, <1>1, <1>3, <1>5
    <3> QED BY <3>1, OthersStay
  <2>2. CASE s = r
    <3>1. Unanswered(r)
      BY <1>1 DEF AnswerOK
    <3>2. Unanswered(r)'
      BY <3>1, <1>1, <1>5 DEF Unanswered
    <3>3. AnswerOK(r)'
      BY <3>2, <1>1, <1>2, <1>3 DEF AnswerOK
    <3>4. MCPData(r)' = params[c]
      BY <1>1, <1>2, <1>3 DEF MCPData
    <3>5. HoldsOwn(r)'
      BY <3>4, <1>2, <1>3 DEF HoldsOwn
    <3> QED BY <2>2, <3>3, <3>5
  <2> QED BY <2>1, <2>2
<1> QED BY <1>4, <1>7, <1>8, <1>9
(***************************************************************************)
(* A step that only moves a request on, or marks it, without an answer.    *)
(***************************************************************************)
LEMMA MoveStep ==
    ASSUME HttpInv, NEW r \in HttpReq, NEW step \in {"decode", "handle", "proxy", "encode"}, At(r, step),
           NEW next \in {"handle", "proxy", "encode", "write"}, NEW target \in Text,
           req' = [req EXCEPT ![r].at = next, ![r].target = target],
           UNCHANGED <<free, params, body, events, ended>>,
           next \in {"handle", "proxy"} => step \in {"decode", "handle"},
           next = "encode" => step # "encode",
           next = "write" => step = "encode"
    PROVE  HttpInv'
<1> DEFINE q == [req[r] EXCEPT !.at = next, !.target = target]
<1>1. /\ Busy(r) /\ req[r] # Unset /\ req[r] \in Exchange /\ req[r].at = step
      /\ body[r] \in Seq(Text) /\ AnswerOK(r) /\ HoldsOwn(r) /\ r \notin ended
      /\ req[r].ctx \in Context
  BY ServedFacts
<1>2. /\ q \in Exchange /\ q.at = next /\ q.ctx = req[r].ctx /\ q.fresh = req[r].fresh
      /\ q.local = req[r].local /\ q.interrupted = req[r].interrupted /\ q.kind = req[r].kind
      /\ req' = [req EXCEPT ![r] = q] /\ req'[r] = q /\ q # Unset
  BY <1>1, UnsetAssumption DEF Exchange, HttpInv, HttpTypes
<1> HIDE DEF q
<1>3. /\ SentFor(r)' = SentFor(r) /\ body'[r] = body[r] /\ body' = [body EXCEPT ![r] = body[r]]
      /\ MCPData(r)' = MCPData(r)
  BY <1>2 DEF SentFor, HttpInv, HttpTypes, MCPData
<1>4. /\ Unanswered(r)' <=> Unanswered(r)
      /\ Answered(r)' <=> Answered(r)
      /\ Counted(r)' <=> Counted(r)
      /\ IsMCPToolCall(r)' <=> IsMCPToolCall(r)
  BY <1>2, <1>3 DEF Unanswered, Answered, Counted, IsMCPToolCall
<1>5. AnswerOK(r)'
  BY <1>1, <1>2, <1>4 DEF AnswerOK
<1>6. HoldsOwn(r)'
  BY <1>1, <1>2, <1>3 DEF HoldsOwn, Busy
<1> QED BY <1>1, <1>2, <1>3, <1>5, <1>6, ServedStep DEF HttpInv, HttpTypes

(***************************************************************************)
(* A reply that a filter, or the manager, writes before the encode phase.  *)
(***************************************************************************)
LEMMA ReplyStep ==
    ASSUME HttpInv, NEW r \in HttpReq, NEW step \in {"decode", "handle", "proxy"}, At(r, step),
           NEW next \in {"encode", "write"}, NEW text \in Text, NEW cut \in BOOLEAN,
           cut \/ step = "decode" \/ req[r].kind # "call",
           req' = [req EXCEPT ![r].at = next, ![r].local = TRUE, ![r].target = text, ![r].interrupted = cut],
           body' = [body EXCEPT ![r] = Append(@, text)],
           UNCHANGED <<free, params, events, ended>>
    PROVE  HttpInv'
<1> DEFINE q == [req[r] EXCEPT !.at = next, !.local = TRUE, !.target = text, !.interrupted = cut]
           reply == Append(body[r], text)
<1>1. /\ Busy(r) /\ req[r] # Unset /\ req[r] \in Exchange /\ req[r].at = step
      /\ body[r] \in Seq(Text) /\ AnswerOK(r) /\ HoldsOwn(r) /\ r \notin ended
      /\ req[r].ctx \in Context
  BY ServedFacts
<1>2. /\ q \in Exchange /\ q.at = next /\ q.ctx = req[r].ctx /\ q.fresh = req[r].fresh
      /\ q.local = TRUE /\ q.interrupted = cut /\ q.kind = req[r].kind
      /\ req' = [req EXCEPT ![r] = q] /\ req'[r] = q /\ q # Unset
  BY <1>1, UnsetAssumption DEF Exchange, HttpInv, HttpTypes
<1>3. Unanswered(r) /\ body[r] = <<>>
  BY <1>1 DEF AnswerOK, Unanswered
<1>4. reply \in Seq(Text) /\ Len(reply) = 1
  BY <1>1, <1>3
<1>5. body' = [body EXCEPT ![r] = reply] /\ body'[r] = reply
  BY DEF HttpInv, HttpTypes
<1> HIDE DEF q, reply
<1>6. SentFor(r)' = {} /\ MCPData(r)' = MCPData(r)
  BY <1>2, <1>3 DEF SentFor, Unanswered, MCPData
<1>7. Answered(r)'
  BY <1>4, <1>5, <1>6 DEF Answered
<1>8. ~(Counted(r)' /\ IsMCPToolCall(r)')
  <2>1. SUFFICES ASSUME Counted(r)', IsMCPToolCall(r)' PROVE FALSE
    OBVIOUS
  <2>2. req[r].fresh /\ MCPData(r) # Unset /\ MCPData(r).call /\ ~(cut /\ req[r].kind = "call")
    BY <2>1, <1>2, <1>6 DEF Counted, IsMCPToolCall
  <2>3. req[r].kind = "call" /\ step # "decode"
    BY <2>2, <1>1 DEF HoldsOwn
  <2> QED BY <2>2, <2>3
<1>9. AnswerOK(r)'
  BY <1>1, <1>2, <1>7, <1>8 DEF AnswerOK
<1>10. HoldsOwn(r)'
  BY <1>1, <1>2, <1>6 DEF HoldsOwn, Busy
<1> QED BY <1>1, <1>2, <1>4, <1>5, <1>9, <1>10, ServedStep DEF HttpInv, HttpTypes
LEMMA DecodeSteps ==
    ASSUME HttpInv, NEW r \in HttpReq,
           Refuse(r) \/ DecodeOther(r) \/ handleGetRequest(r) \/ Decode4xx(r)
    PROVE  HttpInv'
<1>1. ASSUME NEW next \in {"encode", "write"}, NEW text \in {"refused", "error"}, At(r, "decode"),
             LocalReply(r, text, next), UNCHANGED <<free, params, events, ended>>
      PROVE  HttpInv'
  <2>1. ~req[r].interrupted /\ req[r] \in Exchange
    BY <1>1, ServedFacts DEF AnswerOK
  <2>2. req' = [req EXCEPT ![r].at = next, ![r].local = TRUE, ![r].target = text, ![r].interrupted = FALSE]
    BY <1>1, <2>1 DEF LocalReply, Exchange, HttpInv, HttpTypes
  <2>3. body' = [body EXCEPT ![r] = Append(@, text)] /\ text \in Text
    BY <1>1 DEF LocalReply, Text
  <2> QED BY <1>1, <2>2, <2>3, ReplyStep
<1>2. ASSUME Refuse(r) PROVE HttpInv'
  BY <1>1, <1>2 DEF Refuse
<1>3. ASSUME DecodeOther(r) PROVE HttpInv'
  <2>1. At(r, "decode") /\ req[r] \in Exchange /\ req[r].target \in Text
    BY <1>3, ServedFacts DEF DecodeOther, Exchange
  <2>2. req' = [req EXCEPT ![r].at = "proxy", ![r].target = req[r].target]
    BY <1>3, <2>1 DEF DecodeOther, Exchange, HttpInv, HttpTypes
  <2> QED BY <1>3, <2>1, <2>2, MoveStep DEF DecodeOther
<1>4. ASSUME handleGetRequest(r) PROVE HttpInv'
  <2>1. CASE LocalReply(r, "refused", "encode")
    BY <1>1, <1>4, <2>1 DEF handleGetRequest
  <2>2. CASE req' = [req EXCEPT ![r].at = "encode", ![r].target = "stream"] /\ UNCHANGED body
    BY <1>4, <2>2, MoveStep DEF handleGetRequest, Text
  <2> QED BY <1>4, <2>1, <2>2 DEF handleGetRequest
<1>5. ASSUME Decode4xx(r) PROVE HttpInv'
  BY <1>1, <1>5 DEF Decode4xx
<1> QED BY <1>2, <1>3, <1>4, <1>5

\* The data of a POST goes into the context of its request.
LEMMA PostStep ==
    ASSUME HttpInv, NEW r \in HttpReq, handlePostRequest(r)
    PROVE  HttpInv'
<1> DEFINE q == [req[r] EXCEPT !.at = "handle"]
           data == [id |-> r, call |-> req[r].kind = "call"]
<1>1. /\ Busy(r) /\ req[r] # Unset /\ req[r] \in Exchange /\ req[r].at = "decode"
      /\ body[r] \in Seq(Text) /\ AnswerOK(r) /\ HoldsOwn(r) /\ r \notin ended
      /\ req[r].ctx \in Context
  BY ServedFacts DEF handlePostRequest
<1>2. /\ q \in Exchange /\ q.at = "handle" /\ q.ctx = req[r].ctx /\ q.fresh = req[r].fresh
      /\ q.local = req[r].local /\ q.interrupted = req[r].interrupted /\ q.kind = req[r].kind
      /\ req' = [req EXCEPT ![r] = q] /\ req'[r] = q /\ q # Unset
  BY <1>1, UnsetAssumption DEF handlePostRequest, Exchange, HttpInv, HttpTypes
<1> HIDE DEF q
<1>3. data \in Data /\ data.id = r /\ (data.call <=> req[r].kind = "call")
  <2>1. (req[r].kind = "call") \in BOOLEAN
    OBVIOUS
  <2>2. \A b \in BOOLEAN : /\ [id |-> r, call |-> b] \in Data
                           /\ [id |-> r, call |-> b].id = r /\ [id |-> r, call |-> b].call = b
    BY DEF Data
  <2> QED BY <2>1, <2>2, Zenon
<1>4. params' = [params EXCEPT ![req[r].ctx] = data]
  BY DEF handlePostRequest
<1> HIDE DEF data
<1>5. /\ params' \in [Context -> Data \cup {Unset}] /\ params'[req[r].ctx] = data
      /\ \A c \in Context : c # req[r].ctx => params'[c] = params[c]
  BY <1>1, <1>3, <1>4 DEF HttpInv, HttpTypes
<1>6. MCPData(r)' = data
  BY <1>2, <1>5 DEF MCPData
<1>7. /\ UNCHANGED <<free, events, ended>> /\ SentFor(r)' = SentFor(r)
      /\ body' = [body EXCEPT ![r] = body[r]] /\ body'[r] = body[r]
  BY DEF handlePostRequest, SentFor, HttpInv, HttpTypes
<1>8. Unanswered(r)'
  BY <1>1, <1>7 DEF AnswerOK, Unanswered
<1>9. AnswerOK(r)'
  BY <1>1, <1>2, <1>7, <1>8 DEF AnswerOK
<1>10. HoldsOwn(r)'
  BY <1>2, <1>3, <1>6 DEF HoldsOwn
<1> QED BY <1>1, <1>2, <1>5, <1>7, <1>9, <1>10, ServedStep
(***************************************************************************)
(* An answer on the event stream, by a method that replies at once or in   *)
(* the encode phase.                                                       *)
(***************************************************************************)
LEMMA SendStep ==
    ASSUME HttpInv, NEW r \in HttpReq, NEW step \in {"handle", "encode"}, At(r, step),
           NEW next \in {"encode", "write"}, NEW id \in HttpReq,
           \/ step = "handle" /\ next = "encode" /\ req[r].kind = "terminal"
           \/ /\ step = "encode" /\ next = "write"
              /\ Counted(r) => Unanswered(r) /\ req[r].kind # "notification",
           Sends(r, id), LocalReply(r, "accepted", next), req[r].fresh => id = r,
           UNCHANGED <<free, params, ended>>
    PROVE  HttpInv'
<1> DEFINE q == [req[r] EXCEPT !.at = next, !.local = TRUE, !.target = "accepted"]
           e == [id |-> id, from |-> r]
<1>1. /\ Busy(r) /\ req[r] # Unset /\ req[r] \in Exchange /\ req[r].at = step
      /\ body[r] \in Seq(Text) /\ AnswerOK(r) /\ HoldsOwn(r) /\ r \notin ended
      /\ req[r].ctx \in Context
  BY ServedFacts
<1>2. /\ q \in Exchange /\ q.at = next /\ q.ctx = req[r].ctx /\ q.fresh = req[r].fresh
      /\ q.local = TRUE /\ q.interrupted = req[r].interrupted /\ q.kind = req[r].kind
      /\ req' = [req EXCEPT ![r] = q] /\ req'[r] = q /\ q # Unset
  BY <1>1, UnsetAssumption DEF LocalReply, Exchange, Text, HttpInv, HttpTypes
<1> HIDE DEF q
<1>3. body' = [body EXCEPT ![r] = body[r]] /\ body'[r] = body[r]
  BY DEF LocalReply, HttpInv, HttpTypes
<1>4. e \in [id : HttpReq, from : HttpReq] /\ e.from = r /\ e.id = id
  OBVIOUS
<1>5. events' = Append(events, e)
  BY DEF Sends
<1>6. SentFor(r) = {} => \E i \in DOMAIN events' : SentFor(r)' = {i}
  <2> HIDE DEF e
  <2> QED BY <1>4, <1>5, SentAppends DEF HttpInv
<1>7. Unanswered(r) /\ req[r].kind # "notification" => Answered(r)'
  BY <1>1, <1>2, <1>3, <1>6 DEF Unanswered, Answered
<1>8. MCPData(r)' = MCPData(r) /\ (Counted(r)' <=> Counted(r)) /\ (IsMCPToolCall(r)' <=> IsMCPToolCall(r))
  BY <1>2 DEF MCPData, Counted, IsMCPToolCall
<1>9. AnswerOK(r)'
  <2>1. CASE step = "handle" /\ next = "encode" /\ req[r].kind = "terminal"
    <3>1. Answered(r)'
      BY <2>1, <1>1, <1>7 DEF AnswerOK
    <3>2. ~(Counted(r) /\ IsMCPToolCall(r))
      BY <2>1, <1>1 DEF HoldsOwn, IsMCPToolCall, Counted
    <3> QED BY <2>1, <3>1, <3>2, <1>1, <1>2, <1>8 DEF AnswerOK
  <2>2. CASE /\ step = "encode" /\ next = "write"
             /\ Counted(r) => Unanswered(r) /\ req[r].kind # "notification"
    BY <2>2, <1>1, <1>2, <1>7, <1>8 DEF AnswerOK
  <2> QED BY <2>1, <2>2
<1>10. HoldsOwn(r)'
  BY <1>1, <1>2, <1>8 DEF HoldsOwn, Busy
<1>11. params' \in [Context -> Data \cup {Unset}] /\ \A c \in Context : params'[c] = params[c]
  BY DEF HttpInv, HttpTypes
<1>12. \E i \in HttpReq : events' = Append(events, [id |-> i, from |-> r]) /\ (q.fresh => i = r)
  BY <1>2, <1>5
<1> QED BY <1>1, <1>2, <1>3, <1>9, <1>10, <1>11, <1>12, ServedStep

\* A notification is accepted without an answer.
LEMMA AcceptStep ==
    ASSUME HttpInv, NEW r \in HttpReq, At(r, "handle"), req[r].kind = "notification",
           LocalReply(r, "accepted", "encode"), UNCHANGED <<free, params, events, ended>>
    PROVE  HttpInv'
<1> DEFINE q == [req[r] EXCEPT !.at = "encode", !.local = TRUE, !.target = "accepted"]
<1>1. /\ Busy(r) /\ req[r] # Unset /\ req[r] \in Exchange /\ req[r].at = "handle"
      /\ body[r] \in Seq(Text) /\ AnswerOK(r) /\ HoldsOwn(r) /\ r \notin ended
      /\ req[r].ctx \in Context
  BY ServedFacts
<1>2. /\ q \in Exchange /\ q.at = "encode" /\ q.ctx = req[r].ctx /\ q.fresh = req[r].fresh
      /\ q.local = TRUE /\ q.interrupted = req[r].interrupted /\ q.kind = "notification"
      /\ req' = [req EXCEPT ![r] = q] /\ req'[r] = q /\ q # Unset
  BY <1>1, UnsetAssumption DEF LocalReply, Exchange, Text, HttpInv, HttpTypes
<1> HIDE DEF q
<1>3. body' = [body EXCEPT ![r] = body[r]] /\ body'[r] = body[r]
  BY DEF LocalReply, HttpInv, HttpTypes
<1>4. SentFor(r)' = SentFor(r) /\ Unanswered(r)
  BY <1>1 DEF SentFor, AnswerOK
<1>5. Answered(r)'
  BY <1>2, <1>3, <1>4 DEF Unanswered, Answered
<1>6. MCPData(r)' = MCPData(r) /\ (Counted(r)' <=> Counted(r)) /\ (IsMCPToolCall(r)' <=> IsMCPToolCall(r))
  BY <1>2 DEF MCPData, Counted, IsMCPToolCall
<1>7. ~(Counted(r) /\ IsMCPToolCall(r))
  BY <1>1 DEF HoldsOwn, IsMCPToolCall, Counted
<1>8. AnswerOK(r)'
  BY <1>1, <1>2, <1>5, <1>6, <1>7 DEF AnswerOK
<1>9. HoldsOwn(r)'
  BY <1>1, <1>2, <1>6 DEF HoldsOwn, Busy
<1>10. params' \in [Context -> Data \cup {Unset}] /\ \A c \in Context : params'[c] = params[c]
  BY DEF HttpInv, HttpTypes
<1> QED BY <1>1, <1>2, <1>3, <1>8, <1>9, <1>10, ServedStep

\* A POST is answered at once, refused, or passed to the proxy.
LEMMA HandleSteps ==
    ASSUME HttpInv, NEW r \in HttpReq,
           handleTerminalMethod(r) \/ SendMethodNotFound(r) \/ handleToolCall(r) \/ Proxy(r)
    PROVE  HttpInv'
<1>1. ASSUME NEW step \in {"handle", "proxy"}, At(r, step), NEW text \in Text,
             body' = [body EXCEPT ![r] = Append(@, text)],
             req' = [req EXCEPT ![r].at = "encode", ![r].local = TRUE, ![r].target = text,
                                ![r].interrupted = TRUE],
             UNCHANGED <<free, params, events, ended>>
      PROVE  HttpInv'
  BY <1>1, ReplyStep
<1>5. ASSUME At(r, "handle"), req[r].kind \in {"terminal", "unknown"}, NEW text \in {"result", "error"},
             LocalReply(r, text, "encode"), UNCHANGED <<free, params, events, ended>>
      PROVE  HttpInv'
  <2>1. ~req[r].interrupted /\ req[r] \in Exchange
    BY <1>5, ServedFacts DEF AnswerOK
  <2>2. req' = [req EXCEPT ![r].at = "encode", ![r].local = TRUE, ![r].target = text,
                           ![r].interrupted = FALSE]
    BY <1>5, <2>1 DEF LocalReply, Exchange, HttpInv, HttpTypes
  <2>3. body' = [body EXCEPT ![r] = Append(@, text)] /\ text \in Text
    BY <1>5 DEF LocalReply, Text
  <2> QED BY <1>5, <2>2, <2>3, ReplyStep
<1>2. ASSUME handleTerminalMethod(r) PROVE HttpInv'
  <2>1. At(r, "handle") /\ UNCHANGED <<free, params, ended>>
    BY <1>2 DEF handleTerminalMethod
  <2>2. CASE req[r].kind = "notification" /\ LocalReply(r, "accepted", "encode") /\ UNCHANGED events
    BY <2>1, <2>2, AcceptStep
  <2>3. CASE req[r].kind = "terminal" /\ Sends(r, r) /\ LocalReply(r, "accepted", "encode")
    BY <2>1, <2>3, SendStep
  <2>4. ASSUME req[r].kind = "terminal", NEW text \in {"result", "error"},
               LocalReply(r, text, "encode"), UNCHANGED events
        PROVE  HttpInv'
    BY <2>1, <2>4, <1>5
  <2> QED BY <1>2, <2>2, <2>3, <2>4 DEF handleTerminalMethod, TerminalAnswer
<1>6. ASSUME SendMethodNotFound(r) PROVE HttpInv'
  BY <1>5, <1>6 DEF SendMethodNotFound
<1>3. ASSUME handleToolCall(r) PROVE HttpInv'
  <2>1. At(r, "handle") /\ UNCHANGED <<free, params, events, ended>> /\ req[r] \in Exchange
        /\ req[r].target \in Text
    BY <1>3, ServedFacts DEF handleToolCall, Exchange
  <2>2. CASE req' = [req EXCEPT ![r].at = "proxy"] /\ UNCHANGED body
    <3>1. req' = [req EXCEPT ![r].at = "proxy", ![r].target = req[r].target]
      BY <2>1, <2>2 DEF Exchange, HttpInv, HttpTypes
    <3> QED BY <2>1, <2>2, <3>1, MoveStep
  <2> QED BY <1>1, <1>3, <2>1, <2>2 DEF handleToolCall, Text
<1>4. ASSUME Proxy(r) PROVE HttpInv'
  <2>1. At(r, "proxy") /\ UNCHANGED <<free, params, events, ended>>
    BY <1>4 DEF Proxy
  <2>2. ASSUME NEW answer \in {"result", "failure", "empty", "stream"},
               req' = [req EXCEPT ![r].at = "encode", ![r].target = answer], UNCHANGED body
        PROVE  HttpInv'
    BY <2>1, <2>2, MoveStep DEF Text
  <2> QED BY <1>1, <1>4, <2>1, <2>2 DEF Proxy, Text
<1> QED BY <1>2, <1>3, <1>4, <1>6
\* A tools/call is answered in the encode phase, whatever the others do there.
LEMMA EncodeSteps ==
    ASSUME HttpInv, NEW r \in HttpReq,
           EncodeNothing(r) \/ EncodeToolCallError(r) \/ sendMCPResponse(r)
    PROVE  HttpInv'
<1>1. At(r, "encode") /\ UNCHANGED <<free, params, ended>>
  BY DEF EncodeNothing, EncodeToolCallError, sendMCPResponse
<1>2. /\ Busy(r) /\ req[r] # Unset /\ req[r] \in Exchange /\ req[r].at = "encode"
      /\ body[r] \in Seq(Text) /\ AnswerOK(r) /\ HoldsOwn(r) /\ r \notin ended
      /\ req[r].ctx \in Context /\ params[req[r].ctx] \in Data \cup {Unset}
      /\ req[r].target \in Text
  BY <1>1, ServedFacts DEF Exchange
<1>3. IsMCPToolCall(r) /\ Counted(r) => Unanswered(r) /\ ~req[r].local
  BY <1>2 DEF AnswerOK
<1>4. ASSUME EncodeNothing(r) PROVE HttpInv'
  <2>1. req' = [req EXCEPT ![r].at = "write", ![r].target = req[r].target]
    BY <1>2, <1>4 DEF EncodeNothing, Exchange, HttpInv, HttpTypes
  <2> QED BY <1>1, <1>2, <1>4, <2>1, MoveStep DEF EncodeNothing
<1>5. ASSUME EncodeToolCallError(r) PROVE HttpInv'
  <2> DEFINE q == [req[r] EXCEPT !.at = "write", !.local = TRUE, !.target = "error"]
             reply == Append(body[r], "error")
  <2>1. /\ q \in Exchange /\ q.at = "write" /\ q.ctx = req[r].ctx /\ q.fresh = req[r].fresh
        /\ q.local = TRUE /\ q.interrupted = req[r].interrupted /\ q.kind = req[r].kind
        /\ req' = [req EXCEPT ![r] = q] /\ req'[r] = q /\ q # Unset
    BY <1>2, <1>5, UnsetAssumption DEF EncodeToolCallError, LocalReply, Exchange, Text, HttpInv, HttpTypes
  <2>2. /\ reply \in Seq(Text) /\ (body[r] = <<>> => Len(reply) = 1)
        /\ body' = [body EXCEPT ![r] = reply] /\ body'[r] = reply
    BY <1>2, <1>5 DEF EncodeToolCallError, LocalReply, Text, HttpInv, HttpTypes
  <2> HIDE DEF q, reply
  <2>3. /\ events' = events /\ SentFor(r)' = SentFor(r) /\ MCPData(r)' = MCPData(r)
        /\ Counted(r)' <=> Counted(r)
    BY <1>1, <1>5, <2>1 DEF EncodeToolCallError, SentFor, MCPData, Counted
  <2>4. Counted(r) => Answered(r)'
    BY <1>3, <1>5, <2>2, <2>3 DEF EncodeToolCallError, Unanswered, Answered
  <2>5. AnswerOK(r)'
    BY <1>1, <1>2, <2>1, <2>3, <2>4 DEF AnswerOK
  <2>6. HoldsOwn(r)'
    BY <1>2, <2>1, <2>3 DEF HoldsOwn
  <2> QED BY <1>1, <1>2, <2>1, <2>2, <2>3, <2>5, <2>6, ServedStep DEF HttpInv, HttpTypes
<1>6. ASSUME sendMCPResponse(r) PROVE HttpInv'
  <2>1. IsMCPToolCall(r)
    BY <1>6 DEF sendMCPResponse
  <2>2. CASE Sends(r, MCPData(r).id) /\ LocalReply(r, "accepted", "write")
    <3>1. MCPData(r).id \in HttpReq /\ (req[r].fresh => MCPData(r).id = r)
      BY <1>2, <2>1 DEF IsMCPToolCall, HoldsOwn, MCPData, Data
    <3> DEFINE id == MCPData(r).id
    <3>2. id \in HttpReq /\ (req[r].fresh => id = r) /\ Sends(r, id)
      BY <2>2, <3>1
    <3> HIDE DEF id
    <3>3. Counted(r) => req[r].kind # "notification"
      BY <1>2, <2>1 DEF IsMCPToolCall, HoldsOwn, Counted
    <3> QED BY <1>1, <1>3, <2>1, <2>2, <3>2, <3>3, SendStep
  <2>3. CASE req' = [req EXCEPT ![r].at = "write", ![r].target = "wrapped"] /\ UNCHANGED <<body, events>>
    BY <1>1, <2>3, MoveStep DEF Text
  <2> QED BY <1>6, <2>2, <2>3 DEF sendMCPResponse
<1> QED BY <1>4, <1>5, <1>6

\* What was not answered by a reply is written in the end.
LEMMA WriteStep ==
    ASSUME HttpInv, NEW r \in HttpReq, writeResponse(r)
    PROVE  HttpInv'
<1> DEFINE q == [req[r] EXCEPT !.at = "done"]
           text == IF req[r].local THEN body[r] ELSE Append(body[r], req[r].target)
<1>1. /\ Busy(r) /\ req[r] # Unset /\ req[r] \in Exchange /\ req[r].at = "write"
      /\ body[r] \in Seq(Text) /\ AnswerOK(r) /\ HoldsOwn(r) /\ r \notin ended
      /\ req[r].ctx \in Context /\ req[r].target \in Text
  BY ServedFacts DEF writeResponse, Exchange
<1>2. /\ q \in Exchange /\ q.at = "done" /\ q.ctx = req[r].ctx /\ q.fresh = req[r].fresh
      /\ q.interrupted = req[r].interrupted /\ q.kind = req[r].kind
      /\ req' = [req EXCEPT ![r] = q] /\ req'[r] = q /\ q # Unset
  BY <1>1, UnsetAssumption DEF writeResponse, Exchange, HttpInv, HttpTypes
<1>3. /\ text \in Seq(Text) /\ body' = [body EXCEPT ![r] = text] /\ body'[r] = text
      /\ req[r].local => text = body[r]
      /\ ~req[r].local /\ body[r] = <<>> => Len(text) = 1
  <2>1. body \in [HttpReq -> Seq(Text)]
    BY DEF HttpInv, HttpTypes
  <2>2. CASE req[r].local
    BY <1>1, <2>1, <2>2 DEF writeResponse
  <2>3. CASE ~req[r].local
    <3>1. text = Append(body[r], req[r].target)
      BY <2>3
    <3>2. text \in Seq(Text) /\ (body[r] = <<>> => Len(text) = 1)
      BY <1>1, <3>1
    <3>3. body' = [body EXCEPT ![r] = text]
      BY <2>3, <3>1 DEF writeResponse
    <3> HIDE DEF text
    <3> QED BY <2>1, <2>3, <3>2, <3>3
  <2> QED BY <2>2, <2>3
<1> HIDE DEF q, text
<1>4. /\ UNCHANGED <<params, events>> /\ SentFor(r)' = SentFor(r) /\ (Counted(r)' <=> Counted(r))
      /\ free' = free \cup {q.ctx} /\ ended' = ended \cup {r}
  BY <1>2 DEF writeResponse, SentFor, Counted
<1>5. Counted(r) => Answered(r)'
  BY <1>1, <1>2, <1>3, <1>4 DEF AnswerOK, Unanswered, Answered
<1>6. AnswerOK(r)'
  BY <1>2, <1>4, <1>5 DEF AnswerOK
<1>7. HoldsOwn(r)'
  BY <1>2 DEF HoldsOwn, Busy
<1> QED BY <1>1, <1>2, <1>3, <1>4, <1>6, <1>7, ServedStep DEF HttpInv, HttpTypes

LEMMA HttpInvNext == HttpInv /\ [HttpNext]_httpVars => HttpInv'
<1> SUFFICES ASSUME HttpInv, [HttpNext]_httpVars PROVE HttpInv'
  OBVIOUS
<1>1. ASSUME UNCHANGED <<free, params, req, body, events, ended>> PROVE HttpInv'
  <2>1. HttpTypes' /\ OwnContext' /\ EventsOK'
    BY <1>1 DEF HttpInv, HttpTypes, OwnContext, EventsOK, Busy
  <2>2. ASSUME NEW s \in HttpReq PROVE AnswerOK(s)' /\ HoldsOwn(s)'
    BY <1>1, OthersStay DEF SentFor
  <2> QED BY <2>1, <2>2 DEF HttpInv
<1>2. ASSUME NEW r \in HttpReq, NEW c \in Context, NEW kind \in Kind, ServeHTTP(r, c, kind) PROVE HttpInv'
  BY <1>2, ServeHTTPStep
<1>3. CASE SessionEnds \/ StreamBreaks
  BY <1>1, <1>3 DEF SessionEnds, StreamBreaks
<1>4. CASE UNCHANGED httpVars
  BY <1>1, <1>4 DEF httpVars
<1> QED BY <1>2, <1>3, <1>4, DecodeSteps, PostStep, HandleSteps, EncodeSteps, WriteStep DEF HttpNext

(***************************************************************************)
(* For any number of requests and contexts: a request whose context held   *)
(* no earlier MCP data gets exactly one answer, in its response or on the  *)
(* event stream, a notification at most a refusal, and a message on the    *)
(* stream answers the request it comes from, though contexts are reused,   *)
(* the session ends and streams break.                                     *)
(***************************************************************************)
THEOREM AnswersStaySound == HttpSpec => []AnswersAreSound
<1>1. HttpInv => AnswersAreSound
  <2> SUFFICES ASSUME HttpInv PROVE AnswersAreSound
    OBVIOUS
  <2>1. ASSUME NEW r \in ended PROVE req[r].at = "done" /\ AnswerOK(r) /\ req[r] # Unset
    BY DEF HttpInv, HttpTypes, AnswerOK
  <2>2. AnsweredOnce
    BY <2>1 DEF AnsweredOnce, AnswerOK, Counted, Answered
  <2>3. FreshAnswersItsOwn
    BY DEF FreshAnswersItsOwn, HttpInv, EventsOK
  <2> QED BY <2>2, <2>3 DEF AnswersAreSound
<1> QED BY <1>1, HttpInvInit, HttpInvNext, PTL DEF HttpSpec
-----------------------------------------------------------------------------
(***************************************************************************)
(* The circuit breaker, for any number of callers and attempts             *)
(***************************************************************************)
CallerRecord == [pc : {"idle", "call", "retry"}, attempt : Nat, probe : BOOLEAN]

\* Until a success closes it, a breaker keeps the failures that opened it: the
\* first failure of a probe opens it again.
BreakerInv ==
    /\ state \in {"closed", "open", "half"}
    /\ failureCount \in Nat
    /\ caller \in [Caller -> CallerRecord]
    /\ state # "closed" => failureCount >= FailureThreshold
    /\ HalfOpenIsProbed

(***************************************************************************)
(* For any thresholds, callers and late results: a half open breaker has a *)
(* probe under way, so it does not stay half open for want of a result.    *)
(***************************************************************************)
THEOREM BreakerIsProbed ==
    ASSUME KvConstants
    PROVE  BreakerSpec => []HalfOpenIsProbed
<1> USE DEF KvConstants
<1>1. BreakerInit => BreakerInv
  BY DEF BreakerInit, BreakerInv, CallerRecord, NoCall, HalfOpenIsProbed
<1>2. ASSUME BreakerInv, [BreakerNext]_breakerVars PROVE BreakerInv'
  <2> USE <1>2 DEF BreakerInv
  <2>1. ASSUME NEW c \in Caller, allow(c) PROVE BreakerInv'
    <3>1. CASE caller[c].pc # "call" /\ Admit(c, FALSE) /\ state = "closed" /\ UNCHANGED <<state, halfOpenCalls>>
      BY <2>1, <3>1 DEF allow, Admit, CallerRecord, HalfOpenIsProbed
    <3>2. CASE caller[c].pc # "call" /\ Admit(c, TRUE) /\ state # "closed" /\ state' = "half"
      <4>1. caller' = [caller EXCEPT ![c] = [pc |-> "call", attempt |-> caller[c].attempt + 1, probe |-> TRUE]]
        BY <3>2 DEF Admit
      <4>2. caller' \in [Caller -> CallerRecord] /\ caller'[c].pc = "call" /\ caller'[c].probe
        BY <4>1 DEF CallerRecord
      <4> QED BY <2>1, <3>2, <4>2 DEF allow, HalfOpenIsProbed
    <3>3. CASE caller[c].pc # "call" /\ caller' = [caller EXCEPT ![c] = NoCall] /\ UNCHANGED state
      BY <2>1, <3>3 DEF allow, NoCall, CallerRecord, HalfOpenIsProbed
    <3> QED BY <2>1, <3>1, <3>2, <3>3 DEF allow
  <2>2. ASSUME NEW c \in Caller, GiveUp(c) PROVE BreakerInv'
    BY <2>2 DEF GiveUp, NoCall, CallerRecord, HalfOpenIsProbed
  <2>3. ASSUME NEW c \in Caller, NEW ok \in BOOLEAN, recordResult(c, ok) PROVE BreakerInv'
    <3>1. caller' \in [Caller -> CallerRecord]
      <4>1. NoCall \in CallerRecord /\ [caller[c] EXCEPT !.pc = "retry"] \in CallerRecord
        BY DEF NoCall, CallerRecord
      <4>2. \/ caller' = [caller EXCEPT ![c] = NoCall]
            \/ caller' = [caller EXCEPT ![c] = [caller[c] EXCEPT !.pc = "retry"]]
        BY <2>3 DEF recordResult
      <4> QED BY <4>1, <4>2
    <3>2. CASE ok
      BY <2>3, <3>1, <3>2 DEF recordResult, HalfOpenIsProbed
    <3>3. CASE ~ok
      <4>1. failureCount' = failureCount + 1
            /\ state' = IF failureCount' >= FailureThreshold THEN "open" ELSE state
        BY <2>3, <3>3 DEF recordResult
      <4>2. state' # "half"
        BY <4>1
      <4> QED BY <3>1, <4>1, <4>2 DEF HalfOpenIsProbed
    <3> QED BY <3>2, <3>3
  <2>4. CASE RecoveryTimeout
    BY <2>4 DEF RecoveryTimeout, HalfOpenIsProbed
  <2>5. CASE UNCHANGED breakerVars
    BY <2>5 DEF breakerVars, HalfOpenIsProbed
  <2> QED BY <2>1, <2>2, <2>3, <2>4, <2>5 DEF BreakerNext
<1>3. BreakerInv => HalfOpenIsProbed
  BY DEF BreakerInv
<1> QED BY <1>1, <1>2, <1>3, PTL DEF BreakerSpec
-----------------------------------------------------------------------------
(***************************************************************************)
(* The token cache, for any number of requests and keys                    *)
(***************************************************************************)
Resumes == {"idle", "manage", "tokenize", "room"}
Steps == Resumes \cup {"route", "drop", "decrement", "store", "increment", "strategy"}
Ask == [pc : Steps, key : Key \cup {NoKey}, lookup : BOOLEAN, then : Resumes]

TokenTypes ==
    /\ cached \in SUBSET Key /\ IsFiniteSet(cached)
    /\ cacheSize \in Int
    /\ asker \in [Asker -> Ask]
    /\ \A c \in Asker : asker[c].pc # "idle" => asker[c].key \in Key

\* Whoever has seen room and not stored yet is counted as if it had.
RoomIsKept == Cardinality(cached) + Counting("store") <= MaxSize + Cardinality(Asker) - 1

TokenInv == TokenTypes /\ CounterFollowsTheMap /\ RoomIsKept

Doing(pc) == {c \in Asker : asker[c].pc = pc}
One(is, pc) == IF is = pc THEN 1 ELSE 0

LEMMA CountingFacts ==
    ASSUME KvConstants
    PROVE  /\ Cardinality(Asker) \in Nat
           /\ \A pc : Counting(pc) \in Nat /\ IsFiniteSet(Doing(pc)) /\ Counting(pc) = Cardinality(Doing(pc))
<1>1. \A pc : Doing(pc) \in SUBSET Asker
  BY DEF Doing
<1>2. \A pc : IsFiniteSet(Doing(pc)) /\ Cardinality(Doing(pc)) \in Nat
  BY <1>1, FS_Subset, FS_CardinalityType DEF KvConstants
<1> QED BY <1>2, FS_CardinalityType DEF Counting, Doing, KvConstants

\* How the counts follow one request.
LEMMA CountingMoves ==
    ASSUME KvConstants, asker \in [Asker -> Ask], NEW c \in Asker, NEW a \in Ask,
           asker' = [asker EXCEPT ![c] = a], NEW pc
    PROVE  Counting(pc)' = Counting(pc) - One(asker[c].pc, pc) + One(a.pc, pc)
<1> DEFINE before == Doing(pc)
           after == Doing(pc)'
<1>1. after = IF a.pc = pc THEN before \cup {c} ELSE before \ {c}
  BY DEF Doing
<1>2. c \in before <=> asker[c].pc = pc
  BY DEF Doing
<1>3. IsFiniteSet(before) /\ Cardinality(before) \in Nat /\ Counting(pc) = Cardinality(before)
  BY CountingFacts
<1>4. Counting(pc)' = Cardinality(after)
  BY DEF Counting, Doing
<1>5. /\ Cardinality(before \cup {c}) = IF c \in before THEN Cardinality(before) ELSE Cardinality(before) + 1
      /\ Cardinality(before \ {c}) = IF c \in before THEN Cardinality(before) - 1 ELSE Cardinality(before)
  BY <1>3, FS_AddElement, FS_RemoveElement
<1> HIDE DEF before, after
<1> QED BY <1>1, <1>2, <1>3, <1>4, <1>5 DEF One

\* A request that neither stores nor counts up leaves a place for itself.
LEMMA RoomForOne ==
    ASSUME KvConstants, NEW c \in Asker, asker[c].pc \notin {"store", "increment"}
    PROVE  Counting("store") + Counting("increment") <= Cardinality(Asker) - 1
<1> DEFINE S == Doing("store")
           I == Doing("increment")
<1>1. /\ IsFiniteSet(S) /\ IsFiniteSet(I) /\ Cardinality(S) \in Nat /\ Cardinality(I) \in Nat
      /\ Counting("store") = Cardinality(S) /\ Counting("increment") = Cardinality(I)
      /\ Cardinality(Asker) \in Nat
  BY CountingFacts
<1>2. S \cap I = {} /\ S \cup I \subseteq Asker \ {c}
  BY DEF Doing
<1> HIDE DEF S, I
<1>3. IsFiniteSet(Asker \ {c}) /\ Cardinality(Asker \ {c}) = Cardinality(Asker) - 1
  BY FS_RemoveElement DEF KvConstants
<1>4. Cardinality(S \cup I) = Cardinality(S) + Cardinality(I)
  <2>1. Cardinality(S \cup I) = Cardinality(S) + Cardinality(I) - Cardinality(S \cap I)
    BY <1>1, FS_Union
  <2> QED BY <1>1, <1>2, <2>1, FS_EmptySet
<1>5. Cardinality(S \cup I) <= Cardinality(Asker \ {c})
  BY <1>2, <1>3, FS_Subset
<1> QED BY <1>1, <1>3, <1>4, <1>5

(***************************************************************************)
(* A step of one request: what it does to the map is what it does to the   *)
(* counter and to the counts of steps under way.                           *)
(***************************************************************************)
LEMMA TokenStep ==
    ASSUME KvConstants, TokenInv, NEW c \in Asker, NEW a \in Ask,
           asker' = [asker EXCEPT ![c] = a], a.pc # "idle" => a.key \in Key,
           cached' \in SUBSET Key, IsFiniteSet(cached'), cacheSize' \in Int,
           Cardinality(cached') - Cardinality(cached) =
               cacheSize' - cacheSize
                   + One(a.pc, "increment") - One(asker[c].pc, "increment")
                   - One(a.pc, "decrement") + One(asker[c].pc, "decrement"),
           \/ Cardinality(cached') + One(a.pc, "store") <= Cardinality(cached) + One(asker[c].pc, "store")
           \/ /\ a.pc = "store" /\ asker[c].pc = "room" /\ cached' = cached
              /\ cacheSize < MaxSize \/ cached = {}
    PROVE  TokenInv'
<1> USE DEF TokenInv
<1>1. asker[c] \in Ask /\ asker \in [Asker -> Ask]
  BY DEF TokenTypes
<1>2. TokenTypes'
  BY DEF TokenTypes
<1>3. \A pc : Counting(pc)' = Counting(pc) - One(asker[c].pc, pc) + One(a.pc, pc)
  BY <1>1, CountingMoves
<1>4. /\ Cardinality(Asker) \in Nat /\ Counting("store") \in Nat /\ Counting("increment") \in Nat
      /\ Counting("decrement") \in Nat /\ Cardinality(cached) \in Nat /\ Cardinality(cached') \in Nat
      /\ cacheSize \in Int /\ MaxSize \in Nat \ {0}
  BY CountingFacts, FS_CardinalityType DEF TokenTypes, KvConstants
<1>5. \A is, pc : One(is, pc) \in {0, 1}
  BY DEF One
<1>6. CounterFollowsTheMap'
  <2>1. cacheSize + Counting("increment") - Counting("decrement") = Cardinality(cached)
    BY DEF CounterFollowsTheMap
  <2>2. cacheSize' + Counting("increment")' - Counting("decrement")' = Cardinality(cached')
    BY <2>1, <1>3, <1>4, <1>5
  <2> QED BY <2>2 DEF CounterFollowsTheMap
<1>7. RoomIsKept'
  <2>1. Cardinality(cached) + Counting("store") <= MaxSize + Cardinality(Asker) - 1
    BY DEF RoomIsKept
  <2>2. Counting("store")' = Counting("store") - One(asker[c].pc, "store") + One(a.pc, "store")
    BY <1>3
  <2>3. CASE Cardinality(cached') + One(a.pc, "store") <= Cardinality(cached) + One(asker[c].pc, "store")
    <3>1. Cardinality(cached') + Counting("store")' <= MaxSize + Cardinality(Asker) - 1
      BY <2>1, <2>2, <2>3, <1>4, <1>5
    <3> QED BY <3>1 DEF RoomIsKept
  <2>4. CASE a.pc = "store" /\ asker[c].pc = "room" /\ cached' = cached /\ (cacheSize < MaxSize \/ cached = {})
    <3>1. Counting("store") + Counting("increment") <= Cardinality(Asker) - 1
      BY <2>4, RoomForOne
    <3>2. Counting("store")' = Counting("store") + 1
      BY <2>2, <2>4, <1>4 DEF One
    <3>3. cached = {} => Cardinality(cached) = 0
      BY FS_EmptySet
    <3>4. cacheSize + Counting("increment") - Counting("decrement") = Cardinality(cached)
      BY DEF CounterFollowsTheMap
    <3>5. Cardinality(cached') + Counting("store")' <= MaxSize + Cardinality(Asker) - 1
      BY <2>4, <3>1, <3>2, <3>3, <3>4, <1>4
    <3> QED BY <3>5 DEF RoomIsKept
  <2> QED BY <2>3, <2>4
<1> QED BY <1>2, <1>6, <1>7

\* A step that changes neither the map nor the counter, and no count of them.
LEMMA QuietStep ==
    ASSUME KvConstants, TokenInv, NEW c \in Asker, NEW a \in Ask,
           asker' = [asker EXCEPT ![c] = a], a.pc # "idle" => a.key \in Key,
           a.pc \notin {"store", "increment", "decrement"},
           asker[c].pc \notin {"store", "increment", "decrement"},
           UNCHANGED <<cached, cacheSize>>
    PROVE  TokenInv'
<1>1. /\ One(a.pc, "store") = 0 /\ One(a.pc, "increment") = 0 /\ One(a.pc, "decrement") = 0
      /\ One(asker[c].pc, "store") = 0 /\ One(asker[c].pc, "increment") = 0
      /\ One(asker[c].pc, "decrement") = 0
  BY DEF One
<1>2. Cardinality(cached) \in Nat /\ cached \in SUBSET Key /\ IsFiniteSet(cached) /\ cacheSize \in Int
  BY FS_CardinalityType DEF TokenInv, TokenTypes
<1>3. Cardinality(cached') - Cardinality(cached) =
          cacheSize' - cacheSize
              + One(a.pc, "increment") - One(asker[c].pc, "increment")
              - One(a.pc, "decrement") + One(asker[c].pc, "decrement")
  BY <1>1, <1>2
<1>4. Cardinality(cached') + One(a.pc, "store") <= Cardinality(cached) + One(asker[c].pc, "store")
  BY <1>1, <1>2
<1>5. cached' \in SUBSET Key /\ IsFiniteSet(cached') /\ cacheSize' \in Int
  BY <1>2
<1> QED BY <1>3, <1>4, <1>5, TokenStep

\* Go changes the place of the request and nothing else of it.
LEMMA GoMoves ==
    ASSUME TokenInv, NEW c \in Asker, NEW p \in Steps, Go(c, p)
    PROVE  \E a \in Ask : /\ asker' = [asker EXCEPT ![c] = a]
                          /\ a.pc = p /\ a.key = asker[c].key
<1>1. asker[c] \in Ask
  BY DEF TokenInv, TokenTypes
<1>2. asker' = [asker EXCEPT ![c] = [asker[c] EXCEPT !.pc = p]]
  BY DEF Go
<1>3. [asker[c] EXCEPT !.pc = p] \in Ask
  BY <1>1 DEF Ask
<1> QED BY <1>1, <1>2, <1>3 DEF Ask

\* The request ends.
LEMMA EndStep ==
    ASSUME KvConstants, TokenInv, NEW c \in Asker, asker' = [asker EXCEPT ![c] = NoRequest],
           asker[c].pc \notin {"store", "increment", "decrement"}, UNCHANGED <<cached, cacheSize>>
    PROVE  TokenInv'
<1>1. NoRequest \in Ask /\ NoRequest.pc = "idle"
  BY DEF NoRequest, Ask, Steps, Resumes
<1> QED BY <1>1, QuietStep

\* The request goes on, and keeps its key.
LEMMA GoStep ==
    ASSUME KvConstants, TokenInv, NEW c \in Asker, NEW p \in Steps, Go(c, p),
           asker[c].pc \notin {"idle", "store", "increment", "decrement"},
           p \notin {"store", "increment", "decrement"}, UNCHANGED <<cached, cacheSize>>
    PROVE  TokenInv'
<1>1. PICK a \in Ask : asker' = [asker EXCEPT ![c] = a] /\ a.pc = p /\ a.key = asker[c].key
  BY GoMoves
<1>2. asker[c].key \in Key
  BY DEF TokenInv, TokenTypes
<1> QED BY <1>1, <1>2, QuietStep

LEMMA LookupSteps ==
    ASSUME KvConstants, TokenInv, NEW c \in Asker,
           \/ \E k \in Key : Decode(c, k)
           \/ RouteLookup(c) \/ manageCache(c) \/ tokenize(c) \/ MakeDecision(c)
    PROVE  TokenInv'
<1>1. asker \in [Asker -> Ask] /\ asker[c] \in Ask /\ (asker[c].pc # "idle" => asker[c].key \in Key)
  BY DEF TokenInv, TokenTypes
<1>2. ASSUME NEW k \in Key, Decode(c, k) PROVE TokenInv'
  <2> DEFINE p == IF k \in cached /\ k \in expired THEN "drop"
                  ELSE IF k \in cached THEN "route" ELSE "manage"
             a == [NoRequest EXCEPT !.key = k, !.pc = p, !.then = "manage"]
  <2>1. p \in {"drop", "route", "manage"}
    OBVIOUS
  <2>2. asker' = [asker EXCEPT ![c] = a] /\ asker[c].pc = "idle" /\ UNCHANGED <<cached, cacheSize>>
    BY <1>2 DEF Decode
  <2> HIDE DEF p
  <2>3. a \in Ask /\ a.pc = p /\ a.key = k
    BY <2>1 DEF NoRequest, Ask, Steps, Resumes
  <2> HIDE DEF a
  <2> QED BY <2>1, <2>2, <2>3, QuietStep
<1>3. CASE RouteLookup(c)
  <2>1. PICK done \in BOOLEAN : asker' = [asker EXCEPT ![c].pc = "manage", ![c].lookup = done]
    BY <1>3 DEF RouteLookup
  <2> DEFINE a == [asker[c] EXCEPT !.pc = "manage", !.lookup = done]
  <2>2. asker' = [asker EXCEPT ![c] = a]
    BY <1>1, <2>1
  <2>3. a \in Ask /\ a.pc = "manage" /\ a.key = asker[c].key
    BY <1>1 DEF Ask, Steps, Resumes
  <2>4. asker[c].pc = "route" /\ UNCHANGED <<cached, cacheSize>>
    BY <1>3 DEF RouteLookup
  <2> HIDE DEF a
  <2> QED BY <1>1, <2>2, <2>3, <2>4, QuietStep
<1>4. CASE manageCache(c)
  <2>1. asker[c].pc = "manage" /\ UNCHANGED <<cached, cacheSize>>
    BY <1>4 DEF manageCache
  <2>2. CASE asker' = [asker EXCEPT ![c] = NoRequest]
    BY <2>1, <2>2, EndStep
  <2>3. CASE Go(c, "strategy") \/ Go(c, "tokenize")
    <3>1. {"strategy", "tokenize"} \subseteq Steps
      BY DEF Steps, Resumes
    <3> QED BY <2>1, <2>3, <3>1, GoStep
  <2>4. CASE asker' = [asker EXCEPT ![c].pc = "drop", ![c].then = "tokenize"]
    <3> DEFINE a == [asker[c] EXCEPT !.pc = "drop", !.then = "tokenize"]
    <3>1. asker' = [asker EXCEPT ![c] = a]
      BY <1>1, <2>4
    <3>2. a \in Ask /\ a.pc = "drop" /\ a.key = asker[c].key
      BY <1>1 DEF Ask, Steps, Resumes
    <3> HIDE DEF a
    <3> QED BY <1>1, <2>1, <3>1, <3>2, QuietStep
  <2> QED BY <1>4, <2>2, <2>3, <2>4 DEF manageCache, GetTokens
<1>5. CASE tokenize(c)
  <2>1. asker[c].pc = "tokenize" /\ UNCHANGED <<cached, cacheSize>> /\ "room" \in Steps
    BY <1>5 DEF tokenize, Steps, Resumes
  <2>2. CASE Go(c, "room")
    BY <2>1, <2>2, GoStep
  <2>3. CASE asker' = [asker EXCEPT ![c] = NoRequest]
    BY <2>1, <2>3, EndStep
  <2> QED BY <1>5, <2>2, <2>3 DEF tokenize
<1>6. CASE MakeDecision(c)
  BY <1>6, EndStep DEF MakeDecision
<1> QED BY <1>2, <1>3, <1>4, <1>5, <1>6

\* An entry is taken out, or has gone already.
LEMMA Removed ==
    ASSUME TokenInv, NEW k
    PROVE  /\ cached \ {k} \in SUBSET Key /\ IsFiniteSet(cached \ {k})
           /\ Cardinality(cached) \in Nat
           /\ Cardinality(cached \ {k}) =
                 IF k \in cached THEN Cardinality(cached) - 1 ELSE Cardinality(cached)
<1>1. cached \in SUBSET Key /\ IsFiniteSet(cached)
  BY DEF TokenInv, TokenTypes
<1> QED BY <1>1, FS_RemoveElement, FS_CardinalityType

LEMMA deleteCacheStep ==
    ASSUME KvConstants, TokenInv, NEW c \in Asker, deleteCache(c)
    PROVE  TokenInv'
<1>1. asker[c] \in Ask /\ asker[c].key \in Key /\ asker[c].then \in Resumes /\ cacheSize \in Int
  BY DEF TokenInv, TokenTypes, deleteCache, Ask
<1> DEFINE k == asker[c].key
           p == IF k \in cached THEN "decrement" ELSE asker[c].then
<1>2. p \in Steps /\ (k \in cached => p = "decrement") /\ (k \notin cached => p \in Resumes)
  BY <1>1 DEF Steps
<1>3. Go(c, p) /\ asker[c].pc = "drop" /\ cached' = cached \ {k} /\ cacheSize' = cacheSize
  BY DEF deleteCache
<1> HIDE DEF p
<1>4. PICK a \in Ask : asker' = [asker EXCEPT ![c] = a] /\ a.pc = p /\ a.key = k
  BY <1>2, <1>3, GoMoves
<1>5. /\ cached' \in SUBSET Key /\ IsFiniteSet(cached') /\ Cardinality(cached) \in Nat
      /\ Cardinality(cached') = IF k \in cached THEN Cardinality(cached) - 1 ELSE Cardinality(cached)
  BY <1>3, Removed
<1>6. /\ One(a.pc, "store") = 0 /\ One(a.pc, "increment") = 0
      /\ One(a.pc, "decrement") = IF k \in cached THEN 1 ELSE 0
      /\ One(asker[c].pc, "store") = 0 /\ One(asker[c].pc, "increment") = 0
      /\ One(asker[c].pc, "decrement") = 0
  BY <1>2, <1>3, <1>4 DEF One, Resumes
<1>7. Cardinality(cached') - Cardinality(cached) =
          cacheSize' - cacheSize
              + One(a.pc, "increment") - One(asker[c].pc, "increment")
              - One(a.pc, "decrement") + One(asker[c].pc, "decrement")
  BY <1>1, <1>3, <1>5, <1>6
<1>8. Cardinality(cached') + One(a.pc, "store") <= Cardinality(cached) + One(asker[c].pc, "store")
  BY <1>5, <1>6
<1> QED BY <1>1, <1>3, <1>4, <1>5, <1>7, <1>8, TokenStep

\* The counter follows what the request did to the map.
LEMMA CountSteps ==
    ASSUME KvConstants, TokenInv, NEW c \in Asker, CountDown(c) \/ CountUp(c)
    PROVE  TokenInv'
<1>1. asker[c] \in Ask /\ asker[c].key \in Key /\ asker[c].then \in Resumes
  BY DEF TokenInv, TokenTypes, CountDown, CountUp, Ask
<1>2. /\ cached \in SUBSET Key /\ IsFiniteSet(cached) /\ cacheSize \in Int /\ cached' = cached
      /\ Cardinality(cached) \in Nat
  BY FS_CardinalityType DEF TokenInv, TokenTypes, CountDown, CountUp
<1>3. CASE CountDown(c)
  <2>1. asker[c].pc = "decrement" /\ cacheSize' = cacheSize - 1 /\ Go(c, asker[c].then)
    BY <1>3 DEF CountDown
  <2>2. asker[c].then \in Steps
    BY <1>1 DEF Steps
  <2>3. PICK a \in Ask : asker' = [asker EXCEPT ![c] = a] /\ a.pc = asker[c].then /\ a.key = asker[c].key
    BY <2>1, <2>2, GoMoves
  <2>4. /\ One(a.pc, "store") = 0 /\ One(a.pc, "increment") = 0 /\ One(a.pc, "decrement") = 0
        /\ One(asker[c].pc, "store") = 0 /\ One(asker[c].pc, "increment") = 0
        /\ One(asker[c].pc, "decrement") = 1
    BY <1>1, <2>1, <2>3 DEF One, Resumes
  <2>5. Cardinality(cached') - Cardinality(cached) =
            cacheSize' - cacheSize
                + One(a.pc, "increment") - One(asker[c].pc, "increment")
                - One(a.pc, "decrement") + One(asker[c].pc, "decrement")
    BY <1>2, <2>1, <2>4
  <2>6. Cardinality(cached') + One(a.pc, "store") <= Cardinality(cached) + One(asker[c].pc, "store")
    BY <1>2, <2>4
  <2>7. cached' \in SUBSET Key /\ IsFiniteSet(cached') /\ cacheSize' \in Int
    BY <1>2, <2>1
  <2> QED BY <1>1, <2>3, <2>5, <2>6, <2>7, TokenStep
<1>4. CASE CountUp(c)
  <2>1. asker[c].pc = "increment" /\ cacheSize' = cacheSize + 1 /\ Go(c, "strategy")
    BY <1>4 DEF CountUp
  <2>2. "strategy" \in Steps
    BY DEF Steps
  <2>3. PICK a \in Ask : asker' = [asker EXCEPT ![c] = a] /\ a.pc = "strategy" /\ a.key = asker[c].key
    BY <2>1, <2>2, GoMoves
  <2>4. /\ One(a.pc, "store") = 0 /\ One(a.pc, "increment") = 0 /\ One(a.pc, "decrement") = 0
        /\ One(asker[c].pc, "store") = 0 /\ One(asker[c].pc, "increment") = 1
        /\ One(asker[c].pc, "decrement") = 0
    BY <2>1, <2>3 DEF One
  <2>5. Cardinality(cached') - Cardinality(cached) =
            cacheSize' - cacheSize
                + One(a.pc, "increment") - One(asker[c].pc, "increment")
                - One(a.pc, "decrement") + One(asker[c].pc, "decrement")
    BY <1>2, <2>1, <2>4
  <2>6. Cardinality(cached') + One(a.pc, "store") <= Cardinality(cached) + One(asker[c].pc, "store")
    BY <1>2, <2>4
  <2>7. cached' \in SUBSET Key /\ IsFiniteSet(cached') /\ cacheSize' \in Int
    BY <1>2, <2>1
  <2> QED BY <1>1, <2>3, <2>5, <2>6, <2>7, TokenStep
<1> QED BY <1>3, <1>4

\* One that sees room goes on to store: RoomForOne is what keeps the bound here.
LEMMA evictOneStep ==
    ASSUME KvConstants, TokenInv, NEW c \in Asker, evictOne(c)
    PROVE  TokenInv'
<1>1. asker[c] \in Ask /\ asker \in [Asker -> Ask] /\ asker[c].key \in Key /\ asker[c].pc = "room"
  BY DEF TokenInv, TokenTypes, evictOne
<1>2. /\ cached \in SUBSET Key /\ IsFiniteSet(cached) /\ cacheSize \in Int /\ cacheSize' = cacheSize
      /\ Cardinality(cached) \in Nat /\ MaxSize \in Nat
  BY FS_CardinalityType DEF TokenInv, TokenTypes, evictOne, KvConstants
<1>3. CASE (cacheSize < MaxSize \/ cached = {}) /\ Go(c, "store") /\ cached' = cached
  <2>1. "store" \in Steps
    BY DEF Steps
  <2>2. PICK a \in Ask : asker' = [asker EXCEPT ![c] = a] /\ a.pc = "store" /\ a.key = asker[c].key
    BY <1>3, <2>1, GoMoves
  <2>3. /\ One(a.pc, "increment") = 0 /\ One(a.pc, "decrement") = 0
        /\ One(asker[c].pc, "increment") = 0 /\ One(asker[c].pc, "decrement") = 0
    BY <1>1, <2>2 DEF One
  <2>4. Cardinality(cached') - Cardinality(cached) =
            cacheSize' - cacheSize
                + One(a.pc, "increment") - One(asker[c].pc, "increment")
                - One(a.pc, "decrement") + One(asker[c].pc, "decrement")
    BY <1>2, <1>3, <2>3
  <2>5. cached' \in SUBSET Key /\ IsFiniteSet(cached') /\ cacheSize' \in Int
    BY <1>2, <1>3
  <2> QED BY <1>1, <1>3, <2>2, <2>4, <2>5, TokenStep
<1>4. ASSUME NEW k \in cached, cached' = cached \ {k},
             asker' = [asker EXCEPT ![c].pc = "decrement", ![c].then = "room"]
      PROVE  TokenInv'
  <2> DEFINE a == [asker[c] EXCEPT !.pc = "decrement", !.then = "room"]
  <2>1. asker' = [asker EXCEPT ![c] = a]
    BY <1>1, <1>4
  <2>2. a \in Ask /\ a.pc = "decrement" /\ a.key = asker[c].key
    BY <1>1 DEF Ask, Steps, Resumes
  <2> HIDE DEF a
  <2>3. /\ One(a.pc, "store") = 0 /\ One(a.pc, "increment") = 0 /\ One(a.pc, "decrement") = 1
        /\ One(asker[c].pc, "store") = 0 /\ One(asker[c].pc, "increment") = 0
        /\ One(asker[c].pc, "decrement") = 0
    BY <1>1, <2>2 DEF One
  <2>4. /\ cached' \in SUBSET Key /\ IsFiniteSet(cached')
        /\ Cardinality(cached') = Cardinality(cached) - 1
    BY <1>4, Removed
  <2>5. Cardinality(cached') - Cardinality(cached) =
            cacheSize' - cacheSize
                + One(a.pc, "increment") - One(asker[c].pc, "increment")
                - One(a.pc, "decrement") + One(asker[c].pc, "decrement")
    BY <1>2, <2>3, <2>4
  <2>6. Cardinality(cached') + One(a.pc, "store") <= Cardinality(cached) + One(asker[c].pc, "store")
    BY <1>2, <2>3, <2>4
  <2> QED BY <1>1, <1>2, <2>1, <2>2, <2>4, <2>5, <2>6, TokenStep
<1> QED BY <1>3, <1>4 DEF evictOne

LEMMA storeCacheStep ==
    ASSUME KvConstants, TokenInv, NEW c \in Asker, storeCache(c)
    PROVE  TokenInv'
<1>1. asker[c] \in Ask /\ asker[c].key \in Key /\ asker[c].pc = "store"
  BY DEF TokenInv, TokenTypes, storeCache
<1>2. /\ cached \in SUBSET Key /\ IsFiniteSet(cached) /\ cacheSize \in Int /\ cacheSize' = cacheSize
      /\ Cardinality(cached) \in Nat
  BY FS_CardinalityType DEF TokenInv, TokenTypes, storeCache
<1> DEFINE k == asker[c].key
           p == IF k \in cached THEN "strategy" ELSE "increment"
<1>3. Go(c, p) /\ cached' = cached \cup {k} /\ p \in Steps
  BY DEF storeCache, Steps
<1>4. (k \in cached => p = "strategy") /\ (k \notin cached => p = "increment")
  OBVIOUS
<1> HIDE DEF p
<1>5. PICK a \in Ask : asker' = [asker EXCEPT ![c] = a] /\ a.pc = p /\ a.key = k
  BY <1>3, GoMoves
<1>6. /\ cached' \in SUBSET Key /\ IsFiniteSet(cached')
      /\ Cardinality(cached') = IF k \in cached THEN Cardinality(cached) ELSE Cardinality(cached) + 1
  BY <1>1, <1>2, <1>3, FS_AddElement
<1>7. /\ One(a.pc, "store") = 0 /\ One(a.pc, "decrement") = 0
      /\ One(a.pc, "increment") = IF k \in cached THEN 0 ELSE 1
      /\ One(asker[c].pc, "store") = 1 /\ One(asker[c].pc, "increment") = 0
      /\ One(asker[c].pc, "decrement") = 0
  BY <1>1, <1>4, <1>5 DEF One
<1>8. Cardinality(cached') - Cardinality(cached) =
          cacheSize' - cacheSize
              + One(a.pc, "increment") - One(asker[c].pc, "increment")
              - One(a.pc, "decrement") + One(asker[c].pc, "decrement")
  BY <1>2, <1>6, <1>7
<1>9. Cardinality(cached') + One(a.pc, "store") <= Cardinality(cached) + One(asker[c].pc, "store")
  BY <1>2, <1>6, <1>7
<1> QED BY <1>1, <1>2, <1>5, <1>6, <1>8, <1>9, TokenStep

\* The counter of the token cache is off from its map by the steps under way and
\* nothing else, and the map outgrows its bound by the other requests of the
\* moment at most (storeCache, evictOne and deleteCache), for any number of
\* requests, any keys and any bound but the one that says there is none.
THEOREM TokenCacheIsBounded ==
    ASSUME KvConstants
    PROVE  TokensSpec => [](CounterFollowsTheMap /\ CacheIsBounded)
<1>1. ASSUME TokensInit PROVE TokenInv
  <2>1. NoRequest \in Ask /\ NoRequest.pc = "idle"
    BY DEF NoRequest, Ask, Steps, Resumes
  <2>2. asker = [c \in Asker |-> NoRequest] /\ cached = {} /\ cacheSize = 0
    BY <1>1 DEF TokensInit
  <2>3. \A pc : pc # "idle" => Counting(pc) = 0
    <3>1. \A pc : pc # "idle" => {c \in Asker : asker[c].pc = pc} = {}
      BY <2>1, <2>2
    <3> QED BY <3>1, FS_EmptySet DEF Counting
  <2>4. Cardinality(cached) = 0 /\ IsFiniteSet(cached)
    BY <2>2, FS_EmptySet
  <2>5. TokenTypes
    BY <2>1, <2>2, <2>4 DEF TokenTypes
  <2>6. CounterFollowsTheMap
    BY <2>2, <2>3, <2>4 DEF CounterFollowsTheMap
  <2>7. RoomIsKept
    BY <2>3, <2>4, CountingFacts DEF RoomIsKept, KvConstants
  <2> QED BY <2>5, <2>6, <2>7 DEF TokenInv
<1>2. ASSUME TokenInv, [TokensNext]_tokenVars PROVE TokenInv'
  <2>1. CASE UNCHANGED <<cached, cacheSize, asker>>
    BY <1>2, <2>1 DEF TokenInv, TokenTypes, CounterFollowsTheMap, RoomIsKept, Counting
  <2>2. ASSUME NEW k \in Key, Expires(k) PROVE TokenInv'
    BY <2>1, <2>2 DEF Expires
  <2>3. CASE UNCHANGED tokenVars
    BY <2>1, <2>3 DEF tokenVars
  <2>4. ASSUME NEW c \in Asker,
               \/ \E k \in Key : Decode(c, k)
               \/ RouteLookup(c) \/ manageCache(c) \/ tokenize(c) \/ MakeDecision(c)
        PROVE  TokenInv'
    BY <1>2, <2>4, LookupSteps
  <2>5. ASSUME NEW c \in Asker, deleteCache(c) PROVE TokenInv'
    BY <1>2, <2>5, deleteCacheStep
  <2>6. ASSUME NEW c \in Asker, CountDown(c) \/ CountUp(c) PROVE TokenInv'
    BY <1>2, <2>6, CountSteps
  <2>7. ASSUME NEW c \in Asker, evictOne(c) PROVE TokenInv'
    BY <1>2, <2>7, evictOneStep
  <2>8. ASSUME NEW c \in Asker, storeCache(c) PROVE TokenInv'
    BY <1>2, <2>8, storeCacheStep
  <2> QED BY <1>2, <2>2, <2>3, <2>4, <2>5, <2>6, <2>7, <2>8 DEF TokensNext
<1>3. TokenInv => CounterFollowsTheMap /\ CacheIsBounded
  BY CountingFacts, FS_CardinalityType
     DEF TokenInv, TokenTypes, RoomIsKept, CacheIsBounded, KvConstants
<1> QED BY <1>1, <1>2, <1>3, PTL DEF TokensSpec
=============================================================================
