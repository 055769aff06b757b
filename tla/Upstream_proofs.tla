---------------------------- MODULE Upstream_proofs ----------------------------
(***************************************************************************)
(* Proofs about the way to a healthy upstream host: the endpoint snapshots *)
(* of a cluster (ClusterRuntime) and one health-check session              *)
(* (EndpointChecker).                                                      *)
(***************************************************************************)
EXTENDS ClusterRuntime, EndpointChecker, FiniteSetTheorems, TLAPS

-----------------------------------------------------------------------------
(***************************************************************************)
(* Health verdicts and membership changes of one cluster survive each      *)
(* other for any endpoints, addresses, runtimes and number of changes      *)
(***************************************************************************)
\* The states of a health verdict on its way and of a manager's call.
UpdaterLoad == [at : {"load"}, address : Address, healthy : BOOLEAN]
UpdaterCas == [at : {"cas"}, address : Address, healthy : BOOLEAN, next : View, fresh : BOOLEAN]
WriterLoad == [at : {"load"}, start : SUBSET Address]
WriterCas == [at : {"cas"}, start : SUBSET Address, fresh : BOOLEAN, next : View]
WriterBuild == [at : {"build"}, config : View, checked : BOOLEAN]

RuntimeTypes ==
    /\ TypeOK
    /\ checked \in BOOLEAN
    /\ updater \in [Object -> {Nobody} \cup UpdaterLoad \cup UpdaterCas]
    /\ writer \in {Nobody} \cup WriterLoad \cup WriterCas \cup WriterBuild

\* An accepted verdict is about an address that is served, and is what is served.
Shows(view, known) ==
    \A a \in Address :
        /\ known[a] = "up" => At(view, a) \subseteq view.healthy
        /\ known[a] = "down" => At(view, a) \cap view.healthy = {}
        /\ known[a] # "none" => At(view, a) # {}

\* Only the serving runtime is written to, and only while it accepts verdicts.
OneRuntimeAccepts ==
    /\ accepting = IF writer.at = "build" THEN {} ELSE {serving}
    /\ \A o \in Object : updater[o] # Nobody => o \in accepting /\ checked
    /\ ~checked => \A a \in Address : verdict[a] = "none"

\* What was computed from a snapshot that is still the published one.
FreshUpdate ==
    LET u == updater[serving]
    IN  u \in UpdaterCas /\ u.fresh = TRUE =>
            /\ u.next = WithAddressHealth(snapshot[serving], u.address, u.healthy)
            /\ At(snapshot[serving], u.address) # {}

FreshRefresh ==
    writer \in WriterCas /\ writer.fresh = TRUE =>
        writer.next = newEndpointSnapshot(config, snapshot[serving], checked)

\* A call under way starts the session its change still lacks.
CheckersFollow ==
    /\ writer = Nobody => checkers = CheckersFor(config, checked)
    /\ writer \in WriterLoad \cup WriterCas => checkers \cup writer.start = CheckersFor(config, checked)

RuntimeInv ==
    /\ RuntimeTypes
    /\ Shows(snapshot[serving], verdict)
    /\ OneRuntimeAccepts
    /\ FreshUpdate
    /\ FreshRefresh
    /\ MembershipPublished
    /\ CheckersFollow

-----------------------------------------------------------------------------
\* What a view is made of.
LEMMA ViewParts ==
    ASSUME NEW view \in View
    PROVE  /\ IDs(view) \in SUBSET EndpointID
           /\ view.addr \in [IDs(view) -> Address]
           /\ view.healthy \in SUBSET IDs(view)
           /\ view = [addr |-> view.addr, healthy |-> view.healthy]
BY DEF View, IDs

\* What makes a view.
LEMMA ViewMade ==
    ASSUME NEW S \in SUBSET EndpointID, NEW f \in [S -> Address], NEW H \in SUBSET S
    PROVE  [addr |-> f, healthy |-> H] \in View
BY DEF View

\* The endpoints at an address are the ones the view puts there.
LEMMA AtMember ==
    ASSUME NEW view \in View, NEW a
    PROVE  \A i : i \in At(view, a) <=> i \in IDs(view) /\ view.addr[i] = a
BY DEF At

\* A snapshot has the addresses of the config it is made for, and the inherited health.
LEMMA NewSnapshot ==
    ASSUME NEW new \in View, NEW previous \in View, NEW inherit \in BOOLEAN
    PROVE  LET s == newEndpointSnapshot(new, previous, inherit) IN
           /\ s \in View
           /\ s.addr = new.addr
           /\ inherit => \A i \in IDs(new) : i \in s.healthy <=> InheritedHealth(new, previous, i)
<1>1. new.healthy \in SUBSET IDs(new) /\ IDs(new) \in SUBSET EndpointID /\ new.addr \in [IDs(new) -> Address]
    BY ViewParts
<1> DEFINE H == IF inherit THEN {i \in IDs(new) : InheritedHealth(new, previous, i)} ELSE new.healthy
<1>2. H \in SUBSET IDs(new)
    BY <1>1
<1>3. newEndpointSnapshot(new, previous, inherit) = [addr |-> new.addr, healthy |-> H]
    BY DEF newEndpointSnapshot
<1>4. inherit => \A i \in IDs(new) : i \in H <=> InheritedHealth(new, previous, i)
    OBVIOUS
<1> HIDE DEF H
<1>5. [addr |-> new.addr, healthy |-> H] \in View
    BY <1>1, <1>2, ViewMade
<1> QED BY <1>3, <1>4, <1>5

\* A verdict changes the health of the endpoints at its address and nothing else.
LEMMA AddressHealth ==
    ASSUME NEW view \in View, NEW a \in Address, NEW healthy \in BOOLEAN
    PROVE  LET s == WithAddressHealth(view, a, healthy) IN
           /\ s \in View
           /\ s.addr = view.addr
           /\ s.healthy = IF healthy THEN view.healthy \cup At(view, a) ELSE view.healthy \ At(view, a)
<1> DEFINE H == IF healthy THEN view.healthy \cup At(view, a) ELSE view.healthy \ At(view, a)
<1>1. /\ IDs(view) \in SUBSET EndpointID /\ view.addr \in [IDs(view) -> Address]
      /\ view.healthy \in SUBSET IDs(view)
      /\ view = [addr |-> view.addr, healthy |-> view.healthy]
    BY ViewParts
<1>2. H \in SUBSET IDs(view)
    BY <1>1 DEF At
<1>3. WithAddressHealth(view, a, healthy) = [view EXCEPT !.healthy = H]
    BY Zenon DEF WithAddressHealth
<1> HIDE DEF H
<1>6. [view EXCEPT !.healthy = H] = [addr |-> view.addr, healthy |-> H]
    BY <1>1
<1>4. [addr |-> view.addr, healthy |-> H] \in View
    BY <1>1, <1>2, ViewMade
<1>5. H = IF healthy THEN view.healthy \cup At(view, a) ELSE view.healthy \ At(view, a)
    BY DEF H
<1> QED BY <1>3, <1>4, <1>5, <1>6

\* A verdict about an address nobody is at changes nothing.
LEMMA UnknownAddress ==
    ASSUME NEW view \in View, NEW a \in Address, NEW healthy \in BOOLEAN, At(view, a) = {}
    PROVE  WithAddressHealth(view, a, healthy) = view
<1> DEFINE s == WithAddressHealth(view, a, healthy)
<1>1. s \in View /\ s.addr = view.addr
    BY AddressHealth
<1>2. s.healthy = IF healthy THEN view.healthy \cup At(view, a) ELSE view.healthy \ At(view, a)
    BY AddressHealth
<1> HIDE DEF s
<1>3. s.healthy = view.healthy
    BY <1>2
<1>4. view = [addr |-> view.addr, healthy |-> view.healthy] /\ s = [addr |-> s.addr, healthy |-> s.healthy]
    BY <1>1, ViewParts
<1>5. s = view
    BY <1>1, <1>3, <1>4
<1> QED BY <1>5 DEF s

\* Publishing the snapshot a verdict asks for makes the verdict show and hides no other.
LEMMA VerdictShows ==
    ASSUME NEW view \in View, NEW a \in Address, NEW healthy \in BOOLEAN,
           NEW known \in [Address -> {"none", "up", "down"}],
           Shows(view, known), At(view, a) # {}
    PROVE  Shows(WithAddressHealth(view, a, healthy),
                 [known EXCEPT ![a] = IF healthy THEN "up" ELSE "down"])
<1> DEFINE s == WithAddressHealth(view, a, healthy)
           said == IF healthy THEN "up" ELSE "down"
<1>1. /\ s \in View /\ s.addr = view.addr
      /\ healthy => s.healthy = view.healthy \cup At(view, a)
      /\ ~healthy => s.healthy = view.healthy \ At(view, a)
    BY AddressHealth
<1>2. said \in {"up", "down"} /\ (said = "up" <=> healthy)
    OBVIOUS
<1> HIDE DEF s, said
<1>3. \A b : At(s, b) = At(view, b)
    BY <1>1 DEF At, IDs
<1>4. \A b : b # a => At(view, b) \cap At(view, a) = {}
    BY DEF At
<1> SUFFICES ASSUME NEW b \in Address
             PROVE  LET k == [known EXCEPT ![a] = said][b] IN
                    /\ k = "up" => At(s, b) \subseteq s.healthy
                    /\ k = "down" => At(s, b) \cap s.healthy = {}
                    /\ k # "none" => At(s, b) # {}
    BY Zenon DEF Shows, s, said
<1>5. CASE b = a
    BY <1>5, <1>1, <1>2, <1>3
<1>6. CASE b # a
  <2>1. [known EXCEPT ![a] = said][b] = known[b]
      BY <1>6
  <2>2. /\ known[b] = "up" => At(view, b) \subseteq view.healthy
        /\ known[b] = "down" => At(view, b) \cap view.healthy = {}
        /\ known[b] # "none" => At(view, b) # {}
      BY DEF Shows
  <2>3. (s.healthy \cap At(view, b)) = (view.healthy \cap At(view, b))
      BY <1>1, <1>4, <1>6
  <2> QED BY <2>1, <2>2, <2>3, <1>3
<1> QED BY <1>5, <1>6

\* A snapshot that inherits shows the verdicts about the addresses it still has.
LEMMA InheritedShows ==
    ASSUME NEW new \in View, NEW previous \in View,
           NEW known \in [Address -> {"none", "up", "down"}],
           Shows(previous, known)
    PROVE  LET s == newEndpointSnapshot(new, previous, TRUE)
           IN  Shows(s, [a \in Address |-> IF At(s, a) = {} THEN "none" ELSE known[a]])
<1> DEFINE s == newEndpointSnapshot(new, previous, TRUE)
           kept == [a \in Address |-> IF At(s, a) = {} THEN "none" ELSE known[a]]
<1>1. /\ s \in View /\ s.addr = new.addr
      /\ \A i \in IDs(new) : i \in s.healthy <=> InheritedHealth(new, previous, i)
    BY NewSnapshot
<1>2. \A a \in Address : kept[a] = IF At(s, a) = {} THEN "none" ELSE known[a]
    OBVIOUS
<1> HIDE DEF s, kept
<1>3. \A a, i : i \in At(s, a) <=> i \in IDs(new) /\ new.addr[i] = a
    BY <1>1 DEF At, IDs
<1> SUFFICES ASSUME NEW a \in Address, At(s, a) # {}
             PROVE  /\ known[a] = "up" => At(s, a) \subseteq s.healthy
                    /\ known[a] = "down" => At(s, a) \cap s.healthy = {}
  <2>1. \A a \in Address : At(s, a) = {} => kept[a] = "none"
      BY <1>2
  <2>2. \A a \in Address : At(s, a) # {} => kept[a] = known[a]
      BY <1>2
  <2>3. Shows(s, kept)
    <3> SUFFICES ASSUME NEW a \in Address
                 PROVE  /\ kept[a] = "up" => At(s, a) \subseteq s.healthy
                        /\ kept[a] = "down" => At(s, a) \cap s.healthy = {}
                        /\ kept[a] # "none" => At(s, a) # {}
        BY DEF Shows
    <3>1. CASE At(s, a) = {} BY <3>1, <2>1
    <3>2. CASE At(s, a) # {} BY <3>2, <2>2
    <3> QED BY <3>1, <3>2
  <2> QED BY <2>3 DEF s, kept
<1>4. /\ known[a] = "up" => At(previous, a) \subseteq previous.healthy
      /\ known[a] = "down" => At(previous, a) \cap previous.healthy = {}
      /\ known[a] # "none" => At(previous, a) # {}
    BY DEF Shows
<1>5. ASSUME NEW i \in At(s, a), known[a] = "up" PROVE i \in s.healthy
  <2>1. i \in IDs(new) /\ new.addr[i] = a
      BY <1>3
  <2>2. InheritedHealth(new, previous, i)
      BY <2>1, <1>4, <1>5 DEF InheritedHealth, HealthyByAddress
  <2> QED BY <2>1, <2>2, <1>1
<1>6. ASSUME NEW i \in At(s, a), known[a] = "down" PROVE i \notin s.healthy
  <2>1. i \in IDs(new) /\ new.addr[i] = a
      BY <1>3
  <2>2. ~InheritedHealth(new, previous, i)
      BY <2>1, <1>4, <1>6 DEF InheritedHealth, HealthyByAddress
  <2> QED BY <2>1, <2>2, <1>1
<1> QED BY <1>5, <1>6

-----------------------------------------------------------------------------
LEMMA RuntimeInvInit == Init => RuntimeInv
<1> SUFFICES ASSUME Init PROVE RuntimeInv OBVIOUS
<1>1. RuntimeTypes
  <2>1. checkers \subseteq Address
    <3>1. config.addr \in [IDs(config) -> Address]
        BY ViewParts DEF Init
    <3> QED BY <3>1 DEF Init, CheckersFor, Range, IDs
  <2> QED BY <2>1, RuntimeAssumption DEF Init, RuntimeTypes, TypeOK
<1>2. Shows(snapshot[serving], verdict) /\ MembershipPublished
    BY DEF Init, Shows, MembershipPublished
<1>3. writer = Nobody /\ writer.at = "none" /\ updater[serving] = Nobody
    BY DEF Init, Nobody
<1>4. Nobody \notin UpdaterCas \cup WriterLoad \cup WriterCas
    BY DEF Nobody, UpdaterCas, WriterLoad, WriterCas
<1>5. OneRuntimeAccepts
    BY <1>3 DEF Init, OneRuntimeAccepts
<1> QED BY <1>1, <1>2, <1>3, <1>4, <1>5 DEF Init, RuntimeInv, FreshUpdate, FreshRefresh, CheckersFollow

\* The step a call is at tells which record it is.
LEMMA WriterStates ==
    ASSUME RuntimeTypes
    PROVE  /\ writer.at = "none" <=> writer = Nobody
           /\ writer.at = "load" <=> writer \in WriterLoad
           /\ writer.at = "cas" <=> writer \in WriterCas
           /\ writer.at = "build" <=> writer \in WriterBuild
           /\ writer.at \in {"none", "load", "cas", "build"}
BY DEF RuntimeTypes, Nobody, WriterLoad, WriterCas, WriterBuild

LEMMA UpdaterStates ==
    ASSUME RuntimeTypes, NEW o \in Object
    PROVE  /\ updater[o].at = "none" <=> updater[o] = Nobody
           /\ updater[o].at = "load" <=> updater[o] \in UpdaterLoad
           /\ updater[o].at = "cas" <=> updater[o] \in UpdaterCas
           /\ updater[o].at \in {"none", "load", "cas"}
<1>1. updater[o] \in {Nobody} \cup UpdaterLoad \cup UpdaterCas
    BY DEF RuntimeTypes
<1> QED BY <1>1 DEF Nobody, UpdaterLoad, UpdaterCas

\* A verdict in progress is one of the serving runtime, which is checked.
LEMMA VerdictIsServing ==
    ASSUME RuntimeInv, NEW o \in Object, updater[o] # Nobody
    PROVE  o = serving /\ checked /\ accepting = {serving} /\ writer.at # "build"
BY DEF RuntimeInv, OneRuntimeAccepts

-----------------------------------------------------------------------------
LEMMA UpdateHealthStep ==
    ASSUME RuntimeInv, NEW o \in Object, NEW a \in Address, NEW healthy \in BOOLEAN,
           UpdateHealth(o, a, healthy)
    PROVE  RuntimeInv'
<1> DEFINE u == [at |-> "load", address |-> a, healthy |-> healthy]
<1>1. u \in UpdaterLoad /\ u \notin UpdaterCas
    BY DEF UpdaterLoad, UpdaterCas
<1>2. updater' = [updater EXCEPT ![o] = u]
    BY DEF UpdateHealth
<1> HIDE DEF u
<1>3. RuntimeTypes'
    BY <1>1, <1>2 DEF UpdateHealth, RuntimeInv, RuntimeTypes, TypeOK
<1>4. OneRuntimeAccepts'
    BY <1>2 DEF UpdateHealth, RuntimeInv, RuntimeTypes, OneRuntimeAccepts
<1>5. FreshUpdate'
    BY <1>1, <1>2 DEF UpdateHealth, RuntimeInv, RuntimeTypes, TypeOK, FreshUpdate
<1> QED BY <1>3, <1>4, <1>5
        DEF UpdateHealth, RuntimeInv, FreshRefresh, MembershipPublished, CheckersFollow

LEMMA LoadSnapshotStep ==
    ASSUME RuntimeInv, NEW o \in Object, LoadSnapshot(o)
    PROVE  RuntimeInv'
<1> DEFINE u == updater[o]
           next == WithAddressHealth(snapshot[o], u.address, u.healthy)
           cas == [at |-> "cas", address |-> u.address, healthy |-> u.healthy,
                   next |-> next, fresh |-> TRUE]
<1> USE DEF RuntimeInv
<1>1. u \in UpdaterLoad /\ u.address \in Address /\ u.healthy \in BOOLEAN /\ u # Nobody
    BY UpdaterStates DEF LoadSnapshot, UpdaterLoad, Nobody
<1>2. o = serving /\ checked /\ accepting = {serving}
    BY <1>1, VerdictIsServing
<1>3. snapshot[o] \in View /\ next \in View
    BY <1>1, AddressHealth DEF RuntimeTypes, TypeOK
<1>4. cas \in UpdaterCas /\ cas.next = next /\ cas.address = u.address /\ cas.healthy = u.healthy
    BY <1>1, <1>3 DEF UpdaterCas
<1>5. Nobody \notin UpdaterCas
    BY DEF Nobody, UpdaterCas
<1>6. \/ /\ updater' = [updater EXCEPT ![o] = Nobody]
         /\ \/ verdict' = verdict
            \/ At(snapshot[o], u.address) # {} /\ next = snapshot[o] /\ Accepted(u)
      \/ next # snapshot[o] /\ verdict' = verdict /\ updater' = [updater EXCEPT ![o] = cas]
    BY DEF LoadSnapshot
<1>7. At(snapshot[o], u.address) = {} => next = snapshot[o]
    BY <1>1, <1>3, UnknownAddress
<1>8. UNCHANGED <<config, checked, checkers, serving, snapshot, accepting, writer, writes>>
    BY DEF LoadSnapshot
<1>9. /\ Shows(snapshot[serving], verdict)'
      /\ verdict' \in [Address -> {"none", "up", "down"}]
  <2>1. CASE verdict' = verdict
      BY <2>1, <1>8 DEF RuntimeTypes, TypeOK
  <2>2. CASE At(snapshot[o], u.address) # {} /\ next = snapshot[o] /\ Accepted(u)
    <3>1. verdict' = [verdict EXCEPT ![u.address] = IF u.healthy THEN "up" ELSE "down"]
        BY <2>2 DEF Accepted
    <3>2. Shows(next, [verdict EXCEPT ![u.address] = IF u.healthy THEN "up" ELSE "down"])
        BY <2>2, <1>1, <1>2, <1>3, VerdictShows DEF RuntimeTypes, TypeOK
    <3> QED BY <3>1, <3>2, <2>2, <1>1, <1>2, <1>8 DEF RuntimeTypes, TypeOK
  <2> QED BY <2>1, <2>2, <1>6
<1> HIDE DEF u, next, cas
<1>10. RuntimeTypes'
    BY <1>4, <1>6, <1>8, <1>9 DEF RuntimeTypes, TypeOK
<1>11. OneRuntimeAccepts'
    BY <1>2, <1>6, <1>8 DEF OneRuntimeAccepts, RuntimeTypes
<1>12. FreshUpdate'
  <2>1. CASE updater' = [updater EXCEPT ![o] = Nobody]
      BY <2>1, <1>2, <1>5, <1>8 DEF FreshUpdate, RuntimeTypes
  <2>2. CASE next # snapshot[o] /\ updater' = [updater EXCEPT ![o] = cas]
    <3>1. updater'[serving'] = cas /\ snapshot'[serving'] = snapshot[o]
        BY <2>2, <1>2, <1>8 DEF RuntimeTypes
    <3> QED BY <3>1, <2>2, <1>4, <1>7 DEF FreshUpdate, next
  <2> QED BY <2>1, <2>2, <1>6
<1> QED BY <1>8, <1>9, <1>10, <1>11, <1>12 DEF FreshRefresh, MembershipPublished, CheckersFollow

\* Marking the manager's loaded snapshot as stale keeps the rest of its call.
LEMMA StaleWriter ==
    ASSUME RuntimeInv
    PROVE  LET w == WriterStale(serving) IN
           /\ w \in {Nobody} \cup WriterLoad \cup WriterCas \cup WriterBuild
           /\ w.at = writer.at
           /\ writer \notin WriterCas => w = writer
           /\ writer \in WriterCas => w \in WriterCas /\ w.start = writer.start
           /\ w \in WriterCas => w.fresh = FALSE
<1> DEFINE w == WriterStale(serving)
<1>1. RuntimeTypes
    BY DEF RuntimeInv
<1>2. CASE writer.at = "cas"
  <2>1. w = [writer EXCEPT !.fresh = FALSE]
      BY <1>2 DEF WriterStale
  <2>2. writer \in WriterCas
      BY <1>1, <1>2, WriterStates
  <2> QED BY <2>1, <2>2, <1>2 DEF WriterCas
<1>3. CASE writer.at # "cas"
  <2>1. w = writer
      BY <1>3 DEF WriterStale
  <2>2. writer \notin WriterCas
      BY <1>1, <1>3, WriterStates
  <2> QED BY <2>1, <2>2, <1>1 DEF RuntimeTypes
<1> QED BY <1>2, <1>3

LEMMA SwapHealthStep ==
    ASSUME RuntimeInv, NEW o \in Object, SwapHealth(o)
    PROVE  RuntimeInv'
<1> DEFINE u == updater[o]
           load == [at |-> "load", address |-> u.address, healthy |-> u.healthy]
<1> USE DEF RuntimeInv
<1>1. /\ u \in UpdaterCas /\ u.address \in Address /\ u.healthy \in BOOLEAN
      /\ u.next \in View /\ u.fresh \in BOOLEAN /\ u # Nobody
    BY UpdaterStates DEF SwapHealth, UpdaterCas, Nobody
<1>2. o = serving /\ checked /\ accepting = {serving} /\ writer.at # "build"
    BY <1>1, VerdictIsServing
<1>3. UNCHANGED <<config, checked, checkers, serving, accepting, writes>>
    BY DEF SwapHealth
<1>4. Nobody \notin UpdaterCas
    BY DEF Nobody, UpdaterCas
<1>5. CASE u.fresh = TRUE
  <2>1. /\ snapshot' = [snapshot EXCEPT ![o] = u.next]
        /\ updater' = [updater EXCEPT ![o] = Nobody]
        /\ writer' = WriterStale(serving)
        /\ verdict' = [verdict EXCEPT ![u.address] = IF u.healthy THEN "up" ELSE "down"]
      BY <1>2, <1>5 DEF SwapHealth, Accepted
  <2>2. /\ u.next = WithAddressHealth(snapshot[o], u.address, u.healthy)
        /\ At(snapshot[o], u.address) # {}
        /\ snapshot[o] \in View
      BY <1>1, <1>2, <1>5 DEF FreshUpdate, RuntimeTypes, TypeOK
  <2>3. /\ writer' \in {Nobody} \cup WriterLoad \cup WriterCas \cup WriterBuild
        /\ writer'.at = writer.at
        /\ writer \notin WriterCas => writer' = writer
        /\ writer \in WriterCas => writer' \in WriterCas /\ writer'.start = writer.start
        /\ writer' \in WriterCas => writer'.fresh = FALSE
      BY <2>1, StaleWriter
  <2>4. snapshot'[serving'] = u.next
      BY <1>2, <1>3, <2>1 DEF RuntimeTypes, TypeOK
  <2>5. Shows(snapshot[serving], verdict)'
    <3>1. Shows(WithAddressHealth(snapshot[o], u.address, u.healthy),
                [verdict EXCEPT ![u.address] = IF u.healthy THEN "up" ELSE "down"])
        BY <2>2, <1>1, <1>2, VerdictShows DEF RuntimeTypes, TypeOK
    <3> QED BY <3>1, <2>1, <2>2, <2>4, Zenon
  <2>6. verdict' \in [Address -> {"none", "up", "down"}]
      BY <2>1, <1>1 DEF RuntimeTypes, TypeOK
  <2>7. RuntimeTypes'
      BY <2>1, <2>3, <2>6, <1>1, <1>3 DEF RuntimeTypes, TypeOK
  <2>8. OneRuntimeAccepts'
      BY <2>1, <2>3, <1>2, <1>3 DEF OneRuntimeAccepts, RuntimeTypes
  <2>9. FreshUpdate'
      BY <2>1, <1>2, <1>3, <1>4 DEF FreshUpdate, RuntimeTypes
  <2>10. FreshRefresh'
      BY <2>3 DEF FreshRefresh
  <2>11. MembershipPublished'
    <3>1. WithAddressHealth(snapshot[o], u.address, u.healthy).addr = snapshot[o].addr
        BY <2>2, <1>1, AddressHealth
    <3>2. u.next.addr = snapshot[o].addr
        BY <3>1, <2>2, Zenon
    <3> QED BY <3>2, <2>3, <2>4, <1>2, <1>3 DEF MembershipPublished
  <2>12. CheckersFollow'
    <3>1. writer' = Nobody => writer = Nobody
        BY <2>3, WriterStates DEF Nobody
    <3>2. writer' \in WriterLoad => writer \in WriterLoad
        BY <2>3, WriterStates DEF WriterLoad
    <3>3. writer' \in WriterCas => writer \in WriterCas
        BY <2>3, WriterStates DEF WriterCas
    <3>4. writer \in WriterLoad => writer \notin WriterCas
        BY DEF WriterLoad, WriterCas
    <3> QED BY <3>1, <3>2, <3>3, <3>4, <2>3, <1>3 DEF CheckersFollow
  <2> QED BY <2>5, <2>7, <2>8, <2>9, <2>10, <2>11, <2>12
<1>6. CASE u.fresh = FALSE
  <2>1. updater' = [updater EXCEPT ![o] = load] /\ UNCHANGED <<snapshot, writer, verdict>>
      BY <1>6 DEF SwapHealth
  <2>2. load \in UpdaterLoad /\ load \notin UpdaterCas
      BY <1>1 DEF UpdaterLoad, UpdaterCas
  <2> HIDE DEF u, load
  <2>3. RuntimeTypes'
      BY <2>1, <2>2, <1>3 DEF RuntimeTypes, TypeOK
  <2>4. OneRuntimeAccepts'
      BY <2>1, <1>2, <1>3 DEF OneRuntimeAccepts, RuntimeTypes
  <2>5. FreshUpdate'
      BY <2>1, <2>2, <1>2, <1>3 DEF FreshUpdate, RuntimeTypes
  <2> QED BY <2>1, <2>3, <2>4, <2>5, <1>3 DEF FreshRefresh, MembershipPublished, CheckersFollow
<1> QED BY <1>1, <1>5, <1>6

-----------------------------------------------------------------------------
\* Once the session of the address that endpoint i alone was at is stopped, the
\* addresses of the other endpoints are probed.
LEMMA StopCheckLeaves ==
    ASSUME RuntimeInv, writer = Nobody, NEW i
    PROVE  \A x : x \in StopCheck(i) <=> checked /\ \E j \in IDs(config) \ {i} : config.addr[j] = x
<1>1. \A x : x \in checkers <=> checked /\ \E j \in IDs(config) : config.addr[j] = x
    BY DEF RuntimeInv, RuntimeTypes, CheckersFollow, CheckersFor, Range, IDs
<1>2. \A x : x \in StopCheck(i) <=> x \in checkers /\ ~(i \in IDs(config) /\ x = config.addr[i] /\ At(config, x) = {i})
    BY DEF StopCheck
<1>3. \A x : At(config, x) = {i} <=> \A j : (j \in IDs(config) /\ config.addr[j] = x) <=> j = i
    BY DEF At
<1> QED BY <1>1, <1>2, <1>3

\* A change of the configuration that has not been published yet.
LEMMA EditStep ==
    ASSUME RuntimeInv, WriterStarts, NEW new \in View, NEW stopping \in SUBSET Address,
           NEW starting \in SUBSET Address, Edit(new, stopping, starting),
           stopping \cup starting = CheckersFor(new, checked),
           UNCHANGED <<checked, serving, snapshot, accepting, updater, verdict>>
    PROVE  RuntimeInv'
<1> USE DEF RuntimeInv
<1>1. writer = Nobody /\ writer.at = "none" /\ writes' = writes + 1 /\ writes < MaxWrites
    BY DEF WriterStarts, Nobody
<1>2. config' = new /\ checkers' = stopping /\ writer' = [at |-> "load", start |-> starting]
    BY DEF Edit
<1>3. /\ writer' \in WriterLoad /\ writer' \notin WriterCas /\ writer' # Nobody
      /\ writer'.at = "load" /\ writer'.start = starting
    BY <1>2 DEF WriterLoad, WriterCas, Nobody
<1>4. RuntimeTypes'
    BY <1>1, <1>2, <1>3, RuntimeAssumption DEF RuntimeTypes, TypeOK
<1>5. OneRuntimeAccepts' /\ FreshUpdate'
    BY <1>1, <1>3 DEF OneRuntimeAccepts, FreshUpdate
<1>6. FreshRefresh' /\ MembershipPublished'
    BY <1>3 DEF FreshRefresh, MembershipPublished
<1>7. CheckersFollow'
    BY <1>2, <1>3 DEF CheckersFollow, CheckersFor
<1> QED BY <1>4, <1>5, <1>6, <1>7

LEMMA SetEndpointStep ==
    ASSUME RuntimeInv, NEW i \in EndpointID, NEW a \in Address, NEW healthy \in BOOLEAN,
           SetEndpoint(i, a, healthy)
    PROVE  RuntimeInv'
<1> DEFINE moves == i \notin At(config, a)
           addr == [j \in IDs(config) \cup {i} |-> IF j = i THEN a ELSE config.addr[j]]
           seed == IF healthy THEN config.healthy \cup {i} ELSE config.healthy \ {i}
           new == [addr |-> addr, healthy |-> seed]
           stopping == IF moves THEN StopCheck(i) ELSE checkers
           starting == IF checked /\ moves THEN {a} ELSE {}
<1>1. /\ WriterStarts /\ Edit(new, stopping, starting) /\ writer = Nobody
      /\ UNCHANGED <<checked, serving, snapshot, accepting, updater, verdict>>
    BY Zenon DEF SetEndpoint, WriterStarts
<1>2. /\ IDs(config) \in SUBSET EndpointID /\ config.addr \in [IDs(config) -> Address]
      /\ config.healthy \in SUBSET IDs(config)
    BY ViewParts DEF RuntimeInv, RuntimeTypes, TypeOK
<1>3. new \in View /\ new.addr = addr
  <2>1. addr \in [IDs(config) \cup {i} -> Address] /\ seed \in SUBSET (IDs(config) \cup {i})
      BY <1>2
  <2> QED BY <2>1, <1>2, ViewMade
<1>4. checkers \in SUBSET Address /\ stopping \in SUBSET Address /\ starting \in SUBSET Address
    BY DEF RuntimeInv, RuntimeTypes, TypeOK, StopCheck
<1>5. \A x : x \in checkers <=> checked /\ \E j \in IDs(config) : config.addr[j] = x
    BY <1>1 DEF RuntimeInv, RuntimeTypes, CheckersFollow, CheckersFor, Range, IDs
<1>6. \A x : x \in CheckersFor(new, checked) <=> checked /\ \E j \in IDs(config) \cup {i} : addr[j] = x
    BY <1>3 DEF CheckersFor, Range
<1>7. stopping \cup starting = CheckersFor(new, checked)
  <2>1. CASE moves
    <3>1. \A x : x \in stopping \cup starting <=>
                    checked /\ (x = a \/ \E j \in IDs(config) \ {i} : config.addr[j] = x)
        BY <2>1, <1>1, StopCheckLeaves
    <3>2. \A x : x \in CheckersFor(new, checked) <=>
                    checked /\ (x = a \/ \E j \in IDs(config) \ {i} : config.addr[j] = x)
        BY <1>6
    <3> HIDE DEF stopping, starting, new
    <3> QED BY <3>1, <3>2
  <2>2. CASE ~moves
    <3>1. i \in IDs(config) /\ config.addr[i] = a
        BY <2>2 DEF At
    <3>2. \A x : x \in CheckersFor(new, checked) <=> x \in checkers
        BY <3>1, <1>5, <1>6
    <3>3. stopping \cup starting = checkers
        BY <2>2
    <3> HIDE DEF stopping, starting, new
    <3> QED BY <3>2, <3>3
  <2> QED BY <2>1, <2>2
<1> HIDE DEF new, stopping, starting
<1> QED BY <1>1, <1>3, <1>4, <1>7, EditStep

LEMMA DeleteEndpointStep ==
    ASSUME RuntimeInv, NEW i \in EndpointID, DeleteEndpoint(i)
    PROVE  RuntimeInv'
<1> DEFINE addr == Restrict(config.addr, IDs(config) \ {i})
           new == [addr |-> addr, healthy |-> config.healthy \ {i}]
<1>1. /\ WriterStarts /\ Edit(new, StopCheck(i), {}) /\ writer = Nobody
      /\ UNCHANGED <<checked, serving, snapshot, accepting, updater, verdict>>
    BY Zenon DEF DeleteEndpoint, WriterStarts
<1>2. /\ IDs(config) \in SUBSET EndpointID /\ config.addr \in [IDs(config) -> Address]
      /\ config.healthy \in SUBSET IDs(config)
    BY ViewParts DEF RuntimeInv, RuntimeTypes, TypeOK
<1>3. new \in View /\ new.addr = addr
  <2>1. addr \in [IDs(config) \ {i} -> Address] /\ config.healthy \ {i} \in SUBSET (IDs(config) \ {i})
      BY <1>2 DEF Restrict
  <2> QED BY <2>1, <1>2, ViewMade
<1>4. StopCheck(i) \in SUBSET Address
    BY DEF RuntimeInv, RuntimeTypes, TypeOK, StopCheck
<1>5. \A x : x \in CheckersFor(new, checked) <=> checked /\ \E j \in IDs(config) \ {i} : config.addr[j] = x
    BY <1>3 DEF CheckersFor, Range, Restrict
<1> HIDE DEF new
<1>6. StopCheck(i) \cup {} = CheckersFor(new, checked)
    BY <1>1, <1>5, StopCheckLeaves
<1> QED BY <1>1, <1>3, <1>4, <1>6, EditStep

LEMMA LoadForRefreshStep ==
    ASSUME RuntimeInv, LoadForRefresh
    PROVE  RuntimeInv'
<1> DEFINE next == newEndpointSnapshot(config, snapshot[serving], checked)
<1> USE DEF RuntimeInv
<1>1. writer \in WriterLoad /\ writer.start \in SUBSET Address /\ writer.at = "load"
    BY WriterStates DEF LoadForRefresh, WriterLoad
<1>2. next \in View
    BY NewSnapshot DEF RuntimeTypes, TypeOK
<1>3. /\ writer' = [at |-> "cas", start |-> writer.start, fresh |-> TRUE, next |-> next]
      /\ UNCHANGED <<config, checked, checkers, serving, snapshot, accepting, updater, verdict, writes>>
    BY DEF LoadForRefresh
<1> HIDE DEF next
<1>4. /\ writer' \in WriterCas /\ writer' \notin WriterLoad /\ writer' # Nobody
      /\ writer'.at = "cas" /\ writer'.start = writer.start /\ writer'.next = next
    BY <1>1, <1>2, <1>3 DEF WriterLoad, WriterCas, Nobody
<1>5. RuntimeTypes'
    BY <1>3, <1>4 DEF RuntimeTypes, TypeOK
<1>6. OneRuntimeAccepts' /\ FreshUpdate'
    BY <1>1, <1>3, <1>4 DEF OneRuntimeAccepts, FreshUpdate
<1>7. FreshRefresh'
    BY <1>3, <1>4 DEF FreshRefresh, next
<1>8. MembershipPublished'
    BY <1>4 DEF MembershipPublished
<1>9. CheckersFollow'
    BY <1>1, <1>3, <1>4 DEF CheckersFollow
<1> QED BY <1>3, <1>5, <1>6, <1>7, <1>8, <1>9

\* A membership change that publishes keeps the verdicts about the addresses it keeps.
LEMMA KeptShows ==
    ASSUME RuntimeInv, NEW new \in View
    PROVE  LET s == newEndpointSnapshot(new, snapshot[serving], checked)
           IN  Shows(s, Kept(s))
<1> DEFINE s == newEndpointSnapshot(new, snapshot[serving], checked)
<1>1. checked \in BOOLEAN /\ snapshot[serving] \in View /\ Shows(snapshot[serving], verdict)
      /\ verdict \in [Address -> {"none", "up", "down"}]
    BY DEF RuntimeInv, RuntimeTypes, TypeOK
<1>2. CASE checked = TRUE
    BY <1>1, <1>2, InheritedShows DEF Kept
<1>3. CASE checked = FALSE
  <2>1. \A a \in Address : Kept(s)[a] = "none"
      BY <1>3 DEF RuntimeInv, OneRuntimeAccepts, Kept
  <2> HIDE DEF s
  <2>2. Shows(s, Kept(s))
      BY <2>1 DEF Shows
  <2> QED BY <2>2 DEF s
<1> QED BY <1>1, <1>2, <1>3

LEMMA SwapRefreshStep ==
    ASSUME RuntimeInv, SwapRefresh
    PROVE  RuntimeInv'
<1> USE DEF RuntimeInv
<1>1. /\ writer \in WriterCas /\ writer.start \in SUBSET Address /\ writer.at = "cas"
      /\ writer.fresh \in BOOLEAN /\ writer.next \in View
    BY WriterStates DEF SwapRefresh, WriterCas
<1>2. UNCHANGED <<config, checked, serving, accepting, writes>>
    BY DEF SwapRefresh
<1>3. accepting = {serving} /\ serving \in Object
    BY <1>1 DEF OneRuntimeAccepts, RuntimeTypes, TypeOK
<1>4. CASE writer.fresh = TRUE
  <2>1. /\ snapshot' = [snapshot EXCEPT ![serving] = writer.next]
        /\ verdict' = Kept(writer.next)
        /\ updater' = [updater EXCEPT ![serving] = UpdaterStale(serving)]
        /\ checkers' = checkers \cup writer.start
        /\ writer' = Nobody
      BY <1>4 DEF SwapRefresh
  <2>2. writer.next = newEndpointSnapshot(config, snapshot[serving], checked)
      BY <1>1, <1>4 DEF FreshRefresh
  <2>3. snapshot'[serving'] = writer.next
      BY <2>1, <1>2, <1>3 DEF RuntimeTypes, TypeOK
  <2>4. /\ Nobody.at = "none" /\ Nobody \notin WriterCas /\ Nobody \notin WriterLoad
        /\ Nobody \notin UpdaterCas
      BY DEF Nobody, WriterCas, WriterLoad, UpdaterCas
  <2>5. /\ UpdaterStale(serving) \in {Nobody} \cup UpdaterLoad \cup UpdaterCas
        /\ UpdaterStale(serving) \in UpdaterCas => UpdaterStale(serving).fresh = FALSE
        /\ UpdaterStale(serving) # Nobody => updater[serving] # Nobody
    <3>1. CASE updater[serving].at = "cas"
      <4>1. UpdaterStale(serving) = [updater[serving] EXCEPT !.fresh = FALSE]
          BY <3>1 DEF UpdaterStale
      <4>2. updater[serving] \in UpdaterCas
          BY <3>1, <1>3, UpdaterStates
      <4> QED BY <4>1, <4>2, <2>4 DEF UpdaterCas
    <3>2. CASE updater[serving].at # "cas"
      <4>1. UpdaterStale(serving) = updater[serving]
          BY <3>2 DEF UpdaterStale
      <4>2. updater[serving] \notin UpdaterCas
          BY <3>2, <1>3, UpdaterStates
      <4> QED BY <4>1, <4>2, <1>3 DEF RuntimeTypes
    <3> QED BY <3>1, <3>2
  <2>6. Shows(snapshot[serving], verdict)'
    <3>1. Shows(writer.next, Kept(writer.next))
        BY <2>2, KeptShows DEF RuntimeTypes, TypeOK
    <3> QED BY <3>1, <2>1, <2>3
  <2>7. verdict' \in [Address -> {"none", "up", "down"}]
      BY <2>1 DEF Kept, RuntimeTypes, TypeOK
  <2>8. RuntimeTypes'
      BY <2>1, <2>5, <2>7, <1>1, <1>2 DEF RuntimeTypes, TypeOK
  <2>9. OneRuntimeAccepts'
    <3>1. ~checked => \A a \in Address : verdict'[a] = "none"
        BY <2>1 DEF OneRuntimeAccepts, Kept
    <3>2. \A o \in Object : updater'[o] # Nobody => updater[o] # Nobody
        BY <2>1, <2>5 DEF RuntimeTypes
    <3> QED BY <3>1, <3>2, <2>1, <2>4, <1>1, <1>2 DEF OneRuntimeAccepts
  <2>10. FreshUpdate'
    <3>1. updater'[serving'] = UpdaterStale(serving)
        BY <2>1, <1>2, <1>3 DEF RuntimeTypes
    <3> QED BY <3>1, <2>5 DEF FreshUpdate
  <2>11. FreshRefresh'
      BY <2>1, <2>4 DEF FreshRefresh
  <2>12. MembershipPublished'
    <3>1. writer.next.addr = config.addr
        BY <2>2, NewSnapshot DEF RuntimeTypes, TypeOK
    <3> QED BY <3>1, <2>3, <1>2 DEF MembershipPublished
  <2>13. CheckersFollow'
      BY <2>1, <2>4, <1>1, <1>2 DEF CheckersFollow, CheckersFor
  <2> QED BY <2>6, <2>8, <2>9, <2>10, <2>11, <2>12, <2>13
<1>5. CASE writer.fresh = FALSE
  <2>1. /\ writer' = [at |-> "load", start |-> writer.start]
        /\ UNCHANGED <<checkers, snapshot, updater, verdict>>
      BY <1>5 DEF SwapRefresh
  <2>2. /\ writer' \in WriterLoad /\ writer' \notin WriterCas /\ writer' # Nobody
        /\ writer'.at = "load" /\ writer'.start = writer.start
      BY <2>1, <1>1 DEF WriterLoad, WriterCas, Nobody
  <2>3. RuntimeTypes'
      BY <2>1, <2>2, <1>2 DEF RuntimeTypes, TypeOK
  <2>4. OneRuntimeAccepts' /\ FreshUpdate'
      BY <2>1, <2>2, <1>1, <1>2 DEF OneRuntimeAccepts, FreshUpdate
  <2>5. FreshRefresh' /\ MembershipPublished'
      BY <2>2 DEF FreshRefresh, MembershipPublished
  <2>6. CheckersFollow'
      BY <2>1, <2>2, <1>1, <1>2 DEF CheckersFollow
  <2> QED BY <2>1, <2>3, <2>4, <2>5, <2>6, <1>2
<1> QED BY <1>1, <1>4, <1>5

LEMMA ReplacementStep ==
    ASSUME RuntimeInv, NEW new \in View, NEW checks \in BOOLEAN,
           SnapshotForRuntimeReplacement(new, checks)
    PROVE  RuntimeInv'
<1> USE DEF RuntimeInv
<1>1. /\ writer = Nobody /\ writer.at = "none" /\ writes' = writes + 1 /\ writes < MaxWrites
      /\ updater[serving] = Nobody
      /\ accepting' = accepting \ {serving}
      /\ writer' = [at |-> "build", config |-> new, checked |-> checks]
      /\ UNCHANGED <<config, checked, checkers, serving, snapshot, updater, verdict>>
    BY DEF SnapshotForRuntimeReplacement, WriterStarts, Nobody
<1>2. /\ writer' \in WriterBuild /\ writer' \notin WriterCas /\ writer' \notin WriterLoad
      /\ writer' # Nobody /\ writer'.at = "build"
    BY <1>1 DEF WriterBuild, WriterLoad, WriterCas, Nobody
<1>3. accepting = {serving} /\ accepting' = {}
    BY <1>1 DEF OneRuntimeAccepts
<1>4. RuntimeTypes'
    BY <1>1, <1>2, <1>3, RuntimeAssumption DEF RuntimeTypes, TypeOK
<1>5. OneRuntimeAccepts'
  <2>1. \A o \in Object : updater'[o] = Nobody
      BY <1>1, <1>3 DEF OneRuntimeAccepts
  <2> QED BY <2>1, <1>1, <1>2, <1>3 DEF OneRuntimeAccepts
<1>6. FreshUpdate' /\ FreshRefresh' /\ CheckersFollow'
    BY <1>1, <1>2 DEF FreshUpdate, FreshRefresh, CheckersFollow
<1>7. MembershipPublished'
    BY <1>1 DEF MembershipPublished
<1> QED BY <1>1, <1>4, <1>5, <1>6, <1>7

LEMMA NewClusterStep ==
    ASSUME RuntimeInv, NEW o \in Object, NewClusterWithEndpointSnapshot(o)
    PROVE  RuntimeInv'
<1> DEFINE view == newEndpointSnapshot(writer.config, snapshot[serving], writer.checked)
<1> USE DEF RuntimeInv
<1>1. /\ writer \in WriterBuild /\ writer.at = "build"
      /\ writer.config \in View /\ writer.checked \in BOOLEAN
    BY WriterStates DEF NewClusterWithEndpointSnapshot, WriterBuild
<1>2. /\ o # serving /\ updater[o] = Nobody
      /\ config' = writer.config /\ checked' = writer.checked
      /\ checkers' = CheckersFor(writer.config, writer.checked)
      /\ serving' = o /\ snapshot' = [snapshot EXCEPT ![o] = view]
      /\ accepting' = accepting \cup {o} /\ writer' = Nobody
      /\ UNCHANGED <<updater, writes>>
    BY DEF NewClusterWithEndpointSnapshot
<1>3. verdict' = IF writer.checked THEN Kept(view) ELSE [a \in Address |-> "none"]
    BY DEF NewClusterWithEndpointSnapshot
<1>4. view \in View /\ view.addr = writer.config.addr
    BY <1>1, NewSnapshot DEF RuntimeTypes, TypeOK
<1>5. Shows(view, verdict') /\ verdict' \in [Address -> {"none", "up", "down"}]
  <2>1. CASE writer.checked = TRUE
    <3>1. view = newEndpointSnapshot(writer.config, snapshot[serving], TRUE)
        BY <2>1
    <3>2. verdict' = Kept(view)
        BY <2>1, <1>3
    <3> DEFINE inherited == newEndpointSnapshot(writer.config, snapshot[serving], TRUE)
    <3>3. /\ snapshot[serving] \in View /\ Shows(snapshot[serving], verdict)
          /\ verdict \in [Address -> {"none", "up", "down"}]
        BY DEF RuntimeTypes, TypeOK
    <3>4. Shows(inherited, Kept(inherited))
        BY <1>1, <3>3, InheritedShows DEF Kept
    <3> HIDE DEF view, inherited
    <3>5. Kept(view) \in [Address -> {"none", "up", "down"}]
        BY <3>3 DEF Kept
    <3> QED BY <3>1, <3>2, <3>4, <3>5 DEF inherited
  <2>2. CASE writer.checked = FALSE
    <3>1. verdict' = [a \in Address |-> "none"]
        BY <2>2, <1>3
    <3> QED BY <3>1 DEF Shows
  <2> QED BY <2>1, <2>2, <1>1
<1> HIDE DEF view
<1>6. snapshot'[serving'] = view
    BY <1>2 DEF RuntimeTypes, TypeOK
<1>7. accepting = {} /\ accepting' = {o} /\ \A p \in Object : updater[p] = Nobody
    BY <1>1, <1>2 DEF OneRuntimeAccepts
<1>8. /\ Nobody.at = "none" /\ Nobody \notin WriterCas /\ Nobody \notin WriterLoad
      /\ Nobody \notin UpdaterCas
    BY DEF Nobody, WriterCas, WriterLoad, UpdaterCas
<1>9. checkers' \subseteq Address
  <2>1. writer.config.addr \in [IDs(writer.config) -> Address]
      BY <1>1, ViewParts
  <2> QED BY <2>1, <1>2 DEF CheckersFor, Range, IDs
<1>10. RuntimeTypes'
    BY <1>1, <1>2, <1>4, <1>5, <1>7, <1>9 DEF RuntimeTypes, TypeOK
<1>11. OneRuntimeAccepts'
  <2>1. ~checked' => \A a \in Address : verdict'[a] = "none"
      BY <1>2, <1>3
  <2> QED BY <2>1, <1>2, <1>7, <1>8 DEF OneRuntimeAccepts
<1>12. FreshUpdate' /\ FreshRefresh'
    BY <1>2, <1>7, <1>8 DEF FreshUpdate, FreshRefresh
<1>13. MembershipPublished'
    BY <1>2, <1>4, <1>6 DEF MembershipPublished
<1>14. CheckersFollow'
    BY <1>2, <1>8 DEF CheckersFollow
<1> QED BY <1>5, <1>6, <1>10, <1>11, <1>12, <1>13, <1>14

-----------------------------------------------------------------------------
LEMMA RuntimeInvNext == RuntimeInv /\ [Next]_vars => RuntimeInv'
<1> SUFFICES ASSUME RuntimeInv, [Next]_vars PROVE RuntimeInv'
    OBVIOUS
<1>1. CASE \E o \in Object, a \in Address, healthy \in BOOLEAN : UpdateHealth(o, a, healthy)
    BY <1>1, UpdateHealthStep
<1>2. CASE \E o \in Object : LoadSnapshot(o) \/ SwapHealth(o)
    BY <1>2, LoadSnapshotStep, SwapHealthStep
<1>3. CASE \E i \in EndpointID, a \in Address, healthy \in BOOLEAN : SetEndpoint(i, a, healthy)
    BY <1>3, SetEndpointStep
<1>4. CASE \E i \in EndpointID : DeleteEndpoint(i)
    BY <1>4, DeleteEndpointStep
<1>5. CASE LoadForRefresh \/ SwapRefresh
    BY <1>5, LoadForRefreshStep, SwapRefreshStep
<1>6. CASE \E new \in View, checks \in BOOLEAN : SnapshotForRuntimeReplacement(new, checks)
    BY <1>6, ReplacementStep
<1>7. CASE \E o \in Object : NewClusterWithEndpointSnapshot(o)
    BY <1>7, NewClusterStep
<1>8. CASE UNCHANGED vars
    BY <1>8 DEF vars, RuntimeInv, RuntimeTypes, TypeOK, OneRuntimeAccepts, FreshUpdate, FreshRefresh,
                MembershipPublished, CheckersFollow, CheckersFor
<1> QED BY <1>1, <1>2, <1>3, <1>4, <1>5, <1>6, <1>7, <1>8 DEF Next

(***************************************************************************)
(* Whatever endpoints and addresses the cluster has and however often its  *)
(* membership changes and its runtime is replaced: a health verdict        *)
(* UpdateEndpointAddressHealth accepted stays in force as long as its      *)
(* address is served, the published snapshot has the configured endpoints, *)
(* and each address of the cluster has its health-check session.           *)
(***************************************************************************)
THEOREM RuntimeKeepsSnapshots == Spec => []SnapshotsAreSound
<1>1. RuntimeInv => SnapshotsAreSound
    BY DEF RuntimeInv, RuntimeTypes, Shows, CheckersFollow, SnapshotsAreSound, AcceptedVerdictSurvives,
           CheckersCoverEndpoints
<1> QED BY <1>1, RuntimeInvInit, RuntimeInvNext, PTL DEF Spec

-----------------------------------------------------------------------------
(***************************************************************************)
(* One health-check session, for any thresholds and any number of probes   *)
(***************************************************************************)
ProbePlaces == {"load", "stop", "arm", "check", "send", "done"}

LoopTypes ==
    /\ CheckerTypes
    /\ probe \in [Probe -> [at : {"none"}] \cup [at : ProbePlaces, id : Nat, healthy : BOOLEAN]]
    /\ good \in SUBSET Probe
    /\ loop = "done" => stopped

\* Timers start probes in order, once each.
Timers ==
    /\ \A p \in Probe : p > checkTimer => probe[p].at = "none" /\ p \notin armed
    /\ \A p \in armed : probe[p].at = "none"

\* The newest check is armed, or its probe is on its way to arm a deadline, or a
\* deadline is there or about to be: of that probe or of the one that stopped it.
Deadline ==
    \/ deadlines # {} \/ expired # {}
    \/ \E q \in Probe : probe[q].at \in {"load", "stop", "arm"}

GoesOn ==
    ~stopped =>
        /\ probe[checkTimer].at = "none" => checkTimer \in armed
        /\ probe[checkTimer].at \in {"check", "send", "done"} /\ answer = None => Deadline

\* A success counts once: its probe is over, and it is not the answer at hand.
Successes ==
    /\ healthCount = Cardinality(good)
    /\ \A p \in good : probe[p].at = "done"
    /\ loop \in {"stop timeout", "clear timeout", "record"} =>
          answer \in Probe /\ probe[answer].at = "done" /\ answer \notin good
    /\ HealthyTakesThreshold

Prompt ==
    /\ afterStop \in {0, 1}
    /\ afterStop = 1 => stopped /\ loop \in {"prepare", "done"}

CheckerInv == LoopTypes /\ Timers /\ GoesOn /\ Successes /\ Prompt

LEMMA CheckerInvInit == Constants /\ CheckerInit => CheckerInv
<1> SUFFICES ASSUME Constants, CheckerInit PROVE CheckerInv
    OBVIOUS
<1> USE DEF CheckerInit, Constants, Probe, None
<1>1. CheckerTypes
    BY DEF CheckerTypes
<1>2. LoopTypes
    BY <1>1 DEF LoopTypes
<1>3. Timers /\ GoesOn /\ Prompt
    BY DEF Timers, GoesOn, Prompt
<1>4. Successes
    BY FS_EmptySet DEF Successes, HealthyTakesThreshold
<1> QED BY <1>2, <1>3, <1>4 DEF CheckerInv

\* Probes are numbers, and the newest timer is one.
LEMMA Numbered == Constants /\ LoopTypes => Probe \subseteq Nat /\ checkTimer \in Probe /\ checkTimer \in Nat
<1>1. Constants => Probe \subseteq Nat
    BY DEF Constants, Probe
<1>2. LoopTypes => checkTimer \in Probe
    BY DEF LoopTypes, CheckerTypes
<1> QED BY <1>1, <1>2

\* A probe that was started moves on.
LEMMA ProbeMoves ==
    ASSUME LoopTypes, NEW p \in Probe, probe[p].at # "none", NEW to \in ProbePlaces
    PROVE  /\ probe[p] \in [at : ProbePlaces, id : Nat, healthy : BOOLEAN]
           /\ [probe[p] EXCEPT !.at = to] \in [at : ProbePlaces, id : Nat, healthy : BOOLEAN]
           /\ [probe[p] EXCEPT !.at = to].at = to
BY DEF LoopTypes

\* What the counters do with a result.
LEMMA SuccessCounts ==
    ASSUME Constants, LoopTypes, Successes, NEW p \in Probe, p \notin good, HandleSuccess(p)
    PROVE  /\ healthCount' \in 0 .. HealthyThreshold - 1 /\ unHealthCount' = 0
           /\ good' \in SUBSET Probe /\ good' \subseteq good \cup {p}
           /\ healthCount' = Cardinality(good')
           /\ HealthyTakesThreshold'
<1> DEFINE all == good \cup {p}
<1>1. IsFiniteSet(good) /\ Cardinality(good) \in Nat
  <2>1. 1 \in Int /\ MaxProbes \in Int /\ good \in SUBSET (1 .. MaxProbes)
      BY DEF LoopTypes, Probe, Constants
  <2>2. IsFiniteSet(1 .. MaxProbes)
      BY <2>1, FS_Interval
  <2> QED BY <2>1, <2>2, FS_Subset, FS_CardinalityType
<1>2. Cardinality(all) = healthCount + 1 /\ healthCount \in Nat
    BY <1>1, FS_AddElement DEF Successes
<1>3. all \in SUBSET Probe
    BY DEF LoopTypes
<1> HIDE DEF all
<1>4. CASE healthCount + 1 >= HealthyThreshold
  <2>1. /\ healthCount' = 0 /\ unHealthCount' = 0 /\ good' = {}
        /\ emitted' = [kind |-> "healthy", probes |-> Cardinality(all)]
      BY <1>4 DEF HandleSuccess, all
  <2> QED BY <2>1, <1>2, <1>4, FS_EmptySet DEF Constants, HealthyTakesThreshold
<1>5. CASE ~(healthCount + 1 >= HealthyThreshold)
  <2>1. /\ healthCount' = healthCount + 1 /\ unHealthCount' = 0 /\ good' = all /\ emitted' = emitted
      BY <1>5 DEF HandleSuccess, all
  <2>2. HealthyTakesThreshold'
      BY <2>1 DEF Successes, HealthyTakesThreshold
  <2>3. healthCount' \in 0 .. HealthyThreshold - 1
      BY <2>1, <1>2, <1>5 DEF Constants
  <2> QED BY <2>1, <2>2, <2>3, <1>2, <1>3 DEF all
<1> QED BY <1>4, <1>5

LEMMA FailureCounts ==
    ASSUME Constants, LoopTypes, Successes, NEW p, HandleFailure(p)
    PROVE  /\ healthCount' = 0 /\ unHealthCount' \in 0 .. UnhealthyThreshold - 1
           /\ good' = {} /\ healthCount' = Cardinality(good')
           /\ HealthyTakesThreshold'
<1>1. unHealthCount \in Nat /\ healthCount' = 0 /\ good' = {}
  <2>1. unHealthCount \in 0 .. UnhealthyThreshold - 1 /\ UnhealthyThreshold \in Nat
      BY DEF Constants, LoopTypes, CheckerTypes
  <2> QED BY <2>1 DEF HandleFailure
<1>2. CASE unHealthCount + 1 >= UnhealthyThreshold
  <2>1. unHealthCount' = 0 /\ emitted' = [kind |-> "unhealthy", probes |-> Cardinality(bad \cup {p})]
      BY <1>2 DEF HandleFailure
  <2> QED BY <2>1, <1>1, FS_EmptySet DEF Constants, HealthyTakesThreshold
<1>3. CASE ~(unHealthCount + 1 >= UnhealthyThreshold)
  <2>1. unHealthCount' = unHealthCount + 1 /\ emitted' = emitted
      BY <1>3 DEF HandleFailure
  <2>2. HealthyTakesThreshold'
      BY <2>1 DEF Successes, HealthyTakesThreshold
  <2>3. unHealthCount' \in 0 .. UnhealthyThreshold - 1
      BY <2>1, <1>1, <1>3 DEF Constants
  <2> QED BY <2>2, <2>3, <1>1, FS_EmptySet
<1> QED BY <1>2, <1>3

-----------------------------------------------------------------------------
\* A step that neither starts a probe nor counts a result, nor moves the loop to or
\* from an answer.
LEMMA QuietStep ==
    ASSUME Constants, CheckerInv, CheckerTypes', Timers', GoesOn',
           probe' \in [Probe -> [at : {"none"}] \cup [at : ProbePlaces, id : Nat, healthy : BOOLEAN]],
           loop' = "done" => stopped',
           \A p \in Probe : probe[p].at = "done" => probe'[p].at = "done",
           UNCHANGED countVars,
           ~stopped' => ~stopped,
           loop' \in {"stop timeout", "clear timeout", "record"} =>
               loop \in {"stop timeout", "clear timeout", "record"} /\ answer' = answer,
           loop \in {"prepare", "done"} => loop' \in {"prepare", "done"} \/ ~stopped
    PROVE  CheckerInv'
<1>1. LoopTypes'
    BY DEF CheckerInv, LoopTypes, countVars
<1>2. Successes'
  <2>1. HealthyTakesThreshold'
      BY DEF CheckerInv, Successes, HealthyTakesThreshold, countVars
  <2> QED BY <2>1 DEF CheckerInv, LoopTypes, Successes, countVars
<1>3. Prompt'
  <2>1. afterStop' = afterStop
      BY DEF countVars
  <2> QED BY <2>1, Zenon DEF CheckerInv, Prompt
<1> QED BY <1>1, <1>2, <1>3 DEF CheckerInv

\* The loop returns, or goes round.
LEMMA PrepareStep ==
    ASSUME Constants, CheckerInv, Prepare \/ SelectStop
    PROVE  CheckerInv'
<1> USE DEF CheckerInv
<1>1. UNCHANGED <<stopped, checkTimer, checkTimeout, expired, probe, answer, countVars>>
    BY DEF Prepare, SelectStop, Return, timerVars
<1>2. CASE stopped /\ Return
  <2>1. /\ loop' = "done" /\ armed' = armed \ {checkTimer} /\ deadlines' = deadlines \ {checkTimeout}
        /\ checkID' = checkID
      BY <1>2 DEF Return
  <2>2. CheckerTypes' /\ Timers' /\ GoesOn'
      BY <2>1, <1>1, <1>2 DEF LoopTypes, CheckerTypes, Timers, GoesOn, countVars
  <2> QED BY <2>1, <2>2, <1>1, <1>2, QuietStep DEF LoopTypes
<1>3. CASE ~stopped /\ loop = "prepare" /\ loop' = "select" /\ checkID' = checkID + 1
           /\ UNCHANGED timerVars
  <2>1. CheckerTypes' /\ Timers' /\ GoesOn'
      BY <1>1, <1>3 DEF LoopTypes, CheckerTypes, Timers, GoesOn, Deadline, countVars, timerVars
  <2> QED BY <2>1, <1>1, <1>3, QuietStep DEF LoopTypes
<1> QED BY <1>2, <1>3 DEF Prepare, SelectStop

LEMMA StopStep ==
    ASSUME Constants, CheckerInv, Stop
    PROVE  CheckerInv'
<1> USE DEF CheckerInv
<1>1. UNCHANGED <<loop, checkID, timerVars, probe, answer, countVars>> /\ stopped'
    BY DEF Stop
<1>2. CheckerTypes' /\ Timers' /\ GoesOn'
    BY <1>1 DEF LoopTypes, CheckerTypes, Timers, GoesOn, countVars, timerVars
<1>3. LoopTypes' /\ Successes'
    BY <1>1, <1>2 DEF LoopTypes, Successes, HealthyTakesThreshold, countVars
<1>4. Prompt'
    BY <1>1 DEF Prompt, Stop, countVars
<1> QED BY <1>2, <1>3, <1>4

LEMMA StopTimeoutStep ==
    ASSUME Constants, CheckerInv, StopTimeout
    PROVE  CheckerInv'
<1> USE DEF CheckerInv
<1>1. /\ UNCHANGED <<checkID, stopped, checkTimer, armed, checkTimeout, expired, probe, answer, countVars>>
      /\ deadlines' = deadlines \ {checkTimeout} /\ loop = "stop timeout"
      /\ loop' \in {"record", "clear timeout"}
    BY DEF StopTimeout
<1>2. answer # None
  <2>1. answer \in Probe
      BY <1>1 DEF Successes
  <2> QED BY <2>1 DEF Constants, Probe, None
<1>3. CheckerTypes' /\ Timers' /\ GoesOn'
    BY <1>1, <1>2 DEF LoopTypes, CheckerTypes, Timers, GoesOn, countVars
<1> QED BY <1>1, <1>3, QuietStep DEF LoopTypes

-----------------------------------------------------------------------------
\* A probe that is under way does its next step.
LEMMA ProbeStep ==
    ASSUME Constants, CheckerInv, NEW p \in Probe, probe[p].at \notin {"none", "done"},
           NEW q \in [at : ProbePlaces, id : Nat, healthy : BOOLEAN], probe' = [probe EXCEPT ![p] = q],
           deadlines' \in SUBSET Probe, checkTimeout' \in Probe \cup {None},
           Deadline' \/ (probe[p].at = "check" /\ deadlines' = deadlines),
           UNCHANGED <<loop, checkID, stopped, checkTimer, armed, expired, answer, countVars>>
    PROVE  CheckerInv'
<1> USE DEF CheckerInv
<1>1. probe'[p] = q /\ \A r \in Probe \ {p} : probe'[r] = probe[r]
    BY DEF LoopTypes
<1>2. probe' \in [Probe -> [at : {"none"}] \cup [at : ProbePlaces, id : Nat, healthy : BOOLEAN]]
    BY DEF LoopTypes
<1>3. q.at # "none" /\ q.at \in ProbePlaces
    BY DEF ProbePlaces
<1>4. CheckerTypes'
    BY DEF LoopTypes, CheckerTypes, countVars
<1>5. Timers'
    BY <1>1 DEF LoopTypes, CheckerTypes, Timers
<1>6. GoesOn'
  <2>1. CASE Deadline'
      BY <2>1, <1>1, <1>3 DEF GoesOn
  <2>2. CASE probe[p].at = "check" /\ deadlines' = deadlines
    <3>1. Deadline => Deadline'
      <4>1. ASSUME NEW r \in Probe, probe[r].at \in {"load", "stop", "arm"}
            PROVE  probe'[r].at \in {"load", "stop", "arm"}
          BY <4>1, <2>2, <1>1
      <4> QED BY <4>1, <2>2 DEF Deadline
    <3> QED BY <3>1, <2>2, <1>1, <1>3 DEF GoesOn
  <2> QED BY <2>1, <2>2
<1>7. \A r \in Probe : probe[r].at = "done" => probe'[r].at = "done"
    BY <1>1
<1>8. loop' = "done" => stopped'
    BY DEF LoopTypes
<1> HIDE DEF CheckerInv
<1> QED BY <1>2, <1>4, <1>5, <1>6, <1>7, <1>8, QuietStep

\* A probe stays one when its place is set, alone or with what that step learns.
LEMMA ProbeFields ==
    ASSUME NEW r \in [at : ProbePlaces, id : Nat, healthy : BOOLEAN],
           NEW a \in ProbePlaces, NEW i \in Nat, NEW h \in BOOLEAN
    PROVE  LET ProbeType == [at : ProbePlaces, id : Nat, healthy : BOOLEAN] IN
           /\ [r EXCEPT !.at = a] \in ProbeType /\ [r EXCEPT !.at = a].at = a
           /\ [r EXCEPT !.at = a, !.id = i] \in ProbeType /\ [r EXCEPT !.at = a, !.id = i].at = a
           /\ [r EXCEPT !.at = a, !.healthy = h] \in ProbeType
           /\ [r EXCEPT !.at = a, !.healthy = h].at = a
<1>1. /\ [r EXCEPT !.at = a] \in [at : ProbePlaces, id : Nat, healthy : BOOLEAN]
      /\ [r EXCEPT !.at = a].at = a
    OBVIOUS
<1>2. /\ [r EXCEPT !.at = a, !.id = i] \in [at : ProbePlaces, id : Nat, healthy : BOOLEAN]
      /\ [r EXCEPT !.at = a, !.id = i].at = a
    OBVIOUS
<1>3. /\ [r EXCEPT !.at = a, !.healthy = h] \in [at : ProbePlaces, id : Nat, healthy : BOOLEAN]
      /\ [r EXCEPT !.at = a, !.healthy = h].at = a
    OBVIOUS
<1> QED BY <1>1, <1>2, <1>3

LEMMA OnCheckSteps ==
    ASSUME Constants, CheckerInv, NEW p \in Probe,
           LoadID(p) \/ StopOldTimeout(p) \/ ArmTimeout(p) \/ CheckHealth(p)
    PROVE  CheckerInv'
<1> DEFINE ProbeType == [at : ProbePlaces, id : Nat, healthy : BOOLEAN]
<1>1. probe[p].at \notin {"none", "done"}
    BY DEF LoadID, StopOldTimeout, ArmTimeout, CheckHealth
<1>2. /\ probe[p] \in ProbeType /\ probe \in [Probe -> [at : {"none"}] \cup ProbeType]
      /\ checkID \in Nat /\ deadlines \in SUBSET Probe /\ checkTimeout \in Probe \cup {None}
    BY <1>1 DEF CheckerInv, LoopTypes, CheckerTypes
<1>3. ASSUME NEW q \in ProbeType, probe' = [probe EXCEPT ![p] = q],
             q.at \in {"load", "stop", "arm"} \/ p \in deadlines' \/ (probe[p].at = "check" /\ deadlines' = deadlines),
             deadlines' \in SUBSET Probe, checkTimeout' \in Probe \cup {None},
             UNCHANGED <<loop, checkID, stopped, checkTimer, armed, expired, answer, countVars>>
      PROVE  CheckerInv'
  <2>1. probe'[p] = q
      BY <1>2, <1>3
  <2>2. Deadline' \/ (probe[p].at = "check" /\ deadlines' = deadlines)
      BY <2>1, <1>3 DEF Deadline
  <2> QED BY <2>2, <1>1, <1>3, ProbeStep
<1>4. "stop" \in ProbePlaces /\ "arm" \in ProbePlaces /\ "check" \in ProbePlaces /\ "send" \in ProbePlaces
    BY DEF ProbePlaces
<1>5. CASE LoadID(p)
  <2> DEFINE q == [probe[p] EXCEPT !.at = "stop", !.id = checkID]
  <2>1. q \in ProbeType /\ q.at = "stop"
      BY <1>2, <1>4, ProbeFields
  <2>2. probe' = [probe EXCEPT ![p] = q]
      BY <1>5 DEF LoadID
  <2> HIDE DEF q
  <2> QED BY <2>1, <2>2, <1>2, <1>3, <1>5 DEF LoadID, timerVars
<1>6. CASE StopOldTimeout(p)
  <2> DEFINE q == [probe[p] EXCEPT !.at = "arm"]
  <2>1. q \in ProbeType /\ q.at = "arm"
      BY <1>2, <1>4, ProbeFields
  <2>2. probe' = [probe EXCEPT ![p] = q]
      BY <1>6 DEF StopOldTimeout
  <2> HIDE DEF q
  <2> QED BY <2>1, <2>2, <1>2, <1>3, <1>6 DEF StopOldTimeout
<1>7. CASE ArmTimeout(p)
  <2> DEFINE q == [probe[p] EXCEPT !.at = "check"]
  <2>1. q \in ProbeType
      BY <1>2, <1>4, ProbeFields
  <2>2. probe' = [probe EXCEPT ![p] = q]
      BY <1>7 DEF ArmTimeout
  <2> HIDE DEF q
  <2> QED BY <2>1, <2>2, <1>2, <1>3, <1>7 DEF ArmTimeout
<1>8. CASE CheckHealth(p)
  <2>1. PICK h \in BOOLEAN : probe' = [probe EXCEPT ![p].at = "send", ![p].healthy = h]
      BY <1>8 DEF CheckHealth
  <2> DEFINE q == [probe[p] EXCEPT !.at = "send", !.healthy = h]
  <2>2. q \in ProbeType
      BY <1>2, <1>4, ProbeFields
  <2>3. probe' = [probe EXCEPT ![p] = q]
      BY <2>1
  <2> HIDE DEF q
  <2> QED BY <2>2, <2>3, <1>2, <1>3, <1>8 DEF CheckHealth, timerVars
<1> QED BY <1>5, <1>6, <1>7, <1>8

\* The timer of a check fires.
LEMMA OnCheckStep ==
    ASSUME Constants, CheckerInv, NEW p \in Probe, OnCheck(p)
    PROVE  CheckerInv'
<1> USE DEF CheckerInv
<1> DEFINE q == [at |-> "load", id |-> 0, healthy |-> FALSE]
<1>1. q \in [at : ProbePlaces, id : Nat, healthy : BOOLEAN] /\ q.at = "load"
    BY DEF ProbePlaces
<1>2. /\ p \in armed /\ armed' = armed \ {p} /\ probe' = [probe EXCEPT ![p] = q]
      /\ UNCHANGED <<loop, checkID, stopped, checkTimer, checkTimeout, deadlines, expired, answer,
                     countVars>>
    BY DEF OnCheck
<1> HIDE DEF q
<1>3. probe'[p] = q /\ \A r \in Probe \ {p} : probe'[r] = probe[r]
    BY <1>2 DEF LoopTypes
<1>4. probe' \in [Probe -> [at : {"none"}] \cup [at : ProbePlaces, id : Nat, healthy : BOOLEAN]]
    BY <1>1, <1>2 DEF LoopTypes
<1>5. probe[p].at = "none" /\ p <= checkTimer
  <2>1. checkTimer \in Nat /\ p \in Nat
      BY Numbered
  <2> QED BY <2>1, <1>2 DEF Timers
<1>6. CheckerTypes'
    BY <1>2 DEF LoopTypes, CheckerTypes, countVars
<1>7. Timers'
  <2>1. \A r \in Probe : r > checkTimer => r # p
    <3>1. checkTimer \in Nat /\ Probe \subseteq Nat
        BY Numbered
    <3> QED BY <3>1, <1>5
  <2>2. armed \subseteq Probe
      BY DEF LoopTypes, CheckerTypes
  <2> QED BY <1>2, <1>3, <2>1, <2>2 DEF Timers
<1>8. GoesOn'
  <2>1. Deadline'
      BY <1>1, <1>3 DEF Deadline
  <2>2. ~stopped' /\ probe'[checkTimer'].at = "none" => checkTimer' \in armed'
    <3>1. checkTimer \in Probe
        BY DEF LoopTypes, CheckerTypes
    <3> QED BY <3>1, <1>1, <1>2, <1>3 DEF GoesOn
  <2> QED BY <2>1, <2>2 DEF GoesOn
<1>9. \A r \in Probe : probe[r].at = "done" => probe'[r].at = "done"
    BY <1>3, <1>5
<1>10. loop' = "done" => stopped'
    BY <1>2 DEF LoopTypes
<1> HIDE DEF CheckerInv
<1> QED BY <1>2, <1>4, <1>6, <1>7, <1>8, <1>9, <1>10, QuietStep

\* The deadline of a probe passes.
LEMMA OnTimeoutStep ==
    ASSUME Constants, CheckerInv, NEW p \in Probe, OnTimeout(p)
    PROVE  CheckerInv'
<1> USE DEF CheckerInv
<1>1. /\ deadlines' = deadlines \ {p} /\ expired' = expired \cup {p}
      /\ UNCHANGED <<loop, checkID, stopped, checkTimer, armed, checkTimeout, probe, answer, countVars>>
    BY DEF OnTimeout
<1>2. CheckerTypes' /\ Timers'
    BY <1>1 DEF LoopTypes, CheckerTypes, Timers, countVars
<1>3. GoesOn'
    BY <1>1 DEF GoesOn, Deadline
<1> QED BY <1>1, <1>2, <1>3, QuietStep DEF LoopTypes

-----------------------------------------------------------------------------
\* An answer is received, and dropped when it is for another check.
LEMMA SelectResponseStep ==
    ASSUME Constants, CheckerInv, NEW p \in Probe, SelectResponse(p)
    PROVE  CheckerInv'
<1> USE DEF CheckerInv
<1> DEFINE q == [probe[p] EXCEPT !.at = "done"]
<1>1. /\ loop = "select" /\ probe[p].at = "send" /\ probe' = [probe EXCEPT ![p] = q]
      /\ UNCHANGED <<checkID, stopped, timerVars, countVars>>
    BY DEF SelectResponse
<1>2. \/ loop' = "stop timeout" /\ answer' = p
      \/ loop' = "prepare" /\ answer' = answer
    BY DEF SelectResponse
<1>3. q \in [at : ProbePlaces, id : Nat, healthy : BOOLEAN] /\ q.at = "done"
  <2>1. "done" \in ProbePlaces /\ "send" # "none"
      BY DEF ProbePlaces
  <2> QED BY <2>1, <1>1, ProbeMoves
<1> HIDE DEF q
<1>4. probe'[p] = q /\ \A r \in Probe \ {p} : probe'[r] = probe[r]
    BY <1>1 DEF LoopTypes
<1>5. probe' \in [Probe -> [at : {"none"}] \cup [at : ProbePlaces, id : Nat, healthy : BOOLEAN]]
    BY <1>1, <1>3 DEF LoopTypes
<1>6. CheckerTypes'
    BY <1>1, <1>2 DEF LoopTypes, CheckerTypes, countVars, timerVars
<1>7. LoopTypes'
    BY <1>1, <1>2, <1>5, <1>6 DEF LoopTypes, countVars
<1>8. Timers'
    BY <1>1, <1>3, <1>4 DEF Timers, LoopTypes, CheckerTypes, timerVars
<1>9. GoesOn'
  <2>1. Deadline => Deadline'
    <3>1. ASSUME NEW r \in Probe, probe[r].at \in {"load", "stop", "arm"}
          PROVE  probe'[r].at \in {"load", "stop", "arm"}
        BY <3>1, <1>1, <1>4
    <3> QED BY <3>1, <1>1 DEF Deadline, timerVars
  <2>2. answer' = None => answer = None
    <3>1. p # None
        BY DEF Constants, Probe, None
    <3> QED BY <3>1, <1>2
  <2>3. checkTimer' = checkTimer /\ armed' = armed /\ stopped' = stopped /\ checkTimer \in Probe
      BY <1>1, Numbered DEF timerVars
  <2>4. probe'[checkTimer].at = "none" => probe[checkTimer].at = "none"
      BY <1>3, <1>4, <2>3
  <2>5. probe'[checkTimer].at \in {"check", "send", "done"} => probe[checkTimer].at \in {"check", "send", "done"}
      BY <1>1, <1>4, <2>3
  <2> QED BY <2>1, <2>2, <2>3, <2>4, <2>5 DEF GoesOn
<1>10. Successes'
  <2>1. \A r \in good : r # p /\ probe'[r].at = "done"
    <3>1. good \subseteq Probe /\ \A r \in good : probe[r].at = "done"
        BY DEF Successes, LoopTypes
    <3>2. p \notin good
        BY <3>1, <1>1
    <3> QED BY <3>1, <3>2, <1>4
  <2>2. HealthyTakesThreshold'
      BY <1>1 DEF Successes, HealthyTakesThreshold, countVars
  <2> QED BY <2>1, <2>2, <1>1, <1>2, <1>3, <1>4 DEF Successes, countVars
<1>11. Prompt'
  <2>1. afterStop' = afterStop /\ afterStop = 0
      BY <1>1 DEF Prompt, countVars
  <2> QED BY <2>1 DEF Prompt
<1> QED BY <1>7, <1>8, <1>9, <1>10, <1>11

\* A result is counted; the next check is armed and the loop goes round.
LEMMA CountedStep ==
    ASSUME Constants, CheckerInv, NEW cancel, cancel = {} \/ cancel = {checkTimer}, NextCheck(cancel),
           loop \notin {"prepare", "done"}, loop' = "prepare", CountAfterStop,
           UNCHANGED <<checkID, stopped, deadlines, probe>>,
           checkTimeout' \in Probe \cup {None}, expired' \subseteq expired,
           healthCount' \in 0 .. HealthyThreshold - 1, unHealthCount' \in 0 .. UnhealthyThreshold - 1,
           good' \in SUBSET Probe, healthCount' = Cardinality(good'), HealthyTakesThreshold',
           \A r \in good' : probe[r].at = "done"
    PROVE  CheckerInv'
<1> USE DEF CheckerInv
<1>1. /\ checkTimer < MaxProbes /\ checkTimer' = checkTimer + 1
      /\ armed' = (armed \ cancel) \cup {checkTimer + 1}
    BY DEF NextCheck
<1>2. Probe \subseteq Nat /\ checkTimer \in Nat /\ checkTimer + 1 \in Probe
  <2>1. checkTimer \in Nat /\ MaxProbes \in Nat
      BY Numbered DEF Constants
  <2> QED BY <2>1, <1>1, Numbered DEF Probe
<1>3. probe[checkTimer + 1].at = "none"
    BY <1>2 DEF Timers
<1>4. CheckerTypes'
    BY <1>1, <1>2 DEF LoopTypes, CheckerTypes
<1>5. LoopTypes'
    BY <1>4 DEF LoopTypes
<1>6. Timers'
  <2>1. \A r \in armed' : probe'[r].at = "none"
      BY <1>1, <1>3 DEF Timers
  <2>2. ASSUME NEW r \in Probe, r > checkTimer + 1 PROVE probe[r].at = "none" /\ r \notin armed'
    <3>1. r > checkTimer /\ r # checkTimer + 1
        BY <1>2, <2>2
    <3> QED BY <3>1, <1>1 DEF Timers
  <2> QED BY <2>1, <2>2, <1>1 DEF Timers
<1>7. GoesOn'
  <2>1. checkTimer' \in armed' /\ probe'[checkTimer'].at = "none"
      BY <1>1, <1>3
  <2> QED BY <2>1 DEF GoesOn
<1>8. Successes'
    BY DEF Successes
<1>9. Prompt'
  <2>1. afterStop = 0
      BY DEF Prompt
  <2>2. CASE stopped
      BY <2>1, <2>2 DEF Prompt, CountAfterStop
  <2>3. CASE ~stopped
      BY <2>1, <2>3 DEF Prompt, CountAfterStop
  <2> QED BY <2>2, <2>3
<1> QED BY <1>5, <1>6, <1>7, <1>8, <1>9

LEMMA RecordStep ==
    ASSUME Constants, CheckerInv, Record
    PROVE  CheckerInv'
<1>1. answer \in Probe /\ probe[answer].at = "done" /\ answer \notin good
    BY DEF CheckerInv, Successes, Record
<1>2. LoopTypes /\ Successes
    BY DEF CheckerInv
<1>3. /\ healthCount' \in 0 .. HealthyThreshold - 1 /\ unHealthCount' \in 0 .. UnhealthyThreshold - 1
      /\ good' \in SUBSET Probe /\ healthCount' = Cardinality(good') /\ HealthyTakesThreshold'
      /\ good' \subseteq good \cup {answer}
  <2>1. CASE probe[answer].healthy
    <3>1. HandleSuccess(answer)
        BY <2>1 DEF Record
    <3>2. 0 \in 0 .. UnhealthyThreshold - 1
        BY DEF Constants
    <3> QED BY <3>1, <3>2, <1>1, <1>2, SuccessCounts
  <2>2. CASE ~probe[answer].healthy
    <3>1. HandleFailure(answer)
        BY <2>2 DEF Record
    <3>2. 0 \in 0 .. HealthyThreshold - 1
        BY DEF Constants
    <3> QED BY <3>1, <3>2, <1>2, FailureCounts
  <2> QED BY <2>1, <2>2
<1>4. \A r \in good' : probe[r].at = "done"
    BY <1>1, <1>2, <1>3 DEF Successes
<1>5. /\ loop \notin {"prepare", "done"} /\ loop' = "prepare" /\ CountAfterStop /\ NextCheck({})
      /\ UNCHANGED <<checkID, stopped, deadlines, probe, expired>>
    BY DEF Record
<1>6. checkTimeout' \in Probe \cup {None}
    BY <1>2 DEF Record, LoopTypes, CheckerTypes
<1> QED BY <1>3, <1>4, <1>5, <1>6, CountedStep

LEMMA SelectTimeoutStep ==
    ASSUME Constants, CheckerInv, NEW p \in Probe, SelectTimeout(p)
    PROVE  CheckerInv'
<1>1. LoopTypes /\ Successes
    BY DEF CheckerInv
<1>2. HandleFailure(p)
    BY DEF SelectTimeout
<1>3. /\ healthCount' \in 0 .. HealthyThreshold - 1 /\ unHealthCount' \in 0 .. UnhealthyThreshold - 1
      /\ good' = {} /\ healthCount' = Cardinality(good') /\ HealthyTakesThreshold'
  <2>1. 0 \in 0 .. HealthyThreshold - 1
      BY DEF Constants
  <2> QED BY <2>1, <1>1, <1>2, FailureCounts
<1>4. /\ loop = "select" /\ loop' = "prepare" /\ CountAfterStop /\ NextCheck({checkTimer})
      /\ UNCHANGED <<checkID, stopped, deadlines, probe>> /\ expired' \subseteq expired
    BY DEF SelectTimeout
<1>5. checkTimeout' \in Probe \cup {None}
    BY <1>1 DEF SelectTimeout, LoopTypes, CheckerTypes
<1> QED BY <1>3, <1>4, <1>5, CountedStep

-----------------------------------------------------------------------------
LEMMA CheckerInvNext == Constants /\ CheckerInv /\ [CheckerNext]_checkerVars => CheckerInv'
<1> SUFFICES ASSUME Constants, CheckerInv, [CheckerNext]_checkerVars PROVE CheckerInv'
    OBVIOUS
<1>1. CASE UNCHANGED checkerVars
    BY <1>1 DEF CheckerInv, LoopTypes, CheckerTypes, Timers, GoesOn, Deadline, Successes, HealthyTakesThreshold, Prompt,
                checkerVars, timerVars, countVars
<1>2. CASE Prepare \/ SelectStop \/ StopTimeout \/ Record \/ Stop
    BY <1>2, PrepareStep, StopTimeoutStep, RecordStep, StopStep
<1>3. ASSUME NEW p \in Probe, SelectResponse(p) \/ SelectTimeout(p) \/ OnCheck(p) \/ OnTimeout(p)
      PROVE  CheckerInv'
    BY <1>3, SelectResponseStep, SelectTimeoutStep, OnCheckStep, OnTimeoutStep
<1>4. ASSUME NEW p \in Probe, LoadID(p) \/ StopOldTimeout(p) \/ ArmTimeout(p) \/ CheckHealth(p)
      PROVE  CheckerInv'
    BY <1>4, OnCheckSteps
<1> QED BY <1>1, <1>2, <1>3, <1>4 DEF CheckerNext

\* The newest check keeps the session going.
LEMMA CheckerInvIsSound == Constants /\ CheckerInv => SessionIsSound
<1> SUFFICES ASSUME Constants, CheckerInv PROVE SessionIsSound
    OBVIOUS
<1> USE DEF CheckerInv
<1>1. CheckerTypes /\ HealthyTakesThreshold
    BY DEF LoopTypes, Successes
<1>2. StopIsPrompt
    BY DEF Prompt, StopIsPrompt
<1>3. ASSUME ~stopped PROVE \/ armed # {} \/ deadlines # {} \/ expired # {} \/ answer # None
                            \/ \E p \in Probe : probe[p].at \notin {"none", "done"}
  <2>1. checkTimer \in Probe
      BY Numbered
  <2>2. CASE probe[checkTimer].at \in {"none", "done"} /\ answer = None
      BY <2>1, <2>2, <1>3 DEF GoesOn, Deadline
  <2>3. CASE ~(probe[checkTimer].at \in {"none", "done"} /\ answer = None)
      BY <2>1, <2>3
  <2> QED BY <2>2, <2>3
<1> QED BY <1>1, <1>2, <1>3 DEF SessionIsSound, NeverDriesUp

(***************************************************************************)
(* For any thresholds and any number of probes, a session that is not      *)
(* stopped keeps something under way (also past the last probe), counts    *)
(* only successes in a row, each of another probe, towards healthy, and    *)
(* handles at most one result once it is stopped (EndpointChecker.Start,   *)
(* OnCheck, OnTimeout, HandleSuccess).                                     *)
(***************************************************************************)
THEOREM SessionStaysSound == ASSUME Constants PROVE CheckerSpec => []SessionIsSound
<1>1. CheckerInit => CheckerInv
    BY CheckerInvInit
<1>2. CheckerInv /\ [CheckerNext]_checkerVars => CheckerInv'
    BY CheckerInvNext
<1>3. CheckerInv => SessionIsSound
    BY CheckerInvIsSound
<1> QED BY <1>1, <1>2, <1>3, PTL DEF CheckerSpec
=============================================================================
