----------------------------- MODULE EndpointFeed -----------------------------
(***************************************************************************)
(* What the cluster manager promises the consumers of its endpoint         *)
(* lifecycle callbacks (AddEndpointStateHandler): every change of the set  *)
(* of live endpoint addresses is announced with a number that grows from   *)
(* change to change, and a consumer that ignores whatever is not newer     *)
(* than the last announcement it applied ends up knowing that set, in      *)
(* whatever order the callbacks run.                                       *)
(*                                                                         *)
(* The callbacks run after the manager's lock is released, on the          *)
(* goroutine of whoever made the change, so announcements of different     *)
(* changes overtake each other.                                            *)
(***************************************************************************)
EXTENDS Naturals, TLAPS

CONSTANTS
    Key,        \* an endpoint address within a cluster
    MaxEvents   \* bound: number of changes

ASSUME MaxEventsAssumption == MaxEvents \in Nat

VARIABLES
    present,  \* the keys that are live
    eventID,  \* nextEndpointEventID
    pending,  \* announcements whose callback has not run
    seen,     \* consumer: number of the last announcement applied, per key
    view      \* consumer: the keys it takes for live

feedVars == <<present, eventID, pending, seen, view>>

Announcement == [key : Key, present : BOOLEAN, version : 1 .. MaxEvents]

-----------------------------------------------------------------------------
Init ==
    /\ present \in SUBSET Key
    /\ eventID = 0
    /\ pending = {}
    /\ seen = [k \in Key |-> 0]
    /\ view = present

\* endpointStateChanges: what appeared and what vanished.
Changes(old, new, version) ==
    {[key |-> k, present |-> TRUE, version |-> version] : k \in new \ old}
        \cup {[key |-> k, present |-> FALSE, version |-> version] : k \in old \ new}

\* One change of the store, made and numbered under the lock.
Change(new) ==
    /\ eventID < MaxEvents
    /\ eventID' = eventID + 1
    /\ present' = new
    /\ pending' = pending \cup Changes(present, new, eventID + 1)
    /\ UNCHANGED <<seen, view>>

\* Mutant: the consumer applies whatever arrives.
ApplyAlways(e) ==
    /\ seen' = [seen EXCEPT ![e.key] = e.version]
    /\ view' = IF e.present THEN view \cup {e.key} ELSE view \ {e.key}

\* UpdateEndpointState: an announcement that is not newer is discarded.
Apply(e) ==
    IF e.version <= seen[e.key]
    THEN UNCHANGED <<seen, view>>
    ELSE /\ seen' = [seen EXCEPT ![e.key] = e.version]
         /\ view' = IF e.present THEN view \cup {e.key} ELSE view \ {e.key}

Deliver(e) ==
    /\ e \in pending
    /\ pending' = pending \ {e}
    /\ Apply(e)
    /\ UNCHANGED <<present, eventID>>

Next ==
    \/ \E new \in SUBSET Key : Change(new)
    \/ \E e \in pending : Deliver(e)

Spec == Init /\ [][Next]_feedVars

-----------------------------------------------------------------------------
\* Types; no announcement carries a number that was not handed out.
TypeOK ==
    /\ present \in SUBSET Key
    /\ eventID \in 0 .. MaxEvents
    /\ pending \in SUBSET Announcement
    /\ \A e \in pending : e.version <= eventID
    /\ seen \in [Key -> 0 .. MaxEvents]
    /\ \A k \in Key : seen[k] <= eventID
    /\ view \in SUBSET Key

\* Announcements about k that the consumer would still apply.
Newer(k) == {e \in pending : e.key = k /\ e.version > seen[k]}

(***************************************************************************)
(* Whenever nothing newer about a key is on its way, the consumer is right *)
(* about that key: callbacks of concurrent store changes may run in any    *)
(* order and the versions of UpdateEndpointState sort them out.            *)
(***************************************************************************)
ConsumerConverges ==
    \A k \in Key : Newer(k) = {} => (k \in view <=> k \in present)

-----------------------------------------------------------------------------
(***************************************************************************)
(* Proofs: the consumer converges for any set of keys and any number of    *)
(* changes.                                                                *)
(***************************************************************************)
\* e is the one announcement about its key with the highest number.
IsLatest(e) ==
    \A f \in pending : f.key = e.key => /\ f.version <= e.version
                                        /\ f.version = e.version => f = e

\* The consumer is right about k, or the latest announcement will put it right.
RightOrCorrected(k) ==
    \/ Newer(k) = {} /\ (k \in view <=> k \in present)
    \/ \E e \in Newer(k) : (e.present <=> k \in present) /\ IsLatest(e)

IInv == TypeOK /\ \A k \in Key : RightOrCorrected(k)

LEMMA InitIInv == Init => IInv
BY MaxEventsAssumption DEF Init, IInv, TypeOK, RightOrCorrected, Newer

\* What one change announces: one announcement per key that came or went.
LEMMA ChangesOfKey ==
    ASSUME NEW old \in SUBSET Key, NEW new \in SUBSET Key, NEW v \in 1 .. MaxEvents
    PROVE  /\ \A e \in Changes(old, new, v) :
                /\ e \in Announcement /\ e.version = v
                /\ e.key \in new <=> e.key \notin old
                /\ e = [key |-> e.key, present |-> e.present, version |-> v]
                /\ e.present <=> e.key \in new
           /\ \A k \in Key : k \in new /\ k \notin old =>
                [key |-> k, present |-> TRUE, version |-> v] \in Changes(old, new, v)
           /\ \A k \in Key : k \notin new /\ k \in old =>
                [key |-> k, present |-> FALSE, version |-> v] \in Changes(old, new, v)
<1> DEFINE Came(k) == [key |-> k, present |-> TRUE, version |-> v]
           Went(k) == [key |-> k, present |-> FALSE, version |-> v]
<1>1. \A e : e \in Changes(old, new, v) <=>
               \/ \E k \in new \ old : e = Came(k)
               \/ \E k \in old \ new : e = Went(k)
    BY DEF Changes
<1>2. ASSUME NEW k \in Key
      PROVE  /\ Came(k) \in Announcement /\ Came(k).key = k
             /\ Came(k).present = TRUE /\ Came(k).version = v
             /\ Went(k) \in Announcement /\ Went(k).key = k
             /\ Went(k).present = FALSE /\ Went(k).version = v
    BY DEF Announcement
<1> HIDE DEF Came, Went
<1>3. ASSUME NEW e \in Changes(old, new, v)
      PROVE  /\ e \in Announcement /\ e.version = v
             /\ e.key \in new <=> e.key \notin old
             /\ e.present <=> e.key \in new
  <2>1. CASE \E k \in new \ old : e = Came(k)
    <3>1. PICK k \in new \ old : e = Came(k)
        BY <2>1
    <3>2. e \in Announcement /\ e.key = k /\ e.present = TRUE /\ e.version = v
        BY <3>1, <1>2
    <3> QED BY <3>2
  <2>2. CASE \E k \in old \ new : e = Went(k)
    <3>1. PICK k \in old \ new : e = Went(k)
        BY <2>2
    <3>2. e \in Announcement /\ e.key = k /\ e.present = FALSE /\ e.version = v
        BY <3>1, <1>2
    <3> QED BY <3>2
  <2> QED BY <2>1, <2>2, <1>1
<1>4. ASSUME NEW e \in Changes(old, new, v)
      PROVE  e = [key |-> e.key, present |-> e.present, version |-> v]
  <2>1. PICK k \in Key : e = Came(k) \/ e = Went(k)
      BY <1>1
  <2> QED BY <2>1 DEF Came, Went
<1>5. \A k \in Key : k \in new /\ k \notin old => Came(k) \in Changes(old, new, v)
    BY <1>1
<1>6. \A k \in Key : k \notin new /\ k \in old => Went(k) \in Changes(old, new, v)
    BY <1>1
<1> QED BY <1>3, <1>4, <1>5, <1>6 DEF Came, Went

LEMMA ChangeIInv ==
    ASSUME IInv, NEW new \in SUBSET Key, Change(new)
    PROVE  IInv'
<1> USE MaxEventsAssumption DEF IInv
<1>0. eventID \in Nat /\ eventID + 1 \in 1 .. MaxEvents
    BY DEF Change, TypeOK
<1>1. TypeOK'
    BY <1>0, ChangesOfKey DEF TypeOK, Change, Announcement
<1>2. ASSUME NEW k \in Key PROVE RightOrCorrected(k)'
  <2>1. CASE (k \in new) <=> (k \in present)
    <3>1. \A e \in Changes(present, new, eventID + 1) : e.key # k
        BY <2>1, <1>0, ChangesOfKey DEF TypeOK
    <3>2. \A e : e \in pending' /\ e.key = k <=> e \in pending /\ e.key = k
        BY <3>1 DEF Change
    <3>3. Newer(k)' = Newer(k)
        BY <3>2 DEF Newer, Change
    <3>4. \A e \in Newer(k) : IsLatest(e) => IsLatest(e)'
        BY <3>2 DEF Newer, IsLatest
    <3> QED BY <2>1, <3>3, <3>4 DEF RightOrCorrected, Change
  <2>2. CASE ~((k \in new) <=> (k \in present))
    <3>1. PICK e \in Changes(present, new, eventID + 1) :
             e.key = k /\ (e.present <=> k \in new)
      <4> DEFINE came == [key |-> k, present |-> TRUE, version |-> eventID + 1]
                 went == [key |-> k, present |-> FALSE, version |-> eventID + 1]
      <4>1. CASE k \in new /\ k \notin present
        <5>1. came \in Changes(present, new, eventID + 1)
            BY <4>1, <1>0, ChangesOfKey DEF TypeOK
        <5>2. came.key = k /\ came.present = TRUE
            OBVIOUS
        <5> QED BY <4>1, <5>1, <5>2
      <4>2. CASE k \notin new /\ k \in present
        <5>1. went \in Changes(present, new, eventID + 1)
            BY <4>2, <1>0, ChangesOfKey DEF TypeOK
        <5>2. went.key = k /\ went.present = FALSE
            OBVIOUS
        <5> QED BY <4>2, <5>1, <5>2
      <4> QED BY <2>2, <4>1, <4>2
    <3>2. e \in pending' /\ e.version = eventID + 1
        BY <3>1, <1>0, ChangesOfKey DEF Change, TypeOK
    <3>3. e \in Newer(k)'
        BY <3>1, <3>2, <1>0 DEF Newer, Change, TypeOK
    <3>4. ASSUME NEW f \in pending', f.key = k
          PROVE  f.version <= e.version /\ (f.version = e.version => f = e)
      <4>1. CASE f \in pending
          BY <4>1, <3>2, <1>0 DEF TypeOK, Announcement
      <4>2. CASE f \in Changes(present, new, eventID + 1)
        <5>1. f.version = e.version /\ f.present = e.present
            BY <4>2, <3>1, <3>4, <1>0, ChangesOfKey DEF TypeOK, Announcement
        <5>2. f = [key |-> k, present |-> f.present, version |-> eventID + 1]
            BY <4>2, <3>4, <1>0, ChangesOfKey DEF TypeOK
        <5>3. e = [key |-> k, present |-> e.present, version |-> eventID + 1]
            BY <3>1, <1>0, ChangesOfKey DEF TypeOK
        <5> QED BY <5>1, <5>2, <5>3, <3>2, <1>0
      <4> QED BY <4>1, <4>2 DEF Change
    <3>5. IsLatest(e)'
        BY <3>1, <3>4 DEF IsLatest
    <3> QED BY <3>1, <3>3, <3>5 DEF RightOrCorrected, Change
  <2> QED BY <2>1, <2>2
<1> QED BY <1>1, <1>2

LEMMA DeliverIInv ==
    ASSUME IInv, NEW d \in pending, Deliver(d)
    PROVE  IInv'
<1> USE MaxEventsAssumption DEF IInv
<1>0. /\ d.key \in Key /\ d.present \in BOOLEAN
      /\ d.version \in Nat /\ d.version <= eventID /\ d.version \in 1 .. MaxEvents
    BY DEF TypeOK, Announcement
<1>1. TypeOK'
    BY <1>0 DEF TypeOK, Deliver, Apply
<1>2. ASSUME NEW k \in Key PROVE RightOrCorrected(k)'
  <2>0. /\ \A e \in pending : IsLatest(e) => IsLatest(e)'
        /\ \A e \in pending : e.version \in Nat
        /\ seen[k] \in Nat
      BY DEF IsLatest, Deliver, TypeOK, Announcement
  <2>1. CASE d.key # k \/ d.version <= seen[k]
    <3>1. seen'[k] = seen[k] /\ (k \in view' <=> k \in view)
        BY <2>1, <1>0 DEF Deliver, Apply, TypeOK
    <3>2. Newer(k)' = Newer(k)
        BY <2>1, <3>1, <2>0, <1>0 DEF Newer, Deliver
    <3> QED BY <3>1, <3>2, <2>0 DEF RightOrCorrected, Deliver, Newer
  <2>2. CASE d.key = k /\ ~(d.version <= seen[k])
    <3>1. seen'[k] = d.version /\ (k \in view' <=> d.present)
        BY <2>2, <1>0 DEF Deliver, Apply, TypeOK
    <3>2. d \in Newer(k)
        BY <2>2, <2>0, <1>0 DEF Newer
    <3>3. PICK e \in Newer(k) : (e.present <=> k \in present) /\ IsLatest(e)
        BY <3>2 DEF RightOrCorrected
    <3>4. CASE e = d
      <4>1. \A f \in pending' : f.key = k => f.version < d.version
          BY <3>3, <3>4, <2>0, <2>2, <1>0 DEF IsLatest, Deliver, Newer
      <4>2. Newer(k)' = {}
          BY <4>1, <3>1, <2>0, <1>0 DEF Newer, Deliver
      <4> QED BY <4>2, <3>1, <3>3, <3>4, <1>0 DEF RightOrCorrected, Deliver
    <3>5. CASE e # d
      <4>1. d.version < e.version
          BY <3>3, <3>5, <2>2, <2>0, <1>0 DEF IsLatest, Newer
      <4>2. e \in Newer(k)'
          BY <4>1, <3>1, <3>5, <2>0 DEF Newer, Deliver
      <4> QED BY <4>2, <3>3, <2>0 DEF RightOrCorrected, Deliver, Newer
    <3> QED BY <3>4, <3>5
  <2> QED BY <2>1, <2>2
<1> QED BY <1>1, <1>2

LEMMA NextIInv == IInv /\ [Next]_feedVars => IInv'
<1> SUFFICES ASSUME IInv, [Next]_feedVars PROVE IInv'
    OBVIOUS
<1>1. CASE Next
    BY <1>1, ChangeIInv, DeliverIInv DEF Next
<1>2. CASE UNCHANGED feedVars
    BY <1>2 DEF feedVars, IInv, TypeOK, RightOrCorrected, Newer, IsLatest
<1> QED BY <1>1, <1>2

\* Announcements never carry a number the feed has not handed out.
THEOREM FeedTypes == Spec => []TypeOK
<1>1. IInv => TypeOK
    BY DEF IInv
<1> QED BY <1>1, InitIInv, NextIInv, PTL DEF Spec

\* A consumer that discards what is not newer, as UpdateEndpointState does, is
\* right about every key that has nothing newer under way.
THEOREM FeedConverges == Spec => []ConsumerConverges
<1>1. IInv => ConsumerConverges
    BY DEF IInv, ConsumerConverges, RightOrCorrected
<1> QED BY <1>1, InitIInv, NextIInv, PTL DEF Spec
=============================================================================
