--------------------------- MODULE HandOffProofs ---------------------------
(***************************************************************************)
(* Proofs about HandOff for every set of paths and directions, every       *)
(* choice of valid routes and every bound.                                 *)
(***************************************************************************)
EXTENDS HandOff, FiniteSetTheorems, TLAPS

-----------------------------------------------------------------------------
(* The buffer.                                                             *)

\* A put keeps the buffer well formed and makes its slot the newest value.
LEMMA PutSlots ==
    ASSUME NEW b \in Buffers, NEW n \in [Paths -> Nat], NEW p \in Paths,
           SlotsHoldNewest(b, n)
    PROVE  /\ Put(b, p, n[p] + 1) \in Buffers
           /\ SlotsHoldNewest(Put(b, p, n[p] + 1), [n EXCEPT ![p] = @ + 1])
  BY DEF Buffers, Put, SlotsHoldNewest

\* An acknowledgement clears slots; it changes none.
LEMMA AcknowledgeSlots ==
    ASSUME NEW b \in Buffers, NEW n \in [Paths -> Nat], NEW v \in Nat,
           SlotsHoldNewest(b, n)
    PROVE  /\ Acknowledge(b, v) \in Buffers
           /\ SlotsHoldNewest(Acknowledge(b, v), n)
           /\ \A p \in Paths : Acknowledge(b, v).value[p] =
                  IF b.at[p] <= v THEN 0 ELSE b.value[p]
  BY DEF Buffers, Acknowledge, SlotsHoldNewest

\* Acknowledged at its own version, a well-formed buffer is empty.
LEMMA AcknowledgeEmpties ==
    ASSUME NEW b \in Buffers, NEW n \in [Paths -> Nat], SlotsHoldNewest(b, n)
    PROVE  ~Pending(Acknowledge(b, b.version))
  BY DEF Buffers, Acknowledge, SlotsHoldNewest, Pending

LEMMA SnapshotType ==
    ASSUME NEW b \in Buffers
    PROVE  Snapshot(b) \in [version : Nat, values : [Paths -> Nat]]
  BY DEF Buffers, Snapshot

LEMMA GivenUpType ==
    ASSUME NEW g \in [Paths -> Nat], NEW v \in [Paths -> Nat], NEW r \in SUBSET Paths
    PROVE  GivenUp(g, v, r) \in [Paths -> Nat]
  BY DEF GivenUp

\* The number of signals sent is a number.
LEMMA SentType ==
    ASSUME TypeOK, NEW d \in Directions
    PROVE  Cardinality(Sent(d)) \in Nat
  <1>1. Sent(d) \subseteq Paths
    BY DEF TypeOK, Sent
  <1>2. IsFiniteSet(Sent(d))
    BY <1>1, PathsAssumption, FS_Subset
  <1> QED
    BY <1>2, FS_CardinalityType
-----------------------------------------------------------------------------
(* Type correctness.                                                       *)

LEMMA FlushLoopType ==
    ASSUME TypeOK, NEW d \in Directions, NEW b \in Buffers,
           NEW r \in SUBSET Paths, NEW gone \in [Paths -> Nat],
           FlushLoop(d, b, r, gone)
    PROVE  /\ buf' \in [Directions -> Buffers]
           /\ pc' \in [Directions -> PCs]
           /\ taken' \in [Directions -> [version : Nat, values : [Paths -> Nat]]]
           /\ discarded' \in [Directions -> [Paths -> Nat]]
  <1> DEFINE Snapshots == [version : Nat, values : [Paths -> Nat]]
             nb == Acknowledge(b, b.version)
             ng == GivenUp(gone, b.value, r)
             ss == Snapshot(b)
  <1>1. NoSnapshot \in Snapshots /\ ss \in Snapshots
    BY SnapshotType DEF NoSnapshot, Nothing
  <1>2. nb \in Buffers
    BY DEF Buffers, Acknowledge
  <1>3. ng \in [Paths -> Nat]
    BY GivenUpType DEF Buffers
  <1>4. /\ pc \in [Directions -> PCs] /\ taken \in [Directions -> Snapshots]
        /\ buf \in [Directions -> Buffers]
        /\ discarded \in [Directions -> [Paths -> Nat]]
    BY DEF TypeOK
  <1>5. "waiting" \in PCs /\ "sending" \in PCs
    BY DEF PCs
  <1>6. /\ pc' = [pc EXCEPT ![d] = "waiting"] \/ pc' = [pc EXCEPT ![d] = "sending"]
        /\ taken' = [taken EXCEPT ![d] = NoSnapshot] \/ taken' = [taken EXCEPT ![d] = ss]
        /\ buf' = [buf EXCEPT ![d] = b] \/ buf' = [buf EXCEPT ![d] = nb]
        /\ \/ discarded' = [discarded EXCEPT ![d] = gone]
           \/ discarded' = [discarded EXCEPT ![d] = ng]
    BY Zenon DEF FlushLoop
  <1> HIDE DEF Snapshots, nb, ng, ss
  <1>7. /\ buf' \in [Directions -> Buffers]
        /\ pc' \in [Directions -> PCs]
        /\ taken' \in [Directions -> Snapshots]
        /\ discarded' \in [Directions -> [Paths -> Nat]]
    BY <1>1, <1>2, <1>3, <1>4, <1>5, <1>6
  <1> QED
    BY <1>7 DEF Snapshots

LEMMA InitType == Init => TypeOK
  BY DEF Init, TypeOK, EmptyBuffer, Buffers, PCs, NoSnapshot, Nothing

LEMMA NextType == TypeOK /\ [Next]_vars => TypeOK'
  <1> SUFFICES ASSUME TypeOK, [Next]_vars PROVE TypeOK'
    OBVIOUS
  <1>1. ASSUME NEW d \in Directions, Connect(d) PROVE TypeOK'
    <2>1. PICK r \in RouteSets[d] : /\ routes' = [routes EXCEPT ![d] = r]
                                    /\ FlushLoop(d, buf[d], r, discarded[d])
      BY <1>1 DEF Connect
    <2>2. r \in SUBSET Paths
      BY RoutesAssumption
    <2>3. buf[d] \in Buffers /\ discarded[d] \in [Paths -> Nat]
      BY DEF TypeOK
    <2> QED
      BY <1>1, <2>1, <2>2, <2>3, FlushLoopType DEF Connect, TypeOK
  <1>2. ASSUME NEW d \in Directions, ConnectFails(d) PROVE TypeOK'
    BY <1>2 DEF ConnectFails, TypeOK, PCs
  <1>3. ASSUME NEW d \in Directions, Retry(d) PROVE TypeOK'
    BY <1>3 DEF Retry, TypeOK, PCs
  <1>4. ASSUME NEW d \in Directions, Wake(d) PROVE TypeOK'
    <2>1. buf[d] \in Buffers /\ discarded[d] \in [Paths -> Nat] /\ routes[d] \in SUBSET Paths
      BY DEF TypeOK
    <2>2. CASE FlushLoop(d, buf[d], routes[d], discarded[d])
      BY <1>4, <2>1, <2>2, FlushLoopType DEF Wake, TypeOK
    <2>3. CASE UNCHANGED <<buf, pc, taken, discarded>>
      BY <1>4, <2>3 DEF Wake, TypeOK
    <2> QED
      BY <1>4, <2>2, <2>3 DEF Wake
  <1>5. ASSUME NEW d \in Directions, PeerApplies(d) PROVE TypeOK'
    BY <1>5 DEF PeerApplies, TypeOK, PCs
  <1>6. ASSUME NEW d \in Directions, AcknowledgeWrite(d) PROVE TypeOK'
    <2> DEFINE b == Acknowledge(buf[d], taken[d].version)
               gone == GivenUp(discarded[d], taken[d].values, routes[d])
    <2>1. b \in Buffers
      BY DEF TypeOK, Acknowledge, Buffers
    <2>2. gone \in [Paths -> Nat] /\ routes[d] \in SUBSET Paths
      BY GivenUpType DEF TypeOK
    <2>3. FlushLoop(d, b, routes[d], gone)
      BY <1>6 DEF AcknowledgeWrite
    <2> HIDE DEF b, gone
    <2>4. writes' \in [Directions -> Nat]
      BY <1>6, SentType DEF AcknowledgeWrite, TypeOK
    <2> QED
      BY <1>6, <2>1, <2>2, <2>3, <2>4, FlushLoopType DEF AcknowledgeWrite, TypeOK
  <1>7. ASSUME NEW d \in Directions, Fail(d) PROVE TypeOK'
    BY <1>7 DEF Fail, TypeOK, PCs, NoSnapshot, Nothing
  <1>8. ASSUME NEW d \in Directions, NEW p \in Paths, PutLatest(d, p) PROVE TypeOK'
    <2>1. Put(buf[d], p, newest[d][p] + 1) \in Buffers
      BY DEF TypeOK, Put, Buffers
    <2> QED
      BY <1>8, <2>1 DEF PutLatest, TypeOK
  <1>9. CASE UNCHANGED vars
    BY <1>9 DEF vars, TypeOK
  <1> QED
    BY <1>1, <1>2, <1>3, <1>4, <1>5, <1>6, <1>7, <1>8, <1>9 DEF Next, Writer

\* Type correctness of both buffers and both writers.
THEOREM TypeCorrect == Spec => []TypeOK
  BY InitType, NextType, PTL DEF Spec
-----------------------------------------------------------------------------
(* The inductive invariant.                                                *)

\* A step that leaves a direction alone, or only notifies its writer, keeps
\* the invariant of that direction.
LEMMA Untouched ==
    ASSUME NEW e \in Directions, DirectionInv(e),
           buf'[e] = buf[e], pc'[e] = pc[e], routes'[e] = routes[e],
           taken'[e] = taken[e], newest'[e] = newest[e],
           accepted'[e] = accepted[e], discarded'[e] = discarded[e],
           notified[e] => notified'[e]
    PROVE  DirectionInv(e)'
  BY DEF DirectionInv, Sent

\* The loop head, entered with a buffer in which nothing is lost, establishes
\* the invariant: either the buffer is empty when the writer goes to sleep, or
\* the snapshot is the newest of everything pending.
LEMMA FlushLoopInv ==
    ASSUME TypeOK, NEW d \in Directions, NEW b \in Buffers,
           NEW r \in SUBSET Paths, NEW gone \in [Paths -> Nat],
           FlushLoop(d, b, r, gone),
           newest' = newest, accepted' = accepted,
           SlotsHoldNewest(b, newest[d]),
           NothingLost(b, newest[d], accepted[d], gone),
           NothingInvented(newest[d], accepted[d], gone)
    PROVE  DirectionInv(d)'
  <1> DEFINE n == newest[d]
             a == accepted[d]
             nb == Acknowledge(b, b.version)
             ng == GivenUp(gone, b.value, r)
             ss == Snapshot(b)
  <1>1. /\ n \in [Paths -> Nat] /\ a \in [Paths -> Nat]
        /\ newest'[d] = n /\ accepted'[d] = a
    BY DEF TypeOK
  <1>2. d \in DOMAIN buf /\ d \in DOMAIN pc /\ d \in DOMAIN taken /\ d \in DOMAIN discarded
    BY DEF TypeOK
  <1>3. CASE ~Pending(b) /\ pc'[d] = "waiting" /\ buf'[d] = b /\ discarded'[d] = gone
    BY <1>1, <1>3 DEF DirectionInv, InFlight
  <1>4. CASE pc'[d] = "sending" /\ taken'[d] = ss /\ buf'[d] = b /\ discarded'[d] = gone
    <2>1. ss.version = b.version /\ ss.values = b.value
      BY DEF Snapshot
    <2>2. b.version <= b.version
      BY DEF Buffers
    <2>3. FlightMatches(b, ss, a, gone)
      BY <1>1, <2>1 DEF FlightMatches, SlotsHoldNewest, NothingInvented, Buffers
    <2> HIDE DEF ss, n, a
    <2> QED
      BY <1>1, <1>4, <2>1, <2>2, <2>3 DEF DirectionInv, InFlight, n, a
  <1>5. CASE pc'[d] = "waiting" /\ buf'[d] = nb /\ discarded'[d] = ng
             /\ Pending(b) /\ \A p \in r : b.value[p] = 0
    <2>1. ~Pending(nb) /\ SlotsHoldNewest(nb, n)
      BY <1>1, AcknowledgeEmpties, AcknowledgeSlots DEF Buffers
    <2>2. \A p \in Paths : ng[p] = IF b.value[p] # 0 THEN b.value[p] ELSE gone[p]
      BY <1>5 DEF GivenUp
    <2>3. NothingLost(nb, n, a, ng)
      BY <1>1, <2>2 DEF NothingLost, NothingInvented, SlotsHoldNewest, Buffers
    <2>4. NothingInvented(n, a, ng)
      BY <1>1, <2>2 DEF NothingInvented, SlotsHoldNewest, Buffers
    <2> HIDE DEF nb, ng, n, a
    <2> QED
      BY <1>1, <1>5, <2>1, <2>3, <2>4 DEF DirectionInv, InFlight, n, a
  <1> HIDE DEF nb, ng, ss
  <1>6. \/ ~Pending(b) /\ pc' = [pc EXCEPT ![d] = "waiting"]
           /\ buf' = [buf EXCEPT ![d] = b] /\ discarded' = [discarded EXCEPT ![d] = gone]
        \/ pc' = [pc EXCEPT ![d] = "sending"] /\ taken' = [taken EXCEPT ![d] = ss]
           /\ buf' = [buf EXCEPT ![d] = b] /\ discarded' = [discarded EXCEPT ![d] = gone]
        \/ pc' = [pc EXCEPT ![d] = "waiting"] /\ buf' = [buf EXCEPT ![d] = nb]
           /\ discarded' = [discarded EXCEPT ![d] = ng]
           /\ Pending(b) /\ \A p \in r : b.value[p] = 0
    BY Zenon DEF FlushLoop, nb, ng, ss
  <1> QED
    BY <1>2, <1>3, <1>4, <1>5, <1>6

\* The loop head moves no direction but its own.
LEMMA FlushLoopLocal ==
    ASSUME TypeOK, NEW d \in Directions, NEW e \in Directions \ {d}, NEW b,
           NEW r, NEW gone, FlushLoop(d, b, r, gone)
    PROVE  /\ buf'[e] = buf[e] /\ pc'[e] = pc[e]
           /\ taken'[e] = taken[e] /\ discarded'[e] = discarded[e]
  BY DEF FlushLoop, TypeOK

LEMMA InitInv == Init => IInv
  <1> SUFFICES ASSUME Init, NEW d \in Directions PROVE DirectionInv(d)
    BY InitType DEF IInv
  <1> QED
    BY DEF Init, DirectionInv, SlotsHoldNewest, NothingLost, NothingInvented,
           InFlight, EmptyBuffer, Nothing

\* An answer acknowledges what it answers: a slot it clears held the value
\* the peer applied, or that of a path without a mapping.
LEMMA AcknowledgeInv ==
    ASSUME IInv, NEW d \in Directions, AcknowledgeWrite(d)
    PROVE  DirectionInv(d)'
  <1> DEFINE b == buf[d]
             t == taken[d]
             n == newest[d]
             a == accepted[d]
             g == discarded[d]
             r == routes[d]
             nb == Acknowledge(b, t.version)
             ng == GivenUp(g, t.values, r)
  <1>1. /\ TypeOK /\ b \in Buffers /\ n \in [Paths -> Nat] /\ a \in [Paths -> Nat]
        /\ g \in [Paths -> Nat] /\ r \in SUBSET Paths
        /\ t.version \in Nat /\ t.values \in [Paths -> Nat]
    BY DEF IInv, TypeOK
  <1>2. /\ SlotsHoldNewest(b, n) /\ NothingLost(b, n, a, g) /\ NothingInvented(n, a, g)
        /\ FlightMatches(b, t, a, g)
        /\ \A p \in r : t.values[p] # 0 => a[p] = t.values[p]
    BY DEF IInv, DirectionInv, AcknowledgeWrite, InFlight, Sent
  <1>3. /\ FlushLoop(d, nb, r, ng)
        /\ newest' = newest /\ accepted' = accepted
    BY DEF AcknowledgeWrite
  <1> HIDE DEF b, t, n, a, g, r
  <1>4. /\ nb \in Buffers /\ SlotsHoldNewest(nb, n)
        /\ \A p \in Paths : nb.value[p] = IF b.at[p] <= t.version THEN 0 ELSE b.value[p]
    BY <1>1, <1>2, AcknowledgeSlots
  <1>5. ng \in [Paths -> Nat]
    BY <1>1, GivenUpType
  <1>6. \A p \in Paths : ng[p] = IF t.values[p] # 0 /\ p \notin r THEN t.values[p] ELSE g[p]
    BY DEF GivenUp
  <1> HIDE DEF nb, ng
  <1>7. NothingLost(nb, n, a, ng)
    <2> SUFFICES ASSUME NEW p \in Paths
                 PROVE  n[p] = a[p] \/ n[p] = ng[p] \/ n[p] = nb.value[p]
      BY DEF NothingLost
    <2>1. CASE b.at[p] > t.version \/ b.value[p] = 0
      BY <1>1, <1>2, <1>4, <1>6, <2>1
         DEF NothingLost, NothingInvented, SlotsHoldNewest, FlightMatches, Buffers
    <2>2. CASE b.at[p] <= t.version /\ b.value[p] # 0
      <3>1. t.values[p] # 0 /\ n[p] = t.values[p]
        BY <1>1, <1>2, <2>2 DEF SlotsHoldNewest, FlightMatches, Buffers
      <3> QED
        BY <1>1, <1>2, <1>6, <3>1
    <2> QED
      BY <1>1, <2>1, <2>2 DEF Buffers
  <1>8. NothingInvented(n, a, ng)
    <2> SUFFICES ASSUME NEW p \in Paths PROVE a[p] <= n[p] /\ ng[p] <= n[p]
      BY DEF NothingInvented
    <2>1. a[p] <= n[p] /\ g[p] <= n[p]
      BY <1>2 DEF NothingInvented
    <2>2. ASSUME t.values[p] # 0 PROVE t.values[p] <= n[p]
      BY <1>1, <1>2, <2>2 DEF SlotsHoldNewest, FlightMatches, Buffers
    <2> QED
      BY <1>6, <2>1, <2>2
  <1> QED
    BY <1>1, <1>3, <1>4, <1>5, <1>7, <1>8, FlushLoopInv DEF n, a, r

\* A put during a flight overwrites the slot at a later version, which the
\* acknowledgement to come will spare.
LEMMA PutInv ==
    ASSUME IInv, NEW d \in Directions, NEW p \in Paths, PutLatest(d, p)
    PROVE  DirectionInv(d)'
  <1> DEFINE b == buf[d]
             n == newest[d]
             nb == Put(b, p, n[p] + 1)
             nn == [n EXCEPT ![p] = @ + 1]
  <1>1. /\ b \in Buffers /\ n \in [Paths -> Nat]
        /\ accepted[d] \in [Paths -> Nat] /\ discarded[d] \in [Paths -> Nat]
        /\ taken[d].version \in Nat /\ taken[d].values \in [Paths -> Nat]
    BY DEF IInv, TypeOK
  <1>2. /\ buf'[d] = nb /\ newest'[d] = nn
        /\ pc' = pc /\ taken' = taken /\ routes' = routes
        /\ accepted' = accepted /\ discarded' = discarded
        /\ pc[d] = "waiting" => notified'[d]
    BY DEF IInv, TypeOK, PutLatest
  <1>3. SlotsHoldNewest(nb, nn)
    BY <1>1, PutSlots DEF IInv, DirectionInv
  <1>4. NothingLost(nb, nn, accepted[d], discarded[d])
    BY <1>1 DEF IInv, DirectionInv, NothingLost, Put, Buffers
  <1>5. NothingInvented(nn, accepted[d], discarded[d])
    BY <1>1 DEF IInv, DirectionInv, NothingInvented
  <1>6. ASSUME pc[d] \in InFlight
        PROVE  /\ taken[d].version <= nb.version
               /\ FlightMatches(nb, taken[d], accepted[d], discarded[d])
    BY <1>1, <1>6 DEF IInv, DirectionInv, FlightMatches, SlotsHoldNewest, Put, Buffers
  <1>7. pc[d] = "replying" => \A q \in Sent(d) : accepted[d][q] = taken[d].values[q]
    BY DEF IInv, DirectionInv
  <1> HIDE DEF nb, nn
  <1> QED
    BY <1>2, <1>3, <1>4, <1>5, <1>6, <1>7 DEF DirectionInv, Sent

\* Every step keeps the invariant of every direction.
LEMMA NextInv == IInv /\ [Next]_vars => IInv'
  <1> SUFFICES ASSUME IInv, [Next]_vars, NEW e \in Directions PROVE DirectionInv(e)'
    BY NextType DEF IInv
  <1> USE DEF IInv
  <1>1. ASSUME NEW d \in Directions, Connect(d) PROVE DirectionInv(e)'
    <2>1. PICK r \in RouteSets[d] : /\ routes' = [routes EXCEPT ![d] = r]
                                    /\ FlushLoop(d, buf[d], r, discarded[d])
      BY <1>1 DEF Connect
    <2>2. r \in SUBSET Paths
      BY RoutesAssumption
    <2>3. buf[d] \in Buffers /\ discarded[d] \in [Paths -> Nat] /\ DirectionInv(d)
      BY DEF TypeOK
    <2>4. newest' = newest /\ accepted' = accepted /\ notified' = notified
      BY <1>1 DEF Connect
    <2>5. CASE e = d
      BY <2>1, <2>2, <2>3, <2>4, <2>5, FlushLoopInv DEF DirectionInv
    <2>6. CASE e # d
      BY <2>1, <2>4, <2>6, FlushLoopLocal, Untouched DEF TypeOK
    <2> QED
      BY <2>5, <2>6
  <1>2. ASSUME NEW d \in Directions, ConnectFails(d) PROVE DirectionInv(e)'
    BY <1>2 DEF ConnectFails, TypeOK, DirectionInv, InFlight, Sent
  <1>3. ASSUME NEW d \in Directions, Retry(d) PROVE DirectionInv(e)'
    BY <1>3 DEF Retry, TypeOK, DirectionInv, InFlight, Sent
  <1>4. ASSUME NEW d \in Directions, Wake(d) PROVE DirectionInv(e)'
    <2>1. /\ buf[d] \in Buffers /\ discarded[d] \in [Paths -> Nat]
          /\ routes[d] \in SUBSET Paths /\ DirectionInv(d) /\ DirectionInv(e)
      BY DEF TypeOK
    <2>2. newest' = newest /\ accepted' = accepted /\ routes' = routes
      BY <1>4 DEF Wake
    <2>3. e # d => notified'[e] = notified[e]
      BY <1>4 DEF Wake, TypeOK
    <2>4. CASE FlushLoop(d, buf[d], routes[d], discarded[d])
      <3>1. CASE e = d
        BY <2>1, <2>2, <2>4, <3>1, FlushLoopInv DEF DirectionInv
      <3>2. CASE e # d
        BY <2>1, <2>2, <2>3, <2>4, <3>2, FlushLoopLocal, Untouched
      <3> QED
        BY <3>1, <3>2
    <2>5. CASE ~Pending(buf[d]) /\ UNCHANGED <<buf, pc, taken, discarded>>
      <3>1. CASE e = d
        BY <1>4, <2>1, <2>2, <2>5, <3>1 DEF Wake, DirectionInv, InFlight, Sent, TypeOK
      <3>2. CASE e # d
        BY <2>1, <2>2, <2>3, <2>5, <3>2, Untouched
      <3> QED
        BY <3>1, <3>2
    <2> QED
      BY <1>4, <2>4, <2>5 DEF Wake
  <1>5. ASSUME NEW d \in Directions, PeerApplies(d) PROVE DirectionInv(e)'
    <2>1. CASE e = d
      <3>1. /\ pc'[d] = "replying" /\ buf' = buf /\ taken' = taken /\ routes' = routes
            /\ newest' = newest /\ discarded' = discarded
            /\ accepted'[d] = [p \in Paths |->
                   IF p \in routes[d] /\ taken[d].values[p] # 0
                   THEN taken[d].values[p] ELSE accepted[d][p]]
        BY <1>5 DEF PeerApplies, TypeOK
      <3>2. /\ SlotsHoldNewest(buf[d], newest[d])
            /\ NothingLost(buf[d], newest[d], accepted[d], discarded[d])
            /\ NothingInvented(newest[d], accepted[d], discarded[d])
            /\ taken[d].version <= buf[d].version
            /\ FlightMatches(buf[d], taken[d], accepted[d], discarded[d])
        BY <1>5 DEF PeerApplies, DirectionInv, InFlight
      <3>3. /\ buf[d] \in Buffers /\ newest[d] \in [Paths -> Nat]
            /\ accepted[d] \in [Paths -> Nat] /\ discarded[d] \in [Paths -> Nat]
            /\ taken[d].version \in Nat /\ taken[d].values \in [Paths -> Nat]
        BY DEF TypeOK
      <3>4. \A p \in Paths : taken[d].values[p] # 0 =>
                /\ taken[d].values[p] <= newest[d][p]
                /\ accepted[d][p] <= taken[d].values[p]
        BY <3>2, <3>3 DEF SlotsHoldNewest, FlightMatches, Buffers
      <3>5. NothingLost(buf[d], newest[d], accepted'[d], discarded[d])
        BY <3>1, <3>2, <3>3, <3>4 DEF NothingLost, NothingInvented
      <3>6. NothingInvented(newest[d], accepted'[d], discarded[d])
        BY <3>1, <3>2, <3>3, <3>4 DEF NothingInvented
      <3>7. FlightMatches(buf[d], taken[d], accepted'[d], discarded[d])
        BY <3>1, <3>2, <3>3, <3>4 DEF FlightMatches
      <3>8. \A p \in Sent(d) : accepted'[d][p] = taken[d].values[p]
        BY <3>1, <3>3 DEF Sent, TypeOK
      <3> QED
        BY <2>1, <3>1, <3>2, <3>5, <3>6, <3>7, <3>8 DEF DirectionInv, Sent
    <2>2. CASE e # d
      BY <1>5, <2>2, Untouched DEF PeerApplies, TypeOK
    <2> QED
      BY <2>1, <2>2
  <1>6. ASSUME NEW d \in Directions, AcknowledgeWrite(d) PROVE DirectionInv(e)'
    <2>1. CASE e = d
      BY <1>6, <2>1, AcknowledgeInv
    <2>2. CASE e # d
      BY <1>6, <2>2, FlushLoopLocal, Untouched DEF AcknowledgeWrite
    <2> QED
      BY <2>1, <2>2
  <1>7. ASSUME NEW d \in Directions, Fail(d) PROVE DirectionInv(e)'
    BY <1>7 DEF Fail, TypeOK, DirectionInv, InFlight, Sent
  <1>8. ASSUME NEW d \in Directions, NEW p \in Paths, PutLatest(d, p) PROVE DirectionInv(e)'
    <2>1. CASE e = d
      BY <1>8, <2>1, PutInv
    <2>2. CASE e # d
      BY <1>8, <2>2, Untouched DEF PutLatest, TypeOK
    <2> QED
      BY <2>1, <2>2
  <1>9. CASE UNCHANGED vars
    BY <1>9, Untouched DEF vars
  <1> QED
    BY <1>1, <1>2, <1>3, <1>4, <1>5, <1>6, <1>7, <1>8, <1>9 DEF Next, Writer

THEOREM InvariantHolds == Spec => []IInv
  BY InitInv, NextInv, PTL DEF Spec

-----------------------------------------------------------------------------
(* What follows from the invariant.                                        *)

\* No value disappears between producer and peer: it is in the buffer until
\* the peer has applied it or it is given up for want of a mapping.
THEOREM NothingIsLost == Spec => []NoLostUpdate
  <1>1. IInv => NoLostUpdate
    BY DEF IInv, DirectionInv, NothingLost, NoLostUpdate
  <1> QED
    BY <1>1, InvariantHolds, PTL

\* The two dicts of a buffer always have the same keys.
THEOREM DictsAgree == Spec => []SlotsAgree
  <1>1. IInv => SlotsAgree
    BY DEF IInv, DirectionInv, SlotsHoldNewest, SlotsAgree
  <1> QED
    BY <1>1, InvariantHolds, PTL

\* No writer sleeps on a value that was put before it went to sleep or since.
THEOREM NoWakeupIsLost == Spec => []NoMissedWakeup
  <1>1. IInv => NoMissedWakeup
    BY DEF IInv, DirectionInv, NoMissedWakeup
  <1> QED
    BY <1>1, InvariantHolds, PTL

-----------------------------------------------------------------------------
(* Refinement of the abstract registers.                                   *)

\* Only the peer's application of a request changes what is accepted, and it
\* never replaces a value by an older one.
LEMMA AcceptedAdvances ==
    ASSUME IInv, [Next]_vars
    PROVE  \/ UNCHANGED accepted
           \/ /\ UNCHANGED <<newest, discarded>>
              /\ \A d \in Directions, p \in Paths : accepted[d][p] <= accepted'[d][p]
  <1>1. ASSUME NEW d \in Directions, PeerApplies(d)
        PROVE  /\ UNCHANGED <<newest, discarded>>
               /\ \A e \in Directions, p \in Paths : accepted[e][p] <= accepted'[e][p]
    <2> SUFFICES ASSUME NEW e \in Directions, NEW p \in Paths
                 PROVE  accepted[e][p] <= accepted'[e][p]
      BY <1>1 DEF PeerApplies
    <2>1. \A x \in Directions : accepted[x] \in [Paths -> Nat]
      BY DEF IInv, TypeOK
    <2>2. FlightMatches(buf[d], taken[d], accepted[d], discarded[d])
      BY <1>1 DEF IInv, DirectionInv, PeerApplies, InFlight
    <2> QED
      BY <1>1, <2>1, <2>2 DEF PeerApplies, FlightMatches, IInv, TypeOK
  <1>2. ASSUME NEW d \in Directions, Writer(d), ~PeerApplies(d) PROVE UNCHANGED accepted
    BY <1>2 DEF Writer, Connect, ConnectFails, Retry, Wake, AcknowledgeWrite, Fail
  <1>3. ASSUME NEW d \in Directions, NEW p \in Paths, PutLatest(d, p)
        PROVE  UNCHANGED accepted
    BY <1>3 DEF PutLatest
  <1> QED
    BY <1>1, <1>2, <1>3 DEF Next, vars

\* What one direction gives up in a loop head is newer than what it had.
LEMMA FlushLoopGivesUp ==
    ASSUME IInv, NEW d \in Directions, NEW b \in Buffers, NEW r, NEW gone \in [Paths -> Nat],
           FlushLoop(d, b, r, gone), NothingInvented(newest[d], accepted[d], gone),
           SlotsHoldNewest(b, newest[d]),
           \A p \in Paths : discarded[d][p] <= gone[p]
    PROVE  \A e \in Directions, p \in Paths : discarded[e][p] <= discarded'[e][p]
  <1> SUFFICES ASSUME NEW e \in Directions, NEW p \in Paths
               PROVE  discarded[e][p] <= discarded'[e][p]
    OBVIOUS
  <1>1. /\ \A x \in Directions : discarded[x] \in [Paths -> Nat]
        /\ \A x \in Directions : newest[x] \in [Paths -> Nat]
        /\ d \in DOMAIN discarded /\ e \in DOMAIN discarded
    BY DEF IInv, TypeOK
  <1>2. CASE e # d
    BY <1>1, <1>2, FlushLoopLocal DEF IInv
  <1>3. CASE e = d /\ discarded' = [discarded EXCEPT ![d] = gone]
    BY <1>1, <1>3
  <1>4. CASE e = d /\ discarded' = [discarded EXCEPT ![d] = GivenUp(gone, b.value, r)]
    <2>1. discarded'[e][p] = IF b.value[p] # 0 /\ p \notin r THEN b.value[p] ELSE gone[p]
      BY <1>1, <1>4 DEF GivenUp
    <2>2. gone[p] <= newest[d][p] /\ (b.value[p] # 0 => b.value[p] = newest[d][p])
      BY DEF NothingInvented, SlotsHoldNewest
    <2> QED
      BY <1>1, <1>4, <2>1, <2>2
  <1> QED
    BY <1>2, <1>3, <1>4 DEF FlushLoop

LEMMA DiscardedAdvances ==
    ASSUME IInv, [Next]_vars
    PROVE  \/ UNCHANGED discarded
           \/ /\ UNCHANGED <<newest, accepted>>
              /\ \A e \in Directions, p \in Paths : discarded[e][p] <= discarded'[e][p]
  <1> DEFINE Grows == \A e \in Directions, p \in Paths : discarded[e][p] <= discarded'[e][p]
  <1>0. \A d \in Directions :
           /\ buf[d] \in Buffers /\ discarded[d] \in [Paths -> Nat]
           /\ newest[d] \in [Paths -> Nat] /\ DirectionInv(d)
           /\ \A p \in Paths : discarded[d][p] <= discarded[d][p]
           /\ taken[d].version \in Nat /\ taken[d].values \in [Paths -> Nat]
           /\ routes[d] \in SUBSET Paths
    BY DEF IInv, TypeOK
  <1>1. ASSUME NEW d \in Directions, Connect(d) \/ Wake(d)
        PROVE  UNCHANGED <<newest, accepted>> /\ (UNCHANGED discarded \/ Grows)
    <2>1. UNCHANGED <<newest, accepted>>
      BY <1>1 DEF Connect, Wake
    <2>2. UNCHANGED discarded \/ \E r : FlushLoop(d, buf[d], r, discarded[d])
      BY <1>1 DEF Connect, Wake
    <2> QED
      BY <1>0, <2>1, <2>2, FlushLoopGivesUp DEF DirectionInv
  <1>2. ASSUME NEW d \in Directions, AcknowledgeWrite(d)
        PROVE  UNCHANGED <<newest, accepted>> /\ Grows
    <2> DEFINE nb == Acknowledge(buf[d], taken[d].version)
               ng == GivenUp(discarded[d], taken[d].values, routes[d])
    <2>1. UNCHANGED <<newest, accepted>> /\ FlushLoop(d, nb, routes[d], ng)
      BY <1>2 DEF AcknowledgeWrite
    <2>2. SlotsHoldNewest(buf[d], newest[d])
      BY <1>0 DEF DirectionInv
    <2>3. nb \in Buffers /\ SlotsHoldNewest(nb, newest[d])
      BY <1>0, <2>2, AcknowledgeSlots
    <2>4. /\ FlightMatches(buf[d], taken[d], accepted[d], discarded[d])
          /\ NothingInvented(newest[d], accepted[d], discarded[d])
      BY <1>2 DEF IInv, DirectionInv, AcknowledgeWrite, InFlight
    <2>5. ng \in [Paths -> Nat]
      BY <1>0, GivenUpType
    <2>6. \A p \in Paths : ng[p] = IF taken[d].values[p] # 0 /\ p \notin routes[d]
                                   THEN taken[d].values[p] ELSE discarded[d][p]
      BY DEF GivenUp
    <2>7. \A p \in Paths : discarded[d][p] <= ng[p]
      BY <1>0, <2>4, <2>6 DEF FlightMatches
    <2>8. \A p \in Paths : taken[d].values[p] # 0 => taken[d].values[p] <= newest[d][p]
      BY <1>0, <2>2, <2>4 DEF FlightMatches, SlotsHoldNewest, Buffers
    <2>9. NothingInvented(newest[d], accepted[d], ng)
      BY <1>0, <2>4, <2>6, <2>8 DEF NothingInvented
    <2> HIDE DEF nb, ng
    <2> QED
      BY <1>0, <2>1, <2>3, <2>5, <2>7, <2>9, FlushLoopGivesUp
  <1>3. ASSUME NEW d \in Directions, Writer(d), ~Connect(d), ~Wake(d), ~AcknowledgeWrite(d)
        PROVE  UNCHANGED discarded
    BY <1>3 DEF Writer, ConnectFails, Retry, PeerApplies, Fail
  <1>4. ASSUME NEW d \in Directions, NEW p \in Paths, PutLatest(d, p)
        PROVE  UNCHANGED discarded
    BY <1>4 DEF PutLatest
  <1> HIDE DEF Grows
  <1>5. UNCHANGED discarded \/ (UNCHANGED <<newest, accepted>> /\ Grows)
    BY <1>1, <1>2, <1>3, <1>4 DEF Next, vars
  <1> QED
    BY <1>5 DEF Grows

\* A peer never goes back to an older value of a path, whatever is resent.
THEOREM NeverRegresses == Spec => NeverGoesBack
  <1>1. IInv /\ [Next]_vars =>
            [\A d \in Directions, p \in Paths : accepted[d][p] <= accepted'[d][p]]_accepted
    BY AcceptedAdvances
  <1> QED
    BY <1>1, InvariantHolds, PTL DEF Spec, NeverGoesBack

\* Every step of the hand-off is a step of the registers, or changes none.
LEMMA StepRefines ==
    ASSUME IInv, IInv', [Next]_vars
    PROVE  [Abstract!Next]_Abstract!regVars
  <1>1. /\ newest' \in Abstract!Registers /\ accepted' \in Abstract!Registers
        /\ discarded' \in Abstract!Registers
    BY DEF IInv, TypeOK, Abstract!Registers
  <1>2. \A d \in Directions, p \in Paths :
            accepted'[d][p] <= newest'[d][p] /\ discarded'[d][p] <= newest'[d][p]
    BY DEF IInv, DirectionInv, NothingInvented
  <1>3. CASE UNCHANGED accepted /\ UNCHANGED discarded
    <2>1. ASSUME NEW d \in Directions, Writer(d) PROVE UNCHANGED newest
      BY <2>1 DEF Writer, Connect, ConnectFails, Retry, Wake, PeerApplies,
                  AcknowledgeWrite, Fail
    <2>2. ASSUME NEW d \in Directions, NEW q \in Paths, PutLatest(d, q)
          PROVE  \A e \in Directions, p \in Paths : newest[e][p] <= newest'[e][p]
      BY <2>2 DEF PutLatest, IInv, TypeOK
    <2>3. UNCHANGED newest \/ Abstract!Produce
      BY <1>1, <1>3, <2>1, <2>2 DEF Next, vars, Abstract!Produce
    <2> QED
      BY <1>3, <2>3 DEF Abstract!Next, Abstract!regVars
  <1>4. CASE ~UNCHANGED accepted
    <2>1. Abstract!Accept
      BY <1>1, <1>2, <1>4, AcceptedAdvances DEF Abstract!Accept, Abstract!Advances
    <2> QED
      BY <2>1 DEF Abstract!Next
  <1>5. CASE ~UNCHANGED discarded
    <2>1. Abstract!Discard
      BY <1>1, <1>2, <1>5, DiscardedAdvances DEF Abstract!Discard, Abstract!Advances
    <2> QED
      BY <2>1 DEF Abstract!Next
  <1> QED
    BY <1>3, <1>4, <1>5

\* The buffers, versions, retries and shared Condition implement one register
\* per path.
THEOREM RefinesRegister == Spec => ImplementsRegister
  <1>1. Init => Abstract!Init
    BY DEF Init, Nothing, Abstract!Init, Abstract!NothingYet
  <1>2. IInv /\ IInv' /\ [Next]_vars => [Abstract!Next]_Abstract!regVars
    BY StepRefines
  <1> QED
    BY <1>1, <1>2, InvariantHolds, PTL DEF Spec, ImplementsRegister, Abstract!Spec
-----------------------------------------------------------------------------
(* Counting.  A slot takes its value from a put of its own, so what is     *)
(* unsent and what has been counted fit in the puts.  While a snapshot is  *)
(* in flight, what it sends is about to be counted, and only the slots     *)
(* written later outlive its acknowledgement.                              *)

Slots(b) == {p \in Paths : b.value[p] # 0}
Later(b, version) == {p \in Paths : b.at[p] > version}

Counted(d) ==
    /\ writes[d] + Cardinality(Slots(buf[d])) <= buf[d].version
    /\ pc[d] \in InFlight =>
          writes[d] + Cardinality(Sent(d)) + Cardinality(Later(buf[d], taken[d].version))
              <= buf[d].version

CountInv == IInv /\ \A d \in Directions : Counted(d)

LEMMA Counting ==
    ASSUME NEW S \in SUBSET Paths, NEW T \in SUBSET Paths, NEW p
    PROVE  /\ Cardinality(S) \in Nat
           /\ S \subseteq T => Cardinality(S) <= Cardinality(T)
           /\ S \subseteq T \cup {p} => Cardinality(S) <= Cardinality(T) + 1
  <1>1. IsFiniteSet(S) /\ IsFiniteSet(T)
    BY PathsAssumption, FS_Subset
  <1>2. /\ IsFiniteSet(T \cup {p})
        /\ Cardinality(T \cup {p}) = IF p \in T THEN Cardinality(T) ELSE Cardinality(T) + 1
    BY <1>1, FS_AddElement
  <1>3. Cardinality(S) \in Nat /\ Cardinality(T) \in Nat
    BY <1>1, FS_CardinalityType
  <1>4. S \subseteq T => Cardinality(S) <= Cardinality(T)
    BY <1>1, FS_Subset
  <1>5. S \subseteq T \cup {p} => Cardinality(S) <= Cardinality(T \cup {p})
    BY <1>2, FS_Subset
  <1> QED
    BY <1>2, <1>3, <1>4, <1>5

\* A step that leaves the counts and the buffer of a direction alone.
LEMMA StillCounted ==
    ASSUME NEW e \in Directions, Counted(e),
           buf'[e] = buf[e], writes'[e] = writes[e],
           pc'[e] \in InFlight => pc[e] \in InFlight /\ routes'[e] = routes[e]
                                      /\ taken'[e] = taken[e]
    PROVE  Counted(e)'
  BY DEF Counted, Sent

\* The loop head, entered with w values counted.
LEMMA FlushLoopCounts ==
    ASSUME TypeOK, NEW d \in Directions, NEW b \in Buffers, NEW n \in [Paths -> Nat],
           NEW r \in SUBSET Paths, NEW gone, NEW w \in Nat,
           FlushLoop(d, b, r, gone), routes'[d] = r, writes'[d] = w,
           SlotsHoldNewest(b, n), w + Cardinality(Slots(b)) <= b.version
    PROVE  Counted(d)'
  <1> DEFINE nb == Acknowledge(b, b.version)
  <1>1. d \in DOMAIN buf /\ d \in DOMAIN pc /\ d \in DOMAIN taken
    BY DEF TypeOK
  <1>2. b.version \in Nat /\ Slots(b) \in SUBSET Paths /\ Cardinality(Slots(b)) \in Nat
    BY Counting DEF Slots, Buffers
  <1>3. CASE pc'[d] = "waiting" /\ buf'[d] = b
    BY <1>3 DEF Counted, InFlight
  <1>4. CASE pc'[d] = "sending" /\ taken'[d] = Snapshot(b) /\ buf'[d] = b
    <2> DEFINE sent == {p \in r : b.value[p] # 0}
    <2>1. sent \in SUBSET Paths /\ sent \subseteq Slots(b)
      BY DEF Slots
    <2>2. Cardinality(sent) \in Nat /\ Cardinality(sent) <= Cardinality(Slots(b))
      BY <1>2, <2>1, Counting
    <2>3. Later(b, b.version) = {}
      BY DEF Later, SlotsHoldNewest, Buffers
    <2>4. Cardinality(Later(b, b.version)) = 0
      BY <2>3, FS_EmptySet
    <2>5. Sent(d)' = sent /\ taken'[d].version = b.version
      BY <1>4 DEF Sent, Snapshot
    <2> HIDE DEF sent
    <2> QED
      BY <1>2, <1>4, <2>2, <2>4, <2>5 DEF Counted
  <1>5. CASE pc'[d] = "waiting" /\ buf'[d] = nb
    <2>1. /\ Slots(nb) \in SUBSET Paths /\ Slots(nb) \subseteq Slots(b)
          /\ nb.version = b.version
      BY DEF Slots, Acknowledge, Buffers
    <2>2. Cardinality(Slots(nb)) \in Nat /\ Cardinality(Slots(nb)) <= Cardinality(Slots(b))
      BY <1>2, <2>1, Counting
    <2> HIDE DEF nb
    <2> QED
      BY <1>2, <1>5, <2>1, <2>2 DEF Counted, InFlight
  <1> HIDE DEF nb
  <1>6. \/ pc' = [pc EXCEPT ![d] = "waiting"] /\ buf' = [buf EXCEPT ![d] = b]
        \/ pc' = [pc EXCEPT ![d] = "sending"] /\ buf' = [buf EXCEPT ![d] = b]
              /\ taken' = [taken EXCEPT ![d] = Snapshot(b)]
        \/ pc' = [pc EXCEPT ![d] = "waiting"] /\ buf' = [buf EXCEPT ![d] = nb]
    BY Zenon DEF FlushLoop, nb
  <1> QED
    BY <1>1, <1>3, <1>4, <1>5, <1>6

LEMMA InitCount == Init => CountInv
  <1> SUFFICES ASSUME Init, NEW d \in Directions PROVE Counted(d)
    BY InitInv DEF CountInv
  <1>1. Slots(EmptyBuffer) = {}
    BY DEF Slots, EmptyBuffer
  <1>2. Cardinality(Slots(EmptyBuffer)) = 0
    BY <1>1, FS_EmptySet
  <1>3. buf[d] = EmptyBuffer /\ writes[d] = 0 /\ pc[d] = "connecting" /\ EmptyBuffer.version = 0
    BY DEF Init, EmptyBuffer
  <1> QED
    BY <1>2, <1>3 DEF Counted, InFlight

LEMMA AcknowledgeCounts ==
    ASSUME CountInv, NEW d \in Directions, AcknowledgeWrite(d)
    PROVE  Counted(d)'
  <1> DEFINE b == buf[d]
             v == taken[d].version
             nb == Acknowledge(b, v)
             w == writes[d] + Cardinality(Sent(d))
  <1>1. /\ TypeOK /\ b \in Buffers /\ v \in Nat /\ newest[d] \in [Paths -> Nat]
        /\ routes[d] \in SUBSET Paths /\ writes[d] \in Nat
        /\ SlotsHoldNewest(b, newest[d])
    BY DEF CountInv, IInv, TypeOK, DirectionInv
  <1>2. Cardinality(Sent(d)) \in Nat
    BY <1>1, SentType
  <1>3. w + Cardinality(Later(b, v)) <= b.version
    BY DEF CountInv, Counted, AcknowledgeWrite, InFlight
  <1>4. Slots(nb) \subseteq Later(b, v) /\ nb.version = b.version
    BY <1>1 DEF Slots, Later, Acknowledge, SlotsHoldNewest, Buffers
  <1>5. Slots(nb) \in SUBSET Paths /\ Later(b, v) \in SUBSET Paths
    BY DEF Slots, Later
  <1>6. /\ Cardinality(Slots(nb)) <= Cardinality(Later(b, v))
        /\ Cardinality(Slots(nb)) \in Nat /\ Cardinality(Later(b, v)) \in Nat
    BY <1>4, <1>5, Counting
  <1>7. nb \in Buffers /\ SlotsHoldNewest(nb, newest[d])
    BY <1>1, AcknowledgeSlots
  <1>8. w \in Nat /\ w + Cardinality(Slots(nb)) <= nb.version
    BY <1>1, <1>2, <1>3, <1>4, <1>6 DEF Buffers
  <1>9. /\ FlushLoop(d, nb, routes[d], GivenUp(discarded[d], taken[d].values, routes[d]))
        /\ routes'[d] = routes[d] /\ writes'[d] = w
    BY <1>1 DEF AcknowledgeWrite, TypeOK
  <1> HIDE DEF b, v, nb, w
  <1> QED
    BY <1>1, <1>7, <1>8, <1>9, FlushLoopCounts

LEMMA PutCounts ==
    ASSUME CountInv, NEW d \in Directions, NEW p \in Paths, PutLatest(d, p)
    PROVE  Counted(d)'
  <1> DEFINE b == buf[d]
             v == taken[d].version
             nb == Put(b, p, newest[d][p] + 1)
  <1>1. /\ b \in Buffers /\ v \in Nat /\ writes[d] \in Nat /\ b.version \in Nat
        /\ newest[d] \in [Paths -> Nat]
    BY DEF CountInv, IInv, TypeOK, Buffers
  <1>2. Cardinality(Sent(d)) \in Nat
    BY SentType DEF CountInv, IInv
  <1>3. /\ buf'[d] = nb /\ writes' = writes /\ pc' = pc /\ taken' = taken /\ routes' = routes
        /\ nb.version = b.version + 1
    BY DEF CountInv, IInv, TypeOK, PutLatest, Put
  <1>4. /\ Slots(nb) \subseteq Slots(b) \cup {p}
        /\ Later(nb, v) \subseteq Later(b, v) \cup {p}
    BY <1>1 DEF Slots, Later, Put, Buffers
  <1>5. /\ Slots(nb) \in SUBSET Paths /\ Slots(b) \in SUBSET Paths
        /\ Later(nb, v) \in SUBSET Paths /\ Later(b, v) \in SUBSET Paths
    BY DEF Slots, Later
  <1>6. /\ Cardinality(Slots(nb)) <= Cardinality(Slots(b)) + 1
        /\ Cardinality(Slots(nb)) \in Nat /\ Cardinality(Slots(b)) \in Nat
    BY <1>4, <1>5, Counting
  <1>7. /\ Cardinality(Later(nb, v)) <= Cardinality(Later(b, v)) + 1
        /\ Cardinality(Later(nb, v)) \in Nat /\ Cardinality(Later(b, v)) \in Nat
    BY <1>4, <1>5, Counting
  <1>8. Sent(d)' = Sent(d) /\ taken'[d].version = v
    BY <1>3 DEF Sent
  <1>9. /\ writes[d] + Cardinality(Slots(b)) <= b.version
        /\ pc[d] \in InFlight =>
              writes[d] + Cardinality(Sent(d)) + Cardinality(Later(b, v)) <= b.version
    BY DEF CountInv, Counted
  <1> HIDE DEF b, v, nb
  <1> QED
    BY <1>1, <1>2, <1>3, <1>6, <1>7, <1>8, <1>9 DEF Counted

LEMMA NextCount == CountInv /\ [Next]_vars => CountInv'
  <1> SUFFICES ASSUME CountInv, [Next]_vars, NEW e \in Directions PROVE Counted(e)'
    BY NextInv DEF CountInv
  <1>1. /\ TypeOK /\ Counted(e)
        /\ \A d \in Directions :
              /\ buf[d] \in Buffers /\ newest[d] \in [Paths -> Nat] /\ writes[d] \in Nat
              /\ SlotsHoldNewest(buf[d], newest[d]) /\ routes[d] \in SUBSET Paths
              /\ writes[d] + Cardinality(Slots(buf[d])) <= buf[d].version
    BY DEF CountInv, IInv, DirectionInv, TypeOK, Counted
  <1>2. ASSUME NEW d \in Directions, Connect(d) PROVE Counted(e)'
    <2>1. PICK r \in RouteSets[d] \ {{}} : /\ routes' = [routes EXCEPT ![d] = r]
                                           /\ FlushLoop(d, buf[d], r, discarded[d])
      BY <1>2 DEF Connect
    <2>2. r \in SUBSET Paths /\ writes' = writes
      BY <1>2, RoutesAssumption DEF Connect
    <2>3. CASE e = d
      <3>1. routes'[d] = r
        BY <1>1, <2>1 DEF TypeOK
      <3> QED
        BY <1>1, <2>1, <2>2, <2>3, <3>1, FlushLoopCounts
    <2>4. CASE e # d
      BY <1>1, <2>1, <2>2, <2>4, FlushLoopLocal, StillCounted DEF TypeOK
    <2> QED
      BY <2>3, <2>4
  <1>3. ASSUME NEW d \in Directions, ConnectFails(d) PROVE Counted(e)'
    BY <1>1, <1>3, StillCounted DEF ConnectFails, TypeOK, InFlight
  <1>4. ASSUME NEW d \in Directions, Retry(d) PROVE Counted(e)'
    BY <1>1, <1>4, StillCounted DEF Retry, TypeOK, InFlight
  <1>5. ASSUME NEW d \in Directions, Wake(d) PROVE Counted(e)'
    <2>1. routes' = routes /\ writes' = writes
      BY <1>5 DEF Wake
    <2>2. CASE Pending(buf[d]) /\ FlushLoop(d, buf[d], routes[d], discarded[d])
      <3>1. CASE e = d
        BY <1>1, <2>1, <2>2, <3>1, FlushLoopCounts
      <3>2. CASE e # d
        BY <1>1, <2>1, <2>2, <3>2, FlushLoopLocal, StillCounted
      <3> QED
        BY <3>1, <3>2
    <2>3. CASE UNCHANGED <<buf, pc, taken, discarded>>
      BY <1>1, <2>1, <2>3, StillCounted
    <2> QED
      BY <1>5, <2>2, <2>3 DEF Wake
  <1>6. ASSUME NEW d \in Directions, PeerApplies(d) PROVE Counted(e)'
    BY <1>1, <1>6, StillCounted DEF PeerApplies, TypeOK, InFlight
  <1>7. ASSUME NEW d \in Directions, AcknowledgeWrite(d) PROVE Counted(e)'
    <2>1. CASE e = d
      BY <1>7, <2>1, AcknowledgeCounts
    <2>2. CASE e # d
      BY <1>1, <1>7, <2>2, FlushLoopLocal, StillCounted DEF AcknowledgeWrite, TypeOK
    <2> QED
      BY <2>1, <2>2
  <1>8. ASSUME NEW d \in Directions, Fail(d) PROVE Counted(e)'
    BY <1>1, <1>8, StillCounted DEF Fail, TypeOK, InFlight
  <1>9. ASSUME NEW d \in Directions, NEW p \in Paths, PutLatest(d, p) PROVE Counted(e)'
    <2>1. CASE e = d
      BY <1>9, <2>1, PutCounts
    <2>2. CASE e # d
      BY <1>1, <1>9, <2>2, StillCounted DEF PutLatest, TypeOK
    <2> QED
      BY <2>1, <2>2
  <1>10. CASE UNCHANGED vars
    BY <1>1, <1>10, StillCounted DEF vars
  <1> QED
    BY <1>2, <1>3, <1>4, <1>5, <1>6, <1>7, <1>8, <1>9, <1>10 DEF Next, Writer

\* No retry, lost answer or late acknowledgement makes /stats count a value
\* twice, for any number of paths and puts (record_write, state.py 159-161).
THEOREM CountsOnce == Spec => []WritesCountOnce
  <1>1. CountInv => WritesCountOnce
    BY DEF CountInv, Counted, WritesCountOnce, Slots
  <1> QED
    BY <1>1, InitCount, NextCount, PTL DEF Spec
=============================================================================
