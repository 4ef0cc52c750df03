-------------------------- MODULE CanReaderProofs --------------------------
(***************************************************************************)
(* Proofs about CanReader: type correctness, that KUKSA is never given an  *)
(* older value, that the stream is complete and that the drops are         *)
(* digested, for any number of signals and frames, any set of              *)
(* untransformable values and any bounds.                                  *)
(***************************************************************************)
EXTENDS CanReader, FiniteSetTheorems, TLAPS

\* A value waiting in the stream is no older than what was handed over, no
\* older than one of the same signal that waits before it, and no newer than
\* the vehicle's.
InOrder ==
    /\ \A s \in Signals : inVss[s] <= handed[s] /\ handed[s] <= can[s]
    /\ \A i \in DOMAIN inbox : \A s \in DOMAIN inbox[i] :
           handed[s] <= inbox[i][s] /\ inbox[i][s] <= can[s]
    /\ \A i, j \in DOMAIN inbox : i < j =>
           \A s \in DOMAIN inbox[i] \cap DOMAIN inbox[j] : inbox[i][s] <= inbox[j][s]

\* Nothing untransformable is handed over.
HandsGood == \A s \in Signals : Good(s, handed[s])

IsNewest(s, v) ==
    /\ v \in 0..can[s] /\ Good(s, v)
    /\ \A w \in 0..can[s] : Good(s, w) => w <= v

\* The value that VSS should show is well defined.
HasNewest == \A s \in Signals : \E v \in 0..can[s] : IsNewest(s, v)

\* What the theorems need, and each step preserves.
IInv == TypeOK /\ InOrder /\ HandsGood /\ HasNewest /\ StreamIsComplete

-----------------------------------------------------------------------------
(* Data.                                                                   *)

LEMMA NewestIsWanted ==
    ASSUME TypeOK, HasNewest, NEW s \in Signals
    PROVE  IsNewest(s, Wanted(s))
  <1>1. PICK v \in 0..can[s] : IsNewest(s, v)
    BY DEF HasNewest
  <1> DEFINE G == {w \in 0..can[s] : Good(s, w)}
  <1>2. can[s] \in Nat
    BY BoundsAssumption DEF TypeOK, Values
  <1>3. v \in G /\ \A w \in G : v >= w
    BY <1>1, <1>2 DEF IsNewest
  <1>4. Max(G) \in G /\ \A w \in G : Max(G) >= w
    BY <1>3 DEF Max
  <1> QED
    BY <1>2, <1>4 DEF Wanted, IsNewest

\* Only one value is the newest.
LEMMA NewestIsUnique ==
    ASSUME TypeOK, HasNewest, NEW s \in Signals, NEW v, IsNewest(s, v)
    PROVE  v = Wanted(s)
  <1>1. can[s] \in Nat
    BY BoundsAssumption DEF TypeOK, Values
  <1> QED
    BY <1>1, NewestIsWanted DEF IsNewest

LEMMA BatchTypes ==
    ASSUME TypeOK, NEW i \in DOMAIN inbox
    PROVE  /\ DOMAIN inbox[i] \subseteq Signals
           /\ \A s \in DOMAIN inbox[i] : inbox[i][s] \in 0..MaxChanges
  <1>1. inbox[i] \in Batches
    BY DEF TypeOK
  <1>2. PICK S \in SUBSET Signals : inbox[i] \in [S -> 0..MaxChanges]
    BY <1>1 DEF Batches
  <1> QED
    BY <1>2

\* What the drop log counts.
LEMMA DropsTyped ==
    ASSUME TypeOK, NEW D, D \subseteq Bad, IsFiniteSet(D), RecordDrops(D)
    PROVE  /\ drops' \in Nat /\ refused' \in [Bad -> Nat]
           /\ DOMAIN tracked' \subseteq Bad
           /\ \A k \in DOMAIN tracked' : tracked'[k] \in Nat
  <1>1. Cardinality(D) \in Nat
    BY FS_CardinalityType
  <1>2. drops' = drops + Cardinality(D) /\ refused' = Count(refused, D)
    BY DEF RecordDrops
  <1>3. PICK T \in SUBSET (D \ DOMAIN tracked) : tracked' = Tracking(tracked, T, D)
    BY DEF RecordDrops, kSubset
  <1> QED
    BY <1>1, <1>2, <1>3 DEF TypeOK, Count, Tracking

-----------------------------------------------------------------------------
(* One round of handle.                                                    *)

LEMMA HandsMoveForward ==
    ASSUME IInv, inbox # <<>>
    PROVE  /\ Handled(handed, Head(inbox)) \in Values
           /\ \A s \in Signals :
                  /\ handed[s] <= Handled(handed, Head(inbox))[s]
                  /\ Handled(handed, Head(inbox))[s] <= can[s]
                  /\ Good(s, Handled(handed, Head(inbox))[s])
  <1> DEFINE b == Head(inbox)
  <1>1. 1 \in DOMAIN inbox /\ b = inbox[1]
    BY DEF IInv, TypeOK
  <1>2. DOMAIN b \subseteq Signals /\ \A s \in DOMAIN b : b[s] \in 0..MaxChanges
    BY <1>1, BatchTypes DEF IInv
  <1>3. \A s \in DOMAIN b : handed[s] <= b[s] /\ b[s] <= can[s]
    BY <1>1 DEF IInv, InOrder
  <1>4. handed \in Values /\ can \in Values
    BY DEF IInv, TypeOK
  <1>5. \A s \in Signals : Handled(handed, b)[s] =
            IF s \in DOMAIN b \cap mapped /\ Good(s, b[s]) THEN b[s] ELSE handed[s]
    BY DEF Handled
  <1>6. Handled(handed, b) \in Values
    BY <1>2, <1>4 DEF Handled, Values
  <1>7. \A s \in Signals :
            handed[s] <= Handled(handed, b)[s] /\ Handled(handed, b)[s] <= can[s]
    BY <1>2, <1>3, <1>4, <1>5, BoundsAssumption DEF IInv, InOrder, Values
  <1>8. \A s \in Signals : Good(s, Handled(handed, b)[s])
    BY <1>5 DEF IInv, HandsGood
  <1> QED
    BY <1>6, <1>7, <1>8

LEMMA HandleKeepsTypes ==
    ASSUME IInv, Handle
    PROVE  TypeOK'
  <1> DEFINE b == Head(inbox)
             put == {s \in DOMAIN b \cap mapped : Good(s, b[s])}
             bad == {<<s, b[s]>> : s \in (DOMAIN b \cap mapped) \ put}
  <1>1. handed' = Handled(handed, b) /\ inbox' = Tail(inbox) /\ inbox # <<>>
        /\ pending' = pending \cup put /\ lost' = lost \ put /\ RecordDrops(bad)
        /\ UNCHANGED <<can, kuksaUp, pc, mapped, inVss, missed, faults>>
    BY Zenon DEF Handle, Hands, link
  <1>2. 1 \in DOMAIN inbox /\ b = inbox[1]
    BY <1>1 DEF IInv, TypeOK
  <1>3. DOMAIN b \subseteq Signals
    BY <1>2, BatchTypes DEF IInv
  <1>4. bad \subseteq Bad
    BY DEF Good
  <1>5. bad \subseteq Signals \X (0..MaxChanges)
    BY <1>2, <1>3, BatchTypes DEF IInv
  <1>6. IsFiniteSet(bad)
    <2>1. IsFiniteSet(0..MaxChanges)
      BY FS_Interval, BoundsAssumption
    <2> QED
      BY <1>5, <2>1, SignalsAssumption, FS_Product, FS_Subset
  <1>7. /\ drops' \in Nat /\ refused' \in [Bad -> Nat]
        /\ DOMAIN tracked' \subseteq Bad
        /\ \A k \in DOMAIN tracked' : tracked'[k] \in Nat
    BY <1>1, <1>4, <1>6, DropsTyped DEF IInv
  <1>8. handed' \in Values
    BY <1>1, HandsMoveForward
  <1>9. inbox' \in Seq(Batches)
    BY <1>1 DEF IInv, TypeOK
  <1>10. pending' \subseteq Signals /\ lost' \subseteq Signals
    BY <1>1, <1>3 DEF IInv, TypeOK
  <1> QED
    BY <1>1, <1>7, <1>8, <1>9, <1>10 DEF IInv, TypeOK

LEMMA HandleKeepsOrder ==
    ASSUME IInv, Handle
    PROVE  InOrder' /\ HandsGood'
  <1> DEFINE b == Head(inbox)
  <1>1. handed' = Handled(handed, b) /\ inbox' = Tail(inbox) /\ inbox # <<>>
        /\ UNCHANGED <<can, inVss, mapped>>
    BY Zenon DEF Handle, Hands, link
  <1>2. inbox \in Seq(Batches) /\ 1 \in DOMAIN inbox /\ b = inbox[1]
    BY <1>1 DEF IInv, TypeOK
  <1>3. handed' \in Values /\ handed \in Values /\ inVss \in Values /\ can \in Values
    BY <1>1, HandsMoveForward DEF IInv, TypeOK
  <1>4. \A s \in Signals : handed[s] <= handed'[s] /\ handed'[s] <= can[s] /\ Good(s, handed'[s])
    BY <1>1, HandsMoveForward
  <1>5. \A s \in Signals : inVss'[s] <= handed'[s] /\ handed'[s] <= can'[s]
    BY <1>1, <1>3, <1>4, BoundsAssumption DEF IInv, InOrder, Values
  <1>6. \A i \in DOMAIN inbox' : i + 1 \in DOMAIN inbox /\ inbox'[i] = inbox[i + 1] /\ i \in Nat
    BY <1>1, <1>2
  <1>7. ASSUME NEW i \in DOMAIN inbox', NEW s \in DOMAIN inbox'[i]
        PROVE  handed'[s] <= inbox'[i][s] /\ inbox'[i][s] <= can'[s]
    <2>1. s \in Signals /\ inbox[i + 1][s] \in 0..MaxChanges
      BY <1>6, <1>7, BatchTypes DEF IInv
    <2>2. handed[s] <= inbox[i + 1][s] /\ inbox[i + 1][s] <= can[s]
      BY <1>6, <1>7 DEF IInv, InOrder
    <2>3. s \in DOMAIN b => b[s] <= inbox[i + 1][s]
      <3>1. 1 < i + 1
        BY <1>1, <1>2, <1>7
      <3> QED
        BY <1>2, <1>6, <1>7, <3>1 DEF IInv, InOrder
    <2>4. handed'[s] = handed[s] \/ (s \in DOMAIN b /\ handed'[s] = b[s])
      <3>1. handed'[s] = IF s \in DOMAIN b \cap mapped /\ Good(s, b[s])
                         THEN b[s] ELSE handed[s]
        <4>1. \A t \in Signals : Handled(handed, b)[t] =
                  IF t \in DOMAIN b \cap mapped /\ Good(t, b[t]) THEN b[t] ELSE handed[t]
          BY DEF Handled
        <4> QED
          BY <1>1, <2>1, <4>1, Zenon
      <3> QED
        BY <3>1
    <2> QED
      BY <1>1, <1>6, <2>2, <2>3, <2>4
  <1>8. ASSUME NEW i \in DOMAIN inbox', NEW j \in DOMAIN inbox', i < j,
               NEW s \in DOMAIN inbox'[i] \cap DOMAIN inbox'[j]
        PROVE  inbox'[i][s] <= inbox'[j][s]
    <2>1. i + 1 < j + 1
      BY <1>6, <1>8
    <2> QED
      BY <1>6, <1>8, <2>1 DEF IInv, InOrder
  <1>9. HandsGood'
    BY <1>4 DEF HandsGood, Good
  <1> QED
    BY <1>5, <1>7, <1>8, <1>9 DEF InOrder

LEMMA HandleKeepsStream ==
    ASSUME IInv, Handle
    PROVE  StreamIsComplete'
  <1> DEFINE b == Head(inbox)
  <1>1. handed' = Handled(handed, b) /\ inbox' = Tail(inbox) /\ inbox # <<>>
        /\ UNCHANGED <<can, pc, mapped, missed>>
    BY Zenon DEF Handle, Hands, link
  <1>2. inbox \in Seq(Batches) /\ 1 \in DOMAIN inbox /\ b = inbox[1]
    BY <1>1 DEF IInv, TypeOK
  <1> SUFFICES ASSUME pc = "streaming", NEW s \in mapped \ missed,
                      handed'[s] # Wanted(s)
               PROVE  \E i \in DOMAIN inbox' :
                          s \in DOMAIN inbox'[i] /\ inbox'[i][s] = Wanted(s)
    BY <1>1 DEF StreamIsComplete, Wanted
  <1>3. s \in Signals
    BY DEF IInv, TypeOK
  <1>4. IsNewest(s, Wanted(s))
    BY <1>3, NewestIsWanted DEF IInv
  <1>5. handed[s] # Wanted(s)
    <2> SUFFICES ASSUME handed[s] = Wanted(s) PROVE FALSE
      OBVIOUS
    <2>1. handed'[s] \in 0..can[s] /\ Good(s, handed'[s]) /\ handed[s] <= handed'[s]
      BY <1>1, <1>3, HandsMoveForward, BoundsAssumption DEF Values, IInv, TypeOK
    <2>2. handed'[s] <= Wanted(s)
      BY <1>4, <2>1 DEF IsNewest
    <2> QED
      BY <1>3, <2>1, <2>2 DEF IInv, TypeOK, Values
  <1>6. PICK i \in DOMAIN inbox : s \in DOMAIN inbox[i] /\ inbox[i][s] = Wanted(s)
    BY <1>5 DEF IInv, StreamIsComplete
  <1>7. i # 1
    BY <1>1, <1>2, <1>3, <1>4, <1>6 DEF Handled, IsNewest
  <1>8. i - 1 \in DOMAIN inbox' /\ inbox'[i - 1] = inbox[i]
    BY <1>1, <1>2, <1>6, <1>7
  <1> QED
    BY <1>6, <1>8

-----------------------------------------------------------------------------
(* The vehicle.                                                            *)

LEMMA VehicleMoves ==
    ASSUME IInv, NEW S \in SUBSET Signals, CanChanges(S)
    PROVE  /\ can' \in Values
           /\ \A s \in Signals : /\ can[s] \in Nat /\ can'[s] \in Nat
                                 /\ can'[s] = IF s \in S THEN can[s] + 1 ELSE can[s]
           /\ inbox' = inbox \/ inbox' = Append(inbox, [s \in S |-> can'[s]])
  <1>1. can \in Values /\ \A s \in S : can[s] < MaxChanges
    BY DEF IInv, TypeOK, CanChanges
  <1>2. can' = [s \in Signals |-> IF s \in S THEN can[s] + 1 ELSE can[s]]
    BY DEF CanChanges
  <1>3. inbox' = inbox \/ inbox' = Append(inbox, [s \in S |-> can'[s]])
    BY DEF CanChanges
  <1>4. can' \in Values
    BY <1>1, <1>2, BoundsAssumption DEF Values
  <1> QED
    BY <1>1, <1>2, <1>3, <1>4, BoundsAssumption DEF Values

LEMMA ChangeKeepsTypes ==
    ASSUME IInv, NEW S \in SUBSET Signals, CanChanges(S)
    PROVE  TypeOK'
  <1>1. can' \in Values
    BY VehicleMoves
  <1>2. [s \in S |-> can'[s]] \in Batches
    BY <1>1 DEF Values, Batches
  <1>3. inbox' \in Seq(Batches)
    <2>1. inbox' = inbox \/ inbox' = Append(inbox, [s \in S |-> can'[s]])
      BY VehicleMoves, Zenon
    <2> QED
      BY <1>2, <2>1 DEF IInv, TypeOK
  <1>4. missed' \subseteq Signals
    BY DEF CanChanges, IInv, TypeOK
  <1>5. UNCHANGED <<kuksaUp, pc, mapped, handed, inVss, pending, lost, drops, tracked, refused, faults>>
    BY DEF CanChanges, vss, log
  <1> QED
    BY <1>1, <1>3, <1>4, <1>5 DEF IInv, TypeOK

LEMMA ChangeKeepsOrder ==
    ASSUME IInv, NEW S \in SUBSET Signals, CanChanges(S)
    PROVE  InOrder' /\ HandsGood'
  <1> DEFINE b == [s \in S |-> can'[s]]
  <1>1. handed' = handed /\ inVss' = inVss
    BY DEF CanChanges, vss
  <1>2. \A s \in Signals : can[s] \in Nat /\ can'[s] \in Nat /\ can[s] <= can'[s]
    <2> TAKE s \in Signals
    <2>1. can[s] \in Nat /\ can'[s] = IF s \in S THEN can[s] + 1 ELSE can[s]
      BY VehicleMoves, Zenon
    <2> QED
      BY <2>1
  <1>3. handed \in Values /\ inVss \in Values /\ inbox \in Seq(Batches)
    BY DEF IInv, TypeOK
  <1>4. \A s \in Signals : inVss'[s] <= handed'[s] /\ handed'[s] <= can'[s]
    BY <1>1, <1>2, <1>3, BoundsAssumption DEF IInv, InOrder, Values
  <1>5. \A i \in DOMAIN inbox : \A s \in DOMAIN inbox[i] :
            /\ s \in Signals /\ inbox[i][s] \in Nat
            /\ handed'[s] <= inbox[i][s] /\ inbox[i][s] <= can[s] /\ inbox[i][s] <= can'[s]
    <2> TAKE i \in DOMAIN inbox
    <2> TAKE s \in DOMAIN inbox[i]
    <2>1. s \in Signals /\ inbox[i][s] \in 0..MaxChanges
      BY BatchTypes DEF IInv
    <2>2. handed[s] <= inbox[i][s] /\ inbox[i][s] <= can[s]
      BY DEF IInv, InOrder
    <2> QED
      BY <1>1, <1>2, <2>1, <2>2, BoundsAssumption
  <1>6. \A i \in DOMAIN inbox' : \/ i \in DOMAIN inbox /\ inbox'[i] = inbox[i]
                                 \/ i = Len(inbox) + 1 /\ inbox'[i] = b
    <2>1. inbox' = inbox \/ inbox' = Append(inbox, b)
      BY VehicleMoves, Zenon
    <2> QED
      BY <1>3, <2>1
  <1>7. \A i \in DOMAIN inbox' : \A s \in DOMAIN inbox'[i] :
            handed'[s] <= inbox'[i][s] /\ inbox'[i][s] <= can'[s]
    <2> TAKE i \in DOMAIN inbox'
    <2> TAKE s \in DOMAIN inbox'[i]
    <2>1. CASE i \in DOMAIN inbox /\ inbox'[i] = inbox[i]
      BY <1>5, <2>1
    <2>2. CASE inbox'[i] = b
      BY <1>2, <1>4, <2>2
    <2> QED
      BY <1>6, <2>1, <2>2
  <1>8. \A i, j \in DOMAIN inbox' : i < j =>
            \A s \in DOMAIN inbox'[i] \cap DOMAIN inbox'[j] : inbox'[i][s] <= inbox'[j][s]
    <2> SUFFICES ASSUME NEW i \in DOMAIN inbox', NEW j \in DOMAIN inbox', i < j,
                        NEW s \in DOMAIN inbox'[i] \cap DOMAIN inbox'[j]
                 PROVE  inbox'[i][s] <= inbox'[j][s]
      OBVIOUS
    <2>1. i \in DOMAIN inbox /\ inbox'[i] = inbox[i]
      BY <1>3, <1>6, VehicleMoves
    <2>2. CASE j \in DOMAIN inbox /\ inbox'[j] = inbox[j]
      BY <2>1, <2>2 DEF IInv, InOrder
    <2>3. CASE inbox'[j] = b
      BY <1>5, <2>1, <2>3
    <2> QED
      BY <1>6, <2>2, <2>3
  <1>9. HandsGood'
    BY <1>1 DEF IInv, HandsGood, Good
  <1> QED
    BY <1>4, <1>7, <1>8, <1>9 DEF InOrder

\* The newest value moves with the signal if it can be transformed.
LEMMA NewestMoves ==
    ASSUME IInv, NEW S \in SUBSET Signals, CanChanges(S), NEW s \in Signals,
           NEW v, v = IF s \in S /\ Good(s, can'[s]) THEN can'[s] ELSE Wanted(s)
    PROVE  IsNewest(s, v)'
  <1>1. can[s] \in Nat /\ can'[s] = IF s \in S THEN can[s] + 1 ELSE can[s]
    BY VehicleMoves
  <1>2. IsNewest(s, Wanted(s))
    BY NewestIsWanted DEF IInv
  <1>3. CASE s \in S
    <2>1. can'[s] = can[s] + 1 /\ 0..can'[s] = 0..can[s] \cup {can[s] + 1}
      BY <1>1, <1>3
    <2> QED
      BY <1>1, <1>2, <1>3, <2>1 DEF IsNewest, Good
  <1>4. CASE s \notin S
    BY <1>1, <1>2, <1>4 DEF IsNewest, Good
  <1> QED
    BY <1>3, <1>4

LEMMA ChangeKeepsNewest ==
    ASSUME IInv, NEW S \in SUBSET Signals, CanChanges(S)
    PROVE  HasNewest'
  <1> SUFFICES ASSUME NEW s \in Signals
               PROVE  \E v \in 0..can'[s] : IsNewest(s, v)'
    BY DEF HasNewest
  <1>1. PICK v : v = IF s \in S /\ Good(s, can'[s]) THEN can'[s] ELSE Wanted(s)
    OBVIOUS
  <1>2. IsNewest(s, v)'
    BY <1>1, NewestMoves
  <1> QED
    BY <1>2 DEF IsNewest

LEMMA ChangeKeepsStream ==
    ASSUME IInv, NEW S \in SUBSET Signals, CanChanges(S)
    PROVE  StreamIsComplete'
  <1> DEFINE b == [s \in S |-> can'[s]]
  <1> SUFFICES ASSUME pc' = "streaming", NEW s \in mapped' \ missed'
               PROVE  \/ handed'[s] = Wanted(s)'
                      \/ \E i \in DOMAIN inbox' :
                             s \in DOMAIN inbox'[i] /\ inbox'[i][s] = Wanted(s)'
    BY DEF StreamIsComplete
  <1>1. pc = "streaming" /\ mapped' = mapped /\ handed' = handed
    BY DEF CanChanges
  <1>2. inbox' = Append(inbox, b)
        /\ missed' = {t \in missed : t \notin S \/ ~Good(t, can'[t])}
    BY <1>1 DEF CanChanges
  <1>3. s \in Signals /\ inbox \in Seq(Batches)
    BY <1>1 DEF IInv, TypeOK
  <1>4. PICK v : v = IF s \in S /\ Good(s, can'[s]) THEN can'[s] ELSE Wanted(s)
    OBVIOUS
  <1>5. v = Wanted(s)'
    <2>1. IsNewest(s, v)'
      BY <1>3, <1>4, NewestMoves
    <2> DEFINE G == {w \in 0..can'[s] : Good(s, w)}
    <2>2. v \in G /\ \A w \in G : v >= w
      BY <1>3, <2>1, VehicleMoves DEF IsNewest, Good
    <2>3. Max(G) \in G /\ \A w \in G : Max(G) >= w
      BY <2>2 DEF Max
    <2>4. can'[s] \in Nat
      BY <1>3, VehicleMoves
    <2>5. Max(G) = v
      BY <2>2, <2>3, <2>4
    <2> QED
      BY <2>5 DEF Wanted, Good
  <1>6. CASE s \in S /\ Good(s, can'[s])
    <2>1. Len(inbox) + 1 \in DOMAIN inbox' /\ inbox'[Len(inbox) + 1] = b
      BY <1>2, <1>3
    <2>2. s \in DOMAIN b /\ b[s] = Wanted(s)'
      BY <1>4, <1>5, <1>6
    <2> QED
      BY <2>1, <2>2
  <1>7. CASE ~(s \in S /\ Good(s, can'[s]))
    <2>1. s \in mapped \ missed /\ Wanted(s)' = Wanted(s)
      BY <1>1, <1>2, <1>4, <1>5, <1>7
    <2>2. CASE handed[s] = Wanted(s)
      BY <1>1, <2>1, <2>2
    <2>3. ASSUME NEW i \in DOMAIN inbox, s \in DOMAIN inbox[i], inbox[i][s] = Wanted(s)
          PROVE  \E k \in DOMAIN inbox' : s \in DOMAIN inbox'[k] /\ inbox'[k][s] = Wanted(s)'
      <3>1. i \in DOMAIN inbox' /\ inbox'[i] = inbox[i]
        BY <1>2, <1>3
      <3> QED
        BY <2>1, <2>3, <3>1
    <2> QED
      BY <1>1, <2>1, <2>2, <2>3 DEF IInv, StreamIsComplete
  <1> QED
    BY <1>6, <1>7

-----------------------------------------------------------------------------
(* The other steps hand nothing over and leave the vehicle alone.          *)

\* With can and handed as they were, order and newest values survive if the
\* stream is left alone or thrown away, and KUKSA stays behind.
LEMMA OrderSurvives ==
    ASSUME IInv, UNCHANGED <<can, handed>>, inbox' \in {inbox, <<>>},
           \A s \in Signals : inVss'[s] <= handed[s]
    PROVE  InOrder' /\ HandsGood' /\ HasNewest'
  <1>1. InOrder'
    BY DEF IInv, InOrder
  <1>2. HandsGood' /\ HasNewest'
    BY DEF IInv, HandsGood, HasNewest, IsNewest, Good
  <1> QED
    BY <1>1, <1>2

LEMMA StreamSurvives ==
    ASSUME IInv, UNCHANGED <<can, handed, inbox, pc, mapped, missed>>
    PROVE  StreamIsComplete'
  BY DEF IInv, StreamIsComplete, Wanted

LEMMA Opened ==
    ASSUME IInv, Streams
    PROVE  StreamIsComplete'
  <1>1. mapped' = mapped /\ handed' = handed /\ can' = can
        /\ missed' = {s \in Signals : handed[s] # Wanted(s)}
    BY DEF Streams
  <1>2. \A s \in Signals : Wanted(s)' = Wanted(s)
    BY <1>1 DEF Wanted
  <1> QED
    BY <1>1, <1>2 DEF IInv, TypeOK, StreamIsComplete

LEMMA FrameKeeps ==
    ASSUME IInv, NEW f \in Frames, FrameArrives(f)
    PROVE  IInv'
  <1> DEFINE b == [s \in f |-> can[s]]
  <1>1. inbox' = Append(inbox, b) /\ pc' = "seeding"
        /\ UNCHANGED <<can, kuksaUp, mapped, handed, inVss, pending, lost>>
        /\ UNCHANGED <<drops, tracked, refused, missed, faults>>
    BY DEF FrameArrives, link, vss, log
  <1>2. can \in Values /\ handed \in Values /\ inbox \in Seq(Batches) /\ f \subseteq Signals
    BY FramesAssumption DEF IInv, TypeOK
  <1>3. b \in Batches
    BY <1>2 DEF Values, Batches
  <1>4. TypeOK'
    BY <1>1, <1>2, <1>3 DEF IInv, TypeOK, PCs, Connected
  <1>5. \A i \in DOMAIN inbox' : \/ i \in DOMAIN inbox /\ inbox'[i] = inbox[i]
                                 \/ i = Len(inbox) + 1 /\ inbox'[i] = b
    BY <1>1, <1>2
  <1>6. \A i \in DOMAIN inbox' : \A s \in DOMAIN inbox'[i] :
            handed'[s] <= inbox'[i][s] /\ inbox'[i][s] <= can'[s]
    <2> TAKE i \in DOMAIN inbox'
    <2> TAKE s \in DOMAIN inbox'[i]
    <2>1. CASE i \in DOMAIN inbox /\ inbox'[i] = inbox[i]
      BY <1>1, <2>1 DEF IInv, InOrder
    <2>2. CASE inbox'[i] = b
      BY <1>1, <1>2, <2>2, BoundsAssumption DEF IInv, InOrder, Values
    <2> QED
      BY <1>5, <2>1, <2>2
  <1>7. \A i, j \in DOMAIN inbox' : i < j =>
            \A s \in DOMAIN inbox'[i] \cap DOMAIN inbox'[j] : inbox'[i][s] <= inbox'[j][s]
    <2> SUFFICES ASSUME NEW i \in DOMAIN inbox', NEW j \in DOMAIN inbox', i < j,
                        NEW s \in DOMAIN inbox'[i] \cap DOMAIN inbox'[j]
                 PROVE  inbox'[i][s] <= inbox'[j][s]
      OBVIOUS
    <2>1. i \in DOMAIN inbox /\ inbox'[i] = inbox[i]
      BY <1>1, <1>2
    <2>2. CASE j \in DOMAIN inbox /\ inbox'[j] = inbox[j]
      BY <2>1, <2>2 DEF IInv, InOrder
    <2>3. CASE inbox'[j] = b
      BY <1>1, <2>1, <2>3 DEF IInv, InOrder
    <2> QED
      BY <1>5, <2>2, <2>3
  <1>8. InOrder'
    BY <1>1, <1>6, <1>7 DEF IInv, InOrder
  <1>9. HandsGood' /\ HasNewest'
    BY <1>1 DEF IInv, HandsGood, HasNewest, IsNewest, Good
  <1>10. StreamIsComplete'
    BY <1>1 DEF StreamIsComplete
  <1> QED
    BY <1>4, <1>8, <1>9, <1>10 DEF IInv

LEMMA DeliverKeeps ==
    ASSUME IInv, Deliver
    PROVE  /\ IInv'
           /\ \A s \in Signals : inVss[s] <= inVss'[s] /\ inVss'[s] <= handed[s]
  <1>1. inVss' = [s \in Signals |-> IF s \in pending THEN handed[s] ELSE inVss[s]]
        /\ pending' = {}
        /\ UNCHANGED <<can, kuksaUp, pc, mapped, inbox, handed, lost>>
        /\ UNCHANGED <<drops, tracked, refused, missed, faults>>
    BY DEF Deliver, link, log
  <1>2. inVss \in Values /\ handed \in Values
    BY DEF IInv, TypeOK
  <1>3. TypeOK'
    BY <1>1, <1>2 DEF IInv, TypeOK, Values
  <1>4. \A s \in Signals : inVss[s] <= inVss'[s] /\ inVss'[s] <= handed[s]
    BY <1>1, <1>2, BoundsAssumption DEF IInv, InOrder, Values
  <1>5. InOrder' /\ HandsGood' /\ HasNewest'
    BY <1>1, <1>4, OrderSurvives
  <1>6. StreamIsComplete'
    BY <1>1, StreamSurvives
  <1> QED
    BY <1>3, <1>4, <1>5, <1>6 DEF IInv

\* The steps that only move the reader, the connections or KUKSA.
Moves ==
    \/ BrokerConnects \/ Validates \/ ValidatesNothing \/ ValidationFails
    \/ OpensSeed \/ SeedEnds \/ Streams \/ ConnectionLost \/ Retry
    \/ KuksaGoesDown \/ KuksaRestarts \/ KuksaComesUp

LEMMA MoveKeeps ==
    ASSUME IInv, Moves
    PROVE  IInv' /\ UNCHANGED <<handed, inVss>>
  <1>1. UNCHANGED <<can, handed, inVss>> /\ inbox' \in {inbox, <<>>}
    BY DEF Moves, BrokerConnects, Validates, ValidatesNothing, ValidationFails,
           OpensSeed, SeedEnds, Streams, ConnectionLost, Retry, KuksaGoesDown,
           KuksaRestarts, KuksaComesUp, vss
  <1>2. /\ pc' \in PCs /\ mapped' \subseteq Signals /\ missed' \subseteq Signals
        /\ kuksaUp' \in BOOLEAN /\ pending' = pending /\ lost' \subseteq Signals
        /\ UNCHANGED <<drops, tracked, refused>>
    BY DEF Moves, BrokerConnects, Validates, ValidatesNothing, ValidationFails,
           OpensSeed, SeedEnds, Streams, ConnectionLost, Retry, KuksaGoesDown,
           KuksaRestarts, KuksaComesUp, vss, log, IInv, TypeOK, PCs, Connected
  <1>3. faults' \in 0..MaxFaults
    BY BoundsAssumption
       DEF Moves, BrokerConnects, Validates, ValidatesNothing, ValidationFails,
           OpensSeed, SeedEnds, Streams, ConnectionLost, Retry, KuksaGoesDown,
           KuksaRestarts, KuksaComesUp, Fault, IInv, TypeOK
  <1>4. TypeOK'
    <2>1. inbox' \in Seq(Batches)
      <3>1. CASE inbox' = inbox
        BY <3>1 DEF IInv, TypeOK
      <3>2. CASE inbox' = <<>>
        BY <3>2
      <3> QED
        BY <1>1, <3>1, <3>2
    <2>2. can' \in Values /\ handed' \in Values /\ inVss' \in Values
          /\ pending' \subseteq Signals
      BY <1>1, <1>2 DEF IInv, TypeOK
    <2>3. /\ drops' \in Nat /\ refused' \in [Bad -> Nat]
          /\ DOMAIN tracked' \subseteq Bad /\ \A k \in DOMAIN tracked' : tracked'[k] \in Nat
      BY <1>2 DEF IInv, TypeOK
    <2> QED
      BY <1>2, <1>3, <2>1, <2>2, <2>3, Zenon DEF TypeOK
  <1>5. InOrder' /\ HandsGood' /\ HasNewest'
    BY <1>1, OrderSurvives DEF IInv, InOrder
  <1>6. StreamIsComplete'
    <2>1. CASE Streams
      BY <2>1, Opened
    <2>2. CASE KuksaGoesDown \/ KuksaRestarts \/ KuksaComesUp
      BY <2>2, StreamSurvives DEF KuksaGoesDown, KuksaRestarts, KuksaComesUp
    <2>3. CASE BrokerConnects \/ Validates \/ ValidatesNothing \/ ValidationFails
               \/ OpensSeed \/ SeedEnds \/ ConnectionLost \/ Retry
      BY <2>3 DEF BrokerConnects, Validates, ValidatesNothing, ValidationFails,
                  OpensSeed, SeedEnds, ConnectionLost, Retry, StreamIsComplete
    <2> QED
      BY <2>1, <2>2, <2>3 DEF Moves
  <1> QED
    BY <1>1, <1>4, <1>5, <1>6 DEF IInv

-----------------------------------------------------------------------------
(* The theorems.                                                           *)

LEMMA InitHolds == Init => IInv
  <1> SUFFICES ASSUME Init PROVE IInv
    OBVIOUS
  <1>1. TypeOK
    BY BoundsAssumption DEF Init, TypeOK, Values, Unchanged, PCs
  <1>2. InOrder
    BY DEF Init, InOrder, Unchanged
  <1>3. HandsGood
    BY BadAssumption DEF Init, HandsGood, Good, Unchanged
  <1>4. HasNewest
    BY BadAssumption DEF Init, HasNewest, IsNewest, Good, Unchanged
  <1>5. StreamIsComplete
    BY DEF Init, StreamIsComplete
  <1> QED
    BY <1>1, <1>2, <1>3, <1>4, <1>5 DEF IInv

LEMMA HandleKeeps ==
    ASSUME IInv, Handle
    PROVE  IInv'
  <1>1. HasNewest'
    BY DEF Handle, link, IInv, HasNewest, IsNewest, Good
  <1> QED
    BY <1>1, HandleKeepsTypes, HandleKeepsOrder, HandleKeepsStream DEF IInv

LEMMA ChangeKeeps ==
    ASSUME IInv, NEW S \in SUBSET Signals, CanChanges(S)
    PROVE  IInv'
  BY ChangeKeepsTypes, ChangeKeepsOrder, ChangeKeepsNewest, ChangeKeepsStream DEF IInv

LEMMA StutterKeeps ==
    ASSUME IInv, UNCHANGED vars
    PROVE  IInv'
  <1> USE DEF vars, vss, log
  <1>1. TypeOK'
    BY DEF IInv, TypeOK
  <1>2. InOrder' /\ HandsGood' /\ HasNewest'
    BY OrderSurvives DEF IInv, InOrder
  <1>3. StreamIsComplete'
    BY StreamSurvives
  <1> QED
    BY <1>1, <1>2, <1>3 DEF IInv

LEMMA StepKeeps == IInv /\ [Next]_vars => IInv'
  <1> SUFFICES ASSUME IInv, [Next]_vars PROVE IInv'
    OBVIOUS
  <1>1. CASE Moves
    BY <1>1, MoveKeeps
  <1>2. CASE Handle
    BY <1>2, HandleKeeps
  <1>3. ASSUME NEW S \in SUBSET Signals, CanChanges(S) PROVE IInv'
    BY <1>3, ChangeKeeps
  <1>4. ASSUME NEW f \in Frames, FrameArrives(f) PROVE IInv'
    BY <1>4, FrameKeeps
  <1>5. CASE Deliver
    BY <1>5, DeliverKeeps
  <1>6. CASE UNCHANGED vars
    BY <1>6, StutterKeeps
  <1> QED
    BY <1>1, <1>2, <1>3, <1>4, <1>5, <1>6 DEF Next, Reader, Moves

\* The inductive invariant holds in every behaviour of the reader.
THEOREM InvariantHolds == Spec => []IInv
  BY InitHolds, StepKeeps, PTL DEF Spec

\* Type correctness of the reader, its stream, the drop log and KUKSA.
THEOREM TypeCorrect == Spec => []TypeOK
  <1>1. IInv => TypeOK
    BY DEF IInv
  <1> QED
    BY <1>1, InvariantHolds, PTL

\* While streaming, no value that can be transformed is skipped: it was missed
\* before the stream opened, handed over, or still waits.
THEOREM NothingIsSkipped == Spec => []StreamIsComplete
  <1>1. IInv => StreamIsComplete
    BY DEF IInv
  <1> QED
    BY <1>1, InvariantHolds, PTL

\* The values handed over and those that KUKSA accepts only move forward:
\* Loop A implements one latest-value register per signal.
THEOREM NeverBackward == Spec => OnlyForward
  <1> DEFINE D == {"to_vss"}
  <1>1. Init => Registers!Init
    BY DEF Init, Unchanged, Registers!Init, Registers!NothingYet
  <1>2. IInv /\ IInv' /\ [Next]_vars => [Registers!Next]_Registers!regVars
    <2> SUFFICES ASSUME IInv, IInv', [Next]_vars
                 PROVE  [Registers!Next]_Registers!regVars
      OBVIOUS
    <2> USE DEF Registers!Next, Registers!regVars
    <2>1. handed' \in [Signals -> Nat] /\ inVss' \in [Signals -> Nat]
      BY BoundsAssumption DEF IInv, TypeOK, Values
    <2>2. CASE UNCHANGED <<handed, inVss>>
      BY <2>2
    <2>3. CASE Handle
      <3>1. inVss' = inVss /\ handed' = Handled(handed, Head(inbox)) /\ inbox # <<>>
        BY <2>3 DEF Handle, Hands
      <3>2. \A s \in Signals : handed[s] <= handed'[s]
        BY <3>1, HandsMoveForward
      <3>3. Registers!Produce
        BY <2>1, <3>1, <3>2 DEF Registers!Produce, Registers!Registers
      <3> QED
        BY <3>3
    <2>4. CASE Deliver
      <3>1. handed' = handed
        BY <2>4 DEF Deliver
      <3>2. \A s \in Signals : inVss[s] <= inVss'[s] /\ inVss'[s] <= handed[s]
        BY <2>4, DeliverKeeps
      <3>3. Registers!Accept
        BY <2>1, <3>1, <3>2 DEF Registers!Accept, Registers!Advances, Registers!Registers
      <3> QED
        BY <3>3
    <2>5. CASE Moves
      BY <2>2, <2>5, MoveKeeps
    <2>6. ASSUME NEW S \in SUBSET Signals, CanChanges(S)
          PROVE  UNCHANGED <<handed, inVss>>
      BY <2>6 DEF CanChanges, vss
    <2>7. ASSUME NEW f \in Frames, FrameArrives(f)
          PROVE  UNCHANGED <<handed, inVss>>
      BY <2>7 DEF FrameArrives, vss
    <2>8. CASE UNCHANGED vars
      BY <2>2, <2>8 DEF vars, vss
    <2> QED
      BY <2>2, <2>3, <2>4, <2>5, <2>6, <2>7, <2>8 DEF Next, Reader, Moves
  <1> QED
    BY <1>1, <1>2, InvariantHolds, PTL DEF Spec, OnlyForward, Registers!Spec

-----------------------------------------------------------------------------
(* The digest of the drops, for any cap.                                   *)

TotalInv == IsFiniteSet(Refusals) /\ drops = Cardinality(Refusals)

ListInv ==
    /\ ListIsExact
    /\ IsFiniteSet(DOMAIN tracked) /\ Cardinality(DOMAIN tracked) <= MaxTracked

\* The total grows by the refusals of the batch, each of which is new.
LEMMA DropsKeepTotal ==
    ASSUME TypeOK, TotalInv, NEW D, D \subseteq Bad, IsFiniteSet(D), RecordDrops(D)
    PROVE  TotalInv'
  <1> DEFINE next == [k \in D |-> <<k, refused[k] + 1>>]
             New == {<<k, refused[k] + 1>> : k \in D}
  <1>1. drops' = drops + Cardinality(D) /\ refused' = Count(refused, D)
    BY DEF RecordDrops
  <1>2. \A k \in Bad : /\ refused[k] \in Nat
                       /\ refused'[k] = IF k \in D THEN refused[k] + 1 ELSE refused[k]
    BY <1>1 DEF TypeOK, Count
  <1>3. \A k, n : /\ <<k, n>> \in Refusals <=> k \in Bad /\ n \in 1..refused[k]
                  /\ <<k, n>> \in Refusals' <=> k \in Bad /\ n \in 1..refused'[k]
    BY DEF Refusals
  <1>4. \A r \in Refusals \cup Refusals' \cup New : r = <<r[1], r[2]>>
    BY DEF Refusals
  <1>5. \A k, n : <<k, n>> \in New <=> k \in D /\ n = refused[k] + 1
    OBVIOUS
  <1>6. \A k, n : <<k, n>> \in Refusals' <=> <<k, n>> \in Refusals \/ <<k, n>> \in New
    <2> TAKE k, n
    <2>1. CASE k \in D
      <3>1. n \in 1..(refused[k] + 1) <=> n \in 1..refused[k] \/ n = refused[k] + 1
        BY <1>2, <2>1
      <3> HIDE DEF New
      <3> QED
        BY <1>2, <1>3, <1>5, <2>1, <3>1
    <2>2. CASE k \notin D
      <3> HIDE DEF New
      <3> QED
        BY <1>2, <1>3, <1>5, <2>2
    <2> QED
      BY <2>1, <2>2
  <1>7. \A k, n : ~(<<k, n>> \in Refusals /\ <<k, n>> \in New)
    <2> HIDE DEF New
    <2> SUFFICES ASSUME NEW k, NEW n, <<k, n>> \in Refusals, <<k, n>> \in New PROVE FALSE
      OBVIOUS
    <2>1. k \in Bad /\ n \in 1..refused[k] /\ n = refused[k] + 1
      BY <1>3, <1>5
    <2> QED
      BY <1>2, <2>1
  <1>8. IsFiniteSet(New) /\ Cardinality(New) = Cardinality(D)
    <2>1. next \in Surjection(D, New)
      BY DEF Surjection
    <2>2. next \in Injection(D, New)
      <3>1. \A a, b \in D : next[a] = next[b] => a = b
        OBVIOUS
      <3>2. next \in [D -> New]
        OBVIOUS
      <3> QED
        BY <3>1, <3>2 DEF Injection, IsInjective
    <2> QED
      BY <2>1, <2>2, FS_Surjection
  <1> HIDE DEF New
  <1>9. Refusals' = Refusals \cup New /\ Refusals \cap New = {}
    <2>1. Refusals' \subseteq Refusals \cup New
      BY <1>4, <1>6
    <2>2. Refusals \cup New \subseteq Refusals'
      BY <1>4, <1>6
    <2>3. Refusals \cap New = {}
      BY <1>4, <1>7
    <2> QED
      BY <2>1, <2>2, <2>3
  <1>10. /\ IsFiniteSet(Refusals \cup New)
         /\ Cardinality(Refusals \cup New) = Cardinality(Refusals) + Cardinality(New)
    <2>1. Cardinality(Refusals \cap New) = 0
      BY <1>9, FS_EmptySet
    <2>2. /\ IsFiniteSet(Refusals \cup New)
          /\ Cardinality(Refusals \cup New) =
                Cardinality(Refusals) + Cardinality(New) - Cardinality(Refusals \cap New)
      BY <1>8, FS_Union DEF TotalInv
    <2>3. Cardinality(Refusals) \in Nat /\ Cardinality(New) \in Nat
      BY <1>8, FS_CardinalityType DEF TotalInv
    <2> QED
      BY <2>1, <2>2, <2>3
  <1> QED
    BY <1>1, <1>8, <1>9, <1>10 DEF TotalInv

LEMMA DropsKeepList ==
    ASSUME TypeOK, ListInv, NEW D, D \subseteq Bad, IsFiniteSet(D), RecordDrops(D)
    PROVE  ListInv'
  <1> DEFINE new == D \ DOMAIN tracked
             c == Cardinality(DOMAIN tracked)
             room == MaxTracked - c
  <1>1. PICK T \in kSubset(Min({room, Cardinality(new)}), new) :
            tracked' = Tracking(tracked, T, D)
    BY DEF RecordDrops
  <1>2. refused' = Count(refused, D)
    BY DEF RecordDrops
  <1>3. IsFiniteSet(new) /\ Cardinality(new) \in Nat /\ c \in Nat /\ c <= MaxTracked
    BY FS_Subset, FS_CardinalityType DEF ListInv
  <1>4. /\ Min({room, Cardinality(new)}) \in {room, Cardinality(new)}
        /\ Min({room, Cardinality(new)}) <= room
    <2>1. room \in Nat
      BY <1>3, BoundsAssumption
    <2>2. \E v \in {room, Cardinality(new)} : \A w \in {room, Cardinality(new)} : v <= w
      BY <1>3, <2>1
    <2> QED
      BY <2>2 DEF Min
  <1>5. /\ T \subseteq new /\ Cardinality(T) \in {room, Cardinality(new)}
        /\ Cardinality(T) <= room
    BY <1>1, <1>4 DEF kSubset
  <1>6. IsFiniteSet(T) /\ Cardinality(T) \in Nat
    BY <1>3, <1>5, FS_Subset, FS_CardinalityType
  <1>7. DOMAIN tracked' = DOMAIN tracked \cup T
    BY <1>1 DEF Tracking, Count
  <1>8. /\ IsFiniteSet(DOMAIN tracked')
        /\ Cardinality(DOMAIN tracked') = c + Cardinality(T)
    <2>1. DOMAIN tracked \cap T = {}
      BY <1>5
    <2>2. /\ IsFiniteSet(DOMAIN tracked \cup T)
          /\ Cardinality(DOMAIN tracked \cup T) = c + Cardinality(T)
      <3>1. Cardinality(DOMAIN tracked \cap T) = 0
        BY <2>1, FS_EmptySet
      <3>2. /\ IsFiniteSet(DOMAIN tracked \cup T)
            /\ Cardinality(DOMAIN tracked \cup T) =
                  c + Cardinality(T) - Cardinality(DOMAIN tracked \cap T)
        BY <1>6, FS_Union DEF ListInv
      <3> QED
        BY <1>3, <1>6, <3>1, <3>2
    <2> QED
      BY <1>7, <2>2
  <1>9. c = MaxTracked => T = {}
    <2> SUFFICES ASSUME c = MaxTracked PROVE T = {}
      OBVIOUS
    <2>1. Cardinality(T) = 0
      BY <1>3, <1>5, <1>6, BoundsAssumption
    <2> QED
      BY <1>6, <2>1, FS_EmptySet
  <1>10. \A k \in Bad : refused[k] \in Nat
                        /\ refused'[k] = IF k \in D THEN refused[k] + 1 ELSE refused[k]
    BY <1>2 DEF TypeOK, Count
  <1>11. \A k \in DOMAIN tracked' : tracked'[k] = refused'[k]
    <2> TAKE k \in DOMAIN tracked'
    <2>1. k \in Bad
      BY <1>5, <1>7 DEF TypeOK
    <2>2. CASE k \in DOMAIN tracked
      <3>1. tracked'[k] = IF k \in D THEN tracked[k] + 1 ELSE tracked[k]
        BY <1>1, <1>7, <2>2 DEF Tracking, Count
      <3> QED
        BY <1>10, <2>1, <2>2, <3>1 DEF ListInv, ListIsExact
    <2>3. CASE k \in T
      <3>1. k \in D /\ k \notin DOMAIN tracked
        BY <1>5, <2>3
      <3>2. tracked'[k] = 0 + 1
        BY <1>1, <1>7, <2>3, <3>1 DEF Tracking, Count
      <3>3. refused[k] = 0
        BY <1>9, <1>10, <2>1, <2>3, <3>1 DEF ListInv, ListIsExact
      <3> QED
        BY <1>10, <2>1, <3>1, <3>2, <3>3
    <2> QED
      BY <1>7, <2>2, <2>3
  <1>12. \A k \in Bad \ DOMAIN tracked' :
             refused'[k] > 0 => Cardinality(DOMAIN tracked') = MaxTracked
    <2> SUFFICES ASSUME NEW k \in Bad \ DOMAIN tracked', refused'[k] > 0
                 PROVE  Cardinality(DOMAIN tracked') = MaxTracked
      OBVIOUS
    <2>1. k \notin DOMAIN tracked /\ k \notin T
      BY <1>7
    <2>2. CASE refused[k] > 0
      <3>1. c = MaxTracked
        BY <2>1, <2>2 DEF ListInv, ListIsExact
      <3> QED
        BY <1>3, <1>6, <1>7, <1>9, <3>1, FS_EmptySet
    <2>3. CASE ~(refused[k] > 0)
      <3>1. k \in new
        BY <1>10, <2>1, <2>3
      <3>2. Cardinality(T) # Cardinality(new)
        BY <1>3, <1>5, <2>1, <3>1, FS_Subset
      <3> QED
        BY <1>3, <1>5, <1>6, <1>8, <3>2, BoundsAssumption
    <2> QED
      BY <2>2, <2>3
  <1>13. Cardinality(DOMAIN tracked') <= MaxTracked
    BY <1>3, <1>5, <1>6, <1>8, BoundsAssumption
  <1> QED
    BY <1>8, <1>11, <1>12, <1>13 DEF ListInv, ListIsExact

LEMMA HandleKeepsDigest ==
    ASSUME IInv, TotalInv, ListInv, Handle
    PROVE  TotalInv' /\ ListInv'
  <1> DEFINE b == Head(inbox)
             put == {s \in DOMAIN b \cap mapped : Good(s, b[s])}
             bad == {<<s, b[s]>> : s \in (DOMAIN b \cap mapped) \ put}
  <1>1. RecordDrops(bad)
    BY Zenon DEF Handle, Hands
  <1>2. 1 \in DOMAIN inbox /\ b = inbox[1]
    BY DEF Handle, IInv, TypeOK
  <1>3. bad \subseteq Bad
    BY DEF Good
  <1>4. bad \subseteq Signals \X (0..MaxChanges)
    BY <1>2, BatchTypes DEF IInv
  <1>5. IsFiniteSet(bad)
    <2>1. IsFiniteSet(0..MaxChanges)
      BY FS_Interval, BoundsAssumption
    <2> QED
      BY <1>4, <2>1, SignalsAssumption, FS_Product, FS_Subset
  <1> QED
    BY <1>1, <1>3, <1>5, DropsKeepList, DropsKeepTotal DEF IInv

\* Whatever is refused, however often and over however many reconnections:
\* the total counts every refusal, no listed drop loses a count and none is left
\* out of a list with room, whatever the cap (state.py 163-172).
THEOREM DropsStayDigested == Spec => []DropsAreDigested
  <1>1. Init => TotalInv /\ ListInv
    <2> SUFFICES ASSUME Init PROVE TotalInv /\ ListInv
      OBVIOUS
    <2>1. DOMAIN tracked = {} /\ drops = 0 /\ \A k \in Bad : refused[k] = 0
      BY DEF Init
    <2>2. IsFiniteSet(DOMAIN tracked) /\ Cardinality(DOMAIN tracked) = 0
      BY <2>1, FS_EmptySet
    <2>3. Refusals = {}
      BY <2>1 DEF Refusals
    <2>4. IsFiniteSet(Refusals) /\ Cardinality(Refusals) = 0
      BY <2>3, FS_EmptySet
    <2> QED
      BY <2>1, <2>2, <2>4, BoundsAssumption DEF TotalInv, ListInv, ListIsExact
  <1>2. IInv /\ TotalInv /\ ListInv /\ [Next]_vars => TotalInv' /\ ListInv'
    <2> SUFFICES ASSUME IInv, TotalInv, ListInv, [Next]_vars PROVE TotalInv' /\ ListInv'
      OBVIOUS
    <2>1. CASE Handle
      BY <2>1, HandleKeepsDigest
    <2>2. CASE UNCHANGED <<drops, tracked, refused>>
      BY <2>2 DEF TotalInv, Refusals, ListInv, ListIsExact
    <2>3. CASE ~Handle
      <3>1. UNCHANGED <<drops, tracked, refused>>
        BY <2>3 DEF Next, Reader, BrokerConnects, Validates, ValidatesNothing,
               ValidationFails, OpensSeed, SeedEnds, Streams, ConnectionLost, Retry,
               CanChanges, FrameArrives, KuksaGoesDown, KuksaRestarts, KuksaComesUp,
               Deliver, vars, log
      <3> QED
        BY <2>2, <3>1
    <2> QED
      BY <2>1, <2>3
  <1>3. TotalInv /\ ListInv => DropsAreDigested
    BY DEF TotalInv, ListInv, DropsAreDigested
  <1> QED
    BY <1>1, <1>2, <1>3, InvariantHolds, PTL DEF Spec
=============================================================================
