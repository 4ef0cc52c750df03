------------------------- MODULE BridgeHealthProofs -------------------------
(***************************************************************************)
(* Theorems about BridgeHealth: what /stats says of a peer is true of one  *)
(* of its workers, and what it says of the mapping is true of the peers    *)
(* and of the restbus writer.  Every action changes few of the conjuncts   *)
(* of IInv.  The lemmas below say what the methods of BridgeState and a    *)
(* move of one worker do to PhaseIsTrue, and what leaves the rest alone.   *)
(***************************************************************************)
EXTENDS BridgeHealth, TLAPS

\* Only the workers of a peer can be in its phase, so moving a worker and
\* marking its peer as disconnected keeps PhaseIsTrue.
LEMMA DisconnectKeepsPhases ==
    ASSUME TypeOK, PhaseIsTrue, NEW w \in Workers, NEW l \in PCs, Goes(w, l),
           NEW phase,
           SetPeer(PeerOf(w), FALSE, phase) \/ RecordReconnect(PeerOf(w))
    PROVE  PhaseIsTrue'
  <1> SUFFICES ASSUME NEW p \in Peers, peers'[p].connected
               PROVE  \E v \in Workers : PeerOf(v) = p /\ InPhase(v, pc'[v], peers'[p].phase)
    BY Zenon DEF PhaseIsTrue
  <1>1. PeerOf(w) \in Peers
    BY DEF PeerOf, Peers
  <1>2. p # PeerOf(w) /\ peers'[p] = peers[p]
    BY <1>1 DEF SetPeer, RecordReconnect, TypeOK
  <1>3. PICK v \in Workers : PeerOf(v) = p /\ InPhase(v, pc[v], peers[p].phase)
    BY <1>2 DEF PhaseIsTrue
  <1>4. pc'[v] = pc[v]
    BY <1>2, <1>3 DEF Goes, TypeOK
  <1> QED BY <1>2, <1>3, <1>4

\* A worker that announces the phase it moves to.
LEMMA AnnounceKeepsPhases ==
    ASSUME TypeOK, PhaseIsTrue, NEW w \in Workers, NEW l \in PCs, NEW phase,
           Announces(w, l, phase), InPhase(w, l, phase)
    PROVE  PhaseIsTrue'
  <1> SUFFICES ASSUME NEW p \in Peers, peers'[p].connected
               PROVE  \E v \in Workers : PeerOf(v) = p /\ InPhase(v, pc'[v], peers'[p].phase)
    BY Zenon DEF PhaseIsTrue
  <1>1. CASE p = PeerOf(w)
    <2>1. pc'[w] = l /\ peers'[p].phase = phase
      BY <1>1 DEF Announces, Goes, SetPeer, TypeOK
    <2> QED BY <1>1, <2>1
  <1>2. CASE p # PeerOf(w)
    <2>1. peers'[p] = peers[p]
      BY <1>2 DEF Announces, SetPeer, TypeOK
    <2>2. PICK v \in Workers : PeerOf(v) = p /\ InPhase(v, pc[v], peers[p].phase)
      BY <2>1 DEF PhaseIsTrue
    <2>3. pc'[v] = pc[v]
      BY <1>2, <2>2 DEF Announces, Goes, TypeOK
    <2> QED BY <2>1, <2>2, <2>3
  <1> QED BY <1>1, <1>2

\* A worker that moves without a word, from where it announced nothing or to
\* where the same phase is true.
LEMMA MoveKeepsPhases ==
    ASSUME TypeOK, PhaseIsTrue, NEW w \in Workers, NEW l \in PCs,
           Goes(w, l), UNCHANGED peers,
           \A phase : InPhase(w, pc[w], phase) => InPhase(w, l, phase)
    PROVE  PhaseIsTrue'
  <1> SUFFICES ASSUME NEW p \in Peers, peers[p].connected
               PROVE  \E v \in Workers : PeerOf(v) = p /\ InPhase(v, pc'[v], peers[p].phase)
    BY Zenon DEF PhaseIsTrue
  <1>1. PICK v \in Workers : PeerOf(v) = p /\ InPhase(v, pc[v], peers[p].phase)
    BY DEF PhaseIsTrue
  <1>2. InPhase(v, pc'[v], peers[p].phase)
    <2>1. CASE v = w
      BY <1>1, <2>1 DEF Goes, TypeOK
    <2>2. CASE v # w
      BY <1>1, <2>2 DEF Goes, TypeOK
    <2> QED BY <2>1, <2>2
  <1> QED BY <1>1, <1>2

-----------------------------------------------------------------------------
(* What the methods and a move do to the types.                            *)

LEMMA GoesType ==
    ASSUME TypeOK, NEW w \in Workers, NEW l \in PCs, Goes(w, l)
    PROVE  pc' \in [Workers -> PCs]
  BY DEF TypeOK, Goes

LEMMA SetPeerType ==
    ASSUME TypeOK, NEW p \in Peers, NEW up \in BOOLEAN, NEW phase \in AllPhases,
           SetPeer(p, up, phase)
    PROVE  peers' \in [Peers -> [connected : BOOLEAN, phase : AllPhases]]
  BY DEF TypeOK, SetPeer

LEMMA RecordReconnectType ==
    ASSUME TypeOK, NEW p \in Peers, RecordReconnect(p)
    PROVE  peers' \in [Peers -> [connected : BOOLEAN, phase : AllPhases]]
  <1>1. peers[p] \in [connected : BOOLEAN, phase : AllPhases]
    BY DEF TypeOK
  <1>2. [peers[p] EXCEPT !.connected = FALSE] \in [connected : BOOLEAN, phase : AllPhases]
    BY <1>1
  <1> QED BY <1>2 DEF RecordReconnect, TypeOK

LEMMA AnnouncesType ==
    ASSUME TypeOK, NEW w \in Workers, NEW l \in PCs, NEW phase \in AllPhases,
           Announces(w, l, phase)
    PROVE  /\ pc' \in [Workers -> PCs]
           /\ peers' \in [Peers -> [connected : BOOLEAN, phase : AllPhases]]
  <1>1. PeerOf(w) \in Peers
    BY DEF PeerOf, Peers
  <1> QED BY <1>1, GoesType, SetPeerType DEF Announces

LEMMA FaultType ==
    ASSUME faults \in 0..MaxFaults, Fault
    PROVE  faults' \in 0..MaxFaults
  BY MaxFaultsAssumption DEF Fault

-----------------------------------------------------------------------------
(* The invariant.                                                          *)

\* What the validations have told.
Current == ReaderUpToDate /\ ReaderKnows /\ WriterKnows

LEMMA InvariantParts ==
    /\ IInv <=> TypeOK /\ PhaseIsTrue /\ Current
    /\ IInv' <=> TypeOK' /\ PhaseIsTrue' /\ Current'
  BY DEF IInv, Current

LEMMA InitImpliesIInv == Init => IInv
  <1> SUFFICES ASSUME Init PROVE IInv
    OBVIOUS
  <1>1. TypeOK
    <2>1. peers \in [Peers -> [connected : BOOLEAN, phase : AllPhases]]
      BY DEF Init, AllPhases
    <2> QED BY <2>1, MaxFaultsAssumption
            DEF Init, TypeOK, NoBranches, BranchStates, PCs
  <1>2. PhaseIsTrue
    <2>1. \A p \in Peers : peers[p].connected = FALSE
      BY DEF Init
    <2> QED BY <2>1, Zenon DEF PhaseIsTrue
  <1>3. Current
    BY DEF Init, Current, ReaderUpToDate, ReaderKnows, WriterKnows, Validated, Workers
  <1> QED BY <1>1, <1>2, <1>3, InvariantParts

\* What an action that leaves the mapping alone owes to them: nobody comes past
\* a validation, and whoever is past it stays cut.
LEMMA CurrentStays ==
    ASSUME IInv, UNCHANGED <<mapping, catalog>>,
           \A w \in Validators :
               Validated(w)' => Validated(w) /\ (w \in severed => w \in severed')
    PROVE  Current'
  <1>1. Validated("canReader")' =>
            Validated("canReader") /\ ("canReader" \in severed => "canReader" \in severed')
    BY DEF Validators
  <1>2. Validated("restbusWriter")' =>
            /\ Validated("restbusWriter")
            /\ "restbusWriter" \in severed => "restbusWriter" \in severed'
    BY DEF Validators
  <1> QED BY <1>1, <1>2
          DEF IInv, Current, ReaderUpToDate, ReaderKnows, WriterKnows, mapping, published

\* In particular when one worker goes where it is not past its validation.
LEMMA CurrentStaysOnMove ==
    ASSUME IInv, NEW w \in Workers, NEW l \in PCs, Goes(w, l), UNCHANGED <<mapping, catalog>>,
           w \in Validators => l \in {"connecting", "validating", "backoff"},
           severed \ {w} \subseteq severed'
    PROVE  Current'
  <1>1. \A v \in Workers : v # w => pc'[v] = pc[v]
    BY DEF IInv, TypeOK, Goes
  <1>2. pc'[w] = l
    BY DEF IInv, TypeOK, Goes
  <1> SUFFICES ASSUME NEW v \in Validators, Validated(v)'
               PROVE  Validated(v) /\ (v \in severed => v \in severed')
    BY CurrentStays
  <1>3. v # w /\ v \in Workers
    BY <1>2 DEF Validated, Validators, Workers
  <1> QED BY <1>1, <1>3 DEF Validated

LEMMA FailsStep ==
    ASSUME IInv, NEW w \in Workers, Fails(w)
    PROVE  IInv'
  <1>0. PeerOf(w) \in Peers /\ "backoff" \in PCs
    BY DEF PeerOf, Peers, PCs
  <1>1. TypeOK'
    <2>1. pc' \in [Workers -> PCs]
      BY <1>0, GoesType DEF IInv, Fails
    <2>2. peers' \in [Peers -> [connected : BOOLEAN, phase : AllPhases]]
      BY <1>0, RecordReconnectType DEF IInv, Fails
    <2>3. faults' \in 0..MaxFaults
      BY FaultType DEF IInv, TypeOK, Fails
    <2> QED BY <2>1, <2>2, <2>3 DEF IInv, TypeOK, Fails, mapping, published
  <1>2. PhaseIsTrue'
    BY <1>0, DisconnectKeepsPhases DEF IInv, Fails
  <1>3. Current'
    BY <1>0, CurrentStaysOnMove DEF Fails
  <1> QED BY <1>1, <1>2, <1>3, InvariantParts

LEMMA RetryStep ==
    ASSUME IInv, NEW w \in Workers, Retry(w)
    PROVE  IInv'
  <1>0. "connecting" \in PCs
    BY DEF PCs
  <1>1. TypeOK'
    <2>1. pc' \in [Workers -> PCs]
      BY <1>0, GoesType DEF IInv, Retry
    <2> QED BY <2>1 DEF IInv, TypeOK, Retry, mapping, published
  <1>2. PhaseIsTrue'
    <2>1. \A phase : InPhase(w, pc[w], phase) => InPhase(w, "connecting", phase)
      BY DEF Retry, InPhase
    <2> QED BY <1>0, <2>1, MoveKeepsPhases DEF IInv, Retry
  <1>3. Current'
    BY <1>0, CurrentStaysOnMove DEF Retry
  <1> QED BY <1>1, <1>2, <1>3, InvariantParts

LEMMA BrokerConnectsStep ==
    ASSUME IInv, NEW w \in Workers, BrokerConnects(w)
    PROVE  IInv'
  <1>0. "validating" \in PCs
    BY DEF PCs
  <1>1. TypeOK'
    <2>1. pc' \in [Workers -> PCs]
      BY <1>0, GoesType DEF IInv, BrokerConnects
    <2> QED BY <2>1 DEF IInv, TypeOK, BrokerConnects, Steady, mapping, published
  <1>2. PhaseIsTrue'
    <2>1. \A phase : InPhase(w, pc[w], phase) => InPhase(w, "validating", phase)
      BY DEF BrokerConnects, InPhase
    <2> QED BY <1>0, <2>1, MoveKeepsPhases DEF IInv, BrokerConnects
  <1>3. Current'
    BY <1>0, CurrentStaysOnMove DEF BrokerConnects, Steady
  <1> QED BY <1>1, <1>2, <1>3, InvariantParts

\* After the reader's validation the published mapping is that of the peers.
LEMMA ReaderValidatesStep ==
    ASSUME IInv, ReaderValidates
    PROVE  IInv'
  <1> PICK valid \in SUBSET catalog :
          /\ Validation(valid)
          /\ ReplaceValidation(valid)
          /\ Concludes("canReader", valid)
          /\ IF valid \cap ToVss = {}
             THEN Announces("canReader", "idle", "idle")
             ELSE Announces("canReader", "seeding", "seeding")
    BY DEF ReaderValidates
  <1>0. /\ "canReader" \in Workers
        /\ "idle" \in PCs /\ "seeding" \in PCs
        /\ "idle" \in AllPhases /\ "seeding" \in AllPhases
        /\ InPhase("canReader", "idle", "idle")
        /\ InPhase("canReader", "seeding", "seeding")
    BY DEF Workers, PCs, AllPhases, InPhase
  <1>1. TypeOK'
    <2>1. /\ pc' \in [Workers -> PCs]
          /\ peers' \in [Peers -> [connected : BOOLEAN, phase : AllPhases]]
      BY <1>0, AnnouncesType DEF IInv
    <2>2. faults' \in 0..MaxFaults
      BY FaultType DEF IInv, TypeOK, Validation
    <2>3. catalog \subseteq Entries
      BY CatalogsAssumption DEF IInv, TypeOK
    <2>4. skipped' \subseteq Entries \cup Malformed /\ active' \subseteq Entries
      BY <2>3 DEF ReplaceValidation
    <2> QED BY <2>1, <2>2, <2>4 DEF IInv, TypeOK, ReaderValidates, Concludes, Validators
  <1>2. PhaseIsTrue'
    BY <1>0, AnnounceKeepsPhases DEF IInv
  <1>3. Current'
    <2>1. /\ catalog \subseteq Entries /\ catalog' = catalog
          /\ UNCHANGED <<own, severed>>
          /\ skipped' = Entries \ valid /\ active' = valid
          /\ behind' = IF valid = catalog THEN behind \ {"canReader"}
                       ELSE behind \cup {"canReader"}
      BY CatalogsAssumption
         DEF IInv, TypeOK, ReaderValidates, ReplaceValidation, Concludes
    <2>2. ReaderUpToDate'
      BY <2>1 DEF ReaderUpToDate
    <2>3. ReaderKnows'
      BY <2>1 DEF ReaderKnows
    <2>4. WriterKnows'
      <3>1. pc'["restbusWriter"] = pc["restbusWriter"]
        BY DEF Announces, Goes, IInv, TypeOK, Workers
      <3>2. "restbusWriter" \in behind' <=> "restbusWriter" \in behind
        BY <2>1
      <3> QED BY <2>1, <3>1, <3>2 DEF IInv, WriterKnows, Validated
    <2> QED BY <2>2, <2>3, <2>4 DEF Current
  <1> QED BY <1>1, <1>2, <1>3, InvariantParts

LEMMA ReaderStreamsStep ==
    ASSUME IInv, ReaderStreams
    PROVE  IInv'
  <1>0. /\ "canReader" \in Workers /\ "streaming" \in PCs /\ "streaming" \in AllPhases
        /\ InPhase("canReader", "streaming", "streaming")
    BY DEF Workers, PCs, AllPhases, InPhase
  <1>1. TypeOK'
    <2>1. /\ pc' \in [Workers -> PCs]
          /\ peers' \in [Peers -> [connected : BOOLEAN, phase : AllPhases]]
      BY <1>0, AnnouncesType DEF IInv, ReaderStreams
    <2> QED BY <2>1 DEF IInv, TypeOK, ReaderStreams, Steady, mapping, published
  <1>2. PhaseIsTrue'
    BY <1>0, AnnounceKeepsPhases DEF IInv, ReaderStreams
  <1>3. Current'
    <2>1. \A w \in Validators :
              Validated(w)' => Validated(w) /\ (w \in severed => w \in severed')
      BY DEF ReaderStreams, Announces, Goes, Steady, IInv, TypeOK, Validated, Validators, Workers
    <2> QED BY <2>1, CurrentStays DEF ReaderStreams, Steady
  <1> QED BY <1>1, <1>2, <1>3, InvariantParts

LEMMA ReaderStreamEndsStep ==
    ASSUME IInv, ReaderStreamEnds
    PROVE  IInv'
  <1>0. /\ "canReader" \in Workers /\ "backoff" \in PCs /\ "reconnecting" \in AllPhases
        /\ "remotive" \in Peers /\ PeerOf("canReader") = "remotive"
    BY DEF Workers, PCs, AllPhases, Peers, PeerOf, Validators
  <1>1. TypeOK'
    <2>1. pc' \in [Workers -> PCs]
      BY <1>0, GoesType DEF IInv, ReaderStreamEnds
    <2>2. peers' \in [Peers -> [connected : BOOLEAN, phase : AllPhases]]
      BY <1>0, SetPeerType DEF IInv, ReaderStreamEnds
    <2>3. faults' \in 0..MaxFaults
      BY FaultType DEF IInv, TypeOK, ReaderStreamEnds
    <2> QED BY <2>1, <2>2, <2>3 DEF IInv, TypeOK, ReaderStreamEnds, mapping, published
  <1>2. PhaseIsTrue'
    BY <1>0, DisconnectKeepsPhases DEF IInv, ReaderStreamEnds
  <1>3. Current'
    BY <1>0, CurrentStaysOnMove DEF ReaderStreamEnds
  <1> QED BY <1>1, <1>2, <1>3, InvariantParts

LEMMA WriterValidatesStep ==
    ASSUME IInv, WriterValidates
    PROVE  IInv'
  <1>0. "restbusWriter" \in Workers /\ "idle" \in PCs /\ "adding" \in PCs
    BY DEF Workers, PCs
  <1>1. PICK valid \in SUBSET catalog :
            /\ Validation(valid)
            /\ Concludes("restbusWriter", valid)
            /\ own' = valid \cap ToCan
            /\ Goes("restbusWriter", IF own' = {} THEN "idle" ELSE "adding")
    BY DEF WriterValidates
  <1>2. PICK l \in {"idle", "adding"} : Goes("restbusWriter", l)
    BY <1>1
  <1>3. TypeOK'
    <2>1. pc' \in [Workers -> PCs]
      BY <1>0, <1>2, GoesType DEF IInv
    <2>2. faults' \in 0..MaxFaults
      BY <1>1, FaultType DEF IInv, TypeOK, Validation
    <2>3. own' \subseteq ToCan /\ behind' \subseteq Validators
      BY <1>1 DEF IInv, TypeOK, Concludes, Validators
    <2> QED BY <2>1, <2>2, <2>3 DEF IInv, TypeOK, WriterValidates, published
  <1>4. PhaseIsTrue'
    <2>1. \A phase : ~InPhase("restbusWriter", pc["restbusWriter"], phase)
      BY DEF WriterValidates, InPhase
    <2> QED BY <1>0, <1>2, <2>1, MoveKeepsPhases DEF IInv, WriterValidates
  <1>5. Current'
    <2>1. /\ UNCHANGED <<skipped, active, changed, catalog, severed>>
          /\ behind' = IF valid = catalog THEN behind \ {"restbusWriter"}
                       ELSE behind \cup {"restbusWriter"}
      BY <1>1 DEF WriterValidates, Concludes, published
    <2>2. Validated("canReader")' <=> Validated("canReader")
      BY <1>2 DEF IInv, TypeOK, Goes, Validated, Workers
    <2>3. ReaderUpToDate'
      BY <2>1, <2>2 DEF IInv, ReaderUpToDate
    <2>4. ReaderKnows'
      <3>1. "canReader" \in behind' <=> "canReader" \in behind
        BY <2>1
      <3> QED BY <2>1, <2>2, <3>1 DEF IInv, ReaderKnows
    <2>5. WriterKnows'
      BY <1>1, <2>1 DEF WriterKnows
    <2> QED BY <2>3, <2>4, <2>5 DEF Current
  <1> QED BY <1>3, <1>4, <1>5, InvariantParts

LEMMA WriterAddsStep ==
    ASSUME IInv, WriterAdds
    PROVE  IInv'
  <1>0. /\ "restbusWriter" \in Workers /\ "writing" \in PCs /\ "writing restbus" \in AllPhases
        /\ InPhase("restbusWriter", "writing", "writing restbus")
    BY DEF Workers, PCs, AllPhases, InPhase
  <1>1. TypeOK'
    <2>1. /\ pc' \in [Workers -> PCs]
          /\ peers' \in [Peers -> [connected : BOOLEAN, phase : AllPhases]]
      BY <1>0, AnnouncesType DEF IInv, WriterAdds
    <2> QED BY <2>1 DEF IInv, TypeOK, WriterAdds, Steady, mapping, published
  <1>2. PhaseIsTrue'
    BY <1>0, AnnounceKeepsPhases DEF IInv, WriterAdds
  <1>3. Current'
    <2>1. \A w \in Validators :
              Validated(w)' => Validated(w) /\ (w \in severed => w \in severed')
      BY DEF WriterAdds, Announces, Goes, Steady, IInv, TypeOK, Validated, Validators, Workers
    <2> QED BY <2>1, CurrentStays DEF WriterAdds, Steady
  <1> QED BY <1>1, <1>2, <1>3, InvariantParts

LEMMA WriterConnectsStep ==
    ASSUME IInv, WriterConnects
    PROVE  IInv'
  <1>0. /\ "kuksaWriter" \in Workers /\ "writing" \in PCs /\ "writing" \in AllPhases
        /\ InPhase("kuksaWriter", "writing", "writing")
    BY DEF Workers, PCs, AllPhases, InPhase
  <1>1. TypeOK'
    <2>1. /\ pc' \in [Workers -> PCs]
          /\ peers' \in [Peers -> [connected : BOOLEAN, phase : AllPhases]]
      BY <1>0, AnnouncesType DEF IInv, WriterConnects
    <2> QED BY <2>1 DEF IInv, TypeOK, WriterConnects, Steady, mapping, published
  <1>2. PhaseIsTrue'
    BY <1>0, AnnounceKeepsPhases DEF IInv, WriterConnects
  <1>3. Current'
    BY <1>0, CurrentStaysOnMove DEF WriterConnects, Announces, Steady, Validators
  <1> QED BY <1>1, <1>2, <1>3, InvariantParts

LEMMA TargetsConnectStep ==
    ASSUME IInv, TargetsConnect
    PROVE  IInv'
  <1>0. /\ "targetReader" \in Workers /\ "seeding" \in PCs /\ "reading targets" \in AllPhases
        /\ InPhase("targetReader", "seeding", "reading targets")
    BY DEF Workers, PCs, AllPhases, InPhase
  <1>1. TypeOK'
    <2>1. /\ pc' \in [Workers -> PCs]
          /\ peers' \in [Peers -> [connected : BOOLEAN, phase : AllPhases]]
      BY <1>0, AnnouncesType DEF IInv, TargetsConnect
    <2> QED BY <2>1 DEF IInv, TypeOK, TargetsConnect, Steady, mapping, published
  <1>2. PhaseIsTrue'
    BY <1>0, AnnounceKeepsPhases DEF IInv, TargetsConnect
  <1>3. Current'
    BY <1>0, CurrentStaysOnMove DEF TargetsConnect, Announces, Steady, Validators
  <1> QED BY <1>1, <1>2, <1>3, InvariantParts

LEMMA TargetsSubscribeStep ==
    ASSUME IInv, TargetsSubscribe
    PROVE  IInv'
  <1>0. "targetReader" \in Workers /\ "subscribed" \in PCs
    BY DEF Workers, PCs
  <1>1. TypeOK'
    <2>1. pc' \in [Workers -> PCs]
      BY <1>0, GoesType DEF IInv, TargetsSubscribe
    <2>2. branch' \in [Protocols -> BranchStates]
      BY DEF TargetsSubscribe, BranchStates
    <2> QED BY <2>1, <2>2 DEF IInv, TypeOK, TargetsSubscribe, mapping, published
  <1>2. PhaseIsTrue'
    <2>1. \A phase : InPhase("targetReader", pc["targetReader"], phase) =>
                         InPhase("targetReader", "subscribed", phase)
      BY DEF TargetsSubscribe, InPhase
    <2> QED BY <1>0, <2>1, MoveKeepsPhases DEF IInv, TargetsSubscribe
  <1>3. Current'
    BY <1>0, CurrentStaysOnMove DEF TargetsSubscribe, Validators
  <1> QED BY <1>1, <1>2, <1>3, InvariantParts

LEMMA TargetFailsStep ==
    ASSUME IInv, NEW x \in Protocols, TargetFails(x)
    PROVE  IInv'
  <1>1. TypeOK'
    <2>1. peers' \in [Peers -> [connected : BOOLEAN, phase : AllPhases]]
      BY RecordReconnectType DEF IInv, TargetFails, Peers
    <2>2. branch' \in [Protocols -> BranchStates]
      BY DEF IInv, TypeOK, TargetFails, BranchStates
    <2>3. faults' \in 0..MaxFaults
      BY FaultType DEF IInv, TypeOK, TargetFails
    <2> QED BY <2>1, <2>2, <2>3 DEF IInv, TypeOK, TargetFails, mapping, published
  <1>2. PhaseIsTrue'
    <2> SUFFICES ASSUME NEW p \in Peers, peers'[p].connected
                 PROVE  \E v \in Workers : PeerOf(v) = p /\ InPhase(v, pc[v], peers'[p].phase)
      BY Zenon DEF PhaseIsTrue, TargetFails
    <2>1. peers'[p] = peers[p]
      BY DEF IInv, TypeOK, TargetFails, RecordReconnect, Peers
    <2> QED BY <2>1 DEF IInv, PhaseIsTrue
  <1>3. Current'
    <2>1. \A w \in Validators :
              Validated(w)' => Validated(w) /\ (w \in severed => w \in severed')
      BY DEF TargetFails, Validated
    <2> QED BY <2>1, CurrentStays DEF TargetFails
  <1> QED BY <1>1, <1>2, <1>3, InvariantParts

LEMMA TargetEndsStep ==
    ASSUME IInv, NEW x \in Protocols, TargetEnds(x)
    PROVE  IInv'
  <1>1. TypeOK'
    <2>1. branch' \in [Protocols -> BranchStates]
      BY DEF IInv, TypeOK, TargetEnds, BranchStates
    <2>2. faults' \in 0..MaxFaults
      BY FaultType DEF IInv, TypeOK, TargetEnds
    <2> QED BY <2>1, <2>2 DEF IInv, TypeOK, TargetEnds, mapping, published
  <1>2. PhaseIsTrue'
    BY Zenon DEF IInv, PhaseIsTrue, TargetEnds
  <1>3. Current'
    <2>1. \A w \in Validators :
              Validated(w)' => Validated(w) /\ (w \in severed => w \in severed')
      BY DEF TargetEnds, Validated
    <2> QED BY <2>1, CurrentStays DEF TargetEnds
  <1> QED BY <1>1, <1>2, <1>3, InvariantParts

LEMMA TargetsEndStep ==
    ASSUME IInv, TargetsEnd
    PROVE  IInv'
  <1>0. /\ "targetReader" \in Workers /\ "backoff" \in PCs /\ "reconnecting" \in AllPhases
        /\ "kuksa" \in Peers /\ PeerOf("targetReader") = "kuksa"
    BY DEF Workers, PCs, AllPhases, Peers, PeerOf, Validators
  <1>1. TypeOK'
    <2>1. pc' \in [Workers -> PCs]
      BY <1>0, GoesType DEF IInv, TargetsEnd
    <2>2. peers' \in [Peers -> [connected : BOOLEAN, phase : AllPhases]]
      BY <1>0, SetPeerType DEF IInv, TargetsEnd
    <2>3. branch' \in [Protocols -> BranchStates]
      BY DEF TargetsEnd, NoBranches, BranchStates
    <2> QED BY <2>1, <2>2, <2>3 DEF IInv, TypeOK, TargetsEnd, mapping, published
  <1>2. PhaseIsTrue'
    BY <1>0, DisconnectKeepsPhases DEF IInv, TargetsEnd
  <1>3. Current'
    BY <1>0, CurrentStaysOnMove DEF TargetsEnd, Validators
  <1> QED BY <1>1, <1>2, <1>3, InvariantParts

\* A restart makes changed non-empty, and so the reader's result outdated.
LEMMA RestartsStep ==
    ASSUME IInv, NEW p \in Peers, Restarts(p)
    PROVE  IInv'
  <1>1. TypeOK'
    <2>1. faults' \in 0..MaxFaults
      BY FaultType DEF IInv, TypeOK, Restarts
    <2>2. severed' \subseteq Workers
      BY DEF IInv, TypeOK, Restarts, ConnectedTo
    <2>3. behind' \subseteq Validators
      BY DEF IInv, TypeOK, Restarts
    <2> QED BY <2>1, <2>2, <2>3 DEF IInv, TypeOK, Restarts
  <1>2. PhaseIsTrue'
    BY Zenon DEF IInv, PhaseIsTrue, Restarts
  <1>3. Current'
    <2>1. p = "remotive" \/ behind' = Validators
      BY DEF Restarts, Peers
    <2>2. \A w \in Validators : Validated(w) => w \in severed' \cup behind'
      BY <2>1 DEF Restarts, ConnectedTo, Validated, PeerOf, Validators, Workers
    <2>3. "canReader" \in Validators /\ "restbusWriter" \in Validators
      BY DEF Validators
    <2>4. Validated("canReader")' <=> Validated("canReader")
      BY DEF Restarts, Validated
    <2>5. Validated("restbusWriter")' <=> Validated("restbusWriter")
      BY DEF Restarts, Validated
    <2>6. changed' # {}
      BY DEF Restarts
    <2> QED BY <2>2, <2>3, <2>4, <2>5, <2>6
            DEF Current, ReaderUpToDate, ReaderKnows, WriterKnows
  <1> QED BY <1>1, <1>2, <1>3, InvariantParts

LEMMA StutterStep ==
    ASSUME IInv, UNCHANGED vars
    PROVE  IInv'
  <1>1. TypeOK'
    BY DEF IInv, TypeOK, vars, mapping, published
  <1>2. PhaseIsTrue'
    BY Zenon DEF IInv, PhaseIsTrue, vars
  <1>3. Current'
    <2>1. \A w \in Validators :
              Validated(w)' => Validated(w) /\ (w \in severed => w \in severed')
      BY DEF vars, Validated
    <2> QED BY <2>1, CurrentStays DEF vars
  <1> QED BY <1>1, <1>2, <1>3, InvariantParts

-----------------------------------------------------------------------------

\* The inductive invariant holds (state.py 136-149 and 200-215, as called by
\* the four workers).
THEOREM InvariantHolds == Spec => []IInv
  <1>1. IInv /\ [Next]_vars => IInv'
    <2> SUFFICES ASSUME IInv, [Next]_vars PROVE IInv'
      OBVIOUS
    <2>1. CASE CanReader
      <3>1. "canReader" \in Workers
        BY DEF Workers
      <3> QED BY <2>1, <3>1, BrokerConnectsStep, ReaderValidatesStep, ReaderStreamsStep
              DEF CanReader
    <2>2. CASE KuksaWriter
      BY <2>2, WriterConnectsStep DEF KuksaWriter
    <2>3. CASE TargetReader
      BY <2>3, TargetsConnectStep, TargetsSubscribeStep, TargetsEndStep DEF TargetReader
    <2>4. CASE RestbusWriter
      <3>1. "restbusWriter" \in Workers
        BY DEF Workers
      <3> QED BY <2>4, <3>1, BrokerConnectsStep, WriterValidatesStep, WriterAddsStep
              DEF RestbusWriter
    <2>5. CASE ReaderStreamEnds
      BY <2>5, ReaderStreamEndsStep
    <2>6. CASE \E w \in Workers : Fails(w) \/ Retry(w)
      BY <2>6, FailsStep, RetryStep
    <2>7. CASE \E x \in Protocols : TargetFails(x) \/ TargetEnds(x)
      BY <2>7, TargetFailsStep, TargetEndsStep
    <2>8. CASE \E p \in Peers : Restarts(p)
      BY <2>8, RestartsStep
    <2>9. CASE UNCHANGED vars
      BY <2>9, StutterStep
    <2> QED BY <2>1, <2>2, <2>3, <2>4, <2>5, <2>6, <2>7, <2>8, <2>9 DEF Next
  <1> QED BY <1>1, InitImpliesIInv, PTL DEF Spec

\* Type correctness of the workers, the flags and what is published.
THEOREM TypeCorrect == Spec => []TypeOK
  BY InvariantHolds, PTL DEF IInv

\* The phase of a connected peer is that of one of its workers.
THEOREM PhasesAreTrue == Spec => []PhaseIsTrue
  BY InvariantHolds, PTL DEF IInv

\* While the reader streams and no peer has restarted, ok means that the peers
\* support every entry.
THEOREM OkIsSupported == Spec => []OkMeansSupported
  <1>1. IInv => OkMeansSupported
    BY DEF IInv, ReaderUpToDate, OkMeansSupported, Status, Validated
  <1> QED BY <1>1, InvariantHolds, PTL

\* Whenever the reader and the restbus writer are both past their validations,
\* uncut and not behind, /stats counts what the writer writes.
THEOREM StatsAreTrueOfTheWriter == Spec => []StatsMatchWriter
  <1>1. IInv => StatsMatchWriter
    BY DEF IInv, ReaderKnows, WriterKnows, StatsMatchWriter, Validators
  <1> QED BY <1>1, InvariantHolds, PTL
=============================================================================
