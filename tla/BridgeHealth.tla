---------------------------- MODULE BridgeHealth ----------------------------
(***************************************************************************)
(* What /health and /stats say of the bridge (BridgeState in state.py 136- *)
(* 149 and 200-258), against what its four workers do.  Two workers share  *)
(* the connected flag and the phase of each peer, and of the two that      *)
(* validate the mapping only the CAN reader publishes the result.          *)
(*                                                                         *)
(* A worker is reduced to the awaits between which it calls set_peer,      *)
(* record_reconnect or replace_validation.  reconnects, errors and         *)
(* last_error only count the calls of record_reconnect and are left out.   *)
(***************************************************************************)
EXTENDS Naturals

CONSTANTS
    ToVss, ToCan,  \* entries of the two sections that the parser kept
    Malformed,     \* entries it skipped
    Catalogs,      \* the sets of kept entries that vehicle and KUKSA may support
    MaxFaults      \* bound: failures, ended streams, restarts, failed probes

Entries == ToVss \cup ToCan

ASSUME SectionsAssumption == ToVss \cap ToCan = {} /\ Malformed \cap Entries = {}
ASSUME CatalogsAssumption == Catalogs \subseteq SUBSET Entries /\ ToCan # {}
ASSUME MaxFaultsAssumption == MaxFaults \in Nat

VARIABLES
    pc,       \* where each worker is suspended
    branch,   \* the two target streams of the target reader
    peers,    \* _PeerState: connected flag and phase of each peer
    skipped,  \* published: entries skipped
    active,   \* published: entries whose number is served as active
    own,      \* to_can entries that the restbus writer writes, published nowhere
    catalog,  \* the kept entries that both peers support now
    severed,  \* workers whose connection the restart of a peer has cut
    changed,  \* history: peers restarted since the mapping was last published
    behind,   \* history: workers whose last validation missed an entry, or was
              \* overtaken by a restart of KUKSA
    faults

published == <<skipped, active, changed>>
mapping == <<published, own, behind>>
vars == <<pc, branch, peers, mapping, catalog, severed, faults>>

Peers == {"remotive", "kuksa"}
Protocols == {"v1", "v2"}
Workers == {"canReader", "kuksaWriter", "targetReader", "restbusWriter"}
Validators == {"canReader", "restbusWriter"}

PeerOf(w) == IF w \in Validators THEN "remotive" ELSE "kuksa"

PCs == {"connecting", "validating", "seeding", "streaming", "subscribed", "adding",
        "writing", "idle", "backoff"}
AllPhases == {"starting", "reconnecting", "seeding", "streaming", "idle", "writing",
              "reading targets", "writing restbus"}
BranchStates == {"none", "open", "dormant", "failed", "ended"}

TypeOK ==
    /\ pc \in [Workers -> PCs]
    /\ branch \in [Protocols -> BranchStates]
    /\ peers \in [Peers -> [connected : BOOLEAN, phase : AllPhases]]
    /\ skipped \subseteq Entries \cup Malformed
    /\ active \subseteq Entries /\ own \subseteq ToCan
    /\ catalog \in Catalogs
    /\ severed \subseteq Workers /\ behind \subseteq Validators
    /\ changed \subseteq Peers
    /\ faults \in 0..MaxFaults

NoBranches == [x \in Protocols |-> "none"]

\* run publishes what the parser skipped before it starts the workers.
Init ==
    /\ pc = [w \in Workers |-> "connecting"]
    /\ branch = NoBranches
    /\ peers = [p \in Peers |-> [connected |-> FALSE, phase |-> "starting"]]
    /\ skipped = Malformed
    /\ active = Entries /\ own = {}
    /\ catalog \in Catalogs
    /\ severed = {} /\ changed = {} /\ behind = {}
    /\ faults = 0

Fault == faults < MaxFaults /\ faults' = faults + 1

-----------------------------------------------------------------------------
(* Methods of BridgeState.                                                 *)

SetPeer(p, up, phase) ==
    peers' = [peers EXCEPT ![p] = [connected |-> up, phase |-> phase]]

\* A bug: the flag survives the error that is recorded.
RecordErrorOnly(p) == UNCHANGED peers

RecordReconnect(p) == peers' = [peers EXCEPT ![p].connected = FALSE]

\* A bug: publish what was skipped of the caller's section only.
PublishOwnSection(valid) ==
    /\ skipped' = ToVss \ valid
    /\ active' = valid

ReplaceValidation(valid) ==
    /\ skipped' = Entries \ valid
    /\ active' = valid

Status == IF (\A p \in Peers : peers[p].connected) /\ skipped = {}
          THEN "ok" ELSE "degraded"

-----------------------------------------------------------------------------
(* Steps that the workers have in common.                                  *)

Goes(w, l) == pc' = [pc EXCEPT ![w] = l]

\* Goes on to l and announces its peer as connected.
Announces(w, l, phase) == Goes(w, l) /\ SetPeer(PeerOf(w), TRUE, phase)

\* The result of validate_mapping: what both peers support, less the paths
\* whose metadata probe failed for another reason than their absence.
Validation(valid) ==
    \/ valid = catalog /\ UNCHANGED faults
    \/ valid \in SUBSET catalog \ {catalog} /\ Fault

Concludes(w, valid) ==
    behind' = IF valid = catalog THEN behind \ {w} ELSE behind \cup {w}

\* The exception handler of every loop; a cut connection needs no new fault.
Fails(w) ==
    /\ pc[w] \notin {"backoff", "idle", "subscribed"}
    /\ (w \in severed /\ UNCHANGED faults) \/ Fault
    /\ severed' = severed \ {w}
    /\ Goes(w, "backoff")
    /\ RecordReconnect(PeerOf(w))
    /\ UNCHANGED <<branch, mapping, catalog>>

\* The end of a sleep of retry_delay, in the idle case with the connection
\* open and given up after it.
Retry(w) ==
    /\ pc[w] \in {"backoff", "idle"}
    /\ Goes(w, "connecting")
    /\ severed' = severed \ {w}
    /\ UNCHANGED <<branch, peers, mapping, catalog, faults>>

Steady == UNCHANGED <<branch, mapping, catalog, severed, faults>>

-----------------------------------------------------------------------------
(* run_remotive_reader and run_remotive_restbus_writer.                    *)

\* A bug: the mapping is validated once and kept over reconnections.
BrokerConnectsValidated(w) ==
    /\ w \in Validators /\ pc[w] = "connecting"
    /\ Goes(w, IF w = "canReader" /\ peers["remotive"].phase # "starting"
               THEN "seeding" ELSE "validating")
    /\ UNCHANGED peers /\ Steady

\* The broker answers; validation uses a KUKSA connection of its own.
BrokerConnects(w) ==
    /\ w \in Validators /\ pc[w] = "connecting"
    /\ Goes(w, "validating")
    /\ UNCHANGED peers /\ Steady

\* Publishes the result, then seeds, or idles if no to_vss entry is left.
ReaderValidates ==
    /\ pc["canReader"] = "validating" /\ "canReader" \notin severed
    /\ \E valid \in SUBSET catalog :
          /\ Validation(valid)
          /\ ReplaceValidation(valid)
          /\ Concludes("canReader", valid)
          /\ IF valid \cap ToVss = {}
             THEN Announces("canReader", "idle", "idle")
             ELSE Announces("canReader", "seeding", "seeding")
    /\ changed' = {}
    /\ UNCHANGED <<branch, own, catalog, severed>>

\* The seed times out.
ReaderStreams ==
    /\ pc["canReader"] = "seeding"
    /\ Announces("canReader", "streaming", "streaming")
    /\ Steady

\* A stream that ends without raising is no error, but backs off all the same.
ReaderStreamEnds ==
    /\ pc["canReader"] = "streaming" /\ "canReader" \notin severed /\ Fault
    /\ Goes("canReader", "backoff")
    /\ SetPeer("remotive", FALSE, "reconnecting")
    /\ UNCHANGED <<branch, mapping, catalog, severed>>

\* A bug: the index made on the first connection is kept.
WriterKeepsIndex ==
    /\ pc["restbusWriter"] = "validating" /\ "restbusWriter" \notin severed
    /\ \E valid \in SUBSET catalog :
          /\ Validation(valid)
          /\ Concludes("restbusWriter", valid)
          /\ own' = IF own = {} THEN valid \cap ToCan ELSE own
          /\ Goes("restbusWriter", IF own' = {} THEN "idle" ELSE "adding")
    /\ UNCHANGED <<branch, peers, published, catalog, severed>>

\* The writer keeps its result to itself, and says nothing when it idles.
WriterValidates ==
    /\ pc["restbusWriter"] = "validating" /\ "restbusWriter" \notin severed
    /\ \E valid \in SUBSET catalog :
          /\ Validation(valid)
          /\ Concludes("restbusWriter", valid)
          /\ own' = valid \cap ToCan
          /\ Goes("restbusWriter", IF own' = {} THEN "idle" ELSE "adding")
    /\ UNCHANGED <<branch, peers, published, catalog, severed>>

WriterAdds ==
    /\ pc["restbusWriter"] = "adding" /\ "restbusWriter" \notin severed
    /\ Announces("restbusWriter", "writing", "writing restbus")
    /\ Steady

-----------------------------------------------------------------------------
(* run_kuksa_current_writer and run_kuksa_target_reader.                   *)

\* A bug: the writer relies on the target reader to announce KUKSA.
WriterConnectsUnannounced ==
    /\ pc["kuksaWriter"] = "connecting"
    /\ Goes("kuksaWriter", "writing")
    /\ UNCHANGED peers /\ Steady

WriterConnects ==
    /\ pc["kuksaWriter"] = "connecting"
    /\ Announces("kuksaWriter", "writing", "writing")
    /\ Steady

TargetsConnect ==
    /\ pc["targetReader"] = "connecting"
    /\ Announces("targetReader", "seeding", "reading targets")
    /\ Steady

\* The streams are opened; a databroker serves one of them at least.
TargetsSubscribe ==
    /\ pc["targetReader"] = "seeding" /\ "targetReader" \notin severed
    /\ Goes("targetReader", "subscribed")
    /\ branch' \in [Protocols -> {"open", "dormant"}] \ {[x \in Protocols |-> "dormant"]}
    /\ UNCHANGED <<peers, mapping, catalog, severed, faults>>

\* guard records the failure of its stream on the peer and returns.
TargetFails(x) ==
    /\ branch[x] = "open"
    /\ ("targetReader" \in severed /\ UNCHANGED faults) \/ Fault
    /\ branch' = [branch EXCEPT ![x] = "failed"]
    /\ RecordReconnect("kuksa")
    /\ UNCHANGED <<pc, mapping, catalog, severed>>

TargetEnds(x) ==
    /\ branch[x] = "open" /\ "targetReader" \notin severed /\ Fault
    /\ branch' = [branch EXCEPT ![x] = "ended"]
    /\ UNCHANGED <<pc, peers, mapping, catalog, severed>>

TargetsEnd ==
    /\ pc["targetReader"] = "subscribed" /\ \A x \in Protocols : branch[x] # "open"
    /\ Goes("targetReader", "backoff")
    /\ branch' = NoBranches
    /\ SetPeer("kuksa", FALSE, "reconnecting")
    /\ severed' = severed \ {"targetReader"}
    /\ UNCHANGED <<mapping, catalog, faults>>

-----------------------------------------------------------------------------
(* A peer restarts, perhaps rebuilt, and cuts every connection to it.      *)

ConnectedTo(p) ==
    {w \in Workers :
        \/ PeerOf(w) = p /\ pc[w] \notin {"connecting", "backoff"}
        \/ p = "kuksa" /\ pc[w] = "validating"}

Restarts(p) ==
    /\ Fault
    /\ catalog' \in Catalogs
    /\ severed' = severed \cup ConnectedTo(p)
    /\ changed' = changed \cup {p}
    /\ behind' = IF p = "kuksa" THEN Validators ELSE behind
    /\ UNCHANGED <<pc, branch, peers, skipped, active, own>>

CanReader == BrokerConnects("canReader") \/ ReaderValidates \/ ReaderStreams
KuksaWriter == WriterConnects
TargetReader == TargetsConnect \/ TargetsSubscribe \/ TargetsEnd
RestbusWriter == BrokerConnects("restbusWriter") \/ WriterValidates \/ WriterAdds

Next ==
    \/ CanReader \/ KuksaWriter \/ TargetReader \/ RestbusWriter
    \/ ReaderStreamEnds
    \/ \E w \in Workers : Fails(w) \/ Retry(w)
    \/ \E x \in Protocols : TargetFails(x) \/ TargetEnds(x)
    \/ \E p \in Peers : Restarts(p)

Spec == Init /\ [][Next]_vars

\* The event loop runs every worker, and peers that are up answer.  Whoever
\* waits for an answer or reads a stream notices that the connection is cut; a
\* writer at its flush loop only when it next writes, if ever.
Notices(w) == w \in severed /\ pc[w] # "writing" /\ Fails(w)

FairSpec ==
    /\ Spec
    /\ WF_vars(CanReader) /\ WF_vars(KuksaWriter)
    /\ WF_vars(TargetReader) /\ WF_vars(RestbusWriter)
    /\ \A w \in Workers : WF_vars(Retry(w) \/ Notices(w))
    /\ \A x \in Protocols : WF_vars("targetReader" \in severed /\ TargetFails(x))

-----------------------------------------------------------------------------
(* Properties.                                                             *)

\* A worker suspended at l is where it announced this phase; the CAN reader
\* keeps its idle phase while it reconnects.
InPhase(w, l, phase) ==
    \/ w = "canReader" /\ phase \in {"seeding", "streaming"} /\ l = phase
    \/ w = "canReader" /\ phase = "idle" /\ l \in {"idle", "connecting", "validating"}
    \/ w = "restbusWriter" /\ phase = "writing restbus" /\ l = "writing"
    \/ w = "kuksaWriter" /\ phase = "writing" /\ l = "writing"
    \/ w = "targetReader" /\ phase = "reading targets" /\ l \in {"seeding", "subscribed"}

\* A peer that /stats calls connected has a worker that is in the phase shown,
\* although two workers overwrite each other's flag and phase and the error
\* path changes only the first (state.py 136-149).
PhaseIsTrue ==
    \A p \in Peers : peers[p].connected =>
        \E w \in Workers : PeerOf(w) = p /\ InPhase(w, pc[w], peers[p].phase)

\* The published mapping is what the peers supported when it was validated,
\* as soon as no restart has come between: status cannot be ok on an entry
\* that both peers lack.
OkMeansSupported ==
    Status = "ok" /\ changed = {} /\ pc["canReader"] = "streaming" => catalog = Entries

\* Past the validation of its connection, with something to do or not.
Validated(w) ==
    pc[w] \in IF w = "canReader" THEN {"seeding", "streaming", "idle"} ELSE {"adding", "writing"}

\* The to_can entries that /stats counts as active are those that the restbus
\* writer writes, although each worker validates for itself, at its own time,
\* and only the reader publishes (remotive_to_vss.py 107-112 against
\* vss_to_remotive.py 281-317): whenever both are past their validation with
\* their connections uncut, unless a probe has failed in one of them or KUKSA
\* has restarted since the earlier.  In particular no restart of the broker, with
\* other signals or not, leaves the two with different mappings.
StatsMatchWriter ==
    /\ \A w \in Validators : Validated(w) /\ w \notin severed
    /\ behind = {}
    => active \cap ToCan = own

\* The inductive invariant: what the reader has published since the last
\* restart is what the peers support, if it skipped nothing; and what each of
\* the two has validated is what they support, unless it is cut or behind.
ReaderUpToDate ==
    Validated("canReader") /\ changed = {} /\ skipped = {} => catalog = Entries

ReaderKnows ==
    Validated("canReader") /\ "canReader" \notin severed \cup behind => active = catalog

WriterKnows ==
    Validated("restbusWriter") /\ "restbusWriter" \notin severed \cup behind =>
        own = catalog \cap ToCan

IInv == TypeOK /\ PhaseIsTrue /\ ReaderUpToDate /\ ReaderKnows /\ WriterKnows

\* README 567 for the broker: its restart leads to a new validation.
BrokerRestartRevalidates ==
    "remotive" \in changed ~> "remotive" \notin changed

\* What keeps a flag down although every worker of its peer is at work: a
\* target stream that failed while the other stays open; a restbus writer
\* that failed and then has nothing to write, as only then is it silent.
Unannounced(p) ==
    \/ p = "kuksa" /\ \E x \in Protocols : branch[x] = "failed"
    \/ p = "remotive" /\ catalog \cap ToCan = {}

\* When failures cease, each peer is shown as connected again, but for the
\* two cases above: no flag stays down by the order in which workers set it.
FlagsRecover ==
    \A p \in Peers : <>[](peers[p].connected \/ Unannounced(p))

\* README 556: "status is ok only when ... nothing was skipped".
OkMeansNothingSkipped == Status = "ok" => Malformed = {}

\* README 567: either peer restarting makes the validation run again.
KuksaRestartRevalidates == "kuksa" \in changed ~> "kuksa" \notin changed
=============================================================================
