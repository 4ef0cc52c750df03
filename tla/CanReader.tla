----------------------------- MODULE CanReader -----------------------------
(***************************************************************************)
(* Loop A end to end: the vehicle's CAN values, run_remotive_reader        *)
(* (remotive_to_vss.py 69-170) with its validation, seed and stream        *)
(* phases, and KUKSA.  The hand-off between the reader and the KUKSA       *)
(* writer is the register that HandOff is shown to implement: the writer   *)
(* delivers what was handed last, when KUKSA is up.                        *)
(*                                                                         *)
(* The value of a signal is the number of times it has changed (KUKSA is   *)
(* taken to show the value before the first change already); the pairs     *)
(* in Bad are values that can_to_vss refuses with a TransformError.  The   *)
(* text of the error holds the raw value, so such a pair is also the key   *)
(* under which state.record_drop counts the drop.                          *)
(***************************************************************************)
EXTENDS Naturals, FiniteSets, FiniteSetsExt, SequencesExt

CONSTANTS
    Signals,     \* mapped CAN signals, each with its own VSS path
    Frames,      \* frames with a cycle time: sets of signals
    Bad,         \* untransformable values: subset of Signals \X Nat
    MaxTracked,  \* state.py _MAX_TRACKED_DROPS
    MaxChanges,  \* bound: changes of each CAN value
    MaxSeed,     \* bound: seed batches waiting in the stream
    MaxDrops,    \* bound: drops before seed frames with bad values stop
    MaxFaults    \* bound: lost connections, empty validations, KUKSA outages

ASSUME SignalsAssumption == IsFiniteSet(Signals)
ASSUME FramesAssumption == Frames \subseteq SUBSET Signals
ASSUME BadAssumption == Bad \subseteq Signals \X (Nat \ {0})
ASSUME BoundsAssumption ==
    MaxTracked \in Nat /\ MaxChanges \in Nat /\ MaxSeed \in Nat /\ MaxDrops \in Nat
        /\ MaxFaults \in Nat

VARIABLES
    can,      \* vehicle: current value of each signal
    kuksaUp,  \* the databroker answers
    pc,       \* where the reader is suspended
    mapped,   \* signals of validated.to_vss on this connection
    inbox,    \* batches the broker has sent on the open stream
    handed,   \* last value given to put_latest, per signal
    pending,  \* signals put since the last successful write
    inVss,    \* last value of the mapped path that KUKSA accepted
    drops,    \* state: total of drops in this direction
    tracked,  \* state: count of each entry and reason, up to MaxTracked of them
    refused,  \* history: how often handle met each bad value
    missed,   \* history: signals out of date when the stream phase began
    lost,     \* history: values a restart of KUKSA erased, not put again since
    faults

link == <<can, kuksaUp, pc, mapped>>
log == <<drops, tracked, refused>>
vss == <<inVss, pending, lost>>
vars == <<can, kuksaUp, pc, mapped, inbox, handed, vss, log, missed, faults>>

Connected == {"validating", "opening", "seeding", "subscribing", "streaming"}
PCs == Connected \cup {"connecting", "idle", "backoff"}

Values == [Signals -> 0..MaxChanges]
Batches == UNION {[S -> 0..MaxChanges] : S \in SUBSET Signals}

TypeOK ==
    /\ can \in Values /\ handed \in Values /\ inVss \in Values
    /\ kuksaUp \in BOOLEAN
    /\ pc \in PCs
    /\ mapped \subseteq Signals /\ pending \subseteq Signals
    /\ missed \subseteq Signals /\ lost \subseteq Signals
    /\ drops \in Nat /\ refused \in [Bad -> Nat]
    /\ DOMAIN tracked \subseteq Bad /\ \A k \in DOMAIN tracked : tracked[k] \in Nat
    /\ inbox \in Seq(Batches)
    /\ faults \in 0..MaxFaults

Unchanged == [s \in Signals |-> 0]

Init ==
    /\ can = Unchanged /\ handed = Unchanged /\ inVss = Unchanged
    /\ kuksaUp \in BOOLEAN
    /\ pc = "connecting"
    /\ mapped = {} /\ missed = {} /\ inbox = <<>>
    /\ pending = {} /\ lost = {}
    /\ drops = 0 /\ tracked = [k \in {} |-> 0] /\ refused = [k \in Bad |-> 0]
    /\ faults = 0

Fault == faults < MaxFaults /\ faults' = faults + 1

Good(s, v) == <<s, v>> \notin Bad

\* The value VSS should show for s: the last one that can be transformed.
Wanted(s) == Max({v \in 0..can[s] : Good(s, v)})

-----------------------------------------------------------------------------
(* handle(batch): skip what is not mapped, drop what cannot be transformed,*)
(* put the rest.                                                           *)

\* A bug: one TransformError loses the whole batch.
HandledAllOrNothing(values, batch) ==
    IF \E s \in DOMAIN batch : s \in mapped /\ ~Good(s, batch[s])
    THEN values
    ELSE [s \in Signals |-> IF s \in DOMAIN batch \cap mapped THEN batch[s] ELSE values[s]]

Handled(values, batch) ==
    [s \in Signals |-> IF s \in DOMAIN batch \cap mapped /\ Good(s, batch[s])
                       THEN batch[s] ELSE values[s]]

\* record_drop for the bad values of one batch, in the order of the batch:
\* known entries count on, new ones are tracked while there is room.
Count(f, D) == [k \in DOMAIN f |-> IF k \in D THEN f[k] + 1 ELSE f[k]]
Tracking(f, T, D) == Count([k \in DOMAIN f \cup T |-> IF k \in DOMAIN f THEN f[k] ELSE 0], D)

\* A bug: the cap is looked at first, so that at the cap nothing counts on.
RecordDropsCapFirst(D) ==
    LET new == D \ DOMAIN tracked
        room == MaxTracked - Cardinality(DOMAIN tracked)
    IN  /\ drops' = drops + Cardinality(D)
        /\ refused' = Count(refused, D)
        /\ \E T \in kSubset(Min({room, Cardinality(new)}), new) :
               tracked' = IF room = 0 THEN tracked ELSE Tracking(tracked, T, D)

RecordDrops(D) ==
    LET new == D \ DOMAIN tracked
        room == MaxTracked - Cardinality(DOMAIN tracked)
    IN  /\ drops' = drops + Cardinality(D)
        /\ refused' = Count(refused, D)
        /\ \E T \in kSubset(Min({room, Cardinality(new)}), new) :
               tracked' = Tracking(tracked, T, D)

-----------------------------------------------------------------------------
(* The reader.                                                             *)

BrokerConnects ==
    /\ pc = "connecting"
    /\ pc' = "validating"
    /\ UNCHANGED <<can, kuksaUp, mapped, inbox, handed, vss, log, missed, faults>>

\* A KUKSA connection, used for the validation alone.
Validates ==
    /\ pc = "validating" /\ kuksaUp
    /\ \E m \in SUBSET Signals \ {{}} : mapped' = m
    /\ pc' = "opening"
    /\ UNCHANGED <<can, kuksaUp, inbox, handed, vss, log, missed, faults>>

\* No to_vss mapping survives: sleep, then validate on a new connection.
ValidatesNothing ==
    /\ pc = "validating" /\ kuksaUp /\ Fault
    /\ mapped' = {}
    /\ pc' = "idle"
    /\ UNCHANGED <<can, kuksaUp, inbox, handed, vss, log, missed>>

ValidationFails ==
    /\ pc = "validating" /\ ~kuksaUp
    /\ pc' = "backoff"
    /\ UNCHANGED <<can, kuksaUp, mapped, inbox, handed, vss, log, missed, faults>>

\* subscribe(on_change=False)
OpensSeed ==
    /\ pc = "opening"
    /\ pc' = "seeding"
    /\ UNCHANGED <<can, kuksaUp, mapped, inbox, handed, vss, log, missed, faults>>

\* seed_seconds have passed, or the broker ended the seed stream; what is
\* still in it is never handled.
SeedEnds ==
    /\ pc = "seeding"
    /\ inbox' = <<>>
    /\ pc' = "subscribing"
    /\ UNCHANGED <<can, kuksaUp, mapped, handed, vss, log, missed, faults>>

\* subscribe(on_change=True)
Streams ==
    /\ pc = "subscribing"
    /\ pc' = "streaming"
    /\ missed' = {s \in Signals : handed[s] # Wanted(s)}
    /\ UNCHANGED <<can, kuksaUp, mapped, inbox, handed, vss, log, faults>>

\* put_latest of what was transformed, record_drop of what was not.
Hands(batch) ==
    LET known == DOMAIN batch \cap mapped
        put == {s \in known : Good(s, batch[s])}
    IN  /\ handed' = Handled(handed, batch)
        /\ pending' = pending \cup put
        /\ lost' = lost \ put
        /\ RecordDrops({<<s, batch[s]>> : s \in known \ put})

\* Bugs of the drain loop: newest batch first; a reader that shares its
\* connection scope with KUKSA.
HandleNewestFirst ==
    /\ pc \in {"seeding", "streaming"} /\ inbox # <<>>
    /\ Hands(Last(inbox))
    /\ inbox' = Front(inbox)
    /\ UNCHANGED <<link, inVss, missed, faults>>
HandleNeedsKuksa ==
    /\ pc \in {"seeding", "streaming"} /\ inbox # <<>> /\ kuksaUp
    /\ Hands(Head(inbox))
    /\ inbox' = Tail(inbox)
    /\ UNCHANGED <<link, inVss, missed, faults>>

\* One round of _drain_batches: the whole batch without a suspension.
Handle ==
    /\ pc \in {"seeding", "streaming"} /\ inbox # <<>>
    /\ Hands(Head(inbox))
    /\ inbox' = Tail(inbox)
    /\ UNCHANGED <<link, inVss, missed, faults>>

\* The broker connection raises, or the change stream ends by itself.
ConnectionLost ==
    /\ pc \in Connected /\ Fault
    /\ pc' = "backoff"
    /\ inbox' = <<>>
    /\ UNCHANGED <<can, kuksaUp, mapped, handed, vss, log, missed>>

\* A bug: a reader with nothing to subscribe to stays idle for good.
RetryUnlessIdle ==
    /\ pc = "backoff"
    /\ pc' = "connecting"
    /\ UNCHANGED <<can, kuksaUp, mapped, inbox, handed, vss, log, missed, faults>>

Retry ==
    /\ pc \in {"idle", "backoff"}
    /\ pc' = "connecting"
    /\ UNCHANGED <<can, kuksaUp, mapped, inbox, handed, vss, log, missed, faults>>

-----------------------------------------------------------------------------
(* The vehicle, the broker and KUKSA.                                      *)

\* Some signals change together; the change stream carries them in a batch.
CanChanges(S) ==
    /\ \A s \in S : can[s] < MaxChanges
    /\ can' = [s \in Signals |-> IF s \in S THEN can[s] + 1 ELSE can[s]]
    /\ IF pc = "streaming"
       THEN /\ inbox' = Append(inbox, [s \in S |-> can'[s]])
            /\ missed' = {s \in missed : s \notin S \/ ~Good(s, can'[s])}
       ELSE UNCHANGED <<inbox, missed>>
    /\ UNCHANGED <<kuksaUp, pc, mapped, handed, vss, log, faults>>

\* A cyclic frame on the seed stream.
FrameArrives(f) ==
    /\ pc = "seeding" /\ Len(inbox) < MaxSeed
    /\ drops < MaxDrops \/ \A s \in f : Good(s, can[s])
    /\ inbox' = Append(inbox, [s \in f |-> can[s]])
    /\ UNCHANGED <<link, handed, vss, log, missed, faults>>

KuksaGoesDown ==
    /\ kuksaUp /\ Fault
    /\ kuksaUp' = FALSE
    /\ UNCHANGED <<can, pc, mapped, inbox, handed, vss, log, missed>>

\* The databroker starts again with no values.
KuksaRestarts ==
    /\ kuksaUp /\ Fault
    /\ kuksaUp' = FALSE
    /\ lost' = Signals \ pending
    /\ UNCHANGED <<can, pc, mapped, inbox, handed, inVss, pending, log, missed>>

KuksaComesUp ==
    /\ ~kuksaUp
    /\ kuksaUp' = TRUE
    /\ UNCHANGED <<can, pc, mapped, inbox, handed, vss, log, missed, faults>>

\* run_kuksa_current_writer, as the register of HandOff.
Deliver ==
    /\ kuksaUp /\ pending # {}
    /\ inVss' = [s \in Signals |-> IF s \in pending THEN handed[s] ELSE inVss[s]]
    /\ pending' = {}
    /\ UNCHANGED <<link, inbox, handed, lost, log, missed, faults>>

Reader ==
    \/ BrokerConnects \/ Validates \/ ValidationFails \/ OpensSeed \/ SeedEnds
    \/ Streams \/ Handle \/ Retry

Next ==
    \/ Reader \/ ValidatesNothing \/ ConnectionLost
    \/ \E S \in SUBSET Signals \ {{}} : CanChanges(S)
    \/ \E f \in Frames : FrameArrives(f)
    \/ KuksaGoesDown \/ KuksaRestarts \/ KuksaComesUp \/ Deliver

Spec == Init /\ [][Next]_vars

\* The reader runs and the writer writes when KUKSA is there; the seed phase
\* ends by its timeout.  Nothing obliges KUKSA to come back.
FairSpec == Spec /\ WF_vars(Reader) /\ WF_vars(SeedEnds) /\ WF_vars(Deliver)

-----------------------------------------------------------------------------
(* Properties.                                                             *)

\* While streaming, the newest value of a mapped signal that can be transformed
\* has been handed over or is in the stream, whatever else of its batch is
\* unmapped or fails; the only signals out of date are those that changed unseen
\* before the stream opened (remotive_to_vss.py 23-27: on_change delivers
\* nothing until a value moves).
StreamIsComplete ==
    pc = "streaming" =>
        \A s \in mapped \ missed :
            \/ handed[s] = Wanted(s)
            \/ \E i \in DOMAIN inbox :
                   s \in DOMAIN inbox[i] /\ inbox[i][s] = Wanted(s)

\* Handed-over values and KUKSA's values only move forward: no seed batch,
\* reconnection or outage brings an older CAN value back.
Registers == INSTANCE LatestRegister WITH
    Directions <- {"to_vss"},
    Paths <- Signals,
    newest <- [d \in {"to_vss"} |-> handed],
    accepted <- [d \in {"to_vss"} |-> inVss],
    discarded <- [d \in {"to_vss"} |-> Unchanged]

OnlyForward == Registers!Spec

\* A KUKSA outage does not stop a reader that has its stream: it empties its
\* inbox while KUKSA stays down (README 563-564).
ReadsDuringOutage == pc = "streaming" /\ inbox # <<>> ~> inbox = <<>> \/ pc = "backoff"

\* Once KUKSA stays up and connections hold, KUKSA shows the vehicle's state,
\* but for what was missed between the seed and the stream, and for values that
\* a restart of KUKSA erased and no seed or change has brought since
\* (remotive_to_vss.py 217: an acknowledged value is never resent).
CatchesUp ==
    <>[]kuksaUp =>
        <>[](/\ pc = "streaming"
             /\ \A s \in mapped : s \in missed \cup lost \/ inVss[s] = Wanted(s))

\* Every refusal so far: the value refused and which time this was.
Refusals == UNION {{k} \X (1..refused[k]) : k \in Bad}

\* A listed drop has its whole count, and one is missing only from a full list.
ListIsExact ==
    /\ \A k \in DOMAIN tracked : tracked[k] = refused[k]
    /\ \A k \in Bad \ DOMAIN tracked :
           refused[k] > 0 => Cardinality(DOMAIN tracked) = MaxTracked

\* The bounded list of drops is a true digest of all of them: the total misses
\* none, a listed entry has its whole count although others came and the list
\* was full meanwhile, and an entry is missing only from a full list
\* (state.py 36-38 and 171-172, over reconnections that refuse values again).
DropsAreDigested ==
    drops = Cardinality(Refusals) /\ ListIsExact
=============================================================================
