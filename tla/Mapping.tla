------------------------------ MODULE Mapping ------------------------------
(***************************************************************************)
(* The way of a mapping: load_config_text decides which entries of the     *)
(* file are kept (config.py 447-531), validate_mapping checks those        *)
(* against the vehicle and the databroker for each connection              *)
(* (validation.py 77-247), and the survivors convert values (transform.py).*)
(*                                                                         *)
(* Loading runs once, with nothing beside it; one step per entry keeps the *)
(* order of the loop.  A validation is suspended in its queries, and the   *)
(* peers may change there.  An entry is known by its position in its       *)
(* section.                                                                *)
(***************************************************************************)
EXTENDS MappingFile, FiniteSets

CONSTANTS
    Files,       \* files: a sequence of raw entries for each section
    Vehicles,    \* vehicles: sets of frames as list_frame_infos tells them
    Catalogs,    \* sets of VSS paths that the databroker may know
    Values,      \* values that a peer may send
    MaxChanges,  \* bound: rebuilds of the vehicle or of the catalog
    MaxFaults    \* bound: metadata queries that fail for no lasting reason

Sections == {"to_vss", "to_can"}

\* A pair with a frame name is what the parser asks of a signal; a broker
\* that lists bare names leaves the frame empty.
IsPair(x) == x = <<x[1], x[2]>>

HasNumber(v) == v.kind \in {"int", "float", "bool"} \/ IsDecimal(v)

\* What a document or a peer can hold, as opposed to a conversion that fails.
IsData(v) ==
    /\ v.kind \in {"int", "float", "bool", "str", "nan", "none", "list"}
    /\ v.n \in Int /\ v = Value(v.kind, v.n, IF v.kind = "str" THEN v.word ELSE "")
    /\ v.kind = "int" => v.n % Unit = 0
    /\ v.kind = "bool" => v.n \in {0, Unit}
    /\ ~HasNumber(v) => v.n = 0

\* What _require_number lets through.
IsScalar(v) == IsData(v) /\ v.kind \in {"int", "float", "nan"}

\* A dict has no list for a key, and no key twice.
IsDict(pairs) ==
    /\ \A j \in DOMAIN pairs : pairs[j][1].kind # "list"
    /\ \A j, k \in DOMAIN pairs : PyEqual(pairs[j][1], pairs[k][1]) => j = k

\* What the parser asks of the fields of a sound entry, one by one.
IsEntry(e) ==
    /\ IsPair(e.signal) /\ e.signal[1] # ""
    /\ e.shape \in Shapes
    /\ e.shape = "sound" =>
        /\ e.type \in Types /\ e.transform.op \in Ops
        /\ e.transform.scale[1] \in Int /\ e.transform.scale[2] \in Nat \ {0}
        /\ IsScalar(e.transform.offset)
        /\ IsData(e.transform.high) /\ IsData(e.transform.low)
        /\ IsDict(e.transform.map)
        /\ \A j \in DOMAIN e.transform.map : IsData(e.transform.map[j][1]) /\ IsData(e.transform.map[j][2])

\* A namespace has one frame of a name, and a frame lists its signals under
\* its own name or bare.
IsVehicle(v) ==
    /\ \A f \in v : \A x \in f.signals : IsPair(x) /\ x[1] \in {"", f.name}
    /\ \A f, g \in v : f.namespace = g.namespace /\ f.name = g.name => f = g

ASSUME FilesAssumption ==
    \A f \in Files : \A s \in Sections :
        Len(f[s]) \in Nat /\ \A i \in 1..Len(f[s]) : IsEntry(f[s][i])
ASSUME VehiclesAssumption == \A v \in Vehicles : IsVehicle(v)
ASSUME ValuesAssumption == \A v \in Values : IsData(v)
\* Rounding is left out: what a linear entry makes of a value is a whole
\* number of quarters.
Exact(x, y) == Quotient(x, y) * y = x
ScalesExactly(s, spec, v) ==
    spec.op = "linear" /\ spec.scale[1] # 0 /\ spec.offset # NaN /\ AsNumber(v) # Dropped =>
        IF s = "to_vss" THEN Exact(v.n * spec.scale[1], spec.scale[2])
                        ELSE Exact((v.n - spec.offset.n) * spec.scale[2], spec.scale[1])
ASSUME RoundingAssumption ==
    \A f \in Files : \A s \in Sections : \A i \in 1..Len(f[s]) :
        f[s][i].shape = "sound" => \A v \in Values : ScalesExactly(s, f[s][i].transform, v)
ASSUME BoundsAssumption == MaxChanges \in Nat /\ MaxFaults \in Nat

VARIABLES
    file,      \* the document
    pc,
    read,      \* loading: entries parsed, per section
    kept,      \* loading: positions that became Mappings
    rejected,  \* loading: positions that became SkippedMappings
    seenCan, seenVss,
    vehicle, catalog,   \* the peers
    index,     \* validation: _index_frames of what the broker listed
    known,     \* validation: paths found in the catalog
    unprobed,  \* validation: paths still to be probed one by one
    unchecked, \* validation: positions the loop has not reached
    survivors, \* validation: positions that it keeps
    dropped,   \* validation: positions that it drops, with the reason
    warnings,  \* validation: warnings in their order
    carried,   \* history: the last value converted
    missed,    \* history: paths whose probe failed although they are known
    current,   \* history: the peers are as the validation saw them
    changes, faults

file_vars == <<file, read, kept, rejected, seenCan, seenVss>>
peer_vars == <<vehicle, catalog, changes>>
query_vars == <<index, known, unprobed, faults, missed>>
result_vars == <<unchecked, survivors, dropped, warnings>>
vars == <<file_vars, peer_vars, query_vars, result_vars, pc, carried, current>>

Entry(s, i) == file[s][i]
EntriesAt(s, positions) == {Entry(s, i) : i \in positions}
KeptEntries == UNION {EntriesAt(s, kept[s]) : s \in Sections}
VssPaths == {e.vss : e \in KeptEntries}

Positions(s) == 1..Len(file[s])
Reasons == {"namespace", "signal", "path"}
Notes == {"uncyclic", "secondTransmitter", "inert"}
PCs == {"loading", "refused", "crashed", "listing", "lookup", "probing", "checking", "serving"}
NoPositions == [s \in Sections |-> {}]
Nothing == [section |-> "none"]
Frames == UNION Vehicles
Warnings == [section : Sections, note : Notes,
             namespace : {f.namespace : f \in Frames}, frame : {f.name : f \in Frames}]

TypeOK ==
    /\ file \in Files
    /\ pc \in PCs
    /\ \A s \in Sections :
        /\ read[s] \in 0..Len(file[s])
        /\ kept[s] \subseteq Positions(s) /\ rejected[s] \subseteq Positions(s)
        /\ seenCan[s] \subseteq {CanKey(e) : e \in EntriesAt(s, Positions(s))}
        /\ seenVss[s] \subseteq {e.vss : e \in EntriesAt(s, Positions(s))}
        /\ unchecked[s] \subseteq kept[s] /\ survivors[s] \subseteq kept[s]
    /\ vehicle \in Vehicles /\ catalog \in Catalogs
    /\ \A x \in index : x.frame \in Frames
    /\ known \subseteq VssPaths /\ unprobed \subseteq VssPaths /\ missed \subseteq VssPaths
    /\ \A d \in dropped : d.entry \in kept[d.section] /\ d.reason \in Reasons
    /\ warnings \in Seq(Warnings)
    /\ carried # Nothing => carried.entry \in survivors[carried.section]
    /\ current \in BOOLEAN
    /\ changes \in 0..MaxChanges /\ faults \in 0..MaxFaults

Init ==
    /\ file \in Files
    /\ pc = "loading"
    /\ read = [s \in Sections |-> 0]
    /\ kept = NoPositions /\ rejected = NoPositions
    /\ seenCan = NoPositions /\ seenVss = NoPositions
    /\ vehicle \in Vehicles /\ catalog \in Catalogs
    /\ index = {} /\ known = {} /\ unprobed = {} /\ missed = {}
    /\ unchecked = NoPositions /\ survivors = NoPositions /\ dropped = {} /\ warnings = <<>>
    /\ carried = Nothing
    /\ current = TRUE
    /\ changes = 0 /\ faults = 0

-----------------------------------------------------------------------------
(* Loading.                                                                *)

\* An entry is marked as seen only once it is kept.
Keeps(s, i) ==
    /\ kept' = [kept EXCEPT ![s] = @ \cup {i}]
    /\ seenCan' = [seenCan EXCEPT ![s] = @ \cup {CanKey(Entry(s, i))}]
    /\ seenVss' = [seenVss EXCEPT ![s] = @ \cup {Entry(s, i).vss}]
    /\ UNCHANGED rejected

\* A bug: a duplicate marks its other key as seen.
RejectsAndMarks(s, i) ==
    /\ rejected' = [rejected EXCEPT ![s] = @ \cup {i}]
    /\ seenCan' = [seenCan EXCEPT ![s] = @ \cup {CanKey(Entry(s, i))}]
    /\ seenVss' = [seenVss EXCEPT ![s] = @ \cup {Entry(s, i).vss}]
    /\ UNCHANGED kept

Rejects(s, i) ==
    /\ rejected' = [rejected EXCEPT ![s] = @ \cup {i}]
    /\ UNCHANGED <<kept, seenCan, seenVss>>

\* A bug: a second entry for the same path goes unnoticed.
IsDuplicateSignal(s, i) == CanKey(Entry(s, i)) \in seenCan[s]

IsDuplicate(s, i) ==
    \/ CanKey(Entry(s, i)) \in seenCan[s]
    \/ Entry(s, i).vss \in seenVss[s]

\* to_vss is parsed before to_can.  An exception that is no _EntryError
\* leaves load_config_text.
ParseEntry(s) ==
    LET i == read[s] + 1
        verdict == EntryVerdict(Entry(s, i))
    IN  /\ pc = "loading"
        /\ i \in Positions(s)
        /\ s = "to_can" => read["to_vss"] = Len(file["to_vss"])
        /\ \/ /\ verdict = "raised"
              /\ pc' = "crashed"
              /\ UNCHANGED <<read, kept, rejected, seenCan, seenVss>>
           \/ /\ verdict # "raised"
              /\ read' = [read EXCEPT ![s] = i]
              /\ IF verdict = "mapping" /\ ~IsDuplicate(s, i) THEN Keeps(s, i) ELSE Rejects(s, i)
              /\ UNCHANGED pc
        /\ UNCHANGED <<file, peer_vars, query_vars, result_vars, carried, current>>

FinishLoading ==
    /\ pc = "loading"
    /\ \A s \in Sections : read[s] = Len(file[s])
    /\ pc' = IF kept = NoPositions THEN "refused" ELSE "listing"
    /\ UNCHANGED <<file_vars, peer_vars, query_vars, result_vars, carried, current>>

-----------------------------------------------------------------------------
(* Validation.  A restart of a worker's connection begins another one.     *)

\* A bug: a bare name is indexed as it is.
Unqualified(frame, x) == x

\* Brokers of different versions list qualified or bare signal names.
Qualified(frame, x) == IF x[1] = "" THEN <<frame.name, x[2]>> ELSE x


\* _index_frames, of the frames in the namespaces that were asked for.
IndexFrames(frames) ==
    UNION {{[namespace |-> f.namespace, signal |-> Qualified(f, x), frame |-> f] : x \in f.signals} :
             f \in {g \in frames : g.namespace \in {e.namespace : e \in KeptEntries}}}

ListFrames ==
    /\ pc = "listing"
    /\ index' = IndexFrames(vehicle)
    /\ known' = {} /\ unprobed' = {} /\ missed' = {}
    /\ current' = TRUE
    /\ pc' = "lookup"
    /\ UNCHANGED <<file_vars, peer_vars, result_vars, carried, faults>>

Fault == faults < MaxFaults /\ faults' = faults + 1

\* A bug: the whole file is checked again, the rejected entries too.
BeginsCheckingAll ==
    /\ pc' = "checking"
    /\ unchecked' = [s \in Sections |-> Positions(s)]
    /\ survivors' = NoPositions /\ dropped' = {} /\ warnings' = <<>>

\* The loop over the entries starts from nothing.
BeginsChecking ==
    /\ pc' = "checking"
    /\ unchecked' = kept
    /\ survivors' = NoPositions /\ dropped' = {} /\ warnings' = <<>>

\* One query for all paths.  The databroker refuses it if it does not know
\* one of them.
LookUpTogether ==
    /\ pc = "lookup"
    /\ VssPaths \subseteq catalog
    /\ known' = VssPaths
    /\ BeginsChecking
    /\ UNCHANGED <<file_vars, peer_vars, index, unprobed, missed, faults, carried, current>>

LookUpFails ==
    /\ pc = "lookup"
    /\ \/ ~(VssPaths \subseteq catalog) /\ UNCHANGED faults
       \/ Fault
    /\ unprobed' = VssPaths
    /\ pc' = "probing"
    /\ UNCHANGED <<file_vars, peer_vars, index, known, missed, result_vars, carried, current>>

\* Any failure of a probe is taken for the absence of the path.
Probe(path) ==
    /\ pc = "probing"
    /\ \/ /\ known' = IF path \in catalog THEN known \cup {path} ELSE known
          /\ UNCHANGED <<missed, faults>>
       \/ /\ path \in catalog /\ Fault
          /\ missed' = missed \cup {path}
          /\ UNCHANGED known
    /\ unprobed' = unprobed \ {path}
    /\ IF unprobed' = {} THEN BeginsChecking ELSE UNCHANGED <<pc, result_vars>>
    /\ UNCHANGED <<file_vars, peer_vars, index, carried, current>>

IsListed(e) == \E x \in index : x.namespace = e.namespace /\ x.signal = e.signal
FrameOf(e) == (CHOOSE x \in index : x.namespace = e.namespace /\ x.signal = e.signal).frame

Reason(e) ==
    IF \A x \in index : x.namespace # e.namespace THEN "namespace"
    ELSE IF ~IsListed(e) THEN "signal"
    ELSE IF e.vss \notin known THEN "path"
    ELSE "none"

Warning(s, note, frame) ==
    [section |-> s, note |-> note, namespace |-> frame.namespace, frame |-> frame.name]

\* A bug: there is a warning for each signal of the frame.
NeverWarned(frame) == FALSE

\* warned_frames: a warning about writing is given once for each frame.
IsWarned(frame) ==
    \E j \in DOMAIN warnings : warnings[j] \in {Warning("to_can", n, frame) : n \in {"secondTransmitter", "inert"}}

\* The warnings that a surviving entry adds.
Cautions(s, e) ==
    LET frame == FrameOf(e)
    IN  CASE s = "to_vss" /\ ~frame.cyclic -> <<Warning(s, "uncyclic", frame)>>
          [] s = "to_can" /\ ~IsWarned(frame) /\ frame.sent -> <<Warning(s, "secondTransmitter", frame)>>
          [] s = "to_can" /\ ~IsWarned(frame) /\ ~frame.sent /\ ~e.allowAdd -> <<Warning(s, "inert", frame)>>
          [] OTHER -> <<>>

\* One turn of the loop; when it is over the result is handed to the caller.
CheckEntry(s, i) ==
    LET e == Entry(s, i)
        reason == Reason(e)
    IN  /\ pc = "checking"
        /\ i \in unchecked[s] /\ \A j \in unchecked[s] : i <= j
        /\ s = "to_can" => unchecked["to_vss"] = {}
        /\ unchecked' = [unchecked EXCEPT ![s] = @ \ {i}]
        /\ IF reason = "none"
           THEN /\ survivors' = [survivors EXCEPT ![s] = @ \cup {i}]
                /\ warnings' = warnings \o Cautions(s, e)
                /\ UNCHANGED dropped
           ELSE /\ dropped' = dropped \cup {[section |-> s, entry |-> i, reason |-> reason]}
                /\ UNCHANGED <<survivors, warnings>>
        /\ pc' = IF unchecked' = NoPositions THEN "serving" ELSE "checking"
        /\ UNCHANGED <<file_vars, peer_vars, query_vars, carried, current>>

\* restbus_frames: what one add call of the writer configures.
RestbusFrames ==
    {FrameOf(e) : e \in {f \in EntriesAt("to_can", survivors["to_can"]) : f.allowAdd}}

\* The connection of the worker ended.
Reconnect ==
    /\ pc = "serving"
    /\ pc' = "listing"
    /\ carried' = Nothing
    /\ UNCHANGED <<file_vars, peer_vars, query_vars, result_vars, current>>

-----------------------------------------------------------------------------
(* Conversions and peers.                                                  *)

\* handle converts a CAN value, _buffer_target a target; no target is no
\* command.
Carry(s, i, v) ==
    /\ pc = "serving"
    /\ i \in survivors[s]
    /\ s = "to_can" => v # None
    /\ carried' = [section |-> s, entry |-> i, in |-> v,
                   out |-> IF s = "to_vss" THEN CanToVss(Entry(s, i), v) ELSE VssToCan(Entry(s, i), v)]
    /\ UNCHANGED <<file_vars, peer_vars, query_vars, result_vars, pc, current>>

\* The vehicle is rebuilt or the databroker gets another catalog.  Where
\* nothing has been read since, or a value is on its way, it is as good as
\* later.
PeersChange ==
    /\ changes < MaxChanges /\ changes' = changes + 1
    /\ pc \in {"lookup", "probing", "serving"}
    /\ carried = Nothing
    /\ \/ vehicle' \in Vehicles \ {vehicle} /\ UNCHANGED catalog
       \/ catalog' \in Catalogs \ {catalog} /\ UNCHANGED vehicle
    /\ current' = FALSE
    /\ UNCHANGED <<file_vars, query_vars, result_vars, pc, carried>>

Next ==
    \/ \E s \in Sections : ParseEntry(s)
    \/ FinishLoading
    \/ ListFrames \/ LookUpTogether \/ LookUpFails
    \/ \E path \in unprobed : Probe(path)
    \/ \E s \in Sections : \E i \in unchecked[s] : CheckEntry(s, i)
    \/ Reconnect
    \/ \E s \in Sections : \E i \in survivors[s] : \E v \in Values : Carry(s, i, v)
    \/ PeersChange

Spec == Init /\ [][Next]_vars

-----------------------------------------------------------------------------
(* Properties.                                                             *)

SharesKey(e, f) == CanKey(e) = CanKey(f) \/ e.vss = f.vss

\* No two kept entries of a section have the same signal or the same path:
\* the workers index a section by either (config.py 148-153).
KeptAreUnambiguous ==
    \A s \in Sections : \A i, j \in kept[s] : i # j => ~SharesKey(Entry(s, i), Entry(s, j))

\* An entry is lost only by its own fault or to an earlier entry that was
\* kept, never to one that was itself rejected (config.py 447-487); and the
\* bridge refuses to start only when no entry of the file is well-formed.
RejectedForAReason ==
    /\ \A s \in Sections : \A i \in rejected[s] :
        \/ EntryVerdict(Entry(s, i)) = "entryError"
        \/ \E j \in kept[s] : j < i /\ SharesKey(Entry(s, i), Entry(s, j))
    /\ pc \notin {"loading", "crashed"} =>
        \A s \in Sections : kept[s] \cup rejected[s] = Positions(s)
    /\ pc = "refused" =>
        \A s \in Sections : \A i \in Positions(s) : EntryVerdict(Entry(s, i)) = "entryError"

\* What both peers support: some frame carries the signal, under its bare or
\* its qualified name, and the catalog has the path.
Carries(frame, e) ==
    /\ frame.namespace = e.namespace
    /\ \/ e.signal \in frame.signals
       \/ e.signal[1] = frame.name /\ <<"", e.signal[2]>> \in frame.signals
IsSupported(e) == (\E f \in vehicle : Carries(f, e)) /\ e.vss \in catalog

\* While the peers stay as they are, a validation keeps exactly what they
\* support, and says truly why it drops the rest.  A batch that fails costs
\* nothing, a probe that fails costs the entries of its own path
\* (validation.py 96-168).
ResultIsExact ==
    pc = "serving" /\ current =>
        /\ \A s \in Sections : survivors[s] =
             {i \in kept[s] : IsSupported(Entry(s, i)) /\ Entry(s, i).vss \notin missed}
        /\ \A d \in dropped :
            LET e == Entry(d.section, d.entry)
            IN  /\ d.reason = "namespace" => \A f \in vehicle : f.namespace = e.namespace => f.signals = {}
                /\ d.reason = "signal" => \A f \in vehicle : ~Carries(f, e)
                /\ d.reason = "path" => e.vss \notin catalog \/ e.vss \in missed

\* A frame that entries write to is warned about once: as having a second
\* transmitter exactly if an ECU sends it, and as inert if no ECU sends it
\* and the bridge does not add it (validation.py 186-213).  It may be called
\* inert although another entry lets the bridge add it.
WritesAreWarnedOf ==
    pc = "serving" /\ current =>
        \A f \in vehicle :
            LET Writers == {e \in EntriesAt("to_can", survivors["to_can"]) : Carries(f, e)}
                Said(n) == {j \in DOMAIN warnings : warnings[j] = Warning("to_can", n, f)}
            IN  /\ Cardinality(Said("secondTransmitter")) = IF Writers # {} /\ f.sent THEN 1 ELSE 0
                /\ Cardinality(Said("inert")) <= 1
                /\ Writers # {} /\ ~f.sent /\ f \notin RestbusFrames => Said("inert") # {}
                /\ Said("inert") # {} => ~f.sent /\ \E e \in Writers : ~e.allowAdd

\* One number, one truth value or one text, in whatever form.
SameReading(v, w) ==
    \/ v = w
    \/ HasNumber(v) /\ HasNumber(w) /\ v.n = w.n
    \/ ToBoolean(v) # Dropped /\ ToBoolean(v) = ToBoolean(w)
    \/ ToString(v) # Dropped /\ ToString(v) = ToString(w)
Sent == carried # Nothing /\ carried.out \notin {Dropped, Raised}
KindOf(type) == CASE type = "boolean" -> "bool" [] type = "string" -> "str" [] OTHER -> type

\* What an entry holds that its inverse may answer with or pass on.
Held(spec) ==
    CASE spec.op = "linear"      -> {spec.offset}
      [] spec.op = "threshold"   -> {spec.high, spec.low}
      [] spec.op = "enum"        -> {spec.map[j][1] : j \in DOMAIN spec.map}
      [] spec.op = "passthrough" -> {}
HoldsNoNumber(spec) == \E h \in Held(spec) : h.kind \in {"none", "list"}

\* What is published has the declared type, and what leaves either way through
\* an entry with a range is a text, a boolean or a number within it
\* (transform.py 60-162).  NaN never gets to KUKSA, and to CAN only from an
\* entry without a range that holds it itself.  A conversion fails otherwise
\* than by a drop only on a list looked up in an enum, or where an entry with
\* a range has a null or a list for a threshold level or a CAN value.
OutputFits ==
    carried # Nothing =>
        LET e == Entry(carried.section, carried.entry)
            out == carried.out
        IN  /\ Sent /\ carried.section = "to_vss" => out.kind = KindOf(e.type)
            /\ Sent /\ e.range # <<>> =>
                 \/ out.kind \in {"str", "bool"}
                 \/ IsNumber(out) /\ e.range[1] <= out.n /\ out.n <= e.range[2]
            /\ out = NaN =>
                 carried.section = "to_can" /\ NaN \in Held(e.transform) /\ e.range = <<>>
            /\ out = Raised =>
                 \/ carried.in.kind = "list" /\ e.transform.op = "enum"
                 \/ carried.section = "to_can" /\ HoldsNoNumber(e.transform) /\ e.range # <<>>

\* Two values of the enum are one value of the entry's type, such as the
\* text "true" and the boolean.
IsAmbiguous(e) ==
    \E j, k \in DOMAIN e.transform.map :
        LET v == CoerceValue(e.transform.map[j][2], e.type)
        IN  j # k /\ v # Dropped /\ v = CoerceValue(e.transform.map[k][2], e.type)

\* A value that went one way and comes back is the value that was sent, or
\* is dropped, or the conversion back fails, but it is never another one
\* (transform.py 3-6).  Left out is the threshold, which says so, and an enum
\* that the parser should not take.
NothingIsAltered ==
    Sent =>
        LET e == Entry(carried.section, carried.entry)
            back == IF carried.section = "to_vss" THEN VssToCan(e, carried.out) ELSE CanToVss(e, carried.out)
        IN  \/ e.transform.op = "threshold" \/ IsAmbiguous(e)
            \/ back \in {Dropped, Raised}
            \/ SameReading(back, carried.in)

\* README.md 478: "A malformed entry is dropped and reported; the rest run."
MalformedEntriesAreDropped == pc # "crashed"
=============================================================================
