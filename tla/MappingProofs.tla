--------------------------- MODULE MappingProofs ---------------------------
(***************************************************************************)
(* Theorems about Mapping: which entries loading keeps, that a validation  *)
(* keeps exactly what its peers support and warns of the frames written    *)
(* to, and what a conversion may give.                                     *)
(***************************************************************************)
EXTENDS Mapping, FiniteSetTheorems, TLAPS

(***************************************************************************)
(* Loading.                                                                *)
(***************************************************************************)

\* What the loop over a section has done after reading some of it.
SectionInv(s) ==
    /\ read[s] \in 0..Len(file[s])
    /\ kept[s] \cup rejected[s] = 1..read[s]
    /\ seenCan[s] = {CanKey(Entry(s, i)) : i \in kept[s]}
    /\ seenVss[s] = {Entry(s, i).vss : i \in kept[s]}
    /\ \A i, j \in kept[s] : i # j => ~SharesKey(Entry(s, i), Entry(s, j))
    /\ \A i \in kept[s] : EntryVerdict(Entry(s, i)) = "mapping"
    /\ \A i \in rejected[s] :
        \/ EntryVerdict(Entry(s, i)) = "entryError"
        \/ \E j \in kept[s] : j < i /\ SharesKey(Entry(s, i), Entry(s, j))

LoadingFunctions ==
    /\ file \in Files
    /\ DOMAIN read = Sections /\ DOMAIN kept = Sections /\ DOMAIN rejected = Sections
    /\ DOMAIN seenCan = Sections /\ DOMAIN seenVss = Sections

LoadInv ==
    /\ LoadingFunctions
    /\ \A s \in Sections : SectionInv(s)
    /\ pc \notin {"loading", "crashed"} => \A s \in Sections : read[s] = Len(file[s])
    /\ pc = "refused" => kept = NoPositions

\* The parser has three verdicts on an entry.
LEMMA VerdictOfPair ==
    ASSUME NEW pairs, NEW j, NEW type
    PROVE  PairVerdict(pairs, j, type) \in Verdicts
<1> DEFINE v == pairs[j][2]
<1>1. CASE ~EnumValueFits(v, type)
  BY <1>1 DEF PairVerdict, Verdicts
<1>2. CASE EnumValueFits(v, type)
  BY <1>2 DEF PairVerdict, Verdicts
<1> QED BY <1>1, <1>2

LEMMA VerdictOfTransform ==
    ASSUME NEW spec, NEW type
    PROVE  TransformVerdict(spec, type) \in Verdicts
<1>1. EnumVerdict(spec.map, type) \in Verdicts
  BY VerdictOfPair DEF EnumVerdict, Verdicts
<1> QED BY <1>1 DEF TransformVerdict, Verdicts

LEMMA VerdictOfEntry ==
    ASSUME NEW raw
    PROVE  EntryVerdict(raw) \in Verdicts
BY VerdictOfTransform DEF EntryVerdict, Verdicts

LEMMA FilesHaveLengths == \A f \in Files : \A s \in Sections : Len(f[s]) \in Nat
BY FilesAssumption

LEMMA InitLoads == Init => LoadInv
BY FilesHaveLengths DEF Init, LoadInv, LoadingFunctions, SectionInv, NoPositions, Sections

\* Reading an entry extends what the loop has done by one entry.
LEMMA ParseKeepsSection ==
    ASSUME LoadInv, NEW s \in Sections, ParseEntry(s), NEW t \in Sections
    PROVE  SectionInv(t)'
<1> DEFINE i == read[s] + 1
<1>0. Len(file[s]) \in Nat /\ file' = file
  BY FilesHaveLengths DEF ParseEntry, LoadInv, LoadingFunctions, file_vars
<1>1. CASE UNCHANGED <<read, kept, rejected, seenCan, seenVss>>
  BY <1>0, <1>1 DEF LoadInv, SectionInv, Entry
<1>2. CASE t # s /\ ~UNCHANGED <<read, kept, rejected, seenCan, seenVss>>
  <2>1. /\ read'[t] = read[t] /\ kept'[t] = kept[t] /\ rejected'[t] = rejected[t]
        /\ seenCan'[t] = seenCan[t] /\ seenVss'[t] = seenVss[t]
    BY <1>2 DEF ParseEntry, Keeps, Rejects, LoadInv, LoadingFunctions
  <2> QED BY <1>0, <2>1 DEF LoadInv, SectionInv, Entry
<1>3. CASE t = s /\ ~UNCHANGED <<read, kept, rejected, seenCan, seenVss>>
  <2>1. /\ i \in 1..Len(file[s])
        /\ read'[s] = i
        /\ EntryVerdict(Entry(s, i)) # "raised"
        /\ IF EntryVerdict(Entry(s, i)) = "mapping" /\ ~IsDuplicate(s, i) THEN Keeps(s, i) ELSE Rejects(s, i)
    BY <1>3 DEF ParseEntry, LoadInv, LoadingFunctions, Positions
  <2>2. SectionInv(s) /\ kept[s] \subseteq 1..(i - 1) /\ read[s] = i - 1 /\ i \in Nat
    BY <1>0, <2>1 DEF LoadInv, SectionInv
  <2>3. \A j : (Entry(s, j))' = Entry(s, j)
    BY <1>0 DEF Entry
  <2>4. CASE EntryVerdict(Entry(s, i)) = "mapping" /\ ~IsDuplicate(s, i)
    <3>1. /\ kept'[s] = kept[s] \cup {i} /\ rejected'[s] = rejected[s]
          /\ seenCan'[s] = seenCan[s] \cup {CanKey(Entry(s, i))}
          /\ seenVss'[s] = seenVss[s] \cup {Entry(s, i).vss}
      BY <2>1, <2>4 DEF Keeps, LoadInv, LoadingFunctions
    <3>2. \A j \in kept[s] : ~SharesKey(Entry(s, j), Entry(s, i)) /\ ~SharesKey(Entry(s, i), Entry(s, j))
      BY <2>2, <2>4 DEF SectionInv, IsDuplicate, SharesKey
    <3> QED BY <1>0, <1>3, <2>1, <2>2, <2>3, <2>4, <3>1, <3>2 DEF SectionInv, SharesKey
  <2>5. CASE ~(EntryVerdict(Entry(s, i)) = "mapping" /\ ~IsDuplicate(s, i))
    <3>1. /\ kept'[s] = kept[s] /\ rejected'[s] = rejected[s] \cup {i}
          /\ seenCan'[s] = seenCan[s] /\ seenVss'[s] = seenVss[s]
      BY <2>1, <2>5 DEF Rejects, LoadInv, LoadingFunctions
    <3>2. \/ EntryVerdict(Entry(s, i)) = "entryError"
          \/ \E j \in kept[s] : j < i /\ SharesKey(Entry(s, i), Entry(s, j))
      <4>1. CASE IsDuplicate(s, i)
        BY <2>2, <4>1 DEF SectionInv, IsDuplicate, SharesKey
      <4>2. CASE EntryVerdict(Entry(s, i)) # "mapping"
        BY <2>1, <4>2, VerdictOfEntry DEF Verdicts
      <4> QED BY <2>5, <4>1, <4>2
    <3> QED BY <1>0, <1>3, <2>1, <2>2, <2>3, <3>1, <3>2 DEF SectionInv, SharesKey
  <2> QED BY <1>3, <2>4, <2>5
<1> QED BY <1>1, <1>2, <1>3

LEMMA ParseKeepsLoadInv ==
    ASSUME LoadInv, NEW s \in Sections, ParseEntry(s)
    PROVE  LoadInv'
<1>1. \A t \in Sections : SectionInv(t)'
  BY ParseKeepsSection
<1>2. LoadingFunctions'
  BY DEF LoadInv, LoadingFunctions, ParseEntry, Keeps, Rejects
<1>3. pc' \in {"loading", "crashed"}
  BY DEF ParseEntry
<1> QED BY <1>1, <1>2, <1>3 DEF LoadInv

\* No other step touches what was loaded.
LEMMA RestKeepsLoadInv ==
    ASSUME LoadInv, UNCHANGED file_vars,
           pc' = pc \/ (pc \in {"listing", "lookup", "probing", "checking", "serving"}
                        /\ pc' \in {"listing", "lookup", "probing", "checking", "serving"})
    PROVE  LoadInv'
<1>1. \A t \in Sections : SectionInv(t)'
  BY DEF LoadInv, SectionInv, Entry, file_vars
<1> QED BY <1>1 DEF LoadInv, LoadingFunctions, file_vars

LEMMA FinishKeepsLoadInv ==
    ASSUME LoadInv, FinishLoading
    PROVE  LoadInv'
<1>1. \A t \in Sections : SectionInv(t)'
  BY DEF LoadInv, SectionInv, Entry, file_vars, FinishLoading
<1> QED BY <1>1 DEF LoadInv, LoadingFunctions, file_vars, FinishLoading

LEMMA NextKeepsLoadInv ==
    ASSUME LoadInv, [Next]_vars
    PROVE  LoadInv'
<1>1. CASE \E s \in Sections : ParseEntry(s)
  BY <1>1, ParseKeepsLoadInv
<1>2. CASE FinishLoading
  BY <1>2, FinishKeepsLoadInv
<1>3. CASE ListFrames
  BY <1>3, RestKeepsLoadInv DEF ListFrames
<1>4. CASE LookUpTogether
  BY <1>4, RestKeepsLoadInv DEF LookUpTogether, BeginsChecking
<1>5. CASE LookUpFails
  BY <1>5, RestKeepsLoadInv DEF LookUpFails
<1>6. CASE \E path \in unprobed : Probe(path)
  BY <1>6, RestKeepsLoadInv DEF Probe, BeginsChecking
<1>7. CASE \E s \in Sections : \E i \in unchecked[s] : CheckEntry(s, i)
  BY <1>7, RestKeepsLoadInv DEF CheckEntry
<1>8. CASE Reconnect
  BY <1>8, RestKeepsLoadInv DEF Reconnect
<1>9. CASE \E s \in Sections : \E i \in survivors[s] : \E v \in Values : Carry(s, i, v)
  BY <1>9, RestKeepsLoadInv DEF Carry
<1>10. CASE PeersChange
  BY <1>10, RestKeepsLoadInv DEF PeersChange
<1>11. CASE UNCHANGED vars
  BY <1>11, RestKeepsLoadInv DEF vars
<1> QED BY <1>1, <1>2, <1>3, <1>4, <1>5, <1>6, <1>7, <1>8, <1>9, <1>10, <1>11 DEF Next

THEOREM LoadingHolds == Spec => []LoadInv
BY InitLoads, NextKeepsLoadInv, PTL DEF Spec

\* For every file: no two entries that loading keeps in a section share a
\* signal or a path.
THEOREM UnambiguousSections == Spec => []KeptAreUnambiguous
<1>1. LoadInv => KeptAreUnambiguous
  BY DEF LoadInv, SectionInv, KeptAreUnambiguous
<1> QED BY <1>1, LoadingHolds, PTL

\* For every file: an entry is rejected by its own fault or for an earlier
\* one that was kept, none is forgotten, and the bridge refuses to start
\* only on a file without a well-formed entry.
THEOREM RejectionsHaveReasons == Spec => []RejectedForAReason
<1>1. LoadInv => RejectedForAReason
  <2> SUFFICES ASSUME LoadInv PROVE RejectedForAReason
    OBVIOUS
  <2>1. \A s \in Sections : \A i \in rejected[s] :
          \/ EntryVerdict(Entry(s, i)) = "entryError"
          \/ \E j \in kept[s] : j < i /\ SharesKey(Entry(s, i), Entry(s, j))
    BY DEF LoadInv, SectionInv
  <2>2. ASSUME pc \notin {"loading", "crashed"}, NEW s \in Sections
        PROVE  kept[s] \cup rejected[s] = Positions(s)
    BY <2>2 DEF LoadInv, SectionInv, Positions
  <2>3. ASSUME pc = "refused", NEW s \in Sections, NEW i \in Positions(s)
        PROVE  EntryVerdict(Entry(s, i)) = "entryError"
    <3>1. kept[s] = {} /\ rejected[s] = Positions(s)
      BY <2>2, <2>3 DEF LoadInv, NoPositions
    <3> QED BY <2>1, <2>3, <3>1
  <2> QED BY <2>1, <2>2, <2>3 DEF RejectedForAReason
<1> QED BY <1>1, LoadingHolds, PTL

(***************************************************************************)
(* Validation.                                                             *)
(***************************************************************************)

\* What the queries of a validation have told so far, if the peers have not
\* changed since it began.
QueriesInv ==
    /\ pc \in {"lookup", "probing", "checking", "serving"} /\ current => index = IndexFrames(vehicle)
    /\ pc = "lookup" => known = {} /\ missed = {}
    /\ pc = "probing" /\ current =>
        /\ known = ((VssPaths \ unprobed) \cap catalog) \ missed
        /\ unprobed \subseteq VssPaths /\ missed \cap unprobed = {}
    /\ pc \in {"checking", "serving"} /\ current => known = (VssPaths \cap catalog) \ missed

\* What the loop over the entries has done so far.
LoopInv ==
    pc \in {"checking", "serving"} =>
        /\ DOMAIN unchecked = Sections /\ DOMAIN survivors = Sections
        /\ \A s \in Sections :
            /\ unchecked[s] \subseteq kept[s]
            /\ survivors[s] = {i \in kept[s] \ unchecked[s] : Reason(Entry(s, i)) = "none"}
        /\ \A d \in dropped :
            /\ d.section \in Sections /\ d.entry \in kept[d.section]
            /\ d.reason = Reason(Entry(d.section, d.entry))
        /\ pc = "serving" => unchecked = NoPositions

IInv == LoadInv /\ vehicle \in Vehicles /\ QueriesInv /\ LoopInv

LEMMA InitIInv == Init => IInv
BY InitLoads DEF Init, IInv, QueriesInv, LoopInv

\* An entry and its reason depend on nothing but the file and the answers.
LEMMA EntryIsStable ==
    ASSUME file' = file, NEW s, NEW i
    PROVE  Entry(s, i)' = Entry(s, i)
BY DEF Entry

LEMMA ReasonIsStable ==
    ASSUME UNCHANGED <<file, index, known>>, NEW s, NEW i
    PROVE  Reason(Entry(s, i))' = Reason(Entry(s, i))
<1>1. Entry(s, i)' = Entry(s, i)
  BY EntryIsStable
<1>2. IsListed(Entry(s, i))' = IsListed(Entry(s, i))
  BY <1>1 DEF IsListed
<1> QED BY <1>1, <1>2 DEF Reason

LEMMA PathsAreStable == UNCHANGED <<file, kept>> => VssPaths' = VssPaths /\ KeptEntries' = KeptEntries
BY DEF VssPaths, KeptEntries, EntriesAt, Entry

\* Starting the loop, with the answers of the queries that ended.
LEMMA BeginsLoop ==
    ASSUME LoadInv, BeginsChecking, UNCHANGED file_vars
    PROVE  LoopInv'
BY DEF LoadInv, LoadingFunctions, LoopInv, BeginsChecking, NoPositions, file_vars

LEMMA CheckKeepsLoop ==
    ASSUME IInv, NEW s \in Sections, NEW i \in unchecked[s], CheckEntry(s, i)
    PROVE  LoopInv'
<1> DEFINE e == Entry(s, i)
<1>0. /\ file' = file /\ kept' = kept /\ UNCHANGED <<file, index, known>>
      /\ pc = "checking" /\ pc' \in {"checking", "serving"}
      /\ pc' = "serving" => unchecked' = NoPositions
      /\ LoopInv
  BY DEF CheckEntry, IInv, file_vars, query_vars
<1>1. \A t, j : Entry(t, j)' = Entry(t, j) /\ Reason(Entry(t, j))' = Reason(Entry(t, j))
  BY <1>0, EntryIsStable, ReasonIsStable
<1>2. unchecked' = [unchecked EXCEPT ![s] = @ \ {i}]
  BY DEF CheckEntry
<1>3. i \in kept[s]
  BY <1>0 DEF LoopInv
<1>4. CASE Reason(e) = "none"
  <2>1. survivors' = [survivors EXCEPT ![s] = @ \cup {i}] /\ dropped' = dropped
    BY <1>4 DEF CheckEntry
  <2> QED BY <1>0, <1>1, <1>2, <1>3, <1>4, <2>1 DEF LoopInv
<1>5. CASE Reason(e) # "none"
  <2>1. /\ survivors' = survivors
        /\ dropped' = dropped \cup {[section |-> s, entry |-> i, reason |-> Reason(e)]}
    BY <1>5 DEF CheckEntry
  <2> QED BY <1>0, <1>1, <1>2, <1>3, <1>5, <2>1 DEF LoopInv
<1> QED BY <1>4, <1>5

\* The loop is as it was while its positions, its answers and the file are.
LEMMA LoopIsStable ==
    ASSUME LoopInv, UNCHANGED <<file_vars, result_vars, index, known, pc>>
    PROVE  LoopInv'
<1>1. UNCHANGED <<file, kept, index, known, unchecked, survivors, dropped, pc>>
  BY DEF file_vars, result_vars
<1>2. \A s, i : Reason(Entry(s, i))' = Reason(Entry(s, i))
  BY <1>1, ReasonIsStable
<1> QED BY <1>1, <1>2 DEF LoopInv

\* No loop is under way.
LEMMA NoLoop == pc' \notin {"checking", "serving"} => LoopInv'
BY DEF LoopInv

LEMMA LoadingKeepsIInv ==
    ASSUME IInv, LoadInv', \/ \E s \in Sections : ParseEntry(s)
                           \/ FinishLoading
    PROVE  IInv'
<1>1. pc' \in {"loading", "crashed", "refused", "listing"} /\ vehicle' = vehicle
  BY DEF ParseEntry, FinishLoading, peer_vars
<1>2. QueriesInv'
  BY <1>1 DEF QueriesInv
<1> QED BY <1>1, <1>2, NoLoop DEF IInv

LEMMA ListKeepsIInv ==
    ASSUME IInv, LoadInv', ListFrames
    PROVE  IInv'
<1>1. pc' = "lookup" /\ vehicle' = vehicle /\ known' = {} /\ missed' = {}
  BY DEF ListFrames, peer_vars
<1>2. IndexFrames(vehicle)' = IndexFrames(vehicle)
  BY PathsAreStable DEF IndexFrames, ListFrames, file_vars, peer_vars
<1>3. QueriesInv'
  BY <1>1, <1>2 DEF QueriesInv, ListFrames
<1> QED BY <1>1, <1>3, NoLoop DEF IInv

\* The index stays what it was.
LEMMA IndexIsStable ==
    ASSUME UNCHANGED <<file, kept, vehicle>>
    PROVE  IndexFrames(vehicle)' = IndexFrames(vehicle)
BY PathsAreStable DEF IndexFrames

LEMMA LookUpKeepsIInv ==
    ASSUME IInv, LoadInv', LookUpTogether \/ LookUpFails
    PROVE  IInv'
<1>0. /\ UNCHANGED <<file_vars, peer_vars, file, kept, vehicle, catalog, index, missed, current>>
      /\ pc = "lookup" /\ QueriesInv /\ vehicle \in Vehicles /\ LoadInv
  BY DEF LookUpTogether, LookUpFails, file_vars, peer_vars, IInv
<1>1. VssPaths' = VssPaths /\ IndexFrames(vehicle)' = IndexFrames(vehicle)
  BY <1>0, PathsAreStable, IndexIsStable
<1>2. CASE LookUpTogether
  <2>1. LoopInv'
    BY <1>0, <1>2, BeginsLoop DEF LookUpTogether
  <2>2. QueriesInv'
    BY <1>0, <1>1, <1>2 DEF LookUpTogether, BeginsChecking, QueriesInv
  <2> QED BY <1>0, <2>1, <2>2 DEF IInv
<1>3. CASE LookUpFails
  <2>1. pc' = "probing" /\ unprobed' = VssPaths /\ known' = known
    BY <1>3 DEF LookUpFails
  <2>2. QueriesInv'
    BY <1>0, <1>1, <2>1 DEF QueriesInv
  <2> QED BY <1>0, <2>1, <2>2, NoLoop DEF IInv
<1> QED BY <1>2, <1>3

LEMMA ProbeKeepsIInv ==
    ASSUME IInv, LoadInv', NEW path \in unprobed, Probe(path)
    PROVE  IInv'
<1>0. /\ UNCHANGED <<file_vars, peer_vars, file, kept, vehicle, catalog, index, current>>
      /\ pc = "probing" /\ QueriesInv /\ vehicle \in Vehicles /\ LoadInv
      /\ unprobed' = unprobed \ {path}
  BY DEF Probe, file_vars, peer_vars, IInv
<1>1. VssPaths' = VssPaths /\ IndexFrames(vehicle)' = IndexFrames(vehicle)
  BY <1>0, PathsAreStable, IndexIsStable
<1>2. current => /\ known' = ((VssPaths \ unprobed') \cap catalog) \ missed'
                 /\ unprobed' \subseteq VssPaths /\ missed' \cap unprobed' = {}
  <2>1. CASE known' = (IF path \in catalog THEN known \cup {path} ELSE known) /\ missed' = missed
    BY <1>0, <2>1 DEF QueriesInv
  <2>2. CASE known' = known /\ missed' = missed \cup {path}
    BY <1>0, <2>2 DEF QueriesInv
  <2> QED BY <2>1, <2>2 DEF Probe
<1>3. CASE unprobed' = {}
  <2>1. BeginsChecking
    BY <1>3 DEF Probe
  <2>2. QueriesInv'
    BY <1>0, <1>1, <1>2, <1>3, <2>1 DEF QueriesInv, BeginsChecking
  <2> QED BY <1>0, <2>1, <2>2, BeginsLoop DEF IInv
<1>4. CASE unprobed' # {}
  <2>1. pc' = pc
    BY <1>4 DEF Probe
  <2>2. QueriesInv'
    BY <1>0, <1>1, <1>2, <2>1 DEF QueriesInv
  <2> QED BY <1>0, <2>1, <2>2, NoLoop DEF IInv
<1> QED BY <1>3, <1>4

LEMMA CheckKeepsIInv ==
    ASSUME IInv, LoadInv', NEW s \in Sections, NEW i \in unchecked[s], CheckEntry(s, i)
    PROVE  IInv'
<1>0. /\ UNCHANGED <<file, kept, vehicle, catalog, index, known, missed, current>>
      /\ pc = "checking" /\ pc' \in {"checking", "serving"} /\ QueriesInv /\ vehicle \in Vehicles
  BY DEF CheckEntry, file_vars, peer_vars, query_vars, IInv
<1>1. VssPaths' = VssPaths /\ IndexFrames(vehicle)' = IndexFrames(vehicle)
  BY <1>0, PathsAreStable, IndexIsStable
<1>2. QueriesInv'
  BY <1>0, <1>1 DEF QueriesInv
<1> QED BY <1>0, <1>2, CheckKeepsLoop DEF IInv

\* Steps that leave the mapping and the answers alone.
LEMMA RestKeepsIInv ==
    ASSUME IInv, LoadInv', UNCHANGED <<file_vars, query_vars, result_vars>>,
           \/ UNCHANGED <<peer_vars, current>> /\ (pc' = pc \/ pc' = "listing")
           \/ pc' = pc /\ vehicle' \in Vehicles /\ current' = FALSE
    PROVE  IInv'
<1>0. /\ UNCHANGED <<file, kept, index, known, unprobed, missed>>
      /\ QueriesInv /\ LoopInv /\ vehicle' \in Vehicles /\ (pc' = pc \/ pc' = "listing")
  BY DEF file_vars, query_vars, peer_vars, IInv
<1>1. VssPaths' = VssPaths
  BY <1>0, PathsAreStable
<1>2. LoopInv'
  BY <1>0, LoopIsStable, NoLoop DEF query_vars
<1>3. QueriesInv'
  <2>1. CASE current' = FALSE
    BY <1>0, <2>1 DEF QueriesInv
  <2>2. CASE UNCHANGED <<peer_vars, current>>
    <3>1. UNCHANGED <<vehicle, catalog, current>> /\ IndexFrames(vehicle)' = IndexFrames(vehicle)
      BY <1>0, <2>2, IndexIsStable DEF peer_vars
    <3> QED BY <1>0, <1>1, <3>1 DEF QueriesInv
  <2> QED BY <2>1, <2>2
<1> QED BY <1>0, <1>2, <1>3 DEF IInv

LEMMA NextKeepsIInv ==
    ASSUME IInv, [Next]_vars
    PROVE  IInv'
<1>0. LoadInv'
  BY NextKeepsLoadInv DEF IInv
<1>1. CASE (\E s \in Sections : ParseEntry(s)) \/ FinishLoading
  BY <1>0, <1>1, LoadingKeepsIInv
<1>2. CASE ListFrames
  BY <1>0, <1>2, ListKeepsIInv
<1>3. CASE LookUpTogether \/ LookUpFails
  BY <1>0, <1>3, LookUpKeepsIInv
<1>4. CASE \E path \in unprobed : Probe(path)
  BY <1>0, <1>4, ProbeKeepsIInv
<1>5. CASE \E s \in Sections : \E i \in unchecked[s] : CheckEntry(s, i)
  BY <1>0, <1>5, CheckKeepsIInv
<1>6. CASE Reconnect
  BY <1>0, <1>6, RestKeepsIInv DEF Reconnect
<1>7. CASE \E s \in Sections : \E i \in survivors[s] : \E v \in Values : Carry(s, i, v)
  BY <1>0, <1>7, RestKeepsIInv DEF Carry
<1>8. CASE PeersChange
  <2>1. vehicle' \in Vehicles
    BY <1>8 DEF PeersChange, IInv
  <2> QED BY <1>0, <1>8, <2>1, RestKeepsIInv DEF PeersChange
<1>9. CASE UNCHANGED vars
  BY <1>0, <1>9, RestKeepsIInv DEF vars
<1> QED BY <1>1, <1>2, <1>3, <1>4, <1>5, <1>6, <1>7, <1>8, <1>9 DEF Next

THEOREM InvariantHolds == Spec => []IInv
BY InitIInv, NextKeepsIInv, PTL DEF Spec

\* A signal is found in the index under the names by which its frame may
\* carry it.
LEMMA ListedIsCarried ==
    ASSUME vehicle \in Vehicles, index = IndexFrames(vehicle),
           NEW e \in KeptEntries, IsPair(e.signal), e.signal[1] # ""
    PROVE  /\ IsListed(e) <=> \E f \in vehicle : Carries(f, e)
           /\ IsListed(e) => FrameOf(e) \in vehicle /\ Carries(FrameOf(e), e)
<1>1. \A f \in vehicle : \A x \in f.signals : IsPair(x)
  BY VehiclesAssumption DEF IsVehicle
<1>2. \A y : y \in index <=>
        \E f \in vehicle :
          /\ f.namespace \in {g.namespace : g \in KeptEntries}
          /\ \E x \in f.signals : y = [namespace |-> f.namespace, signal |-> Qualified(f, x), frame |-> f]
  <2> DEFINE Asked == {f \in vehicle : f.namespace \in {g.namespace : g \in KeptEntries}}
             Rows(f) == {[namespace |-> f.namespace, signal |-> Qualified(f, x), frame |-> f] : x \in f.signals}
  <2>1. index = UNION {Rows(f) : f \in Asked}
    BY Zenon DEF IndexFrames
  <2>2. \A f, y : y \in Rows(f) <=>
          \E x \in f.signals : y = [namespace |-> f.namespace, signal |-> Qualified(f, x), frame |-> f]
    OBVIOUS
  <2>3. \A f : f \in Asked <=> f \in vehicle /\ f.namespace \in {g.namespace : g \in KeptEntries}
    OBVIOUS
  <2> HIDE DEF Asked, Rows
  <2>4. \A y : y \in index <=> \E f \in Asked : y \in Rows(f)
    BY <2>1
  <2>5. ASSUME NEW y
        PROVE  (\E f \in Asked : y \in Rows(f)) <=>
               \E f \in vehicle :
                 /\ f.namespace \in {g.namespace : g \in KeptEntries}
                 /\ \E x \in f.signals : y = [namespace |-> f.namespace, signal |-> Qualified(f, x), frame |-> f]
    BY <2>2, <2>3, Zenon
  <2> QED BY <2>4, <2>5
<1>3. ASSUME NEW y \in index, y.namespace = e.namespace, y.signal = e.signal
      PROVE  y.frame \in vehicle /\ Carries(y.frame, e)
  <2>1. PICK f \in vehicle : \E x \in f.signals :
          y = [namespace |-> f.namespace, signal |-> Qualified(f, x), frame |-> f]
    BY <1>2, <1>3
  <2>2. PICK x \in f.signals :
          y = [namespace |-> f.namespace, signal |-> Qualified(f, x), frame |-> f]
    BY <2>1
  <2>3. f.namespace = e.namespace /\ Qualified(f, x) = e.signal /\ IsPair(x) /\ y.frame = f
    BY <1>1, <1>3, <2>2
  <2>4. CASE x[1] = ""
    <3>1. e.signal = <<f.name, x[2]>> /\ x = <<"", x[2]>>
      BY <2>3, <2>4 DEF Qualified, IsPair
    <3> DEFINE pair == <<f.name, x[2]>>
    <3>2. e.signal[1] = f.name /\ e.signal[2] = x[2]
      <4>1. pair[1] = f.name /\ pair[2] = x[2]
        OBVIOUS
      <4>2. e.signal[1] = pair[1] /\ e.signal[2] = pair[2]
        BY <3>1, Zenon
      <4> QED BY <4>1, <4>2, Zenon
    <3>3. <<"", e.signal[2]>> \in f.signals
      BY <3>1, <3>2
    <3> QED BY <2>3, <3>2, <3>3 DEF Carries
  <2>5. CASE x[1] # ""
    BY <2>3, <2>5 DEF Qualified, Carries
  <2> QED BY <2>4, <2>5
<1>4. ASSUME NEW f \in vehicle, Carries(f, e) PROVE IsListed(e)
  <2>1. f.namespace = e.namespace
    BY <1>4 DEF Carries
  <2>2. PICK x \in f.signals : Qualified(f, x) = e.signal
    <3>1. CASE e.signal \in f.signals
      BY <3>1 DEF Qualified
    <3>2. CASE e.signal[1] = f.name /\ <<"", e.signal[2]>> \in f.signals
      <4>1. Qualified(f, <<"", e.signal[2]>>) = <<f.name, e.signal[2]>>
        BY DEF Qualified
      <4> QED BY <3>2, <4>1 DEF IsPair
    <3> QED BY <1>4, <3>1, <3>2 DEF Carries
  <2> DEFINE y == [namespace |-> f.namespace, signal |-> Qualified(f, x), frame |-> f]
  <2>3. y \in index
    BY <1>2, <2>1
  <2> QED BY <2>1, <2>2, <2>3 DEF IsListed
<1> QED BY <1>3, <1>4 DEF IsListed, FrameOf

\* For every file and all vehicles and catalogs: with peers that stay as
\* they are, a validation keeps exactly what they support, and it gives
\* true reasons for the rest.
THEOREM ValidationIsExact == Spec => []ResultIsExact
<1>1. IInv => ResultIsExact
  <2> SUFFICES ASSUME IInv, pc = "serving", current
               PROVE  /\ \A s \in Sections : survivors[s] =
                           {i \in kept[s] : IsSupported(Entry(s, i)) /\ Entry(s, i).vss \notin missed}
                      /\ \A d \in dropped :
                          LET e == Entry(d.section, d.entry)
                          IN  /\ d.reason = "namespace" =>
                                   \A f \in vehicle : f.namespace = e.namespace => f.signals = {}
                              /\ d.reason = "signal" => \A f \in vehicle : ~Carries(f, e)
                              /\ d.reason = "path" => e.vss \notin catalog \/ e.vss \in missed
    BY DEF ResultIsExact
  <2>1. /\ vehicle \in Vehicles /\ index = IndexFrames(vehicle)
        /\ known = (VssPaths \cap catalog) \ missed
        /\ \A s \in Sections : survivors[s] = {i \in kept[s] : Reason(Entry(s, i)) = "none"}
        /\ \A d \in dropped :
            /\ d.section \in Sections /\ d.entry \in kept[d.section]
            /\ d.reason = Reason(Entry(d.section, d.entry))
    BY DEF IInv, QueriesInv, LoopInv, NoPositions
  <2>2. ASSUME NEW s \in Sections, NEW i \in kept[s]
        PROVE  /\ Entry(s, i) \in KeptEntries /\ Entry(s, i).vss \in VssPaths
               /\ IsPair(Entry(s, i).signal) /\ Entry(s, i).signal[1] # ""
    <3>1. Entry(s, i) \in KeptEntries
      BY DEF KeptEntries, EntriesAt
    <3>2. file \in Files /\ i \in 1..Len(file[s])
      BY FilesHaveLengths DEF IInv, LoadInv, LoadingFunctions, SectionInv
    <3> QED BY <3>1, <3>2, FilesAssumption DEF VssPaths, Entry, IsEntry
  <2>3. ASSUME NEW s \in Sections, NEW i \in kept[s]
        PROVE  IsListed(Entry(s, i)) <=> \E f \in vehicle : Carries(f, Entry(s, i))
    BY <2>1, <2>2, <2>3, ListedIsCarried
  <2>4. ASSUME NEW s \in Sections, NEW i \in kept[s]
        PROVE  Reason(Entry(s, i)) = "none" <=>
                 IsSupported(Entry(s, i)) /\ Entry(s, i).vss \notin missed
    <3> DEFINE e == Entry(s, i)
    <3>1. Reason(e) = "none" <=> IsListed(e) /\ e.vss \in known
      BY DEF Reason, IsListed
    <3> QED BY <2>1, <2>2, <2>3, <2>4, <3>1 DEF IsSupported
  <2>5. ASSUME NEW d \in dropped, d.reason = "namespace",
               NEW f \in vehicle, f.namespace = Entry(d.section, d.entry).namespace
        PROVE  f.signals = {}
    <3> DEFINE e == Entry(d.section, d.entry)
    <3>1. \A x \in index : x.namespace # e.namespace
      BY <2>1, <2>5 DEF Reason
    <3>2. e \in KeptEntries
      BY <2>1, <2>2
    <3>3. \A x \in f.signals : [namespace |-> f.namespace, signal |-> Qualified(f, x), frame |-> f] \in index
      BY <2>1, <2>5, <3>2 DEF IndexFrames
    <3> QED BY <2>5, <3>1, <3>3
  <2>6. ASSUME NEW d \in dropped, d.reason = "signal"
        PROVE  \A f \in vehicle : ~Carries(f, Entry(d.section, d.entry))
    <3>1. ~IsListed(Entry(d.section, d.entry))
      BY <2>1, <2>6 DEF Reason
    <3> QED BY <2>1, <2>3, <3>1
  <2>7. ASSUME NEW d \in dropped, d.reason = "path"
        PROVE  LET e == Entry(d.section, d.entry) IN e.vss \notin catalog \/ e.vss \in missed
    <3>1. Entry(d.section, d.entry).vss \notin known
      BY <2>1, <2>7 DEF Reason
    <3> QED BY <2>1, <2>2, <3>1
  <2> QED BY <2>1, <2>4, <2>5, <2>6, <2>7
<1> QED BY <1>1, InvariantHolds, PTL

(***************************************************************************)
(* Types.                                                                  *)
(***************************************************************************)

\* The parts of TypeOK by what they speak about.
FileTypes ==
    /\ file \in Files
    /\ \A s \in Sections :
        /\ read[s] \in 0..Len(file[s])
        /\ kept[s] \subseteq Positions(s) /\ rejected[s] \subseteq Positions(s)
        /\ seenCan[s] \subseteq {CanKey(e) : e \in EntriesAt(s, Positions(s))}
        /\ seenVss[s] \subseteq {e.vss : e \in EntriesAt(s, Positions(s))}
QueryTypes ==
    /\ \A x \in index : x.frame \in Frames
    /\ known \subseteq VssPaths /\ unprobed \subseteq VssPaths /\ missed \subseteq VssPaths
ResultTypes ==
    /\ DOMAIN unchecked = Sections /\ DOMAIN survivors = Sections
    /\ \A s \in Sections : unchecked[s] \subseteq kept[s] /\ survivors[s] \subseteq kept[s]
    /\ \A d \in dropped : d.section \in Sections /\ d.entry \in kept[d.section] /\ d.reason \in Reasons
    /\ warnings \in Seq(Warnings)
PeerTypes ==
    /\ pc \in PCs
    /\ vehicle \in Vehicles /\ catalog \in Catalogs
    /\ current \in BOOLEAN /\ changes \in 0..MaxChanges /\ faults \in 0..MaxFaults

\* A value is only under way while the mapping serves, and it is what its
\* entry makes of a value of a peer.
CarriedInv ==
    \/ carried = Nothing
    \/ /\ pc = "serving"
       /\ carried.section \in Sections /\ carried.entry \in survivors[carried.section]
       /\ carried.in \in Values
       /\ carried.out = IF carried.section = "to_vss"
                        THEN CanToVss(Entry(carried.section, carried.entry), carried.in)
                        ELSE VssToCan(Entry(carried.section, carried.entry), carried.in)

TypesInv == QueryTypes /\ ResultTypes /\ PeerTypes /\ CarriedInv

LEMMA LoadedTypes ==
    ASSUME LoadInv
    PROVE  FileTypes
<1>1. file \in Files
  BY DEF LoadInv, LoadingFunctions
<1> SUFFICES ASSUME NEW s \in Sections
             PROVE  /\ read[s] \in 0..Len(file[s])
                    /\ kept[s] \subseteq Positions(s) /\ rejected[s] \subseteq Positions(s)
                    /\ seenCan[s] \subseteq {CanKey(e) : e \in EntriesAt(s, Positions(s))}
                    /\ seenVss[s] \subseteq {e.vss : e \in EntriesAt(s, Positions(s))}
  BY <1>1 DEF FileTypes
<1>2. SectionInv(s) /\ Len(file[s]) \in Nat
  BY <1>1, FilesHaveLengths DEF LoadInv
<1>3. kept[s] \subseteq Positions(s) /\ rejected[s] \subseteq Positions(s)
  BY <1>2 DEF SectionInv, Positions
<1>4. \A i \in kept[s] : Entry(s, i) \in EntriesAt(s, Positions(s))
  BY <1>3 DEF EntriesAt
<1> QED BY <1>2, <1>3, <1>4 DEF SectionInv

LEMMA KeptGrows ==
    ASSUME file' = file, \A s \in Sections : kept[s] \subseteq kept'[s]
    PROVE  VssPaths \subseteq VssPaths'
BY DEF VssPaths, KeptEntries, EntriesAt, Entry

LEMMA InitTypes == Init => TypesInv
BY BoundsAssumption DEF Init, TypesInv, QueryTypes, ResultTypes, PeerTypes, CarriedInv, NoPositions, PCs

\* Nothing but the file, where more is kept, and the phase has changed.
LEMMA LoadingKeepsTypes ==
    ASSUME LoadInv, TypesInv, \/ \E s \in Sections : ParseEntry(s)
                              \/ FinishLoading
    PROVE  TypesInv'
<1>1. /\ file' = file /\ pc = "loading" /\ pc' \in PCs
      /\ UNCHANGED <<peer_vars, query_vars, result_vars, carried, current>>
  BY DEF ParseEntry, FinishLoading, file_vars, PCs
<1>2. \A s \in Sections : kept[s] \subseteq kept'[s]
  BY DEF ParseEntry, Keeps, Rejects, FinishLoading, file_vars, LoadInv, LoadingFunctions
<1>3. VssPaths \subseteq VssPaths'
  BY <1>1, <1>2, KeptGrows
<1>4. QueryTypes'
  BY <1>1, <1>3 DEF TypesInv, QueryTypes, query_vars
<1>5. ResultTypes'
  BY <1>1, <1>2 DEF TypesInv, ResultTypes, result_vars
<1>6. PeerTypes' /\ CarriedInv'
  BY <1>1 DEF TypesInv, PeerTypes, CarriedInv, peer_vars, query_vars
<1> QED BY <1>4, <1>5, <1>6 DEF TypesInv

LEMMA IndexHasFrames ==
    ASSUME vehicle \in Vehicles, NEW x \in IndexFrames(vehicle)
    PROVE  x.frame \in Frames
<1> DEFINE Rows(f) == {[namespace |-> f.namespace, signal |-> Qualified(f, y), frame |-> f] : y \in f.signals}
<1>1. PICK f \in vehicle : x \in Rows(f)
  BY DEF IndexFrames
<1>2. x.frame = f
  BY <1>1
<1> QED BY <1>1, <1>2 DEF Frames

LEMMA BeginsTypes ==
    ASSUME LoadInv, BeginsChecking, UNCHANGED file_vars
    PROVE  ResultTypes'
BY DEF LoadInv, LoadingFunctions, ResultTypes, BeginsChecking, NoPositions, file_vars

LEMMA QueriesKeepTypes ==
    ASSUME LoadInv, TypesInv, UNCHANGED <<file_vars, carried>>, carried = Nothing \/ pc # "serving",
           PeerTypes', QueryTypes', UNCHANGED result_vars \/ BeginsChecking
    PROVE  TypesInv'
<1>1. ResultTypes'
  BY BeginsTypes DEF TypesInv, ResultTypes, result_vars, file_vars
<1> QED BY <1>1 DEF TypesInv, CarriedInv

LEMMA AnswersKeepTypes ==
    ASSUME LoadInv, TypesInv,
           ListFrames \/ LookUpTogether \/ LookUpFails \/ \E path \in unprobed : Probe(path)
    PROVE  TypesInv'
<1>1. UNCHANGED <<file_vars, peer_vars, carried, file, kept, vehicle, catalog, changes>> /\ pc # "serving"
  BY DEF ListFrames, LookUpTogether, LookUpFails, Probe, file_vars, peer_vars
<1>2. VssPaths' = VssPaths
  BY <1>1, PathsAreStable
<1>3. CASE ListFrames
  <2>1. PeerTypes'
    BY <1>1, <1>3 DEF ListFrames, TypesInv, PeerTypes, PCs
  <2>2. QueryTypes'
    BY <1>1, <1>3, IndexHasFrames DEF ListFrames, TypesInv, PeerTypes, QueryTypes
  <2> QED BY <1>1, <1>3, <2>1, <2>2, QueriesKeepTypes DEF ListFrames
<1>4. CASE LookUpTogether
  <2>1. PeerTypes'
    BY <1>1, <1>4 DEF LookUpTogether, BeginsChecking, TypesInv, PeerTypes, PCs
  <2>2. QueryTypes'
    BY <1>1, <1>2, <1>4 DEF LookUpTogether, TypesInv, QueryTypes
  <2> QED BY <1>1, <1>4, <2>1, <2>2, QueriesKeepTypes DEF LookUpTogether
<1>5. CASE LookUpFails
  <2>1. PeerTypes'
    BY <1>1, <1>5, BoundsAssumption DEF LookUpFails, Fault, TypesInv, PeerTypes, PCs
  <2>2. QueryTypes'
    BY <1>1, <1>2, <1>5 DEF LookUpFails, TypesInv, QueryTypes
  <2> QED BY <1>1, <1>5, <2>1, <2>2, QueriesKeepTypes DEF LookUpFails
<1>6. ASSUME NEW path \in unprobed, Probe(path) PROVE TypesInv'
  <2>1. BeginsChecking \/ UNCHANGED <<pc, result_vars>>
    BY <1>6 DEF Probe
  <2>2. PeerTypes'
    BY <1>1, <1>6, <2>1, BoundsAssumption DEF Probe, BeginsChecking, Fault, TypesInv, PeerTypes, PCs
  <2>3. path \in VssPaths /\ index' = index
    BY <1>6 DEF Probe, TypesInv, QueryTypes
  <2>4. QueryTypes'
    BY <1>1, <1>2, <1>6, <2>3 DEF Probe, TypesInv, QueryTypes
  <2> QED BY <1>1, <2>1, <2>2, <2>4, QueriesKeepTypes
<1> QED BY <1>3, <1>4, <1>5, <1>6

\* A listed entry has a frame of the index.
LEMMA ListedHasFrame ==
    ASSUME NEW e, IsListed(e)
    PROVE  \E x \in index : x.namespace = e.namespace /\ x.signal = e.signal /\ FrameOf(e) = x.frame
BY DEF IsListed, FrameOf

LEMMA KeptIsListed ==
    ASSUME NEW e, Reason(e) = "none"
    PROVE  IsListed(e)
BY DEF Reason

LEMMA CautionsAreWarnings ==
    ASSUME TypesInv, NEW s \in Sections, NEW e, Reason(e) = "none"
    PROVE  \/ Cautions(s, e) = <<>>
           \/ \E n \in Notes : Cautions(s, e) = <<Warning(s, n, FrameOf(e))>> /\ Warning(s, n, FrameOf(e)) \in Warnings
<1>1. FrameOf(e) \in Frames
  BY ListedHasFrame, KeptIsListed DEF TypesInv, QueryTypes
<1>2. \A n \in Notes : Warning(s, n, FrameOf(e)) \in Warnings
  BY <1>1 DEF Warning, Warnings
<1>3. \/ Cautions(s, e) = <<>>
      \/ \E n \in Notes : Cautions(s, e) = <<Warning(s, n, FrameOf(e))>>
  BY DEF Cautions, Notes
<1> QED BY <1>2, <1>3

LEMMA CheckKeepsTypes ==
    ASSUME LoadInv, TypesInv, NEW s \in Sections, NEW i \in unchecked[s], CheckEntry(s, i)
    PROVE  TypesInv'
<1> DEFINE e == Entry(s, i)
           d == [section |-> s, entry |-> i, reason |-> Reason(e)]
<1>1. /\ UNCHANGED <<file_vars, peer_vars, query_vars, carried, current>>
      /\ file' = file /\ kept' = kept /\ pc = "checking" /\ pc' \in PCs
      /\ unchecked' = [unchecked EXCEPT ![s] = @ \ {i}] /\ i \in kept[s]
  BY DEF CheckEntry, TypesInv, ResultTypes, file_vars, PCs
<1>2. QueryTypes' /\ PeerTypes' /\ CarriedInv'
  <2>1. VssPaths' = VssPaths
    BY <1>1, PathsAreStable
  <2> QED BY <1>1, <2>1 DEF TypesInv, QueryTypes, PeerTypes, CarriedInv, peer_vars, query_vars
<1>3. CASE Reason(e) = "none"
  <2>1. /\ survivors' = [survivors EXCEPT ![s] = @ \cup {i}]
        /\ dropped' = dropped /\ warnings' = warnings \o Cautions(s, e)
    BY <1>3 DEF CheckEntry
  <2>2. warnings' \in Seq(Warnings)
    <3>1. Cautions(s, e) \in Seq(Warnings)
      <4>1. CASE Cautions(s, e) = <<>>
        BY <4>1
      <4>2. ASSUME NEW w \in Warnings, Cautions(s, e) = <<w>> PROVE Cautions(s, e) \in Seq(Warnings)
        BY <4>2
      <4> QED BY <1>3, <4>1, <4>2, CautionsAreWarnings
    <3> QED BY <2>1, <3>1 DEF TypesInv, ResultTypes
  <2> QED BY <1>1, <1>2, <2>1, <2>2 DEF TypesInv, ResultTypes
<1>4. CASE Reason(e) # "none"
  <2>1. survivors' = survivors /\ dropped' = dropped \cup {d} /\ warnings' = warnings
    BY <1>4 DEF CheckEntry
  <2>2. d.section = s /\ d.entry = i /\ d.reason \in Reasons
    BY <1>4 DEF Reason, Reasons
  <2> HIDE DEF d
  <2> QED BY <1>1, <1>2, <2>1, <2>2 DEF TypesInv, ResultTypes
<1> QED BY <1>3, <1>4

LEMMA CarryKeepsTypes ==
    ASSUME TypesInv, NEW s \in Sections, NEW i \in survivors[s], NEW v \in Values, Carry(s, i, v)
    PROVE  TypesInv'
<1>1. /\ UNCHANGED <<file_vars, peer_vars, query_vars, result_vars, pc, current, file, kept>> /\ pc = "serving"
      /\ carried' = [section |-> s, entry |-> i, in |-> v,
                     out |-> IF s = "to_vss" THEN CanToVss(Entry(s, i), v) ELSE VssToCan(Entry(s, i), v)]
  BY DEF Carry, file_vars
<1>2. VssPaths' = VssPaths /\ Entry(s, i)' = Entry(s, i)
  BY <1>1, PathsAreStable, EntryIsStable
<1>3. CarriedInv'
  BY <1>1, <1>2 DEF CarriedInv, result_vars
<1> QED BY <1>1, <1>2, <1>3 DEF TypesInv, QueryTypes, ResultTypes, PeerTypes, peer_vars, query_vars, result_vars

\* Steps that leave the mapping, the answers and the result alone.
LEMMA RestKeepsTypes ==
    ASSUME TypesInv, Reconnect \/ PeersChange \/ UNCHANGED vars
    PROVE  TypesInv'
<1>1. /\ UNCHANGED <<file, kept, index, known, unprobed, missed, faults, unchecked, survivors, dropped, warnings>>
      /\ carried' = Nothing \/ UNCHANGED <<carried, pc>>
  BY DEF Reconnect, PeersChange, vars, file_vars, query_vars, result_vars
<1>2. VssPaths' = VssPaths
  BY <1>1, PathsAreStable
<1>3. PeerTypes'
  <2>1. CASE PeersChange
    <3>1. changes \in Nat /\ changes' = changes + 1 /\ changes' \in 0..MaxChanges
      BY <2>1, BoundsAssumption DEF PeersChange, TypesInv, PeerTypes
    <3>2. vehicle' \in Vehicles /\ catalog' \in Catalogs /\ pc' = pc /\ current' \in BOOLEAN
      BY <2>1 DEF PeersChange, TypesInv, PeerTypes
    <3> QED BY <1>1, <3>1, <3>2 DEF TypesInv, PeerTypes
  <2>2. CASE Reconnect \/ UNCHANGED vars
    BY <1>1, <2>2 DEF Reconnect, vars, peer_vars, TypesInv, PeerTypes, PCs
  <2> QED BY <2>1, <2>2
<1>4. CarriedInv'
  BY <1>1, EntryIsStable DEF TypesInv, CarriedInv
<1> QED BY <1>1, <1>2, <1>3, <1>4 DEF TypesInv, QueryTypes, ResultTypes

LEMMA NextKeepsTypes ==
    ASSUME LoadInv, TypesInv, [Next]_vars
    PROVE  TypesInv'
BY LoadingKeepsTypes, AnswersKeepTypes, CheckKeepsTypes, CarryKeepsTypes, RestKeepsTypes DEF Next

THEOREM TypesHold == Spec => []TypesInv
BY InitTypes, NextKeepsTypes, LoadingHolds, PTL DEF Spec

\* For every file, vehicle and catalog: the variables have their types, and
\* what a validation keeps and drops are entries that loading kept.
THEOREM TypeCorrect == Spec => []TypeOK
<1>1. LoadInv /\ TypesInv => TypeOK
  BY LoadedTypes DEF TypeOK, TypesInv, FileTypes, QueryTypes, ResultTypes, PeerTypes, CarriedInv
<1> QED BY <1>1, LoadingHolds, TypesHold, PTL

(***************************************************************************)
(* Conversions.                                                            *)
(***************************************************************************)

LEMMA CoercionFits ==
    ASSUME NEW type \in Types, NEW v
    PROVE  CoerceValue(v, type) = Dropped \/ CoerceValue(v, type).kind = KindOf(type)
<1>1. CASE type = "boolean"
  BY <1>1 DEF CoerceValue, ToBoolean, BoolVal, Value, KindOf
<1>2. CASE type = "string"
  BY <1>2 DEF CoerceValue, ToString, Decimal, Word, Value, KindOf
<1>3. CASE type = "int"
  BY <1>3 DEF CoerceValue, ToInt, IntVal, Value, KindOf
<1>4. CASE type = "float"
  BY <1>4 DEF CoerceValue, AsNumber, FloatVal, Value, KindOf
<1> QED BY <1>1, <1>2, <1>3, <1>4 DEF Types

\* A range lets texts, booleans and the numbers it contains pass, fails on a
\* null or a list, and alters nothing.
LEMMA RangeHolds ==
    ASSUME NEW e, NEW v
    PROVE  /\ CheckRange(e, v) \in {v, Dropped, Raised}
           /\ v.kind \notin {"none", "list"} => CheckRange(e, v) \in {v, Dropped}
           /\ CheckRange(e, v) # v /\ CheckRange(e, v) = Raised =>
                e.range # <<>> /\ v.kind \in {"none", "list"}
           /\ e.range # <<>> /\ CheckRange(e, v) \notin {Dropped, Raised} =>
                /\ CheckRange(e, v) = v /\ v.kind \notin {"none", "list", "nan"}
                /\ IsNumber(v) => e.range[1] <= v.n /\ v.n <= e.range[2]
<1>1. Dropped # Raised
  BY DEF Dropped, Raised, Value
<1> QED BY <1>1 DEF CheckRange

\* A dict answers with a value of its own; only a list is refused.
LEMMA LookUpAnswers ==
    ASSUME NEW pairs, NEW from, NEW to, NEW v
    PROVE  \/ v.kind = "list" /\ LookUp(pairs, from, to, v) = Raised
           \/ LookUp(pairs, from, to, v) = Dropped
           \/ \E j \in DOMAIN pairs : LookUp(pairs, from, to, v) = pairs[j][to]
<1> DEFINE Hits == {j \in DOMAIN pairs : v.kind # "nan" /\ PyEqual(pairs[j][from], v)}
<1>1. CASE v.kind = "list"
  BY <1>1 DEF LookUp
<1>2. CASE v.kind # "list" /\ Hits = {}
  BY <1>2 DEF LookUp
<1>3. CASE v.kind # "list" /\ Hits # {}
  <2>1. (CHOOSE j \in Hits : TRUE) \in Hits
    BY <1>3
  <2>2. LookUp(pairs, from, to, v) = pairs[CHOOSE j \in Hits : TRUE][to]
    BY <1>3 DEF LookUp
  <2> QED BY <2>1, <2>2
<1> QED BY <1>1, <1>2, <1>3

LEMMA SpecialValues ==
    /\ Dropped.kind = "dropped" /\ Raised.kind = "raised" /\ NaN.kind = "nan"
    /\ \A type \in Types : KindOf(type) \in {"bool", "str", "int", "float"}
BY DEF Dropped, Raised, NaN, Value, KindOf, Types

LEMMA DataIsNoFailure == \A v : IsData(v) => v # Dropped /\ v # Raised
BY SpecialValues DEF IsData

LEMMA DataKinds == \A v : IsData(v) => v.kind \in {"int", "float", "bool", "str", "nan", "none", "list"}
BY DEF IsData

LEMMA NumberKinds ==
    ASSUME NEW spec, NEW v
    PROVE  /\ \/ Scaled(spec, v) \in {Dropped, NaN}
              \/ Scaled(spec, v).kind = "float"
           /\ Exceeds(spec, v) = Dropped \/ Exceeds(spec, v).kind = "bool"
           /\ \/ Unscaled(spec, v) = Dropped
              \/ Unscaled(spec, v).kind = "float"
              \/ Unscaled(spec, v) = NaN /\ spec.offset = NaN
<1>1. \A n : FloatVal(n).kind = "float" /\ BoolVal(n).kind = "bool"
  BY DEF FloatVal, BoolVal, Value
<1>2. Exceeds(spec, v) = Dropped \/ Exceeds(spec, v).kind = "bool"
  BY <1>1 DEF Exceeds
<1>3. CASE AsNumber(v) = Dropped
  BY <1>2, <1>3 DEF Scaled, Unscaled
<1>4. CASE AsNumber(v) # Dropped /\ spec.offset = NaN
  BY <1>2, <1>4 DEF Scaled, Unscaled
<1>5. CASE AsNumber(v) # Dropped /\ spec.offset # NaN
  <2>1. Scaled(spec, v) = FloatVal(Quotient(v.n * spec.scale[1], spec.scale[2]) + spec.offset.n)
    BY <1>5 DEF Scaled
  <2>2. Unscaled(spec, v) = FloatVal(Quotient((v.n - spec.offset.n) * spec.scale[2], spec.scale[1]))
    BY <1>5 DEF Unscaled
  <2> QED BY <1>1, <1>2, <2>1, <2>2, Zenon
<1> QED BY <1>3, <1>4, <1>5

\* What a sound entry and a value of a peer give: forwards, a value of the
\* type of the entry.
LEMMA ForwardFits ==
    ASSUME NEW e, e.shape = "sound", IsEntry(e), NEW v, IsData(v)
    PROVE  LET out == CanToVss(e, v)
           IN  /\ out \in {Dropped, Raised} \/ out.kind = KindOf(e.type)
               /\ out = Raised => v.kind = "list" /\ e.transform.op = "enum"
               /\ e.range # <<>> /\ out \notin {Dropped, Raised} =>
                    \/ out.kind \in {"str", "bool"}
                    \/ IsNumber(out) /\ e.range[1] <= out.n /\ out.n <= e.range[2]
<1> DEFINE spec == e.transform
           x == CASE spec.op = "linear"      -> Scaled(spec, v)
                  [] spec.op = "threshold"   -> Exceeds(spec, v)
                  [] spec.op = "enum"        -> LookUp(spec.map, 1, 2, v)
                  [] spec.op = "passthrough" -> v
           y == CoerceValue(x, e.type)
           out == CanToVss(e, v)
<1>1. e.type \in Types /\ spec.op \in Ops /\ \A j \in DOMAIN spec.map : IsData(spec.map[j][2])
  BY DEF IsEntry
<1>2. x = Raised => v.kind = "list" /\ spec.op = "enum"
  <2>1. CASE spec.op = "linear"
    BY <2>1, NumberKinds, SpecialValues
  <2>2. CASE spec.op = "threshold"
    BY <2>2, NumberKinds, SpecialValues
  <2>3. CASE spec.op = "enum"
    <3>1. x = LookUp(spec.map, 1, 2, v)
      BY <2>3
    <3> HIDE DEF x
    <3> QED BY <1>1, <2>3, <3>1, LookUpAnswers, SpecialValues, DataIsNoFailure
  <2>4. CASE spec.op = "passthrough"
    BY <2>4, SpecialValues DEF IsData
  <2> QED BY <1>1, <2>1, <2>2, <2>3, <2>4 DEF Ops
<1>3. out = IF x \in {Dropped, Raised} THEN x ELSE CheckRange(e, y)
  BY DEF CanToVss
<1>4. y = Dropped \/ y.kind = KindOf(e.type)
  BY <1>1, CoercionFits
<1>5. /\ y.kind \notin {"none", "list"} => CheckRange(e, y) \in {y, Dropped}
      /\ e.range # <<>> /\ CheckRange(e, y) \notin {Dropped, Raised} =>
           CheckRange(e, y) = y /\ (IsNumber(y) => e.range[1] <= y.n /\ y.n <= e.range[2])
  BY RangeHolds
<1>6. /\ y # Raised /\ y.kind \notin {"none", "list"}
      /\ y = Dropped \/ y.kind \in {"str", "bool"} \/ IsNumber(y)
  BY <1>1, <1>4, SpecialValues DEF IsNumber
<1> HIDE DEF x, y, out
<1>7. /\ out \in {Dropped, Raised} \/ out.kind = KindOf(e.type)
      /\ out = Raised => v.kind = "list" /\ spec.op = "enum"
      /\ e.range # <<>> /\ out \notin {Dropped, Raised} =>
           \/ out.kind \in {"str", "bool"}
           \/ IsNumber(out) /\ e.range[1] <= out.n /\ out.n <= e.range[2]
  <2>1. CASE x \in {Dropped, Raised}
    BY <1>2, <1>3, <2>1, SpecialValues
  <2>2. CASE x \notin {Dropped, Raised}
    <3>1. out = CheckRange(e, y) /\ out \in {y, Dropped}
      BY <1>3, <1>5, <1>6, <2>2
    <3>2. e.range # <<>> /\ out \notin {Dropped, Raised} =>
            out = y /\ (IsNumber(y) => e.range[1] <= y.n /\ y.n <= e.range[2])
      BY <1>5, <3>1
    <3>3. out = Dropped \/ out.kind = KindOf(e.type)
      BY <1>4, <3>1
    <3>4. out # Raised
      BY <1>6, <3>1, SpecialValues
    <3> QED BY <1>6, <3>2, <3>3, <3>4
  <2> QED BY <2>1, <2>2
<1> QED BY <1>7 DEF out

\* Backwards, within the range; NaN, and a failure on other than a list, only
\* from an entry that holds what makes it so.
LEMMA BackwardFits ==
    ASSUME NEW e, e.shape = "sound", IsEntry(e), NEW v, IsData(v)
    PROVE  LET out == VssToCan(e, v)
           IN  /\ out = Raised =>
                    \/ v.kind = "list" /\ e.transform.op = "enum"
                    \/ HoldsNoNumber(e.transform) /\ e.range # <<>>
               /\ out = NaN => NaN \in Held(e.transform) /\ e.range = <<>>
               /\ e.range # <<>> /\ out \notin {Dropped, Raised} =>
                    \/ out.kind \in {"str", "bool"}
                    \/ IsNumber(out) /\ e.range[1] <= out.n /\ out.n <= e.range[2]
<1> DEFINE spec == e.transform
           y == CASE spec.op = "linear"      -> Unscaled(spec, v)
                  [] spec.op = "threshold"   -> Level(spec, v)
                  [] spec.op = "enum"        -> LookUp(spec.map, 2, 1, v)
                  [] spec.op = "passthrough" -> CoerceValue(v, e.type)
           out == VssToCan(e, v)
<1>1. /\ e.type \in Types /\ spec.op \in Ops /\ IsData(spec.high) /\ IsData(spec.low)
      /\ \A j \in DOMAIN spec.map : IsData(spec.map[j][1])
  BY DEF IsEntry
<1>2. /\ y = Raised => v.kind = "list" /\ spec.op = "enum"
      /\ \/ y \in {Dropped, Raised} \/ y.kind \in {"str", "bool", "int", "float"}
         \/ y \in Held(spec) /\ y.kind \in {"int", "float", "bool", "str", "nan", "none", "list"}
  <2>1. CASE spec.op = "linear"
    <3>1. y = Unscaled(spec, v)
      BY <2>1
    <3>2. Held(spec) = {spec.offset}
      BY <2>1 DEF Held
    <3>3. y = Dropped \/ y.kind = "float" \/ (y = NaN /\ spec.offset = NaN)
      BY <3>1, NumberKinds
    <3> HIDE DEF y
    <3> QED BY <3>2, <3>3, SpecialValues
  <2>2. CASE spec.op = "threshold"
    <3>1. y = Level(spec, v)
      BY <2>2
    <3>2. Held(spec) = {spec.high, spec.low}
      BY <2>2 DEF Held
    <3>3. y \in {Dropped, spec.high, spec.low}
      BY <3>1 DEF Level
    <3> HIDE DEF y
    <3> QED BY <1>1, <3>2, <3>3, DataIsNoFailure, DataKinds, SpecialValues
  <2>3. CASE spec.op = "enum"
    <3>1. y = LookUp(spec.map, 2, 1, v)
      BY <2>3
    <3>2. Held(spec) = {spec.map[j][1] : j \in DOMAIN spec.map}
      BY <2>3 DEF Held
    <3> HIDE DEF y
    <3>3. \/ v.kind = "list" /\ y = Raised
          \/ y = Dropped
          \/ \E j \in DOMAIN spec.map : y = spec.map[j][1]
      BY <3>1, LookUpAnswers
    <3> QED BY <1>1, <2>3, <3>2, <3>3, DataIsNoFailure, DataKinds, SpecialValues
  <2>4. CASE spec.op = "passthrough"
    <3>1. y = CoerceValue(v, e.type)
      BY <2>4
    <3> HIDE DEF y
    <3> QED BY <1>1, <3>1, CoercionFits, SpecialValues
  <2> QED BY <1>1, <2>1, <2>2, <2>3, <2>4 DEF Ops
<1>3. out = CheckRange(e, y)
  BY DEF VssToCan
<1> HIDE DEF y
<1>4. /\ out \in {y, Dropped, Raised}
      /\ out # y /\ out = Raised => e.range # <<>> /\ y.kind \in {"none", "list"}
      /\ e.range # <<>> /\ out \notin {Dropped, Raised} =>
           /\ out = y /\ y.kind \notin {"none", "list", "nan"}
           /\ IsNumber(y) => e.range[1] <= y.n /\ y.n <= e.range[2]
  BY <1>3, RangeHolds
<1> HIDE DEF out
<1>5. SUFFICES /\ out = Raised =>
                    \/ v.kind = "list" /\ spec.op = "enum"
                    \/ HoldsNoNumber(spec) /\ e.range # <<>>
               /\ out = NaN => NaN \in Held(spec) /\ e.range = <<>>
               /\ e.range # <<>> /\ out \notin {Dropped, Raised} =>
                    \/ out.kind \in {"str", "bool"}
                    \/ IsNumber(out) /\ e.range[1] <= out.n /\ out.n <= e.range[2]
  BY DEF out
<1>6. ASSUME out = Raised
      PROVE  \/ v.kind = "list" /\ spec.op = "enum"
             \/ HoldsNoNumber(spec) /\ e.range # <<>>
  <2>1. CASE y = Raised
    BY <1>2, <2>1
  <2>2. CASE y # Raised
    <3>1. e.range # <<>> /\ y.kind \in {"none", "list"}
      BY <1>4, <1>6, <2>2
    <3> QED BY <1>2, <3>1, SpecialValues DEF HoldsNoNumber
  <2> QED BY <2>1, <2>2
<1>7. out = NaN => NaN \in Held(spec) /\ e.range = <<>>
  BY <1>2, <1>4, SpecialValues
<1>8. ASSUME e.range # <<>>, out \notin {Dropped, Raised}
      PROVE  \/ out.kind \in {"str", "bool"}
             \/ IsNumber(out) /\ e.range[1] <= out.n /\ out.n <= e.range[2]
  <2>1. out = y /\ y.kind \notin {"none", "list", "nan"}
    BY <1>4, <1>8
  <2>2. y.kind \in {"str", "bool", "int", "float"}
    BY <1>2, <1>8, <2>1
  <2> QED BY <1>4, <1>8, <2>1, <2>2 DEF IsNumber
<1> QED BY <1>6, <1>7, <1>8

\* What was carried is a value of a peer, and its entry is one that loading
\* kept.
LEMMA CarriedIsSound ==
    ASSUME LoadInv, TypesInv, carried # Nothing
    PROVE  LET s == carried.section
               e == Entry(s, carried.entry)
               v == carried.in
           IN  /\ s \in Sections /\ IsEntry(e) /\ e.shape = "sound" /\ EntryVerdict(e) = "mapping"
               /\ IsData(v) /\ ScalesExactly(s, e.transform, v)
               /\ carried.out = IF s = "to_vss" THEN CanToVss(e, v) ELSE VssToCan(e, v)
<1> DEFINE s == carried.section
           i == carried.entry
           e == Entry(s, i)
           v == carried.in
<1>1. /\ s \in Sections /\ i \in kept[s] /\ v \in Values
      /\ carried.out = IF s = "to_vss" THEN CanToVss(e, v) ELSE VssToCan(e, v)
  BY DEF TypesInv, CarriedInv, ResultTypes
<1>2. file \in Files /\ i \in 1..Len(file[s]) /\ EntryVerdict(e) = "mapping"
  BY <1>1, LoadedTypes DEF FileTypes, Positions, LoadInv, SectionInv
<1>3. IsEntry(e)
  BY <1>1, <1>2, FilesAssumption DEF Entry
<1>4. e.shape = "sound"
  BY <1>2, <1>3 DEF EntryVerdict, IsEntry, Shapes
<1>5. IsData(v) /\ ScalesExactly(s, e.transform, v)
  BY <1>1, <1>2, <1>4, ValuesAssumption, RoundingAssumption DEF Entry
<1> QED BY <1>1, <1>2, <1>3, <1>4, <1>5

\* For every file, vehicle and value: what a conversion gives has the type
\* and the range of its entry, is NaN only where the entry holds NaN, and a
\* conversion fails otherwise than by a drop only on a list looked up in an
\* enum or on a null or a list that an entry with a range holds.
THEOREM ConversionsFit == Spec => []OutputFits
<1>1. LoadInv /\ TypesInv => OutputFits
  <2> SUFFICES ASSUME LoadInv, TypesInv, carried # Nothing PROVE OutputFits
    BY DEF OutputFits
  <2> DEFINE s == carried.section
             e == Entry(s, carried.entry)
             out == carried.out
  <2>1. /\ s \in Sections /\ IsEntry(e) /\ e.shape = "sound" /\ IsData(carried.in)
        /\ out = IF s = "to_vss" THEN CanToVss(e, carried.in) ELSE VssToCan(e, carried.in)
    BY CarriedIsSound
  <2> HIDE DEF e
  <2>2. CASE s = "to_vss"
    <3>1. out = CanToVss(e, carried.in)
      BY <2>1, <2>2
    <3>2. e.type \in Types
      BY <2>1 DEF IsEntry
    <3>3. out # NaN
      BY <2>1, <3>1, <3>2, ForwardFits, SpecialValues
    <3> QED BY <2>1, <2>2, <3>1, <3>3, ForwardFits DEF OutputFits, Sent, e
  <2>3. CASE s # "to_vss"
    <3>1. out = VssToCan(e, carried.in) /\ s = "to_can"
      BY <2>1, <2>3 DEF Sections
    <3> QED BY <2>1, <3>1, BackwardFits DEF OutputFits, Sent, e
  <2> QED BY <2>2, <2>3
<1> QED BY <1>1, LoadingHolds, TypesHold, PTL

(***************************************************************************)
(* The way there and back.                                                 *)
(***************************************************************************)

LEMMA QuotientExact ==
    ASSUME NEW x \in Int, NEW y \in Int, y # 0, NEW m \in Int, m * y = x
    PROVE  Quotient(x, y) = m
<1>1. \A k, d \in Int : d > 0 => (k * d) \div d = k
  OBVIOUS
<1>2. CASE y > 0
  BY <1>1, <1>2 DEF Quotient
<1>3. CASE y < 0
  <2>1. -x = m * (-y) /\ -y \in Int /\ -y > 0 /\ ~(y > 0)
    BY <1>3
  <2>2. (m * (-y)) \div (-y) = m
    BY <1>1, <2>1
  <2> QED BY <2>1, <2>2 DEF Quotient
<1> QED BY <1>2, <1>3

LEMMA NumbersAreData ==
    ASSUME NEW v, AsNumber(v) # Dropped
    PROVE  /\ HasNumber(v) /\ v.kind # "bool" /\ AsNumber(v) = FloatVal(v.n)
           /\ v # NaN /\ v.kind # "list"
BY SpecialValues DEF AsNumber, HasNumber, IsNumber, IsDecimal

LEMMA Constructors ==
    /\ \A n : FloatVal(n).n = n /\ FloatVal(n).kind = "float"
    /\ \A n : IntVal(n).n = n /\ IntVal(n).kind = "int"
    /\ \A n, f : Decimal(n, f).n = n /\ Decimal(n, f).kind = "str" /\ Decimal(n, f).word = f
    /\ \A w : Word(w).n = 0 /\ Word(w).kind = "str" /\ Word(w).word = w
    /\ BoolVal(TRUE).n = 4 /\ BoolVal(FALSE).n = 0 /\ Unit = 4
    /\ BoolVal(TRUE).kind = "bool" /\ BoolVal(FALSE).kind = "bool"
    /\ BoolVal(TRUE) = Value("bool", 4, "") /\ BoolVal(FALSE) = Value("bool", 0, "")
<1>1. \A k, n, w : Value(k, n, w).kind = k /\ Value(k, n, w).n = n /\ Value(k, n, w).word = w
  BY DEF Value
<1>2. BoolVal(TRUE) = Value("bool", 4, "") /\ BoolVal(FALSE) = Value("bool", 0, "")
  BY DEF BoolVal, Unit
<1>3. Unit = 4
  BY DEF Unit
<1>4. ASSUME NEW n PROVE FloatVal(n).n = n /\ FloatVal(n).kind = "float" /\ IntVal(n).n = n /\ IntVal(n).kind = "int"
  BY <1>1, Zenon DEF FloatVal, IntVal
<1>5. ASSUME NEW n, NEW f PROVE Decimal(n, f).n = n /\ Decimal(n, f).kind = "str" /\ Decimal(n, f).word = f
  <2>1. Decimal(n, f) = Value("str", n, f)
    BY Zenon DEF Decimal
  <2> QED BY <1>1, <2>1
<1>6. ASSUME NEW w PROVE Word(w).n = 0 /\ Word(w).kind = "str" /\ Word(w).word = w
  <2>1. Word(w) = Value("str", 0, w)
    BY Zenon DEF Word
  <2> QED BY <1>1, <2>1
<1>7. /\ BoolVal(TRUE).n = 4 /\ BoolVal(FALSE).n = 0
      /\ BoolVal(TRUE).kind = "bool" /\ BoolVal(FALSE).kind = "bool"
  <2>1. Value("bool", 4, "").kind = "bool" /\ Value("bool", 4, "").n = 4 /\ Value("bool", 0, "").kind = "bool" /\ Value("bool", 0, "").n = 0
    BY DEF Value
  <2> QED BY <1>2, <2>1, Zenon
<1> QED BY <1>2, <1>3, <1>4, <1>5, <1>6, <1>7, Zenon

LEMMA TruthValues ==
    ASSUME NEW v
    PROVE  /\ v = BoolVal(TRUE) => v.kind = "bool" /\ v.n = 4
           /\ v = BoolVal(FALSE) => v.kind = "bool" /\ v.n = 0
           /\ v = Word("true") => v.kind = "str" /\ v.word = "true"
           /\ v = Word("false") => v.kind = "str" /\ v.word = "false"
           /\ v = Decimal(Unit, "int") => v.kind = "str" /\ v.n = 4 /\ v.word = "int"
           /\ v = Decimal(0, "int") => v.kind = "str" /\ v.n = 0 /\ v.word = "int"
           /\ Unit = 4
<1>1. Word("true").kind = "str" /\ Word("true").word = "true" /\ Word("false").kind = "str" /\ Word("false").word = "false"
  BY Constructors, Zenon
<1>2. Decimal(Unit, "int").kind = "str" /\ Decimal(Unit, "int").n = Unit /\ Decimal(Unit, "int").word = "int"
  BY DEF Decimal, Value, Unit
<1>3. Decimal(0, "int").kind = "str" /\ Decimal(0, "int").n = 0 /\ Decimal(0, "int").word = "int"
  BY DEF Decimal, Value
<1>4. BoolVal(TRUE).kind = "bool" /\ BoolVal(TRUE).n = 4 /\ BoolVal(FALSE).kind = "bool" /\ BoolVal(FALSE).n = 0 /\ Unit = 4
  BY Constructors, Zenon
<1>5. v = BoolVal(TRUE) => v.kind = "bool" /\ v.n = 4
  BY <1>4, Zenon
<1>6. v = BoolVal(FALSE) => v.kind = "bool" /\ v.n = 0
  BY <1>4, Zenon
<1>7. v = Decimal(Unit, "int") => v.kind = "str" /\ v.n = 4 /\ v.word = "int"
  BY <1>2, <1>4, Zenon
<1> QED BY <1>1, <1>3, <1>4, <1>5, <1>6, <1>7, Zenon

\* ReadsAs of ToBoolean, for a value that is true and for one that is false.
ReadsTrue(v) ==
    v = BoolVal(TRUE) \/ v = Word("true") \/ v = Decimal(Unit, "int") \/ (IsNumber(v) /\ v.n = Unit)
ReadsFalse(v) ==
    v = BoolVal(FALSE) \/ v = Word("false") \/ v = Decimal(0, "int") \/ (IsNumber(v) /\ v.n = 0)

LEMMA ReadingIsUnique ==
    ASSUME NEW v
    PROVE  ~(ReadsTrue(v) /\ ReadsFalse(v))
<1>1. ReadsTrue(v) => \/ v.kind = "bool" /\ v.n = 4
                      \/ v.kind = "str" /\ v.word = "true"
                      \/ v.kind = "str" /\ v.word = "int" /\ v.n = 4
                      \/ v.kind \in {"int", "float"} /\ v.n = 4
  BY TruthValues DEF ReadsTrue, IsNumber
<1>2. ReadsFalse(v) => \/ v.kind = "bool" /\ v.n = 0
                       \/ v.kind = "str" /\ v.word = "false"
                       \/ v.kind = "str" /\ v.word = "int" /\ v.n = 0
                       \/ v.kind \in {"int", "float"} /\ v.n = 0
  BY TruthValues DEF ReadsFalse, IsNumber
<1> QED BY <1>1, <1>2

LEMMA Readings ==
    ASSUME NEW v
    PROVE  /\ ReadsTrue(v) => ToBoolean(v) = BoolVal(TRUE)
           /\ ReadsFalse(v) => ToBoolean(v) = BoolVal(FALSE)
           /\ ToBoolean(v) # Dropped => ReadsTrue(v) \/ ReadsFalse(v)
<1>1. ToBoolean(v) = CASE ReadsTrue(v) -> BoolVal(TRUE) [] ReadsFalse(v) -> BoolVal(FALSE) [] OTHER -> Dropped
  BY DEF ToBoolean, ReadsTrue, ReadsFalse
<1> QED BY <1>1, ReadingIsUnique

\* What reads as a truth value, and as which.
LEMMA ReadsAsBoolean ==
    ASSUME NEW v, ToBoolean(v) # Dropped
    PROVE  /\ ToBoolean(v) \in {BoolVal(TRUE), BoolVal(FALSE)}
           /\ v.kind \in {"int", "float", "bool"} => v.n = ToBoolean(v).n
           /\ v.kind \in {"int", "float", "bool", "str"}
<1>1. CASE ReadsTrue(v)
  <2>1. (v.kind \in {"int", "float", "bool"} /\ v.n = 4) \/ v.kind = "str"
    BY <1>1, TruthValues DEF ReadsTrue, IsNumber
  <2> QED BY <1>1, <2>1, Readings, Constructors
<1>2. CASE ReadsFalse(v)
  <2>1. (v.kind \in {"int", "float", "bool"} /\ v.n = 0) \/ v.kind = "str"
    BY <1>2, TruthValues DEF ReadsFalse, IsNumber
  <2> QED BY <1>2, <2>1, Readings, Constructors
<1> QED BY <1>1, <1>2, Readings

\* A truth value in the form of a number or a boolean.
LEMMA BooleanIsRead ==
    ASSUME NEW v, IsData(v), v.kind \in {"int", "float", "bool"}
    PROVE  /\ v.n = 4 => ToBoolean(v) = BoolVal(TRUE)
           /\ v.n = 0 => ToBoolean(v) = BoolVal(FALSE)
<1>1. CASE v.kind = "bool"
  <2>1. v = Value("bool", v.n, "")
    BY <1>1 DEF IsData
  <2>2. (v.n = 4 => v = BoolVal(TRUE)) /\ (v.n = 0 => v = BoolVal(FALSE))
    BY <2>1, Constructors, Zenon
  <2> QED BY <2>2, Readings DEF ReadsTrue, ReadsFalse
<1>2. CASE v.kind # "bool"
  BY <1>2, Readings, Constructors DEF ReadsTrue, ReadsFalse, IsNumber
<1> QED BY <1>1, <1>2

\* A conversion to the type of an entry keeps what a value says, and is the
\* identity on what it gives.
LEMMA CoercionKeeps ==
    ASSUME NEW type \in Types, NEW v, IsData(v), CoerceValue(v, type) # Dropped
    PROVE  /\ CoerceValue(CoerceValue(v, type), type) = CoerceValue(v, type)
           /\ SameReading(CoerceValue(v, type), v)
<1> DEFINE c == CoerceValue(v, type)
<1>1. CASE type = "boolean"
  <2>1. c = ToBoolean(v) /\ c \in {BoolVal(TRUE), BoolVal(FALSE)}
    BY <1>1, ReadsAsBoolean DEF CoerceValue
  <2>2. ToBoolean(c) = c
    BY <2>1, Readings DEF ReadsTrue, ReadsFalse
  <2> QED BY <1>1, <2>1, <2>2 DEF CoerceValue, SameReading
<1>2. CASE type = "string"
  <2>1. c = ToString(v) /\ c.kind = "str"
    BY <1>2, CoercionFits DEF CoerceValue, KindOf
  <2> HIDE DEF c
  <2>2. ToString(c) = c
    BY <2>1 DEF ToString, IsNumber
  <2>3. SameReading(c, v)
    BY <1>2, <2>1, <2>2 DEF SameReading, c
  <2> QED BY <1>2, <2>2, <2>3 DEF CoerceValue, c
<1>3. CASE type = "int"
  <2>1. AsNumber(v) # Dropped /\ v.n % Unit = 0 /\ c = IntVal(v.n)
    BY <1>3 DEF CoerceValue, ToInt
  <2>2. c.n = v.n /\ c.kind = "int"
    BY <2>1, Constructors
  <2>3. AsNumber(c) # Dropped
    BY <2>2, Constructors, SpecialValues DEF AsNumber, IsNumber
  <2>4. ToInt(c) = c
    BY <2>1, <2>2, <2>3 DEF ToInt
  <2> HIDE DEF c
  <2>5. SameReading(c, v)
    BY <2>1, <2>2, NumbersAreData DEF SameReading, HasNumber
  <2> QED BY <1>3, <2>4, <2>5 DEF CoerceValue, c
<1>4. CASE type = "float"
  <2>1. c = AsNumber(v) /\ c = FloatVal(v.n) /\ HasNumber(v)
    BY <1>4, NumbersAreData DEF CoerceValue
  <2>2. c.n = v.n /\ c.kind = "float"
    BY <2>1, Constructors
  <2>3. AsNumber(c) = c
    BY <2>1, <2>2 DEF AsNumber, IsNumber
  <2> HIDE DEF c
  <2>4. SameReading(c, v)
    BY <2>1, <2>2 DEF SameReading, HasNumber
  <2> QED BY <1>4, <2>3, <2>4 DEF CoerceValue, c
<1> QED BY <1>1, <1>2, <1>3, <1>4 DEF Types

\* A dict answers with the value of an equal key.
LEMMA LookUpHits ==
    ASSUME NEW pairs, NEW from, NEW to, NEW v, v.kind # "list"
    PROVE  \/ LookUp(pairs, from, to, v) = Dropped
           \/ \E k \in DOMAIN pairs : PyEqual(pairs[k][from], v) /\ LookUp(pairs, from, to, v) = pairs[k][to]
<1> DEFINE Hits == {j \in DOMAIN pairs : v.kind # "nan" /\ PyEqual(pairs[j][from], v)}
<1>1. CASE Hits = {}
  BY <1>1 DEF LookUp
<1>2. CASE Hits # {}
  <2>1. (CHOOSE j \in Hits : TRUE) \in Hits
    BY <1>2
  <2>2. LookUp(pairs, from, to, v) = pairs[CHOOSE j \in Hits : TRUE][to]
    BY <1>2 DEF LookUp
  <2> QED BY <2>1, <2>2
<1> QED BY <1>1, <1>2

LEMMA EqualReadsSame == \A u, v : PyEqual(u, v) => SameReading(u, v)
BY DEF PyEqual, SameReading, HasNumber

\* A dropped value stays so.
LEMMA DroppedStays ==
    ASSUME NEW e, e.transform.op \in Ops
    PROVE  CheckRange(e, Dropped) = Dropped /\ AsNumber(Dropped) = Dropped
BY SpecialValues DEF CheckRange, IsNumber, AsNumber, IsDecimal

\* A number is a number in each type that takes it, but not in boolean.
LEMMA NumberCoerced ==
    ASSUME NEW type \in Types, NEW n \in Int, CoerceValue(FloatVal(n), type) # Dropped
    PROVE  LET c == CoerceValue(FloatVal(n), type)
           IN  /\ c.n = n /\ HasNumber(c)
               /\ c.kind = "bool" \/ AsNumber(c) = FloatVal(n)
<1> DEFINE f == FloatVal(n)
           c == CoerceValue(f, type)
<1>1. f.n = n /\ f.kind = "float" /\ IsNumber(f)
  BY Constructors DEF IsNumber
<1> HIDE DEF f
<1>2. CASE type = "boolean"
  <2>1. c = ToBoolean(f) /\ c # Dropped
    BY <1>2 DEF CoerceValue, f
  <2>2. c \in {BoolVal(TRUE), BoolVal(FALSE)} /\ c.n = n
    BY <1>1, <2>1, ReadsAsBoolean
  <2>3. c.kind = "bool"
    BY <2>2, TruthValues
  <2> HIDE DEF c
  <2>4. c.n = n /\ HasNumber(c) /\ (c.kind = "bool" \/ AsNumber(c) = FloatVal(n))
    BY <2>2, <2>3 DEF HasNumber
  <2> QED BY <2>4 DEF c, f
<1>3. CASE type = "string"
  <2>1. c = Decimal(n, "float")
    BY <1>1, <1>3 DEF CoerceValue, ToString, IsNumber
  <2>2. c.n = n /\ c.kind = "str" /\ c.word = "float"
    BY <2>1 DEF Decimal, Value
  <2> HIDE DEF c
  <2>3. c.n = n /\ HasNumber(c) /\ AsNumber(c) = FloatVal(n)
    BY <2>2 DEF HasNumber, IsDecimal, Forms, AsNumber
  <2> QED BY <2>3 DEF c, f
<1>4. CASE type = "int"
  <2>1. c = IntVal(n)
    BY <1>1, <1>4 DEF CoerceValue, ToInt, f
  <2>2. c.n = n /\ c.kind = "int"
    BY <2>1, Constructors, Zenon
  <2> HIDE DEF c
  <2>3. c.n = n /\ HasNumber(c) /\ AsNumber(c) = FloatVal(n)
    BY <2>2 DEF HasNumber, IsNumber, AsNumber
  <2> QED BY <2>3 DEF c, f
<1>5. CASE type = "float"
  <2>1. c = FloatVal(n)
    BY <1>1, <1>5 DEF CoerceValue, AsNumber
  <2>2. c.n = n /\ c.kind = "float"
    BY <2>1, Constructors, Zenon
  <2> HIDE DEF c
  <2>3. c.n = n /\ HasNumber(c) /\ AsNumber(c) = FloatVal(n)
    BY <2>2 DEF HasNumber, IsNumber, AsNumber
  <2> QED BY <2>3 DEF c, f
<1> QED BY <1>2, <1>3, <1>4, <1>5 DEF Types

\* Two members of an enum that a dict takes for one are converted alike.
LEMMA EqualCoerces ==
    ASSUME NEW type \in Types, NEW u, IsData(u), EnumValueFits(u, type),
           NEW w, IsData(w), CoerceValue(w, type) # Dropped, PyEqual(u, CoerceValue(w, type))
    PROVE  CoerceValue(u, type) = CoerceValue(w, type)
<1> DEFINE c == CoerceValue(w, type)
<1>1. c.kind = KindOf(type) /\ c # Dropped
  BY CoercionFits
<1>2. CASE type = "boolean"
  <2>1. c \in {BoolVal(TRUE), BoolVal(FALSE)}
    BY <1>2, ReadsAsBoolean DEF CoerceValue
  <2> HIDE DEF c
  <2>2. c.kind = "bool" /\ c.n \in {0, 4} /\ (c.n = 4 => c = BoolVal(TRUE)) /\ (c.n = 0 => c = BoolVal(FALSE))
    <3>1. CASE c = BoolVal(TRUE)
      <4>1. c.kind = "bool" /\ c.n = 4
        BY <3>1, TruthValues, Zenon
      <4>2. c.n \in {0, 4} /\ c.n # 0
        BY <4>1
      <4> QED BY <3>1, <4>1, <4>2, Zenon
    <3>2. CASE c = BoolVal(FALSE)
      <4>1. c.kind = "bool" /\ c.n = 0
        BY <3>2, TruthValues, Zenon
      <4>2. c.n \in {0, 4} /\ c.n # 4
        BY <4>1
      <4> QED BY <3>2, <4>1, <4>2, Zenon
    <3> QED BY <2>1, <3>1, <3>2
  <2>3. PyEqual(u, c)
    BY DEF c
  <2>4. u.kind \in {"int", "float", "bool"} /\ u.n = c.n
    BY <2>2, <2>3 DEF PyEqual
  <2>5. ToBoolean(u) = c
    BY <2>2, <2>4, BooleanIsRead
  <2> QED BY <1>2, <2>5 DEF CoerceValue, c
<1>3. CASE type = "string"
  <2>1. u.kind = "str" /\ c.kind = "str"
    BY <1>1, <1>3 DEF EnumValueFits, KindOf
  <2>2. u = c
    BY <2>1 DEF PyEqual
  <2> HIDE DEF c
  <2>3. ToString(u) = u
    BY <2>1 DEF ToString, IsNumber
  <2> QED BY <1>3, <2>2, <2>3 DEF CoerceValue, c
<1>4. CASE type \in {"int", "float"}
  <2>1. c = IF type = "int" THEN IntVal(w.n) ELSE FloatVal(w.n)
    BY <1>4 DEF CoerceValue, ToInt, AsNumber
  <2>2. c.n = w.n /\ c.kind \in {"int", "float"} /\ (type = "int" => w.n % Unit = 0)
    BY <1>4, <2>1, Constructors DEF CoerceValue, ToInt
  <2> HIDE DEF c
  <2>3. PyEqual(u, c) /\ u.kind \in {"int", "float", "nan"}
    BY <1>4 DEF c, EnumValueFits
  <2>4. u.kind \in {"int", "float"} /\ u.n = w.n
    BY <2>2, <2>3 DEF PyEqual
  <2>5. AsNumber(u) = FloatVal(w.n) /\ FloatVal(w.n) # Dropped
    BY <2>4, Constructors, SpecialValues DEF AsNumber, IsNumber
  <2>6. CoerceValue(u, type) = IF type = "int" THEN IntVal(w.n) ELSE FloatVal(w.n)
    BY <1>4, <2>2, <2>4, <2>5 DEF CoerceValue, ToInt
  <2> QED BY <2>1, <2>6 DEF c
<1> QED BY <1>2, <1>3, <1>4 DEF Types

\* What an enum makes of a member that a value equals says what the value says.
LEMMA EnumReadsSame ==
    ASSUME NEW type \in Types, NEW x, IsData(x), EnumValueFits(x, type),
           CoerceValue(x, type) # Dropped, NEW v, PyEqual(x, v)
    PROVE  SameReading(CoerceValue(x, type), v)
<1> DEFINE c == CoerceValue(x, type)
<1>1. CASE x = v
  BY <1>1, CoercionKeeps
<1>2. CASE x # v
  <2>1. x.kind \in {"int", "float", "bool"} /\ v.kind \in {"int", "float", "bool"} /\ x.n = v.n
    BY <1>2 DEF PyEqual
  <2>2. c.n = x.n /\ HasNumber(c)
    <3>1. CASE type = "boolean"
      <4>1. c = ToBoolean(x) /\ c # Dropped
        BY <3>1 DEF CoerceValue
      <4>2. c \in {BoolVal(TRUE), BoolVal(FALSE)} /\ c.n = x.n
        BY <2>1, <4>1, ReadsAsBoolean
      <4> HIDE DEF c
      <4> QED BY <4>2, TruthValues DEF HasNumber
    <3>2. CASE type = "string"
      BY <2>1, <3>2 DEF EnumValueFits
    <3>3. CASE type \in {"int", "float"}
      <4>1. c = IF type = "int" THEN IntVal(x.n) ELSE FloatVal(x.n)
        BY <3>3 DEF CoerceValue, ToInt, AsNumber
      <4> HIDE DEF c
      <4> QED BY <4>1, Constructors DEF HasNumber
    <3> QED BY <3>1, <3>2, <3>3 DEF Types
  <2> HIDE DEF c
  <2>3. SameReading(c, v)
    BY <2>1, <2>2 DEF SameReading, HasNumber
  <2> QED BY <2>3 DEF c
<1> QED BY <1>1, <1>2

LEMMA QuotientIsInt ==
    ASSUME NEW x \in Int, NEW y \in Int, y # 0
    PROVE  Quotient(x, y) \in Int
BY DEF Quotient

LEMMA DataHasNumber == \A v : IsData(v) => v.n \in Int
BY DEF IsData

\* NaN has no form that is read as a number.
LEMMA NaNIsNoNumber ==
    ASSUME NEW type \in Types
    PROVE  AsNumber(CoerceValue(NaN, type)) = Dropped
<1>1. NaN.kind = "nan" /\ NaN.word = "" /\ AsNumber(Dropped) = Dropped
  BY SpecialValues DEF NaN, Value, AsNumber, IsNumber, IsDecimal
<1>2. AsNumber(NaN) = Dropped
  BY <1>1 DEF AsNumber, IsNumber, IsDecimal
<1>3. CASE type = "boolean"
  <2>1. ~ReadsTrue(NaN) /\ ~ReadsFalse(NaN)
    BY <1>1, TruthValues DEF ReadsTrue, ReadsFalse, IsNumber
  <2>2. CoerceValue(NaN, type) = Dropped
    BY <1>3, <2>1, Readings DEF CoerceValue
  <2> QED BY <1>1, <2>2
<1>4. CASE type = "string"
  <2>1. CoerceValue(NaN, type) = Word("nan")
    BY <1>1, <1>4 DEF CoerceValue, ToString, IsNumber
  <2>2. AsNumber(Word("nan")) = Dropped
    BY DEF Word, Value, AsNumber, IsNumber, IsDecimal, Forms
  <2> QED BY <2>1, <2>2
<1>5. CASE type \in {"int", "float"}
  BY <1>1, <1>2, <1>5 DEF CoerceValue, ToInt
<1> QED BY <1>3, <1>4, <1>5 DEF Types

\* Both directions, for each operation that has an inverse.
Typed(e, x) == IF x \in {Dropped, Raised} THEN x ELSE CheckRange(e, CoerceValue(x, e.type))

LEMMA Directions ==
    ASSUME NEW e, NEW v
    PROVE  /\ e.transform.op = "passthrough" =>
                CanToVss(e, v) = Typed(e, v) /\ VssToCan(e, v) = CheckRange(e, CoerceValue(v, e.type))
           /\ e.transform.op = "linear" =>
                CanToVss(e, v) = Typed(e, Scaled(e.transform, v)) /\ VssToCan(e, v) = CheckRange(e, Unscaled(e.transform, v))
           /\ e.transform.op = "enum" =>
                /\ CanToVss(e, v) = Typed(e, LookUp(e.transform.map, 1, 2, v))
                /\ VssToCan(e, v) = CheckRange(e, LookUp(e.transform.map, 2, 1, v))
BY DEF CanToVss, VssToCan, Typed

LEMMA RangeKeeps ==
    ASSUME NEW e, NEW y, NEW v, SameReading(y, v)
    PROVE  CheckRange(e, y) \in {Dropped, Raised} \/ SameReading(CheckRange(e, y), v)
BY RangeHolds

\* What a value was typed to, where it was not dropped.
LEMMA TypedIs ==
    ASSUME NEW e, NEW x, Typed(e, x) \notin {Dropped, Raised}
    PROVE  /\ x \notin {Dropped, Raised}
           /\ Typed(e, x) = CoerceValue(x, e.type) /\ CoerceValue(x, e.type) # Dropped
<1>1. x \notin {Dropped, Raised} /\ Typed(e, x) = CheckRange(e, CoerceValue(x, e.type))
  BY DEF Typed
<1>2. CheckRange(e, CoerceValue(x, e.type)) \in {CoerceValue(x, e.type), Dropped, Raised}
  BY RangeHolds
<1> QED BY <1>1, <1>2

LEMMA TypedKeeps ==
    ASSUME NEW e, NEW x, NEW v,
           x \in {Dropped, Raised} => x = Dropped,
           x # Dropped /\ CoerceValue(x, e.type) # Dropped => SameReading(CoerceValue(x, e.type), v)
    PROVE  Typed(e, x) \in {Dropped, Raised} \/ SameReading(Typed(e, x), v)
<1>1. CASE x = Dropped
  BY <1>1 DEF Typed
<1>2. CASE x # Dropped
  <2>1. Typed(e, x) = CheckRange(e, CoerceValue(x, e.type))
    BY <1>2 DEF Typed
  <2>2. CheckRange(e, CoerceValue(x, e.type)) \in {CoerceValue(x, e.type), Dropped, Raised}
    BY RangeHolds
  <2> QED BY <1>2, <2>1, <2>2
<1> QED BY <1>1, <1>2

\* A value that passes through.
LEMMA PassthroughReturns ==
    ASSUME NEW e, e.type \in Types, e.transform.op = "passthrough", NEW v, IsData(v)
    PROVE  /\ CanToVss(e, v) \notin {Dropped, Raised} =>
                \/ VssToCan(e, CanToVss(e, v)) \in {Dropped, Raised}
                \/ SameReading(VssToCan(e, CanToVss(e, v)), v)
           /\ VssToCan(e, v) \notin {Dropped, Raised} =>
                \/ CanToVss(e, VssToCan(e, v)) \in {Dropped, Raised}
                \/ SameReading(CanToVss(e, VssToCan(e, v)), v)
<1> DEFINE c == CoerceValue(v, e.type)
<1>1. ASSUME CanToVss(e, v) \notin {Dropped, Raised}
      PROVE  VssToCan(e, CanToVss(e, v)) \in {Dropped, Raised} \/ SameReading(VssToCan(e, CanToVss(e, v)), v)
  <2>1. CanToVss(e, v) = c /\ c # Dropped
    BY <1>1, Directions, TypedIs
  <2>2. VssToCan(e, c) = CheckRange(e, c)
    BY <2>1, Directions, CoercionKeeps
  <2>3. SameReading(c, v)
    BY <2>1, CoercionKeeps
  <2> QED BY <2>1, <2>2, <2>3, RangeKeeps
<1>2. ASSUME VssToCan(e, v) \notin {Dropped, Raised}
      PROVE  CanToVss(e, VssToCan(e, v)) \in {Dropped, Raised} \/ SameReading(CanToVss(e, VssToCan(e, v)), v)
  <2>1. VssToCan(e, v) = c /\ c \notin {Dropped, Raised}
    BY <1>2, Directions, RangeHolds
  <2>2. CanToVss(e, c) = CheckRange(e, c)
    BY <2>1, Directions, CoercionKeeps DEF Typed
  <2>3. SameReading(c, v)
    BY <2>1, CoercionKeeps
  <2> QED BY <2>1, <2>2, <2>3, RangeKeeps
<1> QED BY <1>1, <1>2

\* A linear entry divides exactly, so that each way undoes the other.
LEMMA LinearReturns ==
    ASSUME NEW e, e.type \in Types, e.transform.op = "linear",
           e.transform.scale[1] \in Int \ {0}, e.transform.scale[2] \in Nat \ {0}, IsScalar(e.transform.offset),
           NEW v, IsData(v)
    PROVE  /\ ScalesExactly("to_vss", e.transform, v) /\ CanToVss(e, v) \notin {Dropped, Raised} =>
                \/ VssToCan(e, CanToVss(e, v)) \in {Dropped, Raised}
                \/ SameReading(VssToCan(e, CanToVss(e, v)), v)
           /\ ScalesExactly("to_can", e.transform, v) /\ VssToCan(e, v) \notin {Dropped, Raised} =>
                \/ CanToVss(e, VssToCan(e, v)) \in {Dropped, Raised}
                \/ SameReading(CanToVss(e, VssToCan(e, v)), v)
<1> DEFINE spec == e.transform
           a == spec.scale[1]
           b == spec.scale[2]
           o == spec.offset.n
<1>1. a \in Int /\ a # 0 /\ b \in Int /\ b # 0 /\ o \in Int /\ v.n \in Int
  BY DataHasNumber DEF IsScalar
<1>2. CheckRange(e, Dropped) = Dropped /\ AsNumber(Dropped) = Dropped
  BY DroppedStays DEF Ops
<1>3. ASSUME ScalesExactly("to_vss", spec, v), CanToVss(e, v) \notin {Dropped, Raised}
      PROVE  VssToCan(e, CanToVss(e, v)) \in {Dropped, Raised} \/ SameReading(VssToCan(e, CanToVss(e, v)), v)
  <2> DEFINE x == Scaled(spec, v)
             out == CanToVss(e, v)
  <2>1. x \notin {Dropped, Raised} /\ out = CoerceValue(x, e.type) /\ out # Dropped
    BY <1>3, Directions, TypedIs
  <2>2. AsNumber(v) # Dropped
    BY <2>1 DEF Scaled
  <2>3. VssToCan(e, out) = CheckRange(e, Unscaled(spec, out))
    BY Directions
  <2>4. CASE spec.offset = NaN
    <3>1. x = NaN
      BY <2>2, <2>4 DEF Scaled
    <3>2. AsNumber(out) = Dropped
      BY <2>1, <3>1, NaNIsNoNumber
    <3> QED BY <1>2, <2>3, <3>2 DEF Unscaled
  <2>5. CASE spec.offset # NaN
    <3> DEFINE q == Quotient(v.n * a, b)
    <3>1. x = FloatVal(q + o)
      BY <2>2, <2>5 DEF Scaled
    <3>2. q * b = v.n * a /\ q \in Int
      <4>1. Exact(v.n * a, b)
        BY <1>1, <1>3, <2>2, <2>5 DEF ScalesExactly
      <4>2. v.n * a \in Int
        BY <1>1
      <4>3. q \in Int
        BY <1>1, <4>2, QuotientIsInt
      <4> QED BY <4>1, <4>3 DEF Exact
    <3> HIDE DEF q
    <3>3. q + o \in Int
      BY <1>1, <3>2
    <3>4. out.n = q + o /\ (out.kind = "bool" \/ AsNumber(out) = FloatVal(q + o))
      BY <2>1, <3>1, <3>3, NumberCoerced
    <3>5. CASE AsNumber(out) = Dropped
      BY <1>2, <2>3, <3>5 DEF Unscaled
    <3>6. CASE AsNumber(out) # Dropped
      <4>1. Unscaled(spec, out) = FloatVal(Quotient((out.n - o) * b, a))
        BY <2>5, <3>6 DEF Unscaled
      <4>2. (out.n - o) * b = v.n * a
        BY <1>1, <3>2, <3>4
      <4>3. v.n * a \in Int
        BY <1>1
      <4>4. Quotient(v.n * a, a) = v.n
        BY <1>1, <4>3, QuotientExact
      <4>5. Unscaled(spec, out) = FloatVal(v.n)
        BY <4>1, <4>2, <4>4
      <4>6. SameReading(Unscaled(spec, out), v)
        <5>1. FloatVal(v.n).n = v.n /\ FloatVal(v.n).kind = "float"
          BY Constructors, Zenon
        <5>2. HasNumber(v)
          BY <2>2, NumbersAreData
        <5> QED BY <4>5, <5>1, <5>2 DEF SameReading, HasNumber
      <4> QED BY <2>3, <4>6, RangeKeeps
    <3> QED BY <3>5, <3>6
  <2> QED BY <2>4, <2>5
<1>4. ASSUME ScalesExactly("to_can", spec, v), VssToCan(e, v) \notin {Dropped, Raised}
      PROVE  CanToVss(e, VssToCan(e, v)) \in {Dropped, Raised} \/ SameReading(CanToVss(e, VssToCan(e, v)), v)
  <2> DEFINE out == VssToCan(e, v)
             x == Scaled(spec, out)
  <2>1. out = Unscaled(spec, v) /\ out # Dropped
    BY <1>4, Directions, RangeHolds
  <2>2. AsNumber(v) # Dropped
    BY <2>1 DEF Unscaled
  <2>3. CanToVss(e, out) = Typed(e, x)
    BY Directions
  <2>4. CASE spec.offset = NaN
    <3>1. out = NaN
      BY <2>1, <2>2, <2>4 DEF Unscaled
    <3>2. AsNumber(out) = Dropped
      BY <3>1, NumbersAreData
    <3>3. x = Dropped
      BY <3>2 DEF Scaled
    <3> QED BY <2>3, <3>3 DEF Typed
  <2>5. CASE spec.offset # NaN
    <3> DEFINE d == (v.n - o) * b
               q == Quotient(d, a)
    <3>1. out = FloatVal(q)
      BY <2>1, <2>2, <2>5 DEF Unscaled
    <3>2. d \in Int /\ q * a = d /\ q \in Int
      <4>1. Exact(d, a)
        BY <1>1, <1>4, <2>2, <2>5 DEF ScalesExactly
      <4>2. d \in Int
        BY <1>1
      <4>3. q \in Int
        BY <1>1, <4>2, QuotientIsInt
      <4> QED BY <4>1, <4>2, <4>3 DEF Exact
    <3> HIDE DEF q
    <3>3. out.n = q /\ AsNumber(out) # Dropped
      <4>1. FloatVal(q).n = q /\ FloatVal(q).kind = "float"
        BY Constructors, Zenon
      <4> HIDE DEF out
      <4>2. out.n = q /\ out.kind = "float"
        BY <3>1, <4>1 DEF out
      <4>3. AsNumber(out) = FloatVal(q)
        BY <4>2 DEF AsNumber, IsNumber
      <4> QED BY <4>1, <4>2, <4>3, SpecialValues
    <3>4. x = FloatVal(Quotient(q * a, b) + o)
      BY <2>5, <3>3 DEF Scaled
    <3>5. Quotient(d, b) = v.n - o
      <4>1. v.n - o \in Int
        BY <1>1
      <4> QED BY <1>1, <3>2, <4>1, QuotientExact
    <3>6. x = FloatVal(v.n)
      <4>1. (v.n - o) + o = v.n
        BY <1>1
      <4> QED BY <3>2, <3>4, <3>5, <4>1
    <3> HIDE DEF x, out, d
    <3>7. x # Raised /\ x # Dropped
      BY <3>6, Constructors, SpecialValues
    <3>8. CoerceValue(x, e.type) # Dropped => SameReading(CoerceValue(x, e.type), v)
      BY <1>1, <2>2, <3>6, NumberCoerced, NumbersAreData DEF SameReading
    <3>9. Typed(e, x) \in {Dropped, Raised} \/ SameReading(Typed(e, x), v)
      BY <3>7, <3>8, TypedKeeps
    <3> QED BY <2>3, <3>9 DEF out
  <2> QED BY <2>4, <2>5
<1> QED BY <1>3, <1>4

\* An enum answers with the pair that it answered with on the way there.
LEMMA EnumReturns ==
    ASSUME NEW e, e.type \in Types, e.transform.op = "enum", IsDict(e.transform.map),
           \A j \in DOMAIN e.transform.map :
               /\ IsData(e.transform.map[j][1]) /\ IsData(e.transform.map[j][2])
               /\ EnumValueFits(e.transform.map[j][2], e.type),
           NEW v, IsData(v)
    PROVE  /\ ~IsAmbiguous(e) /\ CanToVss(e, v) \notin {Dropped, Raised} =>
                \/ VssToCan(e, CanToVss(e, v)) \in {Dropped, Raised}
                \/ SameReading(VssToCan(e, CanToVss(e, v)), v)
           /\ VssToCan(e, v) \notin {Dropped, Raised} =>
                \/ CanToVss(e, VssToCan(e, v)) \in {Dropped, Raised}
                \/ SameReading(CanToVss(e, VssToCan(e, v)), v)
<1> DEFINE map == e.transform.map
<1>1. CheckRange(e, Dropped) = Dropped
  BY DroppedStays DEF Ops
<1>2. ASSUME ~IsAmbiguous(e), CanToVss(e, v) \notin {Dropped, Raised}
      PROVE  VssToCan(e, CanToVss(e, v)) \in {Dropped, Raised} \/ SameReading(VssToCan(e, CanToVss(e, v)), v)
  <2> DEFINE x == LookUp(map, 1, 2, v)
             out == CanToVss(e, v)
  <2>1. x \notin {Dropped, Raised} /\ out = CoerceValue(x, e.type) /\ out # Dropped
    BY <1>2, Directions, TypedIs
  <2>2. v.kind # "list"
    BY <2>1 DEF LookUp
  <2>3. PICK k \in DOMAIN map : PyEqual(map[k][1], v) /\ x = map[k][2]
    BY <2>1, <2>2, LookUpHits
  <2>4. out.kind = KindOf(e.type)
    BY <2>1, CoercionFits
  <2>5. out.kind # "list"
    BY <2>4, SpecialValues
  <2>6. VssToCan(e, out) = CheckRange(e, LookUp(map, 2, 1, out))
    BY Directions
  <2>7. CASE LookUp(map, 2, 1, out) = Dropped
    BY <1>1, <2>6, <2>7
  <2>8. CASE LookUp(map, 2, 1, out) # Dropped
    <3>1. PICK j \in DOMAIN map : PyEqual(map[j][2], out) /\ LookUp(map, 2, 1, out) = map[j][1]
      BY <2>5, <2>8, LookUpHits
    <3>2. CoerceValue(map[j][2], e.type) = CoerceValue(map[k][2], e.type)
      BY <2>1, <2>3, <3>1, EqualCoerces
    <3>3. j = k
      BY <1>2, <2>1, <2>3, <3>2 DEF IsAmbiguous
    <3>4. SameReading(LookUp(map, 2, 1, out), v)
      BY <2>3, <3>1, <3>3, EqualReadsSame
    <3> QED BY <2>6, <3>4, RangeKeeps
  <2> QED BY <2>7, <2>8
<1>3. ASSUME VssToCan(e, v) \notin {Dropped, Raised}
      PROVE  CanToVss(e, VssToCan(e, v)) \in {Dropped, Raised} \/ SameReading(CanToVss(e, VssToCan(e, v)), v)
  <2> DEFINE out == VssToCan(e, v)
             x == LookUp(map, 1, 2, out)
  <2>1. out = LookUp(map, 2, 1, v) /\ out \notin {Dropped, Raised}
    BY <1>3, Directions, RangeHolds
  <2>2. v.kind # "list"
    BY <2>1 DEF LookUp
  <2>3. PICK k \in DOMAIN map : PyEqual(map[k][2], v) /\ out = map[k][1]
    BY <2>1, <2>2, LookUpHits
  <2>4. out.kind # "list"
    BY <2>3 DEF IsDict
  <2>5. CanToVss(e, out) = Typed(e, x)
    BY Directions
  <2>6. CASE x = Dropped
    BY <2>5, <2>6 DEF Typed
  <2>7. CASE x # Dropped
    <3>1. PICK j \in DOMAIN map : PyEqual(map[j][1], out) /\ x = map[j][2]
      BY <2>4, <2>7, LookUpHits
    <3>2. j = k
      BY <2>3, <3>1 DEF IsDict
    <3>3. x \notin {Dropped, Raised}
      BY <3>1, DataIsNoFailure
    <3>4. CoerceValue(x, e.type) # Dropped => SameReading(CoerceValue(x, e.type), v)
      BY <2>3, <3>1, <3>2, EnumReadsSame
    <3> QED BY <2>5, <3>3, <3>4, TypedKeeps
  <2> QED BY <2>6, <2>7
<1> QED BY <1>2, <1>3

\* The parser refuses a scale of zero, and an enum whose values do not fit.
LEMMA VerdictOfSound ==
    ASSUME NEW e, e.shape = "sound", EntryVerdict(e) = "mapping"
    PROVE  /\ e.transform.op = "linear" => e.transform.scale[1] # 0
           /\ e.transform.op = "enum" =>
                \A j \in DOMAIN e.transform.map : EnumValueFits(e.transform.map[j][2], e.type)
<1> DEFINE spec == e.transform
           Refused == {j \in DOMAIN spec.map : PairVerdict(spec.map, j, e.type) # "mapping"}
<1>1. TransformVerdict(spec, e.type) = "mapping"
  BY DEF EntryVerdict
<1>2. spec.op = "linear" => spec.scale[1] # 0
  BY <1>1 DEF TransformVerdict
<1>3. ASSUME spec.op = "enum", NEW j \in DOMAIN spec.map PROVE EnumValueFits(spec.map[j][2], e.type)
  <2>1. EnumVerdict(spec.map, e.type) = "mapping"
    BY <1>1, <1>3 DEF TransformVerdict
  <2>2. Refused = {}
    BY <2>1 DEF EnumVerdict
  <2>3. PairVerdict(spec.map, j, e.type) = "mapping"
    BY <1>3, <2>2
  <2> QED BY <2>3 DEF PairVerdict
<1> QED BY <1>2, <1>3

\* For every file and value: a value that went one way and comes back is the
\* value that was sent, or nothing, but for the threshold and for an enum
\* with two values that are one in the type of the entry.
THEOREM NothingAltered == Spec => []NothingIsAltered
<1>1. LoadInv /\ TypesInv => NothingIsAltered
  <2> SUFFICES ASSUME LoadInv, TypesInv, Sent PROVE NothingIsAltered
    BY DEF NothingIsAltered
  <2> DEFINE s == carried.section
             e == Entry(s, carried.entry)
             v == carried.in
             out == carried.out
             back == IF s = "to_vss" THEN VssToCan(e, out) ELSE CanToVss(e, out)
  <2>1. /\ s \in Sections /\ IsEntry(e) /\ e.shape = "sound" /\ EntryVerdict(e) = "mapping"
        /\ IsData(v) /\ ScalesExactly(s, e.transform, v)
        /\ out = IF s = "to_vss" THEN CanToVss(e, v) ELSE VssToCan(e, v)
    BY CarriedIsSound DEF Sent
  <2>2. out \notin {Dropped, Raised}
    BY DEF Sent
  <2> HIDE DEF e, s, v
  <2>3. /\ e.type \in Types /\ e.transform.op \in Ops
        /\ e.transform.scale[1] \in Int /\ e.transform.scale[2] \in Nat \ {0} /\ IsScalar(e.transform.offset)
        /\ IsDict(e.transform.map)
        /\ \A j \in DOMAIN e.transform.map : IsData(e.transform.map[j][1]) /\ IsData(e.transform.map[j][2])
    BY <2>1 DEF IsEntry
  <2>4. SUFFICES ASSUME e.transform.op # "threshold", ~IsAmbiguous(e)
                 PROVE  back \in {Dropped, Raised} \/ SameReading(back, v)
    BY DEF NothingIsAltered, e, s, v
  <2>5. (s = "to_vss" /\ out = CanToVss(e, v)) \/ (s # "to_vss" /\ s = "to_can" /\ out = VssToCan(e, v))
    BY <2>1 DEF Sections
  <2> HIDE DEF out
  <2>6. CASE e.transform.op = "passthrough"
    BY <2>1, <2>2, <2>3, <2>5, <2>6, PassthroughReturns
  <2>7. CASE e.transform.op = "linear"
    <3>1. e.transform.scale[1] \in Int \ {0}
      BY <2>1, <2>3, <2>7, VerdictOfSound
    <3> QED BY <2>1, <2>2, <2>3, <2>5, <2>7, <3>1, LinearReturns
  <2>8. CASE e.transform.op = "enum"
    <3>1. \A j \in DOMAIN e.transform.map : EnumValueFits(e.transform.map[j][2], e.type)
      BY <2>1, <2>8, VerdictOfSound
    <3> QED BY <2>1, <2>2, <2>3, <2>4, <2>5, <2>8, <3>1, EnumReturns
  <2> QED BY <2>3, <2>4, <2>6, <2>7, <2>8 DEF Ops
<1> QED BY <1>1, LoadingHolds, TypesHold, PTL

(***************************************************************************)
(* Warnings.                                                               *)
(***************************************************************************)

Writers(f) == {e \in EntriesAt("to_can", survivors["to_can"]) : FrameOf(e) = f}
Said(note, f) == {j \in DOMAIN warnings : warnings[j] = Warning("to_can", note, f)}
WriteNotes == {"secondTransmitter", "inert"}

\* What has been said of a frame follows from the entries seen so far that
\* write to it.
FrameInv(f) ==
    /\ Said("secondTransmitter", f) # {} <=> Writers(f) # {} /\ f.sent
    /\ Said("inert", f) # {} <=> ~f.sent /\ \E e \in Writers(f) : ~e.allowAdd
    /\ \A note \in WriteNotes : \A j, k \in Said(note, f) : j = k

WarnedInv == pc \in {"checking", "serving"} /\ current => \A f \in vehicle : FrameInv(f)

LEMMA WarningsDiffer ==
    ASSUME NEW s, NEW n, NEW f, NEW t, NEW m, NEW g
    PROVE  Warning(s, n, f) = Warning(t, m, g) <=>
             s = t /\ n = m /\ f.namespace = g.namespace /\ f.name = g.name
BY DEF Warning

LEMMA WarnedIsSaid ==
    ASSUME NEW f
    PROVE  IsWarned(f) <=> \E note \in WriteNotes : Said(note, f) # {}
BY DEF IsWarned, Said, WriteNotes

\* Another warning.
LEMMA SaidMore ==
    ASSUME warnings \in Seq(Warnings), NEW w \in Warnings, warnings' = warnings \o <<w>>, NEW note, NEW f
    PROVE  /\ Said(note, f)' = IF w = Warning("to_can", note, f) THEN Said(note, f) \cup {Len(warnings) + 1}
                                                                ELSE Said(note, f)
           /\ Len(warnings) + 1 \notin Said(note, f)
<1>1. /\ DOMAIN warnings = 1..Len(warnings) /\ Len(warnings) \in Nat
      /\ DOMAIN warnings' = 1..(Len(warnings) + 1)
      /\ \A j \in DOMAIN warnings : warnings'[j] = warnings[j]
      /\ warnings'[Len(warnings) + 1] = w
  OBVIOUS
<1>2. Said(note, f)' = {j \in DOMAIN warnings' : warnings'[j] = Warning("to_can", note, f)}
  BY DEF Said, Warning
<1> QED BY <1>1, <1>2 DEF Said

LEMMA SaidNothing ==
    ASSUME warnings' = warnings, NEW note, NEW f
    PROVE  Said(note, f)' = Said(note, f)
BY DEF Said, Warning

\* The entries that survive in to_can, after an entry that survives.
LEMMA WritersMore ==
    ASSUME file' = file, index' = index, NEW i,
           survivors' = [survivors EXCEPT !["to_can"] = @ \cup {i}], DOMAIN survivors = Sections, NEW f
    PROVE  Writers(f)' = IF FrameOf(Entry("to_can", i)) = f THEN Writers(f) \cup {Entry("to_can", i)} ELSE Writers(f)
<1>1. \A e : FrameOf(e)' = FrameOf(e)
  BY DEF FrameOf
<1>2. survivors'["to_can"] = survivors["to_can"] \cup {i}
  BY DEF Sections
<1>3. EntriesAt("to_can", survivors["to_can"])' = EntriesAt("to_can", survivors["to_can"]) \cup {Entry("to_can", i)}
  BY <1>2, EntryIsStable DEF EntriesAt
<1>4. Writers(f)' = {e \in EntriesAt("to_can", survivors["to_can"])' : FrameOf(e)' = f}
  BY DEF Writers
<1> QED BY <1>1, <1>3, <1>4 DEF Writers

LEMMA WritersSame ==
    ASSUME file' = file, index' = index, survivors'["to_can"] = survivors["to_can"], NEW f
    PROVE  Writers(f)' = Writers(f)
<1>1. \A e : FrameOf(e)' = FrameOf(e)
  BY DEF FrameOf
<1>2. EntriesAt("to_can", survivors["to_can"])' = EntriesAt("to_can", survivors["to_can"])
  BY EntryIsStable DEF EntriesAt
<1>3. Writers(f)' = {e \in EntriesAt("to_can", survivors["to_can"])' : FrameOf(e)' = f}
  BY DEF Writers
<1> QED BY <1>1, <1>2, <1>3 DEF Writers

LEMMA FrameIsStable ==
    ASSUME NEW f, FrameInv(f), Writers(f)' = Writers(f),
           \A note \in WriteNotes : Said(note, f)' = Said(note, f)
    PROVE  FrameInv(f)'
BY DEF FrameInv, WriteNotes

\* An entry that survives in to_can: only its own frame may be warned about.
LEMMA WriteKeepsWarned ==
    ASSUME warnings \in Seq(Warnings), DOMAIN survivors = Sections,
           NEW i, NEW f, FrameInv(f),
           LET e == Entry("to_can", i) IN
             /\ Reason(e) = "none" /\ FrameOf(e) \in vehicle
             /\ FrameOf(e) # f => FrameOf(e).namespace # f.namespace \/ FrameOf(e).name # f.name
             /\ warnings' = warnings \o Cautions("to_can", e),
           file' = file, index' = index,
           survivors' = [survivors EXCEPT !["to_can"] = @ \cup {i}],
           \A note \in WriteNotes : Warning("to_can", note, FrameOf(Entry("to_can", i))) \in Warnings
    PROVE  FrameInv(f)'
<1> DEFINE e == Entry("to_can", i)
           g == FrameOf(e)
           w(note) == Warning("to_can", note, g)
           next == Len(warnings) + 1
<1>1. Writers(f)' = IF g = f THEN Writers(f) \cup {e} ELSE Writers(f)
  BY WritersMore
<1>2. CASE Cautions("to_can", e) = <<>>
  <2>1. warnings' = warnings
    BY <1>2
  <2>2. \A note \in WriteNotes : Said(note, f)' = Said(note, f)
    BY <2>1, SaidNothing
  <2>3. CASE g # f
    BY <1>1, <2>2, <2>3, FrameIsStable
  <2>4. CASE g = f
    <3>1. \/ IsWarned(f)
          \/ ~f.sent /\ e.allowAdd
      BY <1>2, <2>4 DEF Cautions
    <3>2. \/ Said("secondTransmitter", f) # {} \/ Said("inert", f) # {}
          \/ ~f.sent /\ e.allowAdd
      BY <3>1, WarnedIsSaid DEF WriteNotes
    <3> HIDE DEF e, g
    <3>3. Writers(f)' = Writers(f) \cup {e}
      BY <1>1, <2>4
    <3> QED BY <2>2, <3>2, <3>3 DEF FrameInv, WriteNotes
  <2> QED BY <2>3, <2>4
<1>3. ASSUME NEW note \in WriteNotes, Cautions("to_can", e) = <<w(note)>>, ~IsWarned(g),
             g.sent <=> note = "secondTransmitter", note = "inert" => ~e.allowAdd
      PROVE  FrameInv(f)'
  <2>1. \A m : /\ Said(m, f)' = IF w(note) = Warning("to_can", m, f) THEN Said(m, f) \cup {next} ELSE Said(m, f)
               /\ next \notin Said(m, f)
    BY <1>3, SaidMore
  <2>2. CASE g # f
    <3>1. \A m : Said(m, f)' = Said(m, f)
      BY <2>1, <2>2, WarningsDiffer
    <3> QED BY <1>1, <2>2, <3>1, FrameIsStable
  <2>3. CASE g = f
    <3>1. \A m \in WriteNotes : Said(m, f) = {}
      BY <1>3, <2>3, WarnedIsSaid
    <3>2. \A m \in WriteNotes : Said(m, f)' = IF m = note THEN {next} ELSE {}
      BY <2>1, <2>3, <3>1, WarningsDiffer
    <3>3. Writers(f)' = Writers(f) \cup {e}
      BY <1>1, <2>3
    <3>4. f.sent <=> note = "secondTransmitter"
      BY <1>3, <2>3
    <3> HIDE DEF e, g, next, w
    <3> QED BY <1>3, <3>1, <3>2, <3>3, <3>4 DEF FrameInv, WriteNotes
  <2> QED BY <2>2, <2>3
<1>4. \/ Cautions("to_can", e) = <<>>
      \/ Cautions("to_can", e) = <<w("secondTransmitter")>> /\ ~IsWarned(g) /\ g.sent
      \/ Cautions("to_can", e) = <<w("inert")>> /\ ~IsWarned(g) /\ ~g.sent /\ ~e.allowAdd
  BY DEF Cautions
<1> QED BY <1>2, <1>3, <1>4 DEF WriteNotes

\* What the file says of a kept entry.
LEMMA KeptIsSound ==
    ASSUME LoadInv, NEW s \in Sections, NEW i \in kept[s]
    PROVE  /\ Entry(s, i) \in KeptEntries
           /\ IsPair(Entry(s, i).signal) /\ Entry(s, i).signal[1] # ""
<1>1. Entry(s, i) \in KeptEntries
  BY DEF KeptEntries, EntriesAt
<1>2. file \in Files /\ i \in 1..Len(file[s])
  BY LoadedTypes DEF FileTypes, Positions
<1> QED BY <1>1, <1>2, FilesAssumption DEF Entry, IsEntry

LEMMA CheckKeepsWarned ==
    ASSUME IInv, TypesInv, WarnedInv, NEW s \in Sections, NEW i \in unchecked[s], CheckEntry(s, i)
    PROVE  WarnedInv'
<1> DEFINE e == Entry(s, i)
<1> SUFFICES ASSUME current, NEW f \in vehicle PROVE FrameInv(f)'
  BY DEF CheckEntry, WarnedInv, peer_vars
<1>1. /\ file' = file /\ index' = index /\ i \in kept[s] /\ pc = "checking"
      /\ warnings \in Seq(Warnings) /\ DOMAIN survivors = Sections
      /\ vehicle \in Vehicles /\ index = IndexFrames(vehicle) /\ FrameInv(f) /\ LoadInv
  BY DEF CheckEntry, WarnedInv, IInv, QueriesInv, LoopInv, TypesInv, ResultTypes, file_vars, query_vars
<1>2. CASE Reason(e) # "none"
  <2>1. survivors' = survivors /\ warnings' = warnings
    BY <1>2 DEF CheckEntry
  <2> QED BY <1>1, <2>1, SaidNothing, WritersSame, FrameIsStable
<1>3. CASE Reason(e) = "none" /\ s = "to_vss"
  <2>1. survivors' = [survivors EXCEPT ![s] = @ \cup {i}] /\ warnings' = warnings \o Cautions(s, e)
    BY <1>3 DEF CheckEntry
  <2>2. survivors'["to_can"] = survivors["to_can"]
    BY <1>1, <1>3, <2>1
  <2>3. ASSUME NEW note \in WriteNotes PROVE Said(note, f)' = Said(note, f)
    <3>1. CASE Cautions(s, e) = <<>>
      <4>1. warnings' = warnings
        BY <1>1, <2>1, <3>1
      <4> QED BY <4>1, SaidNothing
    <3>2. ASSUME NEW n \in Notes, Cautions(s, e) = <<Warning(s, n, FrameOf(e))>>,
                 Warning(s, n, FrameOf(e)) \in Warnings
          PROVE  Said(note, f)' = Said(note, f)
      <4>1. Warning(s, n, FrameOf(e)) # Warning("to_can", note, f)
        BY <1>3, WarningsDiffer
      <4> QED BY <1>1, <2>1, <3>2, <4>1, SaidMore
    <3> QED BY <1>3, <3>1, <3>2, CautionsAreWarnings
  <2> QED BY <1>1, <2>2, <2>3, WritersSame, FrameIsStable
<1>4. CASE Reason(e) = "none" /\ s = "to_can"
  <2>1. survivors' = [survivors EXCEPT !["to_can"] = @ \cup {i}] /\ warnings' = warnings \o Cautions("to_can", e)
    BY <1>4 DEF CheckEntry
  <2>2. FrameOf(e) \in vehicle
    BY <1>1, <1>4, KeptIsSound, KeptIsListed, ListedIsCarried
  <2>3. FrameOf(e) # f => FrameOf(e).namespace # f.namespace \/ FrameOf(e).name # f.name
    BY <1>1, <2>2, VehiclesAssumption DEF IsVehicle
  <2>4. \A note \in WriteNotes : Warning("to_can", note, FrameOf(e)) \in Warnings
    <3>1. FrameOf(e) \in Frames
      BY <1>1, <2>2 DEF Frames
    <3> QED BY <3>1 DEF Warning, Warnings, WriteNotes, Notes, Sections
  <2> QED BY <1>1, <1>4, <2>1, <2>2, <2>3, <2>4, WriteKeepsWarned
<1> QED BY <1>2, <1>3, <1>4 DEF Sections

LEMMA BeginsWarned ==
    ASSUME BeginsChecking
    PROVE  WarnedInv'
<1> SUFFICES ASSUME NEW f PROVE FrameInv(f)'
  BY DEF WarnedInv
<1>1. survivors'["to_can"] = {} /\ warnings' = <<>>
  BY DEF BeginsChecking, NoPositions, Sections
<1>2. EntriesAt("to_can", survivors["to_can"])' = {}
  BY <1>1 DEF EntriesAt
<1>3. Writers(f)' = {}
  BY <1>2 DEF Writers
<1>4. \A note : Said(note, f)' = {}
  BY <1>1 DEF Said
<1> QED BY <1>3, <1>4 DEF FrameInv, WriteNotes

LEMMA WarnedIsStable ==
    ASSUME WarnedInv, UNCHANGED <<file, index, vehicle, current, pc, survivors, warnings>>
    PROVE  WarnedInv'
BY SaidNothing, WritersSame, FrameIsStable DEF WarnedInv

LEMMA NextKeepsWarned ==
    ASSUME IInv, TypesInv, WarnedInv, [Next]_vars
    PROVE  WarnedInv'
<1>1. CASE \/ \E s \in Sections : ParseEntry(s)
           \/ FinishLoading \/ ListFrames \/ LookUpFails \/ Reconnect
  BY <1>1 DEF ParseEntry, FinishLoading, ListFrames, LookUpFails, Reconnect, WarnedInv
<1>2. CASE LookUpTogether
  BY <1>2, BeginsWarned DEF LookUpTogether
<1>3. ASSUME NEW path \in unprobed, Probe(path) PROVE WarnedInv'
  <2>1. BeginsChecking \/ pc' = "probing"
    BY <1>3 DEF Probe
  <2> QED BY <2>1, BeginsWarned DEF WarnedInv
<1>4. CASE \E s \in Sections : \E i \in unchecked[s] : CheckEntry(s, i)
  BY <1>4, CheckKeepsWarned
<1>5. CASE \/ \E s \in Sections : \E i \in survivors[s] : \E v \in Values : Carry(s, i, v)
           \/ UNCHANGED vars
  BY <1>5, WarnedIsStable DEF Carry, vars, file_vars, peer_vars, query_vars, result_vars
<1>6. CASE PeersChange
  BY <1>6 DEF PeersChange, WarnedInv
<1> QED BY <1>1, <1>2, <1>3, <1>4, <1>5, <1>6 DEF Next

LEMMA InitWarned == Init => WarnedInv
BY DEF Init, WarnedInv

THEOREM WarnedHolds == Spec => []WarnedInv
BY InitWarned, NextKeepsWarned, InvariantHolds, TypesHold, PTL DEF Spec

\* For every file, vehicle and catalog: a frame that entries write to is
\* warned about once, as what it is.
THEOREM WritesWarned == Spec => []WritesAreWarnedOf
<1>1. IInv /\ TypesInv /\ WarnedInv => WritesAreWarnedOf
  <2> SUFFICES ASSUME IInv, TypesInv, WarnedInv, pc = "serving", current, NEW f \in vehicle
               PROVE  LET W == {e \in EntriesAt("to_can", survivors["to_can"]) : Carries(f, e)}
                      IN  /\ Cardinality(Said("secondTransmitter", f)) = IF W # {} /\ f.sent THEN 1 ELSE 0
                          /\ Cardinality(Said("inert", f)) <= 1
                          /\ W # {} /\ ~f.sent /\ f \notin RestbusFrames => Said("inert", f) # {}
                          /\ Said("inert", f) # {} => ~f.sent /\ \E e \in W : ~e.allowAdd
    BY DEF WritesAreWarnedOf, Said
  <2> DEFINE Surviving == EntriesAt("to_can", survivors["to_can"])
             W == {e \in Surviving : Carries(f, e)}
  <2>1. /\ vehicle \in Vehicles /\ index = IndexFrames(vehicle) /\ LoadInv /\ FrameInv(f)
        /\ \A i \in survivors["to_can"] : i \in kept["to_can"] /\ Reason(Entry("to_can", i)) = "none"
    BY DEF IInv, QueriesInv, LoopInv, WarnedInv, Sections
  <2>2. \A e \in Surviving : IsListed(e) /\ e \in KeptEntries /\ IsPair(e.signal) /\ e.signal[1] # ""
    BY <2>1, KeptIsSound, KeptIsListed DEF EntriesAt, Sections
  <2>3. ASSUME NEW e \in Surviving PROVE Carries(f, e) <=> FrameOf(e) = f
    <3>1. FrameOf(e) \in vehicle /\ Carries(FrameOf(e), e)
      BY <2>1, <2>2, ListedIsCarried
    <3>2. ASSUME NEW g \in vehicle, Carries(g, e) PROVE e.signal[1] = g.name /\ e.namespace = g.namespace
      <4>1. e.namespace = g.namespace
        BY <3>2 DEF Carries
      <4>2. e.signal \in g.signals \/ e.signal[1] = g.name
        BY <3>2 DEF Carries
      <4>3. e.signal \in g.signals => e.signal[1] \in {"", g.name}
        BY <2>1, VehiclesAssumption DEF IsVehicle
      <4> QED BY <2>2, <4>1, <4>2, <4>3
    <3>3. ASSUME Carries(f, e) PROVE FrameOf(e) = f
      <4>1. f.namespace = FrameOf(e).namespace /\ f.name = FrameOf(e).name
        BY <3>1, <3>2, <3>3
      <4> QED BY <2>1, <3>1, <4>1, VehiclesAssumption DEF IsVehicle
    <3> QED BY <3>1, <3>3
  <2>4. W = Writers(f)
    BY <2>3 DEF Writers
  <2>5. ASSUME NEW note \in WriteNotes PROVE Cardinality(Said(note, f)) = IF Said(note, f) = {} THEN 0 ELSE 1
    <3>1. CASE Said(note, f) = {}
      BY <3>1, FS_EmptySet
    <3>2. CASE Said(note, f) # {}
      <4>1. PICK j \in Said(note, f) : TRUE
        BY <3>2
      <4>2. Said(note, f) = {j}
        BY <2>1, <4>1 DEF FrameInv
      <4> QED BY <4>2, FS_Singleton
    <3> QED BY <3>1, <3>2
  <2>6. ASSUME f \notin RestbusFrames, NEW e \in Writers(f) PROVE ~e.allowAdd
    BY <2>6 DEF RestbusFrames, Writers
  <2> HIDE DEF W
  <2>7. Cardinality(Said("secondTransmitter", f)) = IF W # {} /\ f.sent THEN 1 ELSE 0
    BY <2>1, <2>4, <2>5 DEF FrameInv, WriteNotes
  <2>8. Cardinality(Said("inert", f)) <= 1
    BY <2>5 DEF WriteNotes
  <2>9. W # {} /\ ~f.sent /\ f \notin RestbusFrames => Said("inert", f) # {}
    BY <2>1, <2>4, <2>6 DEF FrameInv
  <2>10. Said("inert", f) # {} => ~f.sent /\ \E e \in W : ~e.allowAdd
    BY <2>1, <2>4 DEF FrameInv
  <2> QED BY <2>7, <2>8, <2>9, <2>10 DEF W
<1> QED BY <1>1, InvariantHolds, TypesHold, WarnedHolds, PTL
=============================================================================
