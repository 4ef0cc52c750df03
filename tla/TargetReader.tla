---------------------------- MODULE TargetReader ----------------------------
(***************************************************************************)
(* Loop B up to its buffer: run_kuksa_target_reader with                   *)
(* _subscribe_both_protocols (vss_to_remotive.py 72-253) against a         *)
(* databroker that serves the v1 and v2 target streams, or only one.       *)
(*                                                                         *)
(* Commands to a path are numbered in the order the databroker takes them, *)
(* over whichever protocol.  It stores the last target of a path; only the *)
(* stream of the protocol that was used tells of it.  A v1 subscription    *)
(* begins with the stored targets, a v2 subscription reports changes only  *)
(* (vss_to_remotive.py 33-45).                                             *)
(***************************************************************************)
EXTENDS Naturals, FiniteSets, FiniteSetsExt, SequencesExt

CONSTANTS
    Paths,        \* to_can VSS paths
    Refused,      \* targets that vss_to_can refuses with a TransformError
    Raising,      \* targets that make it raise anything else
    MaxCommands,  \* bound: commands to each path
    MaxFaults     \* bound: failures of connections and streams

Protocols == {"v1", "v2"}

ASSUME PathsAssumption == IsFiniteSet(Paths)
ASSUME BoundsAssumption == MaxCommands \in Nat /\ MaxFaults \in Nat

Updates == [path : Paths, value : 1..MaxCommands]
\* Refused: a number out of range or not in the enum, for one.  Raising: a
\* list looked up in an enum, or a null or list level that meets a range.
ASSUME TargetsAssumption == Refused \subseteq Updates /\ Raising \subseteq Updates \ Refused

VARIABLES
    served,   \* databroker: the protocols it implements, once and for all
    issued,   \* databroker: commands taken, per path
    stored,   \* databroker: target value held, 0 for none
    pc,       \* where the reader is suspended
    branch,   \* state of the two tasks of the TaskGroup
    inbox,    \* targets sent on each stream, not yet handled
    target,   \* last target given to put_latest, per path
    source,   \* history: where that target came from
    handed,   \* history: newest target ever given to put_latest
    dropped,  \* history: newest target refused and counted by record_drop
    unseen,   \* history: paths whose stored target no open stream has told of
    faults

vars == <<served, issued, stored, pc, branch, inbox, target, source, handed, dropped, unseen, faults>>

PCs == {"connecting", "seeding", "subscribed", "backoff"}
BranchStates == {"idle", "opening", "open", "dormant", "failed", "ended"}
\* A bug: the task of an absent protocol waits for it for ever.
OverWhenServed == {"failed", "ended"}
Over == {"dormant", "failed", "ended"}

TypeOK ==
    /\ served \subseteq Protocols
    /\ issued \in [Paths -> 0..MaxCommands]
    /\ stored \in [Paths -> 0..MaxCommands]
    /\ pc \in PCs
    /\ branch \in [Protocols -> BranchStates]
    /\ inbox \in [Protocols -> Seq(Updates)]
    /\ target \in [Paths -> 0..MaxCommands]
    /\ source \in [Paths -> Protocols \cup {"seed"}]
    /\ handed \in [Paths -> 0..MaxCommands]
    /\ dropped \in [Paths -> 0..MaxCommands]
    /\ unseen \subseteq Paths
    /\ faults \in 0..MaxFaults

NoTargets == [p \in Paths |-> 0]
NoBranches == [x \in Protocols |-> "idle"]
NoUpdates == [x \in Protocols |-> <<>>]

Init ==
    /\ served \in SUBSET Protocols
    /\ issued = NoTargets /\ stored = NoTargets
    /\ pc = "connecting" /\ branch = NoBranches /\ inbox = NoUpdates
    /\ target = NoTargets /\ handed = NoTargets /\ dropped = NoTargets
    /\ source = [p \in Paths |-> "seed"]
    /\ unseen = {}
    /\ faults = 0

Fault == faults < MaxFaults /\ faults' = faults + 1

Update(p, n) == [path |-> p, value |-> n]
Raises(p, n) == Update(p, n) \in Raising
\* The paths with a value that converts, and with one that is refused.
Commanded(values) == {p \in Paths : values[p] # 0 /\ Update(p, values[p]) \notin Refused}
Declined(values) == {p \in Paths : values[p] # 0 /\ Update(p, values[p]) \in Refused}
Newest(history, S, values) ==
    [p \in Paths |-> IF p \in S THEN Max({history[p], values[p]}) ELSE history[p]]

\* A bug: a refused target is forgotten without being counted.
PutsUncounted(values, x) ==
    /\ target' = [p \in Paths |-> IF p \in Commanded(values) THEN values[p] ELSE target[p]]
    /\ source' = [p \in Paths |-> IF p \in Commanded(values) THEN x ELSE source[p]]
    /\ handed' = Newest(handed, Commanded(values), values)
    /\ UNCHANGED dropped

\* _buffer_target for every path with a value, none of which raises: None is
\* not a command, and a refused one is counted and leaves the slot alone.
Puts(values, x) ==
    /\ target' = [p \in Paths |-> IF p \in Commanded(values) THEN values[p] ELSE target[p]]
    /\ source' = [p \in Paths |-> IF p \in Commanded(values) THEN x ELSE source[p]]
    /\ handed' = Newest(handed, Commanded(values), values)
    /\ dropped' = Newest(dropped, Declined(values), values)

Only(values, S) == [p \in Paths |-> IF p \in S THEN values[p] ELSE 0]

-----------------------------------------------------------------------------
(* The reader.                                                             *)

Connects ==
    /\ pc = "connecting"
    /\ pc' = "seeding"
    /\ UNCHANGED <<served, issued, stored, branch, inbox, target, source, handed, dropped, unseen, faults>>

\* The connection or get_target_values raises.
ConnectFails ==
    /\ pc \in {"connecting", "seeding"} /\ Fault
    /\ pc' = "backoff"
    /\ UNCHANGED <<served, issued, stored, branch, inbox, target, source, handed, dropped, unseen>>

\* Stored targets whose conversion raises: get_target_values brings them
\* every time.
Poison == {p \in Paths : Raises(p, stored[p])}

\* get_target_values answers: buffer the stored targets, start both tasks.
Seeds ==
    /\ pc = "seeding" /\ Poison = {}
    /\ Puts(stored, "seed")
    /\ unseen' = {}
    /\ pc' = "subscribed"
    /\ branch' = [x \in Protocols |-> "opening"]
    /\ UNCHANGED <<served, issued, stored, inbox, faults>>

\* One of them raises: what came before it is buffered, the rest is not, and
\* the reader records the error and starts over.
SeedRaises ==
    /\ pc = "seeding" /\ Poison # {}
    /\ \E S \in SUBSET (Paths \ Poison) : Puts(Only(stored, S), "seed")
    /\ pc' = "backoff"
    /\ UNCHANGED <<served, issued, stored, branch, inbox, unseen, faults>>

\* The databroker accepts the subscription; v1 replays what is stored.
Opens(x) ==
    /\ branch[x] = "opening" /\ x \in served
    /\ branch' = [branch EXCEPT ![x] = "open"]
    /\ IF x = "v1"
       THEN LET set == SetToSeq({p \in Paths : stored[p] # 0})
            IN  /\ inbox' = [inbox EXCEPT ![x] =
                       [i \in DOMAIN set |-> Update(set[i], stored[set[i]])]]
                /\ unseen' = {}
       ELSE UNCHANGED <<inbox, unseen>>
    /\ UNCHANGED <<served, issued, stored, pc, target, source, handed, dropped, faults>>

\* UNIMPLEMENTED: the guard returns and this protocol lies dormant.
Unimplemented(x) ==
    /\ branch[x] = "opening" /\ x \notin served
    /\ branch' = [branch EXCEPT ![x] = "dormant"]
    /\ UNCHANGED <<served, issued, stored, pc, inbox, target, source, handed, dropped, unseen, faults>>

\* The guard records the error and returns: what the stream held is lost.
Breaks(x) ==
    /\ branch' = [branch EXCEPT ![x] = "failed"]
    /\ inbox' = [inbox EXCEPT ![x] = <<>>]
    /\ unseen' = unseen \cup {inbox[x][i].path : i \in DOMAIN inbox[x]}
    /\ UNCHANGED <<served, issued, stored, pc, target, source, handed, dropped>>

\* Any other error of the subscription, ALREADY_EXISTS for one.
BranchFails(x) ==
    /\ branch[x] \in {"opening", "open"} /\ x \in served /\ Fault
    /\ Breaks(x)

\* The databroker ends a stream, after its last update.
BranchEnds(x) ==
    /\ branch[x] = "open" /\ inbox[x] = <<>> /\ Fault
    /\ branch' = [branch EXCEPT ![x] = "ended"]
    /\ UNCHANGED <<served, issued, stored, pc, inbox, target, source, handed, dropped, unseen>>

Carries(u) == [p \in Paths |-> IF p = u.path THEN u.value ELSE 0]

\* A bug: the newest update first.
HandleNewestFirst(x) ==
    /\ branch[x] = "open" /\ inbox[x] # <<>> /\ Last(inbox[x]) \notin Raising
    /\ Puts(Carries(Last(inbox[x])), x)
    /\ inbox' = [inbox EXCEPT ![x] = Front(@)]
    /\ UNCHANGED <<served, issued, stored, pc, branch, unseen, faults>>

\* A round of _drain_v1_targets or _drain_v2_targets.
Handle(x) ==
    /\ branch[x] = "open" /\ inbox[x] # <<>> /\ Head(inbox[x]) \notin Raising
    /\ Puts(Carries(Head(inbox[x])), x)
    /\ inbox' = [inbox EXCEPT ![x] = Tail(@)]
    /\ UNCHANGED <<served, issued, stored, pc, branch, unseen, faults>>

\* The conversion raises inside the stream, and ends it.
HandleRaises(x) ==
    /\ branch[x] = "open" /\ inbox[x] # <<>> /\ Head(inbox[x]) \in Raising
    /\ Breaks(x)
    /\ UNCHANGED faults

\* A bug: the reader returns instead of going round.
StreamsEndedForGood ==
    /\ pc = "subscribed" /\ \A x \in Protocols : branch[x] \in Over
    /\ UNCHANGED vars

\* The TaskGroup is done when both tasks are.
StreamsEnded ==
    /\ pc = "subscribed" /\ \A x \in Protocols : branch[x] \in Over
    /\ pc' = "backoff"
    /\ branch' = NoBranches
    /\ UNCHANGED <<served, issued, stored, inbox, target, source, handed, dropped, unseen, faults>>

Retry ==
    /\ pc = "backoff"
    /\ pc' = "connecting"
    /\ UNCHANGED <<served, issued, stored, branch, inbox, target, source, handed, dropped, unseen, faults>>

-----------------------------------------------------------------------------
(* The functions that command, through the databroker.                     *)

\* Whether a v2 actuation is also stored is the databroker's business.
Command(x, p) ==
    /\ x \in served /\ issued[p] < MaxCommands
    /\ issued' = [issued EXCEPT ![p] = @ + 1]
    /\ \/ /\ stored' = [stored EXCEPT ![p] = issued'[p]]
          /\ unseen' = IF branch[x] = "open" THEN unseen \ {p} ELSE unseen \cup {p}
       \/ /\ x = "v2" /\ branch[x] = "open"
          /\ UNCHANGED <<stored, unseen>>
    /\ inbox' = IF branch[x] = "open"
                THEN [inbox EXCEPT ![x] = Append(@, Update(p, issued'[p]))]
                ELSE inbox
    /\ UNCHANGED <<served, pc, branch, target, source, handed, dropped, faults>>

Branch(x) == Opens(x) \/ Unimplemented(x) \/ Handle(x) \/ HandleRaises(x)

Next ==
    \/ Connects \/ ConnectFails \/ Seeds \/ SeedRaises \/ StreamsEnded \/ Retry
    \/ \E x \in Protocols : Branch(x) \/ BranchFails(x) \/ BranchEnds(x)
    \/ \E x \in Protocols, p \in Paths : Command(x, p)

Spec == Init /\ [][Next]_vars

\* The reader and the tasks of its group run, and KUKSA answers; nothing
\* obliges a stream to fail or to end.
FairSpec ==
    /\ Spec
    /\ WF_vars(Connects \/ Seeds \/ SeedRaises \/ StreamsEnded \/ Retry)
    /\ \A x \in Protocols : WF_vars(Branch(x))

-----------------------------------------------------------------------------
(* Properties.                                                             *)

\* A target of the path at least as new was buffered, or refused and counted.
DealtWith(p, n) == handed[p] >= n \/ dropped[p] >= n

\* While subscribed, the stored target of a path has been buffered or counted
\* as a drop, or is on its way in a stream, unless it was set where no open
\* stream tells of it or a stream broke with it: seed, v1 replay, both streams
\* and _buffer_target leave no other gap.
TargetsAccountedFor ==
    pc = "subscribed" =>
        \A p \in Paths \ unseen :
            \/ DealtWith(p, stored[p])
            \/ \E x \in Protocols : \E i \in DOMAIN inbox[x] :
                   inbox[x][i] = Update(p, stored[p])

\* Two streams and the seed feed one slot per path.  A target is replaced by
\* an older one only when that comes from another of the three.
OneSourceNeverGoesBack ==
    [][\A p \in Paths : target'[p] < target[p] => source'[p] # source[p]]_vars

\* Set where no stream will tell of it while a stream keeps the group alive.
Stranded(p) ==
    pc = "subscribed" /\ p \in unseen /\ \E x \in Protocols : branch[x] = "open"

\* A stored target is buffered or counted as a drop in the end, through
\* failures of either stream, unless for ever after the other stream stays
\* open and keeps the reader from reconnecting, or a stored target, of
\* whichever path, makes the conversion raise and every seed fail.
TargetsArrive ==
    \A p \in Paths : \A n \in 1..MaxCommands :
        stored[p] >= n ~> DealtWith(p, n) \/ []Stranded(p) \/ [](Poison # {})

\* A databroker without v2 loses nothing by it: the dormant branch neither
\* ends the v1 stream nor keeps the reader from reconnecting (159-167), so
\* only a stored target that makes every seed fail can be in the way.
OneProtocolSuffices ==
    \A p \in Paths : \A n \in 1..MaxCommands :
        served = {"v1"} /\ stored[p] >= n ~> DealtWith(p, n) \/ [](Poison # {})
=============================================================================
