------------------------------ MODULE HandOff ------------------------------
(***************************************************************************)
(* The hand-off of values from producers to peers: the two buffers and the *)
(* one Condition of BridgeState (state.py), and the flush loops of the two *)
(* writers, run_kuksa_current_writer (remotive_to_vss.py 173-226) and      *)
(* run_remotive_restbus_writer (vss_to_remotive.py 319-341).               *)
(*                                                                         *)
(* An action is what runs between two suspension points of the event loop. *)
(* The lock of BridgeState is never held across one, so taking it never    *)
(* suspends, and a writer goes from the answer of its peer through         *)
(* acknowledge and record_write to the next snapshot in a single step.     *)
(***************************************************************************)
EXTENDS HandOffBuffer, FiniteSets

CONSTANTS
    Directions,  \* the members of enum Direction
    RouteSets,   \* RouteSets[d]: the sets of paths a connection may be valid for
    MaxPuts,     \* bound: values put per direction
    MaxFaults    \* bound: failed or idle connections

ASSUME PathsAssumption == IsFiniteSet(Paths)
ASSUME RoutesAssumption == RouteSets \in [Directions -> SUBSET SUBSET Paths]
ASSUME BoundsAssumption == MaxPuts \in Nat /\ MaxFaults \in Nat

VARIABLES
    buf,        \* BridgeState._buffers
    notified,   \* writers the Condition has notified and not yet woken
    pc,         \* where each writer is suspended
    routes,     \* the paths the writer's current connection has a mapping for
    taken,      \* the snapshot the writer is sending
    writes,     \* _Buffer.writes, served on /stats
    newest,     \* history: values put so far, per path
    accepted,   \* history: newest value the peer has applied
    discarded,  \* history: newest value acknowledged without being sent
    faults      \* what has gone wrong so far

vars == <<buf, notified, pc, routes, taken, writes, newest, accepted, discarded, faults>>

PCs == {"connecting", "waiting", "sending", "replying", "backoff"}
InFlight == {"sending", "replying"}

Nothing == [p \in Paths |-> 0]
NoSnapshot == [version |-> 0, values |-> Nothing]

TypeOK ==
    /\ buf \in [Directions -> Buffers]
    /\ notified \in [Directions -> BOOLEAN]
    /\ pc \in [Directions -> PCs]
    /\ routes \in [Directions -> SUBSET Paths]
    /\ taken \in [Directions -> [version : Nat, values : [Paths -> Nat]]]
    /\ writes \in [Directions -> Nat]
    /\ newest \in [Directions -> [Paths -> Nat]]
    /\ accepted \in [Directions -> [Paths -> Nat]]
    /\ discarded \in [Directions -> [Paths -> Nat]]
    /\ faults \in Nat

Init ==
    /\ buf = [d \in Directions |-> EmptyBuffer]
    /\ notified = [d \in Directions |-> FALSE]
    /\ pc = [d \in Directions |-> "connecting"]
    /\ routes = [d \in Directions |-> {}]
    /\ taken = [d \in Directions |-> NoSnapshot]
    /\ writes = [d \in Directions |-> 0]
    /\ newest = [d \in Directions |-> Nothing]
    /\ accepted = [d \in Directions |-> Nothing]
    /\ discarded = [d \in Directions |-> Nothing]
    /\ faults = 0

-----------------------------------------------------------------------------
(* Plausible bugs, used as mutants of the definitions that follow them.    *)
PutNotifiesNobody(d, p) ==
    /\ buf[d].version < MaxPuts
    /\ buf' = [buf EXCEPT ![d] = Put(@, p, newest[d][p] + 1)]
    /\ newest' = [newest EXCEPT ![d][p] = @ + 1]
    /\ UNCHANGED <<notified, pc, routes, taken, writes, accepted, discarded, faults>>
\* notify(1) on a Condition that both directions share
PutNotifiesOne(d, p) ==
    /\ buf[d].version < MaxPuts
    /\ buf' = [buf EXCEPT ![d] = Put(@, p, newest[d][p] + 1)]
    /\ newest' = [newest EXCEPT ![d][p] = @ + 1]
    /\ IF \E e \in Directions : pc[e] = "waiting" /\ ~notified[e]
       THEN \E e \in Directions : /\ pc[e] = "waiting" /\ ~notified[e]
                                  /\ notified' = [notified EXCEPT ![e] = TRUE]
       ELSE UNCHANGED notified
    /\ UNCHANGED <<pc, routes, taken, writes, accepted, discarded, faults>>
\* a producer that hands its values over newest first
PutReversed(d, p) ==
    /\ buf[d].version < MaxPuts
    /\ buf' = [buf EXCEPT ![d] = Put(@, p, MaxPuts - newest[d][p])]
    /\ newest' = [newest EXCEPT ![d][p] = @ + 1]
    /\ notified' = [e \in Directions |-> notified[e] \/ pc[e] = "waiting"]
    /\ UNCHANGED <<pc, routes, taken, writes, accepted, discarded, faults>>

-----------------------------------------------------------------------------
(* The producer's side: put_latest.  notify_all wakes every waiter of the  *)
(* shared Condition, whichever direction it waits for.                     *)
PutLatest(d, p) ==
    /\ buf[d].version < MaxPuts
    /\ buf' = [buf EXCEPT ![d] = Put(@, p, newest[d][p] + 1)]
    /\ newest' = [newest EXCEPT ![d][p] = @ + 1]
    /\ notified' = [e \in Directions |-> notified[e] \/ pc[e] = "waiting"]
    /\ UNCHANGED <<pc, routes, taken, writes, accepted, discarded, faults>>

-----------------------------------------------------------------------------
(* The writer's side.                                                      *)

\* What has been given up for each path once the snapshot values, sent to
\* the paths in r only, is acknowledged.
GivenUp(old, values, r) ==
    [p \in Paths |-> IF values[p] # 0 /\ p \notin r THEN values[p] ELSE old[p]]

\* The head of the flush loop, with buffer b, valid paths r and discarded
\* values gone: wait, send a snapshot, or acknowledge one that holds nothing
\* to send (and then wait, the buffer being empty).
FlushLoop(d, b, r, gone) ==
    \/ /\ ~Pending(b)
       /\ pc' = [pc EXCEPT ![d] = "waiting"]
       /\ buf' = [buf EXCEPT ![d] = b]
       /\ discarded' = [discarded EXCEPT ![d] = gone]
       /\ taken' = [taken EXCEPT ![d] = NoSnapshot]
    \/ /\ \E p \in r : b.value[p] # 0
       /\ pc' = [pc EXCEPT ![d] = "sending"]
       /\ taken' = [taken EXCEPT ![d] = Snapshot(b)]
       /\ buf' = [buf EXCEPT ![d] = b]
       /\ discarded' = [discarded EXCEPT ![d] = gone]
    \/ /\ Pending(b)
       /\ \A p \in r : b.value[p] = 0
       /\ pc' = [pc EXCEPT ![d] = "waiting"]
       /\ buf' = [buf EXCEPT ![d] = Acknowledge(b, b.version)]
       /\ discarded' = [discarded EXCEPT ![d] = GivenUp(gone, b.value, r)]
       /\ taken' = [taken EXCEPT ![d] = NoSnapshot]

\* Connected and validated: the backlog goes out before the first wait.
Connect(d) ==
    /\ pc[d] = "connecting"
    /\ \E r \in RouteSets[d] \ {{}} :
          /\ routes' = [routes EXCEPT ![d] = r]
          /\ FlushLoop(d, buf[d], r, discarded[d])
    /\ UNCHANGED <<notified, writes, newest, accepted, faults>>

\* The peer is down, the validation failed, or it left no mapping valid.
ConnectFails(d) ==
    /\ pc[d] = "connecting"
    /\ faults < MaxFaults
    /\ faults' = faults + 1
    /\ pc' = [pc EXCEPT ![d] = "backoff"]
    /\ UNCHANGED <<buf, notified, routes, taken, writes, newest, accepted, discarded>>

Retry(d) ==
    /\ pc[d] = "backoff"
    /\ pc' = [pc EXCEPT ![d] = "connecting"]
    /\ UNCHANGED <<buf, notified, routes, taken, writes, newest, accepted, discarded, faults>>

\* wait_for tests its predicate again on every notification.
Wake(d) ==
    /\ pc[d] = "waiting" /\ notified[d]
    /\ notified' = [notified EXCEPT ![d] = FALSE]
    /\ \/ Pending(buf[d]) /\ FlushLoop(d, buf[d], routes[d], discarded[d])
       \/ ~Pending(buf[d]) /\ UNCHANGED <<buf, pc, taken, discarded>>
    /\ UNCHANGED <<routes, writes, newest, accepted, faults>>

\* The peer applies the request of kuksa.set or restbus.update_signals.
PeerApplies(d) ==
    /\ pc[d] = "sending"
    /\ pc' = [pc EXCEPT ![d] = "replying"]
    /\ accepted' = [accepted EXCEPT ![d] =
           [p \in Paths |-> IF p \in routes[d] /\ taken[d].values[p] # 0
                            THEN taken[d].values[p] ELSE accepted[d][p]]]
    /\ UNCHANGED <<buf, notified, routes, taken, writes, newest, discarded, faults>>

\* The signals of the snapshot that were sent.
Sent(d) == {p \in routes[d] : taken[d].values[p] # 0}

\* A plausible bug: the mutant of Fail.
FailCountsWrite(d) ==
    /\ pc[d] \in InFlight
    /\ faults < MaxFaults
    /\ faults' = faults + 1
    /\ pc' = [pc EXCEPT ![d] = "backoff"]
    /\ writes' = [writes EXCEPT ![d] = @ + Cardinality(Sent(d))]
    /\ taken' = [taken EXCEPT ![d] = NoSnapshot]
    /\ routes' = [routes EXCEPT ![d] = {}]
    /\ UNCHANGED <<buf, notified, newest, accepted, discarded>>

\* The answer arrives: acknowledge, record_write, and round the loop.  Paths
\* of the snapshot that had no mapping are acknowledged with the rest.
AcknowledgeWrite(d) ==
    /\ pc[d] = "replying"
    /\ FlushLoop(d, Acknowledge(buf[d], taken[d].version), routes[d],
                 GivenUp(discarded[d], taken[d].values, routes[d]))
    /\ writes' = [writes EXCEPT ![d] = @ + Cardinality(Sent(d))]
    /\ UNCHANGED <<notified, routes, newest, accepted, faults>>

\* The request or its answer is lost with the connection: nothing is
\* acknowledged, and the writer cannot tell the two apart.
Fail(d) ==
    /\ pc[d] \in InFlight
    /\ faults < MaxFaults
    /\ faults' = faults + 1
    /\ pc' = [pc EXCEPT ![d] = "backoff"]
    /\ taken' = [taken EXCEPT ![d] = NoSnapshot]
    /\ routes' = [routes EXCEPT ![d] = {}]
    /\ UNCHANGED <<buf, notified, writes, newest, accepted, discarded>>

Writer(d) ==
    \/ Connect(d) \/ ConnectFails(d) \/ Retry(d) \/ Wake(d)
    \/ PeerApplies(d) \/ AcknowledgeWrite(d) \/ Fail(d)

Next == \E d \in Directions : Writer(d) \/ \E p \in Paths : PutLatest(d, p)

\* The event loop runs every ready task, connections are eventually made and
\* requests eventually answered; nothing obliges a producer to put or a
\* connection to fail.
Progress(d) ==
    Connect(d) \/ Retry(d) \/ Wake(d) \/ PeerApplies(d) \/ AcknowledgeWrite(d)

Spec == Init /\ [][Next]_vars
FairSpec == Spec /\ \A d \in Directions : WF_vars(Progress(d))

-----------------------------------------------------------------------------
(* The inductive invariant, in parts: n, a and g are what was put, applied *)
(* and given up for each path, b the buffer and t the snapshot.            *)

\* A slot holds the newest value of its path.
SlotsHoldNewest(b, n) ==
    \A p \in Paths :
        /\ b.value[p] = 0 <=> b.at[p] = 0
        /\ b.at[p] <= b.version
        /\ b.value[p] # 0 => b.value[p] = n[p]

NothingLost(b, n, a, g) ==
    \A p \in Paths : n[p] = a[p] \/ n[p] = g[p] \/ n[p] = b.value[p]

NothingInvented(n, a, g) == \A p \in Paths : a[p] <= n[p] /\ g[p] <= n[p]

\* What is in flight is still in the buffer, at its old version or overwritten
\* at a later one, and no older than what was applied or given up before.
FlightMatches(b, t, a, g) ==
    \A p \in Paths :
        /\ t.values[p] = 0 => b.at[p] = 0 \/ b.at[p] > t.version
        /\ t.values[p] # 0 =>
              /\ b.at[p] # 0
              /\ b.at[p] <= t.version => b.value[p] = t.values[p]
              /\ b.at[p] > t.version => t.values[p] <= b.value[p]
              /\ a[p] <= t.values[p] /\ g[p] <= t.values[p]

DirectionInv(d) ==
    /\ SlotsHoldNewest(buf[d], newest[d])
    /\ NothingLost(buf[d], newest[d], accepted[d], discarded[d])
    /\ NothingInvented(newest[d], accepted[d], discarded[d])
    /\ pc[d] \in InFlight =>
          /\ taken[d].version <= buf[d].version
          /\ FlightMatches(buf[d], taken[d], accepted[d], discarded[d])
    /\ pc[d] = "replying" =>
          \A p \in Sent(d) : accepted[d][p] = taken[d].values[p]
    /\ pc[d] = "waiting" /\ Pending(buf[d]) => notified[d]

IInv == TypeOK /\ \A d \in Directions : DirectionInv(d)

-----------------------------------------------------------------------------
(* Properties.                                                             *)

\* The newest value of a path is still in the buffer unless the peer has
\* applied it or it was given up for want of a mapping: no interleaving of
\* puts with a write in flight, a lost request or a lost answer makes the
\* acknowledgement clear a value nobody has seen (state.py 12-17).
NoLostUpdate ==
    \A d \in Directions, p \in Paths :
        \/ newest[d][p] = accepted[d][p]
        \/ newest[d][p] = discarded[d][p]
        \/ newest[d][p] = buf[d].value[p]

\* _values and _versions have the same keys, and no slot is from the future:
\* what pending_snapshot would send is exactly what acknowledge can clear.
SlotsAgree ==
    \A d \in Directions, p \in Paths :
        /\ buf[d].value[p] = 0 <=> buf[d].at[p] = 0
        /\ buf[d].at[p] <= buf[d].version

\* A writer asleep on the Condition while its buffer holds something has been
\* notified: the wake-up meant for one direction is never spent on the other
\* (state.py 115-117 and 180).
NoMissedWakeup ==
    \A d \in Directions :
        pc[d] = "waiting" /\ Pending(buf[d]) => notified[d]

\* Retries never make /stats report more writes than there were values:
\* the unsent slots and the writes counted so far fit in the puts.
WritesCountOnce ==
    \A d \in Directions :
        writes[d] + Cardinality({p \in Paths : buf[d].value[p] # 0}) <= buf[d].version

\* A peer never goes back to an older value of a path, whatever is resent.
NeverGoesBack ==
    [][\A d \in Directions, p \in Paths : accepted[d][p] <= accepted'[d][p]]_accepted

\* The hand-off implements the abstract registers of LatestRegister.
Abstract == INSTANCE LatestRegister

ImplementsRegister == Abstract!Spec

\* Every value handed off is applied by the peer, superseded by a newer one
\* that is, or given up for want of a mapping, once connections stop failing.
EverythingSettles ==
    \A d \in Directions, p \in Paths : \A n \in 1..MaxPuts :
        newest[d][p] >= n ~> Abstract!Settled(d, p, n)
=============================================================================
