--------------------------- MODULE LatestRegister ---------------------------
(***************************************************************************)
(* What a direction of the bridge promises, without buffer, versions or    *)
(* workers.  Each path is a register: newest is the ordinal of the last    *)
(* value handed off for it, accepted the ordinal of the last value the     *)
(* peer took, discarded that of the last value given up because its        *)
(* mapping is not valid on the current connection.  Intermediate values    *)
(* may be skipped (state.py 3-17: "latest value", not a queue); no peer    *)
(* ever goes back to an older value or sees one that was not handed off.   *)
(***************************************************************************)
EXTENDS Naturals

CONSTANTS Directions, Paths

VARIABLES newest, accepted, discarded

regVars == <<newest, accepted, discarded>>

Registers == [Directions -> [Paths -> Nat]]

NothingYet == [d \in Directions |-> [p \in Paths |-> 0]]

Init == newest = NothingYet /\ accepted = NothingYet /\ discarded = NothingYet

\* The register g of every path moves forward from f, no further than limit.
Advances(f, g, limit) ==
    /\ g \in Registers
    /\ \A d \in Directions, p \in Paths : f[d][p] <= g[d][p] /\ g[d][p] <= limit[d][p]

\* New values arrive; none is forgotten.
Produce ==
    /\ newest' \in Registers
    /\ \A d \in Directions, p \in Paths : newest[d][p] <= newest'[d][p]
    /\ UNCHANGED <<accepted, discarded>>

\* The peer takes some values, none older than what it has.
Accept == Advances(accepted, accepted', newest) /\ UNCHANGED <<newest, discarded>>

\* Values without a valid mapping are given up.
Discard == Advances(discarded, discarded', newest) /\ UNCHANGED <<newest, accepted>>

Next == Produce \/ Accept \/ Discard

Spec == Init /\ [][Next]_regVars

Settled(d, p, n) == accepted[d][p] >= n \/ discarded[d][p] >= n
=============================================================================
