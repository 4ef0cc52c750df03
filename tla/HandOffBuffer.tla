--------------------------- MODULE HandOffBuffer ---------------------------
(***************************************************************************)
(* The latest-value buffer of one direction: class _Buffer of state.py.    *)
(* The two dicts _values and _versions are total functions over Paths in   *)
(* which 0 means "no entry"; they stay two functions, because nothing but  *)
(* the methods below keeps their key sets equal.  A value is its ordinal   *)
(* among the values ever put for its path (the code never looks at it).    *)
(***************************************************************************)
EXTENDS Naturals

CONSTANT Paths

Buffers == [value : [Paths -> Nat], at : [Paths -> Nat], version : Nat]

EmptyBuffer == [value |-> [p \in Paths |-> 0],
                at |-> [p \in Paths |-> 0],
                version |-> 0]

\* Plausible bugs, used as mutants of the operators that follow them.
AcknowledgeEverything(b, version) ==
    [b EXCEPT !.value = [p \in Paths |-> 0], !.at = [p \in Paths |-> 0]]
AcknowledgeKeepsValues(b, version) ==
    [b EXCEPT !.at = [p \in Paths |-> IF b.at[p] <= version THEN 0 ELSE b.at[p]]]
SnapshotWithoutVersion(b) == [values |-> b.value]
SnapshotOfVersions(b) == [version |-> b.version, values |-> b.at]

\* put: the slot takes the new value and the next version.
Put(b, p, v) ==
    [value |-> [b.value EXCEPT ![p] = v],
     at |-> [b.at EXCEPT ![p] = b.version + 1],
     version |-> b.version + 1]

\* snapshot: a copy of the values with the version it was taken at.
Snapshot(b) == [version |-> b.version, values |-> b.value]

\* acknowledge: clear the slots written no later than the given version.
Acknowledge(b, version) ==
    LET done == {p \in Paths : b.at[p] <= version}
    IN  [value |-> [p \in Paths |-> IF p \in done THEN 0 ELSE b.value[p]],
         at |-> [p \in Paths |-> IF p \in done THEN 0 ELSE b.at[p]],
         version |-> b.version]

\* pending: bool(self._values).
Pending(b) == \E p \in Paths : b.value[p] # 0
=============================================================================
