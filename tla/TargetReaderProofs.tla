------------------------- MODULE TargetReaderProofs -------------------------
(***************************************************************************)
(* Proofs about TargetReader: type correctness, that every stored target   *)
(* is accounted for while subscribed, and that no single source brings an  *)
(* older target back, for any set of paths and any bounds.                 *)
(***************************************************************************)
EXTENDS TargetReader, FiniteSetTheorems, TLAPS

\* Between subscriptions no stream is open, and only an open stream holds
\* anything.
Streams ==
    /\ pc # "subscribed" => branch = NoBranches
    /\ \A x \in Protocols : branch[x] # "open" => inbox[x] = <<>>

\* How far the databroker, its store, the streams and the buffer have come.
Bounds ==
    /\ \A p \in Paths : stored[p] <= issued[p] /\ target[p] <= issued[p]
    /\ \A p \in Paths : source[p] # "v2" => target[p] <= stored[p]
    /\ \A x \in Protocols : \A i \in DOMAIN inbox[x] :
           LET u == inbox[x][i]
           IN  /\ u.value <= issued[u.path]
               /\ x = "v1" => u.value <= stored[u.path]

\* A stream is in the order of the commands, and goes on where the target of
\* the buffer came from.
InOrder ==
    \A x \in Protocols :
        /\ \A i \in DOMAIN inbox[x] :
               source[inbox[x][i].path] = x => target[inbox[x][i].path] <= inbox[x][i].value
        /\ \A i, j \in DOMAIN inbox[x] :
               i < j /\ inbox[x][i].path = inbox[x][j].path =>
                   inbox[x][i].value <= inbox[x][j].value

\* What the theorems need, and each step preserves.
IInv == TypeOK /\ Streams /\ Bounds /\ InOrder /\ TargetsAccountedFor

-----------------------------------------------------------------------------
(* Data.                                                                   *)

LEMMA MaxOfTwo ==
    ASSUME NEW m \in Nat, NEW n \in Nat
    PROVE  Max({m, n}) \in {m, n} /\ Max({m, n}) >= m /\ Max({m, n}) >= n
  <1>1. \E v \in {m, n} : \A w \in {m, n} : v >= w
    OBVIOUS
  <1>2. Max({m, n}) \in {m, n} /\ \A w \in {m, n} : Max({m, n}) >= w
    BY <1>1 DEF Max
  <1> QED
    BY <1>2

\* The replay lists every element of the set once.
LEMMA SequenceOfSet ==
    ASSUME NEW S, IsFiniteSet(S)
    PROVE  /\ SetToSeq(S) \in [1..Cardinality(S) -> S]
           /\ Cardinality(S) \in Nat
           /\ \A i, j \in 1..Cardinality(S) : SetToSeq(S)[i] = SetToSeq(S)[j] => i = j
           /\ \A e \in S : \E i \in 1..Cardinality(S) : SetToSeq(S)[i] = e
  <1> DEFINE n == Cardinality(S)
             f == SetToSeq(S)
  <1>1. n \in Nat /\ ExistsBijection(1..n, S)
    BY FS_CardinalityType
  <1>2. \E g \in [1..n -> S] : IsInjective(g)
    BY <1>1 DEF ExistsBijection, Bijection, Injection
  <1>3. f \in [1..n -> S] /\ IsInjective(f)
    BY <1>2 DEF SetToSeq
  <1>4. f \in Injection(1..n, S)
    BY <1>3 DEF Injection
  <1>5. IsFiniteSet(1..n) /\ Cardinality(1..n) = n
    BY <1>1, FS_Interval
  <1>6. f \in Surjection(1..n, S)
    BY <1>4, <1>5, FS_Injection
  <1> QED
    BY <1>1, <1>3, <1>6 DEF Surjection, IsInjective

LEMMA UpdateTypes ==
    ASSUME TypeOK, NEW x \in Protocols
    PROVE  /\ inbox[x] \in Seq(Updates)
           /\ \A i \in DOMAIN inbox[x] :
                  /\ inbox[x][i].path \in Paths /\ inbox[x][i].value \in 1..MaxCommands
                  /\ inbox[x][i].value \in Nat /\ inbox[x][i].value # 0
  <1>1. inbox[x] \in Seq(Updates)
    BY DEF TypeOK
  <1>2. \A i \in DOMAIN inbox[x] : inbox[x][i] \in Updates
    BY <1>1
  <1> QED
    BY <1>1, <1>2, BoundsAssumption DEF Updates

LEMMA Numbers ==
    ASSUME TypeOK, NEW p \in Paths
    PROVE  /\ issued[p] \in Nat /\ stored[p] \in Nat /\ target[p] \in Nat
           /\ handed[p] \in Nat /\ dropped[p] \in Nat
  BY BoundsAssumption DEF TypeOK

LEMMA NewestGrows ==
    ASSUME NEW history \in [Paths -> 0..MaxCommands], NEW S,
           NEW values \in [Paths -> 0..MaxCommands]
    PROVE  /\ Newest(history, S, values) \in [Paths -> 0..MaxCommands]
           /\ \A p \in Paths :
                  /\ history[p] <= Newest(history, S, values)[p]
                  /\ p \in S => values[p] <= Newest(history, S, values)[p]
  <1>1. \A p \in Paths : /\ Max({history[p], values[p]}) \in 0..MaxCommands
                         /\ history[p] <= Max({history[p], values[p]})
                         /\ values[p] <= Max({history[p], values[p]})
    <2> TAKE p \in Paths
    <2>1. history[p] \in 0..MaxCommands /\ values[p] \in 0..MaxCommands
      OBVIOUS
    <2> QED
      BY <2>1, MaxOfTwo, BoundsAssumption
  <1> QED
    BY <1>1, BoundsAssumption DEF Newest

\* _buffer_target of values that the buffer may hold: a slot takes the value
\* and its source or is left alone, and each value is buffered or counted.
LEMMA PutsTyped ==
    ASSUME TypeOK, NEW x \in Protocols \cup {"seed"},
           NEW values \in [Paths -> 0..MaxCommands], Puts(values, x)
    PROVE  /\ target' \in [Paths -> 0..MaxCommands]
           /\ source' \in [Paths -> Protocols \cup {"seed"}]
           /\ handed' \in [Paths -> 0..MaxCommands]
           /\ dropped' \in [Paths -> 0..MaxCommands]
           /\ \A p \in Paths : handed[p] <= handed'[p] /\ dropped[p] <= dropped'[p]
           /\ \A p \in Paths : handed'[p] >= values[p] \/ dropped'[p] >= values[p]
           /\ \A p \in Paths :
                  \/ target'[p] = target[p] /\ source'[p] = source[p]
                  \/ values[p] # 0 /\ target'[p] = values[p] /\ source'[p] = x
  <1>1. /\ handed' = Newest(handed, Commanded(values), values)
        /\ dropped' = Newest(dropped, Declined(values), values)
    BY DEF Puts
  <1>2. /\ handed \in [Paths -> 0..MaxCommands] /\ dropped \in [Paths -> 0..MaxCommands]
        /\ target \in [Paths -> 0..MaxCommands]
        /\ source \in [Paths -> Protocols \cup {"seed"}]
    BY DEF TypeOK
  <1>3. /\ handed' \in [Paths -> 0..MaxCommands]
        /\ \A p \in Paths : /\ handed[p] <= handed'[p]
                            /\ p \in Commanded(values) => values[p] <= handed'[p]
    BY <1>1, <1>2, NewestGrows
  <1>4. /\ dropped' \in [Paths -> 0..MaxCommands]
        /\ \A p \in Paths : /\ dropped[p] <= dropped'[p]
                            /\ p \in Declined(values) => values[p] <= dropped'[p]
    BY <1>1, <1>2, NewestGrows
  <1>5. \A p \in Paths : handed'[p] >= values[p] \/ dropped'[p] >= values[p]
    <2> TAKE p \in Paths
    <2>1. values[p] \in Nat /\ handed'[p] \in Nat /\ dropped'[p] \in Nat
      BY <1>3, <1>4, BoundsAssumption
    <2>2. values[p] = 0 \/ p \in Commanded(values) \/ p \in Declined(values)
      BY DEF Commanded, Declined
    <2> QED
      BY <1>3, <1>4, <2>1, <2>2
  <1>6. \A p \in Paths :
            \/ target'[p] = target[p] /\ source'[p] = source[p]
            \/ values[p] # 0 /\ target'[p] = values[p] /\ source'[p] = x
    BY DEF Puts, Commanded
  <1>7. target' \in [Paths -> 0..MaxCommands] /\ source' \in [Paths -> Protocols \cup {"seed"}]
    BY <1>2 DEF Puts
  <1> QED
    BY <1>3, <1>4, <1>5, <1>6, <1>7

\* What is dealt with stays so.
LEMMA DealtWithForGood ==
    ASSUME NEW p \in Paths, NEW n \in Nat, DealtWith(p, n), TypeOK, TypeOK',
           handed[p] <= handed'[p], dropped[p] <= dropped'[p]
    PROVE  handed'[p] >= n \/ dropped'[p] >= n
  <1>1. /\ handed[p] \in Nat /\ handed'[p] \in Nat
        /\ dropped[p] \in Nat /\ dropped'[p] \in Nat
    BY BoundsAssumption DEF TypeOK
  <1> QED
    BY <1>1 DEF DealtWith

-----------------------------------------------------------------------------
(* Steps that move no value: at most a stream is thrown away.              *)

Quiet ==
    \/ Connects \/ ConnectFails \/ StreamsEnded \/ Retry
    \/ \E x \in Protocols : Unimplemented(x) \/ BranchFails(x) \/ HandleRaises(x) \/ BranchEnds(x)

LEMMA QuietMoves ==
    ASSUME IInv, Quiet
    PROVE  /\ UNCHANGED <<served, issued, stored, target, source, handed, dropped>>
           /\ pc' \in PCs /\ branch' \in [Protocols -> BranchStates]
           /\ faults' \in 0..MaxFaults /\ unseen' \subseteq Paths /\ unseen \subseteq unseen'
           /\ inbox' \in [Protocols -> Seq(Updates)]
           /\ \A x \in Protocols : inbox'[x] = inbox[x] \/ inbox'[x] = <<>>
           /\ \A x \in Protocols : branch'[x] # "open" => inbox'[x] = <<>>
           /\ pc' # "subscribed" => branch' = NoBranches
           /\ pc' = "subscribed" =>
                  /\ pc = "subscribed"
                  /\ \A x \in Protocols : inbox'[x] # inbox[x] =>
                         {inbox[x][i].path : i \in DOMAIN inbox[x]} \subseteq unseen'
  <1> USE DEF IInv, TypeOK, Streams, PCs, BranchStates, NoBranches
  <1>1. CASE Connects
    BY <1>1 DEF Connects
  <1>2. CASE ConnectFails
    BY <1>2, BoundsAssumption DEF ConnectFails, Fault
  <1>3. CASE StreamsEnded
    BY <1>3 DEF StreamsEnded, Over
  <1>4. CASE Retry
    BY <1>4 DEF Retry
  <1>5. ASSUME NEW x \in Protocols, Unimplemented(x)
        PROVE  /\ UNCHANGED <<served, issued, stored, target, source, handed, dropped>>
               /\ pc' = pc /\ unseen' = unseen /\ inbox' = inbox /\ faults' = faults
               /\ branch' = [branch EXCEPT ![x] = "dormant"] /\ branch[x] = "opening"
    BY <1>5 DEF Unimplemented
  <1>6. ASSUME NEW x \in Protocols, BranchEnds(x)
        PROVE  /\ UNCHANGED <<served, issued, stored, target, source, handed, dropped>>
               /\ pc' = pc /\ unseen' = unseen /\ inbox' = inbox /\ faults' \in 0..MaxFaults
               /\ branch' = [branch EXCEPT ![x] = "ended"] /\ branch[x] = "open"
               /\ inbox[x] = <<>>
    BY <1>6, BoundsAssumption DEF BranchEnds, Fault
  <1>7. ASSUME NEW x \in Protocols, BranchFails(x) \/ HandleRaises(x)
        PROVE  /\ UNCHANGED <<served, issued, stored, target, source, handed, dropped>>
               /\ pc' = pc /\ faults' \in 0..MaxFaults
               /\ inbox' = [inbox EXCEPT ![x] = <<>>]
               /\ unseen' = unseen \cup {inbox[x][i].path : i \in DOMAIN inbox[x]}
               /\ unseen' \subseteq Paths
               /\ branch' = [branch EXCEPT ![x] = "failed"]
               /\ branch[x] \in {"opening", "open"}
    <2>1. {inbox[x][i].path : i \in DOMAIN inbox[x]} \subseteq Paths
      BY UpdateTypes
    <2> QED
      BY <1>7, <2>1, BoundsAssumption DEF BranchFails, HandleRaises, Breaks, Fault
  <1>8. \A x \in Protocols : branch[x] \in {"opening", "open"} => pc = "subscribed"
    OBVIOUS
  <1>9. ASSUME NEW x \in Protocols, Unimplemented(x) \/ BranchEnds(x)
        PROVE  /\ branch' \in [Protocols -> BranchStates]
               /\ \A y \in Protocols : branch'[y] # "open" => inbox'[y] = <<>>
               /\ pc' = "subscribed"
    <2>1. branch' \in [Protocols -> BranchStates] /\ pc' = "subscribed" /\ inbox' = inbox
      BY <1>5, <1>6, <1>8, <1>9
    <2>2. inbox[x] = <<>>
      BY <1>5, <1>6, <1>9
    <2>3. \A y \in Protocols : y # x => branch'[y] = branch[y]
      BY <1>5, <1>6, <1>9
    <2> QED
      BY <2>1, <2>2, <2>3
  <1>10. ASSUME NEW x \in Protocols, BranchFails(x) \/ HandleRaises(x)
         PROVE  /\ branch' \in [Protocols -> BranchStates]
                /\ inbox' \in [Protocols -> Seq(Updates)]
                /\ \A y \in Protocols : inbox'[y] = inbox[y] \/ inbox'[y] = <<>>
                /\ \A y \in Protocols : branch'[y] # "open" => inbox'[y] = <<>>
                /\ \A y \in Protocols : inbox'[y] # inbox[y] => y = x
                /\ pc' = "subscribed"
    <2>1. /\ branch' = [branch EXCEPT ![x] = "failed"]
          /\ inbox' = [inbox EXCEPT ![x] = <<>>] /\ pc' = "subscribed"
      BY <1>7, <1>8, <1>10
    <2>2. <<>> \in Seq(Updates) /\ inbox'[x] = <<>>
      BY <2>1
    <2>3. \A y \in Protocols : y # x => branch'[y] = branch[y] /\ inbox'[y] = inbox[y]
      BY <2>1
    <2>4. inbox' \in [Protocols -> Seq(Updates)]
      BY <2>1, <2>2
    <2>5. branch' \in [Protocols -> BranchStates]
      BY <2>1
    <2> QED
      BY <2>1, <2>2, <2>3, <2>4, <2>5
  <1> QED
    BY <1>1, <1>2, <1>3, <1>4, <1>5, <1>6, <1>7, <1>8, <1>9, <1>10 DEF Quiet

LEMMA QuietKeeps ==
    ASSUME IInv, Quiet
    PROVE  IInv'
  <1>1. TypeOK'
    BY QuietMoves DEF IInv, TypeOK
  <1>2. Streams'
    BY QuietMoves DEF Streams
  <1>3. \A x \in Protocols : \A i \in DOMAIN inbox'[x] :
            i \in DOMAIN inbox[x] /\ inbox'[x][i] = inbox[x][i]
    BY QuietMoves
  <1>4. Bounds'
    BY <1>3, QuietMoves DEF IInv, Bounds
  <1>5. InOrder'
    BY <1>3, QuietMoves DEF IInv, InOrder
  <1>6. TargetsAccountedFor'
    <2> SUFFICES ASSUME pc' = "subscribed", NEW p \in Paths \ unseen',
                        ~DealtWith(p, stored[p])'
                 PROVE  \E x \in Protocols : \E i \in DOMAIN inbox'[x] :
                            inbox'[x][i] = Update(p, stored'[p])
      BY DEF TargetsAccountedFor
    <2>1. pc = "subscribed" /\ p \notin unseen /\ stored' = stored /\ ~DealtWith(p, stored[p])
      BY QuietMoves DEF DealtWith
    <2>2. PICK x \in Protocols : \E i \in DOMAIN inbox[x] :
              inbox[x][i] = Update(p, stored[p])
      BY <2>1 DEF IInv, TargetsAccountedFor
    <2>3. inbox'[x] = inbox[x]
      BY <2>2, QuietMoves DEF Update
    <2> QED
      BY <2>1, <2>2, <2>3
  <1> QED
    BY <1>1, <1>2, <1>4, <1>5, <1>6 DEF IInv

-----------------------------------------------------------------------------
(* The seed.                                                               *)

LEMMA SeedsKeeps ==
    ASSUME IInv, Seeds
    PROVE  IInv'
  <1>1. /\ pc = "seeding" /\ Puts(stored, "seed") /\ unseen' = {} /\ pc' = "subscribed"
        /\ branch' = [x \in Protocols |-> "opening"]
        /\ UNCHANGED <<served, issued, stored, inbox, faults>>
    BY DEF Seeds
  <1>2. stored \in [Paths -> 0..MaxCommands]
    BY DEF IInv, TypeOK
  <1>3. /\ target' \in [Paths -> 0..MaxCommands]
        /\ source' \in [Paths -> Protocols \cup {"seed"}]
        /\ handed' \in [Paths -> 0..MaxCommands] /\ dropped' \in [Paths -> 0..MaxCommands]
        /\ \A p \in Paths : handed'[p] >= stored[p] \/ dropped'[p] >= stored[p]
        /\ \A p \in Paths :
               \/ target'[p] = target[p] /\ source'[p] = source[p]
               \/ target'[p] = stored[p] /\ source'[p] = "seed"
    BY <1>1, <1>2, PutsTyped DEF IInv
  <1>4. TypeOK'
    BY <1>1, <1>3 DEF IInv, TypeOK, PCs, BranchStates
  <1>5. \A x \in Protocols : inbox[x] = <<>>
    BY <1>1 DEF IInv, Streams, NoBranches
  <1>6. Streams'
    BY <1>1, <1>5 DEF Streams
  <1>8. Bounds'
    <2>1. \A p \in Paths : /\ stored[p] <= issued[p] /\ target'[p] <= issued[p]
                           /\ source'[p] # "v2" => target'[p] <= stored[p]
      <3> TAKE p \in Paths
      <3>1. /\ stored[p] <= issued[p] /\ target[p] <= issued[p]
            /\ source[p] # "v2" => target[p] <= stored[p]
        BY DEF IInv, Bounds
      <3>2. stored[p] \in Nat
        BY Numbers DEF IInv
      <3> QED
        BY <1>3, <3>1, <3>2
    <2> QED
      BY <1>1, <1>5, <2>1 DEF Bounds
  <1>9. InOrder'
    BY <1>1, <1>5 DEF InOrder
  <1>10. TargetsAccountedFor'
    BY <1>1, <1>3 DEF TargetsAccountedFor, DealtWith
  <1> QED
    BY <1>4, <1>6, <1>8, <1>9, <1>10 DEF IInv

\* A seed that breaks off has buffered some of the stored targets.
LEMMA SeedRaisesMoves ==
    ASSUME IInv, SeedRaises
    PROVE  /\ pc = "seeding" /\ pc' = "backoff"
           /\ UNCHANGED <<served, issued, stored, branch, inbox, unseen, faults>>
           /\ target' \in [Paths -> 0..MaxCommands]
           /\ source' \in [Paths -> Protocols \cup {"seed"}]
           /\ handed' \in [Paths -> 0..MaxCommands] /\ dropped' \in [Paths -> 0..MaxCommands]
           /\ \A p \in Paths :
                  \/ target'[p] = target[p] /\ source'[p] = source[p]
                  \/ target'[p] = stored[p] /\ source'[p] = "seed"
  <1>1. PICK S \in SUBSET (Paths \ Poison) : Puts(Only(stored, S), "seed")
    BY DEF SeedRaises
  <1> DEFINE values == Only(stored, S)
  <1>2. /\ values \in [Paths -> 0..MaxCommands]
        /\ \A p \in Paths : values[p] # 0 => values[p] = stored[p]
    BY BoundsAssumption DEF Only, IInv, TypeOK
  <1> HIDE DEF values
  <1>3. Puts(values, "seed")
    BY <1>1 DEF values
  <1>4. /\ target' \in [Paths -> 0..MaxCommands]
        /\ source' \in [Paths -> Protocols \cup {"seed"}]
        /\ handed' \in [Paths -> 0..MaxCommands] /\ dropped' \in [Paths -> 0..MaxCommands]
        /\ \A p \in Paths :
               \/ target'[p] = target[p] /\ source'[p] = source[p]
               \/ values[p] # 0 /\ target'[p] = values[p] /\ source'[p] = "seed"
    BY <1>2, <1>3, PutsTyped DEF IInv
  <1> QED
    BY <1>2, <1>4 DEF SeedRaises

LEMMA SeedRaisesKeeps ==
    ASSUME IInv, SeedRaises
    PROVE  IInv'
  <1>1. TypeOK'
    BY SeedRaisesMoves DEF IInv, TypeOK, PCs
  <1>2. \A x \in Protocols : inbox[x] = <<>>
    BY SeedRaisesMoves DEF IInv, Streams, NoBranches
  <1>3. Streams' /\ InOrder' /\ TargetsAccountedFor'
    BY <1>2, SeedRaisesMoves DEF IInv, Streams, InOrder, TargetsAccountedFor
  <1>4. Bounds'
    <2>1. \A p \in Paths : /\ stored[p] <= issued[p] /\ target'[p] <= issued[p]
                           /\ source'[p] # "v2" => target'[p] <= stored[p]
      <3> TAKE p \in Paths
      <3>1. /\ stored[p] <= issued[p] /\ target[p] <= issued[p]
            /\ source[p] # "v2" => target[p] <= stored[p]
        BY DEF IInv, Bounds
      <3>2. stored[p] \in Nat
        BY Numbers DEF IInv
      <3> QED
        BY SeedRaisesMoves, <3>1, <3>2
    <2> QED
      BY <1>2, SeedRaisesMoves, <2>1 DEF Bounds
  <1> QED
    BY <1>1, <1>3, <1>4 DEF IInv

-----------------------------------------------------------------------------
(* A subscription is accepted.                                             *)

LEMMA OpensV2Keeps ==
    ASSUME IInv, Opens("v2")
    PROVE  IInv'
  <1>1. /\ branch["v2"] = "opening" /\ branch' = [branch EXCEPT !["v2"] = "open"]
        /\ UNCHANGED <<inbox, unseen, served, issued, stored, pc, target, source, handed, dropped, faults>>
    BY DEF Opens
  <1>2. TypeOK'
    BY <1>1 DEF IInv, TypeOK, Protocols, BranchStates
  <1>3. Streams'
    BY <1>1 DEF IInv, TypeOK, Streams, Protocols, NoBranches
  <1>4. Bounds' /\ InOrder' /\ TargetsAccountedFor'
    BY <1>1 DEF IInv, Bounds, InOrder, TargetsAccountedFor, DealtWith
  <1> QED
    BY <1>2, <1>3, <1>4 DEF IInv

\* What the v1 stream holds after its replay.
LEMMA Replay ==
    ASSUME IInv, Opens("v1")
    PROVE  /\ inbox'["v1"] \in Seq(Updates) /\ inbox'["v2"] = inbox["v2"]
           /\ \A i \in DOMAIN inbox'["v1"] :
                  /\ inbox'["v1"][i].path \in Paths
                  /\ inbox'["v1"][i].value = stored[inbox'["v1"][i].path]
           /\ \A i, j \in DOMAIN inbox'["v1"] :
                  inbox'["v1"][i].path = inbox'["v1"][j].path => i = j
           /\ \A p \in Paths : stored[p] # 0 => \E i \in DOMAIN inbox'["v1"] :
                  inbox'["v1"][i] = Update(p, stored[p])
           /\ inbox' \in [Protocols -> Seq(Updates)]
  <1> USE DEF Update
  <1> DEFINE S == {p \in Paths : stored[p] # 0}
             f == SetToSeq(S)
             n == Cardinality(S)
             r == [i \in DOMAIN f |-> [path |-> f[i], value |-> stored[f[i]]]]
  <1>1. IsFiniteSet(S)
    BY PathsAssumption, FS_Subset
  <1>2. /\ f \in [1..n -> S] /\ n \in Nat
        /\ \A i, j \in 1..n : f[i] = f[j] => i = j
        /\ \A e \in S : \E i \in 1..n : f[i] = e
    BY <1>1, SequenceOfSet
  <1>3. inbox' = [inbox EXCEPT !["v1"] = r]
    BY DEF Opens
  <1>4. inbox \in [Protocols -> Seq(Updates)] /\ "v1" \in Protocols /\ "v2" \in Protocols
    BY DEF IInv, TypeOK, Protocols
  <1>5. inbox'["v1"] = r /\ inbox'["v2"] = inbox["v2"]
    BY <1>3, <1>4
  <1> HIDE DEF f, n
  <1>6. DOMAIN r = 1..n /\ \A i \in 1..n : r[i] = [path |-> f[i], value |-> stored[f[i]]]
    BY <1>2
  <1>7. \A i \in 1..n : r[i] \in Updates
    <2> TAKE i \in 1..n
    <2>1. f[i] \in Paths /\ stored[f[i]] # 0
      BY <1>2
    <2>2. stored[f[i]] \in 1..MaxCommands
      BY <2>1, BoundsAssumption DEF IInv, TypeOK
    <2> QED
      BY <1>6, <2>1, <2>2 DEF Updates
  <1> HIDE DEF r
  <1>8. r \in [1..n -> Updates]
    <2>1. r = [i \in 1..n |-> r[i]]
      BY <1>2, <1>6 DEF r
    <2> QED
      BY <1>7, <2>1
  <1>9. r \in Seq(Updates)
    BY <1>2, <1>8
  <1>10. \A i \in DOMAIN r : r[i].path \in Paths /\ r[i].value = stored[r[i].path]
    BY <1>2, <1>6
  <1>11. \A i, j \in DOMAIN r : r[i].path = r[j].path => i = j
    BY <1>2, <1>6
  <1>12. \A p \in Paths : stored[p] # 0 =>
             \E i \in DOMAIN r : r[i] = [path |-> p, value |-> stored[p]]
    BY <1>2, <1>6
  <1>13. inbox' \in [Protocols -> Seq(Updates)]
    BY <1>3, <1>4, <1>9
  <1> QED
    BY <1>5, <1>9, <1>10, <1>11, <1>12, <1>13

LEMMA OpensV1Keeps ==
    ASSUME IInv, Opens("v1")
    PROVE  IInv'
  <1>1. /\ branch["v1"] = "opening" /\ branch' = [branch EXCEPT !["v1"] = "open"]
        /\ unseen' = {}
        /\ UNCHANGED <<served, issued, stored, pc, target, source, handed, dropped, faults>>
    BY DEF Opens
  <1>2. TypeOK'
    BY <1>1, Replay DEF IInv, TypeOK, Protocols, BranchStates
  <1>3. Streams'
    BY <1>1, Replay DEF IInv, TypeOK, Streams, Protocols, NoBranches
  <1> DEFINE r == inbox'["v1"]
  <1>4. \A i \in DOMAIN r : r[i].path \in Paths /\ r[i].value = stored[r[i].path]
    BY Replay
  <1>5. inbox'["v2"] = inbox["v2"] /\ Protocols = {"v1", "v2"}
    BY Replay DEF Protocols
  <1>6. Bounds'
    <2>1. \A i \in DOMAIN r : /\ r[i].value <= issued'[r[i].path]
                              /\ r[i].value <= stored'[r[i].path]
      BY <1>1, <1>4, Numbers DEF IInv, Bounds
    <2> QED
      BY <1>1, <1>5, <2>1 DEF IInv, Bounds
  <1>7. InOrder'
    <2>1. \A i \in DOMAIN r :
              source'[r[i].path] = "v1" => target'[r[i].path] <= r[i].value
      BY <1>1, <1>4 DEF IInv, Bounds
    <2>2. \A i, j \in DOMAIN r : i < j /\ r[i].path = r[j].path => r[i].value <= r[j].value
      BY <1>4, Replay, Numbers DEF IInv
    <2> QED
      BY <1>1, <1>5, <2>1, <2>2 DEF IInv, InOrder
  <1>8. TargetsAccountedFor'
    <2> SUFFICES ASSUME NEW p \in Paths, ~DealtWith(p, stored[p])
                 PROVE  \E i \in DOMAIN r : r[i] = Update(p, stored[p])
      BY <1>1, <1>5 DEF TargetsAccountedFor, DealtWith
    <2>1. stored[p] # 0
      BY Numbers DEF IInv, DealtWith
    <2> QED
      BY <2>1, Replay
  <1> QED
    BY <1>2, <1>3, <1>6, <1>7, <1>8 DEF IInv

-----------------------------------------------------------------------------
(* A round of a drain loop.                                                *)

LEMMA HandleMoves ==
    ASSUME IInv, NEW x \in Protocols, Handle(x)
    PROVE  LET h == inbox[x][1]
           IN  /\ 1 \in DOMAIN inbox[x] /\ branch[x] = "open"
               /\ h.path \in Paths /\ h.value \in 1..MaxCommands /\ h.value \in Nat
               /\ inbox' = [inbox EXCEPT ![x] = Tail(@)]
               /\ UNCHANGED <<served, issued, stored, pc, branch, unseen, faults>>
               /\ \A p \in Paths :
                      \/ target'[p] = target[p] /\ source'[p] = source[p]
                      \/ p = h.path /\ target'[p] = h.value /\ source'[p] = x
               /\ handed' \in [Paths -> 0..MaxCommands]
               /\ dropped' \in [Paths -> 0..MaxCommands]
               /\ \A p \in Paths : handed[p] <= handed'[p] /\ dropped[p] <= dropped'[p]
               /\ handed'[h.path] >= h.value \/ dropped'[h.path] >= h.value
               /\ target' \in [Paths -> 0..MaxCommands]
               /\ source' \in [Paths -> Protocols \cup {"seed"}]
  <1> DEFINE h == inbox[x][1]
             values == [p \in Paths |-> IF p = h.path THEN h.value ELSE 0]
  <1>1. inbox[x] \in Seq(Updates) /\ inbox[x] # <<>>
    BY UpdateTypes DEF IInv, Handle
  <1>2. 1 \in DOMAIN inbox[x] /\ Head(inbox[x]) = h
    BY <1>1
  <1>3. h.path \in Paths /\ h.value \in 1..MaxCommands /\ h.value \in Nat /\ h.value # 0
    BY <1>2, UpdateTypes DEF IInv
  <1>4. Puts(values, x)
    BY <1>2 DEF Handle, Carries
  <1>5. /\ inbox' = [inbox EXCEPT ![x] = Tail(@)] /\ branch[x] = "open"
        /\ UNCHANGED <<served, issued, stored, pc, branch, unseen, faults>>
    BY DEF Handle
  <1>6. values \in [Paths -> 0..MaxCommands]
    BY <1>3, BoundsAssumption
  <1> HIDE DEF values
  <1>7. /\ target' \in [Paths -> 0..MaxCommands]
        /\ source' \in [Paths -> Protocols \cup {"seed"}]
        /\ handed' \in [Paths -> 0..MaxCommands] /\ dropped' \in [Paths -> 0..MaxCommands]
        /\ \A p \in Paths : handed[p] <= handed'[p] /\ dropped[p] <= dropped'[p]
        /\ \A p \in Paths : handed'[p] >= values[p] \/ dropped'[p] >= values[p]
        /\ \A p \in Paths :
               \/ target'[p] = target[p] /\ source'[p] = source[p]
               \/ values[p] # 0 /\ target'[p] = values[p] /\ source'[p] = x
    BY <1>4, <1>6, PutsTyped DEF IInv
  <1>8. \A p \in Paths : values[p] = IF p = h.path THEN h.value ELSE 0
    BY DEF values
  <1>9. handed'[h.path] >= h.value \/ dropped'[h.path] >= h.value
    BY <1>3, <1>7, <1>8
  <1>10. \A p \in Paths :
             \/ target'[p] = target[p] /\ source'[p] = source[p]
             \/ p = h.path /\ target'[p] = h.value /\ source'[p] = x
    BY <1>7, <1>8
  <1> HIDE DEF h
  <1> QED
    BY <1>2, <1>3, <1>5, <1>7, <1>9, <1>10 DEF h

LEMMA HandleKeeps ==
    ASSUME IInv, NEW x \in Protocols, Handle(x)
    PROVE  IInv'
  <1> DEFINE h == inbox[x][1]
  <1>1. /\ 1 \in DOMAIN inbox[x] /\ branch[x] = "open"
        /\ h.path \in Paths /\ h.value \in Nat
        /\ inbox' = [inbox EXCEPT ![x] = Tail(@)]
        /\ UNCHANGED <<served, issued, stored, pc, branch, unseen, faults>>
        /\ \A p \in Paths :
               \/ target'[p] = target[p] /\ source'[p] = source[p]
               \/ p = h.path /\ target'[p] = h.value /\ source'[p] = x
        /\ handed' \in [Paths -> 0..MaxCommands]
        /\ dropped' \in [Paths -> 0..MaxCommands]
        /\ \A p \in Paths : handed[p] <= handed'[p] /\ dropped[p] <= dropped'[p]
        /\ handed'[h.path] >= h.value \/ dropped'[h.path] >= h.value
        /\ target' \in [Paths -> 0..MaxCommands]
        /\ source' \in [Paths -> Protocols \cup {"seed"}]
    BY HandleMoves
  <1>2. inbox[x] \in Seq(Updates) /\ inbox \in [Protocols -> Seq(Updates)]
    BY UpdateTypes DEF IInv, TypeOK
  <1>3. inbox' \in [Protocols -> Seq(Updates)]
    BY <1>1, <1>2
  <1>4. TypeOK'
    BY <1>1, <1>3 DEF IInv, TypeOK
  <1>5. \A y \in Protocols : y # x => inbox'[y] = inbox[y]
    BY <1>1, <1>2
  <1>6. \A i \in DOMAIN inbox'[x] :
            /\ i \in Nat /\ 1 < i + 1 /\ i + 1 \in DOMAIN inbox[x]
            /\ inbox'[x][i] = inbox[x][i + 1]
    BY <1>1, <1>2
  <1>7. Streams'
    BY <1>1, <1>5 DEF IInv, Streams
  <1>8. target \in [Paths -> 0..MaxCommands] /\ source \in [Paths -> Protocols \cup {"seed"}]
    BY DEF IInv, TypeOK
  <1>9. Bounds'
    <2>1. \A p \in Paths : /\ target'[p] <= issued'[p]
                           /\ source'[p] # "v2" => target'[p] <= stored'[p]
      BY <1>1, <1>8 DEF IInv, Bounds, Protocols
    <2>2. \A y \in Protocols : \A i \in DOMAIN inbox'[y] :
              \E k \in DOMAIN inbox[y] : inbox'[y][i] = inbox[y][k]
      BY <1>5, <1>6
    <2>3. \A y \in Protocols : \A i \in DOMAIN inbox'[y] :
              /\ inbox'[y][i].value <= issued'[inbox'[y][i].path]
              /\ y = "v1" => inbox'[y][i].value <= stored'[inbox'[y][i].path]
      BY <1>1, <2>2 DEF IInv, Bounds
    <2> QED
      BY <1>1, <2>1, <2>3 DEF IInv, Bounds
  <1>10. InOrder'
    <2>1. ASSUME NEW y \in Protocols, y # x
          PROVE  /\ \A i \in DOMAIN inbox'[y] : source'[inbox'[y][i].path] = y =>
                        target'[inbox'[y][i].path] <= inbox'[y][i].value
                 /\ \A i, j \in DOMAIN inbox'[y] :
                        i < j /\ inbox'[y][i].path = inbox'[y][j].path =>
                            inbox'[y][i].value <= inbox'[y][j].value
      <3>1. inbox'[y] = inbox[y] /\ \A i \in DOMAIN inbox[y] : inbox[y][i].path \in Paths
        BY <1>5, <2>1, UpdateTypes DEF IInv
      <3>2. \A p \in Paths : source'[p] = y => source[p] = y /\ target'[p] = target[p]
        BY <1>1, <1>8, <2>1
      <3> QED
        BY <3>1, <3>2 DEF IInv, InOrder
    <2>2. \A i \in DOMAIN inbox'[x] : source'[inbox'[x][i].path] = x =>
              target'[inbox'[x][i].path] <= inbox'[x][i].value
      <3> SUFFICES ASSUME NEW i \in DOMAIN inbox'[x], source'[inbox'[x][i].path] = x
                   PROVE  target'[inbox'[x][i].path] <= inbox'[x][i].value
        OBVIOUS
      <3> DEFINE u == inbox[x][i + 1]
      <3>1. i + 1 \in DOMAIN inbox[x] /\ inbox'[x][i] = u /\ 1 < i + 1 /\ u.path \in Paths
        BY <1>6, UpdateTypes DEF IInv
      <3>2. CASE u.path = h.path /\ target'[h.path] = h.value
        <4>1. h.value <= u.value
          BY <1>1, <3>1, <3>2 DEF IInv, InOrder
        <4> QED
          BY <3>1, <3>2, <4>1
      <3>3. CASE target'[u.path] = target[u.path] /\ source'[u.path] = source[u.path]
        <4>1. source[u.path] = x /\ target'[u.path] = target[u.path]
          BY <3>1, <3>3
        <4> QED
          BY <3>1, <4>1 DEF IInv, InOrder
      <3> QED
        BY <1>1, <3>1, <3>2, <3>3
    <2>3. \A i, j \in DOMAIN inbox'[x] :
              i < j /\ inbox'[x][i].path = inbox'[x][j].path =>
                  inbox'[x][i].value <= inbox'[x][j].value
      <3> SUFFICES ASSUME NEW i \in DOMAIN inbox'[x], NEW j \in DOMAIN inbox'[x],
                          i < j, inbox'[x][i].path = inbox'[x][j].path
                   PROVE  inbox'[x][i].value <= inbox'[x][j].value
        OBVIOUS
      <3>1. /\ i + 1 \in DOMAIN inbox[x] /\ j + 1 \in DOMAIN inbox[x] /\ i + 1 < j + 1
            /\ inbox'[x][i] = inbox[x][i + 1] /\ inbox'[x][j] = inbox[x][j + 1]
        BY <1>6
      <3> QED
        BY <3>1 DEF IInv, InOrder
    <2> QED
      BY <2>1, <2>2, <2>3 DEF InOrder
  <1>11. TargetsAccountedFor'
    <2> SUFFICES ASSUME pc = "subscribed", NEW p \in Paths \ unseen,
                        ~(handed'[p] >= stored[p] \/ dropped'[p] >= stored[p])
                 PROVE  \E y \in Protocols : \E i \in DOMAIN inbox'[y] :
                            inbox'[y][i] = Update(p, stored[p])
      <3>1. stored' = stored /\ pc' = pc /\ unseen' = unseen
        BY <1>1
      <3> QED
        BY <3>1, Zenon DEF TargetsAccountedFor, DealtWith
    <2>1. ~DealtWith(p, stored[p])
      BY <1>1, <1>4, Numbers, DealtWithForGood DEF IInv
    <2>2. PICK y \in Protocols : \E i \in DOMAIN inbox[y] :
              inbox[y][i] = Update(p, stored[p])
      BY <2>1 DEF IInv, TargetsAccountedFor
    <2>3. PICK i \in DOMAIN inbox[y] : inbox[y][i] = Update(p, stored[p])
      BY <2>2
    <2>4. CASE y # x
      BY <1>5, <2>3, <2>4
    <2>5. CASE y = x
      <3>1. i # 1
        <4> SUFFICES ASSUME i = 1 PROVE FALSE
          OBVIOUS
        <4>1. h.path = p /\ h.value = stored[p]
          BY <2>3, <2>5 DEF Update
        <4> QED
          BY <1>1, <4>1
      <3>2. i - 1 \in DOMAIN inbox'[x] /\ inbox'[x][i - 1] = inbox[x][i]
        BY <1>1, <1>2, <2>3, <2>5, <3>1
      <3> QED
        BY <2>3, <2>5, <3>2
    <2> QED
      BY <2>4, <2>5
  <1> QED
    BY <1>4, <1>7, <1>9, <1>10, <1>11 DEF IInv

-----------------------------------------------------------------------------
(* A command reaches the databroker.                                       *)

LEMMA CommandMoves ==
    ASSUME IInv, NEW x \in Protocols, NEW p \in Paths, Command(x, p)
    PROVE  LET n == issued[p] + 1
               u == Update(p, n)
           IN  /\ n \in 1..MaxCommands /\ u \in Updates
               /\ issued' = [issued EXCEPT ![p] = n]
               /\ UNCHANGED <<served, pc, branch, target, source, handed, dropped, faults>>
               /\ inbox' = IF branch[x] = "open"
                           THEN [inbox EXCEPT ![x] = Append(@, u)] ELSE inbox
               /\ \/ /\ stored' = [stored EXCEPT ![p] = n]
                     /\ unseen' = IF branch[x] = "open" THEN unseen \ {p} ELSE unseen \cup {p}
                  \/ x = "v2" /\ UNCHANGED <<stored, unseen>>
  <1>1. issued[p] \in 0..MaxCommands /\ issued[p] < MaxCommands
    BY DEF Command, IInv, TypeOK
  <1>2. issued' = [issued EXCEPT ![p] = issued[p] + 1] /\ issued'[p] = issued[p] + 1
    BY DEF Command, IInv, TypeOK
  <1>3. issued[p] + 1 \in 1..MaxCommands
    BY <1>1, BoundsAssumption
  <1>4. Update(p, issued[p] + 1) \in Updates
    BY <1>3 DEF Updates, Update
  <1> QED
    BY <1>2, <1>3, <1>4 DEF Command

LEMMA CommandKeeps ==
    ASSUME IInv, NEW x \in Protocols, NEW p \in Paths, Command(x, p)
    PROVE  IInv'
  <1> DEFINE n == issued[p] + 1
             u == Update(p, n)
  <1>1. /\ n \in 1..MaxCommands /\ u \in Updates
        /\ issued' = [issued EXCEPT ![p] = n]
        /\ UNCHANGED <<served, pc, branch, target, source, handed, dropped, faults>>
        /\ inbox' = IF branch[x] = "open" THEN [inbox EXCEPT ![x] = Append(@, u)] ELSE inbox
        /\ \/ /\ stored' = [stored EXCEPT ![p] = n]
              /\ unseen' = IF branch[x] = "open" THEN unseen \ {p} ELSE unseen \cup {p}
           \/ x = "v2" /\ UNCHANGED <<stored, unseen>>
    BY CommandMoves
  <1>2. /\ inbox \in [Protocols -> Seq(Updates)] /\ inbox[x] \in Seq(Updates)
        /\ issued \in [Paths -> 0..MaxCommands] /\ stored \in [Paths -> 0..MaxCommands]
        /\ unseen \subseteq Paths /\ issued[p] \in Nat
    BY Numbers DEF IInv, TypeOK
  <1>3. inbox' \in [Protocols -> Seq(Updates)]
    BY <1>1, <1>2
  <1>4. n \in 0..MaxCommands
    BY <1>1, BoundsAssumption
  <1>5. issued' \in [Paths -> 0..MaxCommands] /\ stored' \in [Paths -> 0..MaxCommands]
    BY <1>1, <1>2, <1>4
  <1>6. unseen' \subseteq Paths
    BY <1>1, <1>2
  <1>7. TypeOK'
    BY <1>1, <1>3, <1>5, <1>6 DEF IInv, TypeOK
  <1>8. Streams'
    <2>1. \A y \in Protocols : inbox'[y] = inbox[y] \/ branch[y] = "open"
      BY <1>1, <1>2
    <2> QED
      BY <1>1, <2>1 DEF IInv, Streams
  <1>9. \A y \in Protocols : \A i \in DOMAIN inbox'[y] :
            \/ i \in DOMAIN inbox[y] /\ inbox'[y][i] = inbox[y][i]
            \/ y = x /\ i = Len(inbox[x]) + 1 /\ inbox'[y][i] = u
    BY <1>1, <1>2
  <1>10. \A q \in Paths : /\ issued[q] <= issued'[q] /\ stored[q] <= stored'[q]
                          /\ stored'[q] <= issued'[q]
    <2> TAKE q \in Paths
    <2>1. issued[q] \in Nat /\ stored[q] \in Nat /\ stored[q] <= issued[q]
      BY Numbers DEF IInv, Bounds
    <2>2. issued'[q] = (IF q = p THEN n ELSE issued[q])
      BY <1>1, <1>2
    <2>3. stored'[q] = stored[q] \/ (q = p /\ stored'[q] = n)
      BY <1>1, <1>2
    <2>4. stored[p] <= issued[p] /\ stored[p] \in Nat
      BY Numbers DEF IInv, Bounds
    <2> QED
      BY <1>2, <2>1, <2>2, <2>3, <2>4
  <1>11. Bounds'
    <2>1. \A q \in Paths : /\ stored'[q] <= issued'[q] /\ target'[q] <= issued'[q]
                           /\ source'[q] # "v2" => target'[q] <= stored'[q]
      <3> TAKE q \in Paths
      <3>1. /\ issued[q] \in Nat /\ stored[q] \in Nat /\ target[q] \in Nat
            /\ issued'[q] \in Nat /\ stored'[q] \in Nat
        BY <1>5, Numbers, BoundsAssumption DEF IInv
      <3> QED
        BY <1>1, <1>10, <3>1 DEF IInv, Bounds
    <2>2. ASSUME NEW y \in Protocols, NEW i \in DOMAIN inbox'[y]
          PROVE  /\ inbox'[y][i].value <= issued'[inbox'[y][i].path]
                 /\ y = "v1" => inbox'[y][i].value <= stored'[inbox'[y][i].path]
      <3>1. CASE i \in DOMAIN inbox[y] /\ inbox'[y][i] = inbox[y][i]
        <4> DEFINE q == inbox[y][i].path
        <4>1. /\ q \in Paths /\ inbox[y][i].value \in Nat
          BY <3>1, UpdateTypes DEF IInv
        <4>2. /\ inbox[y][i].value <= issued[q]
              /\ y = "v1" => inbox[y][i].value <= stored[q]
          BY <3>1 DEF IInv, Bounds
        <4>3. /\ issued[q] \in Nat /\ stored[q] \in Nat
              /\ issued'[q] \in Nat /\ stored'[q] \in Nat
          BY <1>5, <4>1, Numbers, BoundsAssumption DEF IInv
        <4> QED
          BY <1>10, <3>1, <4>1, <4>2, <4>3
      <3>2. CASE y = x /\ inbox'[y][i] = u
        <4>1. issued'[p] = n /\ n \in Nat
          BY <1>1, <1>2
        <4>2. y = "v1" => stored'[p] = n
          BY <1>1, <1>2, <3>2
        <4> QED
          BY <3>2, <4>1, <4>2 DEF Update
      <3> QED
        BY <1>9, <2>2, <3>1, <3>2
    <2> QED
      BY <2>1, <2>2 DEF Bounds
  <1>12. InOrder'
    <2>1. \A y \in Protocols : \A i \in DOMAIN inbox'[y] :
              source'[inbox'[y][i].path] = y => target'[inbox'[y][i].path] <= inbox'[y][i].value
      <3>1. target[p] <= n
        BY <1>2, Numbers DEF IInv, Bounds
      <3> QED
        BY <1>1, <1>9, <3>1 DEF IInv, InOrder, Update
    <2>2. ASSUME NEW y \in Protocols, NEW i \in DOMAIN inbox'[y], NEW j \in DOMAIN inbox'[y],
                 i < j, inbox'[y][i].path = inbox'[y][j].path
          PROVE  inbox'[y][i].value <= inbox'[y][j].value
      <3>1. i \in DOMAIN inbox[y] /\ inbox'[y][i] = inbox[y][i]
        <4>1. DOMAIN inbox'[y] = DOMAIN inbox[y] \/ (y = x /\ DOMAIN inbox'[y] = 1..(Len(inbox[x]) + 1))
          BY <1>1, <1>2
        <4>2. Len(inbox[x]) \in Nat /\ DOMAIN inbox[x] = 1..Len(inbox[x])
          BY <1>2
        <4>3. i # Len(inbox[x]) + 1 \/ y # x
          BY <2>2, <4>1, <4>2
        <4> QED
          BY <1>9, <2>2, <4>3
      <3>2. CASE j \in DOMAIN inbox[y] /\ inbox'[y][j] = inbox[y][j]
        BY <2>2, <3>1, <3>2 DEF IInv, InOrder
      <3>3. CASE y = x /\ inbox'[y][j] = u
        <4>1. inbox[y][i].path = p /\ inbox[y][i].value \in Nat
          BY <2>2, <3>1, <3>3, UpdateTypes DEF IInv, Update
        <4>2. inbox[y][i].value <= issued[p]
          BY <3>1, <4>1 DEF IInv, Bounds
        <4> QED
          BY <1>2, <3>1, <3>3, <4>1, <4>2 DEF Update
      <3> QED
        BY <1>9, <2>2, <3>2, <3>3
    <2> QED
      BY <2>1, <2>2 DEF InOrder
  <1>13. TargetsAccountedFor'
    <2> SUFFICES ASSUME pc = "subscribed", NEW q \in Paths \ unseen',
                        ~DealtWith(q, stored[q])'
                 PROVE  \E y \in Protocols : \E i \in DOMAIN inbox'[y] :
                            inbox'[y][i] = Update(q, stored'[q])
      BY <1>1 DEF TargetsAccountedFor
    <2>1. CASE stored'[q] = stored[q] /\ q \notin unseen
      <3>1. PICK y \in Protocols : \E i \in DOMAIN inbox[y] :
                inbox[y][i] = Update(q, stored[q])
        BY <1>1, <2>1 DEF IInv, TargetsAccountedFor, DealtWith
      <3>2. PICK i \in DOMAIN inbox[y] : inbox[y][i] = Update(q, stored[q])
        BY <3>1
      <3>3. i \in DOMAIN inbox'[y] /\ inbox'[y][i] = inbox[y][i]
        BY <1>1, <1>2, <3>2
      <3> QED
        BY <2>1, <3>2, <3>3
    <2>2. CASE q = p /\ stored'[q] = n /\ branch[x] = "open"
      <3>1. Len(inbox[x]) + 1 \in DOMAIN inbox'[x] /\ inbox'[x][Len(inbox[x]) + 1] = u
        BY <1>1, <1>2, <2>2
      <3> QED
        BY <2>2, <3>1
    <2>3. \/ stored'[q] = stored[q] /\ q \notin unseen
          \/ q = p /\ stored'[q] = n /\ branch[x] = "open"
      BY <1>1, <1>2
    <2> QED
      BY <2>1, <2>2, <2>3
  <1> QED
    BY <1>7, <1>8, <1>11, <1>12, <1>13 DEF IInv

-----------------------------------------------------------------------------
(* The theorems.                                                           *)

LEMMA InitHolds == Init => IInv
  <1> SUFFICES ASSUME Init PROVE IInv
    OBVIOUS
  <1>1. TypeOK
    BY BoundsAssumption
       DEF Init, TypeOK, NoTargets, NoBranches, NoUpdates, PCs, BranchStates
  <1>2. \A x \in Protocols : inbox[x] = <<>>
    BY DEF Init, NoUpdates
  <1>3. Streams /\ InOrder
    BY <1>2 DEF Init, Streams, InOrder
  <1>4. Bounds
    BY <1>2 DEF Init, Bounds, NoTargets
  <1>5. TargetsAccountedFor
    BY DEF Init, TargetsAccountedFor
  <1> QED
    BY <1>1, <1>3, <1>4, <1>5 DEF IInv

LEMMA StutterKeeps ==
    ASSUME IInv, UNCHANGED vars
    PROVE  IInv'
  BY DEF vars, IInv, TypeOK, Streams, Bounds, InOrder, TargetsAccountedFor, DealtWith

LEMMA StepKeeps == IInv /\ [Next]_vars => IInv'
  <1> SUFFICES ASSUME IInv, [Next]_vars PROVE IInv'
    OBVIOUS
  <1>1. CASE Quiet
    BY <1>1, QuietKeeps
  <1>2. CASE Seeds
    BY <1>2, SeedsKeeps
  <1>7. CASE SeedRaises
    BY <1>7, SeedRaisesKeeps
  <1>3. ASSUME NEW x \in Protocols, Opens(x) PROVE IInv'
    BY <1>3, OpensV1Keeps, OpensV2Keeps DEF Protocols
  <1>4. ASSUME NEW x \in Protocols, Handle(x) PROVE IInv'
    BY <1>4, HandleKeeps
  <1>5. ASSUME NEW x \in Protocols, NEW p \in Paths, Command(x, p) PROVE IInv'
    BY <1>5, CommandKeeps
  <1>6. CASE UNCHANGED vars
    BY <1>6, StutterKeeps
  <1> QED
    BY <1>1, <1>2, <1>3, <1>4, <1>5, <1>6, <1>7 DEF Next, Branch, Quiet

\* The inductive invariant holds in every behaviour of the target reader.
THEOREM InvariantHolds == Spec => []IInv
  BY InitHolds, StepKeeps, PTL DEF Spec

\* Type correctness of the databroker, both streams and the buffered targets.
THEOREM TypeCorrect == Spec => []TypeOK
  <1>1. IInv => TypeOK
    BY DEF IInv
  <1> QED
    BY <1>1, InvariantHolds, PTL

\* While subscribed, a stored target has been buffered or counted as a drop,
\* is on its way, was set where no open stream tells of it, or went down with
\* a stream that broke, whatever targets the conversion refuses or raises on.
THEOREM EveryTargetAccountedFor == Spec => []TargetsAccountedFor
  <1>1. IInv => TargetsAccountedFor
    BY DEF IInv
  <1> QED
    BY <1>1, InvariantHolds, PTL

\* An older target replaces a newer one only if it comes from another of the
\* seed and the two streams.
THEOREM SourceNeverGoesBack == Spec => OneSourceNeverGoesBack
  <1> DEFINE Back == \A p \in Paths : target'[p] < target[p] => source'[p] # source[p]
  <1>1. IInv /\ [Next]_vars => [Back]_vars
    <2> SUFFICES ASSUME IInv, Next, NEW p \in Paths,
                        target'[p] < target[p], source'[p] = source[p]
                 PROVE  FALSE
      OBVIOUS
    <2>1. target[p] \in Nat /\ stored[p] \in Nat
      BY Numbers DEF IInv
    <2>2. CASE Seeds
      <3>1. \/ target'[p] = target[p]
            \/ target'[p] = stored[p] /\ source'[p] = "seed"
        BY <2>2 DEF Seeds, Puts
      <3>2. source[p] = "seed" => target[p] <= stored[p]
        BY DEF IInv, Bounds
      <3> QED
        BY <2>1, <3>1, <3>2
    <2>7. CASE SeedRaises
      <3>1. \/ target'[p] = target[p]
            \/ target'[p] = stored[p] /\ source'[p] = "seed"
        BY <2>7, SeedRaisesMoves
      <3>2. source[p] = "seed" => target[p] <= stored[p]
        BY DEF IInv, Bounds
      <3> QED
        BY <2>1, <3>1, <3>2
    <2>3. ASSUME NEW x \in Protocols, Handle(x) PROVE FALSE
      <3> DEFINE h == inbox[x][1]
      <3>1. /\ 1 \in DOMAIN inbox[x] /\ h.path \in Paths /\ h.value \in Nat
            /\ \/ target'[p] = target[p]
               \/ p = h.path /\ target'[p] = h.value /\ source'[p] = x
        BY <2>3, HandleMoves
      <3>3. p = h.path /\ target'[p] = h.value /\ source[p] = x
        BY <2>1, <3>1
      <3>4. target[p] <= h.value
        BY <3>1, <3>3 DEF IInv, InOrder
      <3> QED
        BY <2>1, <3>1, <3>3, <3>4
    <2>4. CASE Quiet
      BY <2>1, <2>4, QuietMoves
    <2>5. ASSUME NEW x \in Protocols, Opens(x) PROVE FALSE
      BY <2>1, <2>5 DEF Opens
    <2>6. ASSUME NEW x \in Protocols, NEW q \in Paths, Command(x, q) PROVE FALSE
      BY <2>1, <2>6 DEF Command
    <2> QED
      BY <2>2, <2>3, <2>4, <2>5, <2>6, <2>7 DEF Next, Branch, Quiet
  <1> QED
    BY <1>1, InvariantHolds, PTL DEF Spec, OneSourceNeverGoesBack
=============================================================================
