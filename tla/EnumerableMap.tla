-------------------------- MODULE EnumerableMap ---------------------------
(***************************************************************************)
(* EnumerableMap.IERC20ToBytes32Map (pkg/solidity-utils/contracts/         *)
(* openzeppelin): a map from tokens to values whose entries can also be    *)
(* visited by position.  It is a record of the pseudo-array of entries and *)
(* of the position of each key; the code counts entries from 0 and stores  *)
(* positions plus one, so that the positions stored are those of a TLA+    *)
(* sequence, and 0 is the position of an absent key.                       *)
(***************************************************************************)
EXTENDS Integers, Sequences

CONSTANTS Keys, Values

Entry == [key : Keys, value : Values]

Map == [entries : Seq(Entry), indexes : [Keys -> Nat]]

EmptyMap == [entries |-> <<>>, indexes |-> [k \in Keys |-> 0]]

Contains(m, k) == m.indexes[k] # 0

Get(m, k) == m.entries[m.indexes[k]].value

\* unchecked_setAt
SetAt(m, i, v) == [entries |-> [m.entries EXCEPT ![i].value = v], indexes |-> m.indexes]

\* set, of a key that may be new
Put(m, k, v) ==
    IF Contains(m, k)
    THEN SetAt(m, m.indexes[k], v)
    ELSE [entries |-> Append(m.entries, [key |-> k, value |-> v]),
          indexes |-> [m.indexes EXCEPT ![k] = Len(m.entries) + 1]]

\* mutant: the last entry is dropped and not moved
RemoveWithoutMove(m, k) ==
    LET last == m.entries[Len(m.entries)]
    IN  IF ~Contains(m, k) THEN m
        ELSE [entries |-> SubSeq(m.entries, 1, Len(m.entries) - 1),
              indexes |-> [m.indexes EXCEPT ![last.key] = m.indexes[k], ![k] = 0]]

(* The last entry takes the place of the removed one. *)
Remove(m, k) ==
    LET i == m.indexes[k]
        last == m.entries[Len(m.entries)]
    IN  IF ~Contains(m, k) THEN m
        ELSE [entries |-> SubSeq([m.entries EXCEPT ![i] = last], 1, Len(m.entries) - 1),
              indexes |-> [m.indexes EXCEPT ![last.key] = i, ![k] = 0]]

---------------------------------------------------------------------------
VARIABLE map

MapInit == map = EmptyMap

MapNext ==
    \/ \E k \in Keys, v \in Values : map' = Put(map, k, v)
    \/ \E k \in Keys : map' = Remove(map, k)
    \/ \E i \in DOMAIN map.entries, v \in Values : map' = SetAt(map, i, v)

MapSpec == MapInit /\ [][MapNext]_map

(* Every entry is found at the index of its key and every index points to  *)
(* the entry of its key: so there is one entry per key and the positions   *)
(* have no gap (set, remove and unchecked_setAt of EnumerableMap).         *)
Consistent(m) ==
    /\ \A i \in DOMAIN m.entries : m.indexes[m.entries[i].key] = i
    /\ \A k \in Keys : Contains(m, k) =>
         m.indexes[k] \in DOMAIN m.entries /\ m.entries[m.indexes[k]].key = k

IndexesAgree == Consistent(map)

(* The map as a function from its keys to their values.                    *)
AsFunction(m) == [k \in {x \in Keys : Contains(m, x)} |-> Get(m, k)]

Updated(f, k, v) == [x \in DOMAIN f \cup {k} |-> IF x = k THEN v ELSE f[x]]

Without(f, k) == [x \in DOMAIN f \ {k} |-> f[x]]

(* The pseudo-array and the indexes behave as a function that is updated   *)
(* or restricted at one key: no operation on a key touches another one.    *)
BehavesAsFunction ==
    [][\E k \in Keys :
         \/ \E v \in Values : AsFunction(map') = Updated(AsFunction(map), k, v)
         \/ AsFunction(map') = Without(AsFunction(map), k)]_map
===========================================================================
