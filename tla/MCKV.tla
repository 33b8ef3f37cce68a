-------------------------------- MODULE MCKV --------------------------------
(* KVService with what TLC needs to check small instances. *)
EXTENDS KVInv, TLC

Operation(type, key, value) == [type |-> type, key |-> key, value |-> value]

CONSTANT Value

\* A mix that shows a duplicate and an order: no Put.
AppendOps == {Operation("Get", k, Nil) : k \in Key} \cup
             {Operation("Append", k, v) : k \in Key, v \in Value}

TwoEach == [c \in Clerk |-> 2]

\* Two families of behaviours: one clerk makes two operations and servers save
\* snapshots, or several clerks make one operation each and none is saved.
OneClerkOrNoSnapshot ==
    \/ Cardinality({c \in Clerk : nextCommandId[c] > 0}) <= 1
    \/ /\ \A c \in Clerk : nextCommandId[c] <= 1
       /\ saving = [s \in Server |-> Nil] /\ taken = {}

Symmetry ==
    {p \in Permutations(Server) : \A s \in Crashable : p[s] \in Crashable}
    \cup Permutations(Clerk) \cup Permutations(Value)
=============================================================================
