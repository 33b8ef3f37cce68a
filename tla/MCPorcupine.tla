---------------------------- MODULE MCPorcupine ----------------------------
(* Porcupine on every history of MaxOps operations, numbered in the order  *)
(* of their calls, on one key or with a second key for the second.         *)
EXTENDS PorcupineInv

CONSTANT MaxOps

Inputs == [op : {"put"}, value : {<<"a">>}]
          \cup [op : {"append"}, value : {<<"b">>}]
          \cup [op : {"get"}, value : {<<>>, <<"a">>, <<"a", "b">>}]

(* The times of the calls and returns of MaxOps operations.                *)
Timings ==
    {t \in [1 .. MaxOps -> (1 .. 2 * MaxOps) \X (1 .. 2 * MaxOps)] :
        /\ \A i \in 1 .. MaxOps : t[i][1] < t[i][2]
        /\ \A i, j \in 1 .. MaxOps : i < j => t[i][1] < t[j][1] /\ t[i][2] # t[j][2]
        /\ \A i, j \in 1 .. MaxOps : t[i][1] # t[j][2]}

MCHistories ==
    {[i \in 1 .. MaxOps |->
        [op |-> in[i].op, value |-> in[i].value, key |-> IF i = 2 THEN k2 ELSE 1,
         call |-> t[i][1], return |-> t[i][2]]] :
        in \in [1 .. MaxOps -> Inputs],
        k2 \in {1, 2},
        t \in Timings}
=============================================================================
