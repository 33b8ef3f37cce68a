------------------------------ MODULE KVStore -------------------------------
(***************************************************************************)
(* What the key/value service promises its clerks: one map, changed by one *)
(* command at a time, each command once and between its call and return.   *)
(* A Get returns the value of its key at some moment of its own call.      *)
(*                                                                         *)
(* The sequential behaviour is the Step function of models/kv.go.  A value *)
(* is the sequence of the strings appended to it; a missing key reads as   *)
(* "" and is <<>>.                                                         *)
(***************************************************************************)
EXTENDS Integers, Sequences

CONSTANTS
    Clerk,
    Key,
    Op,     \* the operations clerks ask for: records [type, key, value]
    Nil     \* no operation pending

VARIABLES
    history,  \* every state of the map, the initial one first
    pending,  \* each clerk's operation: [op, since, done], or Nil
    result    \* what each clerk's last operation returned

storeVars == <<history, pending, result>>

emptyMap == [k \in Key |-> <<>>]

\* KvModel.Step, on all keys at once.
step(map, op) ==
    CASE op.type = "Get"    -> map
      [] op.type = "Put"    -> [map EXCEPT ![op.key] = <<op.value>>]
      [] op.type = "Append" -> [map EXCEPT ![op.key] = Append(@, op.value)]

StoreInit ==
    /\ history = <<emptyMap>>
    /\ pending = [c \in Clerk |-> Nil]
    /\ result = [c \in Clerk |-> Nil]

Invoke(c) ==
    /\ pending[c] = Nil
    /\ \E op \in Op :
           pending' = [pending EXCEPT ![c] = [op |-> op, since |-> Len(history), done |-> FALSE]]
    /\ UNCHANGED <<history, result>>

\* The operation takes effect, once.
TakeEffect(c) ==
    /\ pending[c] # Nil
    /\ ~pending[c].done
    /\ history' = Append(history, step(history[Len(history)], pending[c].op))
    /\ pending' = [pending EXCEPT ![c].done = TRUE]
    /\ UNCHANGED result

\* A state may be recorded again: time passes, nothing changes.
Pass ==
    /\ history' = Append(history, history[Len(history)])
    /\ UNCHANGED <<pending, result>>

Return(c) ==
    /\ pending[c] # Nil
    /\ pending[c].done
    /\ IF pending[c].op.type = "Get"
       THEN \E n \in pending[c].since .. Len(history) :
                result' = [result EXCEPT ![c] = history[n][pending[c].op.key]]
       ELSE result' = [result EXCEPT ![c] = Nil]
    /\ pending' = [pending EXCEPT ![c] = Nil]
    /\ UNCHANGED history

StoreNext == Pass \/ \E c \in Clerk : Invoke(c) \/ TakeEffect(c) \/ Return(c)

StoreSpec == StoreInit /\ [][StoreNext]_storeVars
=============================================================================
