----------------------------- MODULE Porcupine -----------------------------
(***************************************************************************)
(* The linearizability checker that the KV tests use (porcupine/checker.go *)
(* with the model of models/kv.go).  checkOperations splits a history by   *)
(* key; checkParallel starts one goroutine per part, each running          *)
(* checkSingle, and collects their verdicts, a time-out and the partial    *)
(* linearizations for the report.  One step of a search is one iteration   *)
(* of the loop of checkSingle.                                             *)
(*                                                                         *)
(* The bit set and the hash buckets of the cache are the sets they stand   *)
(* for.  A value is a sequence of letters.  Times are all different.       *)
(***************************************************************************)
EXTENDS Naturals, Sequences, FiniteSets, SequencesExt

CONSTANTS Histories,   \* the histories to check: sequences of operations
          HasTimeout,  \* timeout > 0: the check may time out
          Nil

(* A sequence of operations that are called before they return, all calls  *)
(* and returns at different times (UnixNano: after the head's time, 0).    *)
WellTimed(history) ==
    /\ Len(history) \in Nat
    /\ DOMAIN history = 1 .. Len(history)
    /\ \A i \in DOMAIN history :
          /\ history[i].call \in Nat \ {0}
          /\ history[i].return \in Nat
          /\ history[i].call < history[i].return
    /\ \A i, j \in DOMAIN history :
          /\ history[i].call # history[j].return
          /\ i # j => /\ history[i].call # history[j].call
                      /\ history[i].return # history[j].return

ASSUME PorcupineAssumption ==
    /\ \A h \in Histories :
          h # <<>> /\ WellTimed(h) /\ \A i \in DOMAIN h : h[i].key \in Nat
    /\ HasTimeout \in BOOLEAN

ASSUME NilAssumption ==
    /\ Nil \notin [kind : {"head", "call", "return"}, id : Nat]
    /\ Nil \notin Seq(Nat)
    /\ Nil \notin {"Ok", "Illegal", "Unknown"}

VARIABLES parts,       \* the history of each part: sequences of operations
          computeInfo, \* the caller wants partial linearizations
          search,      \* the state of each goroutine's checkSingle
          results,     \* the channel of verdicts
          kill,        \* the flag that tells the searches to stop
          count, ok, timedOut,  \* locals of checkParallel
          pc,          \* where checkParallel is
          result,      \* its CheckResult
          info         \* partial linearizations of each part

vars == <<parts, computeInfo, search, results, kill, count, ok,
          timedOut, pc, result, info>>

-----------------------------------------------------------------------------
(* sort.Sort: the elements of S, which have different times, by time.      *)
InOrder(S, time) ==
    [k \in 1 .. Cardinality(S) |->
        CHOOSE e \in S : Cardinality({f \in S : time[f] <= time[e]}) = k]

(* models/kv.go.                                                           *)

(* The operations of each key, in the order of the history; the parts in   *)
(* the order of their keys.                                                *)
PartitionByKey(history) ==
    LET ks      == {history[i].key : i \in DOMAIN history}
        keys    == InOrder(ks, [key \in ks |-> key])
        ids(p)  == {i \in DOMAIN history : history[i].key = keys[p]}
        at(p)   == InOrder(ids(p), [i \in ids(p) |-> i])
        part(p) == [n \in DOMAIN at(p) |-> history[at(p)[n]]]
    IN  [p \in DOMAIN keys |-> part(p)]

InitState == <<>>

(* Whether the state allows the operation with its output ...              *)
StepOk(state, op) == op.op = "get" => op.value = state

(* ... and the state after it.                                             *)
StepState(state, op) ==
    CASE op.op = "get"    -> state
      [] op.op = "put"    -> op.value
      [] op.op = "append" -> state \o op.value

-----------------------------------------------------------------------------
(* The entries of a part and the doubly linked list of them.               *)

Call(id) == [kind |-> "call", id |-> id]
Ret(id) == [kind |-> "return", id |-> id]
HeadEntry == [kind |-> "head", id |-> 0]

Entries(history) == {Call(i) : i \in DOMAIN history} \cup {Ret(i) : i \in DOMAIN history}

Nodes(history) == {HeadEntry} \cup Entries(history)

(* When each entry happened; the head is before all.                       *)
TimeOf(history) ==
    [e \in Nodes(history) |->
        CASE e.kind = "head"   -> 0
          [] e.kind = "call"   -> history[e.id].call
          [] e.kind = "return" -> history[e.id].return]

makeEntries(history) == InOrder(Entries(history), TimeOf(history))

(* The list headed by HeadEntry: makeLinkedEntries and insertBefore.       *)
LinkNext(history) ==
    LET list == <<HeadEntry>> \o makeEntries(history)
    IN  [n \in Nodes(history) |->
           LET k == CHOOSE i \in DOMAIN list : list[i] = n
           IN  IF k = Len(list) THEN Nil ELSE list[k + 1]]

LinkPrev(history) ==
    LET list == <<HeadEntry>> \o makeEntries(history)
    IN  [n \in Nodes(history) |->
           LET k == CHOOSE i \in DOMAIN list : list[i] = n
           IN  IF k = 1 THEN Nil ELSE list[k - 1]]

(* node.next.prev = p, when there is a next node.                          *)
SetPrev(prev, n, p) == IF n = Nil THEN prev ELSE [prev EXCEPT ![n] = p]

(* Take a call and its return out of the list.                             *)
lift(s, e) ==
    LET m  == Ret(e.id)
        n1 == [s.next EXCEPT ![s.prev[e]] = s.next[e]]
        p1 == SetPrev(s.prev, s.next[e], s.prev[e])
    IN  [s EXCEPT !.next = [n1 EXCEPT ![p1[m]] = n1[m]],
                  !.prev = SetPrev(p1, n1[m], p1[m])]

(* Put only the call back.                                                 *)
unliftCall(s, e) ==
    [s EXCEPT !.next = [s.next EXCEPT ![s.prev[e]] = e],
              !.prev = SetPrev(s.prev, s.next[e], e)]

(* Put them back, in the opposite order.                                   *)
unlift(s, e) ==
    LET m  == Ret(e.id)
        n1 == [s.next EXCEPT ![s.prev[m]] = m]
        p1 == SetPrev(s.prev, s.next[m], m)
    IN  [s EXCEPT !.next = [n1 EXCEPT ![p1[e]] = e],
                  !.prev = SetPrev(p1, n1[e], e)]

-----------------------------------------------------------------------------
(* checkSingle.                                                            *)

NewSearch(history) ==
    [entry      |-> makeEntries(history)[1],
     next       |-> LinkNext(history),
     prev       |-> LinkPrev(history),
     linearized |-> {},
     cache      |-> {},
     calls      |-> <<>>,
     state      |-> InitState,
     longest    |-> [id \in DOMAIN history |-> Nil],
     returned   |-> FALSE]

Ids(calls) == [k \in DOMAIN calls |-> calls[k].entry.id]

Running(i) == ~search[i].returned

(* The goroutine stores longest[i] and sends its verdict; the channel has  *)
(* room for every goroutine.                                               *)
Verdict(i, s, linearizable) ==
    /\ search' = [search EXCEPT ![i] = [s EXCEPT !.returned = TRUE]]
    /\ results' = Append(results, linearizable)

Continue(i, s) ==
    /\ search' = [search EXCEPT ![i] = s]
    /\ UNCHANGED results

mainVars == <<parts, computeInfo, kill, count, ok, timedOut, pc, result, info>>

(* The list is empty: the complete linearization is the longest for all.   *)
Linearizable(i) ==
    LET s == search[i]
    IN  /\ Running(i)
        /\ s.next[HeadEntry] = Nil
        /\ Verdict(i, [s EXCEPT !.longest = [id \in DOMAIN @ |-> Ids(s.calls)]], TRUE)
        /\ UNCHANGED mainVars

Killed(i) ==
    /\ Running(i)
    /\ search[i].next[HeadEntry] # Nil
    /\ kill
    /\ Verdict(i, search[i], FALSE)
    /\ UNCHANGED mainVars

Searching(i) == Running(i) /\ search[i].next[HeadEntry] # Nil /\ ~kill

(* The same operations, in whatever state.                                 *)
cacheContainsSet(s, linearized, state) == \E c \in s.cache : c.linearized = linearized

cacheContains(s, linearized, state) == [linearized |-> linearized, state |-> state] \in s.cache

(* At a call: linearize it next, unless the model or the cache forbids it. *)
TryCall(i) ==
    LET s        == search[i]
        op       == parts[i][s.entry.id]
        newState == StepState(s.state, op)
        newSet   == s.linearized \cup {s.entry.id}
        lifted   == lift(s, s.entry)
    IN  /\ Searching(i)
        /\ s.entry.kind = "call"
        /\ IF StepOk(s.state, op) /\ ~cacheContains(s, newSet, newState)
           THEN Continue(i, [lifted EXCEPT
                    !.cache = @ \cup {[linearized |-> newSet, state |-> newState]},
                    !.calls = Append(@, [entry |-> s.entry, state |-> s.state]),
                    !.state = newState,
                    !.linearized = newSet,
                    !.entry = lifted.next[HeadEntry]])
           ELSE Continue(i, [s EXCEPT !.entry = s.next[s.entry]])
        /\ UNCHANGED mainVars

(* At a return, with nothing left to undo.                                 *)
NotLinearizable(i) ==
    /\ Searching(i)
    /\ search[i].entry.kind = "return"
    /\ search[i].calls = <<>>
    /\ Verdict(i, search[i], FALSE)
    /\ UNCHANGED mainVars

(* The prefix as it is after the last call was popped.                     *)
LongestPopped(s) ==
    [id \in DOMAIN s.longest |->
        IF /\ computeInfo
           /\ id \in s.linearized
           /\ s.longest[id] = Nil \/ Len(s.calls) > Len(s.longest[id])
        THEN Ids(Front(s.calls))
        ELSE s.longest[id]]

(* The longest prefix seen so far that includes each entry.                *)
Longest(s) ==
    [id \in DOMAIN s.longest |->
        IF /\ computeInfo
           /\ id \in s.linearized
           /\ s.longest[id] = Nil \/ Len(s.calls) > Len(s.longest[id])
        THEN Ids(s.calls)
        ELSE s.longest[id]]

(* At a return: undo the last call and go on behind it.                    *)
Backtrack(i) ==
    LET s        == search[i]
        callsTop == Last(s.calls)
        undone   == unlift(s, callsTop.entry)
    IN  /\ Searching(i)
        /\ s.entry.kind = "return"
        /\ s.calls # <<>>
        /\ Continue(i, [undone EXCEPT
                !.longest = Longest(s),
                !.state = callsTop.state,
                !.linearized = @ \ {callsTop.entry.id},
                !.calls = Front(@),
                !.entry = undone.next[callsTop.entry]])
        /\ UNCHANGED mainVars

-----------------------------------------------------------------------------
(* checkParallel.                                                          *)

(* Partition a history and convert each part to the entries of a search.   *)
checkOperations(history) ==
    /\ parts = PartitionByKey(history)
    /\ search = [i \in DOMAIN parts |-> NewSearch(parts[i])]

(* checkParallel starts the goroutines and waits for them.                 *)
Init ==
    /\ \E h \in Histories : checkOperations(h)
    /\ computeInfo \in BOOLEAN
    /\ results = <<>>
    /\ kill = FALSE
    /\ count = 0
    /\ ok = TRUE
    /\ timedOut = FALSE
    /\ pc = "loop"
    /\ result = Nil
    /\ info = Nil

(* A count of verdicts that is one short.                                  *)
TakeResultOneMore ==
    /\ pc = "loop"
    /\ results # <<>>
    /\ results' = Tail(results)
    /\ count' = count + 1
    /\ ok' = (ok /\ Head(results))
    /\ kill' = (kill \/ (~ok' /\ ~computeInfo))
    /\ pc' = IF (~ok' /\ ~computeInfo) \/ count' > Len(parts) THEN "after" ELSE "loop"
    /\ UNCHANGED <<parts, computeInfo, search, timedOut, result, info>>

(* The select takes a verdict.                                             *)
TakeResult ==
    /\ pc = "loop"
    /\ results # <<>>
    /\ results' = Tail(results)
    /\ count' = count + 1
    /\ ok' = (ok /\ Head(results))
    /\ kill' = (kill \/ (~ok' /\ ~computeInfo))
    /\ pc' = IF (~ok' /\ ~computeInfo) \/ count' >= Len(parts) THEN "after" ELSE "loop"
    /\ UNCHANGED <<parts, computeInfo, search, timedOut, result, info>>

(* The select takes the time-out.                                          *)
TimeOut ==
    /\ pc = "loop"
    /\ HasTimeout
    /\ timedOut' = TRUE
    /\ kill' = TRUE
    /\ pc' = "after"
    /\ UNCHANGED <<parts, computeInfo, search, results, count, ok, result, info>>

(* A verdict that is counted after the time-out.                           *)
DrainCounted ==
    /\ pc = "after"
    /\ computeInfo
    /\ count < Len(parts)
    /\ results # <<>>
    /\ results' = Tail(results)
    /\ count' = count + 1
    /\ ok' = (ok /\ Head(results))
    /\ UNCHANGED <<parts, computeInfo, search, kill, timedOut, pc, result, info>>

(* With computeInfo, wait for the other goroutines; their verdicts, which  *)
(* kill may have cut short, are not used.                                  *)
Drain ==
    /\ pc = "after"
    /\ computeInfo
    /\ count < Len(parts)
    /\ results # <<>>
    /\ results' = Tail(results)
    /\ count' = count + 1
    /\ UNCHANGED <<parts, computeInfo, search, kill, ok, timedOut, pc, result, info>>

Conclude ==
    /\ pc = "after"
    /\ computeInfo => count >= Len(parts)
    /\ info' = IF computeInfo
               THEN [i \in DOMAIN parts |->
                       {search[i].longest[id] : id \in DOMAIN parts[i]} \ {Nil}]
               ELSE Nil
    /\ result' = IF ~ok THEN "Illegal" ELSE IF timedOut THEN "Unknown" ELSE "Ok"
    /\ pc' = "done"
    /\ UNCHANGED <<parts, computeInfo, search, results, kill, count, ok, timedOut>>

checkSingle(i) ==
    Linearizable(i) \/ Killed(i) \/ TryCall(i) \/ NotLinearizable(i) \/ Backtrack(i)

checkParallel == TakeResult \/ TimeOut \/ Drain \/ Conclude

Next == checkParallel \/ \E i \in DOMAIN parts : checkSingle(i)

(* Goroutines run on; no time-out is assumed to fire.                      *)
Fairness ==
    /\ WF_vars(TakeResult \/ Drain \/ Conclude)
    /\ WF_vars(\E i \in DOMAIN parts : checkSingle(i))

Spec == Init /\ [][Next]_vars /\ Fairness

-----------------------------------------------------------------------------
(* The reference: linearizability as a property of a history.              *)

(* The states of a run: after the first k operations of seq, from state.   *)
Run(history, state, seq) ==
    LET run[k \in 0 .. Len(seq)] ==
            IF k = 0 THEN state ELSE StepState(run[k - 1], history[seq[k]])
    IN  run

(* With the operations of done already linearized and the state at state,  *)
(* seq lists others once each, none before an operation that returned      *)
(* before it was called, and every one with an output the state allows.    *)
Continues(history, done, state, seq) ==
    /\ IsInjective(seq)
    /\ \A k \in DOMAIN seq :
          /\ seq[k] \notin done
          /\ \A id \in DOMAIN history :
                history[id].return < history[seq[k]].call =>
                    id \in done \/ \E j \in 1 .. k - 1 : seq[j] = id
          /\ StepOk(Run(history, state, seq)[k - 1], history[seq[k]])

IsPartial(history, seq) == Continues(history, {}, InitState, seq)

Partials(history) ==
    {seq \in SeqOf(DOMAIN history, Len(history)) : IsPartial(history, seq)}

IsLinearizable(history) ==
    \E seq \in Partials(history) : Len(seq) = Len(history)

-----------------------------------------------------------------------------
(* In the list of the entries of left by time, b comes right after a; b is *)
(* Nil when a is the last.                                                 *)
Follows(history, left, a, b) ==
    LET time == TimeOf(history)
    IN  /\ a \in left
        /\ b # Nil => b \in left /\ time[a] < time[b]
        /\ \A c \in left : time[a] < time[c] => b # Nil /\ time[b] <= time[c]

(* next and prev link the entries of left by time.                         *)
Linked(history, left, next, prev) ==
    /\ \A a \in left : Follows(history, left, a, next[a])
    /\ \A b \in left \ {HeadEntry} : Follows(history, left, prev[b], b)

(* The head and the entries of the operations that are not in done.        *)
Left(history, done) == {HeadEntry} \cup {e \in Entries(history) : e.id \notin done}

(* While a search runs, its list is the history without the operations it  *)
(* has linearized, in order and linked both ways, and its state is theirs  *)
(* replayed: lift and unlift undo each other along every path.             *)
SearchConsistent ==
    \A i \in DOMAIN parts :
        LET s == search[i]
        IN  /\ Linked(parts[i], Left(parts[i], s.linearized), s.next, s.prev)
            /\ s.linearized = ToSet(Ids(s.calls))
            /\ IsPartial(parts[i], Ids(s.calls))
            /\ s.state = Run(parts[i], InitState, Ids(s.calls))[Len(s.calls)]

(* The verdict: Ok only for a history whose every part is linearizable,    *)
(* Illegal only for one with a part that is not, even when searches were   *)
(* killed, and Unknown only after a time-out.                              *)
VerdictRight ==
    /\ result = "Ok" => \A i \in DOMAIN parts : IsLinearizable(parts[i])
    /\ result = "Illegal" => \E i \in DOMAIN parts : ~IsLinearizable(parts[i])
    /\ result = "Unknown" => timedOut

(* What the report shows: every partial linearization is one, and unless   *)
(* the search was cut short none that includes the same operation is       *)
(* longer (the cache must not hide one).                                   *)
PartialsLongest ==
    pc = "done" /\ computeInfo =>
        \A i \in DOMAIN parts :
            /\ info[i] \subseteq Partials(parts[i])
            /\ ~kill => \A p \in Partials(parts[i]) : \A id \in ToSet(p) :
                           \E q \in info[i] : id \in ToSet(q) /\ Len(q) >= Len(p)

(* A check of a history returns, with or without a time-out.               *)
CheckReturns == <>(pc = "done")
=============================================================================
