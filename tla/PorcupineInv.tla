---------------------------- MODULE PorcupineInv ----------------------------
(***************************************************************************)
(* The inductive invariant of the linearizability checker: what its        *)
(* verdicts and its partial linearizations rest on.  A search is a stack   *)
(* of levels; at level k the first k calls of its stack are linearized.    *)
(***************************************************************************)
EXTENDS Porcupine

(* What is linearized at level k, the state there, and the entry that the  *)
(* search has got to: below the top, the call that it is trying.           *)
DoneAt(s, k) == {s.calls[j].entry.id : j \in 1 .. k}
StateAt(s, k) == IF k < Len(s.calls) THEN s.calls[k + 1].state ELSE s.state
EntryAt(s, k) == IF k < Len(s.calls) THEN s.calls[k + 1].entry ELSE s.entry

ConfigAt(s, k) == [linearized |-> DoneAt(s, k), state |-> StateAt(s, k)]

-----------------------------------------------------------------------------
(* The stack is a partial linearization, with the states of its run.       *)
StackReplayed(h, s) ==
    /\ s.calls \in Seq(ToSet(s.calls))
    /\ \A k \in DOMAIN s.calls : \E id \in DOMAIN h : s.calls[k].entry = Call(id)
    /\ s.linearized = DoneAt(s, Len(s.calls))
    /\ Cardinality(s.linearized) = Len(s.calls)
    /\ IsPartial(h, Ids(s.calls))
    /\ \A k \in 0 .. Len(s.calls) :
          StateAt(s, k) = Run(h, InitState, Ids(s.calls))[k]

(* The pointers of n name its neighbours in left.                          *)
Between(h, left, s, n) ==
    /\ Follows(h, left, s.prev[n], n)
    /\ Follows(h, left, n, s.next[n])

(* The list links what is left, and a lifted call and its return remember  *)
(* where they were when they were taken out, one after the other.          *)
LinksRestorable(h, s) ==
    /\ DOMAIN s.next = Nodes(h)
    /\ DOMAIN s.prev = Nodes(h)
    /\ Linked(h, Left(h, s.linearized), s.next, s.prev)
    /\ \A k \in DOMAIN s.calls :
          LET e    == s.calls[k].entry
              left == Left(h, DoneAt(s, k - 1))
          IN  /\ Between(h, left, s, e)
              /\ Between(h, left \ {e}, s, Ret(e.id))

(* With done linearized, a search at e is not past the first return that   *)
(* is left, and the calls it has passed are forbidden by the model or by   *)
(* the cache.                                                              *)
Tried(h, cache, done, state, e) ==
    LET left == Left(h, done)
        time == TimeOf(h)
    IN  \/ e = Nil /\ left = {HeadEntry}
        \/ /\ e \in left \ {HeadEntry}
           /\ \A f \in left : f.kind = "return" => time[e] <= time[f]
           /\ \A f \in left :
                 /\ f.kind = "call"
                 /\ time[f] < time[e]
                 /\ StepOk(state, h[f.id])
                 => [linearized |-> done \cup {f.id}, state |-> StepState(state, h[f.id])] \in cache

LevelTried(h, s, k) == Tried(h, s.cache, DoneAt(s, k), StateAt(s, k), EntryAt(s, k))

(* The subtree of a configuration holds no complete linearization, and     *)
(* when they are wanted all its partial linearizations have been counted   *)
(* in longest.                                                             *)
Explored(h, wanted, longest, done, state) ==
    \A seq \in SeqOf(DOMAIN h, Len(h)) :
        Continues(h, done, state, seq) =>
            /\ \E id \in DOMAIN h : id \notin done \cup ToSet(seq)
            /\ wanted =>
                  \A id \in done \cup ToSet(seq) :
                      /\ longest[id] # Nil
                      /\ Len(longest[id]) >= Cardinality(done) + Len(seq)

(* A configuration is in the cache from when it is reached; when it is no  *)
(* longer on the stack its subtree has been explored.                      *)
CacheExplored(h, s, wanted) ==
    /\ \A k \in 1 .. Len(s.calls) : ConfigAt(s, k) \in s.cache
    /\ \A c \in s.cache :
          /\ c.linearized \in SUBSET DOMAIN h
          /\ \/ \E k \in 1 .. Len(s.calls) : c = ConfigAt(s, k)
             \/ Explored(h, wanted, s.longest, c.linearized, c.state)

LongestPartial(h, s) ==
    /\ DOMAIN s.longest = DOMAIN h
    /\ \A id \in DOMAIN h :
          s.longest[id] # Nil => s.longest[id] \in Partials(h) /\ id \in ToSet(s.longest[id])

(* A search that was not killed has returned the right verdict and has     *)
(* counted every partial linearization in longest.                         *)
ReturnedRight(h, s, wanted, killed) ==
    s.returned /\ ~killed =>
        /\ s.next[HeadEntry] = Nil \/ ~IsLinearizable(h)
        /\ wanted =>
              \A p \in Partials(h) : \A id \in ToSet(p) :
                  s.longest[id] # Nil /\ Len(s.longest[id]) >= Len(p)

(* The locals of checkSingle.                                              *)
Locals == {"entry", "next", "prev", "linearized", "cache", "calls", "state",
           "longest", "returned"}

SearchInv(h, s, wanted, killed) ==
    /\ DOMAIN s = Locals
    /\ StackReplayed(h, s)
    /\ LinksRestorable(h, s)
    /\ \A k \in 0 .. Len(s.calls) : LevelTried(h, s, k)
    /\ CacheExplored(h, s, wanted)
    /\ LongestPartial(h, s)
    /\ ReturnedRight(h, s, wanted, killed)

-----------------------------------------------------------------------------
Returned == {i \in DOMAIN parts : search[i].returned}

(* The verdicts sent and not yet counted, and those counted.               *)
VerdictsCounted ==
    /\ results \in Seq(BOOLEAN)
    /\ count \in Nat
    /\ ok \in BOOLEAN
    /\ kill \in BOOLEAN
    /\ timedOut \in BOOLEAN
    /\ computeInfo \in BOOLEAN
    /\ pc \in {"loop", "after", "done"}
    /\ Len(results) + count = Cardinality(Returned)

(* While the loop takes verdicts none was cut short, so each FALSE is a    *)
(* part that is not linearizable and each such part that has returned is   *)
(* in ok or on its way; when the loop ends, ok is right or a time-out came.*)
VerdictsRight ==
    /\ pc = "loop" => ~kill
    /\ ~ok => \E i \in DOMAIN parts : ~IsLinearizable(parts[i])
    /\ pc = "loop" =>
          /\ \A k \in DOMAIN results :
                ~results[k] => \E i \in DOMAIN parts : ~IsLinearizable(parts[i])
          /\ \A i \in Returned :
                ~IsLinearizable(parts[i]) => ~ok \/ \E k \in DOMAIN results : ~results[k]
    /\ pc # "loop" =>
          /\ ok /\ ~timedOut => \A i \in DOMAIN parts : IsLinearizable(parts[i])
          /\ ~kill => Returned = DOMAIN parts

(* The searches of checkSingle, one for each part of the history.          *)
SearchesInv ==
    /\ parts \in Seq(ToSet(parts))
    /\ search = [i \in DOMAIN parts |-> search[i]]
    /\ \A i \in DOMAIN parts :
          WellTimed(parts[i]) /\ SearchInv(parts[i], search[i], computeInfo, kill)

(* Every checkSingle keeps its stack, its list, its cache and its longest  *)
(* prefixes in step: what it prunes has been explored.  The verdicts that  *)
(* checkParallel counts are the searches', also while it kills them.       *)
CheckerInv ==
    /\ SearchesInv
    /\ VerdictsCounted
    /\ VerdictsRight
    /\ VerdictRight
    /\ PartialsLongest
=============================================================================
