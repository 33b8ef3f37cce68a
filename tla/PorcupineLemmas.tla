--------------------------- MODULE PorcupineLemmas ---------------------------
(* What the proof about the linearizability checker needs of its data: the   *)
(* order by time, the runs of a history, and one entry taken out of or put   *)
(* back into the linked list.                                                *)
EXTENDS PorcupineInv, FiniteSetTheorems, SequenceTheorems, WellFoundedInduction, TLAPS

\* Numbers have a first one.
LEMMA FirstNumber ==
    ASSUME NEW S \in SUBSET Nat, S # {}
    PROVE  \E m \in S : \A k \in S : m <= k
<1>1. PICK R : R = OpToRel(<, Nat)
  OBVIOUS
<1>2. \A x, y \in Nat : y < x => <<y, x>> \in R
  BY <1>1 DEF OpToRel
<1>3. IsWellFoundedOn(R, Nat)
  BY <1>1, NatLessThanWellFounded
<1>4. PICK x \in S : \A y \in S : ~(<<y, x>> \in R)
  BY <1>3, WFMin
<1>5. ASSUME NEW k \in S
      PROVE  x <= k
  <2>1. x \in Nat /\ k \in Nat /\ ~(k < x)
    BY <1>2, <1>4
  <2> QED
    BY <2>1
<1> QED
  BY <1>5

\* Induction, for a set instead of a predicate.
LEMMA Induction ==
    ASSUME NEW S \in SUBSET Nat, 0 \in S, \A n \in S : n + 1 \in S
    PROVE  S = Nat
<1> SUFFICES ASSUME S # Nat
             PROVE  FALSE
  OBVIOUS
<1>1. PICK m \in Nat \ S : \A k \in Nat \ S : m <= k
  BY FirstNumber
<1>2. m # 0 /\ m - 1 \in Nat /\ m - 1 \in S
  BY <1>1
<1> QED
  BY <1>1, <1>2

\* InOrder lists every element once, by time.
LEMMA InOrderSorted ==
    ASSUME NEW S, IsFiniteSet(S), NEW time, \A e \in S : time[e] \in Nat,
           \A e, f \in S : time[e] = time[f] => e = f
    PROVE  /\ Cardinality(S) \in Nat
           /\ InOrder(S, time) \in [1 .. Cardinality(S) -> S]
           /\ \A j, k \in 1 .. Cardinality(S) :
                 j < k => time[InOrder(S, time)[j]] < time[InOrder(S, time)[k]]
           /\ \A e \in S : \E k \in 1 .. Cardinality(S) : InOrder(S, time)[k] = e
<1> DEFINE n == Cardinality(S)
           upTo(e) == {f \in S : time[f] <= time[e]}
           rank == [e \in S |-> Cardinality(upTo(e))]
<1>1. n \in Nat
  BY FS_CardinalityType
<1>2. ASSUME NEW e \in S
      PROVE  IsFiniteSet(upTo(e)) /\ rank[e] \in 1 .. n /\ rank[e] = Cardinality(upTo(e))
  <2>1. upTo(e) \in SUBSET S /\ e \in upTo(e)
    OBVIOUS
  <2>2. IsFiniteSet(upTo(e)) /\ Cardinality(upTo(e)) <= n
    BY <2>1, FS_Subset
  <2>3. Cardinality(upTo(e)) \in Nat /\ Cardinality(upTo(e)) # 0
    BY <2>1, <2>2, FS_CardinalityType, FS_EmptySet
  <2> QED
    BY <1>1, <2>2, <2>3
<1>3. ASSUME NEW e \in S, NEW f \in S, time[e] < time[f]
      PROVE  rank[e] < rank[f]
  <2>0. /\ time[e] \in Nat /\ time[f] \in Nat /\ ~(time[f] <= time[e]) /\ time[f] <= time[f]
        /\ \A z \in S : time[z] <= time[e] => time[z] <= time[f]
    BY <1>3
  <2>1. upTo(e) \subseteq upTo(f) /\ f \in upTo(f) /\ f \notin upTo(e)
    BY <2>0, Zenon
  <2>2. PICK X, Y : X = upTo(e) /\ Y = upTo(f)
    OBVIOUS
  <2>3. IsFiniteSet(Y) /\ X \in SUBSET Y /\ X # Y
    BY <1>2, <2>1, <2>2, Zenon
  <2>4. Cardinality(X) <= Cardinality(Y) /\ Cardinality(X) # Cardinality(Y)
    BY <2>3, FS_Subset
  <2>5. rank[e] = Cardinality(X) /\ rank[f] = Cardinality(Y) /\ rank[e] \in Nat /\ rank[f] \in Nat
    BY <1>1, <1>2, <2>2
  <2> QED
    BY <2>4, <2>5
<1>4. \A k \in 1 .. n : InOrder(S, time)[k] = CHOOSE e \in S : Cardinality(upTo(e)) = k
  BY DEF InOrder
<1>5. DOMAIN InOrder(S, time) = 1 .. n /\ InOrder(S, time) = [k \in 1 .. n |-> InOrder(S, time)[k]]
  <2> DEFINE ranked(k) == CHOOSE e \in S : Cardinality({f \in S : time[f] <= time[e]}) = k
  <2>1. InOrder(S, time) = [k \in 1 .. n |-> ranked(k)]
    BY Zenon DEF InOrder
  <2> HIDE DEF ranked, n
  <2> QED
    BY <2>1
<1>6. PICK q : q = InOrder(S, time)
  OBVIOUS
<1>7. \A e \in S : rank[e] = Cardinality(upTo(e))
  BY <1>2
<1> HIDE DEF rank, upTo
<1>8. \A e, f \in S : rank[e] = rank[f] => e = f
  <2> SUFFICES ASSUME NEW e \in S, NEW f \in S, e # f
               PROVE  rank[e] # rank[f]
    OBVIOUS
  <2>1. time[e] \in Nat /\ time[f] \in Nat /\ rank[e] \in Nat /\ rank[f] \in Nat /\ time[e] # time[f]
    BY <1>1, <1>2
  <2>2. time[e] < time[f] \/ time[f] < time[e]
    BY <2>1
  <2> QED
    BY <1>3, <2>1, <2>2
<1>9. rank \in Injection(S, 1 .. n)
  <2>1. rank \in [S -> 1 .. n]
    BY <1>2 DEF rank
  <2> QED
    BY <1>8, <2>1 DEF Injection, IsInjective
<1>10. rank \in Surjection(S, 1 .. n)
  <2>1. IsFiniteSet(1 .. n) /\ Cardinality(1 .. n) = n
    BY <1>1, FS_Interval
  <2> QED
    BY <1>9, <2>1, FS_Injection
<1>11. \A k \in 1 .. n : \E e \in S : rank[e] = k
  BY <1>10 DEF Surjection
<1>12. \A k \in 1 .. n : q[k] \in S /\ rank[q[k]] = k
  <2> SUFFICES ASSUME NEW k \in 1 .. n
               PROVE  q[k] \in S /\ rank[q[k]] = k
    OBVIOUS
  <2>1. \E e \in S : Cardinality(upTo(e)) = k
    BY <1>7, <1>11, Zenon
  <2>2. q[k] \in S /\ Cardinality(upTo(q[k])) = k
    BY <1>4, <1>6, <2>1, Zenon
  <2> QED
    BY <1>7, <2>2, Zenon
<1>13. q \in [1 .. n -> S]
  BY <1>5, <1>6, <1>12
<1>14. ASSUME NEW j \in 1 .. n, NEW k \in 1 .. n, j < k
       PROVE  time[q[j]] < time[q[k]]
  <2>1. PICK e \in S, f \in S : e = q[j] /\ f = q[k] /\ rank[e] = j /\ rank[f] = k
    BY <1>12
  <2>2. time[e] \in Nat /\ time[f] \in Nat /\ e # f
    BY <1>14, <2>1
  <2>3. time[e] # time[f] /\ ~(time[f] < time[e])
    BY <1>3, <1>14, <2>1, <2>2
  <2> QED
    BY <2>1, <2>2, <2>3
<1>15. ASSUME NEW e \in S
       PROVE  \E k \in 1 .. n : q[k] = e
  <2>1. rank[e] \in 1 .. n /\ rank[q[rank[e]]] = rank[e] /\ q[rank[e]] \in S
    BY <1>2, <1>12
  <2> QED
    BY <1>8, <2>1
<1> QED
  BY <1>1, <1>6, <1>13, <1>14, <1>15

-----------------------------------------------------------------------------
\* An entry is the call or the return of an operation.
LEMMA EntryKinds ==
    ASSUME NEW h
    PROVE  /\ \A i \in DOMAIN h : /\ Call(i) \in Entries(h) /\ Ret(i) \in Entries(h)
                                  /\ Call(i).id = i /\ Ret(i).id = i
                                  /\ Call(i).kind = "call" /\ Ret(i).kind = "return"
                                  /\ Call(i) # Ret(i)
           /\ \A e \in Entries(h) : /\ e.id \in DOMAIN h
                                    /\ e # HeadEntry
                                    /\ \/ e = Call(e.id) /\ e.kind = "call"
                                       \/ e = Ret(e.id) /\ e.kind = "return"
           /\ HeadEntry.kind = "head"
<1>1. \A i : /\ Call(i).id = i /\ Ret(i).id = i /\ Call(i).kind = "call" /\ Ret(i).kind = "return"
             /\ Call(i) # Ret(i) /\ Call(i) # HeadEntry /\ Ret(i) # HeadEntry
  BY DEF Call, Ret, HeadEntry
<1>2. HeadEntry.kind = "head"
  BY DEF HeadEntry
<1>3. \A i \in DOMAIN h : Call(i) \in Entries(h) /\ Ret(i) \in Entries(h)
  BY DEF Entries
<1>4. ASSUME NEW e \in Entries(h)
      PROVE  /\ e.id \in DOMAIN h
             /\ e # HeadEntry
             /\ \/ e = Call(e.id) /\ e.kind = "call"
                \/ e = Ret(e.id) /\ e.kind = "return"
  <2>1. PICK i \in DOMAIN h : e = Call(i) \/ e = Ret(i)
    BY DEF Entries
  <2> QED
    BY <1>1, <2>1, Zenon
<1> QED
  BY <1>1, <1>2, <1>3, <1>4

\* Nil is no entry.
LEMMA NilNoEntry ==
    ASSUME NEW h, WellTimed(h)
    PROVE  Nil \notin Nodes(h)
<1>1. \A i \in DOMAIN h : i \in Nat
  BY DEF WellTimed
<1>2. \A i \in Nat : Call(i) # Nil /\ Ret(i) # Nil /\ HeadEntry # Nil
  BY NilAssumption DEF Call, Ret, HeadEntry
<1>3. \A e \in Entries(h) : e # Nil
  BY <1>1, <1>2 DEF Entries
<1> QED
  BY <1>2, <1>3 DEF Nodes

\* The times of the entries: numbers, all different, the head's before all.
LEMMA EntryTimes ==
    ASSUME NEW h, WellTimed(h)
    PROVE  /\ TimeOf(h)[HeadEntry] = 0
           /\ \A i \in DOMAIN h : /\ TimeOf(h)[Call(i)] = h[i].call
                                  /\ TimeOf(h)[Ret(i)] = h[i].return
           /\ \A e \in Nodes(h) : TimeOf(h)[e] \in Nat
           /\ \A e \in Entries(h) : 0 < TimeOf(h)[e]
           /\ \A e, f \in Nodes(h) : TimeOf(h)[e] = TimeOf(h)[f] => e = f
<1>1. TimeOf(h)[HeadEntry] = 0
  BY EntryKinds DEF TimeOf, Nodes
<1>2. ASSUME NEW i \in DOMAIN h
      PROVE  TimeOf(h)[Call(i)] = h[i].call /\ TimeOf(h)[Ret(i)] = h[i].return
  <2>1. Call(i) \in Nodes(h) /\ Ret(i) \in Nodes(h)
    BY EntryKinds DEF Nodes
  <2>2. Call(i).id = i /\ Ret(i).id = i /\ Call(i).kind = "call" /\ Ret(i).kind = "return"
    BY EntryKinds
  <2> QED
    BY <2>1, <2>2 DEF TimeOf
<1>3. \A i \in DOMAIN h : h[i].call \in Nat /\ h[i].return \in Nat /\ 0 < h[i].call /\ 0 < h[i].return
  <2> SUFFICES ASSUME NEW i \in DOMAIN h
               PROVE  h[i].call \in Nat /\ h[i].return \in Nat /\ 0 < h[i].call /\ 0 < h[i].return
    OBVIOUS
  <2>1. PICK c, r : c = h[i].call /\ r = h[i].return
    OBVIOUS
  <2>2. c \in Nat \ {0} /\ r \in Nat /\ c < r
    BY <2>1 DEF WellTimed
  <2> QED
    BY <2>1, <2>2
<1>4. ASSUME NEW e \in Entries(h)
      PROVE  \E i \in DOMAIN h : \/ e = Call(i) /\ TimeOf(h)[e] = h[i].call
                                 \/ e = Ret(i) /\ TimeOf(h)[e] = h[i].return
  BY <1>2 DEF Entries
<1>5. \A e \in Entries(h) : TimeOf(h)[e] \in Nat /\ 0 < TimeOf(h)[e]
  BY <1>3, <1>4
<1>6. ASSUME NEW e \in Entries(h), NEW f \in Entries(h), TimeOf(h)[e] = TimeOf(h)[f]
      PROVE  e = f
  <2>1. PICK i \in DOMAIN h : \/ e = Call(i) /\ TimeOf(h)[e] = h[i].call
                              \/ e = Ret(i) /\ TimeOf(h)[e] = h[i].return
    BY <1>4
  <2>2. PICK j \in DOMAIN h : \/ f = Call(j) /\ TimeOf(h)[f] = h[j].call
                              \/ f = Ret(j) /\ TimeOf(h)[f] = h[j].return
    BY <1>4
  <2>3. /\ h[i].call # h[j].return /\ h[j].call # h[i].return
        /\ i # j => h[i].call # h[j].call /\ h[i].return # h[j].return
    BY DEF WellTimed
  <2> QED
    BY <1>6, <2>1, <2>2, <2>3, Zenon
<1>7. ASSUME NEW e \in Nodes(h), NEW f \in Nodes(h), TimeOf(h)[e] = TimeOf(h)[f]
      PROVE  e = f
  <2>1. \A x \in Entries(h) : TimeOf(h)[x] # 0
    BY <1>5
  <2> QED
    BY <1>1, <1>6, <1>7, <2>1, Zenon DEF Nodes
<1>8. \A e \in Nodes(h) : TimeOf(h)[e] \in Nat
  BY <1>1, <1>5 DEF Nodes
<1> QED
  BY <1>1, <1>2, <1>5, <1>7, <1>8

\* A history has finitely many entries.
LEMMA EntriesFinite ==
    ASSUME NEW h, WellTimed(h)
    PROVE  IsFiniteSet(Entries(h)) /\ IsFiniteSet(DOMAIN h)
<1>1. IsFiniteSet(DOMAIN h)
  BY FS_Interval DEF WellTimed
<1> DEFINE C == {Call(i) : i \in DOMAIN h}
           R == {Ret(i) : i \in DOMAIN h}
<1>2. IsFiniteSet(C)
  <2>1. PICK f : f = [i \in DOMAIN h |-> Call(i)]
    OBVIOUS
  <2>2. f \in Surjection(DOMAIN h, C)
    BY <2>1 DEF Surjection
  <2> QED
    BY <1>1, <2>2, FS_Surjection
<1>3. IsFiniteSet(R)
  <2>1. PICK f : f = [i \in DOMAIN h |-> Ret(i)]
    OBVIOUS
  <2>2. f \in Surjection(DOMAIN h, R)
    BY <2>1 DEF Surjection
  <2> QED
    BY <1>1, <2>2, FS_Surjection
<1> QED
  BY <1>1, <1>2, <1>3, FS_Union DEF Entries

-----------------------------------------------------------------------------
\* The states of a run satisfy their recursive definition.
LEMMA RunDefined ==
    ASSUME NEW h, NEW state, NEW seq, Len(seq) \in Nat
    PROVE  /\ Run(h, state, seq)[0] = state
           /\ \A k \in 1 .. Len(seq) :
                 Run(h, state, seq)[k] = StepState(Run(h, state, seq)[k - 1], h[seq[k]])
<1> DEFINE n == Len(seq)
           runs(f, m) == f = [k \in 0 .. m |-> IF k = 0 THEN state ELSE StepState(f[k - 1], h[seq[k]])]
           S == {m \in Nat : \E f : runs(f, m)}
<1>1. 0 \in S
  <2>1. PICK f : f = [k \in 0 .. 0 |-> state]
    OBVIOUS
  <2>2. f = [k \in 0 .. 0 |-> IF k = 0 THEN state ELSE StepState(f[k - 1], h[seq[k]])]
    BY <2>1
  <2> QED
    BY <2>2
<1>2. ASSUME NEW m \in S
      PROVE  m + 1 \in S
  <2>1. PICK f : runs(f, m)
    OBVIOUS
  <2>2. m \in Nat
    OBVIOUS
  <2>3. PICK g : g = [k \in 0 .. m + 1 |-> IF k = m + 1 THEN StepState(f[m], h[seq[m + 1]]) ELSE f[k]]
    OBVIOUS
  <2>4. ASSUME NEW k \in 0 .. m + 1
        PROVE  g[k] = IF k = 0 THEN state ELSE StepState(g[k - 1], h[seq[k]])
    <3>1. CASE k = 0
      <4>1. f[0] = state
        BY <2>1, <2>2
      <4>2. 0 \in 0 .. m + 1 /\ 0 # m + 1
        BY <2>2
      <4> QED
        BY <2>3, <3>1, <4>1, <4>2
    <3>2. CASE k \in 1 .. m
      <4>1. f[k] = StepState(f[k - 1], h[seq[k]])
        BY <2>1, <2>2, <3>2
      <4>2. /\ k \in 0 .. m + 1 /\ k # m + 1 /\ k # 0
            /\ k - 1 \in 0 .. m + 1 /\ k - 1 # m + 1
        BY <2>2, <3>2
      <4>3. g[k] = f[k] /\ g[k - 1] = f[k - 1]
        BY <2>3, <4>2
      <4> QED
        BY <4>1, <4>2, <4>3
    <3>3. CASE k = m + 1
      <4>1. m \in 0 .. m + 1 /\ m # m + 1 /\ m + 1 \in 0 .. m + 1 /\ m + 1 - 1 = m /\ m + 1 # 0
        BY <2>2
      <4>2. g[m] = f[m] /\ g[m + 1] = StepState(f[m], h[seq[m + 1]])
        BY <2>3, <4>1
      <4> QED
        BY <3>3, <4>1, <4>2
    <3> QED
      BY <2>2, <3>1, <3>2, <3>3
  <2>5. g = [k \in 0 .. m + 1 |-> g[k]]
    BY <2>3
  <2>6. runs(g, m + 1)
    BY <2>4, <2>5
  <2> QED
    BY <2>2, <2>6
<1>3. n \in S
  <2> HIDE DEF S
  <2>1. S \in SUBSET Nat
    BY DEF S
  <2>2. S = Nat
    BY <1>1, <1>2, <2>1, Induction
  <2> QED
    BY <2>2
<1>4. PICK f : f = Run(h, state, seq)
  OBVIOUS
<1>5. runs(f, n)
  <2>1. \E g : runs(g, n)
    BY <1>3
  <2>2. f = CHOOSE g : runs(g, n)
    BY <1>4 DEF Run
  <2> QED
    BY <2>1, <2>2, Zenon
<1>6. \A k \in 0 .. n : f[k] = IF k = 0 THEN state ELSE StepState(f[k - 1], h[seq[k]])
  BY <1>5
<1> QED
  BY <1>4, <1>6

\* A run depends on the operations it has passed only.
LEMMA RunPrefix ==
    ASSUME NEW h, NEW state, NEW a, NEW b, Len(a) \in Nat, Len(b) \in Nat,
           NEW n \in Nat, n <= Len(a), n <= Len(b), \A k \in 1 .. n : a[k] = b[k]
    PROVE  \A k \in 0 .. n : Run(h, state, a)[k] = Run(h, state, b)[k]
<1> DEFINE S == {m \in Nat : m <= n => Run(h, state, a)[m] = Run(h, state, b)[m]}
<1>1. 0 \in S
  BY RunDefined
<1>2. ASSUME NEW m \in S
      PROVE  m + 1 \in S
  <2> SUFFICES ASSUME m + 1 <= n
               PROVE  Run(h, state, a)[m + 1] = Run(h, state, b)[m + 1]
    OBVIOUS
  <2>1. /\ m \in Nat /\ m + 1 \in 1 .. n /\ m + 1 \in 1 .. Len(a) /\ m + 1 \in 1 .. Len(b)
        /\ m + 1 - 1 = m /\ m <= n
    OBVIOUS
  <2>2. Run(h, state, a)[m] = Run(h, state, b)[m] /\ a[m + 1] = b[m + 1]
    BY <2>1
  <2>3. /\ Run(h, state, a)[m + 1] = StepState(Run(h, state, a)[m + 1 - 1], h[a[m + 1]])
        /\ Run(h, state, b)[m + 1] = StepState(Run(h, state, b)[m + 1 - 1], h[b[m + 1]])
    BY <2>1, RunDefined
  <2> QED
    BY <2>1, <2>2, <2>3
<1>3. S = Nat
  <2> HIDE DEF S
  <2>1. S \in SUBSET Nat
    BY DEF S
  <2> QED
    BY <1>1, <1>2, <2>1, Induction
<1> QED
  BY <1>3

\* The rest of a run starts from the state after its first operation.
LEMMA RunRest ==
    ASSUME NEW h, NEW state, NEW a, NEW b, Len(b) \in Nat, Len(a) = Len(b) + 1,
           \A k \in 1 .. Len(b) : b[k] = a[k + 1], NEW next, next = StepState(state, h[a[1]])
    PROVE  \A k \in 0 .. Len(b) : Run(h, next, b)[k] = Run(h, state, a)[k + 1]
<1> DEFINE n == Len(b)
           S == {m \in Nat : m <= n => Run(h, next, b)[m] = Run(h, state, a)[m + 1]}
<1>1. Len(a) \in Nat /\ Len(b) \in Nat
  OBVIOUS
<1>2. \A k \in 1 .. Len(a) : Run(h, state, a)[k] = StepState(Run(h, state, a)[k - 1], h[a[k]])
  BY <1>1, RunDefined
<1>3. \A k \in 1 .. Len(b) : Run(h, next, b)[k] = StepState(Run(h, next, b)[k - 1], h[b[k]])
  BY ONLY <1>1, RunDefined
<1>4. 0 \in S
  <2>1. Run(h, next, b)[0] = next
    BY <1>1, RunDefined
  <2>2. 1 \in 1 .. Len(a) /\ 1 - 1 = 0 /\ 0 + 1 = 1
    OBVIOUS
  <2>3. Run(h, state, a)[1] = StepState(Run(h, state, a)[1 - 1], h[a[1]]) /\ Run(h, state, a)[0] = state
    BY <1>1, <2>2, RunDefined
  <2> QED
    BY <2>1, <2>2, <2>3
<1>5. ASSUME NEW m \in S
      PROVE  m + 1 \in S
  <2> SUFFICES ASSUME m + 1 <= n
               PROVE  Run(h, next, b)[m + 1] = Run(h, state, a)[m + 1 + 1]
    OBVIOUS
  <2>1. /\ m \in Nat /\ m + 1 \in 1 .. n /\ m + 1 + 1 \in 1 .. Len(a) /\ m + 1 \in 1 .. Len(b)
        /\ m + 1 - 1 = m /\ m + 1 + 1 - 1 = m + 1 /\ m <= n
    OBVIOUS
  <2>2. Run(h, next, b)[m] = Run(h, state, a)[m + 1] /\ b[m + 1] = a[m + 1 + 1]
    BY <2>1
  <2>3. Run(h, next, b)[m + 1] = StepState(Run(h, next, b)[m + 1 - 1], h[b[m + 1]])
    BY ONLY <1>3, <2>1
  <2>4. PICK j \in 1 .. Len(a) : j = m + 1 + 1
    BY <2>1
  <2>5. Run(h, state, a)[j] = StepState(Run(h, state, a)[j - 1], h[a[j]])
    BY <1>2, Zenon
  <2> QED
    BY <2>1, <2>2, <2>3, <2>4, <2>5
<1>6. S = Nat
  <2> HIDE DEF S
  <2>1. S \in SUBSET Nat
    BY DEF S
  <2> QED
    BY <1>4, <1>5, <2>1, Induction
<1> QED
  BY <1>6

-----------------------------------------------------------------------------
\* What comes next, and what came before, is one entry.
LEMMA FollowsOnce ==
    ASSUME NEW h, WellTimed(h), NEW left \in SUBSET Nodes(h), NEW a, NEW b, NEW c, b # Nil
    PROVE  /\ Follows(h, left, a, b) /\ Follows(h, left, a, c) => b = c
           /\ Follows(h, left, a, b) /\ Follows(h, left, c, b) => a = c
<1> DEFINE T == TimeOf(h)
<1>1. \A x \in left : T[x] \in Nat
  BY EntryTimes
<1>2. \A x, y \in left : T[x] = T[y] => x = y
  BY EntryTimes
<1>3. ASSUME Follows(h, left, a, b), Follows(h, left, a, c)
      PROVE  b = c
  <2>1. a \in left /\ b \in left /\ T[a] < T[b]
    BY <1>3 DEF Follows
  <2>2. c # Nil /\ T[c] <= T[b]
    BY <1>3, <2>1 DEF Follows
  <2>3. c \in left /\ T[a] < T[c]
    BY <1>3, <2>2 DEF Follows
  <2>4. T[b] <= T[c]
    BY <1>3, <2>3 DEF Follows
  <2>5. T[b] = T[c]
    BY <1>1, <2>1, <2>2, <2>3, <2>4
  <2> QED
    BY <1>2, <2>1, <2>3, <2>5
<1>4. ASSUME Follows(h, left, a, b), Follows(h, left, c, b)
      PROVE  a = c
  <2>1. a \in left /\ b \in left /\ c \in left /\ T[a] < T[b] /\ T[c] < T[b]
    BY <1>4 DEF Follows
  <2>2. T[a] < T[c] => T[b] <= T[c]
    BY <1>4, <2>1 DEF Follows
  <2>3. T[c] < T[a] => T[b] <= T[a]
    BY <1>4, <2>1 DEF Follows
  <2>4. T[a] = T[c]
    BY <1>1, <2>1, <2>2, <2>3
  <2> QED
    BY <1>2, <2>1, <2>4
<1> QED
  BY <1>3, <1>4

\* Neighbours stay neighbours when another entry is taken out.
LEMMA FollowsWithout ==
    ASSUME NEW h, NEW left, NEW a, NEW b, NEW e, a # e, b # e, Follows(h, left, a, b)
    PROVE  Follows(h, left \ {e}, a, b)
BY DEF Follows

\* The neighbours of an entry are neighbours when it is taken out.
LEMMA FollowsAcross ==
    ASSUME NEW h, WellTimed(h), NEW left \in SUBSET Nodes(h), NEW p, NEW e, NEW n, e # Nil,
           Follows(h, left, p, e), Follows(h, left, e, n)
    PROVE  Follows(h, left \ {e}, p, n)
<1> DEFINE T == TimeOf(h)
<1>1. \A x \in left : T[x] \in Nat
  BY EntryTimes
<1>2. \A x, y \in left : T[x] = T[y] => x = y
  BY EntryTimes
<1>3. p \in left /\ e \in left /\ T[p] < T[e]
  BY DEF Follows
<1>4. p \in left \ {e}
  BY <1>1, <1>3
<1>5. n # Nil => n \in left /\ T[e] < T[n]
  BY DEF Follows
<1>6. n # Nil => n \in left \ {e} /\ T[p] < T[n]
  BY <1>1, <1>3, <1>5
<1>7. ASSUME NEW c \in left \ {e}, T[p] < T[c]
      PROVE  n # Nil /\ T[n] <= T[c]
  <2>1. T[e] <= T[c]
    BY <1>7 DEF Follows
  <2>2. T[e] < T[c]
    BY <1>1, <1>2, <1>3, <2>1
  <2> QED
    BY <2>2 DEF Follows
<1> QED
  BY <1>4, <1>6, <1>7 DEF Follows

(* The neighbours of e point at each other ...                               *)
Unlinked(h, next, prev, e, next2, prev2) ==
    \A x \in Nodes(h) :
        /\ next2[x] = IF x = prev[e] THEN next[e] ELSE next[x]
        /\ prev2[x] = IF next[e] # Nil /\ x = next[e] THEN prev[e] ELSE prev[x]

(* ... or at e again.                                                        *)
Relinked(h, next, prev, e, next2, prev2) ==
    \A x \in Nodes(h) :
        /\ next2[x] = IF x = prev[e] THEN e ELSE next[x]
        /\ prev2[x] = IF next[e] # Nil /\ x = next[e] THEN e ELSE prev[x]

(* Only entries of left have been changed.                                   *)
Untouched(h, left, next, prev, next2, prev2) ==
    \A n \in Nodes(h) : n \notin left => next2[n] = next[n] /\ prev2[n] = prev[n]

\* One half of lift: an entry is taken out of the list and keeps its pointers.
LEMMA TakeOut ==
    ASSUME NEW h, WellTimed(h), NEW left \in SUBSET Nodes(h), NEW next, NEW prev,
           Linked(h, left, next, prev), NEW e \in left, e # HeadEntry,
           NEW next2, NEW prev2,
           Unlinked(h, next, prev, e, next2, prev2)
    PROVE  /\ Linked(h, left \ {e}, next2, prev2)
           /\ Untouched(h, left \ {e}, next, prev, next2, prev2)
<1>1. PICK p, n : p = prev[e] /\ n = next[e]
  OBVIOUS
<1>2. Follows(h, left, p, e) /\ Follows(h, left, e, n) /\ e # Nil
  BY <1>1, NilNoEntry DEF Linked
<1>3. Follows(h, left \ {e}, p, n)
  BY <1>2, FollowsAcross
<1>4. p \in left \ {e} /\ (n # Nil => n \in left \ {e})
  BY <1>3 DEF Follows
<1>6. \A x \in Nodes(h) : /\ next2[x] = IF x = p THEN n ELSE next[x]
                          /\ prev2[x] = IF n # Nil /\ x = n THEN p ELSE prev[x]
  BY <1>1 DEF Unlinked
<1>7. ASSUME NEW a \in left \ {e}
      PROVE  Follows(h, left \ {e}, a, next2[a])
  <2>1. CASE a = p
    BY <1>3, <1>6, <2>1
  <2>2. CASE a # p
    <3>1. Follows(h, left, a, next[a])
      BY DEF Linked
    <3>2. next[a] # e
      BY <1>2, <2>2, <3>1, FollowsOnce
    <3> QED
      BY <1>6, <2>2, <3>1, <3>2, FollowsWithout
  <2> QED
    BY <2>1, <2>2
<1>8. ASSUME NEW b \in left \ {e}, b # HeadEntry
      PROVE  Follows(h, left \ {e}, prev2[b], b)
  <2>0. b # Nil
    BY NilNoEntry
  <2>1. CASE b = n
    BY <1>3, <1>6, <2>0, <2>1
  <2>2. CASE b # n
    <3>1. Follows(h, left, prev[b], b)
      BY <1>8 DEF Linked
    <3>2. prev[b] # e
      BY <1>2, <2>0, <2>2, <3>1, FollowsOnce
    <3> QED
      BY <1>6, <2>2, <3>1, <3>2, FollowsWithout
  <2> QED
    BY <2>1, <2>2
<1>9. Linked(h, left \ {e}, next2, prev2)
  BY <1>7, <1>8 DEF Linked
<1> QED
  BY <1>4, <1>6, <1>9 DEF Untouched

\* One half of unlift: an entry goes back between the neighbours it remembers.
LEMMA PutBack ==
    ASSUME NEW h, WellTimed(h), NEW left \in SUBSET Nodes(h), NEW next, NEW prev,
           NEW e \in left, e # HeadEntry,
           Linked(h, left \ {e}, next, prev),
           Follows(h, left, prev[e], e), Follows(h, left, e, next[e]),
           NEW next2, NEW prev2,
           Relinked(h, next, prev, e, next2, prev2)
    PROVE  /\ Linked(h, left, next2, prev2)
           /\ Untouched(h, left \ {e}, next, prev, next2, prev2)
<1>1. PICK p, n : p = prev[e] /\ n = next[e]
  OBVIOUS
<1>2. Follows(h, left, p, e) /\ Follows(h, left, e, n) /\ e # Nil
  BY <1>1, NilNoEntry
<1>3. Follows(h, left \ {e}, p, n)
  BY <1>2, FollowsAcross
<1>4. p \in left \ {e} /\ (n # Nil => n \in left \ {e})
  BY <1>3 DEF Follows
<1>6. \A x \in Nodes(h) : /\ next2[x] = IF x = p THEN e ELSE next[x]
                          /\ prev2[x] = IF n # Nil /\ x = n THEN e ELSE prev[x]
  BY <1>1 DEF Relinked
<1> DEFINE T == TimeOf(h)
<1>0. \A x \in left : T[x] \in Nat
  BY EntryTimes
<1>7. ASSUME NEW a, NEW b, a # p, b # n \/ b = Nil,
             Follows(h, left \ {e}, a, b)
      PROVE  Follows(h, left, a, b)
  <2>1. a \in left /\ a # e /\ T[a] \in Nat /\ T[e] \in Nat /\ T[p] \in Nat /\ T[p] < T[e]
    BY <1>2, <1>7, <1>0 DEF Follows
  <2>2. b # Nil => b \in left /\ b # e /\ T[a] < T[b] /\ T[b] \in Nat
    BY <1>7, <1>0 DEF Follows
  <2>3. ASSUME NEW c \in left, T[a] < T[c]
        PROVE  b # Nil /\ T[b] <= T[c]
    <3>1. CASE c # e
      BY <1>7, <2>3, <3>1 DEF Follows
    <3>2. CASE c = e
      <4>1. T[a] <= T[p]
        <5> SUFFICES ASSUME T[p] < T[a]
                     PROVE  FALSE
          BY <2>1
        <5>1. T[e] <= T[a]
          BY <1>2, <2>1 DEF Follows
        <5> QED
          BY <2>1, <2>3, <3>2, <5>1
      <4>2. T[a] # T[p]
        BY <1>4, <1>7, <2>1, EntryTimes
      <4>3. T[a] < T[p]
        BY <2>1, <4>1, <4>2
      <4>4. b # Nil /\ T[b] <= T[p]
        BY <1>4, <1>7, <4>3 DEF Follows
      <4> QED
        BY <2>1, <2>2, <3>2, <4>4
    <3> QED
      BY <3>1, <3>2
  <2> QED
    BY <2>1, <2>2, <2>3 DEF Follows
<1>8. ASSUME NEW a \in left
      PROVE  Follows(h, left, a, next2[a])
  <2>1. CASE a = p
    BY <1>2, <1>6, <2>1
  <2>2. CASE a = e
    BY <1>1, <1>2, <1>4, <1>6, <2>2
  <2>3. CASE a # p /\ a # e
    <3>1. Follows(h, left \ {e}, a, next[a])
      BY <2>3 DEF Linked
    <3>2. next[a] # Nil => next[a] # n
      BY <1>3, <2>3, <3>1, FollowsOnce
    <3>3. Follows(h, left, a, next[a])
      BY <1>7, <2>3, <3>1, <3>2
    <3> QED
      BY <1>6, <2>3, <3>3
  <2> QED
    BY <2>1, <2>2, <2>3
<1>9. ASSUME NEW b \in left, b # HeadEntry
      PROVE  Follows(h, left, prev2[b], b)
  <2>0. b # Nil
    BY NilNoEntry
  <2>1. CASE b = n
    BY <1>2, <1>6, <2>0, <2>1
  <2>2. CASE b = e
    BY <1>1, <1>2, <1>4, <1>6, <2>2
  <2>3. CASE b # n /\ b # e
    <3>1. Follows(h, left \ {e}, prev[b], b)
      BY <1>9, <2>3 DEF Linked
    <3>2. prev[b] # p
      BY <1>3, <2>0, <2>3, <3>1, FollowsOnce
    <3>3. Follows(h, left, prev[b], b)
      BY <1>7, <1>9, <2>3, <3>1, <3>2
    <3> QED
      BY <1>6, <2>3, <3>3
  <2> QED
    BY <2>1, <2>2, <2>3
<1>10. Linked(h, left, next2, prev2)
  BY <1>8, <1>9 DEF Linked
<1> QED
  BY <1>4, <1>6, <1>10 DEF Untouched

\* The entries of a new search, in order behind the head.
LEMMA NewList ==
    ASSUME NEW h, WellTimed(h), NEW list, list = <<HeadEntry>> \o makeEntries(h)
    PROVE  /\ Len(list) \in Nat /\ 1 <= Len(list)
           /\ list \in [1 .. Len(list) -> Nodes(h)]
           /\ list[1] = HeadEntry
           /\ \A j, k \in 1 .. Len(list) : j < k => TimeOf(h)[list[j]] < TimeOf(h)[list[k]]
           /\ \A e \in Nodes(h) : \E k \in 1 .. Len(list) : list[k] = e
<1> DEFINE T == TimeOf(h)
           n == Cardinality(Entries(h))
<1>1. PICK q : q = makeEntries(h)
  OBVIOUS
<1>2. /\ \A e \in Entries(h) : T[e] \in Nat /\ 0 < T[e]
      /\ \A e, f \in Entries(h) : T[e] = T[f] => e = f
      /\ T[HeadEntry] = 0
  BY EntryTimes DEF Nodes
<1>3. /\ n \in Nat /\ q \in [1 .. n -> Entries(h)]
      /\ \A j, k \in 1 .. n : j < k => T[q[j]] < T[q[k]]
      /\ \A e \in Entries(h) : \E k \in 1 .. n : q[k] = e
  BY <1>1, <1>2, InOrderSorted, EntriesFinite DEF makeEntries
<1>4. q \in Seq(Nodes(h)) /\ Len(q) = n /\ <<HeadEntry>> \in Seq(Nodes(h)) /\ Len(<<HeadEntry>>) = 1
  <2>1. q \in [1 .. n -> Nodes(h)]
    BY <1>3 DEF Nodes
  <2>2. HeadEntry \in Nodes(h)
    BY DEF Nodes
  <2> QED
    BY <1>3, <2>1, <2>2
<1>5. /\ Len(list) = n + 1
      /\ \A k \in 1 .. n + 1 : list[k] = IF k = 1 THEN HeadEntry ELSE q[k - 1]
      /\ list \in Seq(Nodes(h))
  BY <1>1, <1>3, <1>4
<1>6. list \in [1 .. Len(list) -> Nodes(h)]
  BY <1>5, LenProperties
<1>7. ASSUME NEW j \in 1 .. n + 1, NEW k \in 1 .. n + 1, j < k
      PROVE  T[list[j]] < T[list[k]]
  <2>1. k - 1 \in 1 .. n /\ list[k] = q[k - 1] /\ q[k - 1] \in Entries(h)
    BY <1>3, <1>5, <1>7
  <2>2. CASE j = 1
    BY <1>2, <1>5, <2>1, <2>2
  <2>3. CASE j # 1
    <3>1. j - 1 \in 1 .. n /\ j - 1 < k - 1
      BY <1>3, <1>7, <2>3
    <3>2. list[j] = q[j - 1]
      BY <1>5, <2>3
    <3> QED
      BY <1>3, <2>1, <3>1, <3>2
  <2> QED
    BY <2>2, <2>3
<1>8. ASSUME NEW e \in Nodes(h)
      PROVE  \E k \in 1 .. n + 1 : list[k] = e
  <2>1. CASE e = HeadEntry
    BY <1>3, <1>5, <2>1
  <2>2. CASE e # HeadEntry
    <3>1. PICK k \in 1 .. n : q[k] = e
      BY <1>3, <2>2 DEF Nodes
    <3>2. k + 1 \in 1 .. n + 1 /\ k + 1 # 1 /\ k + 1 - 1 = k
      BY <1>3
    <3>3. list[k + 1] = e
      BY <1>5, <3>1, <3>2
    <3> QED
      BY <3>2, <3>3
  <2> QED
    BY <2>1, <2>2
<1>9. Len(list) \in Nat /\ 1 <= Len(list) /\ list[1] = HeadEntry
  <2>1. 1 \in 1 .. n + 1 /\ n + 1 \in Nat /\ 1 <= n + 1
    BY <1>3
  <2> QED
    BY <1>5, <2>1
<1> QED
  BY <1>5, <1>6, <1>7, <1>8, <1>9, Zenon

\* makeLinkedEntries links all entries, the first one behind the head.
LEMMA NewLinked ==
    ASSUME NEW h, WellTimed(h)
    PROVE  /\ LinkNext(h) = [n \in Nodes(h) |-> LinkNext(h)[n]]
           /\ LinkPrev(h) = [n \in Nodes(h) |-> LinkPrev(h)[n]]
           /\ Linked(h, Nodes(h), LinkNext(h), LinkPrev(h))
<1> DEFINE T == TimeOf(h)
<1> DEFINE list == <<HeadEntry>> \o makeEntries(h)
           N == Len(list)
           place(e) == CHOOSE i \in DOMAIN list : list[i] = e
<1>1. LinkNext(h) = [x \in Nodes(h) |-> IF place(x) = N THEN Nil ELSE list[place(x) + 1]]
  BY Zenon DEF LinkNext
<1>2. LinkPrev(h) = [x \in Nodes(h) |-> IF place(x) = 1 THEN Nil ELSE list[place(x) - 1]]
  BY Zenon DEF LinkPrev
<1>3. /\ N \in Nat /\ 1 <= N /\ list \in [1 .. N -> Nodes(h)] /\ list[1] = HeadEntry
      /\ \A j, k \in 1 .. N : j < k => T[list[j]] < T[list[k]]
      /\ \A e \in Nodes(h) : \E k \in 1 .. N : list[k] = e
  BY NewList, Zenon
<1> HIDE DEF list, N
<1>4. \A e \in Nodes(h) : T[e] \in Nat
  BY EntryTimes
<1>5. ASSUME NEW e \in Nodes(h)
      PROVE  place(e) \in 1 .. N /\ list[place(e)] = e
  BY <1>3
<1> HIDE DEF place
<1>6. \A e \in Nodes(h) : /\ LinkNext(h)[e] = IF place(e) = N THEN Nil ELSE list[place(e) + 1]
                          /\ LinkPrev(h)[e] = IF place(e) = 1 THEN Nil ELSE list[place(e) - 1]
  BY <1>1, <1>2
<1>7. /\ LinkNext(h) = [n \in Nodes(h) |-> LinkNext(h)[n]]
      /\ LinkPrev(h) = [n \in Nodes(h) |-> LinkPrev(h)[n]]
  BY <1>1, <1>2
<1>8. ASSUME NEW k \in 1 .. N, k # N
      PROVE  Follows(h, Nodes(h), list[k], list[k + 1])
  <2>1. k + 1 \in 1 .. N /\ k < k + 1 /\ list[k] \in Nodes(h) /\ list[k + 1] \in Nodes(h)
    BY <1>3, <1>8
  <2>2. T[list[k]] < T[list[k + 1]] /\ list[k + 1] # Nil
    BY <1>3, <2>1, NilNoEntry
  <2>3. ASSUME NEW c \in Nodes(h), T[list[k]] < T[c]
        PROVE  T[list[k + 1]] <= T[c]
    <3>1. PICK j \in 1 .. N : list[j] = c
      BY <1>3
    <3>2. j # k /\ ~(j < k)
      BY <1>3, <1>4, <2>1, <2>3, <3>1
    <3>3. j = k + 1 \/ k + 1 < j
      BY <1>3, <3>2
    <3>4. T[list[k + 1]] = T[c] \/ T[list[k + 1]] < T[c]
      BY <1>3, <2>1, <3>1, <3>3
    <3> QED
      BY <1>4, <2>1, <3>4
  <2> QED
    BY <2>1, <2>2, <2>3 DEF Follows
<1>9. ASSUME NEW e \in Nodes(h)
      PROVE  Follows(h, Nodes(h), e, LinkNext(h)[e])
  <2>1. PICK k \in 1 .. N : k = place(e) /\ list[k] = e
    BY <1>5
  <2>2. CASE k # N
    BY <1>6, <1>8, <2>1, <2>2
  <2>3. CASE k = N
    <3>1. \A c \in Nodes(h) : ~(T[e] < T[c])
      <4> SUFFICES ASSUME NEW c \in Nodes(h), T[e] < T[c]
                   PROVE  FALSE
        OBVIOUS
      <4>1. PICK j \in 1 .. N : list[j] = c
        BY <1>3
      <4>2. j = k \/ j < k
        BY <1>3, <2>3
      <4>3. T[c] = T[e] \/ T[c] < T[e]
        BY <1>3, <2>1, <4>1, <4>2
      <4> QED
        BY <1>4, <4>3
    <3>2. LinkNext(h)[e] = Nil
      BY <1>6, <2>1, <2>3
    <3> QED
      BY <3>1, <3>2 DEF Follows
  <2> QED
    BY <2>2, <2>3
<1>10. ASSUME NEW e \in Nodes(h), e # HeadEntry
       PROVE  Follows(h, Nodes(h), LinkPrev(h)[e], e)
  <2>1. PICK k \in 1 .. N : k = place(e) /\ list[k] = e
    BY <1>5
  <2>2. k # 1
    BY <1>3, <1>10, <2>1
  <2>3. LinkPrev(h)[e] = list[k - 1]
    BY <1>6, <2>1, <2>2
  <2>4. k - 1 \in 1 .. N /\ k - 1 # N /\ k - 1 + 1 = k
    BY <1>3, <2>2
  <2>5. PICK j \in 1 .. N : j = k - 1 /\ j # N /\ j + 1 = k
    BY <2>4
  <2> QED
    BY <1>8, <2>1, <2>3, <2>5
<1> QED
  BY <1>7, <1>9, <1>10 DEF Linked

\* The first entry of a part that is not empty is its first call.
LEMMA FirstEntry ==
    ASSUME NEW h, WellTimed(h), Len(h) # 0
    PROVE  /\ makeEntries(h)[1] \in Entries(h)
           /\ \A e \in Entries(h) : TimeOf(h)[makeEntries(h)[1]] <= TimeOf(h)[e]
<1> DEFINE T == TimeOf(h)
           n == Cardinality(Entries(h))
<1>1. PICK q : q = makeEntries(h)
  OBVIOUS
<1>2. /\ \A e \in Entries(h) : T[e] \in Nat
      /\ \A e, f \in Entries(h) : T[e] = T[f] => e = f
  BY EntryTimes DEF Nodes
<1>3. /\ n \in Nat /\ q \in [1 .. n -> Entries(h)]
      /\ \A j, k \in 1 .. n : j < k => T[q[j]] < T[q[k]]
      /\ \A e \in Entries(h) : \E k \in 1 .. n : q[k] = e
  BY <1>1, <1>2, InOrderSorted, EntriesFinite DEF makeEntries
<1>4. 1 \in 1 .. n
  <2>1. 1 \in DOMAIN h
    BY DEF WellTimed
  <2>2. Call(1) \in Entries(h)
    BY <2>1, EntryKinds
  <2>3. PICK k \in 1 .. n : q[k] = Call(1)
    BY <1>3, <2>2
  <2> QED
    BY <1>3
<1>5. ASSUME NEW e \in Entries(h)
      PROVE  T[q[1]] <= T[e]
  <2>1. PICK k \in 1 .. n : q[k] = e
    BY <1>3
  <2>2. k = 1 \/ 1 < k
    BY <1>3
  <2>3. T[q[1]] = T[e] \/ T[q[1]] < T[e]
    BY <1>3, <1>4, <2>1, <2>2
  <2> QED
    BY <1>2, <1>3, <1>4, <2>3
<1> QED
  BY <1>1, <1>3, <1>4, <1>5

-----------------------------------------------------------------------------
\* The sequences of at most n elements.
LEMMA SeqOfMember ==
    ASSUME NEW S, NEW n \in Nat, NEW q
    PROVE  /\ q \in SeqOf(S, n) <=> \E m \in 0 .. n : q \in [1 .. m -> S]
           /\ \A m \in Nat : q \in [1 .. m -> S] =>
                 q \in Seq(S) /\ Len(q) = m /\ DOMAIN q = 1 .. m /\ \A k \in 1 .. m : q[k] \in S
<1>1. q \in SeqOf(S, n) <=> \E m \in 0 .. n : q \in [1 .. m -> S]
  BY DEF SeqOf
<1>2. ASSUME NEW m \in Nat, q \in [1 .. m -> S]
      PROVE  q \in Seq(S) /\ Len(q) = m /\ DOMAIN q = 1 .. m /\ \A k \in 1 .. m : q[k] \in S
  BY <1>2
<1> QED
  BY <1>1, <1>2

\* Without its first operation a continuation continues from behind it.
LEMMA ContinuesRest ==
    ASSUME NEW h, WellTimed(h), NEW done, NEW state,
           NEW seq \in SeqOf(DOMAIN h, Len(h)), Len(seq) # 0, Continues(h, done, state, seq)
    PROVE  /\ seq[1] \in DOMAIN h /\ seq[1] \notin done /\ StepOk(state, h[seq[1]])
           /\ \A id \in DOMAIN h : h[id].return < h[seq[1]].call => id \in done
           /\ \E rest \in SeqOf(DOMAIN h, Len(h)) :
                 /\ Len(seq) = Len(rest) + 1
                 /\ Len(rest) \in Nat
                 /\ ToSet(seq) = {seq[1]} \cup ToSet(rest)
                 /\ Continues(h, done \cup {seq[1]}, StepState(state, h[seq[1]]), rest)
<1> DEFINE D == DOMAIN h
<1>1. Len(h) \in Nat
  BY DEF WellTimed
<1>2. PICK m \in 0 .. Len(h) : seq \in [1 .. m -> D]
  BY <1>1, SeqOfMember
<1>3. m \in Nat /\ Len(seq) = m /\ DOMAIN seq = 1 .. m /\ m # 0 /\ 1 \in 1 .. m /\ m - 1 \in 0 .. Len(h)
  BY <1>1, <1>2, SeqOfMember
<1>4. PICK x \in D : x = seq[1]
  BY <1>2, <1>3
<1>5. Run(h, state, seq)[0] = state
  BY <1>3, RunDefined
<1>6. x \notin done /\ StepOk(state, h[x])
  BY <1>3, <1>4, <1>5 DEF Continues
<1>7. \A id \in D : h[id].return < h[x].call => id \in done
  BY <1>3, <1>4 DEF Continues
<1>8. PICK rest : rest = [k \in 1 .. m - 1 |-> seq[k + 1]]
  OBVIOUS
<1>9. rest \in [1 .. m - 1 -> D] /\ m - 1 \in Nat
  BY <1>2, <1>3, <1>8
<1>10. /\ rest \in SeqOf(D, Len(h)) /\ Len(rest) = m - 1 /\ DOMAIN rest = 1 .. m - 1
       /\ \A k \in 1 .. m - 1 : rest[k] = seq[k + 1]
  BY <1>1, <1>3, <1>8, <1>9, SeqOfMember
<1>11. ToSet(seq) = {x} \cup ToSet(rest)
  <2>1. \A k \in 1 .. m - 1 : k + 1 \in 1 .. m
    BY <1>3
  <2>2. \A k \in 1 .. m : k # 1 => k - 1 \in 1 .. m - 1 /\ k - 1 + 1 = k
    BY <1>3
  <2>3. \A k \in 1 .. m : k # 1 => seq[k] = rest[k - 1]
    BY <1>10, <2>2
  <2>4. \A id \in ToSet(rest) : id \in ToSet(seq)
    BY <1>3, <1>10, <2>1 DEF ToSet
  <2>5. x \in ToSet(seq)
    BY <1>3, <1>4 DEF ToSet
  <2>6. ASSUME NEW id \in ToSet(seq), id # x
        PROVE  id \in ToSet(rest)
    <3>1. PICK k \in 1 .. m : id = seq[k]
      BY <1>3 DEF ToSet
    <3>2. k # 1
      BY <1>4, <2>6, <3>1
    <3> QED
      BY <1>10, <2>2, <2>3, <3>1, <3>2 DEF ToSet
  <2> QED
    BY <2>4, <2>5, <2>6
<1>12. PICK next : next = StepState(state, h[x])
  OBVIOUS
<1>13. \A k \in 0 .. m - 1 : Run(h, next, rest)[k] = Run(h, state, seq)[k + 1]
  <2>1. Len(rest) \in Nat /\ Len(seq) = Len(rest) + 1
    BY <1>3, <1>9, <1>10
  <2>2. \A k \in 1 .. Len(rest) : rest[k] = seq[k + 1]
    BY <1>10
  <2>3. next = StepState(state, h[seq[1]])
    BY <1>4, <1>12
  <2>4. \A k \in 0 .. Len(rest) : Run(h, next, rest)[k] = Run(h, state, seq)[k + 1]
    BY ONLY <2>1, <2>2, <2>3, RunRest
  <2> QED
    BY <1>10, <2>4
<1>14. IsInjective(rest)
  <2> SUFFICES ASSUME NEW j \in 1 .. m - 1, NEW k \in 1 .. m - 1, rest[j] = rest[k]
               PROVE  j = k
    BY <1>10 DEF IsInjective
  <2>1. j + 1 \in 1 .. m /\ k + 1 \in 1 .. m
    BY <1>3
  <2>2. seq[j + 1] = seq[k + 1]
    BY <1>10
  <2>3. j + 1 = k + 1
    BY <1>3, <2>1, <2>2 DEF Continues, IsInjective
  <2> QED
    BY <2>3
<1>15. ASSUME NEW k \in 1 .. m - 1
       PROVE  /\ rest[k] \notin done \cup {x}
              /\ \A id \in D : h[id].return < h[rest[k]].call =>
                     id \in done \cup {x} \/ \E j \in 1 .. k - 1 : rest[j] = id
              /\ StepOk(Run(h, next, rest)[k - 1], h[rest[k]])
  <2>1. PICK l \in 1 .. m : l = k + 1
    BY <1>3
  <2>2. rest[k] = seq[l] /\ l # 1 /\ l - 1 = k
    BY <1>10, <2>1
  <2>3. /\ seq[l] \notin done
        /\ \A id \in D : h[id].return < h[seq[l]].call => id \in done \/ \E j \in 1 .. l - 1 : seq[j] = id
        /\ StepOk(Run(h, state, seq)[l - 1], h[seq[l]])
    BY <1>3 DEF Continues
  <2>4. seq[l] # x
    BY <1>3, <1>4, <2>2 DEF Continues, IsInjective
  <2>5. k - 1 \in 0 .. m - 1 /\ k - 1 + 1 = k
    BY <1>3
  <2>6. Run(h, next, rest)[k - 1] = Run(h, state, seq)[k]
    BY <1>13, <2>5
  <2>7. ASSUME NEW id \in D, h[id].return < h[rest[k]].call
        PROVE  id \in done \cup {x} \/ \E j \in 1 .. k - 1 : rest[j] = id
    <3>1. id \in done \/ \E j \in 1 .. k : seq[j] = id
      BY <2>2, <2>3, <2>7
    <3>2. ASSUME NEW j \in 1 .. k, seq[j] = id, j # 1
          PROVE  j - 1 \in 1 .. k - 1 /\ rest[j - 1] = id
      <4>1. PICK i \in 1 .. k - 1 : i = j - 1 /\ i \in 1 .. m - 1 /\ i + 1 = j
        BY <1>3, <3>2
      <4> QED
        BY <1>10, <3>2, <4>1
    <3> QED
      BY <1>4, <3>1, <3>2
  <2> QED
    BY <2>2, <2>3, <2>4, <2>6, <2>7
<1>16. Continues(h, done \cup {x}, next, rest)
  BY <1>10, <1>14, <1>15 DEF Continues
<1> QED
  BY <1>3, <1>4, <1>6, <1>7, <1>9, <1>10, <1>11, <1>16, <1>12

\* A partial linearization with one more operation.
LEMMA PartialLonger ==
    ASSUME NEW h, WellTimed(h), NEW n \in Nat, NEW q \in [1 .. n -> DOMAIN h], IsPartial(h, q),
           NEW x \in DOMAIN h, x \notin ToSet(q), StepOk(Run(h, InitState, q)[n], h[x]),
           \A id \in DOMAIN h : h[id].return < h[x].call => id \in ToSet(q),
           NEW r \in [1 .. n + 1 -> DOMAIN h], r[n + 1] = x, \A k \in 1 .. n : r[k] = q[k]
    PROVE  /\ IsPartial(h, r)
           /\ \A k \in 0 .. n : Run(h, InitState, r)[k] = Run(h, InitState, q)[k]
           /\ Run(h, InitState, r)[n + 1] = StepState(Run(h, InitState, q)[n], h[x])
<1>0. n + 1 \in Nat /\ n <= n + 1 /\ n \in 0 .. n /\ n + 1 \in 1 .. n + 1 /\ n + 1 - 1 = n
  OBVIOUS
<1>1. Len(q) = n /\ DOMAIN q = 1 .. n /\ Len(r) = n + 1 /\ DOMAIN r = 1 .. n + 1
  BY <1>0, SeqOfMember
<1>2. \A k \in 0 .. n : Run(h, InitState, r)[k] = Run(h, InitState, q)[k]
  BY <1>0, <1>1, RunPrefix
<1>3. Run(h, InitState, r)[n + 1] = StepState(Run(h, InitState, q)[n], h[x])
  BY <1>0, <1>1, <1>2, RunDefined
<1>4. \A k \in 1 .. n : q[k] # x
  BY <1>1 DEF ToSet
<1>5. IsInjective(r)
  <2> SUFFICES ASSUME NEW j \in 1 .. n + 1, NEW k \in 1 .. n + 1, r[j] = r[k]
               PROVE  j = k
    BY <1>1 DEF IsInjective
  <2>1. CASE j \in 1 .. n /\ k \in 1 .. n
    BY <1>1, <2>1 DEF IsPartial, Continues, IsInjective
  <2>2. CASE j = n + 1 /\ k \in 1 .. n
    BY <1>4, <2>2
  <2>3. CASE k = n + 1 /\ j \in 1 .. n
    BY <1>4, <2>3
  <2> QED
    BY <2>1, <2>2, <2>3
<1>6. ASSUME NEW k \in 1 .. n + 1
      PROVE  /\ r[k] \notin {}
             /\ \A id \in DOMAIN h : h[id].return < h[r[k]].call =>
                    id \in {} \/ \E j \in 1 .. k - 1 : r[j] = id
             /\ StepOk(Run(h, InitState, r)[k - 1], h[r[k]])
  <2>1. CASE k \in 1 .. n
    <3>1. /\ \A id \in DOMAIN h : h[id].return < h[q[k]].call => \E j \in 1 .. k - 1 : q[j] = id
          /\ StepOk(Run(h, InitState, q)[k - 1], h[q[k]])
      BY <1>1, <2>1 DEF IsPartial, Continues
    <3>2. k - 1 \in 0 .. n /\ \A j \in 1 .. k - 1 : j \in 1 .. n
      BY <2>1
    <3> QED
      BY <1>2, <2>1, <3>1, <3>2
  <2>2. CASE k = n + 1
    <3>1. \A id \in ToSet(q) : \E j \in 1 .. n : r[j] = id
      BY <1>1 DEF ToSet
    <3> QED
      BY <1>0, <1>2, <2>2, <3>1
  <2> QED
    BY <2>1, <2>2
<1>7. IsPartial(h, r)
  BY <1>1, <1>5, <1>6 DEF IsPartial, Continues
<1> QED
  BY <1>2, <1>3, <1>7

\* A partial linearization without its last operation.
LEMMA PartialShorter ==
    ASSUME NEW h, WellTimed(h), NEW n \in Nat, NEW q \in [1 .. n -> DOMAIN h],
           NEW r \in [1 .. n + 1 -> DOMAIN h], \A k \in 1 .. n : r[k] = q[k], IsPartial(h, r)
    PROVE  /\ IsPartial(h, q)
           /\ \A k \in 0 .. n : Run(h, InitState, q)[k] = Run(h, InitState, r)[k]
<1>0. n + 1 \in Nat /\ n <= n + 1 /\ \A k \in 1 .. n : k \in 1 .. n + 1 /\ k - 1 \in 0 .. n
  OBVIOUS
<1>1. Len(q) = n /\ DOMAIN q = 1 .. n /\ Len(r) = n + 1 /\ DOMAIN r = 1 .. n + 1
  BY <1>0, SeqOfMember
<1>2. \A k \in 0 .. n : Run(h, InitState, q)[k] = Run(h, InitState, r)[k]
  BY <1>0, <1>1, RunPrefix
<1>3. IsInjective(q)
  BY <1>0, <1>1 DEF IsPartial, Continues, IsInjective
<1>4. ASSUME NEW k \in 1 .. n
      PROVE  /\ q[k] \notin {}
             /\ \A id \in DOMAIN h : h[id].return < h[q[k]].call =>
                    id \in {} \/ \E j \in 1 .. k - 1 : q[j] = id
             /\ StepOk(Run(h, InitState, q)[k - 1], h[q[k]])
  <2>1. /\ \A id \in DOMAIN h : h[id].return < h[r[k]].call => \E j \in 1 .. k - 1 : r[j] = id
        /\ StepOk(Run(h, InitState, r)[k - 1], h[r[k]])
    BY <1>0, <1>1 DEF IsPartial, Continues
  <2>2. k - 1 \in 0 .. n /\ \A j \in 1 .. k - 1 : j \in 1 .. n
    BY <1>0
  <2> QED
    BY <1>2, <2>1, <2>2
<1>5. IsPartial(h, q)
  BY <1>1, <1>3, <1>4 DEF IsPartial, Continues
<1> QED
  BY <1>2, <1>5

\* A partial linearization is no longer than the history, and as long when it
\* has all operations.
LEMMA PartialLength ==
    ASSUME NEW h, WellTimed(h), NEW n \in Nat, NEW q \in [1 .. n -> DOMAIN h], IsPartial(h, q)
    PROVE  /\ q \in Partials(h)
           /\ n <= Len(h)
           /\ n = Len(h) <=> ToSet(q) = DOMAIN h
<1>1. PICK N \in Nat : N = Len(h) /\ DOMAIN h = 1 .. N
  BY DEF WellTimed
<1>2. /\ IsFiniteSet(1 .. N) /\ Cardinality(1 .. N) = N
      /\ IsFiniteSet(1 .. n) /\ Cardinality(1 .. n) = n
  <2>1. \A b \in Nat : IsFiniteSet(1 .. b) /\ Cardinality(1 .. b) = b
    BY FS_Interval
  <2> QED
    BY <2>1
<1>3. Len(q) = n /\ DOMAIN q = 1 .. n
  BY SeqOfMember
<1>4. q \in Injection(1 .. n, 1 .. N)
  BY <1>1, <1>3 DEF IsPartial, Continues, Injection, IsInjective
<1>5. n <= N /\ (n = N <=> q \in Surjection(1 .. n, 1 .. N))
  BY <1>2, <1>4, FS_Injection
<1>6. q \in Surjection(1 .. n, 1 .. N) <=> ToSet(q) = 1 .. N
  BY <1>1, <1>3 DEF Surjection, ToSet
<1>7. q \in SeqOf(DOMAIN h, N)
  <2>1. n \in 0 .. N
    BY <1>5
  <2> QED
    BY <2>1, SeqOfMember
<1> QED
  BY <1>1, <1>5, <1>6, <1>7 DEF Partials
=============================================================================
