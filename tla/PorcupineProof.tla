---------------------------- MODULE PorcupineProof ----------------------------
(* The linearizability checker is right, for every history, with and without *)
(* a time-out and partial linearizations: CheckerInv is inductive.           *)
EXTENDS PorcupineLemmas

\* What is left without some operations.
LEMMA LeftFacts ==
    ASSUME NEW h, NEW done
    PROVE  /\ Left(h, done) \in SUBSET Nodes(h)
           /\ HeadEntry \in Left(h, done)
           /\ \A id \in DOMAIN h : /\ Call(id) \in Left(h, done) <=> id \notin done
                                   /\ Ret(id) \in Left(h, done) <=> id \notin done
           /\ \A e \in Left(h, done) : e # HeadEntry => e \in Entries(h) /\ e.id \notin done
           /\ \A id \in DOMAIN h :
                 Left(h, done \cup {id}) = (Left(h, done) \ {Call(id)}) \ {Ret(id)}
<1>1. \A id \in DOMAIN h : /\ Call(id) \in Entries(h) /\ Ret(id) \in Entries(h)
                           /\ Call(id).id = id /\ Ret(id).id = id
                           /\ Call(id) # HeadEntry /\ Ret(id) # HeadEntry
  BY EntryKinds
<1>2. \A id \in DOMAIN h : /\ Call(id) \in Left(h, done) <=> id \notin done
                           /\ Ret(id) \in Left(h, done) <=> id \notin done
  BY <1>1 DEF Left
<1>3. ASSUME NEW id \in DOMAIN h
      PROVE  Left(h, done \cup {id}) = (Left(h, done) \ {Call(id)}) \ {Ret(id)}
  <2>1. \A e \in Entries(h) : e.id = id <=> e = Call(id) \/ e = Ret(id)
    BY <1>1, EntryKinds
  <2> QED
    BY <1>1, <2>1 DEF Left
<1> QED
  BY <1>2, <1>3 DEF Left, Nodes

\* The stack as a sequence of operations.
LEMMA StackFacts ==
    ASSUME NEW h, NEW s, StackReplayed(h, s)
    PROVE  /\ Len(s.calls) \in Nat /\ DOMAIN s.calls = 1 .. Len(s.calls)
           /\ Ids(s.calls) \in [1 .. Len(s.calls) -> DOMAIN h]
           /\ \A k \in 1 .. Len(s.calls) :
                 /\ s.calls[k].entry = Call(Ids(s.calls)[k])
                 /\ Ids(s.calls)[k] = s.calls[k].entry.id
           /\ s.linearized = ToSet(Ids(s.calls))
           /\ s.linearized \in SUBSET DOMAIN h
           /\ \A j, k \in 1 .. Len(s.calls) : Ids(s.calls)[j] = Ids(s.calls)[k] => j = k
<1>1. PICK n : n = Len(s.calls)
  OBVIOUS
<1>2. n \in Nat /\ DOMAIN s.calls = 1 .. n
  BY <1>1 DEF StackReplayed
<1>3. \A k \in 1 .. n : \E id \in DOMAIN h : s.calls[k].entry = Call(id)
  BY <1>2 DEF StackReplayed
<1>4. \A id : Call(id).id = id
  BY DEF Call
<1>5. PICK q : q = Ids(s.calls)
  OBVIOUS
<1>6. q = [k \in 1 .. n |-> s.calls[k].entry.id]
  BY <1>2, <1>5 DEF Ids
<1>7. \A k \in 1 .. n : q[k] \in DOMAIN h /\ s.calls[k].entry = Call(q[k]) /\ q[k] = s.calls[k].entry.id
  BY <1>3, <1>4, <1>6
<1>8. q \in [1 .. n -> DOMAIN h]
  BY <1>6, <1>7
<1>9. s.linearized = ToSet(q)
  <2>1. s.linearized = {s.calls[j].entry.id : j \in 1 .. n}
    BY <1>1 DEF StackReplayed, DoneAt
  <2> QED
    BY <1>6, <1>7, <2>1 DEF ToSet
<1>10. s.linearized \in SUBSET DOMAIN h
  BY <1>6, <1>7, <1>9 DEF ToSet
<1>11. \A j, k \in 1 .. n : q[j] = q[k] => j = k
  BY <1>5, <1>6 DEF StackReplayed, IsPartial, Continues, IsInjective
<1> QED
  BY <1>1, <1>2, <1>5, <1>7, <1>8, <1>9, <1>10, <1>11

\* The levels of two searches with the same calls up to there.
LEMMA SameLevels ==
    ASSUME NEW s, NEW t, NEW n \in Nat, \A k \in 1 .. n : t.calls[k].entry = s.calls[k].entry
    PROVE  \A k \in 0 .. n : DoneAt(t, k) = DoneAt(s, k)
<1> SUFFICES ASSUME NEW k \in 0 .. n
             PROVE  DoneAt(t, k) = DoneAt(s, k)
  OBVIOUS
<1>1. \A j \in 1 .. k : t.calls[j].entry = s.calls[j].entry
  OBVIOUS
<1> QED
  BY <1>1 DEF DoneAt

-----------------------------------------------------------------------------
\* lift takes a call and its return out of the list; both remember their
\* neighbours, and no entry outside the list is touched.
LEMMA Lifted ==
    ASSUME NEW h, WellTimed(h), NEW s, DOMAIN s = Locals, NEW done, NEW x \in DOMAIN h, x \notin done,
           DOMAIN s.next = Nodes(h), DOMAIN s.prev = Nodes(h),
           Linked(h, Left(h, done), s.next, s.prev), NEW next, NEW prev,
           next = lift(s, Call(x)).next, prev = lift(s, Call(x)).prev
    PROVE  /\ DOMAIN next = Nodes(h) /\ DOMAIN prev = Nodes(h)
           /\ Linked(h, Left(h, done \cup {x}), next, prev)
           /\ Untouched(h, Left(h, done), s.next, s.prev, next, prev)
           /\ Follows(h, Left(h, done), prev[Call(x)], Call(x))
           /\ Follows(h, Left(h, done), Call(x), next[Call(x)])
           /\ Follows(h, Left(h, done) \ {Call(x)}, prev[Ret(x)], Ret(x))
           /\ Follows(h, Left(h, done) \ {Call(x)}, Ret(x), next[Ret(x)])
<1>1. PICK left, e, m : left = Left(h, done) /\ e = Call(x) /\ m = Ret(x)
  OBVIOUS
<1>2. /\ left \in SUBSET Nodes(h) /\ e \in left /\ m \in left /\ e # HeadEntry /\ m # HeadEntry
      /\ m # e /\ e.id = x /\ Left(h, done \cup {x}) = (left \ {e}) \ {m}
      /\ left \ {e} \in SUBSET Nodes(h) /\ m \in left \ {e}
  <2>1. left \in SUBSET Nodes(h) /\ e \in left /\ m \in left
    BY <1>1, LeftFacts
  <2>2. Left(h, done \cup {x}) = (left \ {e}) \ {m}
    BY <1>1, LeftFacts
  <2>3. e # HeadEntry /\ m # HeadEntry /\ m # e /\ e.id = x
    BY <1>1, EntryKinds
  <2> QED
    BY <2>1, <2>2, <2>3
<1>3. PICK n0, p0 : n0 = s.next /\ p0 = s.prev
  OBVIOUS
<1>4. PICK n1, p1 : n1 = [n0 EXCEPT ![p0[e]] = n0[e]] /\ p1 = SetPrev(p0, n0[e], p0[e])
  OBVIOUS
<1>5. next = [n1 EXCEPT ![p1[m]] = n1[m]] /\ prev = SetPrev(p1, n1[m], p1[m])
  <2>1. PICK l : l = lift(s, e)
    OBVIOUS
  <2>2. l = [s EXCEPT !.next = [n1 EXCEPT ![p1[m]] = n1[m]], !.prev = SetPrev(p1, n1[m], p1[m])]
    BY <1>1, <1>2, <1>3, <1>4, <2>1, Zenon DEF lift
  <2>3. PICK nn, pp : nn = [n1 EXCEPT ![p1[m]] = n1[m]] /\ pp = SetPrev(p1, n1[m], p1[m])
    OBVIOUS
  <2>4. l = [s EXCEPT !.next = nn, !.prev = pp]
    BY <2>2, <2>3, Zenon
  <2>5. l.next = nn /\ l.prev = pp
    BY <2>4 DEF Locals
  <2> QED
    BY <1>1, <2>1, <2>3, <2>5
<1>6. DOMAIN n0 = Nodes(h) /\ DOMAIN p0 = Nodes(h) /\ Linked(h, left, n0, p0)
  BY <1>1, <1>3
<1>7. /\ Linked(h, left \ {e}, n1, p1)
      /\ Untouched(h, left \ {e}, n0, p0, n1, p1)
      /\ DOMAIN n1 = Nodes(h) /\ DOMAIN p1 = Nodes(h)
  <2>1. /\ \A y \in Nodes(h) : n1[y] = IF y = p0[e] THEN n0[e] ELSE n0[y]
        /\ DOMAIN n1 = Nodes(h)
    BY <1>4, <1>6
  <2>2. /\ \A y \in Nodes(h) : p1[y] = IF n0[e] # Nil /\ y = n0[e] THEN p0[e] ELSE p0[y]
        /\ DOMAIN p1 = Nodes(h)
    BY <1>4, <1>6 DEF SetPrev
  <2>3. Unlinked(h, n0, p0, e, n1, p1)
    BY <2>1, <2>2 DEF Unlinked
  <2>4. left \in SUBSET Nodes(h) /\ e \in left /\ e # HeadEntry /\ Linked(h, left, n0, p0)
    BY <1>2, <1>6
  <2>5. Linked(h, left \ {e}, n1, p1)
    BY ONLY WellTimed(h), <2>3, <2>4, TakeOut
  <2>6. Untouched(h, left \ {e}, n0, p0, n1, p1)
    BY ONLY WellTimed(h), <2>3, <2>4, TakeOut
  <2> QED
    BY <2>1, <2>2, <2>5, <2>6
<1>8. /\ Linked(h, (left \ {e}) \ {m}, next, prev)
      /\ Untouched(h, (left \ {e}) \ {m}, n1, p1, next, prev)
      /\ DOMAIN next = Nodes(h) /\ DOMAIN prev = Nodes(h)
  <2>1. /\ \A y \in Nodes(h) : next[y] = IF y = p1[m] THEN n1[m] ELSE n1[y]
        /\ DOMAIN next = Nodes(h)
    BY <1>5, <1>7
  <2>2. /\ \A y \in Nodes(h) : prev[y] = IF n1[m] # Nil /\ y = n1[m] THEN p1[m] ELSE p1[y]
        /\ DOMAIN prev = Nodes(h)
    BY <1>5, <1>7 DEF SetPrev
  <2>3. Unlinked(h, n1, p1, m, next, prev)
    BY <2>1, <2>2 DEF Unlinked
  <2>4. /\ left \ {e} \in SUBSET Nodes(h) /\ m \in left \ {e} /\ m # HeadEntry
        /\ Linked(h, left \ {e}, n1, p1)
    BY <1>2, <1>7
  <2>5. Linked(h, (left \ {e}) \ {m}, next, prev)
    BY ONLY WellTimed(h), <2>3, <2>4, TakeOut
  <2>6. Untouched(h, (left \ {e}) \ {m}, n1, p1, next, prev)
    BY ONLY WellTimed(h), <2>3, <2>4, TakeOut
  <2> QED
    BY <2>1, <2>2, <2>5, <2>6
<1>9. Untouched(h, left, n0, p0, next, prev)
  BY <1>7, <1>8 DEF Untouched
<1>10. Follows(h, left, p0[e], e) /\ Follows(h, left, e, n0[e])
  BY <1>2, <1>6 DEF Linked
<1>11. Follows(h, left \ {e}, p1[m], m) /\ Follows(h, left \ {e}, m, n1[m])
  BY <1>2, <1>7 DEF Linked
<1>12. next[e] = n0[e] /\ prev[e] = p0[e] /\ next[m] = n1[m] /\ prev[m] = p1[m]
  BY <1>2, <1>7, <1>8 DEF Untouched
<1> QED
  BY <1>1, <1>2, <1>3, <1>8, <1>9, <1>10, <1>11, <1>12, Zenon

\* unlift puts them back where they were.
LEMMA Unlifted ==
    ASSUME NEW h, WellTimed(h), NEW s, DOMAIN s = Locals, NEW done, NEW x \in DOMAIN h, x \notin done,
           DOMAIN s.next = Nodes(h), DOMAIN s.prev = Nodes(h),
           Linked(h, Left(h, done \cup {x}), s.next, s.prev),
           Between(h, Left(h, done), s, Call(x)),
           Between(h, Left(h, done) \ {Call(x)}, s, Ret(x)), NEW next, NEW prev,
           next = unlift(s, Call(x)).next, prev = unlift(s, Call(x)).prev
    PROVE  /\ DOMAIN next = Nodes(h) /\ DOMAIN prev = Nodes(h)
           /\ Linked(h, Left(h, done), next, prev)
           /\ Untouched(h, Left(h, done), s.next, s.prev, next, prev)
<1>1. PICK left, e, m : left = Left(h, done) /\ e = Call(x) /\ m = Ret(x)
  OBVIOUS
<1>2. /\ left \in SUBSET Nodes(h) /\ e \in left /\ m \in left /\ e # HeadEntry /\ m # HeadEntry
      /\ m # e /\ e.id = x /\ Left(h, done \cup {x}) = (left \ {e}) \ {m}
      /\ left \ {e} \in SUBSET Nodes(h) /\ m \in left \ {e}
  <2>1. left \in SUBSET Nodes(h) /\ e \in left /\ m \in left
    BY <1>1, LeftFacts
  <2>2. Left(h, done \cup {x}) = (left \ {e}) \ {m}
    BY <1>1, LeftFacts
  <2>3. e # HeadEntry /\ m # HeadEntry /\ m # e /\ e.id = x
    BY <1>1, EntryKinds
  <2> QED
    BY <2>1, <2>2, <2>3
<1>3. PICK n0, p0 : n0 = s.next /\ p0 = s.prev
  OBVIOUS
<1>4. PICK n1, p1 : n1 = [n0 EXCEPT ![p0[m]] = m] /\ p1 = SetPrev(p0, n0[m], m)
  OBVIOUS
<1>5. next = [n1 EXCEPT ![p1[e]] = e] /\ prev = SetPrev(p1, n1[e], e)
  <2>1. PICK l : l = unlift(s, e)
    OBVIOUS
  <2>2. l = [s EXCEPT !.next = [n1 EXCEPT ![p1[e]] = e], !.prev = SetPrev(p1, n1[e], e)]
    BY <1>1, <1>2, <1>3, <1>4, <2>1, Zenon DEF unlift
  <2>3. PICK nn, pp : nn = [n1 EXCEPT ![p1[e]] = e] /\ pp = SetPrev(p1, n1[e], e)
    OBVIOUS
  <2>4. l = [s EXCEPT !.next = nn, !.prev = pp]
    BY <2>2, <2>3, Zenon
  <2>5. l.next = nn /\ l.prev = pp
    BY <2>4 DEF Locals
  <2> QED
    BY <1>1, <2>1, <2>3, <2>5
<1>6. /\ DOMAIN n0 = Nodes(h) /\ DOMAIN p0 = Nodes(h)
      /\ Linked(h, (left \ {e}) \ {m}, n0, p0)
      /\ Follows(h, left, p0[e], e) /\ Follows(h, left, e, n0[e])
      /\ Follows(h, left \ {e}, p0[m], m) /\ Follows(h, left \ {e}, m, n0[m])
  BY <1>1, <1>2, <1>3 DEF Between
<1>7. /\ Linked(h, left \ {e}, n1, p1)
      /\ Untouched(h, (left \ {e}) \ {m}, n0, p0, n1, p1)
      /\ DOMAIN n1 = Nodes(h) /\ DOMAIN p1 = Nodes(h)
  <2>1. /\ \A y \in Nodes(h) : n1[y] = IF y = p0[m] THEN m ELSE n0[y]
        /\ DOMAIN n1 = Nodes(h)
    BY <1>4, <1>6
  <2>2. /\ \A y \in Nodes(h) : p1[y] = IF n0[m] # Nil /\ y = n0[m] THEN m ELSE p0[y]
        /\ DOMAIN p1 = Nodes(h)
    BY <1>4, <1>6 DEF SetPrev
  <2>3. Relinked(h, n0, p0, m, n1, p1)
    BY <2>1, <2>2 DEF Relinked
  <2>4. /\ left \ {e} \in SUBSET Nodes(h) /\ m \in left \ {e} /\ m # HeadEntry
        /\ Linked(h, (left \ {e}) \ {m}, n0, p0)
        /\ Follows(h, left \ {e}, p0[m], m) /\ Follows(h, left \ {e}, m, n0[m])
    BY <1>2, <1>6
  <2>5. Linked(h, left \ {e}, n1, p1)
    BY ONLY WellTimed(h), <2>3, <2>4, PutBack
  <2>6. Untouched(h, (left \ {e}) \ {m}, n0, p0, n1, p1)
    BY ONLY WellTimed(h), <2>3, <2>4, PutBack
  <2> QED
    BY <2>1, <2>2, <2>5, <2>6
<1>8. Follows(h, left, p1[e], e) /\ Follows(h, left, e, n1[e])
  BY <1>2, <1>6, <1>7 DEF Untouched
<1>9. /\ Linked(h, left, next, prev)
      /\ Untouched(h, left \ {e}, n1, p1, next, prev)
      /\ DOMAIN next = Nodes(h) /\ DOMAIN prev = Nodes(h)
  <2>1. /\ \A y \in Nodes(h) : next[y] = IF y = p1[e] THEN e ELSE n1[y]
        /\ DOMAIN next = Nodes(h)
    BY <1>5, <1>7
  <2>2. /\ \A y \in Nodes(h) : prev[y] = IF n1[e] # Nil /\ y = n1[e] THEN e ELSE p1[y]
        /\ DOMAIN prev = Nodes(h)
    BY <1>5, <1>7 DEF SetPrev
  <2>3. Relinked(h, n1, p1, e, next, prev)
    BY <2>1, <2>2 DEF Relinked
  <2>4. /\ left \in SUBSET Nodes(h) /\ e \in left /\ e # HeadEntry
        /\ Linked(h, left \ {e}, n1, p1)
        /\ Follows(h, left, p1[e], e) /\ Follows(h, left, e, n1[e])
    BY <1>2, <1>7, <1>8
  <2>5. Linked(h, left, next, prev)
    BY ONLY WellTimed(h), <2>3, <2>4, PutBack
  <2>6. Untouched(h, left \ {e}, n1, p1, next, prev)
    BY ONLY WellTimed(h), <2>3, <2>4, PutBack
  <2> QED
    BY <2>1, <2>2, <2>5, <2>6
<1>10. Untouched(h, left, n0, p0, next, prev)
  BY <1>7, <1>9 DEF Untouched
<1> QED
  BY <1>1, <1>3, <1>9, <1>10, Zenon

-----------------------------------------------------------------------------
(* A search t after one step of s: it has linearized the call it was at ...  *)
Pushed(h, s, t) ==
    LET n == Len(s.calls)
        x == s.entry.id
    IN  /\ DOMAIN t = Locals
        /\ t.calls \in Seq(ToSet(t.calls)) /\ Len(t.calls) = n + 1
        /\ \A k \in 1 .. n : t.calls[k] = s.calls[k]
        /\ t.calls[n + 1].entry = s.entry /\ t.calls[n + 1].state = s.state
        /\ t.next = lift(s, s.entry).next /\ t.prev = lift(s, s.entry).prev
        /\ t.entry = t.next[HeadEntry]
        /\ t.linearized = s.linearized \cup {x}
        /\ t.state = StepState(s.state, h[x])
        /\ t.cache = s.cache \cup {[linearized |-> t.linearized, state |-> t.state]}
        /\ t.longest = s.longest /\ t.returned = s.returned

(* ... it has undone its last call ...                                       *)
Popped(h, s, t, wanted) ==
    LET n   == Len(s.calls)
        top == s.calls[n]
    IN  /\ DOMAIN t = Locals
        /\ t.calls \in Seq(ToSet(t.calls)) /\ Len(t.calls) = n - 1
        /\ \A k \in 1 .. n - 1 : t.calls[k] = s.calls[k]
        /\ t.next = unlift(s, top.entry).next /\ t.prev = unlift(s, top.entry).prev
        /\ t.entry = t.next[top.entry]
        /\ t.linearized = s.linearized \ {top.entry.id}
        /\ t.state = top.state
        /\ t.cache = s.cache
        /\ DOMAIN t.longest = DOMAIN s.longest
        /\ \A id \in DOMAIN s.longest :
              t.longest[id] = IF /\ wanted /\ id \in s.linearized
                                 /\ s.longest[id] = Nil \/ Len(s.calls) > Len(s.longest[id])
                              THEN Ids(s.calls) ELSE s.longest[id]
        /\ t.returned = s.returned

(* ... or its stack, its list and its cache are as they were.                *)
Kept(s, t) ==
    /\ DOMAIN t = Locals
    /\ t.calls = s.calls /\ t.next = s.next /\ t.prev = s.prev
    /\ t.linearized = s.linearized /\ t.state = s.state /\ t.cache = s.cache

\* The levels after a call.
LEMMA PushedLevels ==
    ASSUME NEW h, NEW s, NEW t, StackReplayed(h, s), Pushed(h, s, t)
    PROVE  /\ \A k \in 0 .. Len(s.calls) : /\ DoneAt(t, k) = DoneAt(s, k)
                                           /\ StateAt(t, k) = StateAt(s, k)
                                           /\ EntryAt(t, k) = EntryAt(s, k)
           /\ DoneAt(t, Len(s.calls) + 1) = t.linearized
           /\ StateAt(t, Len(s.calls) + 1) = t.state
           /\ EntryAt(t, Len(s.calls) + 1) = t.entry
<1>1. PICK n \in Nat : n = Len(s.calls)
  BY StackFacts
<1>2. /\ Len(t.calls) = n + 1 /\ \A k \in 1 .. n : t.calls[k] = s.calls[k]
      /\ t.calls[n + 1].entry = s.entry /\ t.calls[n + 1].state = s.state
      /\ t.linearized = s.linearized \cup {s.entry.id}
  BY <1>1 DEF Pushed
<1>3. \A k \in 0 .. n : DoneAt(t, k) = DoneAt(s, k)
  BY <1>2, SameLevels
<1>4. ASSUME NEW k \in 0 .. n
      PROVE  StateAt(t, k) = StateAt(s, k) /\ EntryAt(t, k) = EntryAt(s, k)
  <2>1. k < n + 1 /\ k + 1 \in 1 .. n + 1
    OBVIOUS
  <2>2. StateAt(t, k) = t.calls[k + 1].state /\ EntryAt(t, k) = t.calls[k + 1].entry
    BY <1>2, <2>1 DEF StateAt, EntryAt
  <2>3. CASE k = n
    BY <1>1, <1>2, <2>2, <2>3 DEF StateAt, EntryAt
  <2>4. CASE k # n
    <3>1. k < n /\ k + 1 \in 1 .. n
      BY <2>4
    <3>2. StateAt(s, k) = s.calls[k + 1].state /\ EntryAt(s, k) = s.calls[k + 1].entry
      BY <1>1, <3>1 DEF StateAt, EntryAt
    <3>3. t.calls[k + 1] = s.calls[k + 1]
      BY <1>2, <3>1
    <3> QED
      BY <2>2, <3>2, <3>3
  <2> QED
    BY <2>3, <2>4
<1>5. DoneAt(t, n + 1) = t.linearized
  <2>1. s.linearized = {s.calls[j].entry.id : j \in 1 .. n}
    BY <1>1 DEF StackReplayed, DoneAt
  <2>2. \A j \in 1 .. n + 1 : j = n + 1 \/ j \in 1 .. n
    OBVIOUS
  <2>3. \A j \in 1 .. n : j \in 1 .. n + 1
    OBVIOUS
  <2>4. n + 1 \in 1 .. n + 1
    OBVIOUS
  <2>5. PICK c, d, x : c = t.calls /\ d = s.calls /\ x = s.entry.id
    OBVIOUS
  <2>6. (\A j \in 1 .. n : c[j].entry.id = d[j].entry.id) /\ c[n + 1].entry.id = x
    BY <1>2, <2>5
  <2>7. {c[j].entry.id : j \in 1 .. n + 1} = {d[j].entry.id : j \in 1 .. n} \cup {x}
    BY ONLY <2>2, <2>3, <2>4, <2>6, Zenon
  <2> QED
    BY <1>2, <2>1, <2>5, <2>7 DEF DoneAt
<1>6. StateAt(t, n + 1) = t.state /\ EntryAt(t, n + 1) = t.entry
  <2>1. ~(n + 1 < n + 1)
    OBVIOUS
  <2> QED
    BY <1>2, <2>1 DEF StateAt, EntryAt
<1> QED
  BY <1>1, <1>3, <1>4, <1>5, <1>6

\* The levels after a call is undone.
LEMMA PoppedLevels ==
    ASSUME NEW h, NEW s, NEW t, NEW wanted, StackReplayed(h, s), Len(s.calls) # 0,
           Popped(h, s, t, wanted)
    PROVE  /\ Len(t.calls) \in Nat /\ Len(s.calls) = Len(t.calls) + 1
           /\ \A k \in 0 .. Len(t.calls) : DoneAt(t, k) = DoneAt(s, k) /\ StateAt(t, k) = StateAt(s, k)
           /\ \A k \in 0 .. Len(t.calls) : k # Len(t.calls) => EntryAt(t, k) = EntryAt(s, k)
           /\ EntryAt(t, Len(t.calls)) = t.entry
           /\ EntryAt(s, Len(t.calls)) = s.calls[Len(s.calls)].entry
           /\ DoneAt(s, Len(t.calls)) = t.linearized
           /\ Ids(s.calls)[Len(s.calls)] \notin t.linearized
           /\ s.linearized = t.linearized \cup {Ids(s.calls)[Len(s.calls)]}
<1>0. PICK m \in Nat : Len(s.calls) = m + 1
  <2>1. Len(s.calls) \in Nat
    BY StackFacts
  <2>2. Len(s.calls) - 1 \in Nat /\ Len(s.calls) = Len(s.calls) - 1 + 1
    BY <2>1
  <2> QED
    BY <2>2
<1>1. /\ Len(t.calls) = m /\ \A k \in 1 .. m : t.calls[k] = s.calls[k]
      /\ t.state = s.calls[m + 1].state
      /\ t.linearized = s.linearized \ {s.calls[m + 1].entry.id}
  BY <1>0 DEF Popped
<1>2. \A k \in 0 .. m : DoneAt(t, k) = DoneAt(s, k)
  <2>1. m \in Nat /\ \A k \in 1 .. m : t.calls[k].entry = s.calls[k].entry
    BY <1>1
  <2> QED
    BY ONLY <2>1, SameLevels
<1>3. ASSUME NEW k \in 0 .. m
      PROVE  StateAt(t, k) = StateAt(s, k) /\ (k # m => EntryAt(t, k) = EntryAt(s, k))
  <2>1. k < m + 1 /\ k + 1 \in 1 .. m + 1
    OBVIOUS
  <2>2. StateAt(s, k) = s.calls[k + 1].state /\ EntryAt(s, k) = s.calls[k + 1].entry
    BY <1>0, <2>1 DEF StateAt, EntryAt
  <2>3. CASE k = m
    BY <1>1, <2>2, <2>3 DEF StateAt
  <2>4. CASE k # m
    <3>1. k < m /\ k + 1 \in 1 .. m
      BY <2>4
    <3>2. StateAt(t, k) = t.calls[k + 1].state /\ EntryAt(t, k) = t.calls[k + 1].entry
      BY <1>1, <3>1 DEF StateAt, EntryAt
    <3>3. t.calls[k + 1] = s.calls[k + 1]
      BY <1>1, <3>1
    <3> QED
      BY <2>2, <3>2, <3>3
  <2> QED
    BY <2>3, <2>4
<1>4. EntryAt(t, m) = t.entry /\ EntryAt(s, m) = s.calls[m + 1].entry
  <2>1. ~(m < m) /\ m < m + 1
    OBVIOUS
  <2> QED
    BY <1>0, <1>1, <2>1 DEF EntryAt
<1>5. PICK q : q = Ids(s.calls)
  OBVIOUS
<1>6. /\ \A k \in 1 .. m + 1 : q[k] = s.calls[k].entry.id
      /\ \A j, k \in 1 .. m + 1 : q[j] = q[k] => j = k
  BY <1>0, <1>5, StackFacts
<1>7. s.linearized = {s.calls[j].entry.id : j \in 1 .. m + 1}
  BY <1>0 DEF StackReplayed, DoneAt
<1>8. \A j \in 1 .. m + 1 : j = m + 1 \/ (j \in 1 .. m /\ j # m + 1)
  OBVIOUS
<1>9. \A j \in 1 .. m : j \in 1 .. m + 1 /\ j # m + 1
  OBVIOUS
<1>10. m + 1 \in 1 .. m + 1
  OBVIOUS
<1>11. \A j \in 1 .. m : s.calls[j].entry.id # s.calls[m + 1].entry.id
  BY <1>6, <1>9, <1>10
<1>12. DoneAt(s, m) = t.linearized
  BY <1>1, <1>7, <1>8, <1>9, <1>11 DEF DoneAt
<1>13. q[m + 1] = s.calls[m + 1].entry.id
  BY <1>6, <1>10
<1>14. q[m + 1] \notin t.linearized /\ s.linearized = t.linearized \cup {q[m + 1]}
  BY <1>1, <1>7, <1>10, <1>13
<1> QED
  BY <1>0, <1>1, <1>2, <1>3, <1>4, <1>5, <1>12, <1>14

-----------------------------------------------------------------------------
\* The stack is a partial linearization after a call that the model allows and
\* that no operation left precedes.
LEMMA PushStack ==
    ASSUME NEW h, WellTimed(h), NEW s, NEW t, StackReplayed(h, s), Pushed(h, s, t),
           NEW x \in DOMAIN h, s.entry = Call(x), x \notin s.linearized, StepOk(s.state, h[x]),
           \A id \in DOMAIN h : h[id].return < h[x].call => id \in s.linearized
    PROVE  StackReplayed(h, t)
<1>1. PICK n \in Nat : n = Len(s.calls)
  BY StackFacts
<1>2. PICK q : q = Ids(s.calls)
  OBVIOUS
<1>3. /\ q \in [1 .. n -> DOMAIN h] /\ s.linearized = ToSet(q)
      /\ \A k \in 1 .. n : s.calls[k].entry = Call(q[k])
      /\ s.linearized \in SUBSET DOMAIN h
  BY <1>1, <1>2, StackFacts
<1>4. /\ IsPartial(h, q) /\ Cardinality(s.linearized) = n
      /\ \A k \in 0 .. n : StateAt(s, k) = Run(h, InitState, q)[k]
  BY <1>1, <1>2 DEF StackReplayed
<1>5. /\ t.calls \in Seq(ToSet(t.calls)) /\ Len(t.calls) = n + 1 /\ DOMAIN t.calls = 1 .. n + 1
      /\ \A k \in 1 .. n : t.calls[k] = s.calls[k]
      /\ t.calls[n + 1].entry = Call(x)
      /\ t.linearized = s.linearized \cup {x} /\ t.state = StepState(s.state, h[x])
  <2>1. Call(x).id = x
    BY EntryKinds
  <2> QED
    BY <1>1, <2>1 DEF Pushed
<1>6. PICK r : r = [k \in 1 .. n + 1 |-> IF k = n + 1 THEN x ELSE q[k]]
  OBVIOUS
<1>7. r \in [1 .. n + 1 -> DOMAIN h] /\ r[n + 1] = x /\ \A k \in 1 .. n : r[k] = q[k]
  BY <1>3, <1>6
<1>8. \A k \in 1 .. n + 1 : t.calls[k].entry = Call(r[k])
  <2>1. \A k \in 1 .. n : t.calls[k].entry = Call(r[k])
    BY <1>3, <1>5, <1>7
  <2>2. \A k \in 1 .. n + 1 : k = n + 1 \/ k \in 1 .. n
    OBVIOUS
  <2> QED
    BY <1>5, <1>7, <2>1, <2>2
<1>9. Ids(t.calls) = r
  <2>1. \A k \in 1 .. n + 1 : t.calls[k].entry.id = r[k]
    BY <1>7, <1>8, EntryKinds
  <2>2. Ids(t.calls) = [k \in 1 .. n + 1 |-> t.calls[k].entry.id]
    BY <1>5 DEF Ids
  <2>3. DOMAIN r = 1 .. n + 1
    BY <1>6
  <2> QED
    BY <1>7, <2>1, <2>2, <2>3
<1>10. n \in 0 .. n /\ StateAt(s, n) = s.state
  BY <1>1 DEF StateAt
<1>11. StepOk(Run(h, InitState, q)[n], h[x]) /\ s.state = Run(h, InitState, q)[n]
  BY <1>4, <1>10
<1>12. /\ IsPartial(h, r)
       /\ \A k \in 0 .. n : Run(h, InitState, r)[k] = Run(h, InitState, q)[k]
       /\ Run(h, InitState, r)[n + 1] = StepState(Run(h, InitState, q)[n], h[x])
  <2>1. /\ x \notin ToSet(q)
        /\ \A id \in DOMAIN h : h[id].return < h[x].call => id \in ToSet(q)
    BY <1>3
  <2> QED
    BY <1>3, <1>4, <1>7, <1>11, <2>1, PartialLonger
<1>13. DoneAt(t, n + 1) = t.linearized
  BY <1>1, PushedLevels
<1>14. \A k \in 0 .. n + 1 : StateAt(t, k) = Run(h, InitState, r)[k]
  <2>1. \A k \in 0 .. n : StateAt(t, k) = StateAt(s, k)
    BY <1>1, PushedLevels
  <2>2. StateAt(t, n + 1) = t.state
    BY <1>1, PushedLevels
  <2>3. StateAt(t, n + 1) = Run(h, InitState, r)[n + 1]
    BY <1>5, <1>11, <1>12, <2>2
  <2>4. \A k \in 0 .. n : StateAt(t, k) = Run(h, InitState, r)[k]
    BY <1>4, <1>12, <2>1
  <2>5. \A k \in 0 .. n + 1 : k = n + 1 \/ k \in 0 .. n
    OBVIOUS
  <2> QED
    BY <2>3, <2>4, <2>5
<1>15. Cardinality(t.linearized) = n + 1
  <2>1. IsFiniteSet(s.linearized)
    BY <1>3, EntriesFinite, FS_Subset
  <2> QED
    BY <1>4, <1>5, <2>1, FS_AddElement
<1>16. \A k \in DOMAIN t.calls : \E id \in DOMAIN h : t.calls[k].entry = Call(id)
  BY <1>5, <1>7, <1>8
<1> QED
  BY <1>5, <1>9, <1>12, <1>13, <1>14, <1>15, <1>16 DEF StackReplayed

\* The stack without its last call.
LEMMA PopStack ==
    ASSUME NEW h, WellTimed(h), NEW s, NEW t, NEW wanted, StackReplayed(h, s), Len(s.calls) # 0,
           Popped(h, s, t, wanted)
    PROVE  StackReplayed(h, t)
<1>1. PICK n \in Nat : Len(s.calls) = n + 1 /\ Len(t.calls) = n
  BY PoppedLevels
<1>2. PICK r : r = Ids(s.calls)
  OBVIOUS
<1>3. /\ r \in [1 .. n + 1 -> DOMAIN h]
      /\ \A k \in 1 .. n + 1 : s.calls[k].entry = Call(r[k])
      /\ s.linearized \in SUBSET DOMAIN h
  BY <1>1, <1>2, StackFacts
<1>4. /\ IsPartial(h, r) /\ Cardinality(s.linearized) = n + 1
      /\ \A k \in 0 .. n + 1 : StateAt(s, k) = Run(h, InitState, r)[k]
  BY <1>1, <1>2 DEF StackReplayed
<1>5. /\ t.calls \in Seq(ToSet(t.calls)) /\ Len(t.calls) = n /\ DOMAIN t.calls = 1 .. n
      /\ \A k \in 1 .. n : t.calls[k] = s.calls[k]
  BY <1>1 DEF Popped
<1>6. PICK q : q = [k \in 1 .. n |-> r[k]]
  OBVIOUS
<1>7. q \in [1 .. n -> DOMAIN h] /\ (\A k \in 1 .. n : r[k] = q[k]) /\ DOMAIN q = 1 .. n
  BY <1>3, <1>6
<1>8. \A k \in 1 .. n : t.calls[k].entry = Call(q[k])
  BY <1>3, <1>5, <1>7
<1>9. Ids(t.calls) = q
  <2>1. \A k \in 1 .. n : t.calls[k].entry.id = q[k]
    BY <1>7, <1>8, EntryKinds
  <2>2. Ids(t.calls) = [k \in 1 .. n |-> t.calls[k].entry.id]
    BY <1>5 DEF Ids
  <2> QED
    BY <1>7, <2>1, <2>2
<1>10. /\ IsPartial(h, q)
       /\ \A k \in 0 .. n : Run(h, InitState, q)[k] = Run(h, InitState, r)[k]
  BY <1>3, <1>4, <1>7, PartialShorter
<1>11. /\ \A k \in 0 .. n : DoneAt(t, k) = DoneAt(s, k) /\ StateAt(t, k) = StateAt(s, k)
       /\ DoneAt(s, n) = t.linearized
       /\ r[n + 1] \notin t.linearized /\ s.linearized = t.linearized \cup {r[n + 1]}
  BY <1>1, <1>2, PoppedLevels
<1>12. DoneAt(t, n) = t.linearized
  BY <1>11
<1>13. \A k \in 0 .. n : StateAt(t, k) = Run(h, InitState, q)[k]
  <2>1. \A k \in 0 .. n : k \in 0 .. n + 1
    OBVIOUS
  <2> QED
    BY <1>4, <1>10, <1>11, <2>1
<1>14. Cardinality(t.linearized) = n
  <2>1. IsFiniteSet(t.linearized)
    BY <1>3, <1>11, EntriesFinite, FS_Subset
  <2>2. Cardinality(t.linearized \cup {r[n + 1]}) = Cardinality(t.linearized) + 1
    BY <1>11, <2>1, FS_AddElement
  <2>3. Cardinality(t.linearized) \in Nat
    BY <2>1, FS_CardinalityType
  <2> QED
    BY <1>4, <1>11, <2>2, <2>3
<1>15. \A k \in DOMAIN t.calls : \E id \in DOMAIN h : t.calls[k].entry = Call(id)
  BY <1>5, <1>7, <1>8
<1> QED
  BY <1>5, <1>9, <1>10, <1>12, <1>13, <1>14, <1>15 DEF StackReplayed

-----------------------------------------------------------------------------
\* The operations below the top of the stack are linearized there.
LEMMA StackIds ==
    ASSUME NEW h, NEW s, StackReplayed(h, s), NEW k \in 1 .. Len(s.calls), NEW x, s.calls[k].entry = Call(x)
    PROVE  x \in DOMAIN h /\ x \in s.linearized /\ x = Ids(s.calls)[k]
<1>1. PICK q, n : q = Ids(s.calls) /\ n = Len(s.calls)
  OBVIOUS
<1>2. q[k] \in DOMAIN h /\ q[k] = s.calls[k].entry.id
  BY <1>1, StackFacts
<1>3. Call(x).id = x
  BY DEF Call
<1>4. s.linearized = {s.calls[j].entry.id : j \in 1 .. n}
  BY <1>1 DEF StackReplayed, DoneAt
<1> QED
  BY <1>1, <1>2, <1>3, <1>4

\* An entry whose pointers are not touched is where it was.
LEMMA SameBetween ==
    ASSUME NEW h, NEW s, NEW t, NEW out, NEW left, NEW y \in Nodes(h), y \notin out,
           Untouched(h, out, s.next, s.prev, t.next, t.prev), Between(h, left, s, y)
    PROVE  Between(h, left, t, y)
BY DEF Untouched, Between

\* A call and its return can be put back after they are lifted, and so can
\* those that were lifted before.
LEMMA PushLinks ==
    ASSUME NEW h, WellTimed(h), NEW s, DOMAIN s = Locals, NEW t, StackReplayed(h, s),
           LinksRestorable(h, s), Pushed(h, s, t), NEW x \in DOMAIN h, s.entry = Call(x), x \notin s.linearized
    PROVE  LinksRestorable(h, t)
<1>1. PICK n \in Nat : n = Len(s.calls)
  BY StackFacts
<1>2. /\ Len(t.calls) = n + 1 /\ DOMAIN t.calls = 1 .. n + 1
      /\ \A k \in 1 .. n : t.calls[k] = s.calls[k]
      /\ t.calls[n + 1].entry = Call(x)
      /\ t.next = lift(s, Call(x)).next /\ t.prev = lift(s, Call(x)).prev
      /\ t.linearized = s.linearized \cup {x}
  <2>1. Call(x).id = x
    BY EntryKinds
  <2> QED
    BY <1>1, <2>1 DEF Pushed
<1>3. PICK done : done = s.linearized
  OBVIOUS
<1>4. /\ DOMAIN s.next = Nodes(h) /\ DOMAIN s.prev = Nodes(h)
      /\ Linked(h, Left(h, done), s.next, s.prev)
  BY <1>3 DEF LinksRestorable
<1>5. /\ DOMAIN t.next = Nodes(h) /\ DOMAIN t.prev = Nodes(h)
      /\ Linked(h, Left(h, done \cup {x}), t.next, t.prev)
      /\ Untouched(h, Left(h, done), s.next, s.prev, t.next, t.prev)
      /\ Follows(h, Left(h, done), t.prev[Call(x)], Call(x))
      /\ Follows(h, Left(h, done), Call(x), t.next[Call(x)])
      /\ Follows(h, Left(h, done) \ {Call(x)}, t.prev[Ret(x)], Ret(x))
      /\ Follows(h, Left(h, done) \ {Call(x)}, Ret(x), t.next[Ret(x)])
  <2>1. PICK next, prev : next = t.next /\ prev = t.prev
    OBVIOUS
  <2>2. next = lift(s, Call(x)).next /\ prev = lift(s, Call(x)).prev
    BY <1>2, <2>1
  <2>3. x \in DOMAIN h /\ x \notin done /\ WellTimed(h) /\ DOMAIN s = Locals
    BY <1>3
  <2>4. /\ DOMAIN next = Nodes(h) /\ DOMAIN prev = Nodes(h)
        /\ Linked(h, Left(h, done \cup {x}), next, prev)
        /\ Untouched(h, Left(h, done), s.next, s.prev, next, prev)
        /\ Follows(h, Left(h, done), prev[Call(x)], Call(x))
        /\ Follows(h, Left(h, done), Call(x), next[Call(x)])
        /\ Follows(h, Left(h, done) \ {Call(x)}, prev[Ret(x)], Ret(x))
        /\ Follows(h, Left(h, done) \ {Call(x)}, Ret(x), next[Ret(x)])
    BY ONLY <1>4, <2>2, <2>3, Lifted
  <2> QED
    BY <2>1, <2>4, Zenon
<1>6. \A k \in 0 .. n : DoneAt(t, k) = DoneAt(s, k)
  BY <1>1, PushedLevels
<1>7. DoneAt(s, n) = done
  BY <1>1, <1>3 DEF StackReplayed
<1>8. ASSUME NEW k \in 1 .. n
      PROVE  /\ Between(h, Left(h, DoneAt(t, k - 1)), t, t.calls[k].entry)
             /\ Between(h, Left(h, DoneAt(t, k - 1)) \ {t.calls[k].entry}, t, Ret(t.calls[k].entry.id))
  <2>1. PICK y \in DOMAIN h : s.calls[k].entry = Call(y)
    BY <1>1, StackFacts
  <2>2. y \in done /\ Call(y).id = y
    BY <1>1, <1>3, <2>1, StackIds, EntryKinds
  <2>3. Call(y) \notin Left(h, done) /\ Ret(y) \notin Left(h, done)
    BY <2>2, LeftFacts
  <2>4. Call(y) \in Nodes(h) /\ Ret(y) \in Nodes(h)
    BY EntryKinds DEF Nodes
  <2>5. k - 1 \in 0 .. n /\ k \in DOMAIN s.calls
    BY <1>1, StackFacts
  <2>6. PICK left : left = Left(h, DoneAt(s, k - 1))
    OBVIOUS
  <2>7. Between(h, left, s, Call(y)) /\ Between(h, left \ {Call(y)}, s, Ret(y))
    BY <2>1, <2>2, <2>5, <2>6 DEF LinksRestorable
  <2>8. Between(h, left, t, Call(y)) /\ Between(h, left \ {Call(y)}, t, Ret(y))
    BY <1>5, <2>3, <2>4, <2>7, SameBetween
  <2>9. t.calls[k].entry = Call(y) /\ DoneAt(t, k - 1) = DoneAt(s, k - 1)
    BY <1>2, <1>6, <2>1, <2>5
  <2> QED
    BY <2>2, <2>6, <2>8, <2>9
<1>9. /\ Between(h, Left(h, DoneAt(t, n)), t, Call(x))
      /\ Between(h, Left(h, DoneAt(t, n)) \ {Call(x)}, t, Ret(x))
  BY <1>5, <1>6, <1>7 DEF Between
<1>10. ASSUME NEW k \in DOMAIN t.calls
       PROVE  /\ Between(h, Left(h, DoneAt(t, k - 1)), t, t.calls[k].entry)
              /\ Between(h, Left(h, DoneAt(t, k - 1)) \ {t.calls[k].entry}, t, Ret(t.calls[k].entry.id))
  <2>1. CASE k \in 1 .. n
    BY <1>8, <2>1
  <2>2. CASE k = n + 1
    <3>1. k - 1 = n
      BY <2>2
    <3>2. Call(x).id = x
      BY EntryKinds
    <3>3. t.calls[k].entry = Call(x) /\ t.calls[k].entry.id = x
      BY <1>2, <2>2, <3>2, Zenon
    <3> QED
      BY <1>9, <3>1, <3>3
  <2> QED
    BY <1>2, <2>1, <2>2
<1> QED
  BY <1>2, <1>3, <1>5, <1>10 DEF LinksRestorable

\* The list after a call is undone.
LEMMA PopLinks ==
    ASSUME NEW h, WellTimed(h), NEW s, DOMAIN s = Locals, NEW t, NEW wanted, StackReplayed(h, s),
           LinksRestorable(h, s), Len(s.calls) # 0, Popped(h, s, t, wanted)
    PROVE  LinksRestorable(h, t)
<1>1. PICK n \in Nat : Len(s.calls) = n + 1 /\ Len(t.calls) = n
  BY PoppedLevels
<1>2. PICK x \in DOMAIN h : s.calls[n + 1].entry = Call(x)
  <2>1. n + 1 \in DOMAIN s.calls
    BY <1>1, StackFacts
  <2> QED
    BY <2>1 DEF StackReplayed
<1>3. x = Ids(s.calls)[n + 1]
  BY <1>1, <1>2, StackIds
<1>4. /\ DOMAIN t.calls = 1 .. n
      /\ \A k \in 1 .. n : t.calls[k] = s.calls[k]
      /\ t.next = unlift(s, Call(x)).next /\ t.prev = unlift(s, Call(x)).prev
  BY <1>1, <1>2 DEF Popped
<1>5. PICK done : done = t.linearized
  OBVIOUS
<1>6. /\ \A k \in 0 .. n : DoneAt(t, k) = DoneAt(s, k)
      /\ DoneAt(s, n) = done /\ x \notin done /\ s.linearized = done \cup {x}
  BY <1>1, <1>3, <1>5, PoppedLevels
<1>7. /\ DOMAIN s.next = Nodes(h) /\ DOMAIN s.prev = Nodes(h)
      /\ Linked(h, Left(h, done \cup {x}), s.next, s.prev)
  BY <1>6 DEF LinksRestorable
<1>8. Between(h, Left(h, done), s, Call(x)) /\ Between(h, Left(h, done) \ {Call(x)}, s, Ret(x))
  <2>1. n + 1 \in DOMAIN s.calls /\ n + 1 - 1 = n /\ Call(x).id = x
    BY <1>1, StackFacts, EntryKinds
  <2> QED
    <3>1. PICK k : k = n + 1 /\ k - 1 = n
      BY <2>1
    <3>2. /\ Between(h, Left(h, DoneAt(s, k - 1)), s, s.calls[k].entry)
          /\ Between(h, Left(h, DoneAt(s, k - 1)) \ {s.calls[k].entry}, s, Ret(s.calls[k].entry.id))
      BY <2>1, <3>1 DEF LinksRestorable
    <3>3. DoneAt(s, k - 1) = done /\ s.calls[k].entry = Call(x) /\ s.calls[k].entry.id = x
      BY <1>2, <1>6, <2>1, <3>1
    <3> QED
      BY <3>2, <3>3
<1>9. /\ DOMAIN t.next = Nodes(h) /\ DOMAIN t.prev = Nodes(h)
      /\ Linked(h, Left(h, done), t.next, t.prev)
      /\ Untouched(h, Left(h, done), s.next, s.prev, t.next, t.prev)
  BY <1>4, <1>6, <1>7, <1>8, Unlifted
<1>10. ASSUME NEW k \in 1 .. n
       PROVE  /\ Between(h, Left(h, DoneAt(t, k - 1)), t, t.calls[k].entry)
              /\ Between(h, Left(h, DoneAt(t, k - 1)) \ {t.calls[k].entry}, t, Ret(t.calls[k].entry.id))
  <2>1. PICK y \in DOMAIN h : s.calls[k].entry = Call(y)
    <3>1. k \in DOMAIN s.calls
      BY <1>1, StackFacts
    <3> QED
      BY <3>1 DEF StackReplayed
  <2>2. y \in done /\ Call(y).id = y
    <3>1. DoneAt(s, n) = {s.calls[j].entry.id : j \in 1 .. n}
      BY DEF DoneAt
    <3> QED
      BY <1>6, <2>1, <3>1, EntryKinds
  <2>3. Call(y) \notin Left(h, done) /\ Ret(y) \notin Left(h, done)
    BY <2>2, LeftFacts
  <2>4. Call(y) \in Nodes(h) /\ Ret(y) \in Nodes(h)
    BY EntryKinds DEF Nodes
  <2>5. k - 1 \in 0 .. n /\ k \in DOMAIN s.calls
    BY <1>1, StackFacts
  <2>6. PICK left : left = Left(h, DoneAt(s, k - 1))
    OBVIOUS
  <2>7. Between(h, left, s, Call(y)) /\ Between(h, left \ {Call(y)}, s, Ret(y))
    BY <2>1, <2>2, <2>5, <2>6 DEF LinksRestorable
  <2>8. Between(h, left, t, Call(y)) /\ Between(h, left \ {Call(y)}, t, Ret(y))
    BY <1>9, <2>3, <2>4, <2>7, SameBetween
  <2>9. t.calls[k].entry = Call(y) /\ DoneAt(t, k - 1) = DoneAt(s, k - 1)
    BY <1>4, <1>6, <2>1, <2>5
  <2> QED
    BY <2>2, <2>6, <2>8, <2>9
<1> QED
  BY <1>4, <1>5, <1>9, <1>10 DEF LinksRestorable

-----------------------------------------------------------------------------
\* What was tried stays tried with a larger cache.
LEMMA TriedMore ==
    ASSUME NEW h, NEW cache, NEW cache2, \A c \in cache : c \in cache2, NEW done, NEW state, NEW e,
           Tried(h, cache, done, state, e)
    PROVE  Tried(h, cache2, done, state, e)
BY Zenon DEF Tried

\* The first entry of the list: nothing has been passed.
LEMMA TriedFirst ==
    ASSUME NEW h, WellTimed(h), NEW cache, NEW done, NEW state, NEW e,
           Follows(h, Left(h, done), HeadEntry, e)
    PROVE  Tried(h, cache, done, state, e)
<1>1. PICK left, T : left = Left(h, done) /\ T = TimeOf(h)
  OBVIOUS
<1>2. /\ T[HeadEntry] = 0 /\ HeadEntry \in left
      /\ \A f \in left : T[f] \in Nat /\ (f # HeadEntry => 0 < T[f])
      /\ HeadEntry.kind # "call" /\ HeadEntry.kind # "return"
  BY <1>1, LeftFacts, EntryTimes, EntryKinds DEF Nodes
<1>3. /\ e # Nil => e \in left /\ T[HeadEntry] < T[e]
      /\ \A f \in left : T[HeadEntry] < T[f] => e # Nil /\ T[e] <= T[f]
  BY <1>1 DEF Follows
<1>4. CASE e = Nil
  <2>1. left = {HeadEntry}
    BY <1>2, <1>3, <1>4
  <2> QED
    BY <1>1, <1>4, <2>1 DEF Tried
<1>5. CASE e # Nil
  <2>1. e \in left \ {HeadEntry}
    BY <1>2, <1>3, <1>5
  <2>2. \A f \in left : f # HeadEntry => T[e] <= T[f] /\ ~(T[f] < T[e])
    BY <1>2, <1>3, <2>1
  <2>3. \A f \in left : f.kind = "return" => T[e] <= T[f]
    BY <1>2, <2>2
  <2>4. \A f \in left : ~(f.kind = "call" /\ T[f] < T[e])
    BY <1>2, <2>2
  <2> QED
    BY <1>1, <2>1, <2>3, <2>4 DEF Tried
<1> QED
  BY <1>4, <1>5

\* A search that has tried a call goes on behind it; the call's own return is
\* still to come.
LEMMA TriedNext ==
    ASSUME NEW h, WellTimed(h), NEW cache, NEW done, NEW state, NEW x \in DOMAIN h, x \notin done,
           Tried(h, cache, done, state, Call(x)), NEW e, Follows(h, Left(h, done), Call(x), e),
           StepOk(state, h[x]) =>
               [linearized |-> done \cup {x}, state |-> StepState(state, h[x])] \in cache
    PROVE  Tried(h, cache, done, state, e)
<1>1. PICK left, T, c : left = Left(h, done) /\ T = TimeOf(h) /\ c = Call(x)
  OBVIOUS
<1>2. /\ T[HeadEntry] = 0
      /\ \A f \in left : T[f] \in Nat
      /\ \A f, g \in left : T[f] = T[g] => f = g
      /\ c \in left /\ Ret(x) \in left /\ c.id = x
      /\ c.kind = "call" /\ Ret(x).kind = "return" /\ c # Nil
  <2>1. left \in SUBSET Nodes(h) /\ c \in left /\ Ret(x) \in left
    BY <1>1, LeftFacts
  <2>2. c # Nil
    BY <2>1, NilNoEntry
  <2> QED
    BY <1>1, <2>1, <2>2, EntryTimes, EntryKinds
<1>3. T[c] < T[Ret(x)]
  BY <1>1, EntryTimes DEF WellTimed
<1>4. /\ e # Nil => e \in left /\ T[c] < T[e]
      /\ \A f \in left : T[c] < T[f] => e # Nil /\ T[e] <= T[f]
  BY <1>1 DEF Follows
<1>5. e # Nil /\ e \in left /\ T[c] < T[e]
  BY <1>2, <1>3, <1>4
<1>6. e # HeadEntry
  BY <1>2, <1>5
<1>7. /\ \A f \in left : f.kind = "return" => T[c] <= T[f]
      /\ \A f \in left : /\ f.kind = "call" /\ T[f] < T[c] /\ StepOk(state, h[f.id])
                         => [linearized |-> done \cup {f.id}, state |-> StepState(state, h[f.id])] \in cache
  BY <1>1, <1>2, Zenon DEF Tried
<1>8. \A f \in left : f.kind = "return" => T[e] <= T[f]
  <2>1. ASSUME NEW f \in left, f.kind = "return"
        PROVE  T[e] <= T[f]
    <3>1. f # c
      BY <1>2, <2>1
    <3>2. T[c] <= T[f] /\ T[c] # T[f]
      BY <1>2, <1>7, <2>1, <3>1
    <3> QED
      BY <1>2, <1>4, <3>2
  <2> QED
    BY <2>1
<1>9. \A f \in left : T[f] < T[e] => T[f] < T[c] \/ f = c
  <2>1. ASSUME NEW f \in left, T[f] < T[e]
        PROVE  T[f] < T[c] \/ f = c
    <3>1. ~(T[c] < T[f])
      BY <1>2, <1>4, <1>5, <2>1
    <3> QED
      BY <1>2, <3>1
  <2> QED
    BY <2>1
<1>10. ASSUME NEW f \in left, f.kind = "call", T[f] < T[e], StepOk(state, h[f.id])
       PROVE  [linearized |-> done \cup {f.id}, state |-> StepState(state, h[f.id])] \in cache
  BY <1>2, <1>7, <1>9, <1>10, Zenon
<1> QED
  BY <1>1, <1>5, <1>6, <1>8, <1>10, Zenon DEF Tried

\* The entry a search is at while its list is not empty.
LEMMA TriedEntry ==
    ASSUME NEW h, WellTimed(h), NEW cache, NEW done, NEW state, NEW e, Tried(h, cache, done, state, e),
           NEW first, first # Nil, Follows(h, Left(h, done), HeadEntry, first)
    PROVE  /\ e \in Entries(h) /\ e.id \in DOMAIN h /\ e.id \notin done
           /\ e.kind = "call" => e = Call(e.id)
           /\ e.kind = "return" => e = Ret(e.id)
           /\ e.kind = "call" => \A id \in DOMAIN h : h[id].return < h[e.id].call => id \in done
<1>1. PICK left, T : left = Left(h, done) /\ T = TimeOf(h)
  OBVIOUS
<1>2. first \in left /\ T[HeadEntry] < T[first]
  BY <1>1 DEF Follows
<1>3. first # HeadEntry
  BY <1>1, <1>2, EntryTimes
<1>4. /\ e \in left \ {HeadEntry}
      /\ \A f \in left : f.kind = "return" => T[e] <= T[f]
  BY <1>1, <1>2, <1>3 DEF Tried
<1>5. e \in Entries(h) /\ e.id \notin done
  BY <1>1, <1>4, LeftFacts
<1>6. /\ e.id \in DOMAIN h
      /\ e.kind = "call" => e = Call(e.id)
      /\ e.kind = "return" => e = Ret(e.id)
  BY <1>5, EntryKinds
<1>7. ASSUME e.kind = "call", NEW id \in DOMAIN h, h[id].return < h[e.id].call, id \notin done
      PROVE  FALSE
  <2>1. PICK x \in DOMAIN h : x = e.id /\ e = Call(x)
    BY <1>6, <1>7
  <2>2. Ret(id) \in left /\ Ret(id).kind = "return"
    BY <1>1, <1>7, LeftFacts, EntryKinds
  <2>3. T[e] = h[x].call /\ T[Ret(id)] = h[id].return
    BY <1>1, <2>1, EntryTimes
  <2>4. h[x].call \in Nat /\ h[id].return \in Nat
    BY DEF WellTimed
  <2>5. h[x].call <= h[id].return
    BY <1>4, <2>2, <2>3
  <2> QED
    BY <1>7, <2>1, <2>4, <2>5
<1> QED
  BY <1>5, <1>6, <1>7

-----------------------------------------------------------------------------
\* After a call is linearized the search starts over at the head of the list.
LEMMA PushTried ==
    ASSUME NEW h, WellTimed(h), NEW s, NEW t, StackReplayed(h, s), Pushed(h, s, t),
           LinksRestorable(h, t), \A k \in 0 .. Len(s.calls) : LevelTried(h, s, k)
    PROVE  \A k \in 0 .. Len(t.calls) : LevelTried(h, t, k)
<1>1. PICK n \in Nat : n = Len(s.calls) /\ Len(t.calls) = n + 1
  BY StackFacts DEF Pushed
<1>2. (\A c \in s.cache : c \in t.cache) /\ t.entry = t.next[HeadEntry]
  BY Zenon DEF Pushed
<1>3. ASSUME NEW k \in 0 .. n
      PROVE  LevelTried(h, t, k)
  <2>1. DoneAt(t, k) = DoneAt(s, k) /\ StateAt(t, k) = StateAt(s, k) /\ EntryAt(t, k) = EntryAt(s, k)
    BY <1>1, PushedLevels
  <2>2. Tried(h, s.cache, DoneAt(s, k), StateAt(s, k), EntryAt(s, k))
    BY <1>1 DEF LevelTried
  <2>3. Tried(h, t.cache, DoneAt(s, k), StateAt(s, k), EntryAt(s, k))
    BY ONLY <1>2, <2>2, TriedMore
  <2> QED
    BY <2>1, <2>3 DEF LevelTried
<1>4. LevelTried(h, t, n + 1)
  <2>1. DoneAt(t, n + 1) = t.linearized /\ EntryAt(t, n + 1) = t.entry
    BY <1>1, PushedLevels
  <2>2. Follows(h, Left(h, t.linearized), HeadEntry, t.entry)
    BY <1>2, LeftFacts DEF LinksRestorable, Linked
  <2>3. Tried(h, t.cache, t.linearized, StateAt(t, n + 1), t.entry)
    BY <2>2, TriedFirst
  <2> QED
    BY <2>1, <2>3 DEF LevelTried
<1>5. \A k \in 0 .. n + 1 : k \in 0 .. n \/ k = n + 1
  OBVIOUS
<1> QED
  BY <1>1, <1>3, <1>4, <1>5

\* After a call is undone the search goes on behind it: its configuration is in
\* the cache.
LEMMA PopTried ==
    ASSUME NEW h, WellTimed(h), NEW s, NEW t, NEW wanted, StackReplayed(h, s), Len(s.calls) # 0,
           Popped(h, s, t, wanted), LinksRestorable(h, t), CacheExplored(h, s, wanted),
           \A k \in 0 .. Len(s.calls) : LevelTried(h, s, k)
    PROVE  \A k \in 0 .. Len(t.calls) : LevelTried(h, t, k)
<1>1. PICK n \in Nat : Len(s.calls) = n + 1 /\ Len(t.calls) = n
  BY PoppedLevels
<1>2. PICK x \in DOMAIN h : s.calls[n + 1].entry = Call(x)
  <2>1. n + 1 \in DOMAIN s.calls
    BY <1>1, StackFacts
  <2> QED
    BY <2>1 DEF StackReplayed
<1>3. x = Ids(s.calls)[n + 1]
  BY <1>1, <1>2, StackIds
<1>4. t.cache = s.cache /\ t.entry = t.next[Call(x)]
  BY <1>1, <1>2 DEF Popped
<1>5. \A k \in 0 .. n : /\ DoneAt(t, k) = DoneAt(s, k) /\ StateAt(t, k) = StateAt(s, k)
                        /\ k # n => EntryAt(t, k) = EntryAt(s, k)
  BY <1>1, PoppedLevels
<1>6. /\ EntryAt(t, n) = t.entry /\ EntryAt(s, n) = Call(x) /\ DoneAt(s, n) = t.linearized
      /\ x \notin t.linearized /\ s.linearized = t.linearized \cup {x}
  BY <1>1, <1>2, <1>3, PoppedLevels
<1>7. n \in 0 .. n /\ n \in 0 .. n + 1 /\ n + 1 \in 1 .. n + 1
  OBVIOUS
<1>8. [linearized |-> s.linearized, state |-> s.state] \in s.cache
  <2>1. ConfigAt(s, n + 1) \in s.cache
    BY <1>1, <1>7 DEF CacheExplored
  <2>2. DoneAt(s, n + 1) = s.linearized
    BY <1>1 DEF StackReplayed
  <2>3. StateAt(s, n + 1) = s.state
    BY <1>1 DEF StateAt
  <2> QED
    BY <2>1, <2>2, <2>3 DEF ConfigAt
<1>9. s.state = StepState(StateAt(s, n), h[x])
  <2>1. PICK q : q = Ids(s.calls) /\ Len(q) = n + 1 /\ q[n + 1] = x
    <3>1. Ids(s.calls) \in [1 .. Len(s.calls) -> DOMAIN h]
      BY StackFacts
    <3>2. n + 1 \in Nat
      OBVIOUS
    <3> QED
      BY <1>1, <1>3, <3>1, <3>2, SeqOfMember
  <2>2. \A k \in 0 .. n + 1 : StateAt(s, k) = Run(h, InitState, q)[k]
    BY <1>1, <2>1 DEF StackReplayed
  <2>3. StateAt(s, n + 1) = s.state
    BY <1>1 DEF StateAt
  <2>4. n + 1 \in Nat /\ n + 1 - 1 = n /\ n + 1 \in 0 .. n + 1
    OBVIOUS
  <2>5. Run(h, InitState, q)[n + 1] = StepState(Run(h, InitState, q)[n + 1 - 1], h[q[n + 1]])
    BY ONLY <1>7, <2>1, <2>4, RunDefined
  <2>6. /\ s.state = Run(h, InitState, q)[n + 1]
        /\ StateAt(s, n) = Run(h, InitState, q)[n]
    BY <1>7, <2>2, <2>3, <2>4
  <2> QED
    BY <2>1, <2>4, <2>5, <2>6
<1>10. LevelTried(h, t, n)
  <2>1. PICK state : state = StateAt(s, n)
    OBVIOUS
  <2>2. Tried(h, s.cache, t.linearized, state, Call(x))
    BY <1>1, <1>6, <1>7, <2>1 DEF LevelTried
  <2>3. Follows(h, Left(h, t.linearized), Call(x), t.entry)
    BY <1>4, <1>6, LeftFacts DEF LinksRestorable, Linked
  <2>4. [linearized |-> t.linearized \cup {x}, state |-> StepState(state, h[x])] \in s.cache
    BY <1>6, <1>8, <1>9, <2>1
  <2>5. Tried(h, s.cache, t.linearized, state, t.entry)
    BY ONLY WellTimed(h), x \in DOMAIN h, <1>6, <2>2, <2>3, <2>4, TriedNext
  <2> QED
    BY <1>4, <1>5, <1>6, <1>7, <2>1, <2>5 DEF LevelTried
<1>11. ASSUME NEW k \in 0 .. n, k # n
       PROVE  LevelTried(h, t, k)
  <2>1. LevelTried(h, s, k)
    BY <1>1
  <2> QED
    BY <1>4, <1>5, <1>11, <2>1 DEF LevelTried
<1> QED
  BY <1>1, <1>10, <1>11

\* A call that the model or the cache forbids is passed.
LEMMA MoveTried ==
    ASSUME NEW h, WellTimed(h), NEW s, NEW t, StackReplayed(h, s), LinksRestorable(h, s), Kept(s, t),
           \A k \in 0 .. Len(s.calls) : LevelTried(h, s, k),
           NEW x \in DOMAIN h, s.entry = Call(x), x \notin s.linearized,
           t.entry = s.next[s.entry],
           StepOk(s.state, h[x]) =>
               [linearized |-> s.linearized \cup {x}, state |-> StepState(s.state, h[x])] \in s.cache
    PROVE  \A k \in 0 .. Len(t.calls) : LevelTried(h, t, k)
<1>1. PICK n \in Nat : n = Len(s.calls)
  BY StackFacts
<1>2. Len(t.calls) = n /\ t.cache = s.cache /\ t.calls = s.calls /\ t.state = s.state
  BY <1>1 DEF Kept
<1>3. \A k : DoneAt(t, k) = DoneAt(s, k) /\ StateAt(t, k) = StateAt(s, k)
  BY <1>2 DEF DoneAt, StateAt
<1>4. LevelTried(h, t, n)
  <2>1. ~(n < n) /\ n \in 0 .. n
    OBVIOUS
  <2>2. StateAt(s, n) = s.state /\ EntryAt(s, n) = Call(x) /\ EntryAt(t, n) = t.entry /\ DoneAt(s, n) = s.linearized
    BY <1>1, <1>2, <2>1 DEF StateAt, EntryAt, StackReplayed
  <2>3. Tried(h, s.cache, s.linearized, s.state, Call(x))
    BY <1>1, <2>1, <2>2 DEF LevelTried
  <2>4. Follows(h, Left(h, s.linearized), Call(x), t.entry)
    BY LeftFacts DEF LinksRestorable, Linked
  <2>5. Tried(h, s.cache, s.linearized, s.state, t.entry)
    BY <2>3, <2>4, TriedNext
  <2> QED
    BY <1>2, <1>3, <2>2, <2>5 DEF LevelTried
<1>5. ASSUME NEW k \in 0 .. n, k # n
      PROVE  LevelTried(h, t, k)
  <2>1. k < n
    BY <1>5
  <2>2. EntryAt(t, k) = EntryAt(s, k)
    BY <1>1, <1>2, <2>1 DEF EntryAt
  <2>3. LevelTried(h, s, k)
    BY <1>1
  <2> QED
    BY <1>2, <1>3, <2>2, <2>3 DEF LevelTried
<1> QED
  BY <1>2, <1>4, <1>5

-----------------------------------------------------------------------------
(* No partial linearization of longest is lost or replaced by a shorter one. *)
LongestGrows(h, longest, longest2) ==
    \A id \in DOMAIN h :
        longest[id] # Nil =>
            /\ longest2[id] # Nil
            /\ Len(longest[id]) \in Nat /\ Len(longest2[id]) \in Nat
            /\ Len(longest2[id]) >= Len(longest[id])

\* What was explored stays explored.
LEMMA ExploredMore ==
    ASSUME NEW h, WellTimed(h), NEW wanted, NEW longest, NEW longest2, LongestGrows(h, longest, longest2),
           NEW done \in SUBSET DOMAIN h, NEW state, Explored(h, wanted, longest, done, state)
    PROVE  Explored(h, wanted, longest2, done, state)
<1> SUFFICES ASSUME NEW seq \in SeqOf(DOMAIN h, Len(h)), Continues(h, done, state, seq)
             PROVE  /\ \E id \in DOMAIN h : id \notin done \cup ToSet(seq)
                    /\ wanted => \A id \in done \cup ToSet(seq) :
                                    /\ longest2[id] # Nil
                                    /\ Len(longest2[id]) >= Cardinality(done) + Len(seq)
  BY Zenon DEF Explored
<1>1. /\ \E id \in DOMAIN h : id \notin done \cup ToSet(seq)
      /\ wanted => \A id \in done \cup ToSet(seq) :
                      /\ longest[id] # Nil
                      /\ Len(longest[id]) >= Cardinality(done) + Len(seq)
  BY Zenon DEF Explored
<1>2. Len(h) \in Nat
  BY DEF WellTimed
<1>3. PICK m \in 0 .. Len(h) : seq \in [1 .. m -> DOMAIN h]
  BY <1>2, SeqOfMember
<1>4. m \in Nat
  BY <1>2
<1>5. Len(seq) \in Nat /\ DOMAIN seq = 1 .. m /\ \A k \in 1 .. m : seq[k] \in DOMAIN h
  BY <1>3, <1>4, SeqOfMember
<1>6. \A id \in done \cup ToSet(seq) : id \in DOMAIN h
  BY <1>5 DEF ToSet
<1>7. Cardinality(done) \in Nat
  BY EntriesFinite, FS_Subset, FS_CardinalityType
<1>8. ASSUME wanted, NEW id \in done \cup ToSet(seq)
      PROVE  longest2[id] # Nil /\ Len(longest2[id]) >= Cardinality(done) + Len(seq)
  <2>1. longest[id] # Nil /\ Len(longest[id]) >= Cardinality(done) + Len(seq)
    BY <1>1, <1>8
  <2>2. /\ longest2[id] # Nil /\ Len(longest[id]) \in Nat /\ Len(longest2[id]) \in Nat
        /\ Len(longest2[id]) >= Len(longest[id])
    BY <1>6, <2>1 DEF LongestGrows
  <2>3. Cardinality(done) + Len(seq) \in Nat
    BY <1>5, <1>7
  <2> QED
    BY <2>1, <2>2, <2>3
<1> QED
  BY <1>1, <1>8

\* At a return a configuration is explored: an operation that may come next was
\* called before that return, so it was passed, and the cache tells that its
\* subtree is explored, as it is not below this one on the stack.
LEMMA LevelExplored ==
    ASSUME NEW h, WellTimed(h), NEW wanted, NEW cache, NEW longest, NEW done \in SUBSET DOMAIN h,
           NEW state, NEW y \in DOMAIN h, y \notin done, Tried(h, cache, done, state, Ret(y)),
           \A c \in cache : \/ c.linearized \in SUBSET done
                            \/ Explored(h, wanted, longest, c.linearized, c.state),
           wanted => \A id \in done : longest[id] # Nil /\ Len(longest[id]) >= Cardinality(done)
    PROVE  Explored(h, wanted, longest, done, state)
<1> SUFFICES ASSUME NEW seq \in SeqOf(DOMAIN h, Len(h)), Continues(h, done, state, seq)
             PROVE  /\ \E id \in DOMAIN h : id \notin done \cup ToSet(seq)
                    /\ wanted => \A id \in done \cup ToSet(seq) :
                                    /\ longest[id] # Nil
                                    /\ Len(longest[id]) >= Cardinality(done) + Len(seq)
  BY Zenon DEF Explored
<1>1. Len(h) \in Nat
  BY DEF WellTimed
<1>2. PICK m \in 0 .. Len(h) : seq \in [1 .. m -> DOMAIN h]
  BY <1>1, SeqOfMember
<1>3. m \in Nat /\ Len(seq) = m /\ DOMAIN seq = 1 .. m
  <2>1. m \in Nat
    BY <1>1
  <2> QED
    BY <1>2, <2>1, SeqOfMember
<1>4. IsFiniteSet(done) /\ Cardinality(done) \in Nat
  BY EntriesFinite, FS_Subset, FS_CardinalityType
<1>5. CASE m = 0
  <2>1. ToSet(seq) = {}
    BY <1>3, <1>5 DEF ToSet
  <2>2. Cardinality(done) + Len(seq) = Cardinality(done)
    BY <1>3, <1>4, <1>5
  <2> QED
    BY <2>1, <2>2
<1>6. CASE m # 0
  <2>1. Len(seq) # 0
    BY <1>3, <1>6
  <2>2. PICK x : x = seq[1]
    OBVIOUS
  <2>3. /\ x \in DOMAIN h /\ x \notin done /\ StepOk(state, h[x])
        /\ \A id \in DOMAIN h : h[id].return < h[x].call => id \in done
        /\ \E rest \in SeqOf(DOMAIN h, Len(h)) :
              /\ Len(seq) = Len(rest) + 1
              /\ Len(rest) \in Nat
              /\ ToSet(seq) = {x} \cup ToSet(rest)
              /\ Continues(h, done \cup {x}, StepState(state, h[x]), rest)
    BY <2>1, <2>2, ContinuesRest
  <2>4. PICK rest \in SeqOf(DOMAIN h, Len(h)) :
              /\ Len(seq) = Len(rest) + 1
              /\ Len(rest) \in Nat
              /\ ToSet(seq) = {x} \cup ToSet(rest)
              /\ Continues(h, done \cup {x}, StepState(state, h[x]), rest)
    BY <2>3
  <2>5. TimeOf(h)[Call(x)] < TimeOf(h)[Ret(y)]
    <3>1. ~(h[y].return < h[x].call)
      BY <2>3
    <3>2. h[x].call < h[y].return
      BY <2>3, <3>1 DEF WellTimed
    <3> QED
      BY <2>3, <3>2, EntryTimes
  <2>6. PICK c : c = [linearized |-> done \cup {x}, state |-> StepState(state, h[x])]
    OBVIOUS
  <2>7. c \in cache
    <3>1. Call(x) \in Left(h, done) /\ Call(x).kind = "call" /\ Call(x).id = x
      BY <2>3, LeftFacts, EntryKinds
    <3>2. Ret(y) # Nil
      <4>1. Ret(y) \in Nodes(h)
        BY EntryKinds DEF Nodes
      <4> QED
        BY <4>1, NilNoEntry
    <3> QED
      BY <2>3, <2>5, <2>6, <3>1, <3>2, Zenon DEF Tried
  <2>8. c.linearized = done \cup {x} /\ c.state = StepState(state, h[x])
    BY <2>6
  <2>9. ~(c.linearized \in SUBSET done)
    BY <2>3, <2>8
  <2>10. Explored(h, wanted, longest, done \cup {x}, StepState(state, h[x]))
    BY <2>7, <2>8, <2>9
  <2>11. /\ \E id \in DOMAIN h : id \notin (done \cup {x}) \cup ToSet(rest)
         /\ wanted => \A id \in (done \cup {x}) \cup ToSet(rest) :
                         /\ longest[id] # Nil
                         /\ Len(longest[id]) >= Cardinality(done \cup {x}) + Len(rest)
    BY <2>4, <2>10, Zenon DEF Explored
  <2>12. Cardinality(done \cup {x}) + Len(rest) = Cardinality(done) + Len(seq)
    <3>1. Cardinality(done \cup {x}) = Cardinality(done) + 1
      BY <1>4, <2>3, FS_AddElement
    <3> QED
      BY <1>4, <2>4, <3>1
  <2>13. (done \cup {x}) \cup ToSet(rest) = done \cup ToSet(seq)
    BY <2>4
  <2> QED
    BY <2>11, <2>12, <2>13
<1> QED
  BY <1>5, <1>6

\* With everything explored from the start there is no linearization, and the
\* longest partial linearizations are known.
LEMMA RootExplored ==
    ASSUME NEW h, WellTimed(h), NEW wanted, NEW longest, Explored(h, wanted, longest, {}, InitState)
    PROVE  /\ ~IsLinearizable(h)
           /\ wanted => \A p \in Partials(h) : \A id \in ToSet(p) :
                           longest[id] # Nil /\ Len(longest[id]) >= Len(p)
<1>1. Len(h) \in Nat
  BY DEF WellTimed
<1>2. ASSUME NEW p \in Partials(h)
      PROVE  /\ \E id \in DOMAIN h : id \notin ToSet(p)
             /\ wanted => \A id \in ToSet(p) : longest[id] # Nil /\ Len(longest[id]) >= Len(p)
             /\ Len(p) # Len(h)
  <2>1. p \in SeqOf(DOMAIN h, Len(h)) /\ IsPartial(h, p)
    BY DEF Partials
  <2>2. PICK m \in 0 .. Len(h) : p \in [1 .. m -> DOMAIN h]
    BY <1>1, <2>1, SeqOfMember
  <2>3. m \in Nat
    BY <1>1
  <2>4. Len(p) = m
    BY <2>2, <2>3, SeqOfMember
  <2>5. Continues(h, {}, InitState, p)
    BY <2>1 DEF IsPartial
  <2>6. /\ \E id \in DOMAIN h : id \notin {} \cup ToSet(p)
        /\ wanted => \A id \in {} \cup ToSet(p) :
                        /\ longest[id] # Nil
                        /\ Len(longest[id]) >= Cardinality({}) + Len(p)
    BY <2>1, <2>5, Zenon DEF Explored
  <2>7. {} \cup ToSet(p) = ToSet(p)
    OBVIOUS
  <2>8. Cardinality({}) + Len(p) = Len(p)
    BY <2>3, <2>4, FS_EmptySet
  <2>9. Len(p) # Len(h)
    BY <2>1, <2>2, <2>3, <2>4, <2>6, PartialLength
  <2> QED
    BY <2>6, <2>7, <2>8, <2>9
<1> QED
  BY <1>2 DEF IsLinearizable

-----------------------------------------------------------------------------
\* The cache after a call is linearized: its configuration is on the stack.
LEMMA PushCache ==
    ASSUME NEW h, WellTimed(h), NEW s, NEW t, NEW wanted, StackReplayed(h, s), StackReplayed(h, t),
           Pushed(h, s, t), CacheExplored(h, s, wanted)
    PROVE  CacheExplored(h, t, wanted)
<1>1. PICK n \in Nat : n = Len(s.calls) /\ Len(t.calls) = n + 1
  BY StackFacts DEF Pushed
<1>2. PICK new : new = [linearized |-> t.linearized, state |-> t.state]
  OBVIOUS
<1>3. t.cache = s.cache \cup {new} /\ t.longest = s.longest
  BY <1>2, Zenon DEF Pushed
<1>4. \A k \in 1 .. n : ConfigAt(t, k) = ConfigAt(s, k)
  <2>1. \A k \in 0 .. n : DoneAt(t, k) = DoneAt(s, k) /\ StateAt(t, k) = StateAt(s, k)
    BY <1>1, PushedLevels
  <2>2. \A k \in 1 .. n : k \in 0 .. n
    OBVIOUS
  <2> QED
    BY <2>1, <2>2, Zenon DEF ConfigAt
<1>5. ConfigAt(t, n + 1) = new
  <2>1. DoneAt(t, n + 1) = t.linearized /\ StateAt(t, n + 1) = t.state
    BY <1>1, PushedLevels
  <2> QED
    BY <1>2, <2>1, Zenon DEF ConfigAt
<1>6. \A k \in 1 .. n + 1 : k \in 1 .. n \/ k = n + 1
  OBVIOUS
<1>7. n + 1 \in 1 .. n + 1 /\ \A k \in 1 .. n : k \in 1 .. n + 1
  OBVIOUS
<1>8. \A k \in 1 .. Len(t.calls) : ConfigAt(t, k) \in t.cache
  <2>1. \A k \in 1 .. n : ConfigAt(s, k) \in s.cache
    BY <1>1 DEF CacheExplored
  <2> QED
    BY <1>1, <1>3, <1>4, <1>5, <1>6, <2>1
<1>9. ASSUME NEW c \in t.cache
      PROVE  /\ c.linearized \in SUBSET DOMAIN h
             /\ \/ \E k \in 1 .. Len(t.calls) : c = ConfigAt(t, k)
                \/ Explored(h, wanted, t.longest, c.linearized, c.state)
  <2>1. CASE c = new
    <3>1. c.linearized = t.linearized
      BY <1>2, <2>1
    <3>2. t.linearized \in SUBSET DOMAIN h
      BY StackFacts
    <3> QED
      BY <1>1, <1>5, <1>7, <2>1, <3>1, <3>2
  <2>2. CASE c \in s.cache
    <3>1. /\ c.linearized \in SUBSET DOMAIN h
          /\ \/ \E k \in 1 .. n : c = ConfigAt(s, k)
             \/ Explored(h, wanted, s.longest, c.linearized, c.state)
      BY <1>1, <2>2 DEF CacheExplored
    <3>2. (\E k \in 1 .. n : c = ConfigAt(s, k)) => \E k \in 1 .. n + 1 : c = ConfigAt(t, k)
      BY <1>4, <1>7
    <3> QED
      BY <1>1, <1>3, <3>1, <3>2
  <2> QED
    BY <1>3, <2>1, <2>2
<1> QED
  BY <1>8, <1>9 DEF CacheExplored

\* What longest names is a partial linearization; no result is lost when a call
\* is undone, and the stack has been counted for all its operations.
LEMMA PopLongest ==
    ASSUME NEW h, WellTimed(h), NEW s, NEW t, NEW wanted, StackReplayed(h, s),
           Popped(h, s, t, wanted), LongestPartial(h, s)
    PROVE  /\ LongestPartial(h, t)
           /\ LongestGrows(h, s.longest, t.longest)
           /\ wanted => \A id \in s.linearized :
                           t.longest[id] # Nil /\ Len(t.longest[id]) >= Len(s.calls)
<1>1. PICK n \in Nat : n = Len(s.calls)
  BY StackFacts
<1>2. PICK q : q = Ids(s.calls)
  OBVIOUS
<1>3. q \in [1 .. n -> DOMAIN h] /\ s.linearized = ToSet(q) /\ s.linearized \in SUBSET DOMAIN h
  BY <1>1, <1>2, StackFacts
<1>4. q \in Partials(h)
  <2>1. IsPartial(h, q)
    BY <1>2 DEF StackReplayed
  <2> QED
    BY <1>3, <2>1, PartialLength
<1>5. ASSUME NEW p \in Partials(h)
      PROVE  Len(p) \in Nat /\ p # Nil
  <2>1. p \in SeqOf(DOMAIN h, Len(h)) /\ Len(h) \in Nat
    BY DEF Partials, WellTimed
  <2>2. PICK m \in 0 .. Len(h) : p \in [1 .. m -> DOMAIN h]
    BY <2>1, SeqOfMember
  <2>3. m \in Nat /\ DOMAIN h \in SUBSET Nat
    BY <2>1 DEF WellTimed
  <2>4. p \in [1 .. m -> Nat]
    BY <2>2, <2>3
  <2>5. p \in Seq(Nat) /\ Len(p) = m
    BY <2>3, <2>4, SeqOfMember
  <2> QED
    BY <2>3, <2>5, NilAssumption
<1>6. Len(q) = n /\ q # Nil
  BY <1>3, <1>4, <1>5, SeqOfMember
<1>7. DOMAIN s.longest = DOMAIN h /\ DOMAIN t.longest = DOMAIN h
  BY DEF LongestPartial, Popped
<1>8. \A id \in DOMAIN h :
         s.longest[id] # Nil => s.longest[id] \in Partials(h) /\ id \in ToSet(s.longest[id])
  BY DEF LongestPartial
<1>9. \A id \in DOMAIN h :
         t.longest[id] = IF /\ wanted /\ id \in s.linearized
                            /\ s.longest[id] = Nil \/ n > Len(s.longest[id])
                         THEN q ELSE s.longest[id]
  BY <1>1, <1>2, <1>7 DEF Popped
<1>10. ASSUME NEW id \in DOMAIN h
       PROVE  /\ t.longest[id] # Nil => t.longest[id] \in Partials(h) /\ id \in ToSet(t.longest[id])
              /\ s.longest[id] # Nil =>
                    /\ t.longest[id] # Nil
                    /\ Len(s.longest[id]) \in Nat /\ Len(t.longest[id]) \in Nat
                    /\ Len(t.longest[id]) >= Len(s.longest[id])
              /\ wanted /\ id \in s.linearized => t.longest[id] # Nil /\ Len(t.longest[id]) >= n
  <2>1. PICK a, b : a = s.longest[id] /\ b = t.longest[id]
    OBVIOUS
  <2>2. a # Nil => a \in Partials(h) /\ id \in ToSet(a) /\ Len(a) \in Nat
    BY <1>5, <1>8, <2>1
  <2>3. CASE wanted /\ id \in s.linearized /\ (a = Nil \/ n > Len(a))
    <3>1. b = q
      BY <1>9, <2>1, <2>3
    <3> QED
      BY <1>3, <1>4, <1>6, <2>1, <2>2, <2>3, <3>1
  <2>4. CASE ~(wanted /\ id \in s.linearized /\ (a = Nil \/ n > Len(a)))
    <3>1. b = a
      BY <1>9, <2>1, <2>4
    <3>2. wanted /\ id \in s.linearized => a # Nil /\ Len(a) >= n
      BY <2>2, <2>4
    <3>3. a # Nil => Len(a) >= Len(a)
      BY <2>2
    <3> QED
      BY <2>1, <2>2, <3>1, <3>2, <3>3
  <2> QED
    BY <2>3, <2>4
<1>11. LongestPartial(h, t)
  BY <1>7, <1>10 DEF LongestPartial
<1>12. LongestGrows(h, s.longest, t.longest)
  BY <1>10 DEF LongestGrows
<1> QED
  BY <1>1, <1>3, <1>10, <1>11, <1>12

\* A search that is at a return has explored its configuration.
LEMMA TopExplored ==
    ASSUME NEW h, WellTimed(h), NEW s, NEW wanted, NEW longest, StackReplayed(h, s),
           \A k \in 0 .. Len(s.calls) : LevelTried(h, s, k), CacheExplored(h, s, wanted),
           LongestGrows(h, s.longest, longest),
           NEW y \in DOMAIN h, s.entry = Ret(y), y \notin s.linearized,
           wanted => \A id \in s.linearized : longest[id] # Nil /\ Len(longest[id]) >= Len(s.calls)
    PROVE  Explored(h, wanted, longest, s.linearized, s.state)
<1>1. PICK n \in Nat : n = Len(s.calls)
  BY StackFacts
<1>2. n \in 0 .. n /\ ~(n < n)
  OBVIOUS
<1>3. /\ DoneAt(s, n) = s.linearized /\ StateAt(s, n) = s.state /\ EntryAt(s, n) = Ret(y)
      /\ Cardinality(s.linearized) = n
  BY <1>1, <1>2 DEF StackReplayed, StateAt, EntryAt
<1>4. Tried(h, s.cache, s.linearized, s.state, Ret(y))
  BY <1>1, <1>2, <1>3 DEF LevelTried
<1>5. ASSUME NEW c \in s.cache
      PROVE  \/ c.linearized \in SUBSET s.linearized
             \/ Explored(h, wanted, longest, c.linearized, c.state)
  <2>1. /\ c.linearized \in SUBSET DOMAIN h
        /\ \/ \E k \in 1 .. n : c = ConfigAt(s, k)
           \/ Explored(h, wanted, s.longest, c.linearized, c.state)
    BY <1>1 DEF CacheExplored
  <2>2. ASSUME NEW k \in 1 .. n, c = ConfigAt(s, k)
        PROVE  c.linearized \in SUBSET s.linearized
    <3>1. \A j \in 1 .. k : j \in 1 .. n
      OBVIOUS
    <3>2. DoneAt(s, k) \in SUBSET DoneAt(s, n)
      BY <3>1 DEF DoneAt
    <3> QED
      BY <1>3, <2>2, <3>2 DEF ConfigAt
  <2>3. ASSUME Explored(h, wanted, s.longest, c.linearized, c.state)
        PROVE  Explored(h, wanted, longest, c.linearized, c.state)
    BY <2>1, <2>3, ExploredMore
  <2> QED
    BY <2>1, <2>2, <2>3
<1>6. s.linearized \in SUBSET DOMAIN h
  BY StackFacts
<1>7. wanted => \A id \in s.linearized : longest[id] # Nil /\ Len(longest[id]) >= Cardinality(s.linearized)
  BY <1>1, <1>3
<1>8. PICK done, state, cache : done = s.linearized /\ state = s.state /\ cache = s.cache
  OBVIOUS
<1>9. /\ done \in SUBSET DOMAIN h /\ y \notin done /\ Tried(h, cache, done, state, Ret(y))
      /\ wanted => \A id \in done : longest[id] # Nil /\ Len(longest[id]) >= Cardinality(done)
      /\ \A c \in cache : \/ c.linearized \in SUBSET done
                          \/ Explored(h, wanted, longest, c.linearized, c.state)
  BY <1>4, <1>5, <1>6, <1>7, <1>8
<1>10. Explored(h, wanted, longest, done, state)
  BY ONLY WellTimed(h), y \in DOMAIN h, <1>9, LevelExplored
<1> QED
  BY <1>8, <1>10

\* The cache after a call is undone: its configuration is explored.
LEMMA PopCache ==
    ASSUME NEW h, WellTimed(h), NEW s, NEW t, NEW wanted, StackReplayed(h, s), Len(s.calls) # 0,
           Popped(h, s, t, wanted), CacheExplored(h, s, wanted),
           LongestGrows(h, s.longest, t.longest),
           Explored(h, wanted, t.longest, s.linearized, s.state)
    PROVE  CacheExplored(h, t, wanted)
<1>1. PICK n \in Nat : Len(s.calls) = n + 1 /\ Len(t.calls) = n
  BY PoppedLevels
<1>2. t.cache = s.cache
  BY DEF Popped
<1>3. \A k \in 1 .. n : ConfigAt(t, k) = ConfigAt(s, k)
  <2>1. \A k \in 0 .. n : DoneAt(t, k) = DoneAt(s, k) /\ StateAt(t, k) = StateAt(s, k)
    BY <1>1, PoppedLevels
  <2>2. \A k \in 1 .. n : k \in 0 .. n
    OBVIOUS
  <2> QED
    BY <2>1, <2>2, Zenon DEF ConfigAt
<1>4. DoneAt(s, n + 1) = s.linearized /\ StateAt(s, n + 1) = s.state
  BY <1>1 DEF StackReplayed, StateAt
<1>5. \A k \in 1 .. n + 1 : k \in 1 .. n \/ k = n + 1
  OBVIOUS
<1>6. \A k \in 1 .. n : k \in 1 .. n + 1
  OBVIOUS
<1>7. \A k \in 1 .. n : ConfigAt(t, k) \in t.cache
  BY <1>1, <1>2, <1>3, <1>6 DEF CacheExplored
<1>8. ASSUME NEW c \in s.cache
      PROVE  /\ c.linearized \in SUBSET DOMAIN h
             /\ \/ \E k \in 1 .. n : c = ConfigAt(t, k)
                \/ Explored(h, wanted, t.longest, c.linearized, c.state)
  <2>1. /\ c.linearized \in SUBSET DOMAIN h
        /\ \/ \E k \in 1 .. n + 1 : c = ConfigAt(s, k)
           \/ Explored(h, wanted, s.longest, c.linearized, c.state)
    BY <1>1 DEF CacheExplored
  <2>2. ASSUME NEW k \in 1 .. n + 1, c = ConfigAt(s, k), k = n + 1
        PROVE  Explored(h, wanted, t.longest, c.linearized, c.state)
    <3>1. c.linearized = s.linearized /\ c.state = s.state
      BY <1>4, <2>2 DEF ConfigAt
    <3> QED
      BY <3>1
  <2>3. ASSUME Explored(h, wanted, s.longest, c.linearized, c.state)
        PROVE  Explored(h, wanted, t.longest, c.linearized, c.state)
    BY <2>1, <2>3, ExploredMore
  <2> QED
    BY <1>3, <1>5, <2>1, <2>2, <2>3
<1> QED
  BY <1>1, <1>2, <1>7, <1>8 DEF CacheExplored

\* The cache of a search that has only its results changed.
LEMMA KeptCache ==
    ASSUME NEW h, WellTimed(h), NEW s, NEW t, NEW wanted, Kept(s, t), CacheExplored(h, s, wanted),
           LongestGrows(h, s.longest, t.longest)
    PROVE  CacheExplored(h, t, wanted)
<1>1. t.calls = s.calls /\ t.state = s.state /\ t.cache = s.cache
  BY DEF Kept
<1>2. \A k : ConfigAt(t, k) = ConfigAt(s, k)
  BY <1>1 DEF ConfigAt, DoneAt, StateAt
<1>3. ASSUME NEW c \in s.cache, Explored(h, wanted, s.longest, c.linearized, c.state)
      PROVE  Explored(h, wanted, t.longest, c.linearized, c.state)
  <2>1. c.linearized \in SUBSET DOMAIN h
    BY DEF CacheExplored
  <2> QED
    BY <1>3, <2>1, ExploredMore
<1> QED
  BY <1>1, <1>2, <1>3 DEF CacheExplored

-----------------------------------------------------------------------------
\* Where a search with a list that is not empty is.
LEMMA AtEntry ==
    ASSUME NEW h, WellTimed(h), NEW s, NEW wanted, NEW killed, SearchInv(h, s, wanted, killed),
           s.next[HeadEntry] # Nil
    PROVE  /\ s.entry.id \in DOMAIN h /\ s.entry.id \notin s.linearized
           /\ s.entry.kind = "call" => s.entry = Call(s.entry.id)
           /\ s.entry.kind = "return" => s.entry = Ret(s.entry.id)
           /\ s.entry.kind = "call" =>
                 \A id \in DOMAIN h : h[id].return < h[s.entry.id].call => id \in s.linearized
<1>1. PICK n \in Nat : n = Len(s.calls)
  BY StackFacts DEF SearchInv
<1>2. n \in 0 .. n /\ ~(n < n)
  OBVIOUS
<1>3. DoneAt(s, n) = s.linearized /\ EntryAt(s, n) = s.entry
  BY <1>1, <1>2 DEF SearchInv, StackReplayed, EntryAt
<1>4. Tried(h, s.cache, s.linearized, StateAt(s, n), s.entry)
  BY <1>1, <1>2, <1>3 DEF SearchInv, LevelTried
<1>5. Follows(h, Left(h, s.linearized), HeadEntry, s.next[HeadEntry])
  BY LeftFacts DEF SearchInv, LinksRestorable, Linked
<1>6. PICK e, done, first, state, cache :
          /\ e = s.entry /\ done = s.linearized /\ first = s.next[HeadEntry]
          /\ state = StateAt(s, n) /\ cache = s.cache
  OBVIOUS
<1>7. /\ e.id \in DOMAIN h /\ e.id \notin done
      /\ e.kind = "call" => e = Call(e.id)
      /\ e.kind = "return" => e = Ret(e.id)
      /\ e.kind = "call" => \A id \in DOMAIN h : h[id].return < h[e.id].call => id \in done
  BY <1>4, <1>5, <1>6, TriedEntry
<1> QED
  BY <1>6, <1>7

\* TryCall that linearizes the call.
LEMMA PushInv ==
    ASSUME NEW h, WellTimed(h), NEW s, NEW t, NEW wanted, NEW killed, SearchInv(h, s, wanted, killed),
           ~s.returned, s.next[HeadEntry] # Nil, s.entry.kind = "call",
           StepOk(s.state, h[s.entry.id]), Pushed(h, s, t)
    PROVE  SearchInv(h, t, wanted, killed)
<1>1. PICK x \in DOMAIN h : /\ x = s.entry.id /\ s.entry = Call(x) /\ x \notin s.linearized
                            /\ StepOk(s.state, h[x])
                            /\ \A id \in DOMAIN h : h[id].return < h[x].call => id \in s.linearized
  BY AtEntry
<1>2. /\ DOMAIN s = Locals /\ StackReplayed(h, s) /\ LinksRestorable(h, s) /\ CacheExplored(h, s, wanted)
      /\ \A k \in 0 .. Len(s.calls) : LevelTried(h, s, k)
      /\ LongestPartial(h, s)
  BY DEF SearchInv
<1>3. StackReplayed(h, t)
  BY <1>1, <1>2, PushStack
<1>4. LinksRestorable(h, t)
  BY <1>1, <1>2, PushLinks
<1>5. \A k \in 0 .. Len(t.calls) : LevelTried(h, t, k)
  BY <1>2, <1>4, PushTried
<1>6. CacheExplored(h, t, wanted)
  BY <1>2, <1>3, PushCache
<1>7. DOMAIN t = Locals /\ t.longest = s.longest /\ ~t.returned
  BY DEF Pushed
<1>8. LongestPartial(h, t)
  BY <1>2, <1>7 DEF LongestPartial
<1>9. ReturnedRight(h, t, wanted, killed)
  BY <1>7 DEF ReturnedRight
<1> QED
  BY <1>3, <1>4, <1>5, <1>6, <1>7, <1>8, <1>9 DEF SearchInv

\* TryCall that passes the call.
LEMMA MoveInv ==
    ASSUME NEW h, WellTimed(h), NEW s, NEW t, NEW wanted, NEW killed, SearchInv(h, s, wanted, killed),
           ~s.returned, s.next[HeadEntry] # Nil, s.entry.kind = "call", Kept(s, t),
           t.longest = s.longest, t.returned = s.returned, t.entry = s.next[s.entry],
           StepOk(s.state, h[s.entry.id]) =>
               cacheContains(s, s.linearized \cup {s.entry.id}, StepState(s.state, h[s.entry.id]))
    PROVE  SearchInv(h, t, wanted, killed)
<1>1. PICK x \in DOMAIN h : /\ x = s.entry.id /\ s.entry = Call(x) /\ x \notin s.linearized
  BY AtEntry
<1>2. /\ DOMAIN s = Locals /\ StackReplayed(h, s) /\ LinksRestorable(h, s) /\ CacheExplored(h, s, wanted)
      /\ \A k \in 0 .. Len(s.calls) : LevelTried(h, s, k)
      /\ LongestPartial(h, s)
  BY DEF SearchInv
<1>3. StepOk(s.state, h[x]) =>
          [linearized |-> s.linearized \cup {x}, state |-> StepState(s.state, h[x])] \in s.cache
  BY <1>1 DEF cacheContains
<1>4. \A k \in 0 .. Len(t.calls) : LevelTried(h, t, k)
  BY <1>1, <1>2, <1>3, MoveTried
<1>5. /\ DOMAIN t = Locals /\ t.calls = s.calls /\ t.next = s.next /\ t.prev = s.prev
      /\ t.linearized = s.linearized /\ t.state = s.state /\ t.cache = s.cache
  BY DEF Kept
<1>6. \A k : DoneAt(t, k) = DoneAt(s, k) /\ StateAt(t, k) = StateAt(s, k)
  BY <1>5 DEF DoneAt, StateAt
<1>7. StackReplayed(h, t)
  BY <1>2, <1>5, <1>6 DEF StackReplayed
<1>8. LinksRestorable(h, t)
  BY <1>2, <1>5, <1>6 DEF LinksRestorable, Between
<1>9. CacheExplored(h, t, wanted)
  BY <1>2, <1>5, <1>6 DEF CacheExplored, ConfigAt
<1>10. LongestPartial(h, t)
  BY <1>2 DEF LongestPartial
<1>11. ReturnedRight(h, t, wanted, killed)
  BY DEF ReturnedRight
<1> QED
  BY <1>4, <1>5, <1>7, <1>8, <1>9, <1>10, <1>11 DEF SearchInv

\* Backtrack.
LEMMA PopInv ==
    ASSUME NEW h, WellTimed(h), NEW s, NEW t, NEW wanted, NEW killed, SearchInv(h, s, wanted, killed),
           ~s.returned, s.next[HeadEntry] # Nil, s.entry.kind = "return", Len(s.calls) # 0,
           Popped(h, s, t, wanted)
    PROVE  SearchInv(h, t, wanted, killed)
<1>1. PICK y \in DOMAIN h : /\ s.entry = Ret(y) /\ y \notin s.linearized
  BY AtEntry
<1>2. /\ DOMAIN s = Locals /\ StackReplayed(h, s) /\ LinksRestorable(h, s) /\ CacheExplored(h, s, wanted)
      /\ \A k \in 0 .. Len(s.calls) : LevelTried(h, s, k)
      /\ LongestPartial(h, s)
  BY DEF SearchInv
<1>3. StackReplayed(h, t)
  BY <1>2, PopStack
<1>4. LinksRestorable(h, t)
  BY <1>2, PopLinks
<1>5. \A k \in 0 .. Len(t.calls) : LevelTried(h, t, k)
  BY <1>2, <1>4, PopTried
<1>6. /\ LongestPartial(h, t)
      /\ LongestGrows(h, s.longest, t.longest)
      /\ wanted => \A id \in s.linearized :
                      t.longest[id] # Nil /\ Len(t.longest[id]) >= Len(s.calls)
  BY <1>2, PopLongest
<1>7. PICK longest : longest = t.longest
  OBVIOUS
<1>8. /\ LongestGrows(h, s.longest, longest)
      /\ wanted => \A id \in s.linearized : longest[id] # Nil /\ Len(longest[id]) >= Len(s.calls)
  BY <1>6, <1>7
<1>9. Explored(h, wanted, longest, s.linearized, s.state)
  BY ONLY WellTimed(h), y \in DOMAIN h, <1>1, <1>2, <1>8, TopExplored
<1>10. CacheExplored(h, t, wanted)
  BY <1>2, <1>6, <1>7, <1>9, PopCache
<1>11. DOMAIN t = Locals /\ ~t.returned
  BY DEF Popped
<1>12. ReturnedRight(h, t, wanted, killed)
  BY <1>11 DEF ReturnedRight
<1> QED
  BY <1>3, <1>4, <1>5, <1>6, <1>10, <1>11, <1>12 DEF SearchInv

-----------------------------------------------------------------------------
\* What a search that returns keeps.
LEMMA VerdictInv ==
    ASSUME NEW h, WellTimed(h), NEW s, NEW t, NEW wanted, NEW killed, SearchInv(h, s, wanted, killed),
           Kept(s, t), t.entry = s.entry, LongestGrows(h, s.longest, t.longest), LongestPartial(h, t),
           ReturnedRight(h, t, wanted, killed)
    PROVE  SearchInv(h, t, wanted, killed)
<1>1. /\ DOMAIN s = Locals /\ StackReplayed(h, s) /\ LinksRestorable(h, s) /\ CacheExplored(h, s, wanted)
      /\ \A k \in 0 .. Len(s.calls) : LevelTried(h, s, k)
  BY DEF SearchInv
<1>2. /\ DOMAIN t = Locals /\ t.calls = s.calls /\ t.next = s.next /\ t.prev = s.prev
      /\ t.linearized = s.linearized /\ t.state = s.state /\ t.cache = s.cache
  BY DEF Kept
<1>3. \A k : /\ DoneAt(t, k) = DoneAt(s, k) /\ StateAt(t, k) = StateAt(s, k)
             /\ EntryAt(t, k) = EntryAt(s, k)
  BY <1>2 DEF DoneAt, StateAt, EntryAt
<1>4. StackReplayed(h, t)
  BY <1>1, <1>2, <1>3 DEF StackReplayed
<1>5. LinksRestorable(h, t)
  BY <1>1, <1>2, <1>3 DEF LinksRestorable, Between
<1>6. \A k \in 0 .. Len(t.calls) : LevelTried(h, t, k)
  BY <1>1, <1>2, <1>3 DEF LevelTried
<1>7. CacheExplored(h, t, wanted)
  BY <1>1, KeptCache
<1> QED
  BY <1>2, <1>4, <1>5, <1>6, <1>7 DEF SearchInv

\* The list is empty: the stack is a linearization.
LEMMA EmptyList ==
    ASSUME NEW h, WellTimed(h), NEW s, NEW wanted, NEW killed, SearchInv(h, s, wanted, killed),
           s.next[HeadEntry] = Nil
    PROVE  /\ IsLinearizable(h)
           /\ Ids(s.calls) \in Partials(h) /\ Len(Ids(s.calls)) = Len(h)
           /\ ToSet(Ids(s.calls)) = DOMAIN h
<1>1. StackReplayed(h, s) /\ LinksRestorable(h, s)
  BY DEF SearchInv
<1>2. Follows(h, Left(h, s.linearized), HeadEntry, Nil)
  BY <1>1, LeftFacts DEF LinksRestorable, Linked
<1>3. ASSUME NEW id \in DOMAIN h, id \notin s.linearized
      PROVE  FALSE
  <2>1. Call(id) \in Left(h, s.linearized) /\ Call(id) \in Entries(h)
    BY <1>3, LeftFacts, EntryKinds
  <2>2. TimeOf(h)[HeadEntry] < TimeOf(h)[Call(id)]
    BY <2>1, EntryTimes
  <2> QED
    BY <1>2, <2>1, <2>2 DEF Follows
<1>4. PICK n, q : n \in Nat /\ n = Len(s.calls) /\ q = Ids(s.calls)
  BY <1>1, StackFacts
<1>5. n \in Nat /\ q \in [1 .. n -> DOMAIN h] /\ s.linearized = ToSet(q) /\ s.linearized \in SUBSET DOMAIN h
  BY <1>1, <1>4, StackFacts
<1>6. IsPartial(h, q)
  BY <1>1, <1>4 DEF StackReplayed
<1>7. ToSet(q) = DOMAIN h
  BY <1>3, <1>5
<1>8. q \in Partials(h) /\ n = Len(h) /\ Len(q) = n
  BY <1>5, <1>6, <1>7, PartialLength, SeqOfMember
<1> QED
  BY <1>4, <1>7, <1>8 DEF IsLinearizable

\* The length of a partial linearization.
LEMMA PartialFacts ==
    ASSUME NEW h, WellTimed(h), NEW p \in Partials(h)
    PROVE  Len(p) \in Nat /\ p # Nil /\ Len(p) <= Len(h) /\ Len(h) \in Nat /\ ToSet(p) \in SUBSET DOMAIN h
<1>1. p \in SeqOf(DOMAIN h, Len(h)) /\ Len(h) \in Nat
  BY DEF Partials, WellTimed
<1>2. PICK m \in 0 .. Len(h) : p \in [1 .. m -> DOMAIN h]
  BY <1>1, SeqOfMember
<1>3. m \in Nat /\ DOMAIN h \in SUBSET Nat /\ m <= Len(h)
  BY <1>1 DEF WellTimed
<1>4. p \in [1 .. m -> Nat]
  BY <1>2, <1>3
<1>5. p \in Seq(Nat) /\ Len(p) = m
  BY <1>3, <1>4, SeqOfMember
<1>6. ToSet(p) \in SUBSET DOMAIN h
  BY <1>2 DEF ToSet
<1> QED
  BY <1>1, <1>3, <1>5, <1>6, NilAssumption

\* Linearizable.
LEMMA LinearizableInv ==
    ASSUME NEW h, WellTimed(h), NEW s, NEW t, NEW wanted, NEW killed, SearchInv(h, s, wanted, killed),
           s.next[HeadEntry] = Nil, Kept(s, t), t.entry = s.entry,
           DOMAIN t.longest = DOMAIN s.longest, \A id \in DOMAIN s.longest : t.longest[id] = Ids(s.calls)
    PROVE  SearchInv(h, t, wanted, killed) /\ IsLinearizable(h)
<1>1. PICK q : q = Ids(s.calls)
  OBVIOUS
<1>2. IsLinearizable(h) /\ q \in Partials(h) /\ Len(q) = Len(h) /\ ToSet(q) = DOMAIN h
  BY <1>1, EmptyList
<1>3. LongestPartial(h, s)
  BY DEF SearchInv
<1>4. DOMAIN t.longest = DOMAIN h /\ \A id \in DOMAIN h : t.longest[id] = q
  BY <1>1, <1>3 DEF LongestPartial
<1>5. \A p \in Partials(h) : Len(p) \in Nat /\ p # Nil /\ Len(p) <= Len(q) /\ Len(q) >= Len(p) /\ Len(q) \in Nat
  BY <1>2, PartialFacts
<1>6. LongestPartial(h, t)
  BY <1>2, <1>4 DEF LongestPartial
<1>7. LongestGrows(h, s.longest, t.longest)
  BY <1>2, <1>3, <1>4, <1>5 DEF LongestGrows, LongestPartial
<1>8. ReturnedRight(h, t, wanted, killed)
  <2>1. t.next[HeadEntry] = Nil
    BY DEF Kept
  <2>2. ASSUME NEW p \in Partials(h), NEW id \in ToSet(p)
        PROVE  t.longest[id] # Nil /\ Len(t.longest[id]) >= Len(p)
    <3>1. id \in DOMAIN h
      BY PartialFacts
    <3> QED
      BY <1>2, <1>4, <1>5, <3>1
  <2> QED
    BY <2>1, <2>2 DEF ReturnedRight
<1> QED
  BY <1>2, <1>6, <1>7, <1>8, VerdictInv

\* NotLinearizable.
LEMMA NotLinearizableInv ==
    ASSUME NEW h, WellTimed(h), NEW s, NEW t, NEW wanted, NEW killed, SearchInv(h, s, wanted, killed),
           s.next[HeadEntry] # Nil, s.entry.kind = "return", Len(s.calls) = 0,
           Kept(s, t), t.entry = s.entry, t.longest = s.longest
    PROVE  SearchInv(h, t, wanted, killed) /\ ~IsLinearizable(h)
<1>1. PICK y \in DOMAIN h : /\ s.entry = Ret(y) /\ y \notin s.linearized
  BY AtEntry
<1>2. /\ DOMAIN s = Locals /\ StackReplayed(h, s) /\ LinksRestorable(h, s) /\ CacheExplored(h, s, wanted)
      /\ \A k \in 0 .. Len(s.calls) : LevelTried(h, s, k)
      /\ LongestPartial(h, s)
  BY DEF SearchInv
<1>3. s.linearized = {}
  BY <1>2 DEF StackReplayed, DoneAt
<1>4. s.state = InitState
  <2>1. PICK q : q = Ids(s.calls)
    OBVIOUS
  <2>2. Len(q) = 0
    <3>1. q \in [1 .. 0 -> DOMAIN h]
      BY <1>2, <2>1, StackFacts
    <3> QED
      BY <3>1, SeqOfMember
  <2>3. Run(h, InitState, q)[0] = InitState
    <3>1. Len(q) \in Nat
      BY <2>2
    <3> QED
      BY ONLY <3>1, RunDefined
  <2>4. StateAt(s, 0) = Run(h, InitState, q)[0]
    BY <1>2, <2>1 DEF StackReplayed
  <2>5. StateAt(s, 0) = s.state
    BY DEF StateAt
  <2> QED
    BY <2>3, <2>4, <2>5
<1>5. LongestGrows(h, s.longest, s.longest)
  <2>1. ASSUME NEW id \in DOMAIN h, s.longest[id] # Nil
        PROVE  Len(s.longest[id]) \in Nat /\ Len(s.longest[id]) >= Len(s.longest[id])
    <3>1. s.longest[id] \in Partials(h)
      BY <1>2, <2>1 DEF LongestPartial
    <3>2. Len(s.longest[id]) \in Nat
      BY <3>1, PartialFacts
    <3> QED
      BY <3>2
  <2> QED
    BY <2>1 DEF LongestGrows
<1>6. PICK longest : longest = s.longest
  OBVIOUS
<1>7. /\ LongestGrows(h, s.longest, longest)
      /\ wanted => \A id \in s.linearized : longest[id] # Nil /\ Len(longest[id]) >= Len(s.calls)
  BY <1>3, <1>5, <1>6
<1>8. Explored(h, wanted, longest, s.linearized, s.state)
  BY ONLY WellTimed(h), y \in DOMAIN h, <1>1, <1>2, <1>7, TopExplored
<1>9. Explored(h, wanted, longest, {}, InitState)
  BY <1>3, <1>4, <1>8
<1>10. /\ ~IsLinearizable(h)
       /\ wanted => \A p \in Partials(h) : \A id \in ToSet(p) :
                       longest[id] # Nil /\ Len(longest[id]) >= Len(p)
  BY <1>9, RootExplored
<1>11. ReturnedRight(h, t, wanted, killed)
  BY <1>6, <1>10 DEF ReturnedRight
<1>12. LongestPartial(h, t) /\ LongestGrows(h, s.longest, t.longest)
  BY <1>2, <1>5 DEF LongestPartial
<1> QED
  BY <1>10, <1>11, <1>12, VerdictInv

-----------------------------------------------------------------------------
\* A sequence is one over its own elements.
LEMMA SeqToSet ==
    ASSUME NEW S, NEW q \in Seq(S)
    PROVE  q \in Seq(ToSet(q)) /\ Len(q) \in Nat /\ DOMAIN q = 1 .. Len(q)
BY DEF ToSet

\* lift and unlift change only the list.
LEMMA LiftFields ==
    ASSUME NEW s, DOMAIN s = Locals, NEW e, NEW l, l = lift(s, e) \/ l = unlift(s, e)
    PROVE  /\ DOMAIN l = Locals
           /\ l.linearized = s.linearized /\ l.cache = s.cache /\ l.calls = s.calls
           /\ l.state = s.state /\ l.longest = s.longest /\ l.returned = s.returned
<1>1. \E n, p : l = [s EXCEPT !.next = n, !.prev = p]
  <2>1. CASE l = lift(s, e)
    BY <2>1, Zenon DEF lift
  <2>2. CASE l = unlift(s, e)
    BY <2>2, Zenon DEF unlift
  <2> QED
    BY <2>1, <2>2
<1>2. PICK n, p : l = [s EXCEPT !.next = n, !.prev = p]
  BY <1>1
<1> QED
  BY <1>2 DEF Locals

\* The search that TryCall makes of s when it linearizes the call.
LEMMA CallPushed ==
    ASSUME NEW h, NEW s, DOMAIN s = Locals, s.calls \in Seq(ToSet(s.calls)),
           NEW l, l = lift(s, s.entry), NEW set, set = s.linearized \cup {s.entry.id},
           NEW new, new = StepState(s.state, h[s.entry.id]), NEW t,
           t = [l EXCEPT !.cache = l.cache \cup {[linearized |-> set, state |-> new]},
                         !.calls = Append(l.calls, [entry |-> s.entry, state |-> s.state]),
                         !.state = new,
                         !.linearized = set,
                         !.entry = l.next[HeadEntry]]
    PROVE  Pushed(h, s, t)
<1>1. /\ DOMAIN l = Locals /\ l.cache = s.cache /\ l.calls = s.calls
      /\ l.longest = s.longest /\ l.returned = s.returned
  BY LiftFields
<1>2. PICK c, q, top, e : /\ c = s.cache \cup {[linearized |-> set, state |-> new]}
                          /\ top = [entry |-> s.entry, state |-> s.state]
                          /\ q = Append(s.calls, top)
                          /\ e = l.next[HeadEntry]
  OBVIOUS
<1>3. t = [l EXCEPT !.cache = c, !.calls = q, !.state = new, !.linearized = set, !.entry = e]
  BY <1>1, <1>2, Zenon
<1>4. /\ DOMAIN t = Locals /\ t.cache = c /\ t.calls = q /\ t.state = new /\ t.linearized = set
      /\ t.entry = e /\ t.next = l.next /\ t.prev = l.prev /\ t.longest = l.longest
      /\ t.returned = l.returned
  BY <1>1, <1>3 DEF Locals
<1>5. PICK n \in Nat : n = Len(s.calls)
  BY SeqToSet
<1>6. /\ q \in Seq(ToSet(s.calls) \cup {top}) /\ Len(q) = n + 1
      /\ \A k \in 1 .. n : q[k] = s.calls[k]
      /\ q[n + 1] = top
  <2>1. PICK r, S : r = s.calls /\ S = ToSet(s.calls) /\ r \in Seq(S)
    OBVIOUS
  <2>2. q = Append(r, top) /\ n = Len(r)
    BY <1>2, <1>5, <2>1
  <2>3. r \in Seq(S \cup {top})
    BY <2>1
  <2> QED
    BY <2>1, <2>2, <2>3
<1>7. q \in Seq(ToSet(q))
  BY <1>6, SeqToSet
<1>8. top.entry = s.entry /\ top.state = s.state
  BY <1>2
<1> QED
  BY <1>1, <1>2, <1>4, <1>5, <1>6, <1>7, <1>8 DEF Pushed

\* The search that Backtrack makes of s.
LEMMA CallPopped ==
    ASSUME NEW h, NEW s, DOMAIN s = Locals, s.calls \in Seq(ToSet(s.calls)), s.calls # <<>>,
           NEW top, top = Last(s.calls), NEW u, u = unlift(s, top.entry), NEW wanted, NEW longest,
           longest = [id \in DOMAIN s.longest |->
                         IF /\ wanted /\ id \in s.linearized
                            /\ s.longest[id] = Nil \/ Len(s.calls) > Len(s.longest[id])
                         THEN Ids(s.calls) ELSE s.longest[id]],
           NEW t,
           t = [u EXCEPT !.longest = longest,
                         !.state = top.state,
                         !.linearized = u.linearized \ {top.entry.id},
                         !.calls = Front(u.calls),
                         !.entry = u.next[top.entry]]
    PROVE  Popped(h, s, t, wanted) /\ Len(s.calls) # 0
<1>1. /\ DOMAIN u = Locals /\ u.cache = s.cache /\ u.calls = s.calls
      /\ u.linearized = s.linearized /\ u.returned = s.returned
  BY LiftFields
<1>2. PICK q, set, st, e : /\ q = Front(s.calls) /\ set = s.linearized \ {top.entry.id}
                           /\ st = top.state /\ e = u.next[top.entry]
  OBVIOUS
<1>3. t = [u EXCEPT !.longest = longest, !.state = st, !.linearized = set, !.calls = q, !.entry = e]
  BY <1>1, <1>2, Zenon
<1>4. /\ DOMAIN t = Locals /\ t.cache = s.cache /\ t.calls = q /\ t.state = st /\ t.linearized = set
      /\ t.entry = e /\ t.next = u.next /\ t.prev = u.prev /\ t.longest = longest
      /\ t.returned = s.returned
  BY <1>1, <1>3 DEF Locals
<1>5. PICK n \in Nat : n = Len(s.calls) /\ n # 0
  BY SeqToSet
<1>6. /\ q \in Seq(ToSet(s.calls)) /\ Len(q) = n - 1
      /\ \A k \in 1 .. n - 1 : q[k] = s.calls[k]
      /\ top = s.calls[n]
  <2>1. PICK r, S : r = s.calls /\ S = ToSet(s.calls) /\ r \in Seq(S) /\ n = Len(r)
    BY <1>5
  <2>2. q = SubSeq(r, 1, n - 1) /\ top = r[n]
    BY <1>2, <1>5, <2>1 DEF Front, Last
  <2>3. n - 1 \in Nat /\ 1 \in 1 .. n /\ n - 1 \in 0 .. n
    BY <1>5
  <2> QED
    BY <2>1, <2>2, <2>3
<1>7. q \in Seq(ToSet(q))
  BY <1>6, SeqToSet
<1>8. /\ DOMAIN longest = DOMAIN s.longest
      /\ \A id \in DOMAIN s.longest :
            longest[id] = IF /\ wanted /\ id \in s.linearized
                             /\ s.longest[id] = Nil \/ Len(s.calls) > Len(s.longest[id])
                          THEN Ids(s.calls) ELSE s.longest[id]
  BY Zenon
<1>9. /\ q \in Seq(ToSet(q)) /\ Len(q) = n - 1 /\ \A k \in 1 .. n - 1 : q[k] = s.calls[k]
      /\ t.next = unlift(s, s.calls[n].entry).next /\ t.prev = unlift(s, s.calls[n].entry).prev
      /\ t.entry = t.next[s.calls[n].entry]
      /\ t.linearized = s.linearized \ {s.calls[n].entry.id}
      /\ t.state = s.calls[n].state
  BY <1>2, <1>4, <1>6, <1>7
<1>10. /\ t.calls \in Seq(ToSet(t.calls)) /\ Len(t.calls) = n - 1
       /\ \A k \in 1 .. n - 1 : t.calls[k] = s.calls[k]
       /\ DOMAIN t.longest = DOMAIN s.longest
  BY <1>4, <1>8, <1>9, Zenon
<1>11. \A id \in DOMAIN s.longest :
          t.longest[id] = IF /\ wanted /\ id \in s.linearized
                             /\ s.longest[id] = Nil \/ Len(s.calls) > Len(s.longest[id])
                          THEN Ids(s.calls) ELSE s.longest[id]
  BY <1>4, <1>8, Zenon
<1>12. Popped(h, s, t, wanted)
  BY ONLY <1>4, <1>5, <1>9, <1>10, <1>11, Zenon DEF Popped
<1> QED
  BY <1>5, <1>12

-----------------------------------------------------------------------------
\* What TryCall does to its search.
LEMMA TryCallInv ==
    ASSUME CheckerInv, NEW i \in DOMAIN parts, TryCall(i)
    PROVE  \E t : /\ search' = [search EXCEPT ![i] = t] /\ results' = results
                  /\ SearchInv(parts[i], t, computeInfo, kill)
                  /\ t.returned = search[i].returned
<1>1. PICK s, h, wanted, killed : s = search[i] /\ h = parts[i] /\ wanted = computeInfo /\ killed = kill
  OBVIOUS
<1>2. WellTimed(h) /\ SearchInv(h, s, wanted, killed)
  BY <1>1 DEF CheckerInv, SearchesInv
<1>3. ~s.returned /\ s.next[HeadEntry] # Nil /\ s.entry.kind = "call"
  BY <1>1 DEF TryCall, Searching, Running
<1>4. DOMAIN s = Locals /\ s.calls \in Seq(ToSet(s.calls))
  BY <1>2 DEF SearchInv, StackReplayed
<1>5. PICK op, new, set, l : /\ op = h[s.entry.id] /\ new = StepState(s.state, op)
                             /\ set = s.linearized \cup {s.entry.id} /\ l = lift(s, s.entry)
  OBVIOUS
<1>6. CASE StepOk(s.state, op) /\ ~cacheContains(s, set, new)
  <2>1. PICK t : t = [l EXCEPT !.cache = l.cache \cup {[linearized |-> set, state |-> new]},
                               !.calls = Append(l.calls, [entry |-> s.entry, state |-> s.state]),
                               !.state = new,
                               !.linearized = set,
                               !.entry = l.next[HeadEntry]]
    OBVIOUS
  <2>2. Continue(i, [l EXCEPT !.cache = l.cache \cup {[linearized |-> set, state |-> new]},
                              !.calls = Append(l.calls, [entry |-> s.entry, state |-> s.state]),
                              !.state = new,
                              !.linearized = set,
                              !.entry = l.next[HeadEntry]])
    BY <1>1, <1>5, <1>6, Zenon DEF TryCall
  <2>3. Continue(i, t)
    BY <2>1, <2>2
  <2>4. new = StepState(s.state, h[s.entry.id])
    BY <1>5
  <2>5. Pushed(h, s, t)
    BY ONLY <1>4, <1>5, <2>1, <2>4, CallPushed
  <2>6. SearchInv(h, t, wanted, killed)
    BY <1>2, <1>3, <1>5, <1>6, <2>5, PushInv
  <2>7. t.returned = s.returned
    BY <2>5 DEF Pushed
  <2> QED
    BY <1>1, <2>3, <2>6, <2>7 DEF Continue
<1>7. CASE ~(StepOk(s.state, op) /\ ~cacheContains(s, set, new))
  <2>1. PICK t : t = [s EXCEPT !.entry = s.next[s.entry]]
    OBVIOUS
  <2>2. Continue(i, [s EXCEPT !.entry = s.next[s.entry]])
    BY <1>1, <1>5, <1>7, Zenon DEF TryCall
  <2>3. Continue(i, t)
    BY <2>1, <2>2
  <2>4. /\ DOMAIN t = Locals /\ t.calls = s.calls /\ t.next = s.next /\ t.prev = s.prev
        /\ t.linearized = s.linearized /\ t.state = s.state /\ t.cache = s.cache
        /\ t.longest = s.longest /\ t.returned = s.returned /\ t.entry = s.next[s.entry]
    BY <1>4, <2>1 DEF Locals
  <2>5. Kept(s, t)
    BY <2>4 DEF Kept
  <2>6. StepOk(s.state, h[s.entry.id]) =>
            cacheContains(s, s.linearized \cup {s.entry.id}, StepState(s.state, h[s.entry.id]))
    BY <1>5, <1>7
  <2>7. SearchInv(h, t, wanted, killed)
    BY ONLY <1>2, <1>3, <2>4, <2>5, <2>6, MoveInv
  <2> QED
    BY <1>1, <2>3, <2>4, <2>7 DEF Continue
<1> QED
  BY <1>6, <1>7

\* What Backtrack does to its search.
LEMMA BacktrackInv ==
    ASSUME CheckerInv, NEW i \in DOMAIN parts, Backtrack(i)
    PROVE  \E t : /\ search' = [search EXCEPT ![i] = t] /\ results' = results
                  /\ SearchInv(parts[i], t, computeInfo, kill)
                  /\ t.returned = search[i].returned
<1>1. PICK s, h, wanted, killed : s = search[i] /\ h = parts[i] /\ wanted = computeInfo /\ killed = kill
  OBVIOUS
<1>2. WellTimed(h) /\ SearchInv(h, s, wanted, killed)
  BY <1>1 DEF CheckerInv, SearchesInv
<1>3. ~s.returned /\ s.next[HeadEntry] # Nil /\ s.entry.kind = "return" /\ s.calls # <<>>
  BY <1>1 DEF Backtrack, Searching, Running
<1>4. DOMAIN s = Locals /\ s.calls \in Seq(ToSet(s.calls))
  BY <1>2 DEF SearchInv, StackReplayed
<1>5. PICK top, u, longest : top = Last(s.calls) /\ u = unlift(s, top.entry) /\ longest = Longest(s)
  OBVIOUS
<1>6. longest = [id \in DOMAIN s.longest |->
                    IF /\ wanted /\ id \in s.linearized
                       /\ s.longest[id] = Nil \/ Len(s.calls) > Len(s.longest[id])
                    THEN Ids(s.calls) ELSE s.longest[id]]
  BY <1>1, <1>5, Zenon DEF Longest
<1>7. PICK t : t = [u EXCEPT !.longest = longest,
                             !.state = top.state,
                             !.linearized = u.linearized \ {top.entry.id},
                             !.calls = Front(u.calls),
                             !.entry = u.next[top.entry]]
  OBVIOUS
<1>8. Continue(i, [u EXCEPT !.longest = longest,
                            !.state = top.state,
                            !.linearized = u.linearized \ {top.entry.id},
                            !.calls = Front(u.calls),
                            !.entry = u.next[top.entry]])
  BY <1>1, <1>5, Zenon DEF Backtrack
<1>9. Continue(i, t)
  BY <1>7, <1>8
<1>10. Popped(h, s, t, wanted) /\ Len(s.calls) # 0
  BY ONLY <1>3, <1>4, <1>5, <1>6, <1>7, CallPopped
<1>11. SearchInv(h, t, wanted, killed)
  BY <1>2, <1>3, <1>10, PopInv
<1>12. t.returned = s.returned
  BY <1>10 DEF Popped
<1> QED
  BY <1>1, <1>9, <1>11, <1>12 DEF Continue

\* Linearizable: the verdict TRUE is right.
LEMMA LinearizableStep ==
    ASSUME CheckerInv, NEW i \in DOMAIN parts, Linearizable(i)
    PROVE  \E t : /\ search' = [search EXCEPT ![i] = t] /\ results' = Append(results, TRUE)
                  /\ SearchInv(parts[i], t, computeInfo, kill)
                  /\ t.returned = TRUE /\ ~search[i].returned
                  /\ IsLinearizable(parts[i])
<1>1. PICK s, h, wanted, killed : s = search[i] /\ h = parts[i] /\ wanted = computeInfo /\ killed = kill
  OBVIOUS
<1>2. WellTimed(h) /\ SearchInv(h, s, wanted, killed)
  BY <1>1 DEF CheckerInv, SearchesInv
<1>3. ~s.returned /\ s.next[HeadEntry] = Nil
  BY <1>1 DEF Linearizable, Running
<1>4. DOMAIN s = Locals
  BY <1>2 DEF SearchInv
<1>5. PICK q, longest : q = Ids(s.calls) /\ longest = [id \in DOMAIN s.longest |-> q]
  OBVIOUS
<1>6. PICK r : r = [s EXCEPT !.longest = longest]
  OBVIOUS
<1>7. PICK t : t = [r EXCEPT !.returned = TRUE]
  OBVIOUS
<1>8. Verdict(i, [s EXCEPT !.longest = [id \in DOMAIN s.longest |-> Ids(s.calls)]], TRUE)
  BY <1>1, Zenon DEF Linearizable
<1>9. search' = [search EXCEPT ![i] = t] /\ results' = Append(results, TRUE)
  BY <1>5, <1>6, <1>7, <1>8 DEF Verdict
<1>10. /\ DOMAIN t = Locals /\ t.calls = s.calls /\ t.next = s.next /\ t.prev = s.prev
       /\ t.linearized = s.linearized /\ t.state = s.state /\ t.cache = s.cache
       /\ t.longest = longest /\ t.entry = s.entry /\ t.returned = TRUE
  BY <1>4, <1>6, <1>7 DEF Locals
<1>11. Kept(s, t)
  BY <1>10 DEF Kept
<1>12. DOMAIN t.longest = DOMAIN s.longest /\ \A id \in DOMAIN s.longest : t.longest[id] = Ids(s.calls)
  BY <1>5, <1>10
<1>13. SearchInv(h, t, wanted, killed) /\ IsLinearizable(h)
  BY <1>2, <1>3, <1>10, <1>11, <1>12, LinearizableInv
<1> QED
  BY <1>1, <1>3, <1>9, <1>10, <1>13

\* NotLinearizable: the verdict FALSE is right.
LEMMA NotLinearizableStep ==
    ASSUME CheckerInv, NEW i \in DOMAIN parts, NotLinearizable(i)
    PROVE  \E t : /\ search' = [search EXCEPT ![i] = t] /\ results' = Append(results, FALSE)
                  /\ SearchInv(parts[i], t, computeInfo, kill)
                  /\ t.returned = TRUE /\ ~search[i].returned
                  /\ ~IsLinearizable(parts[i])
<1>1. PICK s, h, wanted, killed : s = search[i] /\ h = parts[i] /\ wanted = computeInfo /\ killed = kill
  OBVIOUS
<1>2. WellTimed(h) /\ SearchInv(h, s, wanted, killed)
  BY <1>1 DEF CheckerInv, SearchesInv
<1>3. ~s.returned /\ s.next[HeadEntry] # Nil /\ s.entry.kind = "return" /\ Len(s.calls) = 0
  BY <1>1 DEF NotLinearizable, Searching, Running
<1>4. DOMAIN s = Locals
  BY <1>2 DEF SearchInv
<1>5. PICK t : t = [s EXCEPT !.returned = TRUE]
  OBVIOUS
<1>6. search' = [search EXCEPT ![i] = t] /\ results' = Append(results, FALSE)
  BY <1>1, <1>5 DEF NotLinearizable, Verdict
<1>7. /\ DOMAIN t = Locals /\ t.calls = s.calls /\ t.next = s.next /\ t.prev = s.prev
      /\ t.linearized = s.linearized /\ t.state = s.state /\ t.cache = s.cache
      /\ t.longest = s.longest /\ t.entry = s.entry /\ t.returned = TRUE
  BY <1>4, <1>5 DEF Locals
<1>8. Kept(s, t)
  BY <1>7 DEF Kept
<1>9. SearchInv(h, t, wanted, killed) /\ ~IsLinearizable(h)
  BY <1>2, <1>3, <1>7, <1>8, NotLinearizableInv
<1> QED
  BY <1>1, <1>3, <1>6, <1>7, <1>9

\* Killed: the verdict means nothing.
LEMMA KilledStep ==
    ASSUME CheckerInv, NEW i \in DOMAIN parts, Killed(i)
    PROVE  \E t : /\ search' = [search EXCEPT ![i] = t] /\ results' = Append(results, FALSE)
                  /\ SearchInv(parts[i], t, computeInfo, kill)
                  /\ t.returned = TRUE /\ ~search[i].returned
                  /\ kill
<1>1. PICK s, h, wanted, killed : s = search[i] /\ h = parts[i] /\ wanted = computeInfo /\ killed = kill
  OBVIOUS
<1>2. WellTimed(h) /\ SearchInv(h, s, wanted, killed)
  BY <1>1 DEF CheckerInv, SearchesInv
<1>3. ~s.returned /\ killed
  BY <1>1 DEF Killed, Running
<1>4. DOMAIN s = Locals /\ LongestPartial(h, s)
  BY <1>2 DEF SearchInv
<1>5. PICK t : t = [s EXCEPT !.returned = TRUE]
  OBVIOUS
<1>6. search' = [search EXCEPT ![i] = t] /\ results' = Append(results, FALSE)
  BY <1>1, <1>5 DEF Killed, Verdict
<1>7. /\ DOMAIN t = Locals /\ t.calls = s.calls /\ t.next = s.next /\ t.prev = s.prev
      /\ t.linearized = s.linearized /\ t.state = s.state /\ t.cache = s.cache
      /\ t.longest = s.longest /\ t.entry = s.entry /\ t.returned = TRUE
  BY <1>4, <1>5 DEF Locals
<1>8. Kept(s, t)
  BY <1>7 DEF Kept
<1>9. LongestPartial(h, t)
  BY <1>4, <1>7 DEF LongestPartial
<1>10. LongestGrows(h, s.longest, t.longest)
  <2>1. ASSUME NEW id \in DOMAIN h, s.longest[id] # Nil
        PROVE  Len(s.longest[id]) \in Nat /\ Len(s.longest[id]) >= Len(s.longest[id])
    <3>1. s.longest[id] \in Partials(h)
      BY <1>4, <2>1 DEF LongestPartial
    <3>2. Len(s.longest[id]) \in Nat
      BY <1>2, <3>1, PartialFacts
    <3> QED
      BY <3>2
  <2> QED
    BY <1>7, <2>1 DEF LongestGrows
<1>11. ReturnedRight(h, t, wanted, killed)
  BY <1>3 DEF ReturnedRight
<1>12. SearchInv(h, t, wanted, killed)
  BY <1>2, <1>7, <1>8, <1>9, <1>10, <1>11, VerdictInv
<1> QED
  BY <1>1, <1>3, <1>6, <1>7, <1>12

-----------------------------------------------------------------------------
\* A step of one search leaves the others as they are.
LEMMA OneSearch ==
    ASSUME SearchesInv, NEW i \in DOMAIN parts, NEW t, SearchInv(parts[i], t, computeInfo, kill),
           search' = [search EXCEPT ![i] = t], UNCHANGED mainVars
    PROVE  /\ SearchesInv'
           /\ search'[i] = t
           /\ \A j \in DOMAIN parts : j # i => search'[j] = search[j]
<1>1. parts' = parts /\ computeInfo' = computeInfo /\ kill' = kill
  BY DEF mainVars
<1>2. DOMAIN search = DOMAIN parts
  <2>1. PICK D, f : D = DOMAIN parts /\ f = search
    OBVIOUS
  <2>2. f = [j \in D |-> f[j]]
    BY <2>1 DEF SearchesInv
  <2>3. DOMAIN f = D
    BY <2>2
  <2> QED
    BY <2>1, <2>3
<1>3. /\ search'[i] = t /\ \A j \in DOMAIN parts : j # i => search'[j] = search[j]
      /\ search' = [j \in DOMAIN parts |-> search'[j]]
  BY <1>2
<1>4. ASSUME NEW j \in DOMAIN parts
      PROVE  WellTimed(parts[j]) /\ SearchInv(parts[j], search'[j], computeInfo, kill)
  <2>1. WellTimed(parts[j]) /\ SearchInv(parts[j], search[j], computeInfo, kill)
    BY DEF SearchesInv
  <2> QED
    BY <1>3, <2>1
<1>5. parts \in Seq(ToSet(parts))
  BY DEF SearchesInv
<1> QED
  BY <1>1, <1>3, <1>4, <1>5 DEF SearchesInv

\* The searches that have returned are at most all.
LEMMA ReturnedFinite ==
    ASSUME SearchesInv
    PROVE  /\ Len(parts) \in Nat /\ DOMAIN parts = 1 .. Len(parts)
           /\ IsFiniteSet(Returned) /\ Cardinality(Returned) \in Nat
           /\ Cardinality(Returned) <= Len(parts)
           /\ Cardinality(Returned) = Len(parts) => Returned = DOMAIN parts
<1>1. PICK N \in Nat : N = Len(parts) /\ DOMAIN parts = 1 .. N
  BY SeqToSet DEF SearchesInv
<1>2. IsFiniteSet(1 .. N) /\ Cardinality(1 .. N) = N
  <2>1. \A b \in Nat : IsFiniteSet(1 .. b) /\ Cardinality(1 .. b) = b
    BY FS_Interval
  <2> QED
    BY <2>1
<1>3. Returned \in SUBSET (1 .. N)
  BY <1>1 DEF Returned
<1>4. IsFiniteSet(Returned) /\ Cardinality(Returned) <= N /\ (Cardinality(Returned) = N => Returned = 1 .. N)
  BY <1>2, <1>3, FS_Subset
<1>5. Cardinality(Returned) \in Nat
  BY <1>4, FS_CardinalityType
<1> QED
  BY <1>1, <1>4, <1>5

\* A step of a search that does not return.
LEMMA SearchStep ==
    ASSUME CheckerInv, NEW i \in DOMAIN parts, NEW t, SearchInv(parts[i], t, computeInfo, kill),
           search' = [search EXCEPT ![i] = t], results' = results, UNCHANGED mainVars,
           t.returned = search[i].returned
    PROVE  CheckerInv'
<1>1. SearchesInv /\ VerdictsCounted /\ VerdictsRight /\ VerdictRight /\ PartialsLongest
  BY DEF CheckerInv
<1>2. /\ SearchesInv' /\ search'[i] = t
      /\ \A j \in DOMAIN parts : j # i => search'[j] = search[j]
  BY <1>1, OneSearch
<1>3. /\ parts' = parts /\ computeInfo' = computeInfo /\ kill' = kill /\ count' = count /\ ok' = ok
      /\ timedOut' = timedOut /\ pc' = pc /\ result' = result /\ info' = info
  BY DEF mainVars
<1>4. \A j \in DOMAIN parts : search'[j].returned = search[j].returned
  BY <1>2
<1>5. Returned' = Returned
  BY <1>3, <1>4 DEF Returned
<1>6. VerdictsCounted'
  BY <1>1, <1>3, <1>5 DEF VerdictsCounted
<1>7. VerdictsRight'
  BY <1>1, <1>3, <1>5 DEF VerdictsRight
<1>8. VerdictRight' /\ PartialsLongest'
  BY <1>1, <1>3 DEF VerdictRight, PartialsLongest
<1> QED
  BY <1>2, <1>6, <1>7, <1>8 DEF CheckerInv

\* A step of a search that returns its verdict.
LEMMA VerdictStep ==
    ASSUME CheckerInv, NEW i \in DOMAIN parts, NEW t, SearchInv(parts[i], t, computeInfo, kill),
           NEW v \in BOOLEAN, search' = [search EXCEPT ![i] = t], results' = Append(results, v),
           UNCHANGED mainVars, t.returned = TRUE, ~search[i].returned,
           kill \/ (v <=> IsLinearizable(parts[i]))
    PROVE  CheckerInv'
<1>1. SearchesInv /\ VerdictsCounted /\ VerdictsRight /\ VerdictRight /\ PartialsLongest
  BY DEF CheckerInv
<1>2. /\ SearchesInv' /\ search'[i] = t
      /\ \A j \in DOMAIN parts : j # i => search'[j] = search[j]
  BY <1>1, OneSearch
<1>3. /\ parts' = parts /\ computeInfo' = computeInfo /\ kill' = kill /\ count' = count /\ ok' = ok
      /\ timedOut' = timedOut /\ pc' = pc /\ result' = result /\ info' = info
  BY DEF mainVars
<1>4. Returned' = Returned \cup {i} /\ i \notin Returned
  <2>1. \A j \in DOMAIN parts : search'[j].returned <=> search[j].returned \/ j = i
    BY <1>2
  <2> QED
    BY <1>3, <2>1 DEF Returned
<1>5. PICK n \in Nat : n = Len(results) /\ results \in Seq(BOOLEAN)
  BY <1>1 DEF VerdictsCounted
<1>6. /\ results' \in Seq(BOOLEAN) /\ Len(results') = n + 1 /\ DOMAIN results' = 1 .. n + 1
      /\ DOMAIN results = 1 .. n
      /\ \A k \in 1 .. n : results'[k] = results[k]
      /\ results'[n + 1] = v
  BY <1>5
<1>7. Cardinality(Returned') = Cardinality(Returned) + 1
  <2>1. IsFiniteSet(Returned)
    BY <1>1, ReturnedFinite
  <2> QED
    BY <1>4, <2>1, FS_AddElement
<1>8. VerdictsCounted'
  <2>1. Len(results') + count' = Cardinality(Returned')
    <3>1. n + count = Cardinality(Returned) /\ count \in Nat
      BY <1>1, <1>5 DEF VerdictsCounted
    <3> QED
      BY <1>3, <1>6, <1>7, <3>1
  <2> QED
    BY <1>1, <1>3, <1>6, <2>1 DEF VerdictsCounted
<1>9. VerdictsRight'
  <2>1. ASSUME pc = "loop"
        PROVE  /\ \A k \in DOMAIN results' :
                     ~results'[k] => \E j \in DOMAIN parts : ~IsLinearizable(parts[j])
               /\ \A j \in Returned' :
                     ~IsLinearizable(parts[j]) => ~ok \/ \E k \in DOMAIN results' : ~results'[k]
    <3>1. v <=> IsLinearizable(parts[i])
      BY <1>1, <2>1 DEF VerdictsRight
    <3>2. /\ \A k \in 1 .. n : ~results[k] => \E j \in DOMAIN parts : ~IsLinearizable(parts[j])
          /\ \A j \in Returned : ~IsLinearizable(parts[j]) => ~ok \/ \E k \in 1 .. n : ~results[k]
      BY <1>1, <1>6, <2>1 DEF VerdictsRight
    <3>3. /\ \A k \in 1 .. n + 1 : k \in 1 .. n \/ k = n + 1
          /\ n + 1 \in 1 .. n + 1
          /\ \A k \in 1 .. n : k \in 1 .. n + 1
      OBVIOUS
    <3>4. ASSUME NEW k \in DOMAIN results', ~results'[k]
          PROVE  \E j \in DOMAIN parts : ~IsLinearizable(parts[j])
      BY <1>6, <3>1, <3>2, <3>3, <3>4
    <3>5. ASSUME NEW j \in Returned', ~IsLinearizable(parts[j]), ok
          PROVE  \E k \in DOMAIN results' : ~results'[k]
      <4>1. CASE j = i
        BY <1>6, <3>1, <3>3, <3>5, <4>1
      <4>2. CASE j \in Returned
        BY <1>6, <3>2, <3>3, <3>5, <4>2
      <4> QED
        BY <1>4, <4>1, <4>2
    <3> QED
      BY <3>4, <3>5
  <2>2. ASSUME pc # "loop", ~kill
        PROVE  Returned' = DOMAIN parts
    BY <1>1, <1>4, <2>2 DEF VerdictsRight
  <2> QED
    BY <1>1, <1>3, <2>1, <2>2 DEF VerdictsRight
<1>10. VerdictRight' /\ PartialsLongest'
  BY <1>1, <1>3 DEF VerdictRight, PartialsLongest
<1> QED
  BY <1>2, <1>8, <1>9, <1>10 DEF CheckerInv

\* A step of checkSingle.
LEMMA CheckSingleStep ==
    ASSUME CheckerInv, NEW i \in DOMAIN parts, checkSingle(i)
    PROVE  CheckerInv'
<1>1. CASE Linearizable(i)
  <2>1. UNCHANGED mainVars
    BY <1>1 DEF Linearizable
  <2> QED
    BY <1>1, <2>1, LinearizableStep, VerdictStep
<1>2. CASE Killed(i)
  <2>1. UNCHANGED mainVars
    BY <1>2 DEF Killed
  <2> QED
    BY <1>2, <2>1, KilledStep, VerdictStep
<1>3. CASE TryCall(i)
  <2>1. UNCHANGED mainVars
    BY <1>3 DEF TryCall
  <2> QED
    BY <1>3, <2>1, TryCallInv, SearchStep
<1>4. CASE NotLinearizable(i)
  <2>1. UNCHANGED mainVars
    BY <1>4 DEF NotLinearizable
  <2> QED
    BY <1>4, <2>1, NotLinearizableStep, VerdictStep
<1>5. CASE Backtrack(i)
  <2>1. UNCHANGED mainVars
    BY <1>5 DEF Backtrack
  <2> QED
    BY <1>5, <2>1, BacktrackInv, SearchStep
<1> QED
  BY <1>1, <1>2, <1>3, <1>4, <1>5 DEF checkSingle

-----------------------------------------------------------------------------
\* When the searches are told to stop, less is asked of their verdicts.
LEMMA KillSearches ==
    ASSUME SearchesInv, kill => kill', kill' \in BOOLEAN, UNCHANGED <<parts, computeInfo, search>>
    PROVE  SearchesInv'
<1>1. ASSUME NEW i \in DOMAIN parts
      PROVE  SearchInv(parts[i], search[i], computeInfo, kill')
  <2>1. PICK h, s, wanted, killed, killed2 :
            /\ h = parts[i] /\ s = search[i] /\ wanted = computeInfo /\ killed = kill /\ killed2 = kill'
    OBVIOUS
  <2>2. SearchInv(h, s, wanted, killed)
    BY <2>1 DEF SearchesInv
  <2>3. killed => killed2
    BY <2>1
  <2>4. ReturnedRight(h, s, wanted, killed2)
    BY <2>2, <2>3 DEF SearchInv, ReturnedRight
  <2>5. SearchInv(h, s, wanted, killed2)
    BY <2>2, <2>4 DEF SearchInv
  <2> QED
    BY <2>1, <2>5
<1> QED
  BY <1>1 DEF SearchesInv

\* The head of the verdicts and the rest.
LEMMA TakeFirst ==
    ASSUME VerdictsCounted, results # <<>>, results' = Tail(results)
    PROVE  \E m \in Nat :
              /\ Len(results) = m + 1 /\ DOMAIN results = 1 .. m + 1
              /\ results' \in Seq(BOOLEAN) /\ Len(results') = m /\ DOMAIN results' = 1 .. m
              /\ Head(results) = results[1] /\ results[1] \in BOOLEAN
              /\ \A k \in 1 .. m : results'[k] = results[k + 1]
<1>1. results \in Seq(BOOLEAN)
  BY DEF VerdictsCounted
<1>2. PICK m \in Nat : Len(results) = m + 1
  <2>1. Len(results) \in Nat /\ Len(results) # 0
    BY <1>1
  <2>2. Len(results) - 1 \in Nat /\ Len(results) = Len(results) - 1 + 1
    BY <2>1
  <2> QED
    BY <2>2
<1> QED
  BY <1>1, <1>2

\* A verdict is counted: the loop ends when all have come in or one was FALSE.
LEMMA TakeResultStep ==
    ASSUME CheckerInv, TakeResult
    PROVE  CheckerInv'
<1>1. SearchesInv /\ VerdictsCounted /\ VerdictsRight /\ VerdictRight /\ PartialsLongest
  BY DEF CheckerInv
<1>2. /\ parts' = parts /\ computeInfo' = computeInfo /\ search' = search /\ timedOut' = timedOut
      /\ result' = result /\ info' = info /\ count' = count + 1
      /\ pc = "loop" /\ results # <<>> /\ results' = Tail(results)
  BY DEF TakeResult
<1>3. /\ ok' = (ok /\ Head(results))
      /\ kill' = (kill \/ (~ok' /\ ~computeInfo))
      /\ pc' = IF (~ok' /\ ~computeInfo) \/ count' >= Len(parts) THEN "after" ELSE "loop"
  BY DEF TakeResult
<1>4. ~kill /\ ok \in BOOLEAN /\ computeInfo \in BOOLEAN /\ count \in Nat /\ kill \in BOOLEAN
      /\ timedOut \in BOOLEAN
  BY <1>1, <1>2 DEF VerdictsRight, VerdictsCounted
<1>5. PICK m \in Nat :
          /\ Len(results) = m + 1 /\ DOMAIN results = 1 .. m + 1
          /\ results' \in Seq(BOOLEAN) /\ Len(results') = m /\ DOMAIN results' = 1 .. m
          /\ Head(results) = results[1] /\ results[1] \in BOOLEAN
          /\ \A k \in 1 .. m : results'[k] = results[k + 1]
  BY <1>1, <1>2, TakeFirst
<1>6. /\ ok' \in BOOLEAN /\ kill' \in BOOLEAN
      /\ ok' <=> ok /\ results[1]
      /\ kill' <=> ~ok' /\ ~computeInfo
  BY <1>3, <1>4, <1>5
<1>7. Returned' = Returned
  BY <1>2 DEF Returned
<1>8. SearchesInv'
  BY <1>1, <1>2, <1>4, <1>6, KillSearches
<1>9. m + (count + 1) = Cardinality(Returned)
  <2>1. (m + 1) + count = Cardinality(Returned)
    BY <1>1, <1>5 DEF VerdictsCounted
  <2> QED
    BY <1>4, <2>1
<1>10. VerdictsCounted'
  <2>1. Len(results') + count' = Cardinality(Returned')
    BY <1>2, <1>5, <1>7, <1>9
  <2>2. count' \in Nat
    BY <1>2, <1>4
  <2>3. pc' \in {"loop", "after", "done"}
    BY <1>3
  <2> QED
    BY <1>2, <1>4, <1>5, <1>6, <2>1, <2>2, <2>3 DEF VerdictsCounted
<1>11. /\ \A k \in 1 .. m + 1 : ~results[k] => \E i \in DOMAIN parts : ~IsLinearizable(parts[i])
       /\ \A i \in Returned : ~IsLinearizable(parts[i]) => ~ok \/ \E k \in 1 .. m + 1 : ~results[k]
       /\ ~ok => \E i \in DOMAIN parts : ~IsLinearizable(parts[i])
  BY <1>1, <1>2, <1>5 DEF VerdictsRight
<1>12. /\ \A k \in 1 .. m : k + 1 \in 1 .. m + 1
       /\ \A k \in 1 .. m + 1 : k = 1 \/ (k - 1 \in 1 .. m /\ k - 1 + 1 = k)
       /\ 1 \in 1 .. m + 1
  OBVIOUS
<1>13. ~ok' => \E i \in DOMAIN parts : ~IsLinearizable(parts[i])
  BY <1>6, <1>11, <1>12
<1>14. ASSUME NEW i \in Returned, ~IsLinearizable(parts[i]), ok'
       PROVE  \E k \in 1 .. m : ~results'[k]
  <2>1. PICK k \in 1 .. m + 1 : ~results[k]
    BY <1>6, <1>11, <1>14
  <2>2. k # 1
    BY <1>6, <1>14, <2>1
  <2>3. k - 1 \in 1 .. m /\ results'[k - 1] = results[k]
    BY <1>5, <1>12, <2>2
  <2> QED
    BY <2>1, <2>3
<1>15. VerdictsRight'
  <2>1. pc' = "loop" => ~kill'
    BY <1>3, <1>6
  <2>2. ASSUME NEW k \in DOMAIN results', ~results'[k]
        PROVE  \E i \in DOMAIN parts : ~IsLinearizable(parts[i])
    BY <1>5, <1>11, <1>12, <2>2
  <2>3. ASSUME NEW i \in Returned, ~IsLinearizable(parts[i]), ok'
        PROVE  \E k \in DOMAIN results' : ~results'[k]
    BY <1>5, <1>14, <2>3
  <2>4. ASSUME pc' # "loop", ok' \/ ~kill'
        PROVE  Returned = DOMAIN parts /\ m = 0
    <3>1. count + 1 >= Len(parts)
      BY <1>2, <1>3, <1>6, <2>4
    <3>2. /\ Len(parts) \in Nat /\ Cardinality(Returned) \in Nat
          /\ Cardinality(Returned) <= Len(parts)
          /\ Cardinality(Returned) = Len(parts) => Returned = DOMAIN parts
      BY <1>1, ReturnedFinite
    <3>3. Cardinality(Returned) = Len(parts) /\ m = 0
      BY <1>4, <1>9, <3>1, <3>2
    <3> QED
      BY <3>2, <3>3
  <2>5. ASSUME pc' # "loop", ok', NEW i \in DOMAIN parts
        PROVE  IsLinearizable(parts[i])
    <3>1. i \in Returned /\ ~\E k \in 1 .. m : ~results'[k]
      BY <2>4, <2>5
    <3> QED
      BY <1>14, <2>5, <3>1
  <2>6. \A i \in Returned : ~IsLinearizable(parts[i]) => ~ok' \/ \E k \in DOMAIN results' : ~results'[k]
    BY <1>6, <2>3
  <2> QED
    BY <1>2, <1>7, <1>13, <2>1, <2>2, <2>4, <2>5, <2>6 DEF VerdictsRight
<1>16. VerdictRight' /\ PartialsLongest'
  <2>1. pc' # "done"
    BY <1>3
  <2> QED
    BY <1>1, <1>2, <2>1 DEF VerdictRight, PartialsLongest
<1> QED
  BY <1>8, <1>10, <1>15, <1>16 DEF CheckerInv

\* After the time-out nothing is concluded from what did not fail.
LEMMA TimeOutStep ==
    ASSUME CheckerInv, TimeOut
    PROVE  CheckerInv'
<1>1. SearchesInv /\ VerdictsCounted /\ VerdictsRight /\ VerdictRight /\ PartialsLongest
  BY DEF CheckerInv
<1>2. /\ parts' = parts /\ computeInfo' = computeInfo /\ search' = search /\ results' = results
      /\ count' = count /\ ok' = ok /\ result' = result /\ info' = info
      /\ timedOut' = TRUE /\ kill' = TRUE /\ pc' = "after"
  BY DEF TimeOut
<1>3. Returned' = Returned
  BY <1>2 DEF Returned
<1>4. SearchesInv'
  BY <1>1, <1>2, KillSearches
<1>5. VerdictsCounted'
  BY <1>1, <1>2, <1>3 DEF VerdictsCounted
<1>6. VerdictsRight'
  BY <1>1, <1>2 DEF VerdictsRight
<1>7. VerdictRight' /\ PartialsLongest'
  BY <1>1, <1>2 DEF VerdictRight, PartialsLongest
<1> QED
  BY <1>4, <1>5, <1>6, <1>7 DEF CheckerInv

\* Verdicts that come after the loop are counted and not used.
LEMMA DrainStep ==
    ASSUME CheckerInv, Drain
    PROVE  CheckerInv'
<1>1. SearchesInv /\ VerdictsCounted /\ VerdictsRight /\ VerdictRight /\ PartialsLongest
  BY DEF CheckerInv
<1>2. /\ parts' = parts /\ computeInfo' = computeInfo /\ search' = search /\ kill' = kill
      /\ ok' = ok /\ timedOut' = timedOut /\ pc' = pc /\ result' = result /\ info' = info
      /\ count' = count + 1 /\ pc = "after" /\ results # <<>> /\ results' = Tail(results)
  BY DEF Drain
<1>3. Returned' = Returned
  BY <1>2 DEF Returned
<1>4. PICK m \in Nat : Len(results) = m + 1 /\ results' \in Seq(BOOLEAN) /\ Len(results') = m
  BY <1>1, <1>2, TakeFirst
<1>5. SearchesInv'
  BY <1>1, <1>2 DEF SearchesInv
<1>6. VerdictsCounted'
  <2>1. (m + 1) + count = Cardinality(Returned) /\ count \in Nat
    BY <1>1, <1>4 DEF VerdictsCounted
  <2>2. Len(results') + count' = Cardinality(Returned') /\ count' \in Nat
    BY <1>2, <1>3, <1>4, <2>1
  <2> QED
    BY <1>1, <1>2, <1>4, <2>2 DEF VerdictsCounted
<1>7. VerdictsRight'
  BY <1>1, <1>2, <1>3 DEF VerdictsRight
<1>8. VerdictRight' /\ PartialsLongest'
  BY <1>1, <1>2 DEF VerdictRight, PartialsLongest
<1> QED
  BY <1>5, <1>6, <1>7, <1>8 DEF CheckerInv

\* The result and the report.
LEMMA ConcludeStep ==
    ASSUME CheckerInv, Conclude
    PROVE  CheckerInv'
<1>1. SearchesInv /\ VerdictsCounted /\ VerdictsRight /\ VerdictRight /\ PartialsLongest
  BY DEF CheckerInv
<1>2. /\ parts' = parts /\ computeInfo' = computeInfo /\ search' = search /\ results' = results
      /\ kill' = kill /\ count' = count /\ ok' = ok /\ timedOut' = timedOut
      /\ pc = "after" /\ pc' = "done"
      /\ result' = IF ~ok THEN "Illegal" ELSE IF timedOut THEN "Unknown" ELSE "Ok"
  BY DEF Conclude
<1>3. Returned' = Returned
  BY <1>2 DEF Returned
<1>4. SearchesInv'
  BY <1>1, <1>2 DEF SearchesInv
<1>5. VerdictsCounted'
  BY <1>1, <1>2, <1>3 DEF VerdictsCounted
<1>6. VerdictsRight'
  BY <1>1, <1>2, <1>3 DEF VerdictsRight
<1>7. VerdictRight'
  <2>1. ~ok => \E i \in DOMAIN parts : ~IsLinearizable(parts[i])
    BY <1>1 DEF VerdictsRight
  <2>2. ok /\ ~timedOut => \A i \in DOMAIN parts : IsLinearizable(parts[i])
    BY <1>1, <1>2 DEF VerdictsRight
  <2> QED
    BY <1>2, <2>1, <2>2 DEF VerdictRight
<1>8. ASSUME computeInfo, NEW i \in DOMAIN parts
      PROVE  /\ info'[i] \subseteq Partials(parts[i])
             /\ ~kill => \A p \in Partials(parts[i]) : \A id \in ToSet(p) :
                            \E q \in info'[i] : id \in ToSet(q) /\ Len(q) >= Len(p)
  <2>1. info'[i] = {search[i].longest[id] : id \in DOMAIN parts[i]} \ {Nil}
    BY <1>8 DEF Conclude
  <2>2. PICK h, s, killed : h = parts[i] /\ s = search[i] /\ killed = kill
    OBVIOUS
  <2>3. WellTimed(h) /\ LongestPartial(h, s) /\ ReturnedRight(h, s, computeInfo, killed)
    BY <1>1, <2>2 DEF SearchesInv, SearchInv
  <2>4. info'[i] \subseteq Partials(h)
    BY <2>1, <2>2, <2>3 DEF LongestPartial
  <2>5. ASSUME ~killed, NEW p \in Partials(h), NEW id \in ToSet(p)
        PROVE  \E q \in info'[i] : id \in ToSet(q) /\ Len(q) >= Len(p)
    <3>1. s.returned
      BY <1>1, <1>2, <2>2, <2>5 DEF VerdictsRight, Returned
    <3>2. s.longest[id] # Nil /\ Len(s.longest[id]) >= Len(p)
      BY <1>8, <2>3, <2>5, <3>1 DEF ReturnedRight
    <3>3. id \in DOMAIN h
      BY <2>3, PartialFacts
    <3>4. id \in ToSet(s.longest[id])
      BY <2>3, <3>2, <3>3 DEF LongestPartial
    <3> QED
      BY <2>1, <2>2, <3>2, <3>3, <3>4
  <2> QED
    BY <2>2, <2>4, <2>5
<1>9. PartialsLongest'
  BY <1>2, <1>8 DEF PartialsLongest
<1> QED
  BY <1>4, <1>5, <1>6, <1>7, <1>9 DEF CheckerInv

\* Every step of checkParallel and of the searches keeps the invariant.
LEMMA CheckerStep ==
    ASSUME CheckerInv, [Next]_vars
    PROVE  CheckerInv'
<1>1. CASE \E i \in DOMAIN parts : checkSingle(i)
  BY <1>1, CheckSingleStep
<1>2. CASE checkParallel
  BY <1>2, TakeResultStep, TimeOutStep, DrainStep, ConcludeStep DEF checkParallel
<1>3. CASE UNCHANGED vars
  BY <1>3 DEF vars, CheckerInv, SearchesInv, VerdictsCounted, VerdictsRight, VerdictRight, PartialsLongest, Returned
<1> QED
  BY <1>1, <1>2, <1>3 DEF Next

-----------------------------------------------------------------------------
\* A part of a history that has some of its operations in their order.
LEMMA PartWellTimed ==
    ASSUME NEW h, WellTimed(h), NEW m \in Nat, NEW a \in [1 .. m -> DOMAIN h],
           \A j, k \in 1 .. m : j < k => a[j] < a[k],
           NEW part, part = [n \in 1 .. m |-> h[a[n]]]
    PROVE  WellTimed(part) /\ Len(part) = m
<1>1. Len(part) = m /\ DOMAIN part = 1 .. m
  BY DEF Len
<1>2. \A k \in 1 .. m : a[k] \in DOMAIN h /\ a[k] \in Nat /\ part[k] = h[a[k]]
  BY DEF WellTimed
<1>3. \A j, k \in 1 .. m : j # k => a[j] # a[k]
  <2>1. ASSUME NEW j \in 1 .. m, NEW k \in 1 .. m, j # k
        PROVE  a[j] # a[k]
    <3>1. a[j] \in Nat /\ a[k] \in Nat /\ (j < k \/ k < j)
      BY <1>2, <2>1
    <3> QED
      BY <3>1
  <2> QED
    BY <2>1
<1>4. /\ \A i \in DOMAIN h :
            h[i].call \in Nat \ {0} /\ h[i].return \in Nat /\ h[i].call < h[i].return
      /\ \A i, j \in DOMAIN h : h[i].call # h[j].return
      /\ \A i, j \in DOMAIN h : i # j => h[i].call # h[j].call /\ h[i].return # h[j].return
  BY DEF WellTimed
<1>5. \A k \in 1 .. m : /\ part[k].call \in Nat \ {0} /\ part[k].return \in Nat
                        /\ part[k].call < part[k].return
  BY <1>2, <1>4
<1>6. \A j, k \in 1 .. m : /\ part[j].call # part[k].return
                           /\ j # k => part[j].call # part[k].call /\ part[j].return # part[k].return
  BY <1>2, <1>3, <1>4
<1> QED
  BY <1>1, <1>5, <1>6 DEF WellTimed

\* The sort of a set of numbers.
LEMMA NumbersInOrder ==
    ASSUME NEW S \in SUBSET Nat, IsFiniteSet(S), NEW q, q = InOrder(S, [e \in S |-> e])
    PROVE  /\ Cardinality(S) \in Nat
           /\ q \in [1 .. Cardinality(S) -> S]
           /\ \A j, k \in 1 .. Cardinality(S) : j < k => q[j] < q[k]
<1>1. PICK time : time = [e \in S |-> e]
  OBVIOUS
<1>2. \A e \in S : time[e] = e
  BY <1>1
<1>3. (\A e \in S : time[e] \in Nat) /\ \A e, f \in S : time[e] = time[f] => e = f
  BY <1>2
<1>4. /\ Cardinality(S) \in Nat
      /\ InOrder(S, time) \in [1 .. Cardinality(S) -> S]
      /\ \A j, k \in 1 .. Cardinality(S) :
            j < k => time[InOrder(S, time)[j]] < time[InOrder(S, time)[k]]
  BY ONLY IsFiniteSet(S), <1>3, InOrderSorted
<1>5. q = InOrder(S, time)
  BY <1>1
<1> QED
  BY <1>2, <1>4, <1>5

\* checkOperations: every part is a history of its own with an operation.
LEMMA Partitioned ==
    ASSUME NEW h, WellTimed(h), \A i \in DOMAIN h : h[i].key \in Nat,
           NEW ps, ps = PartitionByKey(h)
    PROVE  /\ ps \in Seq(ToSet(ps))
           /\ \A p \in DOMAIN ps : WellTimed(ps[p]) /\ Len(ps[p]) # 0
<1> DEFINE ks == {h[i].key : i \in DOMAIN h}
           keys == InOrder(ks, [key \in ks |-> key])
           ids(p) == {i \in DOMAIN h : h[i].key = keys[p]}
           at(p) == InOrder(ids(p), [i \in ids(p) |-> i])
<1>1. IsFiniteSet(DOMAIN h) /\ DOMAIN h \in SUBSET Nat
  <2>1. IsFiniteSet(DOMAIN h)
    BY EntriesFinite
  <2>2. DOMAIN h \in SUBSET Nat
    BY DEF WellTimed
  <2> QED
    BY <2>1, <2>2
<1>2. IsFiniteSet(ks) /\ ks \in SUBSET Nat
  <2>1. PICK f : f = [i \in DOMAIN h |-> h[i].key]
    OBVIOUS
  <2>2. f \in Surjection(DOMAIN h, ks)
    BY <2>1 DEF Surjection
  <2>3. IsFiniteSet(ks)
    BY <1>1, <2>2, FS_Surjection
  <2> QED
    BY <2>3
<1>3. PICK n, q : n \in Nat /\ q = keys /\ q \in [1 .. n -> ks]
  <2>1. PICK S : S = ks
    OBVIOUS
  <2>2. /\ Cardinality(S) \in Nat
        /\ InOrder(S, [key \in S |-> key]) \in [1 .. Cardinality(S) -> S]
    BY <1>2, <2>1, NumbersInOrder
  <2> QED
    BY <2>1, <2>2
<1>4. ps = [p \in 1 .. n |-> [k \in DOMAIN at(p) |-> h[at(p)[k]]]]
  <2>1. ps = [p \in DOMAIN keys |-> [k \in DOMAIN at(p) |-> h[at(p)[k]]]]
    BY Zenon DEF PartitionByKey
  <2>2. DOMAIN keys = 1 .. n
    BY <1>3
  <2> HIDE DEF keys, at
  <2> QED
    BY <2>1, <2>2
<1>5. ASSUME NEW p \in 1 .. n
      PROVE  WellTimed(ps[p]) /\ Len(ps[p]) # 0
  <2>1. PICK S, a : S = ids(p) /\ a = at(p)
    OBVIOUS
  <2>2. S \in SUBSET DOMAIN h /\ S # {}
    <3>1. q[p] \in ks
      BY <1>3
    <3>2. PICK i \in DOMAIN h : h[i].key = q[p]
      BY <3>1
    <3> QED
      BY <1>3, <2>1, <3>2
  <2>3. IsFiniteSet(S) /\ S \in SUBSET Nat
    BY <1>1, <2>2, FS_Subset
  <2>4. a = InOrder(S, [i \in S |-> i])
    BY <2>1
  <2>5. PICK m \in Nat : m = Cardinality(S) /\ a \in [1 .. m -> S] /\ \A j, k \in 1 .. m : j < k => a[j] < a[k]
    BY <2>3, <2>4, NumbersInOrder
  <2>6. m # 0
    BY <2>2, <2>3, <2>5, FS_EmptySet
  <2>7. a \in [1 .. m -> DOMAIN h] /\ DOMAIN a = 1 .. m
    BY <2>2, <2>5
  <2>8. ps[p] = [k \in 1 .. m |-> h[a[k]]]
    <3>1. ps[p] = [k \in DOMAIN at(p) |-> h[at(p)[k]]]
      <4> HIDE DEF at
      <4> QED
        BY <1>4
    <3> HIDE DEF at
    <3> QED
      BY <2>1, <2>7, <3>1
  <2>9. PICK part : part = ps[p]
    OBVIOUS
  <2>10. part = [k \in 1 .. m |-> h[a[k]]] /\ \A j, k \in 1 .. m : j < k => a[j] < a[k]
    BY <2>5, <2>8, <2>9
  <2>11. WellTimed(part) /\ Len(part) = m
    BY ONLY WellTimed(h), m \in Nat, <2>7, <2>10, PartWellTimed
  <2> QED
    BY <2>6, <2>9, <2>11
<1>6. ps \in Seq(ToSet(ps)) /\ DOMAIN ps = 1 .. n
  <2>1. DOMAIN ps = 1 .. n /\ ps = [p \in 1 .. n |-> ps[p]]
    BY <1>4
  <2>2. ps \in [1 .. n -> ToSet(ps)]
    BY <2>1 DEF ToSet
  <2>3. n \in Nat
    BY <1>3
  <2> QED
    BY <2>1, <2>2, <2>3, SeqOfMember
<1> QED
  BY <1>5, <1>6

\* A new search.
LEMMA NewSearchInv ==
    ASSUME NEW h, WellTimed(h), Len(h) # 0, NEW wanted, NEW killed, NEW s, s = NewSearch(h)
    PROVE  SearchInv(h, s, wanted, killed) /\ s.returned = FALSE
<1>1. /\ DOMAIN s = Locals /\ s.entry = makeEntries(h)[1] /\ s.next = LinkNext(h)
      /\ s.prev = LinkPrev(h) /\ s.linearized = {} /\ s.cache = {} /\ s.calls = <<>>
      /\ s.state = InitState /\ s.longest = [id \in DOMAIN h |-> Nil] /\ s.returned = FALSE
  BY DEF NewSearch, Locals
<1>2. Len(s.calls) = 0 /\ DOMAIN s.calls = {} /\ s.calls \in Seq(ToSet(s.calls))
  BY <1>1
<1>3. DoneAt(s, 0) = {} /\ StateAt(s, 0) = InitState /\ EntryAt(s, 0) = makeEntries(h)[1]
  BY <1>1, <1>2 DEF DoneAt, StateAt, EntryAt
<1>4. StackReplayed(h, s)
  <2>1. PICK q : q = Ids(s.calls)
    OBVIOUS
  <2>2. DOMAIN q = {} /\ q = <<>>
    BY <1>2, <2>1 DEF Ids
  <2>3. IsPartial(h, q)
    BY <2>2 DEF IsPartial, Continues, IsInjective
  <2>4. Run(h, InitState, q)[0] = InitState
    <3>1. Len(q) \in Nat
      BY <2>2
    <3> QED
      BY ONLY <3>1, RunDefined
  <2>5. Cardinality(s.linearized) = Len(s.calls)
    BY <1>1, <1>2, FS_EmptySet
  <2>6. \A k \in 0 .. Len(s.calls) : StateAt(s, k) = Run(h, InitState, q)[k]
    BY <1>2, <1>3, <2>4
  <2>7. s.linearized = DoneAt(s, Len(s.calls))
    BY <1>1, <1>2, <1>3
  <2> QED
    BY <1>2, <2>1, <2>3, <2>5, <2>6, <2>7 DEF StackReplayed
<1>5. Left(h, {}) = Nodes(h)
  BY DEF Left, Nodes
<1>6. LinksRestorable(h, s)
  <2>1. /\ LinkNext(h) = [n \in Nodes(h) |-> LinkNext(h)[n]]
        /\ LinkPrev(h) = [n \in Nodes(h) |-> LinkPrev(h)[n]]
        /\ Linked(h, Nodes(h), LinkNext(h), LinkPrev(h))
    BY NewLinked
  <2>2. DOMAIN s.next = Nodes(h) /\ DOMAIN s.prev = Nodes(h)
    BY <1>1, <2>1
  <2>3. Linked(h, Left(h, s.linearized), s.next, s.prev)
    BY <1>1, <1>5, <2>1
  <2> QED
    BY <1>2, <2>2, <2>3 DEF LinksRestorable
<1>7. \A k \in 0 .. Len(s.calls) : LevelTried(h, s, k)
  <2>1. PICK e : e = makeEntries(h)[1]
    OBVIOUS
  <2>2. e \in Entries(h) /\ \A f \in Entries(h) : TimeOf(h)[e] <= TimeOf(h)[f]
    BY <2>1, FirstEntry
  <2>3. \A f \in Nodes(h) : f # HeadEntry => f \in Entries(h)
    BY DEF Nodes
  <2>4. \A f \in Entries(h) : f \in Nodes(h) /\ f # HeadEntry /\ TimeOf(h)[f] \in Nat
    BY EntryKinds, EntryTimes DEF Nodes
  <2>5. \A f \in Entries(h) : ~(TimeOf(h)[f] < TimeOf(h)[e])
    BY <2>2, <2>4
  <2>6. Tried(h, s.cache, {}, InitState, e)
    BY <1>5, <2>2, <2>3, <2>4, <2>5, EntryKinds DEF Tried
  <2>7. LevelTried(h, s, 0)
    BY <1>3, <2>1, <2>6 DEF LevelTried
  <2> QED
    BY <1>2, <2>7
<1>8. CacheExplored(h, s, wanted)
  BY <1>1, <1>2 DEF CacheExplored
<1>9. LongestPartial(h, s)
  BY <1>1 DEF LongestPartial
<1>10. ReturnedRight(h, s, wanted, killed)
  BY <1>1 DEF ReturnedRight
<1> QED
  BY <1>1, <1>4, <1>6, <1>7, <1>8, <1>9, <1>10 DEF SearchInv

\* The checker starts with it.
LEMMA CheckerInit ==
    ASSUME Init
    PROVE  CheckerInv
<1>1. PICK h \in Histories : checkOperations(h)
  BY DEF Init
<1>2. WellTimed(h) /\ \A i \in DOMAIN h : h[i].key \in Nat
  BY PorcupineAssumption
<1>3. parts = PartitionByKey(h) /\ search = [i \in DOMAIN parts |-> NewSearch(parts[i])]
  BY <1>1 DEF checkOperations
<1>4. /\ parts \in Seq(ToSet(parts))
      /\ \A i \in DOMAIN parts : WellTimed(parts[i]) /\ Len(parts[i]) # 0
  BY <1>2, <1>3, Partitioned
<1>5. \A i \in DOMAIN parts : search[i] = NewSearch(parts[i])
  BY <1>3
<1>6. search = [i \in DOMAIN parts |-> search[i]]
  BY <1>3
<1>7. \A i \in DOMAIN parts : SearchInv(parts[i], search[i], computeInfo, kill) /\ search[i].returned = FALSE
  BY <1>4, <1>5, NewSearchInv
<1>8. SearchesInv
  BY <1>4, <1>6, <1>7 DEF SearchesInv
<1>9. Returned = {}
  BY <1>7 DEF Returned
<1>10. /\ computeInfo \in BOOLEAN /\ results = <<>> /\ kill = FALSE /\ count = 0 /\ ok = TRUE
       /\ timedOut = FALSE /\ pc = "loop" /\ result = Nil
  BY DEF Init
<1>11. VerdictsCounted
  <2>1. Cardinality(Returned) = 0
    BY <1>9, FS_EmptySet
  <2>2. Len(results) = 0 /\ results \in Seq(BOOLEAN)
    BY <1>10
  <2>3. count \in Nat /\ Len(results) + count = Cardinality(Returned)
    BY <1>10, <2>1, <2>2
  <2>4. ok \in BOOLEAN /\ kill \in BOOLEAN /\ timedOut \in BOOLEAN
    BY <1>10, Zenon
  <2>5. pc \in {"loop", "after", "done"}
    BY <1>10
  <2> QED
    BY <1>10, <2>2, <2>3, <2>4, <2>5, Zenon DEF VerdictsCounted
<1>12. VerdictsRight
  BY <1>9, <1>10 DEF VerdictsRight
<1>13. VerdictRight /\ PartialsLongest
  BY <1>10, NilAssumption DEF VerdictRight, PartialsLongest
<1> QED
  BY <1>8, <1>11, <1>12, <1>13 DEF CheckerInv

-----------------------------------------------------------------------------
(* The invariant of the checker: every search keeps its stack, its list, its *)
(* cache and its results in step (lift, unlift and the cache of              *)
(* checkSingle), and the verdicts that checkParallel has counted are theirs. *)
THEOREM CheckerInvariant == Spec => []CheckerInv
<1>1. Init => CheckerInv
  BY CheckerInit
<1>2. CheckerInv /\ [Next]_vars => CheckerInv'
  BY CheckerStep
<1> QED
  BY <1>1, <1>2, PTL DEF Spec

(* The list of a search is the history without what it has linearized, and   *)
(* its state is theirs replayed: lift and unlift undo each other.            *)
THEOREM SearchConsistentAlways == Spec => []SearchConsistent
<1>1. CheckerInv => SearchConsistent
  <2> SUFFICES ASSUME CheckerInv, NEW i \in DOMAIN parts
               PROVE  LET s == search[i]
                      IN  /\ Linked(parts[i], Left(parts[i], s.linearized), s.next, s.prev)
                          /\ s.linearized = ToSet(Ids(s.calls))
                          /\ IsPartial(parts[i], Ids(s.calls))
                          /\ s.state = Run(parts[i], InitState, Ids(s.calls))[Len(s.calls)]
    BY DEF SearchConsistent
  <2>1. PICK h, s : h = parts[i] /\ s = search[i]
    OBVIOUS
  <2>2. StackReplayed(h, s) /\ LinksRestorable(h, s)
    BY <2>1 DEF CheckerInv, SearchesInv, SearchInv
  <2>3. PICK n \in Nat : n = Len(s.calls)
    BY <2>2, StackFacts
  <2>4. n \in 0 .. n /\ StateAt(s, n) = s.state
    BY <2>3 DEF StateAt
  <2>5. s.state = Run(h, InitState, Ids(s.calls))[n]
    BY <2>2, <2>3, <2>4 DEF StackReplayed
  <2>6. Linked(h, Left(h, s.linearized), s.next, s.prev) /\ IsPartial(h, Ids(s.calls))
    BY <2>2 DEF LinksRestorable, StackReplayed
  <2>7. s.linearized = ToSet(Ids(s.calls))
    BY <2>2, StackFacts
  <2> QED
    BY <2>1, <2>3, <2>5, <2>6, <2>7
<1> QED
  BY <1>1, CheckerInvariant, PTL

(* The verdict of checkParallel is right: Ok only when every part of the     *)
(* history is linearizable, Illegal only when one is not, whatever searches  *)
(* were killed, and Unknown only after a time-out.                           *)
THEOREM VerdictRightAlways == Spec => []VerdictRight
<1>1. CheckerInv => VerdictRight
  BY DEF CheckerInv
<1> QED
  BY <1>1, CheckerInvariant, PTL

(* The partial linearizations of the report are partial linearizations, and  *)
(* unless a search was cut short there is none longer with the same          *)
(* operation.                                                                *)
THEOREM PartialsLongestAlways == Spec => []PartialsLongest
<1>1. CheckerInv => PartialsLongest
  BY DEF CheckerInv
<1> QED
  BY <1>1, CheckerInvariant, PTL
=============================================================================
