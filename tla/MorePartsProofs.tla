-------------------------- MODULE MorePartsProofs --------------------------
(***************************************************************************)
(* Proofs about the other parts of MCParts: Signal, Flag and IniConfigLoad *)
(* for any values of their constants, and BlockQueue, whose own proofs are *)
(* carried over.                                                           *)
(***************************************************************************)
EXTENDS PartsProofs

-----------------------------------------------------------------------------
(* Signal.  Slots that know their own index, and of which no two are the   *)
(* same.                                                                   *)
Slot == [id : Nat, fn : S!AnyFn, obj : S!AnyObj, index : Nat]

Numbered(slts) ==
    /\ slts \in Seq(Slot)
    /\ \A m \in 1..Len(slts) : slts[m].index = m - 1
    /\ \A m, n \in 1..Len(slts) : slts[m].id = slts[n].id => m = n

LEMMA SwapOutIs ==
    ASSUME NEW slts, Numbered(slts), NEW n \in 1..Len(slts)
    PROVE  LET t == S!SwapOut(slts, n)
           IN  /\ Numbered(t)
               /\ Len(t) = Len(slts) - 1
               /\ \A m \in 1..Len(slts) - 1 :
                     t[m].id = IF m = n THEN slts[Len(slts)].id ELSE slts[m].id
<1> DEFINE l == Len(slts)
           last == [slts[l] EXCEPT !.index = n - 1]
           s == [slts EXCEPT ![n] = last]
           t == S!SwapOut(slts, n)
<1>1. slts \in Seq(Slot) /\ l \in Nat /\ n \in 1..l /\ l \in 1..l /\ l - 1 \in Nat
  BY DEF Numbered
<1>2. slts[l] \in Slot
  BY <1>1
<1>3. last \in Slot /\ last.id = slts[l].id /\ last.index = n - 1
  <2>1. n - 1 \in Nat
    BY <1>1
  <2> QED  BY <1>2, <2>1 DEF Slot
<1> HIDE DEF last
<1>4. s \in Seq(Slot) /\ Len(s) = l /\ \A m \in 1..l : s[m] = IF m = n THEN last ELSE slts[m]
  BY <1>1, <1>3
<1> HIDE DEF l
<1>5. t = SubSeq(s, 1, l - 1)
  BY <1>4 DEF S!SwapOut, S!Front, S!Last, last, l
<1> HIDE DEF s, t
<1>6. t \in Seq(Slot) /\ Len(t) = l - 1 /\ \A m \in 1..l - 1 : t[m] = s[m]
  BY <1>1, <1>4, <1>5
<1>7. \A m \in 1..l - 1 : t[m] = IF m = n THEN last ELSE slts[m]
  BY <1>1, <1>4, <1>6
<1>8. \A m \in 1..l - 1 : t[m].index = m - 1
  <2> TAKE m \in 1..l - 1
  <2>1. m \in 1..l
    BY <1>1
  <2>2. slts[m].index = m - 1
    BY <2>1 DEF Numbered, l
  <2> QED  BY <1>3, <1>7, <2>2
<1>9. \A m \in 1..l - 1 : t[m].id = IF m = n THEN slts[l].id ELSE slts[m].id
  BY <1>3, <1>7
<1>10. ASSUME NEW m \in 1..l - 1, NEW k \in 1..l - 1, t[m].id = t[k].id PROVE m = k
  <2>1. m \in 1..l /\ k \in 1..l /\ l \in 1..l /\ m # l /\ k # l
    BY <1>1
  <2>2. \A x, y \in 1..l : slts[x].id = slts[y].id => x = y
    BY DEF Numbered, l
  <2> QED  BY <1>9, <1>10, <2>1, <2>2
<1>11. Numbered(t)
  BY <1>6, <1>8, <1>10 DEF Numbered
<1> QED  BY <1>6, <1>9, <1>11 DEF t, l

(* Where the loop of disconnect_if is after k passes: it has looked at the *)
(* slots before acc.n, and lost none but those hit.                        *)
Accs == {acc \in [slts : Seq(Slot), n : Nat] : Numbered(acc.slts) /\ acc.n # 0}

Midway(acc, k, slts, hit) ==
    /\ acc \in Accs
    /\ acc.n <= Len(acc.slts) + 1
    /\ Len(acc.slts) + k = Len(slts) + acc.n - 1
    /\ \A m \in 1..acc.n - 1 : acc.slts[m].id \notin hit
    /\ S!Ids(acc.slts) \subseteq S!Ids(slts)
    /\ S!Ids(slts) \ hit \subseteq S!Ids(acc.slts)
    /\ S!Ids(slts) \intersect hit = {} => acc.slts = slts

LEMMA AccIs ==
    ASSUME NEW acc \in Accs
    PROVE  /\ acc = [slts |-> acc.slts, n |-> acc.n]
           /\ Numbered(acc.slts) /\ acc.slts \in Seq(Slot) /\ Len(acc.slts) \in Nat
           /\ acc.n \in Nat /\ acc.n # 0
  BY DEF Accs, Numbered

LEMMA PassStays == ASSUME NEW acc \in Accs, NEW hit PROVE S!Pass(acc, hit) \in Accs
<1>1. CASE acc.n > Len(acc.slts)
  BY <1>1 DEF S!Pass
<1>2. CASE acc.n <= Len(acc.slts)
  <2>1. acc.n \in 1..Len(acc.slts)
    BY <1>2, AccIs
  <2> DEFINE t == S!SwapOut(acc.slts, acc.n)
  <2>2. Numbered(t) /\ t \in Seq(Slot)
    BY <2>1, AccIs, SwapOutIs DEF Numbered
  <2> HIDE DEF t
  <2>3. [slts |-> t, n |-> acc.n] \in Accs
    BY <2>2, AccIs DEF Accs
  <2>4. [slts |-> acc.slts, n |-> acc.n + 1] \in Accs
    BY AccIs DEF Accs
  <2>5. ~(acc.n > Len(acc.slts))
    BY <1>2, AccIs
  <2> QED  BY <2>3, <2>4, <2>5 DEF S!Pass, t
<1> QED  BY <1>1, <1>2, AccIs

LEMMA PassMidway ==
    ASSUME NEW slts, slts \in Seq(Slot), NEW hit, NEW k \in 0..Len(slts), k # Len(slts),
           NEW acc, Midway(acc, k, slts, hit)
    PROVE  Midway(S!Pass(acc, hit), k + 1, slts, hit)
<1> DEFINE a == acc.slts
           n == acc.n
           new == S!Pass(acc, hit)
<1>1. /\ acc \in Accs /\ Numbered(a) /\ a \in Seq(Slot) /\ Len(a) \in Nat /\ n \in Nat
      /\ Len(a) + k = Len(slts) + n - 1 /\ n # 0 /\ Len(slts) \in Nat
      /\ \A m \in 1..n - 1 : a[m].id \notin hit
      /\ S!Ids(a) \subseteq S!Ids(slts) /\ S!Ids(slts) \ hit \subseteq S!Ids(a)
      /\ S!Ids(slts) \intersect hit = {} => a = slts
  BY AccIs DEF Midway
<1>2. new \in Accs
  BY <1>1, PassStays
<1>3. n \in 1..Len(a)
  BY <1>1
<1>4. ~(n > Len(a)) /\ DOMAIN a = 1..Len(a)
  BY <1>1, <1>3
<1> HIDE DEF a, n
<1>5. CASE a[n].id \in hit
  <2> DEFINE t == S!SwapOut(a, n)
  <2>1. new = [slts |-> t, n |-> n]
    BY <1>4, <1>5 DEF S!Pass, a, n
  <2>2. Numbered(t)
    BY <1>1, <1>3, SwapOutIs
  <2>3. Len(t) = Len(a) - 1
    BY <1>1, <1>3, SwapOutIs
  <2>4. \A m \in 1..Len(a) - 1 : t[m].id = IF m = n THEN a[Len(a)].id ELSE a[m].id
    BY <1>1, <1>3, SwapOutIs
  <2>5. DOMAIN t = 1..Len(a) - 1
    BY <2>2, <2>3 DEF Numbered
  <2> HIDE DEF t
  <2>6. \A m \in 1..n - 1 : t[m].id \notin hit
    <3> TAKE m \in 1..n - 1
    <3>1. m \in 1..Len(a) - 1 /\ m # n
      BY <1>1, <1>3
    <3> QED  BY <1>1, <2>4, <3>1
  <2>7. S!Ids(t) \subseteq S!Ids(a)
    <3> SUFFICES ASSUME NEW m \in 1..Len(a) - 1 PROVE t[m].id \in S!Ids(a)
      BY <2>5 DEF S!Ids
    <3>1. m \in 1..Len(a) /\ Len(a) \in 1..Len(a)
      BY <1>1, <1>3
    <3> QED  BY <1>4, <2>4, <3>1 DEF S!Ids
  <2>8. S!Ids(a) \ hit \subseteq S!Ids(t)
    <3> SUFFICES ASSUME NEW m \in 1..Len(a), a[m].id \notin hit PROVE a[m].id \in S!Ids(t)
      BY <1>4 DEF S!Ids
    <3>1. m # n
      BY <1>5
    <3>2. CASE m = Len(a)
      <4>1. n \in 1..Len(a) - 1
        BY <1>1, <1>3, <3>1, <3>2
      <4>2. t[n].id = a[m].id
        BY <2>4, <3>2, <4>1
      <4> QED  BY <2>5, <4>1, <4>2 DEF S!Ids
    <3>3. CASE m # Len(a)
      <4>1. m \in 1..Len(a) - 1
        BY <1>1, <3>3
      <4>2. t[m].id = a[m].id
        BY <2>4, <3>1, <4>1
      <4> QED  BY <2>5, <4>1, <4>2 DEF S!Ids
    <3> QED  BY <3>2, <3>3
  <2>9. S!Ids(slts) \intersect hit # {}
    <3>1. a[n].id \in S!Ids(a)
      BY <1>3, <1>4 DEF S!Ids
    <3> QED  BY <1>1, <1>5, <3>1
  <2>10. n <= Len(t) + 1 /\ Len(t) + (k + 1) = Len(slts) + n - 1
    BY <1>1, <1>3, <2>3
  <2>11. new.slts = t /\ new.n = n
    BY <2>1
  <2>12. S!Ids(t) \subseteq S!Ids(slts) /\ S!Ids(slts) \ hit \subseteq S!Ids(t)
    BY <1>1, <2>7, <2>8
  <2> HIDE DEF new
  <2>13. new.n <= Len(new.slts) + 1 /\ Len(new.slts) + (k + 1) = Len(slts) + new.n - 1
    BY <2>10, <2>11
  <2>14. \A m \in 1..new.n - 1 : new.slts[m].id \notin hit
    BY <2>6, <2>11
  <2>15. S!Ids(new.slts) \subseteq S!Ids(slts) /\ S!Ids(slts) \ hit \subseteq S!Ids(new.slts)
    BY <2>11, <2>12
  <2> QED  BY <1>2, <2>9, <2>13, <2>14, <2>15 DEF Midway, new
<1>6. CASE a[n].id \notin hit
  <2>1. new = [slts |-> a, n |-> n + 1]
    BY <1>4, <1>6 DEF S!Pass, a, n
  <2>2. new.slts = a /\ new.n = n + 1
    BY <2>1
  <2>3. \A m \in 1..(n + 1) - 1 : a[m].id \notin hit
    <3> TAKE m \in 1..(n + 1) - 1
    <3>1. m = n \/ m \in 1..n - 1
      BY <1>1
    <3> QED  BY <1>1, <1>6, <3>1
  <2>4. n + 1 <= Len(a) + 1 /\ Len(a) + (k + 1) = Len(slts) + (n + 1) - 1
    BY <1>1, <1>3
  <2> HIDE DEF new
  <2>5. new.n <= Len(new.slts) + 1 /\ Len(new.slts) + (k + 1) = Len(slts) + new.n - 1
    BY <2>2, <2>4
  <2>6. \A m \in 1..new.n - 1 : new.slts[m].id \notin hit
    BY <2>2, <2>3
  <2>7. /\ S!Ids(new.slts) \subseteq S!Ids(slts) /\ S!Ids(slts) \ hit \subseteq S!Ids(new.slts)
        /\ S!Ids(slts) \intersect hit = {} => new.slts = slts
    BY <1>1, <2>2
  <2> QED  BY <1>2, <2>5, <2>6, <2>7 DEF Midway, new
<1> QED  BY <1>5, <1>6 DEF new

(* The whole loop takes out what is hit and nothing else.                  *)
Filtered(f, slts, hit) ==
    /\ Numbered(f)
    /\ S!Ids(f) = S!Ids(slts) \ hit
    /\ S!Ids(slts) \intersect hit = {} => f = slts

LEMMA FilterIs ==
    ASSUME NEW slts, Numbered(slts), NEW hit
    PROVE  Filtered(S!Filter(slts, hit), slts, hit)
<1> DEFINE N == Len(slts)
           base == [slts |-> slts, n |-> 1]
           step == [x \in Nat \X Accs |-> S!Pass(x[2], hit)]
<1>1. slts \in Seq(Slot) /\ N \in Nat
  BY DEF Numbered
<1>2. base \in Accs
  BY <1>1 DEF Accs
<1>3. step \in [Nat \X Accs -> Accs]
  BY PassStays
<1> HIDE DEF base, step
<1>4. PICK g : Computes(g, Accs, base, step)
  BY <1>2, <1>3, Recursion
<1>5. g[0] = base /\ \A n \in Nat : g[n + 1] = S!Pass(g[n], hit)
  <2>1. g[0] = base
    BY <1>4 DEF Computes
  <2> SUFFICES \A n \in Nat : g[n + 1] = S!Pass(g[n], hit)
    BY <2>1
  <2> TAKE n \in Nat
  <2>2. <<n, g[n]>> \in Nat \X Accs
    BY <1>4 DEF Computes
  <2>3. step[<<n, g[n]>>] = S!Pass(g[n], hit)
    BY <2>2 DEF step
  <2> QED  BY <1>4, <2>3 DEF Computes
<1> HIDE DEF N
<1> DEFINE after[k \in 0..N] == IF k = 0 THEN base ELSE S!Pass(after[k - 1], hit)
<1>6. \E h : h = [k \in 0..N |-> IF k = 0 THEN base ELSE S!Pass(h[k - 1], hit)]
  <2> DEFINE h == [k \in 0..N |-> g[k]]
  <2>1. \A k \in 0..N : g[k] = IF k = 0 THEN base ELSE S!Pass(h[k - 1], hit)
    <3> TAKE k \in 0..N
    <3>1. CASE k = 0
      BY <1>5, <3>1
    <3>2. CASE k # 0
      <4>1. k - 1 \in Nat /\ k - 1 \in 0..N /\ (k - 1) + 1 = k
        BY <1>1, <3>2
      <4>2. g[k] = S!Pass(g[k - 1], hit)
        BY <1>5, <4>1
      <4>3. h[k - 1] = g[k - 1]
        BY <4>1
      <4> QED  BY <3>2, <4>2, <4>3
    <3> QED  BY <3>1, <3>2
  <2>2. h = [k \in 0..N |-> IF k = 0 THEN base ELSE S!Pass(h[k - 1], hit)]
    BY <2>1
  <2> QED  BY <2>2
<1>7. after = [k \in 0..N |-> IF k = 0 THEN base ELSE S!Pass(after[k - 1], hit)]
  BY <1>6
<1>8. S!Filter(slts, hit) = after[N].slts
  BY DEF S!Filter, N, base
<1> HIDE DEF after
<1>9. \A k \in Nat : k <= N => Midway(after[k], k, slts, hit)
  <2> DEFINE Good == {k \in Nat : k <= N => Midway(after[k], k, slts, hit)}
  <2>1. 0 \in Good
    <3>1. after[0] = base
      BY <1>1, <1>7
    <3>2. base.slts = slts /\ base.n = 1
      BY DEF base
    <3>3. Midway(base, 0, slts, hit)
      BY <1>1, <1>2, <3>2 DEF Midway, N
    <3> QED  BY <3>1, <3>3
  <2>2. ASSUME NEW k \in Nat, k \in Good PROVE k + 1 \in Good
    <3> SUFFICES ASSUME k + 1 <= N PROVE Midway(after[k + 1], k + 1, slts, hit)
      OBVIOUS
    <3>1. k \in 0..N /\ k # N /\ k + 1 \in 0..N /\ k + 1 # 0 /\ (k + 1) - 1 = k
      BY <1>1
    <3>2. after[k + 1] = S!Pass(after[k], hit)
      BY <1>7, <3>1
    <3>3. Midway(after[k], k, slts, hit)
      BY <2>2, <3>1
    <3> QED  BY <1>1, <3>1, <3>2, <3>3, PassMidway DEF N
  <2> HIDE DEF Good
  <2>3. \A k \in Nat : k \in Good
    BY <2>1, <2>2, Induction
  <2> QED  BY <2>3 DEF Good
<1>10. Midway(after[N], N, slts, hit)
  BY <1>1, <1>9
<1> DEFINE f == after[N].slts
           n == after[N].n
<1>11. /\ Numbered(f) /\ Len(f) \in Nat /\ n \in Nat /\ DOMAIN f = 1..Len(f)
  <2>1. after[N] \in Accs
    BY <1>10 DEF Midway
  <2>2. Numbered(f) /\ f \in Seq(Slot) /\ n \in Nat
    BY <2>1, AccIs
  <2> HIDE DEF f
  <2> QED  BY <2>2
<1>12. n = Len(f) + 1
  <2>1. n <= Len(f) + 1 /\ Len(f) + N = N + n - 1
    BY <1>10 DEF Midway, N
  <2> HIDE DEF f, n
  <2> QED  BY <1>1, <1>11, <2>1
<1>13. S!Ids(f) \intersect hit = {}
  <2> SUFFICES ASSUME NEW m \in 1..Len(f) PROVE f[m].id \notin hit
    BY <1>11 DEF S!Ids
  <2>1. m \in 1..n - 1
    BY <1>11, <1>12
  <2> QED  BY <1>10, <2>1 DEF Midway
<1>14. S!Ids(f) \subseteq S!Ids(slts) /\ S!Ids(slts) \ hit \subseteq S!Ids(f)
       /\ (S!Ids(slts) \intersect hit = {} => f = slts)
  BY <1>10 DEF Midway
<1> HIDE DEF f
<1>15. Filtered(f, slts, hit)
  BY <1>11, <1>12, <1>13, <1>14 DEF Filtered, N
<1> QED  BY <1>8, <1>15 DEF f

-----------------------------------------------------------------------------
(* The groups of a signal of which n slots were made: they ascend, and no  *)
(* slot is in two places.                                                  *)
Group      == [gid : Groups, slts : Seq(Slot)]
Of(gs, g)  == S!Ids(gs[g].slts)

GroupsOK(gs, n) ==
    /\ gs \in Seq(Group) /\ n \in Nat
    /\ \A g, h \in 1..Len(gs) : g < h => gs[g].gid < gs[h].gid
    /\ \A g, h \in 1..Len(gs) : g # h => Of(gs, g) \intersect Of(gs, h) = {}
    /\ \A g \in 1..Len(gs) : Numbered(gs[g].slts) /\ Of(gs, g) \subseteq 1..n

(* What an emission has called: every slot of the groups behind g that was *)
(* there when it began, and none of the groups ahead of g; in group g it   *)
(* has called those up to the slot it is in.                               *)
InOrder(called) ==
    \A m, n \in 1..Len(called) :
       m < n => called[m].id # called[n].id /\ called[m].gid <= called[n].gid

Behind(gs, g, called, began) ==
    \A h \in 1..Len(gs) : h < g => Of(gs, h) \intersect began \subseteq S!Ids(called)

Ahead(gs, g, called) ==
    \A h \in 1..Len(gs) : h > g =>
       /\ Of(gs, h) \intersect S!Ids(called) = {}
       /\ \A m \in 1..Len(called) : called[m].gid <= gs[h].gid

Inside(slts, gid, e) ==
    /\ e.k \in Nat /\ e.kend \in Nat /\ 1 <= e.k /\ e.k <= e.kend /\ e.kend <= Len(slts)
    /\ \A n \in 1..Len(slts) : /\ slts[n].id \in S!Ids(e.called) <=> n <= e.k
                               /\ n > e.kend => slts[n].id \notin e.began
    /\ \A m \in 1..Len(e.called) : e.called[m].gid <= gid

Calls == [id : Nat, gid : Groups]

Called(called, began, n) ==
    /\ called \in Seq(Calls)
    /\ InOrder(called)
    /\ S!Ids(called) \subseteq 1..n /\ began \subseteq 1..n

Done(e, gs, n) ==
    /\ e.at = "done"
    /\ Called(e.called, e.began, n)
    /\ Behind(gs, Len(gs) + 1, e.called, e.began)

Emitting == [at : {"slot"}, g : Nat, k : Nat, kend : Nat, called : Seq(Calls),
             began : SUBSET Nat]

InSlot(e, gs, n) ==
    /\ e \in Emitting
    /\ e.g \in 1..Len(gs)
    /\ Called(e.called, e.began, n)
    /\ Behind(gs, e.g, e.called, e.began)
    /\ Inside(gs[e.g].slts, gs[e.g].gid, e)
    /\ Ahead(gs, e.g, e.called)

EmissionOK(e, gs, n) ==
    e = S!NoEmission \/ e = S!Dangling \/ Done(e, gs, n) \/ InSlot(e, gs, n)

SigInv == GroupsOK(m_slots, made) /\ EmissionOK(emission, m_slots, made)

LEMMA InIds ==
    ASSUME NEW X, NEW slts, slts \in Seq(X), NEW x
    PROVE  x \in S!Ids(slts) <=> \E n \in 1..Len(slts) : x = slts[n].id
  BY DEF S!Ids

LEMMA AppendedIds ==
    ASSUME NEW X, NEW slts, slts \in Seq(X), NEW x \in X
    PROVE  S!Ids(Append(slts, x)) = S!Ids(slts) \union {x.id}
<1> DEFINE t == Append(slts, x)
<1>1. /\ t \in Seq(X) /\ Len(t) = Len(slts) + 1 /\ Len(slts) \in Nat
      /\ t[Len(slts) + 1] = x /\ \A n \in 1..Len(slts) : t[n] = slts[n]
  OBVIOUS
<1> HIDE DEF t
<1>2. ASSUME NEW y, y \in S!Ids(t) PROVE y \in S!Ids(slts) \union {x.id}
  <2>1. PICK n \in 1..Len(t) : y = t[n].id
    BY <1>1, <1>2 DEF S!Ids
  <2>2. n = Len(slts) + 1 \/ n \in 1..Len(slts)
    BY <1>1, <2>1
  <2>3. CASE n = Len(slts) + 1
    BY <1>1, <2>1, <2>3
  <2>4. CASE n \in 1..Len(slts)
    <3>1. y = slts[n].id
      BY <1>1, <2>1, <2>4
    <3> QED  BY <2>4, <3>1 DEF S!Ids
  <2> QED  BY <2>2, <2>3, <2>4
<1>3. ASSUME NEW y, y \in S!Ids(slts) PROVE y \in S!Ids(t)
  <2>1. PICK n \in 1..Len(slts) : y = slts[n].id
    BY <1>3 DEF S!Ids
  <2>2. y = t[n].id /\ n \in 1..Len(t)
    BY <1>1, <2>1
  <2> QED  BY <1>1, <2>2 DEF S!Ids
<1>4. x.id \in S!Ids(t)
  <2>1. Len(slts) + 1 \in DOMAIN t
    BY <1>1
  <2> QED  BY <1>1, <2>1 DEF S!Ids
<1> QED  BY <1>2, <1>3, <1>4 DEF t

-----------------------------------------------------------------------------
(* The slots of some groups change: only group g gains slots, and only new *)
(* ones.                                                                   *)
Changed(gs, hs, n, m, g) ==
    /\ hs \in Seq(Group) /\ Len(hs) = Len(gs)
    /\ n \in Nat /\ m \in Nat /\ n <= m
    /\ \A h \in 1..Len(gs) :
          /\ hs[h].gid = gs[h].gid
          /\ Numbered(hs[h].slts)
          /\ \A x \in Of(hs, h) : x \in Of(gs, h) \/ (h = g /\ x \in n + 1..m)

LEMMA ChangedGroups ==
    ASSUME NEW gs, NEW hs, NEW n, NEW m, NEW g,
           GroupsOK(gs, n), Changed(gs, hs, n, m, g)
    PROVE  GroupsOK(hs, m)
<1>1. /\ hs \in Seq(Group) /\ Len(hs) = Len(gs) /\ n \in Nat /\ m \in Nat /\ n <= m
      /\ \A h \in 1..Len(gs) : hs[h].gid = gs[h].gid /\ Numbered(hs[h].slts)
  BY DEF Changed
<1>2. \A h \in 1..Len(gs) : \A x \in Of(hs, h) : x \in Of(gs, h) \/ (h = g /\ x \in n + 1..m)
  BY DEF Changed
<1>3. \A h \in 1..Len(gs) : Of(gs, h) \subseteq 1..n
  BY DEF GroupsOK
<1>4. \A a, b \in 1..Len(hs) : a < b => hs[a].gid < hs[b].gid
  BY <1>1 DEF GroupsOK
<1>5. ASSUME NEW a \in 1..Len(hs), NEW b \in 1..Len(hs), a # b, NEW x,
             x \in Of(hs, a), x \in Of(hs, b)
      PROVE  FALSE
  <2>1. a \in 1..Len(gs) /\ b \in 1..Len(gs)
    BY <1>1
  <2>2. ~(x \in Of(gs, a) /\ x \in Of(gs, b))
    BY <1>5, <2>1 DEF GroupsOK
  <2>3. ~(x \in 1..n /\ x \in n + 1..m)
    BY <1>1
  <2> QED  BY <1>2, <1>3, <1>5, <2>1, <2>2, <2>3
<1>6. \A a, b \in 1..Len(hs) : a # b => Of(hs, a) \intersect Of(hs, b) = {}
  BY <1>5
<1>7. \A h \in 1..Len(hs) : Of(hs, h) \subseteq 1..m
  <2> SUFFICES ASSUME NEW h \in 1..Len(hs), NEW x \in Of(hs, h) PROVE x \in 1..m
    OBVIOUS
  <2>1. x \in 1..n \/ x \in n + 1..m
    BY <1>1, <1>2, <1>3
  <2> QED  BY <1>1, <2>1
<1> QED  BY <1>1, <1>4, <1>6, <1>7 DEF GroupsOK

(* The group an emission is in keeps its slots, and the others come after. *)
Kept(slts, new, n) ==
    /\ Len(slts) \in Nat /\ Len(new) \in Nat /\ Len(slts) <= Len(new)
    /\ \A x \in 1..Len(new) : IF x <= Len(slts) THEN new[x].id = slts[x].id
                                                ELSE new[x].id > n

LEMMA KeptInside ==
    ASSUME NEW slts, NEW new, NEW n \in Nat, Kept(slts, new, n), NEW gid, NEW e,
           Inside(slts, gid, e), Called(e.called, e.began, n)
    PROVE  Inside(new, gid, e)
<1>1. /\ Len(slts) \in Nat /\ Len(new) \in Nat /\ Len(slts) <= Len(new)
      /\ \A x \in 1..Len(new) : IF x <= Len(slts) THEN new[x].id = slts[x].id
                                                  ELSE new[x].id > n
  BY DEF Kept
<1>2. /\ e.k \in Nat /\ e.kend \in Nat /\ 1 <= e.k /\ e.k <= e.kend /\ e.kend <= Len(slts)
      /\ \A m \in 1..Len(e.called) : e.called[m].gid <= gid
      /\ \A x \in 1..Len(slts) : /\ slts[x].id \in S!Ids(e.called) <=> x <= e.k
                                 /\ x > e.kend => slts[x].id \notin e.began
  BY DEF Inside
<1>3. S!Ids(e.called) \subseteq 1..n /\ e.began \subseteq 1..n
  BY DEF Called
<1>4. \A x \in 1..Len(new) : /\ new[x].id \in S!Ids(e.called) <=> x <= e.k
                             /\ x > e.kend => new[x].id \notin e.began
  <2> TAKE x \in 1..Len(new)
  <2>1. CASE x <= Len(slts)
    <3>1. x \in 1..Len(slts) /\ new[x].id = slts[x].id
      BY <1>1, <2>1
    <3> QED  BY <1>2, <3>1
  <2>2. CASE ~(x <= Len(slts))
    <3>1. new[x].id > n /\ ~(x <= e.k)
      BY <1>1, <1>2, <2>2
    <3>2. new[x].id \notin 1..n
      BY <3>1
    <3> QED  BY <1>3, <3>1, <3>2
  <2> QED  BY <2>1, <2>2
<1>5. e.kend <= Len(new)
  BY <1>1, <1>2
<1> QED  BY <1>2, <1>4, <1>5 DEF Inside

LEMMA ChangedEmission ==
    ASSUME NEW gs, NEW hs, NEW n, NEW m, NEW g, NEW e, Changed(gs, hs, n, m, g),
           EmissionOK(e, gs, n),
           e.at = "slot" => Kept(gs[e.g].slts, hs[e.g].slts, n)
    PROVE  EmissionOK(e, hs, m)
<1>1. /\ Len(hs) = Len(gs) /\ n \in Nat /\ m \in Nat /\ n <= m
      /\ \A h \in 1..Len(gs) : hs[h].gid = gs[h].gid
      /\ \A h \in 1..Len(gs) : \A x \in Of(hs, h) :
            x \in Of(gs, h) \/ (h = g /\ x \in n + 1..m)
  BY DEF Changed
<1>2. ASSUME Called(e.called, e.began, n) PROVE Called(e.called, e.began, m)
  <2>1. 1..n \subseteq 1..m
    BY <1>1
  <2> QED  BY <1>2, <2>1 DEF Called
<1>3. ASSUME Called(e.called, e.began, n), NEW k, Behind(gs, k, e.called, e.began)
      PROVE  Behind(hs, k, e.called, e.began)
  <2> SUFFICES ASSUME NEW h \in 1..Len(gs), h < k, NEW x \in Of(hs, h), x \in e.began
               PROVE  x \in S!Ids(e.called)
    BY <1>1 DEF Behind
  <2>1. x \notin n + 1..m
    BY <1>1, <1>3 DEF Called
  <2> QED  BY <1>1, <1>3, <2>1 DEF Behind
<1>4. ASSUME Called(e.called, e.began, n), NEW k, Ahead(gs, k, e.called)
      PROVE  Ahead(hs, k, e.called)
  <2> SUFFICES ASSUME NEW h \in 1..Len(gs), h > k
               PROVE  /\ \A x \in Of(hs, h) : x \notin S!Ids(e.called)
                      /\ \A c \in 1..Len(e.called) : e.called[c].gid <= hs[h].gid
    BY <1>1 DEF Ahead
  <2>1. \A x \in n + 1..m : x \notin S!Ids(e.called)
    BY <1>1, <1>4 DEF Called
  <2> QED  BY <1>1, <1>4, <2>1 DEF Ahead
<1>5. CASE Done(e, gs, n)
  BY <1>1, <1>2, <1>3, <1>5 DEF Done, EmissionOK
<1>6. CASE InSlot(e, gs, n)
  <2>1. /\ Called(e.called, e.began, n) /\ e.g \in 1..Len(gs)
        /\ Inside(gs[e.g].slts, gs[e.g].gid, e)
    BY <1>6 DEF InSlot
  <2>2. Kept(gs[e.g].slts, hs[e.g].slts, n)
    BY <1>6 DEF InSlot, Emitting
  <2>3. Inside(hs[e.g].slts, hs[e.g].gid, e)
    BY <1>1, <2>1, <2>2, KeptInside
  <2>4. InSlot(e, hs, m)
    BY <1>1, <1>2, <1>3, <1>4, <1>6, <2>3 DEF InSlot
  <2> QED  BY <2>4 DEF EmissionOK
<1> QED  BY <1>5, <1>6 DEF EmissionOK

LEMMA NewSlotIs ==
    ASSUME NEW c \in Callables, NEW slts, Numbered(slts), made \in Nat
    PROVE  /\ S!NewSlot(c, slts) \in Slot
           /\ S!NewSlot(c, slts).id = made + 1
           /\ S!NewSlot(c, slts).index = Len(slts)
<1>1. Len(slts) \in Nat /\ c.fn \in S!AnyFn /\ c.obj \in S!AnyObj
  BY DEF Numbered, S!AnyFn, S!AnyObj
<1> QED  BY <1>1 DEF S!NewSlot, Slot

LEMMA AppendedSlot ==
    ASSUME NEW slts, Numbered(slts), NEW n \in Nat, S!Ids(slts) \subseteq 1..n,
           NEW x \in Slot, x.id = n + 1, x.index = Len(slts)
    PROVE  /\ Numbered(Append(slts, x))
           /\ S!Ids(Append(slts, x)) = S!Ids(slts) \union {n + 1}
           /\ Kept(slts, Append(slts, x), n)
<1> DEFINE t == Append(slts, x)
<1>1. slts \in Seq(Slot) /\ Len(slts) \in Nat
  BY DEF Numbered
<1>2. /\ t \in Seq(Slot) /\ Len(t) = Len(slts) + 1
      /\ t[Len(slts) + 1] = x /\ \A k \in 1..Len(slts) : t[k] = slts[k]
  BY <1>1
<1>3. S!Ids(t) = S!Ids(slts) \union {n + 1}
  BY <1>1, AppendedIds
<1> HIDE DEF t
<1>4. \A k \in 1..Len(slts) : slts[k].id \in 1..n /\ slts[k].index = k - 1
  <2> TAKE k \in 1..Len(slts)
  <2>1. k \in DOMAIN slts
    BY <1>1
  <2>2. slts[k].id \in S!Ids(slts)
    BY <2>1 DEF S!Ids
  <2> QED  BY <2>2 DEF Numbered
<1>5. \A k \in 1..Len(t) : t[k].index = k - 1 /\
                           IF k <= Len(slts) THEN t[k].id = slts[k].id ELSE t[k].id = n + 1
  <2> TAKE k \in 1..Len(t)
  <2>1. k \in 1..Len(slts) \/ k = Len(slts) + 1
    BY <1>1, <1>2
  <2>2. k = Len(slts) + 1 => ~(k <= Len(slts)) /\ Len(slts) = k - 1
    BY <1>1
  <2> QED  BY <1>2, <1>4, <2>1, <2>2
<1>6. ASSUME NEW a \in 1..Len(t), NEW b \in 1..Len(t), t[a].id = t[b].id PROVE a = b
  <2>1. \A k \in 1..Len(t) : k \in 1..Len(slts) \/ k = Len(slts) + 1
    BY <1>1, <1>2
  <2>2. \A k \in 1..Len(slts) : k <= Len(slts) /\ slts[k].id # n + 1
    BY <1>1, <1>4
  <2>3. \A k \in 1..Len(slts) : t[k].id = slts[k].id
    BY <1>2
  <2>4. t[Len(slts) + 1].id = n + 1
    BY <1>2
  <2>5. \A k, l \in 1..Len(slts) : slts[k].id = slts[l].id => k = l
    BY DEF Numbered
  <2> QED  BY <1>6, <2>1, <2>2, <2>3, <2>4, <2>5
<1>7. Numbered(t)
  BY <1>2, <1>5, <1>6 DEF Numbered
<1>8. Kept(slts, t, n)
  <2>1. n + 1 > n
    OBVIOUS
  <2> QED  BY <1>1, <1>2, <1>5, <2>1 DEF Kept
<1> QED  BY <1>3, <1>7, <1>8 DEF t

(* One group is replaced.                                                  *)
Grows(ids, new, n, m) == \A x \in new : x \in ids \/ x \in n + 1..m
Replaces(gs, hs, g, t) == hs = [gs EXCEPT ![g].slts = t]
AllButOne(gs, hs, g, t) ==
    /\ hs[g].slts = t
    /\ \A h \in 1..Len(gs) : h # g => hs[h] = gs[h]
LEMMA Replaced ==
    ASSUME NEW gs, NEW n, GroupsOK(gs, n), NEW g \in 1..Len(gs), NEW t, Numbered(t),
           NEW m \in Nat, n <= m,
           Grows(Of(gs, g), S!Ids(t), n, m), NEW hs, Replaces(gs, hs, g, t)
    PROVE  Changed(gs, hs, n, m, g) /\ AllButOne(gs, hs, g, t)
<1>1. gs \in Seq(Group) /\ n \in Nat /\ t \in Seq(Slot) /\ Len(gs) \in Nat
  BY DEF GroupsOK, Numbered
<1>2. gs[g] \in Group
  BY <1>1
<1>3. [gs[g] EXCEPT !.slts = t] \in Group /\ [gs[g] EXCEPT !.slts = t].slts = t
      /\ [gs[g] EXCEPT !.slts = t].gid = gs[g].gid
  BY <1>1, <1>2 DEF Group
<1>4. hs = [gs EXCEPT ![g] = [gs[g] EXCEPT !.slts = t]]
  BY DEF Replaces
<1>5. /\ hs \in Seq(Group) /\ Len(hs) = Len(gs)
      /\ hs[g] = [gs[g] EXCEPT !.slts = t]
      /\ \A h \in 1..Len(gs) : h # g => hs[h] = gs[h]
  BY <1>1, <1>3, <1>4
<1>6. hs[g].slts = t /\ hs[g].gid = gs[g].gid
  BY <1>3, <1>5
<1>7. ASSUME NEW h \in 1..Len(gs)
      PROVE  /\ hs[h].gid = gs[h].gid
             /\ Numbered(hs[h].slts)
             /\ \A x \in Of(hs, h) : x \in Of(gs, h) \/ (h = g /\ x \in n + 1..m)
  <2>1. CASE h = g
    <3>1. Of(hs, h) = S!Ids(t)
      BY <1>6, <2>1 DEF Of
    <3> QED  BY <1>6, <2>1, <3>1 DEF Grows
  <2>2. CASE h # g
    <3>1. hs[h] = gs[h] /\ Of(hs, h) = Of(gs, h)
      BY <1>5, <2>2 DEF Of
    <3> QED  BY <3>1 DEF GroupsOK
  <2> QED  BY <2>1, <2>2
<1>8. Changed(gs, hs, n, m, g)
  BY <1>1, <1>5, <1>7 DEF Changed
<1> QED  BY <1>5, <1>6, <1>8 DEF AllButOne

LEMMA StaysKept ==
    ASSUME NEW slts, slts \in Seq(Slot), NEW n PROVE Kept(slts, slts, n)
  BY DEF Kept

LEMMA ConnectOld ==
    ASSUME SigInv, NEW c \in Callables, NEW gid \in Groups, NEW g \in S!Find(gid),
           made' = made + 1,
           m_slots' = [m_slots EXCEPT ![g].slts = Append(@, S!NewSlot(c, @))],
           emission' = emission \/ S!Disturb(S!EmissionIn(g))
    PROVE  SigInv'
<1> DEFINE slts == m_slots[g].slts
           t == Append(slts, S!NewSlot(c, slts))
<1>1. GroupsOK(m_slots, made) /\ EmissionOK(emission, m_slots, made)
  BY DEF SigInv
<1>2. m_slots \in Seq(Group) /\ g \in 1..Len(m_slots) /\ made \in Nat /\ made <= made + 1
  BY <1>1 DEF GroupsOK, S!Find
<1>3. Numbered(slts) /\ S!Ids(slts) \subseteq 1..made
  BY <1>1, <1>2 DEF GroupsOK, Of
<1> HIDE DEF slts
<1>4. Numbered(t) /\ S!Ids(t) = S!Ids(slts) \union {made + 1} /\ Kept(slts, t, made)
  <2> DEFINE x == S!NewSlot(c, slts)
  <2>1. x \in Slot /\ x.id = made + 1 /\ x.index = Len(slts)
    BY <1>2, <1>3, NewSlotIs
  <2> HIDE DEF x
  <2>2. /\ Numbered(Append(slts, x)) /\ S!Ids(Append(slts, x)) = S!Ids(slts) \union {made + 1}
        /\ Kept(slts, Append(slts, x), made)
    BY <1>2, <1>3, <2>1, AppendedSlot
  <2> QED  BY <2>2 DEF x
<1> HIDE DEF t
<1>5. Replaces(m_slots, m_slots', g, t)
  BY DEF slts, t, Replaces
<1>6. Grows(Of(m_slots, g), S!Ids(t), made, made + 1)
  BY <1>2, <1>4 DEF Grows, Of, slts
<1>7. /\ Changed(m_slots, m_slots', made, made + 1, g)
      /\ m_slots'[g].slts = t
      /\ \A h \in 1..Len(m_slots) : h # g => m_slots'[h] = m_slots[h]
  <2>1. made + 1 \in Nat
    BY <1>2
  <2>2. Changed(m_slots, m_slots', made, made + 1, g) /\ AllButOne(m_slots, m_slots', g, t)
    BY <1>1, <1>2, <1>4, <1>5, <1>6, <2>1, Replaced
  <2> QED  BY <2>2 DEF AllButOne
<1>8. GroupsOK(m_slots', made')
  BY <1>1, <1>7, ChangedGroups
<1>9. ASSUME emission.at = "slot"
      PROVE  Kept(m_slots[emission.g].slts, m_slots'[emission.g].slts, made)
  <2>1. emission.g \in 1..Len(m_slots)
    BY <1>1, <1>9 DEF EmissionOK, InSlot, Done, S!NoEmission, S!Dangling
  <2>2. CASE emission.g = g
    BY <1>4, <1>7, <2>2 DEF slts
  <2>3. CASE emission.g # g
    <3>1. m_slots[emission.g].slts \in Seq(Slot)
      BY <1>1, <2>1 DEF GroupsOK, Numbered
    <3> QED  BY <1>7, <2>1, <2>3, <3>1, StaysKept
  <2> QED  BY <2>2, <2>3
<1>10. EmissionOK(emission, m_slots', made')
  BY <1>1, <1>7, <1>9, ChangedEmission
<1>11. EmissionOK(emission', m_slots', made')
  <2>1. emission' = emission \/ emission' = S!Dangling
    BY DEF S!Disturb
  <2> QED  BY <1>10, <2>1 DEF EmissionOK
<1> QED  BY <1>8, <1>11 DEF SigInv

LEMMA GroupEmptied ==
    ASSUME SigInv, NEW gid \in Groups, S!DisconnectGroup(gid)
    PROVE  SigInv'
<1>1. GroupsOK(m_slots, made) /\ EmissionOK(emission, m_slots, made)
  BY DEF SigInv
<1>2. PICK g \in S!Find(gid) : /\ m_slots' = [m_slots EXCEPT ![g].slts = <<>>]
                               /\ S!Disturb(S!EmissionIn(g))
  BY DEF S!DisconnectGroup
<1>3. m_slots \in Seq(Group) /\ g \in 1..Len(m_slots) /\ made \in Nat /\ made <= made
      /\ made' = made
  BY <1>1 DEF GroupsOK, S!Find, S!DisconnectGroup
<1> DEFINE t == <<>>
<1>4. Numbered(t) /\ S!Ids(t) = {}
  BY DEF Numbered, S!Ids
<1>5. Replaces(m_slots, m_slots', g, t)
  BY <1>2 DEF Replaces
<1> HIDE DEF t
<1>6. Grows(Of(m_slots, g), S!Ids(t), made, made)
  BY <1>4 DEF Grows
<1>7. Changed(m_slots, m_slots', made, made, g) /\ AllButOne(m_slots, m_slots', g, t)
  BY <1>1, <1>3, <1>4, <1>5, <1>6, Replaced
<1>8. GroupsOK(m_slots', made')
  BY <1>1, <1>3, <1>7, ChangedGroups
<1>9. CASE emission' = emission
  <2>1. ASSUME emission.at = "slot"
        PROVE  Kept(m_slots[emission.g].slts, m_slots'[emission.g].slts, made)
    <3>1. emission.g \in 1..Len(m_slots)
      BY <1>1, <2>1 DEF EmissionOK, InSlot, Done, S!NoEmission, S!Dangling
    <3>2. emission.g # g
      BY <1>2, <1>9, <2>1 DEF S!Disturb, S!EmissionIn, S!Dangling
    <3>3. m_slots[emission.g].slts \in Seq(Slot)
      BY <1>1, <3>1 DEF GroupsOK, Numbered
    <3> QED  BY <1>7, <3>1, <3>2, <3>3, StaysKept DEF AllButOne
  <2>2. EmissionOK(emission, m_slots', made)
    BY <1>1, <1>7, <2>1, ChangedEmission
  <2> QED  BY <1>3, <1>8, <1>9, <2>2 DEF SigInv
<1>10. CASE emission' = S!Dangling
  BY <1>8, <1>10 DEF SigInv, EmissionOK
<1> QED  BY <1>2, <1>9, <1>10 DEF S!Disturb

LEMMA AllDisconnected ==
    ASSUME SigInv, S!Disconnect_all PROVE SigInv'
<1>1. GroupsOK(m_slots, made) /\ EmissionOK(emission, m_slots, made)
  BY DEF SigInv
<1>2. m_slots' = <<>> /\ made' = made /\ S!Disturb(TRUE)
  BY DEF S!Disconnect_all
<1>3. GroupsOK(m_slots', made')
  BY <1>1, <1>2 DEF GroupsOK
<1>4. emission' = S!NoEmission \/ emission' = S!Dangling
      \/ (emission' = emission /\ Done(emission, m_slots, made))
  BY <1>1, <1>2 DEF EmissionOK, InSlot, Emitting, S!Disturb
<1>5. Done(emission, m_slots, made) => Done(emission, <<>>, made)
  BY DEF Done, Behind
<1> QED  BY <1>2, <1>3, <1>4, <1>5 DEF SigInv, EmissionOK

(* Disconnecting takes the slots that match out of every group.            *)
FilteredAll(gs, hs, hit) ==
    hs = [g \in DOMAIN gs |-> [gs[g] EXCEPT !.slts = S!Filter(@, hit)]]

LEMMA FilteredGroups ==
    ASSUME NEW gs, NEW n, GroupsOK(gs, n), NEW hs, NEW hit, FilteredAll(gs, hs, hit)
    PROVE  /\ Changed(gs, hs, n, n, 0)
           /\ \A g \in 1..Len(gs) : Filtered(hs[g].slts, gs[g].slts, hit)
<1>1. gs \in Seq(Group) /\ n \in Nat /\ Len(gs) \in Nat /\ DOMAIN gs = 1..Len(gs)
      /\ n <= n
  BY DEF GroupsOK
<1>2. \A g \in 1..Len(gs) : Filtered(S!Filter(gs[g].slts, hit), gs[g].slts, hit)
  BY FilterIs DEF GroupsOK
<1>3. ASSUME NEW g \in 1..Len(gs)
      PROVE  /\ hs[g] \in Group /\ hs[g].gid = gs[g].gid
             /\ Filtered(hs[g].slts, gs[g].slts, hit)
  <2> DEFINE f == S!Filter(gs[g].slts, hit)
  <2>1. Filtered(f, gs[g].slts, hit)
    BY <1>2
  <2>2. f \in Seq(Slot)
    BY <2>1 DEF Filtered, Numbered
  <2>3. gs[g] \in Group
    BY <1>1
  <2>4. hs[g] = [gs[g] EXCEPT !.slts = f]
    BY <1>1 DEF FilteredAll
  <2> HIDE DEF f
  <2>5. hs[g] \in Group /\ hs[g].gid = gs[g].gid /\ hs[g].slts = f
    BY <2>2, <2>3, <2>4 DEF Group
  <2> QED  BY <2>1, <2>5
<1>4. hs \in Seq(Group) /\ Len(hs) = Len(gs)
  <2>1. hs = [g \in 1..Len(gs) |-> hs[g]]
    BY <1>1 DEF FilteredAll
  <2> QED  BY <1>1, <1>3, <2>1
<1>5. ASSUME NEW g \in 1..Len(gs) PROVE Numbered(hs[g].slts) /\ Of(hs, g) \subseteq Of(gs, g)
  BY <1>3 DEF Filtered, Of
<1>6. Changed(gs, hs, n, n, 0)
  BY <1>1, <1>3, <1>4, <1>5 DEF Changed
<1> QED  BY <1>3, <1>6

LEMMA MatchingTaken ==
    ASSUME SigInv, NEW crit, S!disconnect_if(crit)
    PROVE  SigInv' /\ S!Connected' = S!Connected \ S!Matching(crit)
<1> DEFINE hit == S!Matching(crit)
<1> HIDE DEF hit
<1>1. GroupsOK(m_slots, made) /\ EmissionOK(emission, m_slots, made)
  BY DEF SigInv
<1>2. /\ FilteredAll(m_slots, m_slots', hit)
      /\ S!Disturb(\E g \in DOMAIN m_slots :
                      S!EmissionIn(g) /\ S!Ids(m_slots[g].slts) \intersect hit # {})
      /\ made' = made
  BY DEF S!disconnect_if, hit, FilteredAll
<1>3. /\ Changed(m_slots, m_slots', made, made, 0)
      /\ \A g \in 1..Len(m_slots) : Filtered(m_slots'[g].slts, m_slots[g].slts, hit)
  BY <1>1, <1>2, FilteredGroups
<1>4. GroupsOK(m_slots', made')
  BY <1>1, <1>2, <1>3, ChangedGroups
<1>5. m_slots \in Seq(Group) /\ DOMAIN m_slots = 1..Len(m_slots)
      /\ DOMAIN m_slots' = 1..Len(m_slots)
  BY <1>1, <1>3 DEF GroupsOK, Changed
<1>6. ASSUME emission' = emission PROVE SigInv'
  <2>1. ASSUME emission.at = "slot"
        PROVE  Kept(m_slots[emission.g].slts, m_slots'[emission.g].slts, made)
    <3>1. emission.g \in 1..Len(m_slots)
      BY <1>1, <2>1 DEF EmissionOK, InSlot, Done, S!NoEmission, S!Dangling
    <3>2. S!Ids(m_slots[emission.g].slts) \intersect hit = {}
      BY <1>2, <1>5, <1>6, <2>1, <3>1 DEF S!Disturb, S!EmissionIn, S!Dangling
    <3>3. m_slots'[emission.g].slts = m_slots[emission.g].slts
      BY <1>3, <3>1, <3>2 DEF Filtered
    <3>4. m_slots[emission.g].slts \in Seq(Slot)
      BY <1>1, <3>1 DEF GroupsOK, Numbered
    <3> QED  BY <3>3, <3>4, StaysKept
  <2>2. EmissionOK(emission, m_slots', made)
    BY <1>1, <1>3, <2>1, ChangedEmission
  <2> QED  BY <1>2, <1>4, <1>6, <2>2 DEF SigInv
<1>7. ASSUME emission' = S!Dangling PROVE SigInv'
  BY <1>4, <1>7 DEF SigInv, EmissionOK
<1>8. SigInv'
  BY <1>2, <1>6, <1>7 DEF S!Disturb
<1>9. S!Connected' = UNION {S!Ids(m_slots'[g].slts) : g \in 1..Len(m_slots)}
  BY <1>5 DEF S!Connected, S!Ids
<1>10. S!Connected = UNION {S!Ids(m_slots[g].slts) : g \in 1..Len(m_slots)}
  BY <1>5 DEF S!Connected
<1>11. \A g \in 1..Len(m_slots) : S!Ids(m_slots'[g].slts) = S!Ids(m_slots[g].slts) \ hit
  BY <1>3 DEF Filtered
<1>12. S!Connected' = S!Connected \ hit
  BY <1>9, <1>10, <1>11
<1> QED  BY <1>8, <1>12 DEF hit

(* x stands in t where s had place p.                                      *)
Widened(s, t, p, x) ==
    /\ Len(t) = Len(s) + 1
    /\ \A k \in 1..Len(s) + 1 :
          t[k] = IF k < p THEN s[k] ELSE IF k = p THEN x ELSE s[k - 1]

LEMMA Inserted ==
    ASSUME NEW X, NEW s, s \in Seq(X), NEW p \in Nat, 1 <= p, p <= Len(s) + 1, NEW x \in X
    PROVE  S!InsertAt(s, p, x) \in Seq(X) /\ Widened(s, S!InsertAt(s, p, x), p, x)
<1> DEFINE front == SubSeq(s, 1, p - 1)
           rest == SubSeq(s, p, Len(s))
<1>1. Len(s) \in Nat /\ p - 1 \in Nat
  OBVIOUS
<1>2. front \in Seq(X) /\ Len(front) = p - 1 /\ \A k \in 1..p - 1 : front[k] = s[k]
  BY <1>1
<1>3. rest \in Seq(X) /\ Len(rest) = Len(s) - p + 1
      /\ \A k \in 1..Len(s) - p + 1 : rest[k] = s[p + k - 1]
  BY <1>1
<1> HIDE DEF front, rest
<1>4. front \o <<x>> \in Seq(X) /\ Len(front \o <<x>>) = p
  BY <1>1, <1>2
<1>5. \A k \in 1..p : (front \o <<x>>)[k] = IF k < p THEN s[k] ELSE x
  BY <1>1, <1>2
<1> DEFINE begin == front \o <<x>>
<1> HIDE DEF begin
<1>6. /\ begin \in Seq(X) /\ Len(begin) = p
      /\ \A k \in 1..p : begin[k] = IF k < p THEN s[k] ELSE x
  BY <1>4, <1>5 DEF begin
<1>7. (begin \o rest) \in Seq(X) /\ Len(begin \o rest) = Len(s) + 1
  BY <1>1, <1>3, <1>6
<1>8. \A k \in 1..Len(s) + 1 : (begin \o rest)[k] =
            IF k < p THEN s[k] ELSE IF k = p THEN x ELSE s[k - 1]
  <2> TAKE k \in 1..Len(s) + 1
  <2>1. CASE k <= p
    BY <1>1, <1>3, <1>6, <2>1
  <2>2. CASE k > p
    <3>1. (begin \o rest)[k] = rest[k - p]
      BY <1>1, <1>3, <1>6, <2>2
    <3>2. k - p \in 1..Len(s) - p + 1 /\ p + (k - p) - 1 = k - 1
      BY <1>1, <2>2
    <3>3. rest[k - p] = s[p + (k - p) - 1]
      BY <1>3, <3>2
    <3>4. ~(k < p) /\ k # p
      BY <2>2
    <3>5. s[p + (k - p) - 1] = s[k - 1]
      BY <3>2
    <3> HIDE DEF begin
    <3> QED  BY <3>1, <3>3, <3>4, <3>5
  <2>3. k <= p \/ k > p
    BY <1>1
  <2> QED  BY Zenon, <2>1, <2>2, <2>3
<1>9. S!InsertAt(s, p, x) = begin \o rest
  BY DEF S!InsertAt, begin, front, rest
<1> QED  BY <1>7, <1>8, <1>9 DEF Widened

(* The place of a group is behind every smaller one and before the others. *)
InPlace(gs, gid, p) ==
    /\ p \in Nat /\ 1 <= p /\ p <= Len(gs) + 1
    /\ \A g \in 1..Len(gs) : IF g < p THEN gs[g].gid < gid ELSE gid < gs[g].gid

LEMMA PlaceIs ==
    ASSUME NEW n, GroupsOK(m_slots, n), NEW gid \in Groups, S!Find(gid) = {}
    PROVE  InPlace(m_slots, gid, S!Place(gid))
<1> DEFINE smaller == {g \in DOMAIN m_slots : m_slots[g].gid < gid}
           N == Len(m_slots)
           beyond == {g \in Nat : g # 0 /\ g \notin smaller}
<1>1. m_slots \in Seq(Group) /\ N \in Nat /\ DOMAIN m_slots = 1..N
  BY DEF GroupsOK
<1>2. \A g \in 1..N : m_slots[g].gid \in Int /\ m_slots[g].gid # gid
  <2> TAKE g \in 1..N
  <2>1. m_slots[g] \in Group
    BY <1>1
  <2> QED  BY <1>1, <2>1, SignalAssumption DEF Group, S!Find
<1>3. gid \in Int
  BY SignalAssumption
<1>4. N + 1 \in beyond
  BY <1>1
<1>5. PICK p \in beyond : \A y \in beyond : p <= y
  <2> HIDE DEF beyond
  <2>1. beyond \subseteq Nat
    BY DEF beyond
  <2> QED  BY <1>4, <2>1, Least
<1>6. p \in Nat /\ 1 <= p /\ p <= N + 1
  BY <1>1, <1>4, <1>5
<1>7. \A g \in 1..N : g < p => m_slots[g].gid < gid
  <2> TAKE g \in 1..N
  <2>1. g < p => g \notin beyond
    BY <1>5, <1>6
  <2> QED  BY <2>1
<1>8. \A g \in 1..N : ~(g < p) => gid < m_slots[g].gid
  <2> SUFFICES ASSUME NEW g \in 1..N, p <= g PROVE gid < m_slots[g].gid
    BY <1>1, <1>6
  <2>1. p \in 1..N /\ p \notin smaller
    BY <1>1, <1>5, <1>6
  <2>2. gid < m_slots[p].gid
    BY <1>1, <1>2, <1>3, <2>1
  <2>3. p = g \/ m_slots[p].gid < m_slots[g].gid
    BY <1>1, <1>6, <2>1 DEF GroupsOK
  <2> QED  BY <1>2, <1>3, <2>1, <2>2, <2>3
<1>9. smaller = 1..p - 1
  <2>1. ASSUME NEW g \in smaller PROVE g \in 1..p - 1
    BY <1>1, <1>2, <1>3, <1>6, <1>8, <2>1
  <2>2. ASSUME NEW g \in 1..p - 1 PROVE g \in smaller
    BY <1>1, <1>6, <1>7
  <2> QED  BY <2>1, <2>2
<1> HIDE DEF smaller
<1>10. S!Cardinality(smaller) = p - 1
  <2>1. Cardinality(1..p - 1) = p - 1
    <3>1. p - 1 \in Int /\ (1 > p - 1 => p - 1 = 0)
      BY <1>6
    <3>2. Cardinality(1..p - 1) = IF 1 > p - 1 THEN 0 ELSE (p - 1) - 1 + 1
      BY <3>1, FS_Interval
    <3> QED  BY <3>1, <3>2
  <2>2. S!Cardinality(smaller) = Cardinality(smaller)
    BY DEF S!Cardinality, Cardinality
  <2> QED  BY <1>9, <2>1, <2>2
<1>11. S!Place(gid) = p
  <2>1. S!Place(gid) = 1 + S!Cardinality(smaller)
    BY DEF S!Place, smaller
  <2> QED  BY <1>6, <1>10, <2>1
<1> QED  BY <1>2, <1>6, <1>7, <1>8, <1>11 DEF InPlace

(* A new group with one new slot is put in its place.                      *)
LEMMA WidenedGroups ==
    ASSUME NEW gs, NEW n, GroupsOK(gs, n), NEW p, NEW gid, InPlace(gs, gid, p),
           NEW x \in Group, x.gid = gid, Numbered(x.slts), S!Ids(x.slts) = {n + 1},
           NEW hs, hs \in Seq(Group), Widened(gs, hs, p, x)
    PROVE  /\ GroupsOK(hs, n + 1)
           /\ \A k \in 1..Len(hs) : \A y \in Of(hs, k) :
                 y = n + 1 \/ \E g \in 1..Len(gs) : y \in Of(gs, g)
<1>1. /\ n \in Nat /\ Len(gs) \in Nat /\ p \in Nat /\ 1 <= p /\ p <= Len(gs) + 1
      /\ hs \in Seq(Group) /\ Len(hs) = Len(gs) + 1
      /\ \A g, h \in 1..Len(gs) : g < h => gs[g].gid < gs[h].gid
      /\ \A g, h \in 1..Len(gs) : g # h => Of(gs, g) \intersect Of(gs, h) = {}
      /\ \A g \in 1..Len(gs) : Numbered(gs[g].slts) /\ Of(gs, g) \subseteq 1..n
      /\ \A g \in 1..Len(gs) : IF g < p THEN gs[g].gid < gid ELSE gid < gs[g].gid
  BY DEF GroupsOK, InPlace, Widened
<1> DEFINE from == [k \in 1..Len(hs) |-> IF k < p THEN k ELSE k - 1]
<1>2. \A k \in 1..Len(hs) : k # p => from[k] \in 1..Len(gs) /\ hs[k] = gs[from[k]]
  <2> TAKE k \in 1..Len(hs)
  <2>1. CASE k < p
    <3>1. from[k] = k /\ hs[k] = gs[k]
      BY <1>1, <2>1 DEF Widened
    <3> QED  BY <1>1, <2>1, <3>1
  <2>2. CASE k > p
    <3>1. from[k] = k - 1 /\ hs[k] = gs[k - 1]
      BY <1>1, <2>2 DEF Widened
    <3> QED  BY <1>1, <2>2, <3>1
  <2> QED  BY <1>1, <2>1, <2>2
<1>3. \A k, l \in 1..Len(hs) : k < l /\ k # p /\ l # p => from[k] < from[l]
  BY <1>1
<1>4. \A k \in 1..Len(hs) : /\ k < p => from[k] < p
                            /\ k > p => ~(from[k] < p)
  BY <1>1
<1>5. hs[p] = x /\ p \in 1..Len(hs)
  BY <1>1 DEF Widened
<1> HIDE DEF from
<1>6. \A k \in 1..Len(hs) : Of(hs, k) = IF k = p THEN {n + 1} ELSE Of(gs, from[k])
  BY <1>2, <1>5 DEF Of
<1>7. ASSUME NEW k \in 1..Len(hs), NEW l \in 1..Len(hs), k < l
      PROVE  hs[k].gid < hs[l].gid
  <2>1. CASE k # p /\ l # p
    BY <1>1, <1>2, <1>3, <1>7, <2>1
  <2>2. CASE k = p
    <3>1. l # p /\ l > p
      BY <1>1, <1>7, <2>2
    <3>2. gid < gs[from[l]].gid
      BY <1>1, <1>2, <1>4, <3>1
    <3> QED  BY <1>2, <1>5, <2>2, <3>1, <3>2
  <2>3. CASE l = p
    <3>1. k # p /\ k < p
      BY <1>1, <1>7, <2>3
    <3>2. gs[from[k]].gid < gid
      BY <1>1, <1>2, <1>4, <3>1
    <3> QED  BY <1>2, <1>5, <2>3, <3>1, <3>2
  <2> QED  BY <2>1, <2>2, <2>3
<1>8. ASSUME NEW k \in 1..Len(hs), NEW l \in 1..Len(hs), k # l
      PROVE  Of(hs, k) \intersect Of(hs, l) = {}
  <2>1. \A g \in 1..Len(gs) : n + 1 \notin Of(gs, g)
    <3>1. n + 1 \notin 1..n
      BY <1>1
    <3> QED  BY <1>1, <3>1
  <2>2. CASE k # p /\ l # p
    <3>1. from[k] # from[l]
      <4>1. k < l \/ l < k
        BY <1>1, <1>8
      <4>2. from[k] \in Int /\ from[l] \in Int
        BY <1>2, <2>2
      <4> QED  BY <1>3, <2>2, <4>1, <4>2
    <3> QED  BY <1>1, <1>2, <1>6, <2>2, <3>1
  <2>3. CASE k = p
    BY <1>2, <1>6, <1>8, <2>1, <2>3
  <2>4. CASE l = p
    BY <1>2, <1>6, <1>8, <2>1, <2>4
  <2> QED  BY <2>2, <2>3, <2>4
<1>9. \A k \in 1..Len(hs) : Numbered(hs[k].slts) /\ Of(hs, k) \subseteq 1..n + 1
  <2>1. 1..n \subseteq 1..n + 1 /\ n + 1 \in 1..n + 1
    BY <1>1
  <2> QED  BY <1>1, <1>2, <1>5, <1>6, <2>1
<1>10. n + 1 \in Nat
  BY <1>1
<1>11. \A k \in 1..Len(hs) : \A y \in Of(hs, k) :
          y = n + 1 \/ \E g \in 1..Len(gs) : y \in Of(gs, g)
  BY <1>2, <1>6
<1> QED  BY <1>1, <1>7, <1>8, <1>9, <1>10, <1>11 DEF GroupsOK

LEMMA ConnectNew ==
    ASSUME SigInv, NEW c \in Callables, NEW gid \in Groups, S!Find(gid) = {},
           made' = made + 1, S!Disturb(TRUE),
           m_slots' = S!InsertAt(m_slots, S!Place(gid),
                                 [gid |-> gid, slts |-> <<S!NewSlot(c, <<>>)>>])
    PROVE  SigInv'
<1> DEFINE slot == S!NewSlot(c, <<>>)
           x == [gid |-> gid, slts |-> <<slot>>]
           p == S!Place(gid)
<1>1. GroupsOK(m_slots, made) /\ EmissionOK(emission, m_slots, made)
  BY DEF SigInv
<1>2. m_slots \in Seq(Group) /\ made \in Nat /\ Len(m_slots) \in Nat
  BY <1>1 DEF GroupsOK
<1>3. Numbered(<<>>) /\ Len(<<>>) = 0 /\ S!Ids(<<>>) = {}
  BY DEF Numbered, S!Ids
<1>4. slot \in Slot /\ slot.id = made + 1 /\ slot.index = 0
  BY <1>2, <1>3, NewSlotIs
<1> HIDE DEF slot
<1>5. x \in Group /\ x.gid = gid /\ x.slts = <<slot>>
  BY <1>4 DEF Group
<1>6. Numbered(<<slot>>) /\ S!Ids(<<slot>>) = {made + 1}
  <2>1. <<slot>> = Append(<<>>, slot)
    BY <1>4
  <2>2. S!Ids(<<>>) \subseteq 1..made
    BY <1>3
  <2>3. /\ Numbered(Append(<<>>, slot))
        /\ S!Ids(Append(<<>>, slot)) = S!Ids(<<>>) \union {made + 1}
    BY <1>2, <1>3, <1>4, <2>2, AppendedSlot
  <2> QED  BY <1>3, <2>1, <2>3
<1> HIDE DEF x
<1>7. InPlace(m_slots, gid, p)
  BY <1>1, PlaceIs
<1> HIDE DEF p
<1>8. p \in Nat /\ 1 <= p /\ p <= Len(m_slots) + 1
  BY <1>7 DEF InPlace
<1>9. m_slots' = S!InsertAt(m_slots, p, x)
  BY DEF p, x, slot
<1>10. m_slots' \in Seq(Group) /\ Widened(m_slots, m_slots', p, x)
  BY <1>2, <1>5, <1>8, <1>9, Inserted
<1>11. /\ GroupsOK(m_slots', made + 1)
       /\ \A k \in 1..Len(m_slots') : \A y \in Of(m_slots', k) :
             y = made + 1 \/ \E g \in 1..Len(m_slots) : y \in Of(m_slots, g)
  BY <1>1, <1>5, <1>6, <1>7, <1>10, WidenedGroups
<1>12. ASSUME Done(emission, m_slots, made) PROVE Done(emission, m_slots', made + 1)
  <2>1. Called(emission.called, emission.began, made)
        /\ Behind(m_slots, Len(m_slots) + 1, emission.called, emission.began)
    BY <1>12 DEF Done
  <2>2. Called(emission.called, emission.began, made + 1)
    <3>1. 1..made \subseteq 1..made + 1
      BY <1>2
    <3> QED  BY <2>1, <3>1 DEF Called
  <2>3. Behind(m_slots', Len(m_slots') + 1, emission.called, emission.began)
    <3> SUFFICES ASSUME NEW k \in 1..Len(m_slots'), NEW y \in Of(m_slots', k),
                        y \in emission.began
                 PROVE  y \in S!Ids(emission.called)
      BY DEF Behind
    <3>1. y # made + 1
      BY <1>2, <2>1 DEF Called
    <3>2. PICK g \in 1..Len(m_slots) : y \in Of(m_slots, g)
      BY <1>11, <3>1
    <3>3. g < Len(m_slots) + 1
      BY <1>2
    <3> QED  BY <2>1, <3>2, <3>3 DEF Behind
  <2> QED  BY <1>12, <2>2, <2>3 DEF Done
<1>13. EmissionOK(emission', m_slots', made')
  <2>1. emission' = S!Dangling \/ (emission' = emission /\ emission.at # "slot")
    BY DEF S!Disturb
  <2>2. emission.at # "slot" => ~InSlot(emission, m_slots, made)
    BY DEF InSlot, Emitting
  <2> QED  BY <1>1, <1>12, <2>1, <2>2 DEF EmissionOK
<1> QED  BY <1>11, <1>13 DEF SigInv

(* The emission calls one more slot.                                       *)
UpTo(called, gid) == \A m \in 1..Len(called) : called[m].gid <= gid
With(ids, called, new) == S!Ids(called) = ids \union {new}

LEMMA CalledOneMore ==
    ASSUME NEW called, NEW began, NEW n, Called(called, began, n),
           NEW c \in Calls, c.id \in 1..n, c.id \notin S!Ids(called),
           UpTo(called, c.gid)
    PROVE  /\ Called(Append(called, c), began, n)
           /\ With(S!Ids(called), Append(called, c), c.id)
           /\ UpTo(Append(called, c), c.gid)
<1> DEFINE t == Append(called, c)
           N == Len(called)
<1>1. called \in Seq(Calls) /\ N \in Nat
      /\ S!Ids(called) \subseteq 1..n /\ began \subseteq 1..n
  BY DEF Called
<1>2. /\ t \in Seq(Calls) /\ Len(t) = N + 1
      /\ t[N + 1] = c /\ \A k \in 1..N : t[k] = called[k]
  BY <1>1
<1>3. S!Ids(t) = S!Ids(called) \union {c.id}
  BY <1>1, AppendedIds DEF t
<1> HIDE DEF t
<1>4. \A k \in 1..N : called[k].id # c.id
  <2> TAKE k \in 1..N
  <2>1. called[k].id \in S!Ids(called)
    BY <1>1 DEF S!Ids
  <2> QED  BY <2>1
<1> HIDE DEF N
<1>5. \A k \in 1..Len(t) : k = N + 1 \/ (k \in 1..N /\ t[k] = called[k])
  BY <1>1, <1>2
<1>6. c.gid <= c.gid
  <2>1. c.gid \in Int
    BY SignalAssumption DEF Calls
  <2> QED  BY <2>1
<1>7. UpTo(t, c.gid)
  BY <1>2, <1>5, <1>6 DEF UpTo, N
<1>8. InOrder(t)
  <2> SUFFICES ASSUME NEW k \in 1..Len(t), NEW l \in 1..Len(t), k < l
               PROVE  t[k].id # t[l].id /\ t[k].gid <= t[l].gid
    BY DEF InOrder
  <2>1. k \in 1..N /\ t[k] = called[k]
    BY <1>1, <1>2, <1>5
  <2>2. CASE l = N + 1
    BY <1>2, <1>4, <2>1, <2>2 DEF UpTo, N
  <2>3. CASE l \in 1..N /\ t[l] = called[l]
    BY <2>1, <2>3 DEF Called, InOrder, N
  <2> QED  BY <1>5, <2>2, <2>3
<1> QED  BY <1>1, <1>2, <1>3, <1>7, <1>8 DEF Called, With, t

(* A slot that is there when the emission comes to it.                     *)
LEMMA CallIs ==
    ASSUME NEW n, GroupsOK(m_slots, n), NEW g \in 1..Len(m_slots),
           NEW k \in 1..Len(m_slots[g].slts)
    PROVE  /\ S!Call(g, k) \in Calls
           /\ S!Call(g, k).id = m_slots[g].slts[k].id
           /\ S!Call(g, k).gid = m_slots[g].gid
           /\ S!Call(g, k).id \in Of(m_slots, g) /\ S!Call(g, k).id \in 1..n
<1>1. m_slots[g] \in Group /\ m_slots[g].slts \in Seq(Slot)
      /\ Of(m_slots, g) \subseteq 1..n
  BY DEF GroupsOK, Numbered
<1>2. m_slots[g].slts[k] \in Slot
  BY <1>1
<1>3. k \in DOMAIN m_slots[g].slts
  BY <1>1
<1>4. m_slots[g].slts[k].id \in Of(m_slots, g)
  BY <1>3 DEF Of, S!Ids
<1> QED  BY <1>1, <1>2, <1>4 DEF S!Call, Slot, Group, Calls

(* Behind stays, and Ahead loses the group that is called.                 *)
LEMMA OthersStay ==
    ASSUME NEW gs, NEW n, GroupsOK(gs, n), NEW g \in 1..Len(gs), NEW j \in Int,
           NEW called, NEW began, NEW more \in Seq(Calls), NEW new \in Of(gs, g),
           With(S!Ids(called), more, new), UpTo(more, gs[g].gid), j <= g
    PROVE  /\ Behind(gs, g, called, began) => Behind(gs, g, more, began)
           /\ Ahead(gs, j, called) => Ahead(gs, g, more)
<1>1. S!Ids(more) = S!Ids(called) \union {new} /\ gs \in Seq(Group) /\ Len(gs) \in Nat
  BY DEF With, GroupsOK
<1>2. Behind(gs, g, called, began) => Behind(gs, g, more, began)
  BY <1>1 DEF Behind
<1>3. ASSUME Ahead(gs, j, called), NEW h \in 1..Len(gs), h > g
      PROVE  Of(gs, h) \intersect S!Ids(more) = {}
             /\ \A m \in 1..Len(more) : more[m].gid <= gs[h].gid
  <2>1. Of(gs, h) \intersect Of(gs, g) = {} /\ gs[g].gid < gs[h].gid
    BY <1>3 DEF GroupsOK
  <2>2. Of(gs, h) \intersect S!Ids(called) = {}
    <3>1. h > j
      BY <1>3
    <3> QED  BY <1>3, <3>1 DEF Ahead
  <2>3. Of(gs, h) \intersect S!Ids(more) = {}
    BY <1>1, <2>1, <2>2
  <2>4. \A m \in 1..Len(more) : more[m].gid <= gs[h].gid
    <3> TAKE m \in 1..Len(more)
    <3>1. more[m] \in Calls /\ gs[g] \in Group /\ gs[h] \in Group
      BY <1>1
    <3>2. more[m].gid \in Int /\ gs[g].gid \in Int /\ gs[h].gid \in Int
      BY <3>1, SignalAssumption DEF Calls, Group
    <3>3. more[m].gid <= gs[g].gid
      BY DEF UpTo
    <3> QED  BY <2>1, <3>2, <3>3
  <2> QED  BY <2>3, <2>4
<1> QED  BY <1>2, <1>3 DEF Ahead

(* What NextGroup makes of an emission that is through with group g.       *)
LEMMA NextGroupIs ==
    ASSUME NEW n, GroupsOK(m_slots, n), NEW g \in Nat, g <= Len(m_slots),
           NEW called, NEW began, Called(called, began, n),
           Behind(m_slots, g + 1, called, began), Ahead(m_slots, g, called)
    PROVE  EmissionOK(S!NextGroup(g, called, began), m_slots, n)
<1> DEFINE later == {h \in DOMAIN m_slots : h > g /\ m_slots[h].slts # <<>>}
           next == S!NextGroup(g, called, began)
<1>1. m_slots \in Seq(Group) /\ Len(m_slots) \in Nat /\ DOMAIN m_slots = 1..Len(m_slots)
  BY DEF GroupsOK
<1>2. \A h \in 1..Len(m_slots) : h > g /\ h \notin later => Of(m_slots, h) = {}
  BY <1>1 DEF Of, S!Ids
<1>3. CASE later = {}
  <2>1. next = [at |-> "done", called |-> called, began |-> began]
    BY <1>3 DEF S!NextGroup
  <2>2. next.at = "done" /\ next.called = called /\ next.began = began
    BY <2>1
  <2>3. Behind(m_slots, Len(m_slots) + 1, called, began)
    <3> SUFFICES ASSUME NEW h \in 1..Len(m_slots), NEW x \in Of(m_slots, h), x \in began
                 PROVE  x \in S!Ids(called)
      BY DEF Behind
    <3>1. h < g + 1
      BY <1>1, <1>2, <1>3
    <3> QED  BY <3>1 DEF Behind
  <2> HIDE DEF next
  <2> QED  BY <2>2, <2>3 DEF EmissionOK, Done, next
<1>4. CASE later # {}
  <2> DEFINE h == CHOOSE x \in later : \A y \in later : x <= y
             slts == m_slots[h].slts
             c == S!Call(h, 1)
             more == Append(called, c)
             e == [at |-> "slot", g |-> h, k |-> 1, kend |-> Len(slts),
                   called |-> more, began |-> began]
  <2>1. later \subseteq Nat
    BY <1>1
  <2>2. next = e
    BY <1>4 DEF S!NextGroup
  <2>3. h \in later /\ \A y \in later : h <= y
    <3> HIDE DEF later
    <3>1. \E x \in later : \A y \in later : x <= y
      BY <1>4, <2>1, Least
    <3> QED  BY <3>1
  <2> HIDE DEF h, next
  <2>4. h \in 1..Len(m_slots) /\ h > g /\ slts # <<>>
    BY <1>1, <2>3
  <2>5. slts \in Seq(Slot) /\ Numbered(slts)
    BY <2>4 DEF GroupsOK, Numbered
  <2>6. Len(slts) \in Nat /\ 1 <= Len(slts) /\ 1 \in 1..Len(slts)
    BY <2>4, <2>5
  <2>7. /\ c \in Calls /\ c.id = slts[1].id /\ c.gid = m_slots[h].gid
        /\ c.id \in Of(m_slots, h) /\ c.id \in 1..n
    BY <2>4, <2>6, CallIs
  <2>8. Of(m_slots, h) \intersect S!Ids(called) = {} /\ UpTo(called, c.gid)
    BY <2>4, <2>7 DEF Ahead, UpTo
  <2> HIDE DEF c
  <2>9. /\ Called(more, began, n)
        /\ With(S!Ids(called), more, c.id)
        /\ UpTo(more, c.gid)
    BY <2>7, <2>8, CalledOneMore
  <2> HIDE DEF more
  <2>10. Behind(m_slots, h, called, began)
    <3> SUFFICES ASSUME NEW b \in 1..Len(m_slots), b < h, NEW x \in Of(m_slots, b), x \in began
                 PROVE  x \in S!Ids(called)
      BY DEF Behind
    <3>1. b \notin later
      BY <1>1, <2>3, <2>4
    <3>2. b < g + 1
      BY <1>1, <1>2, <3>1
    <3> QED  BY <3>2 DEF Behind
  <2>11. Behind(m_slots, h, more, began) /\ Ahead(m_slots, h, more)
    <3>1. g \in Int /\ g <= h /\ more \in Seq(Calls)
      BY <1>1, <2>4, <2>9 DEF Called
    <3>2. UpTo(more, m_slots[h].gid)
      BY <2>7, <2>9
    <3> QED  BY <2>4, <2>7, <2>9, <2>10, <3>1, <3>2, OthersStay
  <2> HIDE DEF slts, e
  <2>12. /\ e \in Emitting
         /\ e.g = h /\ e.k = 1 /\ e.kend = Len(slts)
         /\ e.called = more /\ e.began = began
    <3>1. h \in Nat /\ more \in Seq(Calls) /\ began \in SUBSET Nat
      BY <1>1, <2>4, <2>9 DEF Called, GroupsOK
    <3> QED  BY <2>6, <3>1 DEF e, Emitting
  <2>13. Inside(slts, m_slots[h].gid, e)
    <3>1. \A m \in 1..Len(slts) : slts[m].id \in S!Ids(more) <=> m <= 1
      <4> TAKE m \in 1..Len(slts)
      <4>1. slts[m].id \notin S!Ids(called)
        <5>1. slts[m].id \in Of(m_slots, h)
          BY <2>5 DEF Of, S!Ids, slts
        <5> QED  BY <2>8, <5>1
      <4>2. slts[m].id \in S!Ids(more) <=> slts[m].id = slts[1].id
        BY <2>7, <2>9, <4>1 DEF With
      <4>3. slts[m].id = slts[1].id <=> m = 1
        BY <2>5, <2>6 DEF Numbered
      <4> QED  BY <4>2, <4>3
    <3>2. \A m \in 1..Len(more) : more[m].gid <= m_slots[h].gid
      BY <2>7, <2>9 DEF UpTo
    <3> QED  BY <2>6, <2>12, <3>1, <3>2 DEF Inside
  <2>14. InSlot(e, m_slots, n)
    BY <2>4, <2>9, <2>11, <2>12, <2>13 DEF InSlot, slts
  <2> QED  BY <2>2, <2>14 DEF EmissionOK, next
<1> QED  BY <1>3, <1>4

LEMMA EmissionBegins ==
    ASSUME SigInv, S!EmitBegin PROVE SigInv'
<1>1. GroupsOK(m_slots, made) /\ m_slots' = m_slots /\ made' = made
  BY DEF SigInv, S!EmitBegin
<1>2. m_slots \in Seq(Group) /\ DOMAIN m_slots = 1..Len(m_slots) /\ Len(m_slots) \in Nat
      /\ made \in Nat
  BY <1>1 DEF GroupsOK
<1>3. S!Connected \subseteq 1..made
  BY <1>1, <1>2 DEF S!Connected, GroupsOK, Of
<1> DEFINE none == <<>>
<1>4. none \in Seq(Calls) /\ Len(none) = 0 /\ S!Ids(none) = {}
  BY DEF S!Ids
<1>5. emission' = S!NextGroup(0, none, S!Connected)
  BY DEF S!EmitBegin
<1> HIDE DEF none
<1>6. Called(none, S!Connected, made)
  BY <1>3, <1>4 DEF Called, InOrder
<1>7. Behind(m_slots, 0 + 1, none, S!Connected) /\ Ahead(m_slots, 0, none)
  BY <1>2, <1>4 DEF Behind, Ahead
<1>8. EmissionOK(S!NextGroup(0, none, S!Connected), m_slots, made)
  <2>1. 0 \in Nat /\ 0 <= Len(m_slots)
    BY <1>2
  <2> QED  BY <1>1, <1>6, <1>7, <2>1, NextGroupIs
<1> QED  BY <1>1, <1>5, <1>8 DEF SigInv

LEMMA EmissionProceeds ==
    ASSUME SigInv, S!EmitNext PROVE SigInv'
<1> DEFINE e == emission
           slts == m_slots[e.g].slts
<1>1. GroupsOK(m_slots, made) /\ m_slots' = m_slots /\ made' = made
  BY DEF SigInv, S!EmitNext
<1>2. e.at = "slot" /\ EmissionOK(e, m_slots, made)
  BY DEF SigInv, S!EmitNext
<1>3. emission' = IF e.k < e.kend
                  THEN [e EXCEPT !.k = @ + 1, !.called = Append(@, S!Call(e.g, e.k + 1))]
                  ELSE S!NextGroup(e.g, e.called, e.began)
  BY DEF S!EmitNext
<1> HIDE DEF e
<1>4. /\ e \in Emitting
      /\ e.g \in 1..Len(m_slots)
      /\ Called(e.called, e.began, made)
      /\ Behind(m_slots, e.g, e.called, e.began)
      /\ Ahead(m_slots, e.g, e.called)
      /\ Inside(slts, m_slots[e.g].gid, e)
  BY <1>2 DEF EmissionOK, InSlot, Done, S!NoEmission, S!Dangling
<1>5. m_slots \in Seq(Group) /\ Len(m_slots) \in Nat /\ Numbered(slts) /\ slts \in Seq(Slot)
      /\ e.g \in Nat
  BY <1>1, <1>4 DEF GroupsOK, Numbered
<1>6. /\ e.k \in Nat /\ e.kend \in Nat /\ 1 <= e.k /\ e.k <= e.kend /\ e.kend <= Len(slts)
      /\ \A m \in 1..Len(slts) : /\ slts[m].id \in S!Ids(e.called) <=> m <= e.k
                                 /\ m > e.kend => slts[m].id \notin e.began
      /\ UpTo(e.called, m_slots[e.g].gid)
  BY <1>4 DEF Inside, UpTo
<1>7. CASE e.k < e.kend
  <2> DEFINE c == S!Call(e.g, e.k + 1)
             more == Append(e.called, c)
             new == [e EXCEPT !.k = @ + 1, !.called = more]
  <2>1. e.k + 1 \in 1..Len(slts)
    BY <1>5, <1>6, <1>7
  <2>2. /\ c \in Calls /\ c.id = slts[e.k + 1].id /\ c.gid = m_slots[e.g].gid
        /\ c.id \in Of(m_slots, e.g) /\ c.id \in 1..made
    BY <1>1, <1>4, <2>1, CallIs
  <2>3. c.id \notin S!Ids(e.called)
    <3>1. ~(e.k + 1 <= e.k)
      BY <1>6
    <3> QED  BY <1>6, <2>1, <2>2, <3>1
  <2>4. emission' = new
    BY <1>3, <1>7
  <2> HIDE DEF c
  <2>5. /\ Called(more, e.began, made)
        /\ With(S!Ids(e.called), more, c.id)
        /\ UpTo(more, c.gid)
    BY <1>4, <1>6, <2>2, <2>3, CalledOneMore
  <2> HIDE DEF more
  <2>6. /\ new \in Emitting
        /\ new.g = e.g /\ new.k = e.k + 1 /\ new.kend = e.kend
        /\ new.called = more /\ new.began = e.began
    <3>1. more \in Seq(Calls) /\ e.k + 1 \in Nat
      BY <1>6, <2>5 DEF Called
    <3> QED  BY <1>4, <3>1 DEF Emitting
  <2> HIDE DEF new
  <2>7. Behind(m_slots, e.g, more, e.began) /\ Ahead(m_slots, e.g, more)
    <3>1. e.g \in Int /\ e.g <= e.g /\ more \in Seq(Calls)
      BY <1>5, <2>5 DEF Called
    <3>2. UpTo(more, m_slots[e.g].gid)
      BY <2>2, <2>5
    <3> QED  BY <1>1, <1>4, <2>2, <2>5, <3>1, <3>2, OthersStay
  <2>8. Inside(slts, m_slots[e.g].gid, new)
    <3>1. \A m \in 1..Len(slts) : slts[m].id \in S!Ids(more) <=> m <= e.k + 1
      <4> TAKE m \in 1..Len(slts)
      <4>1. slts[m].id \in S!Ids(more)
              <=> slts[m].id \in S!Ids(e.called) \/ slts[m].id = slts[e.k + 1].id
        BY <2>2, <2>5 DEF With
      <4>2. slts[m].id = slts[e.k + 1].id <=> m = e.k + 1
        BY <1>5, <2>1 DEF Numbered
      <4>3. slts[m].id \in S!Ids(e.called) <=> m <= e.k
        BY <1>6
      <4>4. m <= e.k + 1 <=> m <= e.k \/ m = e.k + 1
        BY <1>6
      <4> QED  BY <4>1, <4>2, <4>3, <4>4
    <3>2. \A m \in 1..Len(more) : more[m].gid <= m_slots[e.g].gid
      BY <2>2, <2>5 DEF UpTo
    <3>3. new.k \in Nat /\ 1 <= new.k /\ new.k <= new.kend
      BY <1>6, <1>7, <2>6
    <3>4. \A m \in 1..Len(slts) : m > new.kend => slts[m].id \notin new.began
      BY <1>6, <2>6
    <3> QED  BY <1>6, <2>6, <3>1, <3>2, <3>3, <3>4 DEF Inside
  <2>9. InSlot(new, m_slots, made)
    BY <1>4, <2>5, <2>6, <2>7, <2>8 DEF InSlot, slts
  <2> QED  BY <1>1, <2>4, <2>9 DEF SigInv, EmissionOK
<1>8. CASE ~(e.k < e.kend)
  <2>1. Behind(m_slots, e.g + 1, e.called, e.began)
    <3> SUFFICES ASSUME NEW h \in 1..Len(m_slots), h < e.g + 1,
                        NEW x \in Of(m_slots, h), x \in e.began
                 PROVE  x \in S!Ids(e.called)
      BY DEF Behind
    <3>1. CASE h < e.g
      BY <1>4, <3>1 DEF Behind
    <3>2. CASE h = e.g
      <4>1. PICK m \in 1..Len(slts) : x = slts[m].id
        BY <1>5, <3>2 DEF Of, S!Ids, slts
      <4>2. ~(m > e.kend)
        BY <1>6, <4>1
      <4>3. m <= e.k
        BY <1>6, <1>8, <4>1, <4>2
      <4> QED  BY <1>6, <4>1, <4>3
    <3> QED  BY <1>5, <3>1, <3>2
  <2>2. e.g <= Len(m_slots)
    BY <1>4, <1>5
  <2>3. EmissionOK(S!NextGroup(e.g, e.called, e.began), m_slots, made)
    BY <1>1, <1>4, <1>5, <2>1, <2>2, NextGroupIs
  <2>4. emission' = S!NextGroup(e.g, e.called, e.began)
    BY <1>3, <1>8
  <2> QED  BY <1>1, <2>3, <2>4 DEF SigInv
<1> QED  BY <1>7, <1>8

LEMMA InitSigInv == S!SigInit => SigInv
<1> SUFFICES ASSUME S!SigInit PROVE SigInv
  OBVIOUS
<1>1. m_slots = <<>> /\ made = 0 /\ emission = S!NoEmission
  BY DEF S!SigInit
<1>2. GroupsOK(<<>>, 0)
  BY DEF GroupsOK
<1> QED  BY <1>1, <1>2 DEF SigInv, EmissionOK

LEMMA Connects ==
    ASSUME SigInv, NEW c \in Callables, NEW gid \in Groups, S!Connect(c, gid)
    PROVE  SigInv'
<1>1. made' = made + 1
  BY DEF S!Connect
<1>2. ASSUME NEW g \in S!Find(gid),
             m_slots' = [m_slots EXCEPT ![g].slts = Append(@, S!NewSlot(c, @))],
             emission' = emission \/ S!Disturb(S!EmissionIn(g))
      PROVE  SigInv'
  BY <1>1, <1>2, ConnectOld
<1>3. ASSUME S!Find(gid) = {}, S!Disturb(TRUE),
             m_slots' = S!InsertAt(m_slots, S!Place(gid),
                                   [gid |-> gid, slts |-> <<S!NewSlot(c, <<>>)>>])
      PROVE  SigInv'
  BY <1>1, <1>3, ConnectNew
<1> QED  BY <1>2, <1>3 DEF S!Connect

LEMMA NextSigInv == SigInv /\ [S!SigNext]_signalVars => SigInv'
<1> SUFFICES ASSUME SigInv, [S!SigNext]_signalVars PROVE SigInv'
  OBVIOUS
<1>1. CASE UNCHANGED <<m_slots, made, emission>>
  BY <1>1 DEF SigInv
<1>2. CASE \E c \in Callables, gid \in Groups : S!Connect(c, gid)
  BY <1>2, Connects
<1>3. CASE \E crit : S!disconnect_if(crit)
  BY <1>3, MatchingTaken
<1>4. CASE \E gid \in Groups : S!DisconnectGroup(gid)
  BY <1>4, GroupEmptied
<1>5. CASE S!Disconnect_all
  BY <1>5, AllDisconnected
<1>6. CASE S!EmitBegin
  BY <1>6, EmissionBegins
<1>7. CASE S!EmitNext
  BY <1>7, EmissionProceeds
<1>8. \A c : S!DisconnectCallable(c) \/ S!DisconnectObject(c) \/ S!DisconnectBoth(c)
             => \E crit : S!disconnect_if(crit)
  BY DEF S!DisconnectCallable, S!DisconnectObject, S!DisconnectBoth
<1>9. S!Block \/ S!Unblock \/ UNCHANGED signalVars => UNCHANGED <<m_slots, made, emission>>
  BY DEF S!Block, S!Unblock, signalVars
<1> QED  BY <1>1, <1>2, <1>3, <1>4, <1>5, <1>6, <1>7, <1>8, <1>9 DEF S!SigNext

LEMMA SlotsAreReached == SigInv => S!EmissionReachesSlots
<1> SUFFICES ASSUME SigInv PROVE S!EmissionReachesSlots
  OBVIOUS
<1>1. /\ m_slots \in Seq(Group) /\ DOMAIN m_slots = 1..Len(m_slots) /\ Len(m_slots) \in Nat
      /\ \A g \in 1..Len(m_slots) : Numbered(m_slots[g].slts)
      /\ \A g, h \in 1..Len(m_slots) : g < h => m_slots[g].gid < m_slots[h].gid
  BY DEF SigInv, GroupsOK
<1>2. \A g \in 1..Len(m_slots) : \A n \in DOMAIN m_slots[g].slts :
         m_slots[g].slts[n].index = n - 1
  BY <1>1 DEF Numbered
<1>3. S!SlotsInOrder
  BY <1>1, <1>2 DEF S!SlotsInOrder
<1>4. ASSUME emission.at = "done"
      PROVE  /\ emission.began \intersect S!Connected \subseteq S!Ids(emission.called)
             /\ DOMAIN emission.called = 1..Len(emission.called)
             /\ InOrder(emission.called)
  <2>1. Done(emission, m_slots, made)
    BY <1>4 DEF SigInv, EmissionOK, InSlot, Emitting, S!NoEmission, S!Dangling
  <2>2. \A g \in 1..Len(m_slots) : g < Len(m_slots) + 1
    BY <1>1
  <2>3. \A g \in 1..Len(m_slots) :
           Of(m_slots, g) \intersect emission.began \subseteq S!Ids(emission.called)
    BY <2>1, <2>2 DEF Done, Behind
  <2>4. emission.began \intersect S!Connected \subseteq S!Ids(emission.called)
    BY <1>1, <2>3 DEF S!Connected, Of
  <2> QED  BY <2>1, <2>4 DEF Done, Called
<1> QED  BY <1>3, <1>4 DEF S!EmissionReachesSlots, InOrder

LEMMA SignalSteps == [PartsNext]_allVars => [S!SigNext]_signalVars
  BY DEF PartsNext, allVars, restVars, signalVars

LEMMA SigInvHolds == PartsSpec => []SigInv
<1>1. PartsInit => SigInv
  BY InitSigInv DEF PartsInit
<1>2. SigInv /\ [PartsNext]_allVars => SigInv'
  BY SignalSteps, NextSigInv
<1> QED  BY <1>1, <1>2, PTL DEF PartsSpec, allVars

(* An emission calls every slot that was there when it began, once and in  *)
(* the order of the groups, whatever it called before changed behind it.   *)
THEOREM EmissionsReachSlots == PartsSpec => []EmissionReachesSlots
<1>1. SigInv => EmissionReachesSlots
  BY SlotsAreReached DEF EmissionReachesSlots
<1> QED  BY <1>1, SigInvHolds, PTL

(* A Disconnect takes out the slots it names, all of them and no others.   *)
THEOREM OnlyMatchingTaken == PartsSpec => DisconnectsMatching
<1> DEFINE Taken == \A c \in Callables :
              /\ S!DisconnectCallable(c) =>
                    S!Connected' = S!Connected \ S!Matching([fn |-> {c.fn}, obj |-> S!AnyObj])
              /\ S!DisconnectObject(c) =>
                    S!Connected' = S!Connected \ S!Matching([fn |-> S!AnyFn, obj |-> {c.obj}])
<1>1. SigInv /\ [PartsNext]_allVars => [Taken]_signalVars
  BY MatchingTaken DEF S!DisconnectCallable, S!DisconnectObject
<1> HIDE DEF Taken
<1>2. PartsSpec => [][Taken]_signalVars
  BY <1>1, SigInvHolds, PTL DEF PartsSpec, allVars
<1> QED  BY <1>2 DEF DisconnectsMatching, S!DisconnectsMatching, S!sigVars, signalVars, Taken

-----------------------------------------------------------------------------
(* Flag.  Which arguments are flags is a recursive function of the line.   *)
FlagHere(k) == ~F!Plain(argv[k]) /\ ~(F!IsFlag[k - 1] /\ F!TakesNext(k - 1))

LEMMA FlagsAre ==
    /\ F!IsFlag[0] = FALSE
    /\ \A k \in 1..MaxArguments : F!IsFlag[k] = FlagHere(k)
<1> DEFINE N == MaxArguments
           step == [x \in Nat \X BOOLEAN |-> /\ ~F!Plain(argv[x[1] + 1])
                                             /\ ~(x[2] /\ F!TakesNext(x[1]))]
<1>1. N \in Nat
  BY FlagAssumption
<1>2. step \in [Nat \X BOOLEAN -> BOOLEAN]
  <2>1. \A x \in Nat \X BOOLEAN :
           (~F!Plain(argv[x[1] + 1]) /\ ~(x[2] /\ F!TakesNext(x[1]))) \in BOOLEAN
    OBVIOUS
  <2> QED  BY Zenon, <2>1
<1>3. \A n \in Nat, b \in BOOLEAN :
         step[<<n, b>>] = (~F!Plain(argv[n + 1]) /\ ~(b /\ F!TakesNext(n)))
  OBVIOUS
<1> HIDE DEF step
<1>4. PICK g : Computes(g, BOOLEAN, FALSE, step)
  BY <1>2, Recursion
<1>5. g \in [Nat -> BOOLEAN] /\ g[0] = FALSE
      /\ \A n \in Nat : g[n + 1] = (~F!Plain(argv[n + 1]) /\ ~(g[n] /\ F!TakesNext(n)))
  <2>1. g \in [Nat -> BOOLEAN] /\ g[0] = FALSE /\ \A n \in Nat : g[n + 1] = step[<<n, g[n]>>]
    BY <1>4 DEF Computes
  <2>2. \A n \in Nat : g[n] \in BOOLEAN
    BY <2>1
  <2> QED  BY Zenon, <1>3, <2>1, <2>2
<1> DEFINE isFlag[k \in 0..N] == /\ k > 0
                                 /\ ~F!Plain(argv[k])
                                 /\ ~(isFlag[k - 1] /\ F!TakesNext(k - 1))
<1>6. \E h : h = [k \in 0..N |-> /\ k > 0
                                 /\ ~F!Plain(argv[k])
                                 /\ ~(h[k - 1] /\ F!TakesNext(k - 1))]
  <2> DEFINE h == [k \in 0..N |-> g[k]]
  <2>1. \A k \in 0..N : g[k] = /\ k > 0
                               /\ ~F!Plain(argv[k])
                               /\ ~(h[k - 1] /\ F!TakesNext(k - 1))
    <3> TAKE k \in 0..N
    <3>1. CASE k = 0
      <4>1. ~(k > 0)
        BY <3>1
      <4>2. g[k] = FALSE
        BY <1>5, <3>1
      <4> QED  BY Zenon, <4>1, <4>2
    <3>2. CASE k # 0
      <4>1. k - 1 \in Nat /\ k - 1 \in 0..N /\ (k - 1) + 1 = k /\ k > 0
        BY <1>1, <3>2
      <4>2. g[k] = (~F!Plain(argv[k]) /\ ~(g[k - 1] /\ F!TakesNext(k - 1)))
        BY <1>5, <4>1
      <4>3. h[k - 1] = g[k - 1]
        BY <4>1
      <4> QED  BY <4>1, <4>2, <4>3
    <3> QED  BY <3>1, <3>2
  <2>2. h = [k \in 0..N |-> /\ k > 0
                            /\ ~F!Plain(argv[k])
                            /\ ~(h[k - 1] /\ F!TakesNext(k - 1))]
    BY Zenon, <2>1
  <2> QED  BY <2>2
<1>7. isFlag = [k \in 0..N |-> /\ k > 0
                               /\ ~F!Plain(argv[k])
                               /\ ~(isFlag[k - 1] /\ F!TakesNext(k - 1))]
  BY <1>6
<1>8. F!IsFlag = isFlag
  BY DEF F!IsFlag
<1> HIDE DEF isFlag
<1>9. isFlag[0] = FALSE
  <2>1. 0 \in 0..N /\ ~(0 > 0)
    BY <1>1
  <2> QED  BY Zenon, <1>7, <2>1
<1>10. \A k \in 1..N :
          isFlag[k] = (~F!Plain(argv[k]) /\ ~(isFlag[k - 1] /\ F!TakesNext(k - 1)))
  <2> TAKE k \in 1..N
  <2>1. k \in 0..N /\ k > 0
    BY <1>1
  <2> QED  BY Zenon, <1>7, <2>1
<1> QED  BY <1>8, <1>9, <1>10 DEF FlagHere

LEMMA FlagsStay == argv' = argv => F!IsFlag' = F!IsFlag
  BY DEF F!IsFlag, F!TakesNext, F!Plain, F!judgeSuitableValue

(* A command line av with its flags, and those that take the next argument *)
(* for their value.                                                        *)
Line(av, isF, takes) ==
    /\ av \in Seq(Arguments) /\ Len(av) <= MaxArguments
    /\ ~isF[0]
    /\ \A k \in 1..Len(av) : isF[k] <=> ~F!Plain(av[k]) /\ ~(isF[k - 1] /\ takes[k - 1])

(* What the arguments before n say, and what was made of them.             *)
UsesTo(av, isF, f, n) == {k \in 1..n - 1 : isF[k] /\ av[k].text = f}
PosTo(isF, takes, n)  == {k \in 1..n - 1 : ~isF[k] /\ ~(isF[k - 1] /\ takes[k - 1])}

ValueAt(av, takes, f, k) ==
    IF av[k].rest # F!NoText THEN F!Assigned(TypeOf[f], av[k].rest)
    ELSE IF takes[k] THEN F!Given(TypeOf[f], av[k + 1])
    ELSE <<"true">>

SaidLast(av, isF, takes, f, n, v) ==
    LET uses == UsesTo(av, isF, f, n) IN
    /\ uses = {} => v = <<"default">>
    /\ \A k \in uses : (\A l \in uses : l <= k) => v = ValueAt(av, takes, f, k)

Listed(av, pos, a) ==
    /\ Len(a) = Cardinality(pos)
    /\ \A k \in pos : a[Cardinality({l \in pos : l <= k})] = av[k]

ReadTo(av, isF, takes, n, v, a) ==
    /\ n \in Nat /\ 1 <= n /\ n <= Len(av) + 1
    /\ ~(isF[n - 1] /\ takes[n - 1])
    /\ DOMAIN v = DOMAIN TypeOf
    /\ \A f \in DOMAIN TypeOf : SaidLast(av, isF, takes, f, n, v[f])
    /\ a \in Seq(Arguments) /\ Listed(av, PosTo(isF, takes, n), a)

(* The flag at n is read, with its value behind it if it takes one.        *)
Assigns(v, w, t, x) == /\ DOMAIN w = DOMAIN v /\ w[t] = x
                       /\ \A f \in DOMAIN v : f # t => w[f] = v[f]

LEMMA FlagPassed ==
    ASSUME NEW av, NEW isF, NEW takes, Line(av, isF, takes),
           NEW n, NEW v, NEW a, ReadTo(av, isF, takes, n, v, a),
           n <= Len(av), ~F!Plain(av[n]), av[n].text \in DOMAIN TypeOf,
           NEW m, m = IF takes[n] THEN n + 2 ELSE n + 1, m <= Len(av) + 1,
           NEW w, Assigns(v, w, av[n].text, ValueAt(av, takes, av[n].text, n))
    PROVE  ReadTo(av, isF, takes, m, w, a)
<1> DEFINE t == av[n].text
<1>1. /\ n \in Nat /\ 1 <= n /\ ~(isF[n - 1] /\ takes[n - 1])
      /\ Len(av) \in Nat /\ n \in 1..Len(av) /\ m \in Nat /\ n < m /\ 1 <= m
      /\ DOMAIN v = DOMAIN TypeOf /\ a \in Seq(Arguments)
      /\ Listed(av, PosTo(isF, takes, n), a)
  BY DEF ReadTo, Line
<1>2. isF[n]
  BY <1>1 DEF Line
<1>3. \A k \in 1..m - 1 : k \in 1..n - 1 \/ k = n \/ (k = n + 1 /\ takes[n])
  BY <1>1
<1>4. takes[n] => ~isF[n + 1] /\ m = n + 2
  <2>1. takes[n] => n + 1 \in 1..Len(av) /\ (n + 1) - 1 = n
    BY <1>1
  <2> QED  BY <1>2, <2>1 DEF Line
<1>5. \A k \in 1..n - 1 : k \in 1..m - 1 /\ k < n
  BY <1>1
<1>6. n \in 1..m - 1 /\ n \notin 1..n - 1
  BY <1>1
<1>7. PosTo(isF, takes, m) = PosTo(isF, takes, n)
  <2>1. ASSUME NEW k \in PosTo(isF, takes, m) PROVE k \in PosTo(isF, takes, n)
    <3>1. k \in 1..m - 1 /\ ~isF[k] /\ ~(isF[k - 1] /\ takes[k - 1])
      BY <2>1 DEF PosTo
    <3>2. k # n
      BY <1>2, <3>1
    <3>3. ~(k = n + 1 /\ takes[n])
      <4>1. (n + 1) - 1 = n
        BY <1>1
      <4> QED  BY <1>2, <3>1, <4>1
    <3>4. k \in 1..n - 1
      BY <1>3, <3>1, <3>2, <3>3
    <3> QED  BY <3>1, <3>4 DEF PosTo
  <2>2. ASSUME NEW k \in PosTo(isF, takes, n) PROVE k \in PosTo(isF, takes, m)
    BY <1>5, <2>2 DEF PosTo
  <2> QED  BY <2>1, <2>2
<1>8. ~(isF[m - 1] /\ takes[m - 1])
  <2>1. CASE takes[n]
    <3>1. m - 1 = n + 1
      BY <1>1, <1>4, <2>1
    <3> QED  BY <1>4, <2>1, <3>1
  <2>2. CASE ~takes[n]
    <3>1. m - 1 = n
      BY <1>1, <2>2
    <3> QED  BY <2>2, <3>1
  <2> QED  BY <2>1, <2>2
<1>9. ASSUME NEW f \in DOMAIN TypeOf PROVE SaidLast(av, isF, takes, f, m, w[f])
  <2>1. SaidLast(av, isF, takes, f, n, v[f])
    BY DEF ReadTo
  <2>2. ASSUME NEW k \in UsesTo(av, isF, f, m), k # n PROVE k \in UsesTo(av, isF, f, n)
    BY <1>3, <1>4, <2>2 DEF UsesTo
  <2>3. UsesTo(av, isF, f, n) \subseteq UsesTo(av, isF, f, m)
    BY <1>5 DEF UsesTo
  <2>4. CASE f = t
    <3>1. n \in UsesTo(av, isF, f, m)
      BY <1>2, <1>6, <2>4 DEF UsesTo
    <3>2. ASSUME NEW k \in UsesTo(av, isF, f, m), n <= k PROVE k = n
      <4>1. SUFFICES ASSUME k # n PROVE FALSE
        OBVIOUS
      <4>2. k \in 1..n - 1
        BY <2>2, <4>1 DEF UsesTo
      <4> QED  BY <1>1, <3>2, <4>2
    <3>3. w[f] = ValueAt(av, takes, f, n)
      BY <2>4 DEF Assigns
    <3> QED  BY <3>1, <3>2, <3>3 DEF SaidLast
  <2>5. CASE f # t
    <3>1. n \notin UsesTo(av, isF, f, m)
      BY <2>5 DEF UsesTo
    <3>2. UsesTo(av, isF, f, m) = UsesTo(av, isF, f, n)
      BY <2>2, <2>3, <3>1
    <3>3. w[f] = v[f]
      BY <1>1, <2>5 DEF Assigns
    <3> QED  BY <2>1, <3>2, <3>3 DEF SaidLast
  <2> QED  BY <2>4, <2>5
<1>10. DOMAIN w = DOMAIN TypeOf
  BY <1>1 DEF Assigns
<1> QED  BY <1>1, <1>7, <1>8, <1>9, <1>10 DEF ReadTo

(* A positional argument is read.                                          *)
LEMMA ListedOneMore ==
    ASSUME NEW av, NEW a, a \in Seq(Arguments), NEW n \in Nat,
           NEW pos, pos \subseteq 1..n - 1, Listed(av, pos, a), NEW x \in Arguments, x = av[n]
    PROVE  Listed(av, pos \union {n}, Append(a, x))
<1> DEFINE new == Append(a, x)
           more == pos \union {n}
           upTo(s, k) == {l \in s : l <= k}
<1>1. /\ Len(a) \in Nat /\ Len(new) = Len(a) + 1 /\ new[Len(a) + 1] = x
      /\ \A k \in 1..Len(a) : new[k] = a[k]
  OBVIOUS
<1> HIDE DEF new
<1>2. IsFiniteSet(pos) /\ \A k \in pos : k \in Nat /\ k < n
  <2>1. IsFiniteSet(1..n - 1)
    BY FS_Interval
  <2>2. IsFiniteSet(pos)
    BY <2>1, FS_Subset
  <2>3. \A k \in 1..n - 1 : k \in Nat /\ k < n
    OBVIOUS
  <2> QED  BY <2>2, <2>3
<1>3. n \notin pos
  BY <1>2
<1>4. Cardinality(more) = Len(a) + 1
  <2>1. Cardinality(pos \union {n}) = Cardinality(pos) + 1
    BY <1>2, <1>3, FS_AddElement
  <2> QED  BY <2>1 DEF Listed
<1>5. ASSUME NEW k \in pos PROVE new[Cardinality(upTo(more, k))] = av[k]
  <2>1. upTo(more, k) = upTo(pos, k)
    <3>1. k \in Nat /\ ~(n <= k)
      BY <1>2
    <3> QED  BY <3>1
  <2>2. Cardinality(upTo(pos, k)) \in 1..Len(a)
    <3> DEFINE s == upTo(pos, k)
    <3>1. s \subseteq pos /\ k \in s
      BY <1>2
    <3> HIDE DEF s
    <3>2. IsFiniteSet(s) /\ Cardinality(s) <= Cardinality(pos)
      BY <1>2, <3>1, FS_Subset
    <3>3. Cardinality(s) \in Nat /\ Cardinality(s) # 0
      BY <3>1, <3>2, FS_CardinalityType, FS_EmptySet
    <3>4. Cardinality(pos) = Len(a)
      BY DEF Listed
    <3> QED  BY <1>1, <3>2, <3>3, <3>4 DEF s
  <2>3. a[Cardinality(upTo(pos, k))] = av[k]
    BY DEF Listed
  <2> QED  BY <1>1, <2>1, <2>2, <2>3
<1>6. upTo(more, n) = more
  <2>1. \A k \in more : k <= n
    BY <1>2
  <2> QED  BY <2>1
<1>7. new[Cardinality(upTo(more, n))] = av[n]
  BY <1>1, <1>4, <1>6
<1>8. \A k \in more : new[Cardinality(upTo(more, k))] = av[k]
  BY <1>5, <1>7
<1>9. Len(new) = Cardinality(more)
  BY <1>1, <1>4
<1> QED  BY <1>8, <1>9 DEF Listed, new

LEMMA PlainPassed ==
    ASSUME NEW av, NEW isF, NEW takes, Line(av, isF, takes),
           NEW n, NEW v, NEW a, ReadTo(av, isF, takes, n, v, a),
           n <= Len(av), F!Plain(av[n])
    PROVE  ReadTo(av, isF, takes, n + 1, v, Append(a, av[n]))
<1>1. /\ n \in Nat /\ 1 <= n /\ ~(isF[n - 1] /\ takes[n - 1])
      /\ av \in Seq(Arguments) /\ Len(av) \in Nat /\ n \in 1..Len(av) /\ (n + 1) - 1 = n
      /\ DOMAIN v = DOMAIN TypeOf /\ a \in Seq(Arguments)
      /\ Listed(av, PosTo(isF, takes, n), a)
  BY DEF ReadTo, Line
<1>2. av[n] \in Arguments
  BY <1>1
<1>3. ~isF[n]
  BY <1>1 DEF Line
<1>4. \A k : k \in 1..n <=> k \in 1..n - 1 \/ k = n
  BY <1>1
<1>5. PosTo(isF, takes, n + 1) = PosTo(isF, takes, n) \union {n}
  BY <1>1, <1>3, <1>4 DEF PosTo
<1>6. \A f : UsesTo(av, isF, f, n + 1) = UsesTo(av, isF, f, n)
  BY <1>1, <1>3, <1>4 DEF UsesTo
<1>7. \A f \in DOMAIN TypeOf : SaidLast(av, isF, takes, f, n + 1, v[f])
  BY <1>6 DEF ReadTo, SaidLast
<1>8. Listed(av, PosTo(isF, takes, n) \union {n}, Append(a, av[n]))
  <2>1. PosTo(isF, takes, n) \subseteq 1..n - 1
    BY DEF PosTo
  <2> QED  BY <1>1, <1>2, <2>1, ListedOneMore
<1>9. Append(a, av[n]) \in Seq(Arguments)
  BY <1>1, <1>2
<1>10. n + 1 \in Nat /\ 1 <= n + 1 /\ n + 1 <= Len(av) + 1
  BY <1>1
<1>11. ~(isF[(n + 1) - 1] /\ takes[(n + 1) - 1])
  BY <1>1, <1>3
<1>12. Listed(av, PosTo(isF, takes, n + 1), Append(a, av[n]))
  BY <1>5, <1>8
<1> QED  BY <1>1, <1>7, <1>9, <1>10, <1>11, <1>12 DEF ReadTo

Takes == [k \in 0..MaxArguments |-> F!TakesNext(k)]

FlagInv ==
    /\ Line(argv, F!IsFlag, Takes)
    /\ parse # "stopped" => ReadTo(argv, F!IsFlag, Takes, i, value, args)
    /\ parse = "parsed" => i = Len(argv) + 1

LEMMA TakesStay == argv' = argv => Takes' = Takes
  BY DEF Takes, F!TakesNext

LEMMA TakesAre == \A k \in 0..MaxArguments : Takes[k] <=> F!TakesNext(k)
  BY DEF Takes

LEMMA InitFlagInv ==
    ASSUME argv \in Seq(Arguments), Len(argv) <= MaxArguments, i = 1, args = <<>>,
           value = [f \in DOMAIN TypeOf |-> <<"default">>], parse # "parsed"
    PROVE  FlagInv
<1>1. Line(argv, F!IsFlag, Takes)
  <2>1. \A k \in 1..Len(argv) : k \in 1..MaxArguments /\ k - 1 \in 0..MaxArguments
    BY FlagAssumption
  <2>2. \A k \in 1..Len(argv) : FlagHere(k) <=> ~F!Plain(argv[k])
                                               /\ ~(F!IsFlag[k - 1] /\ Takes[k - 1])
    BY <2>1, TakesAre DEF FlagHere
  <2>3. ~F!IsFlag[0]
    BY FlagsAre
  <2>4. \A k \in 1..Len(argv) : F!IsFlag[k] = FlagHere(k)
    BY <2>1, FlagsAre
  <2> QED  BY <2>2, <2>3, <2>4 DEF Line
<1>2. PosTo(F!IsFlag, Takes, 1) = {} /\ \A f : UsesTo(argv, F!IsFlag, f, 1) = {}
  BY DEF PosTo, UsesTo
<1>3. Listed(argv, {}, <<>>)
  BY FS_EmptySet DEF Listed
<1>4. \A f \in DOMAIN TypeOf : SaidLast(argv, F!IsFlag, Takes, f, 1, value[f])
  BY <1>2 DEF SaidLast
<1>5. ~F!IsFlag[1 - 1]
  BY FlagsAre
<1>6. Len(argv) \in Nat /\ 1 <= Len(argv) + 1 /\ DOMAIN value = DOMAIN TypeOf
  OBVIOUS
<1>7. ReadTo(argv, F!IsFlag, Takes, 1, value, <<>>)
  BY <1>2, <1>3, <1>4, <1>5, <1>6 DEF ReadTo
<1> QED  BY <1>1, <1>7 DEF FlagInv

LEMMA NextFlagInv == FlagInv /\ [F!FlagNext]_flagVars => FlagInv'
<1> SUFFICES ASSUME FlagInv, [F!FlagNext]_flagVars PROVE FlagInv'
  OBVIOUS
<1> DEFINE isF == F!IsFlag
<1>1. argv' = argv
  BY DEF F!FlagNext, F!ParseNothing, F!ParseEnd, F!ParsePositional, F!ParseUnknown,
         F!ParseAssigned, F!ParseLast, F!ParseNext, F!Stop, F!Set, flagVars
<1>2. isF' = isF /\ Takes' = Takes
  BY <1>1, FlagsStay, TakesStay
<1>3. Line(argv, isF, Takes) /\ Len(argv) \in Nat /\ argv \in Seq(Arguments)
  BY DEF FlagInv, Line
<1>4. Line(argv', isF', Takes')
  BY <1>1, <1>2, <1>3
<1> HIDE DEF isF
<1>5. \A n \in Nat : 1 <= n /\ n <= Len(argv) => Takes[n] = F!TakesNext(n)
  <2> TAKE n \in Nat
  <2>1. 1 <= n /\ n <= Len(argv) => n \in 0..MaxArguments
    BY <1>3, FlagAssumption DEF Line
  <2> QED  BY <2>1 DEF Takes
<1>6. ASSUME parse' = "stopped" PROVE FlagInv'
  BY <1>4, <1>6 DEF FlagInv, isF
<1>7. ASSUME ReadTo(argv, isF, Takes, i', value', args'), parse' # "parsed" PROVE FlagInv'
  BY <1>1, <1>2, <1>4, <1>7 DEF FlagInv, isF
<1>8. parse = "parsing" => /\ ReadTo(argv, isF, Takes, i, value, args)
                           /\ i \in Nat /\ 1 <= i /\ DOMAIN value = DOMAIN TypeOf
  BY DEF FlagInv, isF, ReadTo
<1>9. ASSUME NEW a \in Arguments, F!At(a), F!Known(a), NEW x, NEW step, F!Set(a.text, x, step),
             step = IF F!TakesNext(i) THEN 2 ELSE 1, i + step <= Len(argv) + 1,
             x = ValueAt(argv, Takes, a.text, i)
      PROVE  FlagInv'
  <2>1. /\ parse = "parsing" /\ i <= Len(argv) /\ a = argv[i]
        /\ ~F!Plain(a) /\ a.text \in DOMAIN TypeOf
    BY <1>9 DEF F!At, F!Known, F!Plain
  <2>2. /\ value' = [value EXCEPT ![a.text] = x] /\ i' = i + step
        /\ args' = args /\ parse' = "parsing"
    BY <1>9, <2>1 DEF F!Set
  <2>3. Assigns(value, value', argv[i].text, ValueAt(argv, Takes, argv[i].text, i))
    BY <1>8, <1>9, <2>1, <2>2 DEF Assigns
  <2>4. i' = (IF Takes[i] THEN i + 2 ELSE i + 1) /\ i' <= Len(argv) + 1
    BY <1>5, <1>8, <1>9, <2>1, <2>2
  <2>5. ReadTo(argv, isF, Takes, i', value', args)
    BY <1>3, <1>8, <2>1, <2>3, <2>4, FlagPassed
  <2> QED  BY <1>7, <2>2, <2>5
<1>10. CASE F!ParseNothing \/ \E a \in Arguments : F!ParseUnknown(a)
  BY <1>6, <1>10 DEF F!ParseNothing, F!ParseUnknown, F!Stop
<1>11. CASE F!ParseEnd
  <2>1. /\ parse = "parsing" /\ i > Len(argv) /\ parse' = "parsed"
        /\ i' = i /\ value' = value /\ args' = args
    BY <1>11 DEF F!ParseEnd
  <2>2. i = Len(argv) + 1
    BY <1>3, <1>8, <2>1 DEF ReadTo
  <2> QED  BY <1>1, <1>2, <1>4, <1>8, <2>1, <2>2 DEF FlagInv, isF
<1>12. ASSUME NEW a \in Arguments, F!ParsePositional(a) PROVE FlagInv'
  <2>1. /\ parse = "parsing" /\ parse' = "parsing" /\ i <= Len(argv)
        /\ a = argv[i] /\ F!Plain(a)
        /\ args' = Append(args, a) /\ i' = i + 1 /\ value' = value
    BY <1>12 DEF F!ParsePositional, F!At
  <2>2. ReadTo(argv, isF, Takes, i + 1, value, Append(args, argv[i]))
    BY <1>3, <1>8, <2>1, PlainPassed
  <2> QED  BY <1>7, <2>1, <2>2
<1>13. ASSUME NEW a \in Arguments, F!ParseAssigned(a) PROVE FlagInv'
  <2>1. F!At(a) /\ F!Known(a) /\ a = argv[i] /\ a.rest # F!NoText /\ i <= Len(argv)
        /\ parse = "parsing"
    BY <1>13 DEF F!ParseAssigned, F!At
  <2>2. ~F!TakesNext(i)
    BY <2>1 DEF F!TakesNext
  <2>3. i + 1 <= Len(argv) + 1
    BY <1>3, <1>8, <2>1
  <2>4. F!Assigned(TypeOf[a.text], a.rest) = ValueAt(argv, Takes, a.text, i)
    BY <2>1 DEF ValueAt
  <2>5. F!Set(a.text, F!Assigned(TypeOf[a.text], a.rest), 1) => FlagInv'
    BY <1>9, <2>1, <2>2, <2>3, <2>4
  <2> QED  BY <1>6, <1>13, <2>5 DEF F!ParseAssigned, F!Stop
<1>14. ASSUME NEW a \in Arguments, F!ParseLast(a) PROVE FlagInv'
  <2>1. F!At(a) /\ F!Known(a) /\ a = argv[i] /\ a.rest = F!NoText /\ i = Len(argv)
        /\ parse = "parsing"
    BY <1>14 DEF F!ParseLast, F!At
  <2>2. ~F!TakesNext(i) /\ ~Takes[i]
    <3>1. ~F!TakesNext(i)
      BY <1>8, <2>1 DEF F!TakesNext
    <3> QED  BY <1>3, <1>5, <1>8, <2>1, <3>1
  <2>3. i + 1 <= Len(argv) + 1
    BY <1>3, <1>8, <2>1
  <2>4. <<"true">> = ValueAt(argv, Takes, a.text, i)
    BY <2>1, <2>2 DEF ValueAt
  <2>5. F!Set(a.text, <<"true">>, 1) => FlagInv'
    BY <1>9, <2>1, <2>2, <2>3, <2>4
  <2> QED  BY <1>6, <1>14, <2>5 DEF F!ParseLast, F!Stop
<1>15. ASSUME NEW a \in Arguments, F!ParseNext(a) PROVE FlagInv'
  <2> DEFINE type == TypeOf[a.text]
             b == argv[i + 1]
             fits == F!judgeSuitableValue(type, b)
  <2>1. F!At(a) /\ F!Known(a) /\ a = argv[i] /\ a.rest = F!NoText /\ i < Len(argv)
        /\ parse = "parsing"
    BY <1>15 DEF F!ParseNext, F!At
  <2>2. F!TakesNext(i) <=> (type = "bool" => fits)
    <3>1. type = "bool" => (fits <=> F!judgeSuitableValue("bool", argv[i + 1]))
      OBVIOUS
    <3> HIDE DEF fits
    <3> QED  BY <2>1, <3>1 DEF F!TakesNext
  <2>3. Takes[i] = F!TakesNext(i) /\ i + 1 <= Len(argv) + 1 /\ i + 2 <= Len(argv) + 1
    BY <1>3, <1>5, <1>8, <2>1
  <2> HIDE DEF fits
  <2>4. CASE fits /\ F!Set(a.text, F!Given(type, b), 2)
    <3>1. F!TakesNext(i)
      BY <2>2, <2>4
    <3>2. F!Given(type, b) = ValueAt(argv, Takes, a.text, i)
      BY <2>1, <2>3, <3>1 DEF ValueAt
    <3> QED  BY <1>9, <2>1, <2>3, <2>4, <3>1, <3>2
  <2>5. CASE ~fits /\ type = "bool" /\ F!Set(a.text, <<"true">>, 1)
    <3>1. ~F!TakesNext(i)
      BY <2>2, <2>5
    <3>2. <<"true">> = ValueAt(argv, Takes, a.text, i)
      BY <2>1, <2>3, <3>1 DEF ValueAt
    <3> QED  BY <1>9, <2>1, <2>3, <2>5, <3>1, <3>2
  <2> QED  BY <1>6, <1>15, <2>4, <2>5 DEF F!ParseNext, F!Stop, fits
<1>16. CASE UNCHANGED flagVars
  BY <1>1, <1>2, <1>16 DEF FlagInv, isF, flagVars
<1> QED  BY <1>10, <1>11, <1>12, <1>13, <1>14, <1>15, <1>16 DEF F!FlagNext

(* A set of arguments that is not empty has a last one.                    *)
LEMMA Greatest ==
    ASSUME NEW n \in Nat, NEW Nums, Nums \subseteq 1..n, Nums # {}
    PROVE  \E x \in Nums : \A y \in Nums : y <= x
<1> DEFINE Left == {k \in Nat : n - k \in Nums}
<1>1. Left # {}
  <2>1. PICK x \in Nums : TRUE
    OBVIOUS
  <2>2. n - x \in Nat /\ n - (n - x) = x
    BY <2>1
  <2> QED  BY <2>1, <2>2
<1>2. PICK k \in Left : \A l \in Left : k <= l
  <2>1. Left \subseteq Nat
    OBVIOUS
  <2> HIDE DEF Left
  <2> QED  BY <1>1, <2>1, Least
<1>3. ASSUME NEW y \in Nums PROVE y <= n - k
  <2>1. n - y \in Nat /\ n - (n - y) = y
    OBVIOUS
  <2>2. n - y \in Left
    BY <2>1
  <2>3. k <= n - y
    BY <1>2, <2>2
  <2> QED  BY <1>2, <2>1, <2>3
<1> QED  BY <1>2, <1>3

LEMMA ReadsTheLine == FlagInv => F!EveryArgumentIsRead
<1> SUFFICES ASSUME FlagInv, parse = "parsed"
             PROVE  /\ \A f \in DOMAIN TypeOf :
                          value[f] = IF F!Uses(f) = {} THEN <<"default">> ELSE F!ValueOf(f)
                    /\ Len(args) = F!Cardinality(F!Positional)
                    /\ \A k \in F!Positional :
                          args[F!Cardinality({l \in F!Positional : l <= k})] = argv[k]
  BY DEF F!EveryArgumentIsRead
<1> DEFINE N == Len(argv)
<1>1. /\ argv \in Seq(Arguments) /\ N \in Nat /\ DOMAIN argv = 1..N /\ (N + 1) - 1 = N
      /\ N <= MaxArguments
      /\ ReadTo(argv, F!IsFlag, Takes, N + 1, value, args)
  BY DEF FlagInv, Line
<1> HIDE DEF N
<1>2. \A k \in 0..N : Takes[k] <=> F!TakesNext(k)
  <2>1. \A k \in 0..N : k \in 0..MaxArguments
    BY <1>1, FlagAssumption
  <2> QED  BY <2>1, TakesAre
<1>3. \A f : UsesTo(argv, F!IsFlag, f, N + 1) = F!Uses(f)
  BY <1>1 DEF UsesTo, F!Uses
<1>4. PosTo(F!IsFlag, Takes, N + 1) = F!Positional
  <2>1. \A k \in 1..N : k - 1 \in 0..N
    BY <1>1
  <2> QED  BY <1>1, <1>2, <2>1 DEF PosTo, F!Positional
<1>5. \A X : F!Cardinality(X) = Cardinality(X)
  BY DEF F!Cardinality, Cardinality
<1>6. Listed(argv, F!Positional, args)
  BY <1>1, <1>4 DEF ReadTo
<1>7. ASSUME NEW f \in DOMAIN TypeOf
      PROVE  value[f] = IF F!Uses(f) = {} THEN <<"default">> ELSE F!ValueOf(f)
  <2>1. SaidLast(argv, F!IsFlag, Takes, f, N + 1, value[f])
    BY <1>1 DEF ReadTo
  <2>2. CASE F!Uses(f) = {}
    BY <1>3, <2>1, <2>2 DEF SaidLast
  <2>3. CASE F!Uses(f) # {}
    <3>1. F!Uses(f) \subseteq 1..N
      BY <1>1 DEF F!Uses
    <3>2. \E x \in F!Uses(f) : \A y \in F!Uses(f) : y <= x
      BY <1>1, <2>3, <3>1, Greatest
    <3>3. F!LastUse(f) \in F!Uses(f) /\ \A y \in F!Uses(f) : y <= F!LastUse(f)
      BY <3>2 DEF F!LastUse
    <3>4. value[f] = ValueAt(argv, Takes, f, F!LastUse(f))
      BY <1>3, <2>1, <3>3 DEF SaidLast
    <3>5. F!LastUse(f) \in 0..N
      BY <1>1, <3>1, <3>3
    <3>6. F!ValueOf(f) = ValueAt(argv, Takes, f, F!LastUse(f))
      BY <1>2, <3>5 DEF F!ValueOf, ValueAt
    <3> QED  BY <2>3, <3>4, <3>6
  <2> QED  BY <2>2, <2>3
<1>8. Len(args) = F!Cardinality(F!Positional)
      /\ \A k \in F!Positional : args[F!Cardinality({l \in F!Positional : l <= k})] = argv[k]
  BY <1>5, <1>6 DEF Listed
<1> QED  BY <1>7, <1>8

LEMMA FlagSteps == [PartsNext]_allVars => [F!FlagNext]_flagVars
  BY DEF PartsNext, allVars, restVars, textVars, flagVars

(* Of any command line that Parse accepts nothing is dropped or read       *)
(* twice: the last use of a flag counts, and what is no flag and no value  *)
(* is an argument.                                                         *)
THEOREM CommandLineRead == PartsSpec => []EveryArgumentIsRead
<1>1. PartsInit => FlagInv
  <2> SUFFICES ASSUME PartsInit PROVE FlagInv
    OBVIOUS
  <2>1. F!FlagInit \/ FlagStays
    BY DEF PartsInit
  <2>2. /\ i = 1 /\ args = <<>> /\ value = [f \in DOMAIN TypeOf |-> <<"default">>]
        /\ parse # "parsed"
    BY <2>1 DEF F!FlagInit, FlagStays
  <2>3. argv \in Seq(Arguments) /\ Len(argv) <= MaxArguments
    <3>1. CASE F!FlagInit
      <4>1. PICK n \in 0..MaxArguments : argv \in [1..n -> Arguments]
        BY <3>1 DEF F!FlagInit
      <4>2. argv \in Seq(Arguments) /\ Len(argv) = n
        BY <4>1, FlagAssumption
      <4> QED  BY <4>1, <4>2, FlagAssumption
    <3>2. CASE FlagStays
      BY <3>2, FlagAssumption DEF FlagStays
    <3> QED  BY <2>1, <3>1, <3>2
  <2> QED  BY <2>2, <2>3, InitFlagInv
<1>2. FlagInv /\ [PartsNext]_allVars => FlagInv'
  BY FlagSteps, NextFlagInv
<1>3. FlagInv => EveryArgumentIsRead
  BY ReadsTheLine DEF EveryArgumentIsRead
<1> QED  BY <1>1, <1>2, <1>3, PTL DEF PartsSpec, allVars

-----------------------------------------------------------------------------
(* IniConfigLoad.  Where the smallest and the greatest of a set are.       *)
LEMMA SmallestIs ==
    ASSUME NEW Nums, Nums \subseteq Nat, NEW x \in Nums, \A y \in Nums : x <= y
    PROVE  I!Min(Nums) = x
<1>1. I!Min(Nums) \in Nums /\ \A y \in Nums : I!Min(Nums) <= y
  BY DEF I!Min
<1>2. I!Min(Nums) <= x /\ x <= I!Min(Nums) /\ x \in Nat /\ I!Min(Nums) \in Nat
  BY <1>1
<1> QED  BY <1>2

LEMMA GreatestIs ==
    ASSUME NEW Nums, Nums \subseteq Nat, NEW x \in Nums, \A y \in Nums : y <= x
    PROVE  I!Max(Nums) = x
<1>1. I!Max(Nums) \in Nums /\ \A y \in Nums : y <= I!Max(Nums)
  BY DEF I!Max
<1>2. I!Max(Nums) <= x /\ x <= I!Max(Nums) /\ x \in Nat /\ I!Max(Nums) \in Nat
  BY <1>1
<1> QED  BY <1>2

(* Texts are sequences of these.                                           *)
Chars == STRING \union I!Blanks \union {"[", "]", "="}

LEMMA Wider ==
    ASSUME NEW X, NEW Y, X \subseteq Y, NEW s, s \in Seq(X)
    PROVE  s \in Seq(Y)
OBVIOUS

LEMMA CharsAre == /\ I!Blanks \subseteq Chars
                  /\ "[" \in Chars /\ "]" \in Chars /\ "=" \in Chars
                  /\ \A text \in Seq(STRING) : text \in Seq(Chars)
<1>1. I!Blanks \subseteq Chars /\ "[" \in Chars /\ "]" \in Chars /\ "=" \in Chars
  BY Zenon DEF Chars
<1>2. STRING \subseteq Chars
  BY Zenon DEF Chars
<1>3. \A text \in Seq(STRING) : text \in Seq(Chars)
  BY Zenon, <1>2, Wider
<1> QED  BY <1>1, <1>3

(* The characters of w from place a to place b, with blanks around them.   *)
Within(w, a, b) ==
    /\ w \in Seq(Chars) /\ a \in Nat /\ b \in Nat /\ 1 <= a /\ a <= b /\ b <= Len(w)
    /\ w[a] \notin I!Blanks /\ w[b] \notin I!Blanks
    /\ \A k \in 1..Len(w) : k < a \/ k > b => w[k] \in I!Blanks

AllBlank(w) == w \in Seq(Chars) /\ \A k \in 1..Len(w) : w[k] \in I!Blanks

LEMMA TrimIs ==
    ASSUME NEW w
    PROVE  /\ AllBlank(w) => I!Trim(w) = <<>>
           /\ \A a, b : Within(w, a, b) => I!Trim(w) = SubSeq(w, a, b)
<1> DEFINE inner == {p \in DOMAIN w : w[p] \notin I!Blanks}
<1>1. ASSUME AllBlank(w) PROVE I!Trim(w) = <<>>
  <2>1. inner = {}
    BY <1>1 DEF AllBlank
  <2> QED  BY <2>1 DEF I!Trim
<1>2. ASSUME NEW a, NEW b, Within(w, a, b) PROVE I!Trim(w) = SubSeq(w, a, b)
  <2>1. /\ w \in Seq(Chars) /\ a \in Nat /\ b \in Nat /\ 1 <= a /\ a <= b /\ b <= Len(w)
        /\ w[a] \notin I!Blanks /\ w[b] \notin I!Blanks /\ DOMAIN w = 1..Len(w)
        /\ \A k \in 1..Len(w) : k < a \/ k > b => w[k] \in I!Blanks
    BY <1>2 DEF Within
  <2>2. inner \subseteq Nat /\ a \in inner /\ b \in inner
    BY <2>1
  <2>3. \A y \in inner : a <= y /\ y <= b
    BY <2>1
  <2>4. inner # {}
    BY <2>2
  <2>5. I!Trim(w) = IF inner = {} THEN <<>> ELSE SubSeq(w, I!Min(inner), I!Max(inner))
    BY DEF I!Trim
  <2> HIDE DEF inner
  <2>6. I!Min(inner) = a /\ I!Max(inner) = b
    BY <2>2, <2>3, SmallestIs, GreatestIs
  <2> QED  BY <2>4, <2>5, <2>6
<1> QED  BY <1>1, <1>2

LEMMA BlankOrNot ==
    ASSUME NEW w, w \in Seq(Chars)
    PROVE  AllBlank(w) \/ \E a, b \in Nat : Within(w, a, b)
<1> DEFINE inner == {p \in DOMAIN w : w[p] \notin I!Blanks}
<1>1. DOMAIN w = 1..Len(w) /\ Len(w) \in Nat
  OBVIOUS
<1>2. CASE inner = {}
  BY <1>1, <1>2 DEF AllBlank
<1>3. CASE inner # {}
  <2>1. inner \subseteq Nat /\ inner \subseteq 1..Len(w)
    BY <1>1
  <2>2. \A k \in 1..Len(w) : k \notin inner => w[k] \in I!Blanks
    BY <1>1
  <2>3. \A k \in inner : w[k] \notin I!Blanks /\ k \in 1..Len(w)
    BY <1>1
  <2> HIDE DEF inner
  <2>4. PICK a \in inner : \A y \in inner : a <= y
    BY <1>3, <2>1, Least
  <2>5. PICK b \in inner : \A y \in inner : y <= b
    BY <1>1, <1>3, <2>1, Greatest
  <2>6. a \in Nat /\ b \in Nat /\ 1 <= a /\ a <= b /\ b <= Len(w)
    BY <1>1, <2>1, <2>4, <2>5
  <2>7. \A k \in 1..Len(w) : k < a \/ k > b => w[k] \in I!Blanks
    <3> TAKE k \in 1..Len(w)
    <3>1. k < a \/ k > b => k \notin inner
      BY <2>4, <2>5, <2>6
    <3> QED  BY <2>2, <3>1
  <2>8. Within(w, a, b)
    BY <2>3, <2>6, <2>7 DEF Within
  <2> QED  BY <2>6, <2>8
<1> QED  BY <1>2, <1>3

(* Blanks around a text leave what Trim makes of it.                       *)
Padded(w, s, d) ==
    /\ w \in Seq(Chars) /\ s \in Seq(Chars) /\ d \in Nat /\ d + Len(s) <= Len(w)
    /\ \A k \in 1..Len(w) : IF k > d /\ k <= d + Len(s) THEN w[k] = s[k - d]
                                                        ELSE w[k] \in I!Blanks

LEMMA PaddedTrim ==
    ASSUME NEW w, NEW s, NEW d, Padded(w, s, d)
    PROVE  I!Trim(w) = I!Trim(s)
<1>1. /\ w \in Seq(Chars) /\ s \in Seq(Chars) /\ d \in Nat /\ d + Len(s) <= Len(w)
      /\ Len(w) \in Nat /\ Len(s) \in Nat
      /\ \A k \in 1..Len(w) : IF k > d /\ k <= d + Len(s) THEN w[k] = s[k - d]
                                                          ELSE w[k] \in I!Blanks
  BY DEF Padded
<1>2. CASE AllBlank(s)
  <2>1. AllBlank(w)
    <3> SUFFICES ASSUME NEW k \in 1..Len(w) PROVE w[k] \in I!Blanks
      BY <1>1 DEF AllBlank
    <3>1. k > d /\ k <= d + Len(s) => k - d \in 1..Len(s)
      BY <1>1
    <3> QED  BY <1>1, <1>2, <3>1 DEF AllBlank
  <2> QED  BY <1>2, <2>1, TrimIs
<1>3. ASSUME NEW a \in Nat, NEW b \in Nat, Within(s, a, b) PROVE I!Trim(w) = I!Trim(s)
  <2>1. /\ 1 <= a /\ a <= b /\ b <= Len(s) /\ s[a] \notin I!Blanks /\ s[b] \notin I!Blanks
        /\ \A k \in 1..Len(s) : k < a \/ k > b => s[k] \in I!Blanks
    BY <1>3 DEF Within
  <2>2. \A k \in 1..Len(s) : d + k \in 1..Len(w) /\ w[d + k] = s[k]
    <3> TAKE k \in 1..Len(s)
    <3>1. d + k \in 1..Len(w) /\ d + k > d /\ d + k <= d + Len(s) /\ (d + k) - d = k
      BY <1>1
    <3>2. w[d + k] = s[(d + k) - d]
      BY <1>1, <3>1
    <3> QED  BY <3>1, <3>2
  <2>3. a \in 1..Len(s) /\ b \in 1..Len(s)
    BY <1>1, <2>1
  <2>4. Within(w, d + a, d + b)
    <3>1. w[d + a] \notin I!Blanks /\ w[d + b] \notin I!Blanks
      BY <2>1, <2>2, <2>3
    <3>2. ASSUME NEW k \in 1..Len(w), k < d + a \/ k > d + b PROVE w[k] \in I!Blanks
      <4>1. CASE k > d /\ k <= d + Len(s)
        <5>1. k - d \in 1..Len(s) /\ (k - d < a \/ k - d > b)
          BY <1>1, <3>2, <4>1
        <5>2. w[k] = s[k - d]
          BY <1>1, <4>1
        <5> QED  BY <2>1, <5>1, <5>2
      <4>2. CASE ~(k > d /\ k <= d + Len(s))
        BY <1>1, <4>2
      <4> QED  BY <4>1, <4>2
    <3>3. d + a \in Nat /\ d + b \in Nat /\ 1 <= d + a /\ d + a <= d + b /\ d + b <= Len(w)
      BY <1>1, <2>1
    <3> QED  BY <1>1, <3>1, <3>2, <3>3 DEF Within
  <2>5. SubSeq(w, d + a, d + b) = SubSeq(s, a, b)
    <3> DEFINE u == SubSeq(w, d + a, d + b)
               v == SubSeq(s, a, b)
    <3>1. u \in Seq(Chars) /\ Len(u) = b - a + 1 /\ b - a + 1 \in Nat
          /\ \A k \in 1..b - a + 1 : u[k] = w[d + a + k - 1]
      BY <1>1, <2>1
    <3>2. v \in Seq(Chars) /\ Len(v) = b - a + 1
          /\ \A k \in 1..b - a + 1 : v[k] = s[a + k - 1]
      BY <1>1, <2>1
    <3> HIDE DEF u, v
    <3>3. \A k \in 1..b - a + 1 : u[k] = v[k]
      <4> TAKE k \in 1..b - a + 1
      <4>1. a + k - 1 \in 1..Len(s) /\ d + a + k - 1 = d + (a + k - 1)
        BY <1>1, <2>1
      <4> QED  BY <2>2, <3>1, <3>2, <4>1
    <3>4. u = v
      BY <3>1, <3>2, <3>3
    <3> QED  BY <3>4 DEF u, v
  <2> QED  BY <1>3, <2>4, <2>5, TrimIs
<1> QED  BY <1>1, <1>2, <1>3, BlankOrNot

(* The sign a comment begins with has a name here: it has no quotes in the *)
(* provers' input.                                                         *)
Semicolon == ";"

LEMMA CommentsAre ==
    \A comment \in Comments :
       comment \in Seq(Chars) /\ (comment # <<>> => Head(comment) = Semicolon)
<1>1. \A comment \in Comments :
         comment \in Seq(STRING) /\ (comment # <<>> => Head(comment) = Semicolon)
  BY Zenon, IniAssumption DEF Semicolon
<1> QED  BY Zenon, <1>1, CharsAre

LEMMA TextsAre ==
    \A text \in SectionNames \union Keys \union Values \union Noise :
       text \in Seq(Chars) /\ \A n \in DOMAIN text : text[n] # Semicolon
<1> TAKE text \in SectionNames \union Keys \union Values \union Noise
<1>1. text \in Seq(Chars)
  BY Zenon, IniAssumption, CharsAre
<1>2. \A n \in DOMAIN text : text[n] # Semicolon
  BY Zenon, IniAssumption DEF Semicolon
<1> QED  BY <1>1, <1>2

(* The first place of a character; 0 if there is none.                     *)
Index(s, char) ==
    LET found == {n \in 1..Len(s) : s[n] = char}
    IN  IF found # {} THEN I!Min(found) ELSE 0

FreeBefore(s, e, char) == \A n \in 1..Len(s) : n < e => s[n] # char

LEMMA IndexIs ==
    ASSUME NEW s, s \in Seq(Chars), NEW char, NEW e
    PROVE  /\ (\A n \in 1..Len(s) : s[n] # char) => Index(s, char) = 0
           /\ e \in 1..Len(s) /\ s[e] = char /\ FreeBefore(s, e, char) => Index(s, char) = e
<1> DEFINE found == {n \in 1..Len(s) : s[n] = char}
<1>1. Index(s, char) = IF found # {} THEN I!Min(found) ELSE 0
  BY DEF Index
<1>2. ASSUME e \in 1..Len(s), s[e] = char, FreeBefore(s, e, char)
      PROVE  Index(s, char) = e
  <2>1. found \subseteq Nat /\ e \in found /\ \A y \in found : e <= y
    BY <1>2 DEF FreeBefore
  <2> HIDE DEF found
  <2>2. I!Min(found) = e
    BY <2>1, SmallestIs
  <2> QED  BY <1>1, <2>1, <2>2
<1>3. ASSUME \A n \in 1..Len(s) : s[n] # char PROVE Index(s, char) = 0
  <2>1. found = {}
    BY <1>3
  <2> QED  BY <1>1, <2>1
<1> QED  BY <1>2, <1>3

LEMMA SignsAre ==
    ASSUME NEW s
    PROVE  /\ I!Equal(s) = Index(s, "=")
           /\ I!WithoutComment(s) = IF Index(s, Semicolon) = 0 THEN s
                                    ELSE SubSeq(s, 1, Index(s, Semicolon) - 1)
<1>1. I!Equal(s) = Index(s, "=")
  BY DEF I!Equal, I!SelectInSeq, Index
<1>2. I!WithoutComment(s) = IF Index(s, Semicolon) = 0 THEN s
                            ELSE SubSeq(s, 1, Index(s, Semicolon) - 1)
  BY Zenon DEF I!WithoutComment, I!SelectInSeq, Index, Semicolon
<1> QED  BY <1>1, <1>2

LEMMA CommentOff ==
    ASSUME NEW body, body \in Seq(Chars), \A n \in 1..Len(body) : body[n] # Semicolon,
           NEW comment \in Comments
    PROVE  I!WithoutComment(body \o comment) = body
<1> DEFINE line == body \o comment
<1>1. comment \in Seq(Chars) /\ (comment # <<>> => Head(comment) = Semicolon)
  BY CommentsAre
<1>2. Len(body) \in Nat /\ Len(comment) \in Nat
  BY <1>1
<1>3. /\ line \in Seq(Chars) /\ Len(line) = Len(body) + Len(comment)
      /\ \A n \in 1..Len(body) : line[n] = body[n]
      /\ \A n \in 1..Len(comment) : line[Len(body) + n] = comment[n]
  BY <1>1
<1>4. CASE comment = <<>>
  <2>1. line = body
    BY <1>4
  <2> HIDE DEF line
  <2>2. Index(line, Semicolon) = 0
    BY <2>1, IndexIs
  <2> QED  BY <2>1, <2>2, SignsAre DEF line
<1>5. CASE comment # <<>>
  <2>1. 1 \in 1..Len(comment) /\ comment[1] = Semicolon
    BY <1>1, <1>2, <1>5
  <2> HIDE DEF line
  <2>2. Len(body) + 1 \in 1..Len(line) /\ line[Len(body) + 1] = Semicolon
    BY <1>2, <1>3, <2>1
  <2>3. FreeBefore(line, Len(body) + 1, Semicolon)
    <3> SUFFICES ASSUME NEW n \in 1..Len(line), n < Len(body) + 1 PROVE line[n] # Semicolon
      BY DEF FreeBefore
    <3>1. n \in 1..Len(body)
      BY <1>2, <1>3
    <3> QED  BY <1>3, <3>1
  <2>4. Index(line, Semicolon) = Len(body) + 1
    BY <1>3, <2>2, <2>3, IndexIs
  <2>5. SubSeq(line, 1, Len(body)) = body
    <3> DEFINE u == SubSeq(line, 1, Len(body))
    <3>1. u \in Seq(Chars) /\ Len(u) = Len(body) /\ \A n \in 1..Len(body) : u[n] = line[n]
      BY <1>2, <1>3
    <3> HIDE DEF u
    <3>2. u = body
      BY <1>3, <3>1
    <3> QED  BY <3>2 DEF u
  <2>6. Index(line, Semicolon) # 0 /\ Index(line, Semicolon) - 1 = Len(body)
    BY <1>2, <2>4
  <2>7. I!WithoutComment(line) = SubSeq(line, 1, Len(body))
    BY <2>6, SignsAre
  <2> QED  BY <2>5, <2>7 DEF line
<1> QED  BY <1>4, <1>5

(* Two sequences one after the other.                                      *)
Joined(u, s, t) ==
    /\ u \in Seq(Chars) /\ Len(u) = Len(s) + Len(t) /\ Len(s) \in Nat /\ Len(t) \in Nat
    /\ \A n \in 1..Len(u) : /\ n <= Len(s) => u[n] = s[n]
                            /\ n > Len(s) => u[n] = t[n - Len(s)]

LEMMA JoinIs ==
    ASSUME NEW s, s \in Seq(Chars), NEW t, t \in Seq(Chars)
    PROVE  Joined(s \o t, s, t)
<1> DEFINE u == s \o t
<1>1. /\ u \in Seq(Chars) /\ Len(u) = Len(s) + Len(t) /\ Len(s) \in Nat /\ Len(t) \in Nat
  OBVIOUS
<1>2. \A n \in 1..Len(u) : n <= Len(s) => u[n] = s[n]
  BY <1>1
<1>3. \A n \in 1..Len(u) : n > Len(s) => u[n] = t[n - Len(s)]
  BY <1>1
<1> QED  BY <1>1, <1>2, <1>3 DEF Joined

LEMMA PairIs ==
    ASSUME NEW X, NEW x \in X, NEW y \in X
    PROVE  /\ <<x, y>> \in Seq(X) /\ Len(<<x, y>>) = 2
           /\ \A n \in 1..2 : <<x, y>>[n] = x \/ <<x, y>>[n] = y
<1>1. \A n \in 1..2 : n = 1 \/ n = 2
  OBVIOUS
<1>2. <<x, y>>[1] = x /\ <<x, y>>[2] = y
  OBVIOUS
<1>3. <<x, y>> \in Seq(X) /\ Len(<<x, y>>) = 2
  OBVIOUS
<1> QED  BY <1>1, <1>2, <1>3

LEMMA BlanksAre == /\ Semicolon \notin I!Blanks
                   /\ "\t" \in I!Blanks /\ " " \in I!Blanks /\ "\r" \in I!Blanks
<1>1. "\t" \in I!Blanks /\ " " \in I!Blanks /\ "\r" \in I!Blanks
  BY Zenon DEF I!Blanks
<1>2. Semicolon \notin I!Blanks
  BY Zenon DEF I!Blanks, Semicolon
<1> QED  BY <1>1, <1>2

LEMMA BlankPair ==
    ASSUME NEW x \in I!Blanks, NEW y \in I!Blanks
    PROVE  AllBlank(<<x, y>>) /\ Len(<<x, y>>) = 2
<1> DEFINE pair == <<x, y>>
<1>1. x \in Chars /\ y \in Chars
  BY CharsAre
<1>2. pair \in Seq(Chars) /\ Len(pair) = 2 /\ \A n \in 1..2 : pair[n] = x \/ pair[n] = y
  BY <1>1, PairIs
<1> HIDE DEF pair
<1>3. AllBlank(pair) /\ Len(pair) = 2
  BY <1>2 DEF AllBlank
<1> QED  BY <1>3 DEF pair

(* What is read of a line of a file, whatever stands around its text.      *)
LEMMA LineIs ==
    ASSUME NEW text, text \in Seq(Chars), \A n \in 1..Len(text) : text[n] # Semicolon,
           NEW line \in I!Lines(text)
    PROVE  I!Trim(I!WithoutComment(line)) = I!Trim(text)
<1> DEFINE pre == <<"\t", " ">>
           post == <<" ", "\r">>
           wide == I!Indented(text)
<1>2. AllBlank(pre) /\ Len(pre) = 2 /\ AllBlank(post) /\ Len(post) = 2
  BY BlanksAre, BlankPair
<1> HIDE DEF pre, post
<1>1. PICK body \in {text, wide}, comment \in Comments : line = body \o comment
  BY DEF I!Lines
<1>3. /\ Len(text) \in Nat /\ pre \in Seq(Chars) /\ post \in Seq(Chars)
      /\ \A n \in 1..2 : pre[n] \in I!Blanks /\ post[n] \in I!Blanks
  BY <1>2 DEF AllBlank
<1> DEFINE front == pre \o text
<1>4. Joined(front, pre, text)
  BY <1>3, JoinIs DEF front
<1>5. wide = front \o post
  BY DEF I!Indented, front, pre, post
<1> HIDE DEF front, wide
<1>6. Joined(wide, front, post) /\ Len(wide) = 4 + Len(text) /\ Len(front) = 2 + Len(text)
      /\ wide \in Seq(Chars)
  <2>1. front \in Seq(Chars) /\ Len(front) = 2 + Len(text)
    BY <1>2, <1>4 DEF Joined
  <2>2. Joined(wide, front, post)
    BY <1>3, <1>5, <2>1, JoinIs
  <2>3. Len(wide) = 4 + Len(text) /\ wide \in Seq(Chars)
    BY <1>2, <1>3, <2>1, <2>2 DEF Joined
  <2> QED  BY <2>1, <2>2, <2>3
<1>7. \A n \in 1..Len(wide) : IF n > 2 /\ n <= 2 + Len(text) THEN wide[n] = text[n - 2]
                                                           ELSE wide[n] \in I!Blanks
  <2> TAKE n \in 1..Len(wide)
  <2>1. CASE n <= 2
    <3>1. n \in 1..2 /\ wide[n] = pre[n] /\ ~(n > 2)
      <4>1. n \in 1..2 /\ ~(n > 2) /\ n \in 1..Len(front) /\ n <= Len(front) /\ n <= Len(pre)
        BY <1>2, <1>3, <1>6, <2>1
      <4>2. wide[n] = front[n]
        BY <1>6, <4>1 DEF Joined
      <4>3. front[n] = pre[n]
        BY <1>4, <4>1 DEF Joined
      <4> QED  BY <4>1, <4>2, <4>3
    <3> QED  BY <1>3, <3>1
  <2>2. CASE n > 2 /\ n <= 2 + Len(text)
    <3>1. n \in 1..Len(front) /\ n <= Len(front) /\ n > Len(pre) /\ n - Len(pre) = n - 2
      BY <1>2, <1>3, <1>6, <2>2
    <3>2. wide[n] = front[n]
      BY <1>6, <3>1 DEF Joined
    <3>3. front[n] = text[n - 2]
      BY <1>4, <3>1 DEF Joined
    <3> QED  BY <2>2, <3>2, <3>3
  <2>3. CASE n > 2 + Len(text)
    <3>1. n > Len(front) /\ n - Len(front) \in 1..2 /\ ~(n <= 2 + Len(text))
      <4>1. n \in Nat /\ n <= 4 + Len(text) /\ Len(front) = 2 + Len(text)
        BY <1>3, <1>6
      <4>2. n > Len(front)
        BY <2>3, <4>1
      <4>3. n - Len(front) \in 1..2
        BY <1>3, <2>3, <4>1
      <4>4. ~(n <= 2 + Len(text))
        BY <1>3, <2>3, <4>1
      <4> QED  BY <4>2, <4>3, <4>4
    <3>2. wide[n] = post[n - Len(front)]
      BY <1>6, <3>1 DEF Joined
    <3> QED  BY <1>3, <3>1, <3>2
  <2> QED  BY <1>3, <2>1, <2>2, <2>3
<1>8. Padded(wide, text, 2)
  BY <1>3, <1>6, <1>7 DEF Padded
<1>9. \A n \in 1..Len(wide) : wide[n] # Semicolon
  <2> TAKE n \in 1..Len(wide)
  <2>1. \A c \in I!Blanks : c # Semicolon
    BY BlanksAre
  <2>2. n > 2 /\ n <= 2 + Len(text) => n - 2 \in 1..Len(text)
    BY <1>3
  <2> QED  BY <1>7, <2>1, <2>2
<1>10. I!Trim(body) = I!Trim(text) /\ I!WithoutComment(body \o comment) = body
  <2>1. CASE body = text
    BY <2>1, CommentOff
  <2>2. CASE body = wide
    BY <1>6, <1>8, <1>9, <2>2, CommentOff, PaddedTrim
  <2> QED  BY <2>1, <2>2
<1> QED  BY <1>1, <1>10

LEMMA MarksAre ==
    /\ "[" \notin I!Blanks /\ "]" \notin I!Blanks /\ "=" \notin I!Blanks /\ "=" # "["
    /\ Semicolon # "[" /\ Semicolon # "]" /\ Semicolon # "="
<1>1. "[" \notin I!Blanks /\ "]" \notin I!Blanks /\ "=" \notin I!Blanks /\ "=" # "["
  BY Zenon DEF I!Blanks
<1>2. Semicolon # "[" /\ Semicolon # "]" /\ Semicolon # "="
  BY Zenon DEF Semicolon
<1> QED  BY <1>1, <1>2

(* A text that Trim leaves alone has no blank at its ends.                 *)
LEMMA TrimmedEnds ==
    ASSUME NEW s, s \in Seq(Chars), I!Trim(s) = s, s # <<>>
    PROVE  s[1] \notin I!Blanks /\ s[Len(s)] \notin I!Blanks
<1>1. ~AllBlank(s)
  BY TrimIs
<1>2. PICK a \in Nat, b \in Nat : Within(s, a, b)
  BY <1>1, BlankOrNot
<1>3. /\ 1 <= a /\ a <= b /\ b <= Len(s) /\ s[a] \notin I!Blanks /\ s[b] \notin I!Blanks
      /\ Len(s) \in Nat
  BY <1>2 DEF Within
<1>4. SubSeq(s, a, b) = s
  BY <1>2, TrimIs
<1>5. Len(SubSeq(s, a, b)) = b - a + 1
  BY <1>3
<1>6. a = 1 /\ b = Len(s)
  BY <1>3, <1>4, <1>5
<1> QED  BY <1>3, <1>6

(* A name between two characters.                                          *)
Framed(u, x, name, y) ==
    /\ u \in Seq(Chars) /\ Len(u) = Len(name) + 2 /\ Len(name) \in Nat
    /\ name \in Seq(Chars)
    /\ u[1] = x /\ u[Len(u)] = y /\ \A n \in 1..Len(name) : u[n + 1] = name[n]

LEMMA FrameIs ==
    ASSUME NEW x \in Chars, NEW y \in Chars, NEW name, name \in Seq(Chars)
    PROVE  Framed(<<x>> \o name \o <<y>>, x, name, y)
<1> DEFINE one == <<x>>
           two == <<y>>
           v == one \o name
           u == v \o two
<1>1. /\ one \in Seq(Chars) /\ Len(one) = 1 /\ one[1] = x
      /\ two \in Seq(Chars) /\ Len(two) = 1 /\ two[1] = y /\ Len(name) \in Nat
  OBVIOUS
<1> HIDE DEF one, two
<1>2. Joined(v, one, name)
  BY <1>1, JoinIs
<1> HIDE DEF v
<1>3. v \in Seq(Chars) /\ Len(v) = Len(name) + 1
  BY <1>1, <1>2 DEF Joined
<1>4. Joined(u, v, two)
  BY <1>1, <1>3, JoinIs
<1> HIDE DEF u
<1>5. u \in Seq(Chars) /\ Len(u) = Len(name) + 2
  BY <1>1, <1>3, <1>4 DEF Joined
<1>6. u[1] = x
  <2>1. 1 \in 1..Len(u) /\ 1 <= Len(v) /\ 1 \in 1..Len(v) /\ 1 <= Len(one)
    BY <1>1, <1>3, <1>5
  <2>2. u[1] = v[1]
    BY <1>4, <2>1 DEF Joined
  <2>3. v[1] = one[1]
    BY <1>2, <2>1 DEF Joined
  <2> QED  BY <1>1, <2>2, <2>3
<1>7. u[Len(u)] = y
  <2>1. Len(u) \in 1..Len(u) /\ Len(u) > Len(v) /\ Len(u) - Len(v) = 1
    BY <1>1, <1>3, <1>5
  <2>2. u[Len(u)] = two[Len(u) - Len(v)]
    BY <1>4, <2>1 DEF Joined
  <2> QED  BY <1>1, <2>1, <2>2
<1>8. ASSUME NEW n \in 1..Len(name) PROVE u[n + 1] = name[n]
  <2>1. /\ n + 1 \in 1..Len(u) /\ n + 1 <= Len(v) /\ n + 1 \in 1..Len(v)
        /\ n + 1 > Len(one) /\ (n + 1) - Len(one) = n
    BY <1>1, <1>3, <1>5
  <2>2. u[n + 1] = v[n + 1]
    BY <1>4, <2>1 DEF Joined
  <2>3. v[n + 1] = name[(n + 1) - Len(one)]
    BY <1>2, <2>1 DEF Joined
  <2> QED  BY <2>1, <2>2, <2>3
<1>9. Framed(u, x, name, y)
  BY <1>1, <1>5, <1>6, <1>7, <1>8 DEF Framed
<1> QED  BY <1>9 DEF u, v, one, two

LEMMA SectionIs ==
    ASSUME NEW u, NEW name, Framed(u, "[", name, "]")
    PROVE  I!Trim(u) = u /\ I!IsSection(u) /\ SubSeq(u, 2, Len(u) - 1) = name
<1>1. /\ u \in Seq(Chars) /\ Len(u) = Len(name) + 2 /\ Len(name) \in Nat
      /\ name \in Seq(Chars) /\ u[1] = "[" /\ u[Len(u)] = "]"
      /\ \A n \in 1..Len(name) : u[n + 1] = name[n]
  BY DEF Framed
<1>2. Within(u, 1, Len(u))
  BY <1>1, MarksAre DEF Within
<1>3. SubSeq(u, 1, Len(u)) = u
  BY <1>1
<1>4. I!Trim(u) = u
  BY <1>2, <1>3, TrimIs
<1>5. u # <<>> /\ Head(u) = "[" /\ I!Last(u) = "]"
  BY <1>1 DEF I!Last
<1>6. I!IsSection(u)
  BY <1>5 DEF I!IsSection
<1>7. SubSeq(u, 2, Len(u) - 1) = name
  <2> DEFINE v == SubSeq(u, 2, Len(u) - 1)
  <2>1. v \in Seq(Chars) /\ Len(v) = Len(name) /\ \A n \in 1..Len(name) : v[n] = u[n + 1]
    BY <1>1
  <2> HIDE DEF v
  <2>2. v = name
    BY <1>1, <2>1
  <2> QED  BY <2>2 DEF v
<1> QED  BY <1>4, <1>6, <1>7

(* A key, a sign at place e and a value, with blanks between them.         *)
Divided(w, e, key, val) ==
    /\ w \in Seq(Chars) /\ key \in Seq(Chars) /\ val \in Seq(Chars)
    /\ e \in 1..Len(w) /\ w[e] = "=" /\ Len(key) < e /\ e + Len(val) <= Len(w)
    /\ \A n \in 1..Len(w) :
          /\ n <= Len(key) => w[n] = key[n]
          /\ n > Len(key) /\ n < e => w[n] \in I!Blanks
          /\ n > e /\ n <= Len(w) - Len(val) => w[n] \in I!Blanks
          /\ n > Len(w) - Len(val) => w[n] = val[n - (Len(w) - Len(val))]

LEMMA DividedIs ==
    ASSUME NEW w, NEW e, NEW key \in Keys, NEW val \in Values, Divided(w, e, key, val)
    PROVE  LET text  == I!Trim(w)
               equal == I!Equal(text)
           IN  /\ ~I!IsSection(text) /\ equal \in Nat /\ equal > 0
               /\ I!Trim(SubSeq(text, 1, equal - 1)) = key
               /\ I!Trim(SubSeq(text, equal + 1, Len(text))) = val
<1>1. /\ w \in Seq(Chars) /\ key \in Seq(Chars) /\ val \in Seq(Chars)
      /\ e \in 1..Len(w) /\ w[e] = "=" /\ Len(key) < e /\ e + Len(val) <= Len(w)
      /\ Len(w) \in Nat /\ Len(key) \in Nat /\ Len(val) \in Nat
  BY DEF Divided
<1>2. \A n \in 1..Len(w) :
          /\ n <= Len(key) => w[n] = key[n]
          /\ n > Len(key) /\ n < e => w[n] \in I!Blanks
          /\ n > e /\ n <= Len(w) - Len(val) => w[n] \in I!Blanks
          /\ n > Len(w) - Len(val) => w[n] = val[n - (Len(w) - Len(val))]
  BY DEF Divided
<1>3. /\ I!Trim(key) = key /\ I!Trim(val) = val
      /\ \A n \in 1..Len(key) : key[n] # "="
      /\ key # <<>> => key[1] # "["
  <2>1. /\ I!Trim(key) = key /\ I!Trim(val) = val
        /\ \A n \in DOMAIN key : key[n] # "="
        /\ key # <<>> => Head(key) # "["
    BY Zenon, IniAssumption
  <2>2. DOMAIN key = 1..Len(key) /\ (key # <<>> => Head(key) = key[1])
    BY <1>1
  <2> QED  BY <2>1, <2>2
<1>4. ~AllBlank(w)
  BY <1>1, MarksAre DEF AllBlank
<1>5. PICK lo \in Nat, hi \in Nat : Within(w, lo, hi)
  BY <1>1, <1>4, BlankOrNot
<1>6. /\ 1 <= lo /\ lo <= hi /\ hi <= Len(w) /\ w[lo] \notin I!Blanks /\ w[hi] \notin I!Blanks
      /\ \A k \in 1..Len(w) : k < lo \/ k > hi => w[k] \in I!Blanks
  BY <1>5 DEF Within
<1>7. lo <= e /\ e <= hi /\ e \in Nat
  <2>1. w[e] \notin I!Blanks
    BY <1>1, MarksAre
  <2> QED  BY <1>1, <1>6, <2>1
<1> DEFINE text == SubSeq(w, lo, hi)
           equal == e - lo + 1
           left == SubSeq(text, 1, equal - 1)
           right == SubSeq(text, equal + 1, Len(text))
<1>8. I!Trim(w) = text
  BY <1>5, TrimIs
<1>9. /\ text \in Seq(Chars) /\ Len(text) = hi - lo + 1 /\ Len(text) \in Nat
      /\ \A n \in 1..Len(text) : text[n] = w[lo + n - 1] /\ lo + n - 1 \in lo..hi
  BY <1>1, <1>6
<1> HIDE DEF text
<1>10. equal \in 1..Len(text) /\ equal \in Nat
  BY <1>6, <1>7, <1>9
<1>11. /\ left \in Seq(Chars) /\ Len(left) = e - lo
       /\ \A n \in 1..e - lo : left[n] = w[lo + n - 1] /\ lo + n - 1 \in 1..Len(w)
                               /\ lo + n - 1 < e
  <2>1. left \in Seq(Chars) /\ Len(left) = e - lo /\ \A n \in 1..e - lo : left[n] = text[n]
    BY <1>7, <1>9, <1>10
  <2> HIDE DEF left
  <2>2. \A n \in 1..e - lo : /\ n \in 1..Len(text) /\ lo + n - 1 \in 1..Len(w)
                             /\ lo + n - 1 < e
    BY <1>1, <1>6, <1>7, <1>9
  <2> QED  BY <1>9, <2>1, <2>2
<1>12. /\ right \in Seq(Chars) /\ Len(right) = hi - e
       /\ \A n \in 1..hi - e : right[n] = w[e + n] /\ e + n \in 1..Len(w) /\ e + n > e
  <2>1. /\ right \in Seq(Chars) /\ Len(right) = hi - e
        /\ \A n \in 1..hi - e : right[n] = text[equal + n]
    BY <1>6, <1>7, <1>9, <1>10
  <2> HIDE DEF right
  <2>2. \A n \in 1..hi - e : /\ equal + n \in 1..Len(text) /\ e + n \in 1..Len(w)
                             /\ lo + (equal + n) - 1 = e + n /\ e + n > e
    BY <1>1, <1>6, <1>7, <1>9
  <2> QED  BY <1>9, <2>1, <2>2
<1> HIDE DEF left, right
<1>13. key # <<>> => lo = 1
  <2> SUFFICES ASSUME key # <<>> PROVE lo = 1
    OBVIOUS
  <2>1. key[1] \notin I!Blanks
    BY <1>1, <1>3, TrimmedEnds
  <2>2. 1 \in 1..Len(w) /\ 1 <= Len(key)
    BY <1>1
  <2>3. w[1] \notin I!Blanks
    BY <1>2, <2>1, <2>2
  <2> QED  BY <1>6, <2>2, <2>3
<1>14. val # <<>> => hi = Len(w)
  <2> SUFFICES ASSUME val # <<>> PROVE hi = Len(w)
    OBVIOUS
  <2>1. val[Len(val)] \notin I!Blanks
    BY <1>1, <1>3, TrimmedEnds
  <2>2. Len(val) > 0
    BY <1>1
  <2>3. /\ Len(w) \in 1..Len(w) /\ Len(w) > Len(w) - Len(val)
        /\ Len(w) - (Len(w) - Len(val)) = Len(val)
    BY <1>1, <2>2
  <2>4. w[Len(w)] \notin I!Blanks
    BY <1>2, <2>1, <2>3
  <2> QED  BY <1>6, <2>3, <2>4
<1>15. ~I!IsSection(text)
  <2>1. text # <<>> /\ Head(text) = text[1] /\ text[1] = w[lo]
    BY <1>6, <1>9
  <2>2. w[lo] # "["
    <3>1. CASE lo = e
      BY <1>1, <3>1, MarksAre
    <3>2. CASE lo < e
      <4>1. lo \in 1..Len(w)
        BY <1>1, <1>6
      <4>2. lo <= Len(key)
        BY <1>1, <1>2, <1>6, <3>2, <4>1
      <4>3. key # <<>>
        BY <1>1, <1>6, <4>2
      <4>4. lo = 1 /\ w[1] = key[1]
        BY <1>2, <1>13, <4>1, <4>2, <4>3
      <4> QED  BY <1>3, <4>3, <4>4
    <3> QED  BY <1>7, <3>1, <3>2
  <2> QED  BY <2>1, <2>2 DEF I!IsSection
<1>16. I!Equal(text) = equal
  <2>1. text[equal] = "="
    <3>1. lo + equal - 1 = e
      BY <1>7
    <3> QED  BY <1>1, <1>9, <1>10, <3>1
  <2>2. FreeBefore(text, equal, "=")
    <3> SUFFICES ASSUME NEW n \in 1..Len(text), n < equal PROVE text[n] # "="
      BY DEF FreeBefore
    <3>1. lo + n - 1 \in 1..Len(w) /\ lo + n - 1 < e /\ text[n] = w[lo + n - 1]
      BY <1>1, <1>6, <1>7, <1>9
    <3>2. lo + n - 1 <= Len(key) => lo + n - 1 \in 1..Len(key)
      BY <1>1, <3>1
    <3>3. CASE lo + n - 1 <= Len(key)
      BY <1>2, <1>3, <3>1, <3>2, <3>3
    <3>4. CASE ~(lo + n - 1 <= Len(key))
      <4>1. w[lo + n - 1] \in I!Blanks
        BY <1>1, <1>2, <3>1, <3>4
      <4> QED  BY <3>1, <4>1, MarksAre
    <3> QED  BY <3>3, <3>4
  <2> HIDE DEF equal
  <2>3. Index(text, "=") = equal
    BY <1>9, <1>10, <2>1, <2>2, IndexIs
  <2> QED  BY <2>3, SignsAre
<1>17. I!Trim(left) = key
  <2>1. CASE key = <<>>
    <3>1. Len(key) = 0
      BY <2>1
    <3>2. \A n \in 1..e - lo : left[n] \in I!Blanks
      <4> TAKE n \in 1..e - lo
      <4>1. left[n] = w[lo + n - 1] /\ lo + n - 1 \in 1..Len(w) /\ lo + n - 1 < e
        BY <1>11
      <4>2. lo + n - 1 > Len(key)
        BY <3>1, <4>1
      <4> QED  BY <1>2, <4>1, <4>2
    <3>3. AllBlank(left)
      BY <1>11, <3>2 DEF AllBlank
    <3> QED  BY <2>1, <3>3, TrimIs
  <2>2. CASE key # <<>>
    <3>1. lo = 1 /\ Len(left) = e - 1
      BY <1>11, <1>13, <2>2
    <3>2. ASSUME NEW n \in 1..Len(left)
          PROVE  IF n > 0 /\ n <= 0 + Len(key) THEN left[n] = key[n - 0]
                                               ELSE left[n] \in I!Blanks
      <4>1. n \in 1..e - lo /\ lo + n - 1 = n /\ n > 0 /\ n - 0 = n /\ 0 + Len(key) = Len(key)
        BY <1>1, <1>7, <3>1
      <4>2. left[n] = w[n] /\ n \in 1..Len(w) /\ n < e
        BY <1>11, <4>1
      <4> QED  BY <1>1, <1>2, <4>1, <4>2
    <3>3. 0 \in Nat /\ 0 + Len(key) <= Len(left)
      BY <1>1, <3>1
    <3>4. Padded(left, key, 0)
      BY <1>1, <1>11, <3>2, <3>3 DEF Padded
    <3> QED  BY <1>3, <3>4, PaddedTrim
  <2> QED  BY <2>1, <2>2
<1>18. I!Trim(right) = val
  <2>1. CASE val = <<>>
    <3>1. Len(val) = 0
      BY <2>1
    <3>2. \A n \in 1..hi - e : right[n] \in I!Blanks
      BY <1>1, <1>2, <1>12, <3>1
    <3>3. AllBlank(right)
      BY <1>12, <3>2 DEF AllBlank
    <3> QED  BY <2>1, <3>3, TrimIs
  <2>2. CASE val # <<>>
    <3> DEFINE d == Len(w) - Len(val) - e
    <3>1. hi = Len(w) /\ Len(right) = Len(w) - e /\ d \in Nat /\ d + Len(val) = Len(right)
      BY <1>1, <1>12, <1>14, <2>2
    <3>2. ASSUME NEW n \in 1..Len(right)
          PROVE  IF n > d /\ n <= d + Len(val) THEN right[n] = val[n - d]
                                                 ELSE right[n] \in I!Blanks
      <4>1. right[n] = w[e + n] /\ e + n \in 1..Len(w) /\ e + n > e /\ n \in Nat
        BY <1>12, <3>1
      <4>2. /\ n > d => e + n > Len(w) - Len(val)
            /\ ~(n > d) => e + n <= Len(w) - Len(val)
            /\ n <= d + Len(val)
            /\ (e + n) - (Len(w) - Len(val)) = n - d
        BY <1>1, <3>1, <4>1
      <4> QED  BY <1>2, <4>1, <4>2
    <3> HIDE DEF d
    <3>3. d + Len(val) <= Len(right)
      BY <1>12, <3>1
    <3>4. Padded(right, val, d)
      BY <1>1, <1>12, <3>1, <3>2, <3>3 DEF Padded
    <3> QED  BY <1>3, <3>4, PaddedTrim
  <2> QED  BY <2>1, <2>2
<1>19. equal > 0
  BY <1>10
<1> HIDE DEF equal
<1> QED  BY <1>8, <1>10, <1>15, <1>16, <1>17, <1>18, <1>19 DEF left, right

(* The four pieces an author's line consists of make a divided text.       *)
LEMMA AssignmentWritten ==
    ASSUME NEW key, key \in Seq(Chars), NEW val, val \in Seq(Chars),
           NEW gap, AllBlank(gap)
    PROVE  Divided(key \o gap \o <<"=">> \o gap \o val, Len(key) + Len(gap) + 1, key, val)
<1> DEFINE sign == <<"=">>
           u1 == key \o gap
           u2 == u1 \o sign
           u3 == u2 \o gap
           w  == u3 \o val
           e  == Len(key) + Len(gap) + 1
           m  == Len(w) - Len(val)
<1>1. /\ gap \in Seq(Chars) /\ \A n \in 1..Len(gap) : gap[n] \in I!Blanks
      /\ Len(key) \in Nat /\ Len(gap) \in Nat /\ Len(val) \in Nat
  BY DEF AllBlank
<1>2. sign \in Seq(Chars) /\ Len(sign) = 1 /\ sign[1] = "="
  <2>1. "=" \in Chars
    BY CharsAre
  <2> QED  BY <2>1
<1> HIDE DEF sign
<1>3. Joined(u1, key, gap)
  BY <1>1, JoinIs
<1> HIDE DEF u1
<1>4. u1 \in Seq(Chars) /\ Len(u1) = Len(key) + Len(gap)
  BY <1>3 DEF Joined
<1>5. Joined(u2, u1, sign)
  BY <1>2, <1>4, JoinIs
<1> HIDE DEF u2
<1>6. u2 \in Seq(Chars) /\ Len(u2) = e
  BY <1>2, <1>4, <1>5 DEF Joined
<1>7. Joined(u3, u2, gap)
  BY <1>1, <1>6, JoinIs
<1> HIDE DEF u3
<1>8. u3 \in Seq(Chars) /\ Len(u3) = e + Len(gap)
  BY <1>6, <1>7 DEF Joined
<1>9. Joined(w, u3, val)
  BY <1>8, JoinIs
<1> HIDE DEF w
<1>10. w \in Seq(Chars) /\ Len(w) = e + Len(gap) + Len(val) /\ m = e + Len(gap)
       /\ e \in Nat /\ m \in Nat
  BY <1>1, <1>8, <1>9 DEF Joined
<1>11. e \in 1..Len(w) /\ Len(key) < e /\ e + Len(val) <= Len(w)
  BY <1>1, <1>10
<1>12. \A n \in 1..Len(w) : n <= Len(u1) => w[n] = u1[n]
  <2> TAKE n \in 1..Len(w)
  <2> SUFFICES ASSUME n <= Len(u1) PROVE w[n] = u1[n]
    OBVIOUS
  <2>1. /\ n <= Len(u2) /\ n <= Len(u3) /\ n \in 1..Len(u1) /\ n \in 1..Len(u2)
        /\ n \in 1..Len(u3)
    BY <1>1, <1>4, <1>6, <1>8
  <2>2. w[n] = u3[n]
    BY <1>9, <2>1 DEF Joined
  <2>3. u3[n] = u2[n]
    BY <1>7, <2>1 DEF Joined
  <2>4. u2[n] = u1[n]
    BY <1>5, <2>1 DEF Joined
  <2> QED  BY <2>2, <2>3, <2>4
<1>13. w[e] = "="
  <2>1. /\ e <= Len(u2) /\ e <= Len(u3) /\ e \in 1..Len(u2) /\ e \in 1..Len(u3)
        /\ e > Len(u1) /\ e - Len(u1) = 1
    BY <1>1, <1>4, <1>6, <1>8, <1>10
  <2> HIDE DEF e
  <2>2. w[e] = u3[e]
    BY <1>9, <1>11, <2>1 DEF Joined
  <2>3. u3[e] = u2[e]
    BY <1>7, <2>1 DEF Joined
  <2>4. u2[e] = sign[e - Len(u1)]
    BY <1>5, <2>1 DEF Joined
  <2> QED  BY <1>2, <2>1, <2>2, <2>3, <2>4
<1>14. ASSUME NEW n \in 1..Len(w), n <= Len(key) PROVE w[n] = key[n]
  <2>1. n <= Len(u1) /\ n \in 1..Len(u1)
    BY <1>1, <1>4, <1>14
  <2>2. u1[n] = key[n]
    BY <1>3, <1>14, <2>1 DEF Joined
  <2> QED  BY <1>12, <2>1, <2>2
<1>15. ASSUME NEW n \in 1..Len(w), n > Len(key), n < e PROVE w[n] \in I!Blanks
  <2>1. n <= Len(u1) /\ n \in 1..Len(u1) /\ n - Len(key) \in 1..Len(gap)
    BY <1>1, <1>4, <1>15
  <2>2. u1[n] = gap[n - Len(key)]
    BY <1>3, <1>15, <2>1 DEF Joined
  <2> QED  BY <1>1, <1>12, <2>1, <2>2
<1>16. ASSUME NEW n \in 1..Len(w), n > e, n <= m PROVE w[n] \in I!Blanks
  <2>1. /\ n <= Len(u3) /\ n \in 1..Len(u3) /\ n > Len(u2) /\ n - Len(u2) \in 1..Len(gap)
    BY <1>1, <1>6, <1>8, <1>10, <1>16
  <2>2. w[n] = u3[n]
    BY <1>9, <2>1 DEF Joined
  <2>3. u3[n] = gap[n - Len(u2)]
    BY <1>7, <2>1 DEF Joined
  <2> QED  BY <1>1, <2>1, <2>2, <2>3
<1>17. ASSUME NEW n \in 1..Len(w), n > m PROVE w[n] = val[n - m]
  <2>1. n > Len(u3) /\ Len(u3) = m
    BY <1>8, <1>10, <1>17
  <2> QED  BY <1>9, <2>1 DEF Joined
<1> HIDE DEF e
<1>18. Divided(w, e, key, val)
  BY <1>10, <1>11, <1>13, <1>14, <1>15, <1>16, <1>17 DEF Divided
<1> QED  BY <1>18 DEF w, u3, u2, u1, sign, e

(* No comment begins in what an author means.                              *)
LEMMA NoComment ==
    ASSUME NEW w, NEW e, NEW key \in Keys, NEW val \in Values, Divided(w, e, key, val)
    PROVE  \A n \in 1..Len(w) : w[n] # Semicolon
<1>1. /\ e \in 1..Len(w) /\ w[e] = "=" /\ Len(w) \in Nat /\ e \in Nat
      /\ Len(key) \in Nat /\ Len(val) \in Nat /\ e + Len(val) <= Len(w)
      /\ DOMAIN key = 1..Len(key) /\ DOMAIN val = 1..Len(val)
      /\ \A n \in 1..Len(w) :
          /\ n <= Len(key) => w[n] = key[n]
          /\ n > Len(key) /\ n < e => w[n] \in I!Blanks
          /\ n > e /\ n <= Len(w) - Len(val) => w[n] \in I!Blanks
          /\ n > Len(w) - Len(val) => w[n] = val[n - (Len(w) - Len(val))]
  BY DEF Divided
<1>2. \A n \in 1..Len(key) : key[n] # Semicolon
  BY <1>1, TextsAre
<1>3. \A n \in 1..Len(val) : val[n] # Semicolon
  BY <1>1, TextsAre
<1>4. \A c \in I!Blanks : c # Semicolon
  BY BlanksAre
<1> TAKE n \in 1..Len(w)
<1>5. CASE n <= Len(key)
  BY <1>1, <1>2, <1>5
<1>6. CASE n > Len(key) /\ n < e
  BY <1>1, <1>4, <1>6
<1>7. CASE n = e
  BY <1>1, <1>7, MarksAre
<1>8. CASE n > e /\ n <= Len(w) - Len(val)
  BY <1>1, <1>4, <1>8
<1>9. CASE n > Len(w) - Len(val)
  <2>1. n - (Len(w) - Len(val)) \in 1..Len(val)
    BY <1>1, <1>9
  <2> QED  BY <1>1, <1>3, <1>9, <2>1
<1> QED  BY <1>1, <1>5, <1>6, <1>7, <1>8, <1>9

-----------------------------------------------------------------------------
(* The map says what is meant.                                             *)
IniInv == /\ I!IniTypeOK /\ current_section = under
          /\ first => _config_map = meant

(* One place of a map gets a value.                                        *)
LEMMA PutIs ==
    ASSUME NEW map, NEW key \in Keys, NEW val \in Values,
           NEW section \in SectionNames \union {<<>>},
           DOMAIN map \subseteq I!Places, \A p \in DOMAIN map : map[p] \in Values
    PROVE  /\ DOMAIN I!Put(map, <<section, key>>, val) \subseteq I!Places
           /\ \A p \in DOMAIN I!Put(map, <<section, key>>, val) :
                 I!Put(map, <<section, key>>, val)[p] \in Values
<1> DEFINE place == <<section, key>>
           put == I!Put(map, place, val)
<1>1. place \in I!Places
  BY DEF I!Places
<1> HIDE DEF place
<1>2. put = [p \in DOMAIN map \union {place} |-> IF p = place THEN val ELSE map[p]]
  BY DEF I!Put
<1> HIDE DEF put
<1>3. DOMAIN put = DOMAIN map \union {place}
  BY <1>2
<1>4. \A p \in DOMAIN put : put[p] = IF p = place THEN val ELSE map[p]
  BY <1>2, <1>3
<1>5. \A p \in DOMAIN put : put[p] \in Values
  <2> TAKE p \in DOMAIN put
  <2>1. p # place => p \in DOMAIN map
    BY <1>3
  <2> QED  BY <1>4, <2>1
<1>6. DOMAIN put \subseteq I!Places
  BY <1>1, <1>3
<1> QED  BY <1>5, <1>6 DEF put, place

LEMMA SectionStep ==
    ASSUME IniInv, NEW name \in SectionNames, I!SectionLine(name)
    PROVE  IniInv'
<1> DEFINE text == <<"[">> \o name \o <<"]">>
<1>1. Framed(text, "[", name, "]")
  BY CharsAre, TextsAre, FrameIs
<1>2. PICK line \in I!Lines(text) : I!ReadLine(line)
  BY DEF I!SectionLine
<1> HIDE DEF text
<1>3. text \in Seq(Chars) /\ \A n \in 1..Len(text) : text[n] # Semicolon
  <2>1. /\ text \in Seq(Chars) /\ Len(text) = Len(name) + 2 /\ Len(name) \in Nat
        /\ DOMAIN name = 1..Len(name)
        /\ text[1] = "[" /\ text[Len(text)] = "]"
        /\ \A n \in 1..Len(name) : text[n + 1] = name[n]
    BY <1>1 DEF Framed
  <2>2. \A n \in 1..Len(name) : name[n] # Semicolon
    BY <2>1, TextsAre
  <2> SUFFICES ASSUME NEW n \in 1..Len(text) PROVE text[n] # Semicolon
    BY <2>1
  <2>3. CASE n = 1 \/ n = Len(text)
    BY <2>1, <2>3, MarksAre
  <2>4. CASE n # 1 /\ n # Len(text)
    <3>1. n - 1 \in 1..Len(name) /\ (n - 1) + 1 = n
      BY <2>1, <2>4
    <3>2. text[(n - 1) + 1] = name[n - 1]
      BY <2>1, <3>1
    <3> QED  BY <2>2, <3>1, <3>2
  <2> QED  BY <2>3, <2>4
<1>4. I!Trim(I!WithoutComment(line)) = text
  BY <1>1, <1>3, LineIs, SectionIs
<1>5. I!IsSection(text) /\ SubSeq(text, 2, Len(text) - 1) = name
  BY <1>1, SectionIs
<1>6. current_section' = name /\ _config_map' = _config_map
  BY <1>2, <1>4, <1>5 DEF I!ReadLine
<1>7. under' = name /\ meant' = meant /\ first' = first
  BY DEF I!SectionLine
<1> QED  BY <1>6, <1>7 DEF IniInv, I!IniTypeOK

(* What may stand around the sign; named for the same reason as Semicolon. *)
Gaps == {<<>>, <<" ", "\t">>}

LEMMA GapsAre == \A gap \in Gaps : AllBlank(gap)
<1>1. AllBlank(<<>>)
  BY DEF AllBlank
<1>2. AllBlank(<<" ", "\t">>)
  BY BlanksAre, BlankPair
<1> QED  BY Zenon, <1>1, <1>2 DEF Gaps

LEMMA AssignmentStep ==
    ASSUME IniInv, NEW key \in Keys, NEW val \in Values, I!AssignmentLine(key, val)
    PROVE  IniInv'
<1>1. PICK gap \in Gaps :
         \E line \in I!Lines(key \o gap \o <<"=">> \o gap \o val) : I!ReadLine(line)
  BY Zenon DEF I!AssignmentLine, Gaps
<1> DEFINE w == key \o gap \o <<"=">> \o gap \o val
           e == Len(key) + Len(gap) + 1
<1>2. AllBlank(gap)
  BY GapsAre
<1>3. Divided(w, e, key, val)
  BY <1>2, TextsAre, AssignmentWritten
<1>4. PICK line \in I!Lines(w) : I!ReadLine(line)
  BY <1>1
<1> HIDE DEF w, e
<1>5. w \in Seq(Chars) /\ \A n \in 1..Len(w) : w[n] # Semicolon
  BY <1>3, NoComment DEF Divided
<1> DEFINE text == I!Trim(w)
           equal == I!Equal(text)
<1>6. I!Trim(I!WithoutComment(line)) = text
  BY <1>5, LineIs
<1>7. /\ ~I!IsSection(text) /\ equal \in Nat /\ equal > 0
      /\ I!Trim(SubSeq(text, 1, equal - 1)) = key
      /\ I!Trim(SubSeq(text, equal + 1, Len(text))) = val
  BY <1>3, DividedIs
<1> HIDE DEF text
<1>8. /\ _config_map' = I!Put(_config_map, <<current_section, key>>, val)
      /\ current_section' = current_section
  BY <1>4, <1>6, <1>7 DEF I!ReadLine
<1>9. /\ first => meant' = I!Put(meant, <<under, key>>, val)
      /\ under' = under /\ first' = first
  BY DEF I!AssignmentLine
<1>10. (first' => _config_map' = meant') /\ current_section' = under'
  BY <1>8, <1>9 DEF IniInv
<1>11. /\ DOMAIN _config_map' \subseteq I!Places
       /\ \A p \in DOMAIN _config_map' : _config_map'[p] \in Values
  BY <1>8, PutIs DEF IniInv, I!IniTypeOK
<1> QED  BY <1>8, <1>10, <1>11 DEF IniInv, I!IniTypeOK

LEMMA NoiseStep ==
    ASSUME IniInv, I!NoiseLine
    PROVE  IniInv'
<1>1. PICK text \in Noise : \E line \in I!Lines(text) : I!ReadLine(line)
  BY DEF I!NoiseLine
<1>2. PICK line \in I!Lines(text) : I!ReadLine(line)
  BY <1>1
<1>3. /\ text \in Seq(Chars) /\ Len(text) \in Nat
      /\ \A n \in 1..Len(text) : text[n] # Semicolon
  BY TextsAre
<1>4. \A n \in 1..Len(text) : text[n] # "="
  <2>1. \A n \in DOMAIN text : text[n] # "="
    BY Zenon, IniAssumption
  <2> QED  BY <1>3, <2>1
<1> DEFINE trimmed == I!Trim(text)
<1>5. I!Trim(I!WithoutComment(line)) = trimmed
  BY <1>3, LineIs
<1>6. ~I!IsSection(trimmed)
  BY Zenon, IniAssumption
<1>7. trimmed \in Seq(Chars) /\ \A n \in 1..Len(trimmed) : trimmed[n] # "="
  <2>1. CASE AllBlank(text)
    <3>1. trimmed = <<>>
      BY <2>1, TrimIs
    <3> QED  BY <3>1
  <2>2. ASSUME NEW a \in Nat, NEW b \in Nat, Within(text, a, b)
        PROVE  trimmed \in Seq(Chars) /\ \A n \in 1..Len(trimmed) : trimmed[n] # "="
    <3>1. trimmed = SubSeq(text, a, b) /\ 1 <= a /\ a <= b /\ b <= Len(text)
      BY <2>2, TrimIs DEF Within
    <3> HIDE DEF trimmed
    <3>2. /\ trimmed \in Seq(Chars) /\ Len(trimmed) = b - a + 1
          /\ \A n \in 1..Len(trimmed) : trimmed[n] = text[a + n - 1]
      BY <1>3, <3>1
    <3>3. \A n \in 1..Len(trimmed) : a + n - 1 \in 1..Len(text)
      BY <1>3, <3>1, <3>2
    <3> QED  BY <1>4, <3>2, <3>3
  <2> QED  BY <1>3, <2>1, <2>2, BlankOrNot
<1> HIDE DEF trimmed
<1>8. I!Equal(trimmed) = 0
  BY <1>7, IndexIs, SignsAre
<1>9. _config_map' = _config_map /\ current_section' = current_section
  BY <1>2, <1>5, <1>6, <1>8 DEF I!ReadLine
<1>10. meant' = meant /\ under' = under /\ first' = first
  BY DEF I!NoiseLine
<1> QED  BY <1>9, <1>10 DEF IniInv, I!IniTypeOK

LEMMA NextIniInv == IniInv /\ [I!IniNext]_iniVars => IniInv'
<1> SUFFICES ASSUME IniInv, [I!IniNext]_iniVars PROVE IniInv'
  OBVIOUS
<1>1. CASE I!Inst
  BY <1>1 DEF IniInv, I!IniTypeOK, I!Inst
<1>2. CASE I!NoiseLine
  BY <1>2, NoiseStep
<1>3. CASE \E name \in SectionNames : I!SectionLine(name)
  BY <1>3, SectionStep
<1>4. CASE \E key \in Keys, val \in Values : I!AssignmentLine(key, val)
  BY <1>4, AssignmentStep
<1>5. CASE UNCHANGED iniVars
  BY <1>5 DEF IniInv, I!IniTypeOK, iniVars
<1> QED  BY <1>1, <1>2, <1>3, <1>4, <1>5 DEF I!IniNext

LEMMA MapSays == IniInv => I!LastAssignmentHolds
<1> SUFFICES ASSUME IniInv, first, NEW place \in I!Places
             PROVE  I!GetValue(place[1], place[2]) =
                       IF place \in DOMAIN meant THEN meant[place] ELSE <<>>
  BY DEF IniInv, I!LastAssignmentHolds
<1>1. <<place[1], place[2]>> = place
  BY DEF I!Places
<1> QED  BY <1>1 DEF IniInv, I!GetValue

LEMMA IniSteps == [PartsNext]_allVars => [I!IniNext]_iniVars
  BY DEF PartsNext, allVars, restVars, textVars, iniVars

(* However names, keys and values are written down, with blanks, comments  *)
(* and noise around them, the map holds what the first file that Inst was  *)
(* called with assigns last to each place.                                 *)
THEOREM FilesRead == PartsSpec => []LastAssignmentHolds
<1>1. PartsInit => IniInv
  BY DEF PartsInit, I!IniInit, IniInv, I!IniTypeOK, I!Nothing
<1>2. IniInv /\ [PartsNext]_allVars => IniInv'
  BY IniSteps, NextIniInv
<1>3. IniInv => LastAssignmentHolds
  BY MapSays DEF LastAssignmentHolds
<1> QED  BY <1>1, <1>2, <1>3, PTL DEF PartsSpec, allVars

-----------------------------------------------------------------------------
(* BlockQueue.  What its proofs show of any threads holds of those of a    *)
(* behaviour of MCParts.                                                   *)
QP == INSTANCE BlockQueueProofs WITH ret <- popped

LEMMA QueueStep == Q!Next => QP!Next
<1>1. \A p \in Producers : Q!ProducerStep(p) => QP!ProducerStep(p)
  BY Zenon
  DEF Q!ProducerStep, Q!Push, Q!PushItem, Q!PushSleep, Q!PushResume, Q!PushWoken,
      Q!NotifyOneConsumer, Q!Full, Q!Empty, Q!NoItem,
      QP!ProducerStep, QP!Push, QP!PushItem, QP!PushSleep, QP!PushResume, QP!PushWoken,
      QP!NotifyOneConsumer, QP!Full, QP!Empty, QP!NoItem
<1>2. \A c : Q!PopResume(c) => QP!PopResume(c)
  BY Zenon
  DEF Q!PopResume, Q!PopItem, Q!PopWoken, Q!PopSleep, Q!ReturnFalse, Q!NotifyOneProducer,
      Q!Full, Q!Empty, Q!Waiting, Q!Refused,
      QP!PopResume, QP!PopItem, QP!PopWoken, QP!PopSleep, QP!ReturnFalse, QP!NotifyOneProducer,
      QP!Full, QP!Empty, QP!Waiting, QP!Refused
<1>3. \A c : Q!ConsumerStep(c) => QP!ConsumerStep(c)
  BY Zenon, <1>2
  DEF Q!ConsumerStep, Q!Pop, Q!PopItem, Q!PopSleep, Q!ReturnFalse, Q!NotifyOneProducer,
      Q!Full, Q!Empty, Q!Waiting, Q!Refused,
      QP!ConsumerStep, QP!Pop, QP!PopItem, QP!PopSleep, QP!ReturnFalse,
      QP!NotifyOneProducer, QP!Full, QP!Empty, QP!Waiting, QP!Refused
<1>4. \A c : Q!TimedConsumerStep(c) => QP!TimedConsumerStep(c)
  BY Zenon, <1>2
  DEF Q!TimedConsumerStep, Q!PopFor, Q!Expire, Q!PopTimeout, Q!PopItem, Q!PopSleep,
      Q!ReturnFalse, Q!NotifyOneProducer, Q!Full, Q!Empty, Q!Waiting, Q!Refused,
      QP!TimedConsumerStep, QP!PopFor, QP!Expire, QP!PopTimeout, QP!PopItem, QP!PopSleep,
      QP!ReturnFalse, QP!NotifyOneProducer, QP!Full, QP!Empty, QP!Waiting, QP!Refused
<1>5. \A k : Q!ControllerStep(k) => QP!ControllerStep(k)
  BY Zenon
  DEF Q!ControllerStep, Q!Close, Q!CloseNotifyProducers, Q!CloseNotifyConsumers, Q!Flush,
      Q!NotifyOneConsumer, Q!NotifyOneProducer, Q!Empty, Q!Full,
      QP!ControllerStep, QP!Close, QP!CloseNotifyProducers, QP!CloseNotifyConsumers,
      QP!Flush, QP!NotifyOneConsumer, QP!NotifyOneProducer, QP!Empty, QP!Full
<1>6. \A t \in Q!Threads : Q!SpuriousWakeup(t) => QP!SpuriousWakeup(t)
  BY Zenon DEF Q!SpuriousWakeup, QP!SpuriousWakeup
<1>7. Q!Threads = QP!Threads
  BY DEF Q!Threads, Q!Takers, QP!Threads, QP!Takers
<1> QED  BY Zenon, <1>1, <1>3, <1>4, <1>5, <1>6, <1>7 DEF Q!Next, QP!Next

LEMMA QueueSteps == [PartsNext]_allVars => [Q!Next]_queueVars
  BY DEF PartsNext, allVars, restVars, queueVars

(* While a producer sleeps in Push there is a woken one for every free     *)
(* place, also with consumers whose timed Pop expires.                     *)
THEOREM RoomIsNotLost == PartsSpec => []NoLostRoom
<1>1. PartsInit => QP!Init
  BY Zenon
  DEF PartsInit, Q!Init, Q!Threads, Q!Takers, Q!NoItem, Q!Waiting, Q!Refused,
      QP!Init, QP!Threads, QP!Takers, QP!NoItem, QP!Waiting, QP!Refused
<1>2. [PartsNext]_allVars => [QP!Next]_QP!vars
  BY QueueSteps, QueueStep DEF QP!vars, queueVars
<1>3. QP!Spec => []QP!NoLostRoom
  <2>1. Capacity \in Nat \ {0}
    BY QueueAssumption
  <2>2. /\ IsFiniteSet(QP!Threads)
        /\ Producers \intersect QP!Takers = {}
        /\ Controllers \intersect (Producers \union QP!Takers) = {}
        /\ Consumers \intersect TimedConsumers = {}
    BY QueueAssumption DEF Q!Threads, Q!Takers, QP!Threads, QP!Takers
  <2>3. Items \intersect {QP!NoItem, QP!Waiting, QP!Refused} = {}
    BY QueueAssumption
    DEF Q!NoItem, Q!Waiting, Q!Refused, QP!NoItem, QP!Waiting, QP!Refused
  <2>4. QP!IsFiniteSet(QP!Threads)
    BY <2>2 DEF IsFiniteSet, QP!IsFiniteSet
  <2> QED  BY Zenon, <2>1, <2>2, <2>3, <2>4, QP!NoRoomLost
<1>4. QP!NoLostRoom => NoLostRoom
  BY DEF NoLostRoom, Q!NoLostRoom, Q!WokenProducers, Q!PushWoken, Q!Full, Q!Cardinality,
         QP!NoLostRoom, QP!WokenProducers, QP!PushWoken, QP!Full, QP!Cardinality
<1> QED  BY <1>1, <1>2, <1>3, <1>4, PTL DEF PartsSpec, allVars, QP!Spec
=============================================================================
