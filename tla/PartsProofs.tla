---------------------------- MODULE PartsProofs ----------------------------
(***************************************************************************)
(* Proofs about parts of MCParts: SnowWorker for any accepted options and  *)
(* any clock, Buffer for any bytes, and TcpManager for any senders,        *)
(* receivers and messages.                                                 *)
(***************************************************************************)
EXTENDS MCParts, SequenceTheorems, FiniteSetTheorems, WellFoundedInduction, TLAPS

-----------------------------------------------------------------------------
(* Induction over the natural numbers, and what a recursion over them      *)
(* defines.                                                                *)

(* A set of natural numbers has a least one.                               *)
LEMMA Least ==
    ASSUME NEW Nums, Nums \subseteq Nat, Nums # {}
    PROVE  \E x \in Nums : \A y \in Nums : x <= y
<1> DEFINE R == OpToRel(<, Nat)
<1>1. IsWellFoundedOn(R, Nat)
  BY NatLessThanWellFounded
<1>2. \A x, y \in Nat : x < y => <<x, y>> \in R
  BY DEF OpToRel
<1> HIDE DEF R
<1>3. PICK x \in Nums : \A y \in Nums : ~ (<<y, x>> \in R)
  BY <1>1, WFMin
<1>4. \A y \in Nums : ~ (y < x)
  BY <1>2, <1>3
<1>5. \A y \in Nums : x <= y
  <2> TAKE y \in Nums
  <2>1. y \in Nat /\ x \in Nat /\ ~(y < x)
    BY <1>4
  <2> QED  BY <2>1
<1> QED  BY <1>5

(* Induction over the natural numbers, stated of a set.                    *)
LEMMA Induction ==
    ASSUME NEW Nums, 0 \in Nums, \A n \in Nat : n \in Nums => n + 1 \in Nums
    PROVE  \A n \in Nat : n \in Nums
<1> SUFFICES ASSUME Nat \ Nums # {} PROVE FALSE
  OBVIOUS
<1>1. PICK x \in Nat \ Nums : \A y \in Nat \ Nums : x <= y
  <2>1. Nat \ Nums \subseteq Nat
    OBVIOUS
  <2> QED  BY <2>1, Least
<1>2. x # 0 /\ x - 1 \in Nat
  BY <1>1
<1>3. x - 1 \in Nums
  BY <1>1, <1>2
<1>4. (x - 1) + 1 \in Nums
  BY <1>2, <1>3
<1> QED  BY <1>1, <1>2, <1>4

(* A function that is defined by recursion over the natural numbers        *)
(* exists: what step makes of n and the value at n is the value at n + 1.  *)
Runs(h, n, base, step) ==
    h[0] = base /\ \A m \in 0..n : m # n => h[m + 1] = step[<<m, h[m]>>]

LEMMA RunsAgree ==
    ASSUME NEW D, NEW base \in D, NEW step \in [Nat \X D -> D],
           NEW n \in Nat, NEW k \in Nat, n <= k,
           NEW f, NEW h, Runs(f, n, base, step), Runs(h, k, base, step)
    PROVE  f[n] = h[n]
<1> DEFINE Same == {m \in Nat : m <= n => f[m] = h[m]}
<1>1. 0 \in Same
  BY DEF Runs
<1>2. ASSUME NEW m \in Nat, m \in Same PROVE m + 1 \in Same
  <2> SUFFICES ASSUME m + 1 <= n PROVE f[m + 1] = h[m + 1]
    OBVIOUS
  <2>1. m \in 0..n /\ m # n /\ m \in 0..k /\ m # k /\ m <= n
    OBVIOUS
  <2>2. f[m + 1] = step[<<m, f[m]>>] /\ h[m + 1] = step[<<m, h[m]>>]
    BY <2>1 DEF Runs
  <2>3. f[m] = h[m]
    BY <1>2, <2>1
  <2> QED  BY <2>2, <2>3
<1> HIDE DEF Same
<1>3. n \in Same
  BY <1>1, <1>2, Induction
<1> QED  BY <1>3 DEF Same

Computes(g, D, base, step) ==
    /\ g \in [Nat -> D]
    /\ g[0] = base
    /\ \A n \in Nat : g[n + 1] = step[<<n, g[n]>>]

LEMMA Recursion ==
    ASSUME NEW D, NEW base, base \in D, NEW step, step \in [Nat \X D -> D]
    PROVE  \E g : Computes(g, D, base, step)
<1> DEFINE Reached == {n \in Nat : \E h \in [0..n -> D] : Runs(h, n, base, step)}
<1>1. 0 \in Reached
  <2> DEFINE h == [m \in 0..0 |-> base]
  <2>1. h \in [0..0 -> D] /\ Runs(h, 0, base, step)
    BY DEF Runs
  <2> QED  BY <2>1
<1>2. ASSUME NEW n \in Nat, n \in Reached PROVE n + 1 \in Reached
  <2>1. PICK h \in [0..n -> D] : Runs(h, n, base, step)
    BY <1>2
  <2> DEFINE f == [m \in 0..n + 1 |-> IF m = n + 1 THEN step[<<n, h[n]>>] ELSE h[m]]
  <2>2. f \in [0..n + 1 -> D]
    <3>1. h[n] \in D /\ <<n, h[n]>> \in Nat \X D
      BY <2>1
    <3>2. step[<<n, h[n]>>] \in D
      BY <3>1
    <3>3. \A m \in 0..n + 1 : m # n + 1 => h[m] \in D
      BY <2>1
    <3> QED  BY <3>2, <3>3
  <2>3. f[0] = base
    BY <2>1 DEF Runs
  <2>4. ASSUME NEW m \in 0..n + 1, m # n + 1 PROVE f[m + 1] = step[<<m, f[m]>>]
    <3>1. f[m] = h[m] /\ m \in 0..n
      BY <2>4
    <3>2. CASE m = n
      <4>1. f[m + 1] = step[<<n, h[n]>>]
        BY <3>2
      <4> QED  BY <3>1, <3>2, <4>1
    <3>3. CASE m # n
      <4>1. f[m + 1] = h[m + 1]
        BY <3>1, <3>3
      <4>2. h[m + 1] = step[<<m, h[m]>>]
        BY <2>1, <3>1, <3>3 DEF Runs
      <4> QED  BY <3>1, <4>1, <4>2
    <3> QED  BY <3>2, <3>3
  <2> HIDE DEF f
  <2>5. Runs(f, n + 1, base, step)
    BY <2>3, <2>4 DEF Runs
  <2> QED  BY <2>2, <2>5
<1> HIDE DEF Reached
<1>3. \A n \in Nat : n \in Reached
  BY <1>1, <1>2, Induction
<1>4. \A n \in Nat : \E h \in [0..n -> D] : Runs(h, n, base, step)
  BY <1>3 DEF Reached
<1> DEFINE upto == [n \in Nat |-> CHOOSE h \in [0..n -> D] : Runs(h, n, base, step)]
           g == [n \in Nat |-> upto[n][n]]
<1>5. \A n \in Nat : upto[n] \in [0..n -> D] /\ Runs(upto[n], n, base, step)
  BY <1>4
<1> HIDE DEF upto
<1>6. g \in [Nat -> D]
  <2>1. \A n \in Nat : n \in 0..n
    OBVIOUS
  <2>2. \A n \in Nat : upto[n][n] \in D
    BY <1>5, <2>1
  <2> QED  BY <2>2
<1>7. g[0] = base
  BY <1>5 DEF Runs
<1>8. ASSUME NEW n \in Nat PROVE g[n + 1] = step[<<n, g[n]>>]
  <2>1. n + 1 \in Nat /\ n \in 0..n + 1 /\ n # n + 1 /\ n <= n + 1
    OBVIOUS
  <2>2. upto[n + 1][n + 1] = step[<<n, upto[n + 1][n]>>]
    BY <1>5, <2>1 DEF Runs
  <2>3. Runs(upto[n], n, base, step) /\ Runs(upto[n + 1], n + 1, base, step)
    BY <1>5, <2>1
  <2>4. upto[n][n] = upto[n + 1][n]
    BY <2>1, <2>3, RunsAgree
  <2>5. \A m \in Nat : g[m] = upto[m][m]
    OBVIOUS
  <2>6. g[n + 1] = upto[n + 1][n + 1] /\ g[n] = upto[n][n]
    BY <2>1, <2>5
  <2> HIDE DEF g
  <2> QED  BY <2>2, <2>4, <2>6
<1> HIDE DEF g
<1> QED  BY <1>6, <1>7, <1>8 DEF Computes

-----------------------------------------------------------------------------
(* SnowWorker.                                                             *)
(* Multiplication by a natural number is monotonic and distributes.        *)
LEMMA TimesMonotonic ==
    ASSUME NEW a \in Int, NEW b \in Int, NEW r \in Nat, a <= b
    PROVE  a * r <= b * r
  OBVIOUS

LEMMA TimesSuccessor ==
    ASSUME NEW a \in Int, NEW r \in Int
    PROVE  (a + 1) * r = a * r + r
  OBVIOUS

(* A later tick outweighs any sequence number.                             *)
LEMMA LaterTick ==
    ASSUME NEW l \in Int, NEW k \in Int, NEW r \in Nat, NEW u \in Int,
           NEW s \in Nat, l + 1 <= k, u <= r
    PROVE  l * r + u <= k * r + s
<1> DEFINE lr == l * r
           kr == k * r
<1>1. lr \in Int /\ kr \in Int
  OBVIOUS
<1>2. lr + r <= kr
  BY TimesMonotonic, TimesSuccessor
<1> HIDE DEF lr, kr
<1>3. lr + u <= kr + s
  BY <1>1, <1>2
<1> QED  BY <1>3 DEF lr, kr

(* A drift d that n issued IDs pay for, u of them in the current tick,     *)
(* becomes a drift e: the tick was left for the clock's, left for the next *)
(* one, or kept.                                                           *)
LEMMA DriftStep ==
    ASSUME NEW d \in Int, NEW e \in Int, NEW r \in Nat, NEW u \in Nat,
           NEW n \in Nat, d * r + u <= n
    PROVE  /\ e <= 0 => e * r + 1 <= n + 1
           /\ e <= d + 1 /\ u = r => e * r + 1 <= n + 1
           /\ e <= d => e * r + (u + 1) <= n + 1
<1> DEFINE dr == d * r
           er == e * r
<1>1. dr \in Int /\ er \in Int /\ dr + u <= n
  OBVIOUS
<1>2. e <= 0 => er <= 0
  <2>1. 0 * r = 0
    OBVIOUS
  <2> QED  BY <2>1, TimesMonotonic
<1>3. e <= d + 1 => er <= dr + r
  BY TimesMonotonic, TimesSuccessor
<1>4. e <= d => er <= dr
  BY TimesMonotonic
<1> HIDE DEF dr, er
<1>5. /\ e <= 0 => er + 1 <= n + 1
      /\ e <= d + 1 /\ u = r => er + 1 <= n + 1
      /\ e <= d => er + (u + 1) <= n + 1
  BY <1>1, <1>2, <1>3, <1>4
<1> QED  BY <1>5 DEF er

(* What is still unused of the current tick pays for the next borrowing.   *)
DriftInv ==
    (lastTimeTick - latest) * (maxSeqNumber - minSeqNumber + 1)
        + (currentSeqNumber - minSeqNumber) <= issued

IInv == TypeOK /\ WorkerInv

LEMMA AcceptedOptions ==
    ASSUME NEW o \in OptionChoices, Accepted(o)
    PROVE  /\ 2^o.SeqBitLength \in Nat \ {0}
           /\ EffectiveMax(o) \in Nat
           /\ o.MinSeqNumber \in Nat
           /\ o.MinSeqNumber <= EffectiveMax(o)
           /\ EffectiveMax(o) < 2^o.SeqBitLength
<1>1. /\ 2^o.SeqBitLength \in Nat \ {0}
      /\ o.MaxSeqNumber \in Nat
      /\ o.MinSeqNumber \in Nat
  BY OptionAssumption, PowerAssumption DEF Accepted
<1> DEFINE r == 2^o.SeqBitLength
<1>2. /\ o.MaxSeqNumber <= r - 1
      /\ o.MinSeqNumber <= EffectiveMax(o)
      /\ EffectiveMax(o) = IF o.MaxSeqNumber = 0 THEN r - 1 ELSE o.MaxSeqNumber
  BY DEF Accepted, EffectiveMax
<1>3. r \in Nat \ {0}
  BY <1>1
<1> HIDE DEF r
<1>4. EffectiveMax(o) \in Nat /\ EffectiveMax(o) < r
  BY <1>1, <1>2, <1>3
<1> QED  BY <1>1, <1>2, <1>4 DEF r

LEMMA InitIInv == Init => IInv /\ DriftInv
<1> SUFFICES ASSUME Init
             PROVE  IInv /\ DriftInv
  OBVIOUS
<1>1. PICK o \in OptionChoices : /\ Accepted(o)
                                 /\ seqRange = 2^o.SeqBitLength
                                 /\ maxSeqNumber = EffectiveMax(o)
                                 /\ minSeqNumber = o.MinSeqNumber
  BY DEF Init
<1>2. /\ seqRange \in Nat \ {0}
      /\ minSeqNumber \in Nat /\ maxSeqNumber \in Nat
      /\ minSeqNumber <= maxSeqNumber
      /\ maxSeqNumber < seqRange
  BY <1>1, AcceptedOptions
<1>3. /\ lastTimeTick = 0 /\ latest = 0 /\ issued = 0 /\ id = -1
      /\ currentSeqNumber = minSeqNumber
  BY DEF Init
<1>4. lastTimeTick * seqRange = 0
  BY <1>2, <1>3
<1>5. TypeOK
  BY <1>2, <1>3 DEF TypeOK
<1>6. WorkerInv
  BY <1>2, <1>3, <1>4 DEF WorkerInv
<1>7. DriftInv
  BY <1>2, <1>3 DEF DriftInv
<1> QED  BY <1>5, <1>6, <1>7 DEF IInv

(* The three branches of a call, with what the ID is compared to.          *)
LEMMA StepShape ==
    ASSUME IInv, NEW tick \in Ticks, NextId(tick)
    PROVE  \E seq \in minSeqNumber..maxSeqNumber :
              /\ lastTimeTick' \in Nat
              /\ currentSeqNumber' = seq + 1
              /\ id' = lastTimeTick' * seqRange + seq
              /\ \/ lastTimeTick' > lastTimeTick
                 \/ lastTimeTick' = lastTimeTick /\ seq = currentSeqNumber
<1> USE TickAssumption DEF IInv, TypeOK, WorkerInv, NextId, TickAndSeq,
                           NewTick, Exhausted, calculateId
<1>1. CASE NewTick(tick)
  BY <1>1
<1>2. CASE ~NewTick(tick) /\ Exhausted
  BY <1>2
<1>3. CASE ~NewTick(tick) /\ ~Exhausted
  BY <1>3
<1> QED  BY <1>1, <1>2, <1>3

LEMMA StepIInv ==
    ASSUME IInv, NEW tick \in Ticks, NextId(tick)
    PROVE  IInv' /\ id' > id
<1>1. PICK seq \in minSeqNumber..maxSeqNumber :
              /\ lastTimeTick' \in Nat
              /\ currentSeqNumber' = seq + 1
              /\ id' = lastTimeTick' * seqRange + seq
              /\ \/ lastTimeTick' > lastTimeTick
                 \/ lastTimeTick' = lastTimeTick /\ seq = currentSeqNumber
  BY StepShape
<1>2. /\ UNCHANGED <<seqRange, minSeqNumber, maxSeqNumber>>
      /\ latest' \in Nat /\ issued' \in Nat
  BY TickAssumption DEF IInv, TypeOK, NextId
<1>3. lastTimeTick' * seqRange \in Int
  BY <1>1 DEF IInv, TypeOK
<1>4. TypeOK'
  BY <1>1, <1>2, <1>3 DEF IInv, TypeOK
<1>5. WorkerInv'
  <2> DEFINE base == lastTimeTick' * seqRange
  <2>1. /\ base \in Int
        /\ id' = base + seq
        /\ currentSeqNumber' = seq + 1 /\ seq \in Int
    BY <1>1, <1>3 DEF IInv, TypeOK
  <2>2. id' < base + currentSeqNumber'
    <3> HIDE DEF base
    <3> QED  BY <2>1
  <2>3. base = lastTimeTick' * seqRange'
    BY <1>2
  <2>4. id' < lastTimeTick' * seqRange' + currentSeqNumber'
    <3> HIDE DEF base
    <3> QED  BY <2>2, <2>3
  <2>5. /\ minSeqNumber' <= maxSeqNumber'
        /\ maxSeqNumber' < seqRange'
        /\ currentSeqNumber' \in minSeqNumber'..(maxSeqNumber' + 1)
    BY <1>1, <1>2 DEF IInv, TypeOK, WorkerInv
  <2> QED  BY <2>4, <2>5 DEF WorkerInv
<1>6. lastTimeTick * seqRange + currentSeqNumber <= id'
  <2>1. CASE lastTimeTick' > lastTimeTick
    <3>1. currentSeqNumber <= seqRange /\ seq \in Nat
      BY DEF IInv, TypeOK, WorkerInv
    <3>2. lastTimeTick + 1 <= lastTimeTick'
      BY <1>1, <2>1 DEF IInv, TypeOK
    <3> QED  BY <1>1, <3>1, <3>2, LaterTick DEF IInv, TypeOK
  <2>2. CASE lastTimeTick' = lastTimeTick /\ seq = currentSeqNumber
    <3>1. id' = lastTimeTick * seqRange + currentSeqNumber
      BY <1>1, <2>2
    <3>2. id' \in Int
      BY <1>4 DEF TypeOK
    <3> QED  BY <3>1, <3>2
  <2> QED  BY <1>1, <2>1, <2>2
<1>7. id' > id
  <2> DEFINE top == lastTimeTick * seqRange + currentSeqNumber
  <2>1. top \in Int /\ top <= id' /\ id < top
    BY <1>6 DEF IInv, TypeOK, WorkerInv
  <2> HIDE DEF top
  <2> QED  BY <1>4, <2>1 DEF IInv, TypeOK
<1> QED  BY <1>4, <1>5, <1>7 DEF IInv

LEMMA StutterIInv == IInv /\ UNCHANGED vars => IInv'
  BY DEF IInv, TypeOK, WorkerInv, vars

(* Types and the strengthening hold for any options setOptions accepts.    *)
THEOREM WorkerCorrect == Spec => [](TypeOK /\ WorkerInv)
<1>1. IInv /\ [Next]_vars => IInv'
  BY StepIInv, StutterIInv DEF Next
<1> QED
  BY <1>1, InitIInv, PTL DEF Spec, IInv

(* IDs increase from call to call, for any clock, so none is issued twice. *)
THEOREM IdsAreUnique == Spec => IdsIncrease
<1>1. IInv /\ [Next]_vars => [issued' > issued => id' > id]_vars
  BY StepIInv DEF Next, vars
<1> QED
  BY <1>1, WorkerCorrect, PTL DEF Spec, IdsIncrease, IInv

LEMMA StepDrift ==
    ASSUME IInv, DriftInv, NEW tick \in Ticks, NextId(tick)
    PROVE  DriftInv'
<1> DEFINE r == maxSeqNumber - minSeqNumber + 1
           d == lastTimeTick - latest
           e == lastTimeTick' - latest'
           u == currentSeqNumber - minSeqNumber
<1>1. /\ r \in Nat /\ d \in Int /\ u \in Nat /\ issued \in Nat
      /\ d * r + u <= issued
  BY DEF IInv, TypeOK, WorkerInv, DriftInv
<1>2. e \in Int /\ latest' >= latest /\ latest' >= tick /\ tick \in Int
      /\ latest' \in Nat
  <2>1. lastTimeTick' \in Int
    BY StepShape
  <2> QED
    BY <2>1, TickAssumption DEF IInv, TypeOK, NextId
<1>3. /\ e <= 0 => e * r + 1 <= issued + 1
      /\ e <= d + 1 /\ u = r => e * r + 1 <= issued + 1
      /\ e <= d => e * r + (u + 1) <= issued + 1
  <2> HIDE DEF r, d, e, u
  <2> QED  BY <1>1, <1>2, DriftStep
<1>4. \/ e <= 0 /\ currentSeqNumber' = minSeqNumber + 1
      \/ e <= d + 1 /\ u = r /\ currentSeqNumber' = minSeqNumber + 1
      \/ e <= d /\ currentSeqNumber' = currentSeqNumber + 1
  BY <1>2 DEF NextId, TickAndSeq, NewTick, Exhausted, IInv, TypeOK, WorkerInv
<1>5. \/ e <= 0 /\ currentSeqNumber' - minSeqNumber = 1
      \/ e <= d + 1 /\ u = r /\ currentSeqNumber' - minSeqNumber = 1
      \/ e <= d /\ currentSeqNumber' - minSeqNumber = u + 1
  BY <1>4 DEF IInv, TypeOK
<1>6. e * r + (currentSeqNumber' - minSeqNumber) <= issued + 1
  <2> HIDE DEF r, d, e, u
  <2> QED  BY <1>3, <1>5
<1>7. minSeqNumber' = minSeqNumber /\ maxSeqNumber' = maxSeqNumber
      /\ issued' = issued + 1
  BY DEF NextId
<1> QED  BY <1>6, <1>7 DEF DriftInv

(* However fast IDs are drawn, the tick runs ahead of the clock by no more *)
(* than the numbers drawn pay for.                                         *)
THEOREM DriftIsBounded == Spec => []DriftBounded
<1>1. IInv /\ DriftInv /\ [Next]_vars => DriftInv'
  <2>1. UNCHANGED vars /\ DriftInv => DriftInv'
    BY DEF vars, DriftInv
  <2> QED  BY <2>1, StepDrift DEF Next
<1>2. IInv /\ DriftInv => DriftBounded
  <2> SUFFICES ASSUME IInv, DriftInv
               PROVE  DriftBounded
    OBVIOUS
  <2> DEFINE m == (lastTimeTick - latest) * (maxSeqNumber - minSeqNumber + 1)
  <2>1. m \in Int /\ m + (currentSeqNumber - minSeqNumber) <= issued
    BY DEF IInv, TypeOK, DriftInv
  <2> HIDE DEF m
  <2>2. m <= issued
    BY <2>1 DEF IInv, TypeOK, WorkerInv
  <2> QED  BY <2>2 DEF m, DriftBounded
<1> QED
  BY <1>1, <1>2, InitIInv, WorkerCorrect, PTL DEF Spec, IInv

-----------------------------------------------------------------------------
(* Buffer.  The bytes q stand in the array b between positions r and w.    *)
Holds(b, r, w, q) ==
    /\ b \in Seq(Bytes) /\ q \in Seq(Bytes) /\ r \in Nat /\ w \in Nat
    /\ r + Len(q) = w /\ w <= Len(b)
    /\ \A k \in 1..Len(q) : q[k] = b[r + k]

(* Reading finds the first of them.                                        *)
Finds(b, r, q, len) == SubSeq(b, r + 1, r + len) = SubSeq(q, 1, len)
LEMMA HoldsPeek ==
    ASSUME NEW b, NEW r, NEW w, NEW q, Holds(b, r, w, q), NEW len \in Nat, len <= w - r
    PROVE  Finds(b, r, q, len)
<1> DEFINE s == SubSeq(b, r + 1, r + len)
           t == SubSeq(q, 1, len)
<1>1. b \in Seq(Bytes) /\ q \in Seq(Bytes) /\ r \in Nat /\ w \in Nat
      /\ r + Len(q) = w /\ w <= Len(b)
  BY DEF Holds
<1>2. Len(b) \in Nat /\ Len(q) \in Nat
  BY <1>1
<1>3. s \in Seq(Bytes) /\ Len(s) = len /\ \A k \in 1..len : s[k] = b[r + k]
  BY <1>1, <1>2
<1>4. t \in Seq(Bytes) /\ Len(t) = len /\ \A k \in 1..len : t[k] = q[k]
  BY <1>1, <1>2
<1>5. \A k \in 1..len : q[k] = b[r + k]
  BY <1>1, <1>2 DEF Holds
<1> HIDE DEF s, t
<1>6. s = t
  BY <1>3, <1>4, <1>5, SeqEqual
<1> QED  BY <1>6 DEF s, t, Finds

LEMMA HoldsAfterTake ==
    ASSUME NEW b, NEW r, NEW w, NEW q, Holds(b, r, w, q), NEW len \in Nat, len <= w - r
    PROVE  Holds(b, r + len, w, SubSeq(q, len + 1, Len(q)))
<1> DEFINE t == SubSeq(q, len + 1, Len(q))
<1>1. b \in Seq(Bytes) /\ q \in Seq(Bytes) /\ r \in Nat /\ w \in Nat
      /\ r + Len(q) = w /\ w <= Len(b) /\ Len(b) \in Nat /\ Len(q) \in Nat
  BY DEF Holds
<1>2. t \in Seq(Bytes) /\ Len(t) = Len(q) - len
      /\ \A k \in 1..Len(q) - len : t[k] = q[len + k]
  BY <1>1
<1>3. \A k \in 1..Len(q) - len : q[len + k] = b[r + (len + k)]
  BY <1>1 DEF Holds
<1>4. \A k \in 1..Len(q) - len : t[k] = b[(r + len) + k]
  BY <1>1, <1>2, <1>3
<1> HIDE DEF t
<1>5. Holds(b, r + len, w, t)
  BY <1>1, <1>2, <1>4 DEF Holds
<1> QED  BY <1>5 DEF t

(* Writing behind the bytes appends to them.                               *)
LEMMA HoldsAfterWrite ==
    ASSUME NEW b, NEW r, NEW w, NEW q, Holds(b, r, w, q),
           NEW s \in Seq(Bytes), w + Len(s) <= Len(b)
    PROVE  Holds(B!Write(b, w, s), r, w + Len(s), q \o s)
<1> DEFINE c == B!Write(b, w, s)
           t == q \o s
<1>1. b \in Seq(Bytes) /\ q \in Seq(Bytes) /\ r \in Nat /\ w \in Nat
      /\ r + Len(q) = w /\ w <= Len(b) /\ Len(b) \in Nat /\ Len(q) \in Nat /\ Len(s) \in Nat
  BY DEF Holds
<1>2. c = [k \in 1..Len(b) |-> IF k \in w + 1..w + Len(s) THEN s[k - w] ELSE b[k]]
  BY DEF B!Write
<1>3. \A k \in 1..Len(b) : c[k] = IF k \in w + 1..w + Len(s) THEN s[k - w] ELSE b[k]
  BY <1>2
<1>4. c \in Seq(Bytes) /\ Len(c) = Len(b)
  <2>1. \A k \in 1..Len(b) : b[k] \in Bytes
    BY <1>1
  <2>2. \A k \in 1..Len(b) : c[k] \in Bytes
    <3> TAKE k \in 1..Len(b)
    <3>1. CASE k \in w + 1..w + Len(s)
      <4>1. k - w \in 1..Len(s)
        BY <1>1, <3>1
      <4> QED  BY <4>1, <1>3, <3>1
    <3>2. CASE k \notin w + 1..w + Len(s)
      BY <2>1, <1>3, <3>2
    <3> QED  BY <3>1, <3>2
  <2>3. c \in [1..Len(b) -> Bytes]
    BY <1>2, <2>2
  <2> QED  BY <1>1, <2>3
<1>5. t \in Seq(Bytes) /\ Len(t) = Len(q) + Len(s)
      /\ \A k \in 1..Len(q) + Len(s) : t[k] = IF k <= Len(q) THEN q[k] ELSE s[k - Len(q)]
  BY <1>1
<1> HIDE DEF c, t
<1>6. \A k \in 1..Len(q) + Len(s) : t[k] = c[r + k]
  <2> TAKE k \in 1..Len(q) + Len(s)
  <2>1. r + k \in 1..Len(b)
    BY <1>1
  <2>2. CASE k <= Len(q)
    <3>1. r + k \notin w + 1..w + Len(s) /\ k \in 1..Len(q)
      BY <1>1, <2>2
    <3>2. q[k] = b[r + k]
      BY <3>1 DEF Holds
    <3> QED  BY <1>3, <1>5, <2>1, <2>2, <3>1, <3>2
  <2>3. CASE k > Len(q)
    <3>1. r + k \in w + 1..w + Len(s) /\ ~(k <= Len(q))
      BY <1>1, <2>3
    <3>2. (r + k) - w = k - Len(q)
      BY <1>1
    <3>3. c[r + k] = s[(r + k) - w] /\ t[k] = s[k - Len(q)]
      BY <1>3, <1>5, <2>1, <3>1
    <3> QED  BY <3>2, <3>3
  <2> QED  BY <1>1, <2>2, <2>3
<1>7. r + Len(t) = w + Len(s) /\ w + Len(s) <= Len(c) /\ w + Len(s) \in Nat
  <2>1. Len(t) = Len(q) + Len(s)
    BY <1>5
  <2>2. Len(c) = Len(b)
    BY <1>4
  <2>3. r + (Len(q) + Len(s)) = w + Len(s) /\ w + Len(s) \in Nat
    BY <1>1
  <2> QED  BY <2>1, <2>2, <2>3
<1>8. Holds(c, r, w + Len(s), t)
  BY <1>1, <1>4, <1>5, <1>6, <1>7 DEF Holds
<1> QED  BY <1>8 DEF c, t

(* Both ways of expandBuffer leave the bytes as they were: growing, and    *)
(* moving them to the front.                                               *)
LEMMA HoldsGrown ==
    ASSUME NEW b, NEW r, NEW w, NEW q, Holds(b, r, w, q), NEW n \in Nat
    PROVE  Holds(b \o B!Filled(n), r, w, q) /\ Len(b \o B!Filled(n)) = Len(b) + n
<1> DEFINE f == B!Filled(n)
           c == b \o f
<1>1. b \in Seq(Bytes) /\ q \in Seq(Bytes) /\ r \in Nat /\ w \in Nat
      /\ r + Len(q) = w /\ w <= Len(b) /\ Len(b) \in Nat /\ Len(q) \in Nat
  BY DEF Holds
<1>2. f \in Seq(Bytes) /\ Len(f) = n
  <2>1. B!Zero \in Bytes
    BY BufferAssumption DEF B!Zero
  <2>2. f \in [1..n -> Bytes]
    BY <2>1 DEF B!Filled
  <2> QED  BY <2>2
<1> HIDE DEF f
<1>3. c \in Seq(Bytes) /\ Len(c) = Len(b) + n /\ \A k \in 1..Len(b) : c[k] = b[k]
  BY <1>1, <1>2
<1> HIDE DEF c
<1>4. \A k \in 1..Len(q) : q[k] = c[r + k]
  <2> TAKE k \in 1..Len(q)
  <2>1. r + k \in 1..Len(b) /\ q[k] = b[r + k]
    BY <1>1 DEF Holds
  <2> QED  BY <1>3, <2>1
<1>5. Holds(c, r, w, q) /\ Len(c) = Len(b) + n
  BY <1>1, <1>3, <1>4 DEF Holds
<1> QED  BY <1>5 DEF c, f

LEMMA HoldsMoved ==
    ASSUME NEW b, NEW r, NEW w, NEW q, Holds(b, r, w, q)
    PROVE  LET c == B!Write(b, 0, SubSeq(b, r + 1, r + (w - r)))
           IN  Holds(c, 0, w - r, q) /\ Len(c) = Len(b)
<1> DEFINE s == SubSeq(b, r + 1, r + (w - r))
           c == B!Write(b, 0, s)
<1>1. b \in Seq(Bytes) /\ q \in Seq(Bytes) /\ r \in Nat /\ w \in Nat
      /\ r + Len(q) = w /\ w <= Len(b) /\ Len(b) \in Nat /\ Len(q) \in Nat
      /\ w - r = Len(q)
  BY DEF Holds
<1>2. s = q
  <2>1. s = SubSeq(q, 1, w - r)
    BY <1>1, HoldsPeek DEF Finds
  <2>2. SubSeq(q, 1, Len(q)) = q
    BY <1>1
  <2> QED  BY <1>1, <2>1, <2>2
<1> HIDE DEF s
<1>3. Holds(b, 0, 0, <<>>)
  BY <1>1 DEF Holds
<1>4. Holds(c, 0, 0 + Len(q), <<>> \o q)
  <2>1. 0 + Len(q) <= Len(b)
    BY <1>1
  <2>2. Holds(B!Write(b, 0, q), 0, 0 + Len(q), <<>> \o q)
    BY <1>1, <1>3, <2>1, HoldsAfterWrite
  <2> QED  BY <1>2, <2>2
<1>5. <<>> \o q = q /\ 0 + Len(q) = w - r
  BY <1>1
<1>6. Len(c) = Len(b)
  BY <1>1 DEF B!Write
<1> QED  BY <1>4, <1>5, <1>6 DEF s
-----------------------------------------------------------------------------
BufInv ==
    /\ Holds(buffer, readPos, writePos, waiting)
    /\ ret.is = ret.due

LEMMA InitBufInv == B!BufInit => BufInv
<1> SUFFICES ASSUME B!BufInit PROVE BufInv
  OBVIOUS
<1>1. B!Zero \in Bytes
  BY BufferAssumption DEF B!Zero
<1>2. buffer \in [1..InitSize -> Bytes]
  BY <1>1 DEF B!BufInit, B!Filled
<1>3. buffer \in Seq(Bytes) /\ Len(buffer) \in Nat
  BY <1>2, BufferAssumption
<1>4. waiting = <<>> /\ readPos = 0 /\ writePos = 0 /\ ret.is = ret.due
  BY DEF B!BufInit
<1> QED  BY <1>3, <1>4 DEF BufInv, Holds

(* expandBuffer makes the room that was asked for and keeps the bytes.     *)
LEMMA ExpandedHolds ==
    ASSUME BufInv, NEW len \in Nat, B!WritableBytes < len
    PROVE  LET e == B!Expanded(len)
           IN  Holds(e.array, e.read, e.write, waiting) /\ e.write + len <= Len(e.array)
<1> DEFINE e == B!Expanded(len)
<1>1. /\ buffer \in Seq(Bytes) /\ waiting \in Seq(Bytes) /\ readPos \in Nat /\ writePos \in Nat
      /\ Len(buffer) \in Nat /\ Len(waiting) \in Nat
      /\ readPos + Len(waiting) = writePos /\ writePos <= Len(buffer)
  BY DEF BufInv, Holds
<1>2. Holds(buffer, readPos, writePos, waiting)
  BY DEF BufInv
<1>3. CASE B!WritableBytes + readPos < len
  <2> DEFINE n == writePos + len - Len(buffer)
  <2>1. n \in Nat
    BY <1>1, <1>3 DEF B!WritableBytes
  <2>2. e = [array |-> buffer \o B!Filled(n), read |-> readPos, write |-> writePos]
    BY <1>3 DEF B!Expanded
  <2>3. Holds(buffer \o B!Filled(n), readPos, writePos, waiting)
        /\ Len(buffer \o B!Filled(n)) = Len(buffer) + n
    BY <1>2, <2>1, HoldsGrown
  <2>4. Len(buffer) + n = writePos + len
    BY <1>1
  <2> HIDE DEF n
  <2>5. Holds(e.array, e.read, e.write, waiting) /\ e.write + len = Len(e.array)
    BY <2>2, <2>3, <2>4
  <2> QED  BY <1>1, <2>2, <2>5
<1>4. CASE ~(B!WritableBytes + readPos < len)
  <2> DEFINE c == B!Write(buffer, 0, SubSeq(buffer, readPos + 1,
                                            readPos + (writePos - readPos)))
  <2>1. e = [array |-> c, read |-> 0, write |-> writePos - readPos]
    BY <1>4 DEF B!Expanded, B!Peek, B!ReadableBytes
  <2>2. Holds(c, 0, writePos - readPos, waiting) /\ Len(c) = Len(buffer)
    BY <1>2, HoldsMoved
  <2> HIDE DEF c
  <2>3. (writePos - readPos) + len <= Len(buffer)
    BY <1>1, <1>4 DEF B!WritableBytes
  <2> QED  BY <2>1, <2>2, <2>3
<1> QED  BY <1>3, <1>4

LEMMA AppendBufInv ==
    ASSUME BufInv, NEW str \in Strings, B!AppendBytes(str)
    PROVE  BufInv'
<1>1. str \in Seq(Bytes) /\ Len(str) \in Nat
  BY BufferAssumption
<1> DEFINE room == [array |-> buffer, read |-> readPos, write |-> writePos]
           e == IF B!WritableBytes < Len(str) THEN B!Expanded(Len(str)) ELSE room
<1>2. /\ buffer' = B!Write(e.array, e.write, str) /\ readPos' = e.read
      /\ writePos' = e.write + Len(str) /\ waiting' = waiting \o str /\ ret' = ret
  BY DEF B!AppendBytes
<1>3. Holds(e.array, e.read, e.write, waiting) /\ e.write + Len(str) <= Len(e.array)
  <2>1. CASE B!WritableBytes < Len(str)
    BY <1>1, <2>1, ExpandedHolds
  <2>2. CASE ~(B!WritableBytes < Len(str))
    <3>1. Holds(buffer, readPos, writePos, waiting)
      BY DEF BufInv
    <3>2. writePos + Len(str) <= Len(buffer)
      BY <1>1, <2>2 DEF B!WritableBytes, BufInv, Holds
    <3> QED  BY <2>2, <3>1, <3>2
  <2> QED  BY <2>1, <2>2
<1> HIDE DEF e
<1>4. Holds(B!Write(e.array, e.write, str), e.read, e.write + Len(str), waiting \o str)
  BY <1>1, <1>3, HoldsAfterWrite
<1>5. ret'.is = ret'.due
  BY <1>2 DEF BufInv
<1> QED  BY <1>2, <1>4, <1>5 DEF BufInv

LEMMA RetrieveBufInv ==
    ASSUME BufInv, NEW len \in Nat, B!Retrieve(len)
    PROVE  BufInv'
<1>1. Holds(buffer, readPos, writePos, waiting) /\ len <= writePos - readPos
  BY DEF BufInv, B!Retrieve, B!ReadableBytes
<1>2. /\ buffer' = buffer /\ readPos' = readPos + len /\ writePos' = writePos
      /\ waiting' = SubSeq(waiting, len + 1, Len(waiting))
      /\ ret' = [is |-> SubSeq(buffer, readPos + 1, readPos + len),
                 due |-> SubSeq(waiting, 1, len)]
  BY DEF B!Retrieve, B!Take, B!Peek
<1>3. Holds(buffer, readPos + len, writePos, SubSeq(waiting, len + 1, Len(waiting)))
  BY <1>1, HoldsAfterTake
<1>4. Finds(buffer, readPos, waiting, len)
  BY <1>1, HoldsPeek
<1>5. ret'.is = ret'.due
  BY <1>2, <1>4 DEF Finds
<1> QED  BY <1>2, <1>3, <1>5 DEF BufInv

LEMMA UntilBufInv ==
    ASSUME BufInv, NEW end \in Strings, B!RetrieveUntil(end)
    PROVE  BufInv'
<1> DEFINE text == B!Peek(B!ReadableBytes)
           P    == B!Ends(text, end)
<1>1. CASE P # {} /\ B!Retrieve(B!First(P))
  <2>1. P \subseteq Nat
    BY BufferAssumption DEF B!Ends
  <2>2. \E p \in P : \A q \in P : p <= q
    BY <1>1, <2>1, Least
  <2>3. B!First(P) \in P
    BY <2>2 DEF B!First
  <2>4. B!First(P) \in Nat
    BY <2>1, <2>3
  <2> QED  BY <1>1, <2>4, RetrieveBufInv
<1>2. CASE /\ P = {} /\ ret' = [is |-> <<>>, due |-> <<>>]
           /\ UNCHANGED <<buffer, readPos, writePos, waiting>>
  <2>1. ret'.is = ret'.due
    BY <1>2
  <2>2. buffer' = buffer /\ readPos' = readPos /\ writePos' = writePos /\ waiting' = waiting
    BY <1>2
  <2> QED  BY <2>1, <2>2 DEF BufInv
<1> QED  BY <1>1, <1>2 DEF B!RetrieveUntil

(* Clear, RetrieveAll and MoveOut leave an empty Buffer.                   *)
LEMMA EmptiedBufInv ==
    ASSUME BufInv, B!Clear \/ B!RetrieveAll \/ B!MoveOut
    PROVE  BufInv'
<1>1. readPos' = 0 /\ writePos' = 0 /\ waiting' = <<>>
  BY DEF B!Clear, B!RetrieveAll, B!MoveOut
<1>2. buffer' = buffer \/ buffer' = <<>>
  BY DEF B!Clear, B!RetrieveAll, B!MoveOut
<1>3. buffer' \in Seq(Bytes) /\ Len(buffer') \in Nat
  <2>1. buffer \in Seq(Bytes)
    BY DEF BufInv, Holds
  <2>2. CASE buffer' = buffer
    BY <2>1, <2>2
  <2>3. CASE buffer' = <<>>
    BY <2>3
  <2> QED  BY <1>2, <2>2, <2>3
<1>4. Holds(buffer', 0, 0, <<>>)
  BY <1>3 DEF Holds
<1>5. ret'.is = ret'.due
  <2>1. CASE ret' = ret
    BY <2>1 DEF BufInv
  <2>2. CASE B!RetrieveAll
    <3>1. ret'.is = SubSeq(buffer, readPos + 1, readPos + (writePos - readPos))
          /\ ret'.due = waiting
      BY <2>2 DEF B!RetrieveAll, B!Peek, B!ReadableBytes
    <3>2. writePos - readPos = Len(waiting) /\ Len(waiting) \in Nat /\ waiting \in Seq(Bytes)
      BY DEF BufInv, Holds
    <3>3. SubSeq(waiting, 1, Len(waiting)) = waiting
      BY <3>2
    <3>4. Holds(buffer, readPos, writePos, waiting)
      BY DEF BufInv
    <3>5. writePos - readPos \in Nat /\ writePos - readPos <= writePos - readPos
      BY <3>2
    <3>6. Finds(buffer, readPos, waiting, writePos - readPos)
      BY <3>4, <3>5, HoldsPeek
    <3> QED  BY <3>1, <3>2, <3>3, <3>6 DEF Finds
  <2> QED  BY <2>1, <2>2 DEF B!Clear, B!MoveOut
<1> QED  BY <1>1, <1>4, <1>5 DEF BufInv

LEMMA NextBufInv == BufInv /\ [B!BufNext]_bufferVars => BufInv'
<1> SUFFICES ASSUME BufInv, [B!BufNext]_bufferVars PROVE BufInv'
  OBVIOUS
<1>1. ASSUME NEW str \in Strings, B!AppendBytes(str) PROVE BufInv'
  BY <1>1, AppendBufInv
<1>2. ASSUME NEW str \in Strings, B!RetrieveUntil(str) PROVE BufInv'
  BY <1>2, UntilBufInv
<1>3. ASSUME NEW len \in 0..Len(buffer), B!Retrieve(len) PROVE BufInv'
  BY <1>3, RetrieveBufInv
<1>4. CASE B!Clear \/ B!RetrieveAll \/ B!MoveOut
  BY <1>4, EmptiedBufInv
<1>5. CASE UNCHANGED bufferVars
  BY <1>5 DEF bufferVars, BufInv
<1> QED  BY <1>1, <1>2, <1>3, <1>4, <1>5 DEF B!BufNext

LEMMA BytesAreInOrder == BufInv => B!BytesInOrder
<1> SUFFICES ASSUME BufInv PROVE B!BytesInOrder
  OBVIOUS
<1>1. Holds(buffer, readPos, writePos, waiting) /\ ret.is = ret.due
  BY DEF BufInv
<1>2. waiting \in Seq(Bytes) /\ Len(waiting) \in Nat /\ writePos - readPos = Len(waiting)
      /\ readPos <= writePos /\ writePos <= Len(buffer)
  BY <1>1 DEF Holds
<1>3. SubSeq(waiting, 1, Len(waiting)) = waiting
  BY <1>2
<1>4. writePos - readPos \in Nat /\ writePos - readPos <= writePos - readPos
  BY <1>2
<1>5. Finds(buffer, readPos, waiting, writePos - readPos)
  BY <1>1, <1>4, HoldsPeek
<1> QED  BY <1>1, <1>2, <1>3, <1>5 DEF B!BytesInOrder, B!Peek, B!ReadableBytes, Finds

allVars == <<part, workerVars, restVars>>

LEMMA BufferSteps == [PartsNext]_allVars => [B!BufNext]_bufferVars
  BY DEF PartsNext, allVars, restVars, bufferVars

(* What Append and Prepend put in comes out of Buffer in that order,       *)
(* whatever is grown, moved and retrieved in between.                      *)
THEOREM BytesComeOutInOrder == PartsSpec => []BytesInOrder
<1>1. PartsInit => BufInv
  BY InitBufInv DEF PartsInit
<1>2. BufInv /\ [PartsNext]_allVars => BufInv'
  BY BufferSteps, NextBufInv
<1>3. BufInv => BytesInOrder
  BY BytesAreInOrder DEF BytesInOrder
<1> QED  BY <1>1, <1>2, <1>3, PTL DEF PartsSpec, allVars

-----------------------------------------------------------------------------
(* TcpManager.  Messages, and which of them Of picks.                      *)
Msgs == [from : Senders, way : {"queue", "direct", "none"}, size : Nat, n : Nat]

Wants(s, way, m) == m.from = s /\ m.way = way /\ m.size > 0

Picks(f, s, way, msgs) ==
    /\ f \in [0..Len(msgs) -> Seq(Msgs)] /\ f[0] = <<>>
    /\ \A n \in 1..Len(msgs) :
          f[n] = IF Wants(s, way, msgs[n]) THEN Append(f[n - 1], msgs[n]) ELSE f[n - 1]

LEMMA OfPicks ==
    ASSUME NEW s, NEW way, NEW msgs, msgs \in Seq(Msgs)
    PROVE  \E f : Picks(f, s, way, msgs) /\ T!Of(s, way, msgs) = f[Len(msgs)]
<1> DEFINE N == Len(msgs)
           D == Seq(Msgs)
           step == [x \in Nat \X D |-> IF x[1] + 1 \in 1..N /\ Wants(s, way, msgs[x[1] + 1])
                                       THEN Append(x[2], msgs[x[1] + 1]) ELSE x[2]]
<1>1. N \in Nat /\ \A n \in 1..N : msgs[n] \in Msgs
  OBVIOUS
<1>2. \A n \in Nat, q \in D :
         step[<<n, q>>] = IF n + 1 \in 1..N /\ Wants(s, way, msgs[n + 1])
                          THEN Append(q, msgs[n + 1]) ELSE q
  OBVIOUS
<1>3. step \in [Nat \X D -> D]
  <2>1. \A x \in Nat \X D : x[1] \in Nat /\ x[2] \in Seq(Msgs)
    BY Zenon
  <2>2. \A x \in Nat \X D :
           (IF x[1] + 1 \in 1..N /\ Wants(s, way, msgs[x[1] + 1])
            THEN Append(x[2], msgs[x[1] + 1]) ELSE x[2]) \in D
    BY <1>1, <2>1
  <2> QED  BY Zenon, <2>2
<1> HIDE DEF step
<1>4. <<>> \in D
  OBVIOUS
<1>5. PICK g : Computes(g, D, <<>>, step)
  BY <1>3, <1>4, Recursion
<1>6. g \in [Nat -> D] /\ g[0] = <<>>
      /\ \A n \in Nat : g[n + 1] = IF n + 1 \in 1..N /\ Wants(s, way, msgs[n + 1])
                                   THEN Append(g[n], msgs[n + 1]) ELSE g[n]
  <2>1. g \in [Nat -> D] /\ g[0] = <<>> /\ \A n \in Nat : g[n + 1] = step[<<n, g[n]>>]
    BY <1>5 DEF Computes
  <2>2. \A n \in Nat : g[n] \in D
    BY <2>1
  <2> QED  BY Zenon, <1>2, <2>1, <2>2
<1> HIDE DEF D
<1> DEFINE h == [n \in 0..N |-> g[n]]
           upto[n \in 0..Len(msgs)] ==
               IF n = 0 THEN <<>>
               ELSE IF msgs[n].from = s /\ msgs[n].way = way /\ msgs[n].size > 0
                    THEN Append(upto[n - 1], msgs[n]) ELSE upto[n - 1]
<1>7. \A n \in 1..N : g[n] = IF Wants(s, way, msgs[n]) THEN Append(g[n - 1], msgs[n])
                             ELSE g[n - 1]
  <2> TAKE n \in 1..N
  <2>1. n - 1 \in Nat /\ (n - 1) + 1 = n
    BY <1>1
  <2> QED  BY <1>6, <2>1
<1>8. h = [n \in 0..Len(msgs) |->
             IF n = 0 THEN <<>>
             ELSE IF msgs[n].from = s /\ msgs[n].way = way /\ msgs[n].size > 0
                  THEN Append(h[n - 1], msgs[n]) ELSE h[n - 1]]
  <2>1. \A n \in 0..N :
           g[n] = IF n = 0 THEN <<>>
                  ELSE IF msgs[n].from = s /\ msgs[n].way = way /\ msgs[n].size > 0
                       THEN Append(h[n - 1], msgs[n]) ELSE h[n - 1]
    <3> TAKE n \in 0..N
    <3>1. CASE n = 0
      BY <1>6, <3>1
    <3>2. CASE n # 0
      <4>1. n \in 1..N /\ n - 1 \in 0..N
        BY <1>1, <3>2
      <4>2. h[n - 1] = g[n - 1]
        BY <4>1
      <4> QED  BY <1>7, <3>2, <4>1, <4>2 DEF Wants
    <3> QED  BY <3>1, <3>2
  <2> QED  BY Zenon, <2>1
<1>9. \E f : f = [n \in 0..Len(msgs) |->
                    IF n = 0 THEN <<>>
                    ELSE IF msgs[n].from = s /\ msgs[n].way = way /\ msgs[n].size > 0
                         THEN Append(f[n - 1], msgs[n]) ELSE f[n - 1]]
  BY Zenon, <1>8
<1>10. upto = [n \in 0..Len(msgs) |->
                 IF n = 0 THEN <<>>
                 ELSE IF msgs[n].from = s /\ msgs[n].way = way /\ msgs[n].size > 0
                      THEN Append(upto[n - 1], msgs[n]) ELSE upto[n - 1]]
  BY Zenon, <1>9
<1>11. T!Of(s, way, msgs) = upto[N]
  BY Zenon DEF T!Of
<1> HIDE DEF upto, h
<1>12. DOMAIN upto = 0..N /\ upto[0] = <<>>
       /\ \A n \in 1..N : upto[n] = IF Wants(s, way, msgs[n]) THEN Append(upto[n - 1], msgs[n])
                                    ELSE upto[n - 1]
  <2>1. DOMAIN upto = 0..N
    BY Zenon, <1>10
  <2>2. \A n \in 0..N : upto[n] =
                 IF n = 0 THEN <<>>
                 ELSE IF msgs[n].from = s /\ msgs[n].way = way /\ msgs[n].size > 0
                      THEN Append(upto[n - 1], msgs[n]) ELSE upto[n - 1]
    BY Zenon, <1>10
  <2>3. 0 \in 0..N /\ \A n \in 1..N : n \in 0..N /\ n # 0
    BY <1>1
  <2> QED  BY <2>1, <2>2, <2>3 DEF Wants
<1> DEFINE Same == {n \in Nat : n <= N => upto[n] = g[n]}
<1>13. 0 \in Same
  BY <1>6, <1>12
<1>14. ASSUME NEW n \in Nat, n \in Same PROVE n + 1 \in Same
  <2> SUFFICES ASSUME n + 1 <= N PROVE upto[n + 1] = g[n + 1]
    OBVIOUS
  <2>1. n + 1 \in 1..N /\ (n + 1) - 1 = n /\ n <= N
    BY <1>1
  <2>2. upto[n] = g[n]
    BY <1>14, <2>1
  <2>3. upto[n + 1] = IF Wants(s, way, msgs[n + 1]) THEN Append(upto[n], msgs[n + 1]) ELSE upto[n]
    BY <1>12, <2>1
  <2>4. g[n + 1] = IF Wants(s, way, msgs[n + 1]) THEN Append(g[n], msgs[n + 1]) ELSE g[n]
    BY <1>6, <2>1
  <2> QED  BY <2>2, <2>3, <2>4
<1> HIDE DEF Same
<1>15. \A n \in Nat : n \in Same
  BY <1>13, <1>14, Induction
<1>16. \A n \in 0..N : upto[n] = g[n]
  BY <1>1, <1>15 DEF Same
<1>17. h \in [0..N -> Seq(Msgs)]
  BY <1>1, <1>6 DEF h, D
<1>18. \A n \in 0..N : h[n] = g[n]
  BY DEF h
<1>19. Picks(h, s, way, msgs)
  <2>1. h[0] = <<>>
    BY <1>1, <1>6, <1>18
  <2>2. ASSUME NEW n \in 1..N
        PROVE  h[n] = IF Wants(s, way, msgs[n]) THEN Append(h[n - 1], msgs[n]) ELSE h[n - 1]
    <3>1. n \in 0..N /\ n - 1 \in 0..N
      BY <1>1
    <3> QED  BY <1>7, <1>18, <3>1
  <2> QED  BY <1>17, <2>1, <2>2 DEF Picks
<1>20. T!Of(s, way, msgs) = h[N]
  BY <1>1, <1>11, <1>16, <1>18
<1> QED  BY <1>19, <1>20

LEMMA PicksAgree ==
    ASSUME NEW s, NEW way, NEW x, x \in Seq(Msgs), NEW y, y \in Seq(Msgs), Len(x) <= Len(y),
           \A n \in 1..Len(x) : x[n] = y[n],
           NEW f, Picks(f, s, way, x), NEW g, Picks(g, s, way, y)
    PROVE  f[Len(x)] = g[Len(x)]
<1> DEFINE N == Len(x)
           Same == {n \in Nat : n <= N => f[n] = g[n]}
<1>1. N \in Nat /\ Len(y) \in Nat /\ N <= Len(y)
  OBVIOUS
<1>2. 0 \in Same
  BY DEF Picks
<1>3. ASSUME NEW n \in Nat, n \in Same PROVE n + 1 \in Same
  <2> SUFFICES ASSUME n + 1 <= N PROVE f[n + 1] = g[n + 1]
    OBVIOUS
  <2>1. n + 1 \in 1..N /\ n + 1 \in 1..Len(y) /\ (n + 1) - 1 = n /\ n <= N
    BY <1>1
  <2>2. f[n] = g[n] /\ x[n + 1] = y[n + 1]
    BY <1>3, <2>1
  <2>3. f[n + 1] = IF Wants(s, way, x[n + 1]) THEN Append(f[n], x[n + 1]) ELSE f[n]
    BY <2>1 DEF Picks
  <2>4. g[n + 1] = IF Wants(s, way, y[n + 1]) THEN Append(g[n], y[n + 1]) ELSE g[n]
    BY <2>1 DEF Picks
  <2> QED  BY <2>2, <2>3, <2>4
<1> HIDE DEF Same
<1>4. N \in Same
  BY <1>1, <1>2, <1>3, Induction
<1> QED  BY <1>1, <1>4 DEF Same

LEMMA OfSeq ==
    ASSUME NEW s, NEW way, NEW x, x \in Seq(Msgs)
    PROVE  T!Of(s, way, x) \in Seq(Msgs) /\ T!Of(s, way, <<>>) = <<>>
<1>1. PICK f : Picks(f, s, way, x) /\ T!Of(s, way, x) = f[Len(x)]
  BY OfPicks
<1>2. f[Len(x)] \in Seq(Msgs)
  <2>1. Len(x) \in 0..Len(x)
    OBVIOUS
  <2> QED  BY <1>1, <2>1 DEF Picks
<1>3. <<>> \in Seq(Msgs) /\ Len(<<>>) = 0
  OBVIOUS
<1>4. PICK h : Picks(h, s, way, <<>>) /\ T!Of(s, way, <<>>) = h[Len(<<>>)]
  BY <1>3, OfPicks
<1> QED  BY <1>1, <1>2, <1>3, <1>4 DEF Picks

LEMMA OfAppend ==
    ASSUME NEW s, NEW way, NEW x, x \in Seq(Msgs), NEW m \in Msgs
    PROVE  T!Of(s, way, Append(x, m)) = IF Wants(s, way, m) THEN Append(T!Of(s, way, x), m)
                                        ELSE T!Of(s, way, x)
<1> DEFINE y == Append(x, m)
<1>1. /\ y \in Seq(Msgs) /\ Len(y) = Len(x) + 1 /\ Len(x) \in Nat /\ y[Len(x) + 1] = m
      /\ \A n \in 1..Len(x) : x[n] = y[n]
  OBVIOUS
<1> HIDE DEF y
<1>2. PICK f : Picks(f, s, way, x) /\ T!Of(s, way, x) = f[Len(x)]
  BY OfPicks
<1>3. PICK g : Picks(g, s, way, y) /\ T!Of(s, way, y) = g[Len(y)]
  BY <1>1, OfPicks
<1>4. f[Len(x)] = g[Len(x)]
  BY <1>1, <1>2, <1>3, PicksAgree
<1>5. Len(y) \in 1..Len(y) /\ Len(y) - 1 = Len(x) /\ y[Len(y)] = m
  BY <1>1
<1>6. g[Len(y)] = IF Wants(s, way, y[Len(y)]) THEN Append(g[Len(y) - 1], y[Len(y)])
                  ELSE g[Len(y) - 1]
  BY <1>3, <1>5 DEF Picks
<1>7. g[Len(y)] = IF Wants(s, way, m) THEN Append(g[Len(x)], m) ELSE g[Len(x)]
  BY <1>5, <1>6
<1> QED  BY <1>2, <1>3, <1>4, <1>7 DEF y

LEMMA AppendToBoth ==
    ASSUME NEW M, NEW a \in Seq(M), NEW b \in Seq(M), NEW e \in M
    PROVE  Append(a \o b, e) = a \o Append(b, e)
<1> DEFINE l == Append(a \o b, e)
           r == a \o Append(b, e)
<1>1. l \in Seq(M) /\ r \in Seq(M) /\ Len(l) = Len(r)
  OBVIOUS
<1>2. \A n \in 1..Len(l) : l[n] = r[n]
  OBVIOUS
<1> HIDE DEF l, r
<1>3. l = r
  BY <1>1, <1>2
<1> QED  BY <1>3 DEF l, r

(* Of picks from two sequences one after the other.                        *)
OfBoth(s, way, x, y) == T!Of(s, way, x \o y) = T!Of(s, way, x) \o T!Of(s, way, y)

LEMMA OfJoin ==
    ASSUME NEW s, NEW way, NEW x, x \in Seq(Msgs), NEW y, y \in Seq(Msgs)
    PROVE  OfBoth(s, way, x, y)
<1> DEFINE Good == {n \in Nat : \A z \in Seq(Msgs) : Len(z) = n => OfBoth(s, way, x, z)}
<1>1. 0 \in Good
  <2> SUFFICES ASSUME NEW z \in Seq(Msgs), Len(z) = 0 PROVE OfBoth(s, way, x, z)
    OBVIOUS
  <2>1. z = <<>> /\ x \o z = x
    OBVIOUS
  <2>2. T!Of(s, way, x) \in Seq(Msgs) /\ T!Of(s, way, <<>>) = <<>>
    BY OfSeq
  <2> QED  BY <2>1, <2>2 DEF OfBoth
<1>2. ASSUME NEW n \in Nat, n \in Good PROVE n + 1 \in Good
  <2> SUFFICES ASSUME NEW z \in Seq(Msgs), Len(z) = n + 1 PROVE OfBoth(s, way, x, z)
    OBVIOUS
  <2>1. PICK u \in Seq(Msgs), e \in Msgs : z = Append(u, e)
    <3>1. z # <<>>
      OBVIOUS
    <3> QED  BY <3>1, SequenceEmptyOrAppend
  <2>2. Len(u) = n
    BY <2>1
  <2>3. OfBoth(s, way, x, u)
    BY <1>2, <2>2
  <2> DEFINE v == x \o u
             a == T!Of(s, way, x)
             b == T!Of(s, way, u)
             c == T!Of(s, way, v)
  <2>4. x \o z = Append(v, e) /\ v \in Seq(Msgs)
    BY <2>1, AppendToBoth
  <2> HIDE DEF v
  <2>5. /\ a \in Seq(Msgs) /\ b \in Seq(Msgs) /\ c = a \o b
    BY <2>3, OfSeq DEF OfBoth, v
  <2>6. T!Of(s, way, Append(v, e)) = IF Wants(s, way, e) THEN Append(c, e) ELSE c
    BY <2>4, OfAppend
  <2>7. T!Of(s, way, z) = IF Wants(s, way, e) THEN Append(b, e) ELSE b
    BY <2>1, OfAppend
  <2> HIDE DEF a, b, c
  <2>8. a \in Seq(Msgs) /\ b \in Seq(Msgs)
    BY <2>5
  <2>9. Append(a \o b, e) = a \o Append(b, e)
    <3> DEFINE l == Append(a \o b, e)
               r == a \o Append(b, e)
    <3>0. e \in Msgs
      BY <2>1
    <3>1. l \in Seq(Msgs) /\ r \in Seq(Msgs) /\ Len(l) = Len(r)
      BY <2>8, <3>0
    <3>2. \A k \in 1..Len(l) : l[k] = r[k]
      BY <2>8, <3>0
    <3> HIDE DEF l, r
    <3>3. l = r
      BY <3>1, <3>2, SeqEqual
    <3> QED  BY <3>3 DEF l, r
  <2> QED  BY <2>4, <2>5, <2>6, <2>7, <2>9 DEF OfBoth, a
<1> HIDE DEF Good
<1>3. Len(y) \in Good
  BY <1>1, <1>2, Induction
<1> QED  BY <1>3 DEF Good

-----------------------------------------------------------------------------
(* What is on the wire: headers, and the data that follows them.           *)
AnyPiece == [part : {"header", "data"}, msg : Msgs]

HeaderOf(m) == [part |-> "header", msg |-> m]
DataOf(m)   == [part |-> "data", msg |-> m]

OnWire(s, way, units) == T!Of(s, way, T!Announced(units))

LEMMA Assoc ==
    ASSUME NEW x \in Seq(Msgs), NEW y \in Seq(Msgs), NEW z \in Seq(Msgs)
    PROVE  (x \o y) \o z = x \o (y \o z)
OBVIOUS

LEMMA SameSeq ==
    ASSUME NEW M, NEW l, l \in Seq(M), NEW r, r \in Seq(M), Len(l) = Len(r),
           \A n \in 1..Len(l) : l[n] = r[n]
    PROVE  l = r
OBVIOUS

LEMMA OfOne ==
    ASSUME NEW s, NEW way, NEW m \in Msgs
    PROVE  /\ T!Of(s, way, <<m>>) \in Seq(Msgs)
           /\ T!Of(s, way, <<m>>) = IF Wants(s, way, m) THEN <<m>> ELSE <<>>
<1>1. <<>> \in Seq(Msgs) /\ Append(<<>>, m) = <<m>> /\ <<m>> \in Seq(Msgs)
  OBVIOUS
<1>2. T!Of(s, way, <<>>) = <<>> /\ T!Of(s, way, <<m>>) \in Seq(Msgs)
  BY <1>1, OfSeq
<1>3. T!Of(s, way, Append(<<>>, m)) = IF Wants(s, way, m) THEN Append(T!Of(s, way, <<>>), m)
                                      ELSE T!Of(s, way, <<>>)
  BY <1>1, OfAppend
<1> QED  BY <1>1, <1>2, <1>3

LEMMA OfNone ==
    ASSUME NEW s, NEW way, NEW x, x \in Seq(Msgs),
           \A n \in 1..Len(x) : ~Wants(s, way, x[n])
    PROVE  T!Of(s, way, x) = <<>>
<1>1. PICK f : Picks(f, s, way, x) /\ T!Of(s, way, x) = f[Len(x)]
  BY OfPicks
<1> DEFINE Good == {n \in Nat : n <= Len(x) => f[n] = <<>>}
<1>2. 0 \in Good
  BY <1>1 DEF Picks
<1>3. ASSUME NEW n \in Nat, n \in Good PROVE n + 1 \in Good
  <2> SUFFICES ASSUME n + 1 <= Len(x) PROVE f[n + 1] = <<>>
    OBVIOUS
  <2>1. n + 1 \in 1..Len(x) /\ (n + 1) - 1 = n /\ n <= Len(x)
    OBVIOUS
  <2>2. f[n + 1] = f[n]
    BY <1>1, <2>1 DEF Picks
  <2> QED  BY <1>3, <2>1, <2>2
<1> HIDE DEF Good
<1>4. Len(x) \in Good
  BY <1>2, <1>3, Induction
<1> QED  BY <1>1, <1>4 DEF Good

LEMMA AnnouncedSeq ==
    ASSUME NEW x \in Seq(AnyPiece)
    PROVE  T!Announced(x) \in Seq(Msgs) /\ Len(T!Announced(x)) = Len(x)
<1>1. \A n \in 1..Len(x) : x[n] \in AnyPiece
  OBVIOUS
<1>2. \A n \in 1..Len(x) : [x[n].msg EXCEPT !.size = 0] \in Msgs
  BY <1>1 DEF AnyPiece, Msgs
<1>3. DOMAIN x = 1..Len(x) /\ Len(x) \in Nat
  OBVIOUS
<1>4. \A n \in 1..Len(x) : (IF x[n].part = "header" THEN x[n].msg
                            ELSE [x[n].msg EXCEPT !.size = 0]) \in Msgs
  BY <1>1, <1>2 DEF AnyPiece
<1>5. T!Announced(x) = [n \in 1..Len(x) |-> IF x[n].part = "header" THEN x[n].msg
                                            ELSE [x[n].msg EXCEPT !.size = 0]]
  BY <1>3 DEF T!Announced
<1>6. T!Announced(x) \in [1..Len(x) -> Msgs]
  BY <1>4, <1>5
<1> QED  BY <1>3, <1>6

LEMMA WireJoin ==
    ASSUME NEW s, NEW way, NEW x \in Seq(AnyPiece), NEW y \in Seq(AnyPiece)
    PROVE  OnWire(s, way, x \o y) = OnWire(s, way, x) \o OnWire(s, way, y)
<1> DEFINE z == x \o y
           p == T!Announced(x)
           q == T!Announced(y)
           r == T!Announced(z)
<1>1. z \in Seq(AnyPiece) /\ Len(z) = Len(x) + Len(y)
  OBVIOUS
<1>2. \A n \in 1..Len(z) : z[n] = IF n <= Len(x) THEN x[n] ELSE y[n - Len(x)]
  OBVIOUS
<1> HIDE DEF z
<1>3. /\ p \in Seq(Msgs) /\ Len(p) = Len(x)
      /\ q \in Seq(Msgs) /\ Len(q) = Len(y)
      /\ r \in Seq(Msgs) /\ Len(r) = Len(z)
  BY <1>1, AnnouncedSeq
<1>4. \A n \in 1..Len(z) : r[n] = IF n <= Len(x) THEN p[n] ELSE q[n - Len(x)]
  <2> TAKE n \in 1..Len(z)
  <2>1. n \in DOMAIN z
    BY <1>1
  <2>2. CASE n <= Len(x)
    <3>1. n \in DOMAIN x
      BY <1>1, <2>2
    <3> QED  BY <1>2, <2>1, <2>2, <3>1 DEF T!Announced
  <2>3. CASE ~(n <= Len(x))
    <3>1. n - Len(x) \in DOMAIN y
      BY <1>1, <2>3
    <3> QED  BY <1>2, <2>1, <2>3, <3>1 DEF T!Announced
  <2> QED  BY <2>2, <2>3
<1> HIDE DEF p, q, r
<1>5. r = p \o q
  <2> DEFINE t == p \o q
  <2>0. p \in Seq(Msgs) /\ q \in Seq(Msgs)
    BY <1>3
  <2>1. t \in Seq(Msgs) /\ Len(t) = Len(p) + Len(q)
        /\ \A n \in 1..Len(t) : t[n] = IF n <= Len(p) THEN p[n] ELSE q[n - Len(p)]
    BY <2>0
  <2> HIDE DEF t
  <2>2. Len(t) = Len(r) /\ \A n \in 1..Len(r) : r[n] = t[n]
    BY <1>1, <1>3, <1>4, <2>1
  <2>3. r = t
    BY <1>3, <2>1, <2>2, SameSeq
  <2> QED  BY <2>3 DEF t
<1>6. T!Of(s, way, p \o q) = T!Of(s, way, p) \o T!Of(s, way, q)
  BY <1>3, OfJoin DEF OfBoth
<1> QED  BY <1>5, <1>6 DEF OnWire, p, q, r, z

LEMMA WireOne ==
    ASSUME NEW s, NEW way, NEW m \in Msgs
    PROVE  /\ HeaderOf(m) \in AnyPiece /\ DataOf(m) \in AnyPiece
           /\ OnWire(s, way, <<>>) = <<>>
           /\ OnWire(s, way, <<HeaderOf(m)>>) = T!Of(s, way, <<m>>)
           /\ OnWire(s, way, <<DataOf(m)>>) = <<>>
<1>1. HeaderOf(m) \in AnyPiece /\ DataOf(m) \in AnyPiece
  BY DEF HeaderOf, DataOf, AnyPiece
<1>2. OnWire(s, way, <<>>) = <<>>
  <2>0. <<>> \in Seq(AnyPiece) /\ Len(<<>>) = 0
    OBVIOUS
  <2>1. T!Announced(<<>>) \in Seq(Msgs) /\ Len(T!Announced(<<>>)) = 0
    BY <2>0, AnnouncedSeq
  <2>2. T!Announced(<<>>) = <<>>
    BY <2>1
  <2>3. <<>> \in Seq(Msgs)
    OBVIOUS
  <2> QED  BY <2>2, <2>3, OfSeq DEF OnWire
<1>3. OnWire(s, way, <<HeaderOf(m)>>) = T!Of(s, way, <<m>>)
  <2> DEFINE x == <<HeaderOf(m)>>
             y == T!Announced(x)
  <2>1. x \in Seq(AnyPiece) /\ Len(x) = 1 /\ x[1] = HeaderOf(m)
    BY <1>1
  <2> HIDE DEF x
  <2>2. y \in Seq(Msgs) /\ Len(y) = 1
    BY <2>1, AnnouncedSeq
  <2>3. y[1] = m
    BY <2>1 DEF T!Announced, HeaderOf
  <2> HIDE DEF y
  <2>4. y = <<m>>
    BY <2>2, <2>3
  <2> QED  BY <2>4 DEF OnWire, x, y
<1>4. OnWire(s, way, <<DataOf(m)>>) = <<>>
  <2> DEFINE x == <<DataOf(m)>>
             y == T!Announced(x)
  <2>1. x \in Seq(AnyPiece) /\ Len(x) = 1 /\ x[1] = DataOf(m)
    BY <1>1
  <2> HIDE DEF x
  <2>2. y \in Seq(Msgs) /\ Len(y) = 1
    BY <2>1, AnnouncedSeq
  <2>3. y[1] = [m EXCEPT !.size = 0]
    BY <2>1 DEF T!Announced, DataOf
  <2>4. y[1].size = 0
    BY <2>3 DEF Msgs
  <2> HIDE DEF y
  <2>5. \A n \in 1..Len(y) : ~Wants(s, way, y[n])
    BY <2>2, <2>4 DEF Wants
  <2>6. T!Of(s, way, y) = <<>>
    BY <2>2, <2>5, OfNone
  <2> QED  BY <2>6 DEF OnWire, x, y
<1> QED  BY <1>1, <1>2, <1>3, <1>4

LEMMA WireSeq ==
    ASSUME NEW s, NEW way, NEW x \in Seq(AnyPiece)
    PROVE  OnWire(s, way, x) \in Seq(Msgs)
BY AnnouncedSeq, OfSeq DEF OnWire

-----------------------------------------------------------------------------
(* What has become of the messages due: arrived, being read, on the wire,  *)
(* not yet written, in the queue.                                          *)
Starts(x, y) == \E z \in Seq(Msgs) : x \o z = y

FlowOf(a, b, c, d, e, due, how) ==
    CASE how = "reset" -> Starts(a \o b, due)
      [] how = "cut"   -> Starts((a \o b) \o c, due)
      [] how = "whole" -> (((a \o b) \o c) \o d) \o e = due

LEMMA StartsLess ==
    ASSUME NEW x \in Seq(Msgs), NEW y \in Seq(Msgs), NEW z, Starts(x \o y, z)
    PROVE  Starts(x, z)
<1>1. PICK w \in Seq(Msgs) : (x \o y) \o w = z
  BY DEF Starts
<1>2. y \o w \in Seq(Msgs)
  OBVIOUS
<1>3. (x \o y) \o w = x \o (y \o w)
  BY <1>1, Assoc
<1> QED  BY <1>1, <1>2, <1>3 DEF Starts

LEMMA StartsMore ==
    ASSUME NEW x \in Seq(Msgs), NEW y \in Seq(Msgs), NEW z, Starts(x, z)
    PROVE  Starts(x, z \o y)
<1>1. PICK w \in Seq(Msgs) : x \o w = z
  BY DEF Starts
<1>2. w \o y \in Seq(Msgs)
  OBVIOUS
<1>3. (x \o w) \o y = x \o (w \o y)
  BY <1>1, Assoc
<1> QED  BY <1>1, <1>2, <1>3 DEF Starts

Five(a, b, c, d, e) == /\ a \in Seq(Msgs) /\ b \in Seq(Msgs) /\ c \in Seq(Msgs)
                       /\ d \in Seq(Msgs) /\ e \in Seq(Msgs)

LEMMA FlowAlways ==
    ASSUME NEW a, NEW b, NEW c, NEW d, NEW e, Five(a, b, c, d, e), NEW due,
           NEW how \in {"reset", "cut", "whole"}, FlowOf(a, b, c, d, e, due, how)
    PROVE  /\ how # "reset" => Starts((a \o b) \o c, due)
           /\ Starts(a \o b, due) /\ Starts(a, due)
<1> USE DEF Five
<1>1. a \o b \in Seq(Msgs) /\ (a \o b) \o c \in Seq(Msgs) /\ d \o e \in Seq(Msgs)
  OBVIOUS
<1>2. how # "reset" => Starts((a \o b) \o c, due)
  <2>1. CASE how = "cut"
    BY <2>1 DEF FlowOf
  <2>2. CASE how = "whole"
    <3> DEFINE x == (a \o b) \o c
    <3>1. (x \o d) \o e = due
      BY <2>2 DEF FlowOf
    <3>2. x \in Seq(Msgs)
      BY <1>1
    <3> HIDE DEF x
    <3>3. (x \o d) \o e = x \o (d \o e)
      BY <3>2
    <3> QED  BY <1>1, <3>1, <3>3 DEF Starts, x
  <2> QED  BY <2>1, <2>2
<1>3. Starts(a \o b, due)
  <2>1. CASE how = "reset"
    BY <2>1 DEF FlowOf
  <2>2. CASE how # "reset"
    BY <1>1, <1>2, <2>2, StartsLess
  <2> QED  BY <2>1, <2>2
<1>4. Starts(a, due)
  BY <1>1, <1>3, StartsLess
<1> QED  BY <1>2, <1>3, <1>4

LEMMA FlowGiven ==
    ASSUME NEW a, NEW b, NEW c, NEW d, NEW e, Five(a, b, c, d, e), NEW due, NEW x \in Seq(Msgs),
           NEW how \in {"reset", "whole"}, FlowOf(a, b, c, d, e, due, how)
    PROVE  FlowOf(a, b, c, d, e \o x, due \o x, how)
<1> USE DEF Five
<1>1. CASE how = "reset"
  <2>1. a \o b \in Seq(Msgs) /\ Starts(a \o b, due)
    BY <1>1 DEF FlowOf
  <2>2. Starts(a \o b, due \o x)
    BY <2>1, StartsMore
  <2> QED  BY <1>1, <2>2 DEF FlowOf
<1>2. CASE how = "whole"
  <2> DEFINE y == ((a \o b) \o c) \o d
  <2>1. y \in Seq(Msgs)
    OBVIOUS
  <2>2. y \o e = due
    BY <1>2 DEF FlowOf
  <2> HIDE DEF y
  <2>3. (y \o e) \o x = y \o (e \o x)
    BY <2>1
  <2> QED  BY <1>2, <2>2, <2>3 DEF FlowOf, y
<1> QED  BY <1>1, <1>2

LEMMA FlowTaken ==
    ASSUME NEW a, NEW b, NEW c, NEW d, NEW e, Five(a, b, c, d, e), NEW due,
           NEW how \in {"reset", "cut", "whole"}, FlowOf(a, b, c, <<>>, d \o e, due, how)
    PROVE  FlowOf(a, b, c, d, e, due, how)
<1> USE DEF Five
<1>1. CASE how = "whole"
  <2> DEFINE y == (a \o b) \o c
  <2>1. y \in Seq(Msgs)
    OBVIOUS
  <2>2. (y \o <<>>) \o (d \o e) = due
    BY <1>1 DEF FlowOf
  <2> HIDE DEF y
  <2>3. y \o <<>> = y
    BY <2>1
  <2>4. (y \o d) \o e = y \o (d \o e)
    BY <2>1
  <2> QED  BY <1>1, <2>2, <2>3, <2>4 DEF FlowOf, y
<1> QED  BY <1>1 DEF FlowOf

LEMMA FlowWritten ==
    ASSUME NEW a, NEW b, NEW c, NEW d, NEW e, Five(a, b, c, d, e), NEW due,
           FlowOf(a, b, c, d, e, due, "whole")
    PROVE  FlowOf(a, b, c \o d, <<>>, e, due, "whole")
<1> USE DEF Five
<1> DEFINE y == a \o b
<1>1. y \in Seq(Msgs)
  OBVIOUS
<1>2. ((y \o c) \o d) \o e = due
  BY DEF FlowOf
<1> HIDE DEF y
<1>3. (y \o c) \o d = y \o (c \o d)
  BY <1>1, Assoc DEF Five
<1>4. (y \o (c \o d)) \o <<>> = y \o (c \o d)
  BY <1>1
<1> QED  BY <1>2, <1>3, <1>4 DEF FlowOf, y

LEMMA FlowDirect ==
    ASSUME NEW a, NEW b, NEW c, NEW d, NEW e, Five(a, b, c, d, e), NEW due, NEW x \in Seq(Msgs),
           due \in Seq(Msgs), FlowOf(a, b, c, d, e, due, "whole"),
           x = <<>> \/ (d = <<>> /\ e = <<>>)
    PROVE  FlowOf(a, b, c \o x, d, e, due \o x, "whole")
<1> USE DEF Five
<1>1. CASE x = <<>>
  <2>1. c \o x = c /\ due \o x = due
    BY <1>1
  <2> QED  BY <2>1
<1>2. CASE d = <<>> /\ e = <<>>
  <2> DEFINE y == a \o b
             z == y \o (c \o x)
  <2>1. y \in Seq(Msgs)
    OBVIOUS
  <2>2. ((y \o c) \o <<>>) \o <<>> = due
    BY <1>2 DEF FlowOf
  <2> HIDE DEF y
  <2>3. y \o c = due
    BY <2>1, <2>2
  <2>4. z = due \o x /\ z \in Seq(Msgs)
    <3>0. c \in Seq(Msgs) /\ x \in Seq(Msgs)
      OBVIOUS
    <3>1. (y \o c) \o x = y \o (c \o x)
      BY <2>1, <3>0, Assoc
    <3> QED  BY <2>1, <2>3, <3>1
  <2> HIDE DEF z
  <2>5. (z \o <<>>) \o <<>> = due \o x
    BY <2>4
  <2> QED  BY <1>2, <2>5 DEF FlowOf, y, z
<1> QED  BY <1>1, <1>2

LEMMA FlowRead ==
    ASSUME NEW a, NEW b, NEW c, NEW d, NEW e, Five(a, b, c, d, e), NEW due,
           NEW how \in {"cut", "whole"}, FlowOf(a, <<>>, b \o c, d, e, due, how)
    PROVE  FlowOf(a, b, c, d, e, due, how)
<1> USE DEF Five
<1>1. a \o <<>> = a
  OBVIOUS
<1>2. (a \o b) \o c = a \o (b \o c)
  OBVIOUS
<1> QED  BY <1>1, <1>2 DEF FlowOf

LEMMA FlowPushed ==
    ASSUME NEW a, NEW b, NEW c, NEW d, NEW e, Five(a, b, c, d, e), NEW due,
           NEW how \in {"reset", "cut", "whole"}, FlowOf(a, b, c, d, e, due, how)
    PROVE  FlowOf(a \o b, <<>>, c, d, e, due, how)
<1>1. (a \o b) \o <<>> = a \o b
  BY DEF Five
<1> QED  BY <1>1 DEF FlowOf

LEMMA FlowLost ==
    ASSUME NEW a, NEW b, NEW c, NEW d, NEW e, Five(a, b, c, d, e), NEW due,
           NEW how \in {"reset", "cut"}, FlowOf(a, b, c, d, e, due, how), how = "cut" => c = <<>>
    PROVE  FlowOf(a, <<>>, c, d, e, due, how)
<1>1. a \o <<>> = a
  BY DEF Five
<1>2. Starts(a, due)
  BY FlowAlways
<1> QED  BY <1>1, <1>2 DEF FlowOf

-----------------------------------------------------------------------------
(* A header of a message that is not empty is followed by its data, and    *)
(* data follows only such a header.                                        *)
Needs(unit) == unit.part = "header" /\ unit.msg.size > 0

Paired(units) ==
    \A n \in 1..Len(units) :
       /\ Needs(units[n]) /\ n < Len(units) => units[n + 1] = DataOf(units[n].msg)
       /\ units[n].part = "data" => n > 1 /\ Needs(units[n - 1])

Whole(units) == Paired(units) /\ (units # <<>> => ~Needs(units[Len(units)]))

ShapeOf(units, how) == IF how = "whole" THEN Whole(units) ELSE Paired(units)

LEMMA PairedStart ==
    ASSUME NEW x \in Seq(AnyPiece), NEW y \in Seq(AnyPiece), Paired(x \o y)
    PROVE  Paired(x)
<1> DEFINE z == x \o y
<1>1. /\ Len(z) = Len(x) + Len(y) /\ Len(x) \in Nat /\ Len(y) \in Nat
      /\ \A n \in 1..Len(x) : z[n] = x[n]
  OBVIOUS
<1> HIDE DEF z
<1>2. Paired(z)
  BY DEF z
<1> SUFFICES ASSUME NEW n \in 1..Len(x)
             PROVE  /\ Needs(x[n]) /\ n < Len(x) => x[n + 1] = DataOf(x[n].msg)
                    /\ x[n].part = "data" => n > 1 /\ Needs(x[n - 1])
  BY DEF Paired
<1>3. n \in 1..Len(z) /\ z[n] = x[n]
  BY <1>1
<1>4. n < Len(x) => n < Len(z) /\ z[n + 1] = x[n + 1]
  BY <1>1
<1>5. n > 1 => z[n - 1] = x[n - 1]
  BY <1>1
<1>6. /\ Needs(z[n]) /\ n < Len(z) => z[n + 1] = DataOf(z[n].msg)
      /\ z[n].part = "data" => n > 1 /\ Needs(z[n - 1])
  BY <1>2, <1>3 DEF Paired
<1> QED  BY <1>3, <1>4, <1>5, <1>6

LEMMA WholeGrows ==
    ASSUME NEW x \in Seq(AnyPiece), Whole(x), NEW m \in Msgs
    PROVE  Whole((x \o <<HeaderOf(m)>>) \o T!Units("data", m))
<1> DEFINE h == x \o <<HeaderOf(m)>>
           z == h \o T!Units("data", m)
           N == Len(x)
<1>1. /\ h \in Seq(AnyPiece) /\ Len(h) = N + 1 /\ N \in Nat /\ h[N + 1] = HeaderOf(m)
      /\ \A n \in 1..N : h[n] = x[n]
  BY DEF HeaderOf, AnyPiece
<1> HIDE DEF h
<1>2. HeaderOf(m).part = "header" /\ HeaderOf(m).msg = m
      /\ DataOf(m).part = "data" /\ DataOf(m).msg = m
  BY DEF HeaderOf, DataOf
<1>3. \A n \in 1..N : /\ Needs(x[n]) /\ n < N => x[n + 1] = DataOf(x[n].msg)
                      /\ x[n].part = "data" => n > 1 /\ Needs(x[n - 1])
  BY DEF Whole, Paired
<1>4. N > 0 => ~Needs(x[N])
  BY DEF Whole
<1>5. CASE m.size = 0
  <2>1. z = h
    BY <1>1, <1>5 DEF T!Units
  <2>2. ~Needs(h[N + 1])
    BY <1>1, <1>2, <1>5 DEF Needs
  <2>3. ASSUME NEW n \in 1..(N + 1)
        PROVE  /\ Needs(h[n]) /\ n < N + 1 => h[n + 1] = DataOf(h[n].msg)
               /\ h[n].part = "data" => n > 1 /\ Needs(h[n - 1])
    <3>1. CASE n = N + 1
      BY <1>1, <1>2, <3>1
    <3>2. CASE n = N
      BY <1>1, <1>3, <1>4, <3>2
    <3>3. CASE n < N
      <4>1. h[n] = x[n] /\ h[n + 1] = x[n + 1] /\ (n > 1 => h[n - 1] = x[n - 1])
        BY <1>1, <3>3
      <4> QED  BY <1>1, <1>3, <3>3, <4>1
    <3> QED  BY <1>1, <3>1, <3>2, <3>3
  <2>4. Whole(h)
    BY <1>1, <2>2, <2>3 DEF Whole, Paired
  <2> QED  BY <2>1, <2>4 DEF h
<1>6. CASE m.size # 0
  <2>1. m.size > 0
    BY <1>6 DEF Msgs
  <2>2. T!Units("data", m) = <<DataOf(m)>>
    BY <1>6 DEF T!Units, DataOf
  <2>3. /\ z \in Seq(AnyPiece) /\ Len(z) = N + 2 /\ z[N + 2] = DataOf(m) /\ z[N + 1] = HeaderOf(m)
        /\ \A n \in 1..N : z[n] = x[n]
    <3>1. DataOf(m) \in AnyPiece
      BY DEF DataOf, AnyPiece
    <3> DEFINE u == DataOf(m)
    <3> HIDE DEF u
    <3>2. z = h \o <<u>> /\ u \in AnyPiece
      BY <2>2, <3>1 DEF u
    <3>3. \A n \in 1..(N + 2) : z[n] = IF n <= N + 1 THEN h[n] ELSE u
      BY <1>1, <3>2
    <3>4. z \in Seq(AnyPiece) /\ Len(z) = N + 2
      <4>1. <<u>> \in Seq(AnyPiece) /\ Len(<<u>>) = 1
        BY <3>2
      <4> DEFINE v == <<u>>
      <4> HIDE DEF v
      <4>2. z = h \o v /\ v \in Seq(AnyPiece) /\ Len(v) = 1
        BY <3>2, <4>1 DEF v
      <4>0. h \in Seq(AnyPiece) /\ v \in Seq(AnyPiece)
        BY <1>1, <4>2
      <4>3. h \o v \in Seq(AnyPiece) /\ Len(h \o v) = Len(h) + Len(v)
        BY <4>0, ConcatProperties
      <4>4. Len(h \o v) = N + 2
        BY <1>1, <4>2, <4>3
      <4> QED  BY <4>2, <4>3, <4>4
    <3> HIDE DEF z
    <3>5. z[N + 2] = u /\ z[N + 1] = h[N + 1]
      BY <1>1, <3>3
    <3>6. \A n \in 1..N : z[n] = x[n]
      BY <1>1, <3>3
    <3> QED  BY <1>1, <3>4, <3>5, <3>6 DEF u
  <2> HIDE DEF z
  <2>4. ~Needs(z[N + 2]) /\ Needs(z[N + 1])
    BY <1>2, <2>1, <2>3 DEF Needs
  <2>5. ASSUME NEW n \in 1..(N + 2)
        PROVE  /\ Needs(z[n]) /\ n < N + 2 => z[n + 1] = DataOf(z[n].msg)
               /\ z[n].part = "data" => n > 1 /\ Needs(z[n - 1])
    <3>1. CASE n = N + 2
      <4>1. n > 1 /\ n - 1 = N + 1
        BY <1>1, <3>1
      <4> QED  BY <2>4, <3>1, <4>1
    <3>2. CASE n = N + 1
      <4>1. n + 1 = N + 2
        BY <1>1, <3>2
      <4> QED  BY <1>2, <2>3, <3>2, <4>1
    <3>3. CASE n = N
      <4>1. z[n] = x[n] /\ (n > 1 => z[n - 1] = x[n - 1]) /\ N > 0
        BY <1>1, <2>3, <3>3
      <4> QED  BY <1>3, <1>4, <3>3, <4>1
    <3>4. CASE n < N
      <4>1. z[n] = x[n] /\ z[n + 1] = x[n + 1] /\ (n > 1 => z[n - 1] = x[n - 1])
        <5>1. n \in 1..N /\ n + 1 \in 1..N /\ (n > 1 => n - 1 \in 1..N)
          BY <1>1, <3>4
        <5> QED  BY <2>3, <5>1
      <4> QED  BY <1>1, <1>3, <3>4, <4>1
    <3> QED  BY <1>1, <3>1, <3>2, <3>3, <3>4
  <2>6. Whole(z)
    BY <1>1, <2>3, <2>4, <2>5 DEF Whole, Paired
  <2> QED  BY <2>6 DEF z, h
<1> QED  BY <1>5, <1>6

LEMMA ShapeTail ==
    ASSUME NEW x \in Seq(AnyPiece), x # <<>>, NEW how, ShapeOf(x, how)
    PROVE  /\ x[1].part = "header"
           /\ ~Needs(x[1]) => ShapeOf(Tail(x), how)
<1> DEFINE N == Len(x)
           t == Tail(x)
<1>1. N \in Nat /\ N > 0 /\ 1 \in 1..N /\ x[1] \in AnyPiece
  OBVIOUS
<1>2. /\ t \in Seq(AnyPiece) /\ Len(t) = N - 1
      /\ \A n \in 1..(N - 1) : t[n] = x[n + 1]
  OBVIOUS
<1> HIDE DEF t
<1>3. \A n \in 1..N : /\ Needs(x[n]) /\ n < N => x[n + 1] = DataOf(x[n].msg)
                      /\ x[n].part = "data" => n > 1 /\ Needs(x[n - 1])
  BY DEF ShapeOf, Whole, Paired
<1>4. x[1].part = "header"
  BY <1>1, <1>3 DEF AnyPiece
<1>5. ASSUME ~Needs(x[1]) PROVE ShapeOf(t, how)
  <2>1. ASSUME NEW n \in 1..Len(t)
        PROVE  /\ Needs(t[n]) /\ n < Len(t) => t[n + 1] = DataOf(t[n].msg)
               /\ t[n].part = "data" => n > 1 /\ Needs(t[n - 1])
    <3>1. t[n] = x[n + 1] /\ (n < Len(t) => n + 1 < N /\ t[n + 1] = x[(n + 1) + 1])
      BY <1>1, <1>2
    <3>2. (n > 1 => t[n - 1] = x[(n + 1) - 1]) /\ (n = 1 => x[(n + 1) - 1] = x[1])
      BY <1>1, <1>2
    <3>3. n + 1 \in 1..N
      BY <1>1, <1>2
    <3>4. /\ Needs(x[n + 1]) /\ n + 1 < N => x[(n + 1) + 1] = DataOf(x[n + 1].msg)
          /\ x[n + 1].part = "data" => n + 1 > 1 /\ Needs(x[(n + 1) - 1])
      BY <1>3, <3>3
    <3>5. n = 1 \/ n > 1
      BY <1>1, <1>2
    <3> QED  BY <1>5, <3>1, <3>2, <3>4, <3>5
  <2>2. Paired(t)
    BY <2>1 DEF Paired
  <2>3. ASSUME how = "whole", t # <<>> PROVE ~Needs(t[Len(t)])
    <3>1. Len(t) \in 1..(N - 1) /\ Len(t) + 1 = N
      BY <1>1, <1>2, <2>3
    <3>2. t[Len(t)] = x[N]
      BY <1>2, <3>1
    <3> QED  BY <2>3, <3>2 DEF ShapeOf, Whole
  <2> QED  BY <2>2, <2>3 DEF ShapeOf, Whole
<1> QED  BY <1>4, <1>5 DEF t

LEMMA ShapePair ==
    ASSUME NEW x \in Seq(AnyPiece), Len(x) > 1, NEW how, ShapeOf(x, how), Needs(x[1])
    PROVE  x[2] = DataOf(x[1].msg) /\ ShapeOf(Tail(Tail(x)), how)
<1> DEFINE N == Len(x)
           t == Tail(Tail(x))
<1>1. N \in Nat /\ 1 \in 1..N /\ 2 \in 1..N
  OBVIOUS
<1>2. /\ t \in Seq(AnyPiece) /\ Len(t) = N - 2
      /\ \A n \in 1..(N - 2) : t[n] = x[n + 2]
  OBVIOUS
<1> HIDE DEF t
<1>3. \A n \in 1..N : /\ Needs(x[n]) /\ n < N => x[n + 1] = DataOf(x[n].msg)
                      /\ x[n].part = "data" => n > 1 /\ Needs(x[n - 1])
  BY DEF ShapeOf, Whole, Paired
<1>4. x[2] = DataOf(x[1].msg)
  <2>1. Needs(x[1]) /\ 1 < N => x[1 + 1] = DataOf(x[1].msg)
    BY <1>1, <1>3
  <2> QED  BY <2>1
<1>5. ~Needs(x[2])
  BY <1>4 DEF Needs, DataOf
<1>6. ASSUME NEW n \in 1..Len(t)
      PROVE  /\ Needs(t[n]) /\ n < Len(t) => t[n + 1] = DataOf(t[n].msg)
             /\ t[n].part = "data" => n > 1 /\ Needs(t[n - 1])
  <2>1. t[n] = x[n + 2] /\ (n < Len(t) => n + 2 < N /\ t[n + 1] = x[(n + 2) + 1])
    BY <1>1, <1>2
  <2>2. (n > 1 => t[n - 1] = x[(n + 2) - 1]) /\ (n = 1 => x[(n + 2) - 1] = x[2])
    BY <1>1, <1>2
  <2>3. n + 2 \in 1..N
    BY <1>1, <1>2
  <2>4. /\ Needs(x[n + 2]) /\ n + 2 < N => x[(n + 2) + 1] = DataOf(x[n + 2].msg)
        /\ x[n + 2].part = "data" => n + 2 > 1 /\ Needs(x[(n + 2) - 1])
    BY <1>3, <2>3
  <2>5. n = 1 \/ n > 1
    BY <1>1, <1>2
  <2> QED  BY <1>5, <2>1, <2>2, <2>4, <2>5
<1>7. Paired(t)
  BY <1>6 DEF Paired
<1>8. ASSUME how = "whole", t # <<>> PROVE ~Needs(t[Len(t)])
  <2>1. Len(t) \in 1..(N - 2) /\ Len(t) + 2 = N
    BY <1>1, <1>2, <1>8
  <2>2. t[Len(t)] = x[N]
    BY <1>2, <2>1
  <2> QED  BY <1>8, <2>2 DEF ShapeOf, Whole
<1> QED  BY <1>4, <1>7, <1>8 DEF ShapeOf, Whole, t

-----------------------------------------------------------------------------
(* What the threads hold, and what is written and read, is of the sender   *)
(* it should be of.                                                        *)
Given(s, ways) == [from : {s}, way : ways, size : Nat, n : Nat]

Ways == {"queue", "direct"}

Pieces(s) ==
    {u \in AnyPiece : u.msg \in Given(s, Ways) /\ (u.part = "data" => u.msg.size > 0)}

Held(p, places, msgs) ==
    IF p.at \in places THEN \E m \in msgs : p.msgs = <<m>> ELSE p.msgs = <<>>

Places ==
    {"none", "take", "header", "data", "test", "push", "notify", "accept", "end", "stillborn"}
Position == [at : Places, msgs : Seq(Msgs)]
Stages == {"none", "connecting", "started", "open", "joining", "closed", "crashed"}
Stands == {"none", "accepting", "open", "joining", "closed"}
Conns == {"none", "open", "closed", "reset"}

TcpFunctions ==
    /\ sender \in [Senders -> Stages] /\ conn \in [Senders -> Conns]
    /\ snd_closed \in [Senders -> BOOLEAN]
    /\ snd_queue \in [Senders -> Seq(Msgs)] /\ sent \in [Senders -> Seq(Msgs)]
    /\ thread \in [Senders -> Position] /\ direct \in [Senders -> Position]
    /\ wire \in [Senders -> Seq(AnyPiece)]
    /\ receiver \in [Receivers -> Stands]
    /\ backlog \in [Receivers -> Seq(Senders)]
    /\ _socket \in [Receivers -> Senders \union {NoSender}]
    /\ recv \in [Receivers -> Position]
    /\ rcv_queue \in [Receivers -> Seq(Msgs)] /\ taken \in [Receivers -> Seq(Msgs)]

SenderHolds(s) ==
    /\ snd_queue[s] \in Seq(Given(s, {"queue"}))
    /\ wire[s] \in Seq(Pieces(s))
    /\ Held(thread[s], {"header", "data"}, Given(s, {"queue"}))
    /\ Held(direct[s], {"header", "data"}, Given(s, {"direct"}))

ReceiverHolds(r) ==
    /\ Held(recv[r], {"data", "push"}, Given(_socket[r], Ways \union {"none"}))
    /\ recv[r].at # "none" => _socket[r] \in Senders
    /\ recv[r].at = "data" => recv[r].msgs[1].size > 0

TcpTypes == /\ TcpFunctions
            /\ \A s \in Senders : SenderHolds(s)
            /\ \A r \in Receivers : ReceiverHolds(r)

(* Where a sender, its thread and its connection can be; and a receiver.   *)
Life(s) ==
    /\ sender[s] \in {"none", "connecting"} => conn[s] = "none" /\ thread[s].at = "none"
    /\ thread[s].at = "none" => conn[s] = "none"
    /\ sender[s] = "open" => ~snd_closed[s]
    /\ direct[s].at # "none" => sender[s] = "open"
    /\ direct[s].at = "data" => conn[s] # "none"
    /\ sender[s] = "crashed" => thread[s].at = "end"
    /\ sender[s] = "closed" => thread[s].at \in {"none", "end", "stillborn"}
    /\ conn[s] = "closed" => sender[s] \in {"closed", "crashed"}
    /\ thread[s].at = "end" /\ conn[s] # "reset" /\ sender[s] # "crashed" =>
          snd_queue[s] = <<>> /\ sender[s] \in {"joining", "closed"}
    /\ thread[s].at \in {"header", "data"} /\ direct[s].at # "none" => s \in mixed

Linked(r) ==
    /\ receiver[r] \in {"none", "accepting"} => recv[r].at = "none"
    /\ r \in listening => T!Accepting(r)
    /\ _socket[r] \in Senders => To[_socket[r]] = r
    /\ \A n \in 1..Len(backlog[r]) : To[backlog[r][n]] = r /\ conn[backlog[r][n]] # "none"

-----------------------------------------------------------------------------
LEMMA SeqOfMore ==
    ASSUME NEW M, NEW N, \A m \in M : m \in N, NEW x, x \in Seq(M)
    PROVE  x \in Seq(N)
OBVIOUS

LEMMA GivenAre ==
    ASSUME NEW s \in Senders, NEW ways, \A way \in ways : way \in {"queue", "direct", "none"},
           NEW m \in Given(s, ways)
    PROVE  m \in Msgs /\ m.from = s /\ m.way \in ways /\ m.size \in Nat
BY DEF Given, Msgs

LEMMA MessageIs ==
    ASSUME TcpFunctions, NEW s \in Senders, NEW size \in Nat, NEW way
    PROVE  T!Message(s, way, size) \in Given(s, {way})
<1>1. Len(sent[s]) + 1 \in Nat
  BY DEF TcpFunctions
<1> QED  BY <1>1 DEF T!Message, Given

LEMMA HeldIs ==
    ASSUME NEW p, NEW places, NEW msgs, Held(p, places, msgs), p.at \in places
    PROVE  \E m \in msgs : p.msgs = <<m>> /\ Head(p.msgs) = m /\ p.msgs[1] = m
<1>1. PICK m \in msgs : p.msgs = <<m>>
  BY DEF Held
<1> QED  BY <1>1

LEMMA PositionIs ==
    ASSUME NEW where \in Places, NEW msgs, msgs \in Seq(Msgs)
    PROVE  T!At(where, msgs) \in Position /\ T!At(where, msgs).at = where
           /\ T!At(where, msgs).msgs = msgs
BY DEF T!At, Position

LEMMA Empties ==
    /\ <<>> \in Seq(Msgs) /\ <<>> \in Seq(AnyPiece) /\ <<>> \in Seq(Senders)
    /\ \A where \in Places : T!At(where, <<>>) \in Position
    /\ \A where, places, msgs : where \notin places => Held(T!At(where, <<>>), places, msgs)
<1>1. <<>> \in Seq(Msgs) /\ <<>> \in Seq(AnyPiece) /\ <<>> \in Seq(Senders)
  OBVIOUS
<1> QED  BY <1>1 DEF T!At, Position, Held

LEMMA InitTcpTypes == T!TcpInit => TcpTypes
<1> SUFFICES ASSUME T!TcpInit PROVE TcpTypes
  OBVIOUS
<1>1. TcpFunctions
  <2>1. T!At("none", <<>>) \in Position
    BY Empties DEF Places
  <2> QED  BY <2>1, Empties DEF T!TcpInit, TcpFunctions, Stages, Stands, Conns
<1>2. ASSUME NEW s \in Senders PROVE SenderHolds(s)
  BY DEF T!TcpInit, T!At, SenderHolds, Held
<1>3. ASSUME NEW r \in Receivers PROVE ReceiverHolds(r)
  BY DEF T!TcpInit, T!At, ReceiverHolds, Held
<1> QED  BY <1>1, <1>2, <1>3 DEF TcpTypes

-----------------------------------------------------------------------------
(* The types of the variables after a step.                                *)
LEMMA UnitsAre ==
    ASSUME NEW s \in Senders, NEW m \in Given(s, Ways), NEW place \in {"header", "data"}
    PROVE  /\ T!Units(place, m) \in Seq(Pieces(s))
           /\ T!Units(place, m) \in Seq(AnyPiece)
<1>1. m \in Msgs /\ m.size \in Nat
  BY GivenAre DEF Ways
<1>2. CASE place = "data" /\ m.size = 0
  BY <1>2 DEF T!Units
<1>3. CASE ~(place = "data" /\ m.size = 0)
  <2> DEFINE u == [part |-> place, msg |-> m]
  <2>1. u \in Pieces(s) /\ u \in AnyPiece
    BY <1>1, <1>3 DEF Pieces, AnyPiece
  <2>2. T!Units(place, m) = <<u>>
    BY <1>3 DEF T!Units
  <2> HIDE DEF u
  <2> QED  BY <2>1, <2>2
<1> QED  BY <1>2, <1>3

LEMMA SendTypes ==
    ASSUME TcpTypes, NEW s \in Senders, NEW size \in Nat, T!Send(s, size)
    PROVE  TcpTypes'
<1> DEFINE m == T!Message(s, "queue", size)
<1>1. m \in Given(s, {"queue"}) /\ m \in Msgs
  BY MessageIs, GivenAre DEF TcpTypes
<1> HIDE DEF m
<1>2. /\ sent' = [sent EXCEPT ![s] = Append(@, m)]
      /\ snd_queue' = [snd_queue EXCEPT ![s] = Append(@, m)]
      /\ UNCHANGED <<sender, conn, snd_closed, thread, direct, wire, receiver, backlog, _socket,
                     recv, rcv_queue, taken>>
  BY DEF T!Send, T!directVars, T!connVars, T!recvVars, T!getVars, m
<1>3. TcpFunctions'
  <2>1. Append(sent[s], m) \in Seq(Msgs) /\ Append(snd_queue[s], m) \in Seq(Msgs)
    BY <1>1 DEF TcpTypes, TcpFunctions
  <2> QED  BY <1>2, <2>1 DEF TcpTypes, TcpFunctions
<1>4. ASSUME NEW z \in Senders PROVE SenderHolds(z)'
  <2>1. Append(snd_queue[s], m) \in Seq(Given(s, {"queue"}))
    BY <1>1 DEF TcpTypes, SenderHolds
  <2>2. snd_queue'[z] = IF z = s THEN Append(snd_queue[s], m) ELSE snd_queue[z]
    BY <1>2 DEF TcpTypes, TcpFunctions
  <2> QED  BY <1>2, <2>1, <2>2 DEF TcpTypes, SenderHolds
<1>5. ASSUME NEW r \in Receivers PROVE ReceiverHolds(r)'
  BY <1>2 DEF TcpTypes, ReceiverHolds
<1> QED  BY <1>3, <1>4, <1>5 DEF TcpTypes

LEMMA SendTakeTypes ==
    ASSUME TcpTypes, NEW s \in Senders, T!SendTake(s)
    PROVE  TcpTypes'
<1> DEFINE q == snd_queue[s]
<1>1. /\ q # <<>> /\ q \in Seq(Given(s, {"queue"})) /\ q \in Seq(Msgs)
      /\ snd_queue' = [snd_queue EXCEPT ![s] = Tail(q)]
      /\ thread' = [thread EXCEPT ![s] = T!At("header", <<Head(q)>>)]
      /\ UNCHANGED <<sender, conn, snd_closed, sent, direct, wire, receiver, backlog, _socket,
                     recv, rcv_queue, taken>>
  BY DEF T!SendTake, T!connVars, T!recvVars, T!getVars, TcpTypes, SenderHolds, TcpFunctions
<1> HIDE DEF q
<1>2. /\ Head(q) \in Given(s, {"queue"}) /\ Tail(q) \in Seq(Given(s, {"queue"}))
      /\ Tail(q) \in Seq(Msgs) /\ Head(q) \in Msgs
  BY <1>1
<1> DEFINE m == Head(q)
           p == T!At("header", <<m>>)
<1>3. p \in Position /\ Held(p, {"header", "data"}, Given(s, {"queue"}))
  <2>1. <<m>> \in Seq(Msgs)
    BY <1>2
  <2> HIDE DEF m
  <2>2. p \in Position /\ p.at = "header" /\ p.msgs = <<m>>
    BY <2>1, PositionIs DEF Places
  <2> QED  BY <1>2, <2>2 DEF Held, m
<1> HIDE DEF p
<1>4. TcpFunctions'
  BY <1>1, <1>2, <1>3 DEF TcpTypes, TcpFunctions, p
<1>5. ASSUME NEW z \in Senders PROVE SenderHolds(z)'
  <2>1. /\ snd_queue'[z] = IF z = s THEN Tail(q) ELSE snd_queue[z]
        /\ thread'[z] = IF z = s THEN p ELSE thread[z]
    BY <1>1 DEF TcpTypes, TcpFunctions, p
  <2> QED  BY <1>1, <1>2, <1>3, <2>1 DEF TcpTypes, SenderHolds
<1>6. ASSUME NEW r \in Receivers PROVE ReceiverHolds(r)'
  BY <1>1 DEF TcpTypes, ReceiverHolds
<1> QED  BY <1>4, <1>5, <1>6 DEF TcpTypes

(* A thread, or a SendDirect, that comes to hold nothing.                  *)
LEMMA LetGoTypes ==
    ASSUME TcpTypes, NEW s \in Senders, NEW where \in Places \ {"header", "data"},
           \/ thread' = [thread EXCEPT ![s] = T!At(where, <<>>)] /\ direct' = direct
           \/ direct' = [direct EXCEPT ![s] = T!At(where, <<>>)] /\ thread' = thread,
           sender' \in [Senders -> Stages], conn' \in [Senders -> Conns],
           backlog' \in [Receivers -> Seq(Senders)],
           UNCHANGED <<snd_closed, snd_queue, sent, wire, receiver, _socket, recv, rcv_queue,
                       taken>>
    PROVE  TcpTypes'
<1> DEFINE p == T!At(where, <<>>)
<1>1. p \in Position /\ \A msgs : Held(p, {"header", "data"}, msgs)
  BY Empties
<1> HIDE DEF p
<1>2. TcpFunctions'
  BY <1>1 DEF TcpTypes, TcpFunctions, p
<1>3. ASSUME NEW z \in Senders PROVE SenderHolds(z)'
  <2>1. /\ thread'[z] = p \/ thread'[z] = thread[z]
        /\ direct'[z] = p \/ direct'[z] = direct[z]
    BY DEF TcpTypes, TcpFunctions, p
  <2> QED  BY <1>1, <2>1 DEF TcpTypes, SenderHolds
<1>4. ASSUME NEW r \in Receivers PROVE ReceiverHolds(r)'
  BY DEF TcpTypes, ReceiverHolds
<1> QED  BY <1>2, <1>3, <1>4 DEF TcpTypes

LEMMA WriteTypes ==
    ASSUME TcpTypes, NEW s \in Senders, NEW m \in Given(s, Ways),
           NEW place \in {"header", "data"}, wire' = [wire EXCEPT ![s] = @ \o T!Units(place, m)],
           thread' \in [Senders -> Position], direct' \in [Senders -> Position],
           sent' \in [Senders -> Seq(Msgs)],
           \A z \in Senders : /\ Held(thread'[z], {"header", "data"}, Given(z, {"queue"}))
                              /\ Held(direct'[z], {"header", "data"}, Given(z, {"direct"})),
           UNCHANGED <<sender, conn, snd_closed, snd_queue, receiver, backlog, _socket, recv,
                       rcv_queue, taken>>
    PROVE  TcpTypes'
<1> DEFINE u == T!Units(place, m)
<1>1. u \in Seq(Pieces(s)) /\ u \in Seq(AnyPiece)
  BY UnitsAre
<1> HIDE DEF u
<1>2. wire[s] \in Seq(Pieces(s)) /\ wire[s] \in Seq(AnyPiece)
  BY DEF TcpTypes, SenderHolds, TcpFunctions
<1>3. wire[s] \o u \in Seq(Pieces(s)) /\ wire[s] \o u \in Seq(AnyPiece)
  BY <1>1, <1>2, ConcatProperties
<1> DEFINE w == wire[s] \o u
<1>4. wire' = [wire EXCEPT ![s] = w]
  BY DEF u
<1> HIDE DEF w
<1>5. TcpFunctions'
  BY <1>3, <1>4 DEF TcpTypes, TcpFunctions, w
<1>6. ASSUME NEW z \in Senders PROVE SenderHolds(z)'
  <2>1. wire'[z] = IF z = s THEN w ELSE wire[z]
    BY <1>4 DEF TcpTypes, TcpFunctions
  <2> QED  BY <1>3, <2>1 DEF TcpTypes, SenderHolds, w
<1>7. ASSUME NEW r \in Receivers PROVE ReceiverHolds(r)'
  BY DEF TcpTypes, ReceiverHolds
<1> QED  BY <1>5, <1>6, <1>7 DEF TcpTypes

LEMMA SendWriteTypes ==
    ASSUME TcpTypes, NEW s \in Senders, T!SendWrite(s)
    PROVE  TcpTypes'
<1>1. thread[s] \in Position /\ thread[s].at \in {"header", "data"}
  BY DEF T!SendWrite, TcpTypes, TcpFunctions
<1>2. PICK m \in Given(s, {"queue"}) : thread[s].msgs = <<m>> /\ Head(thread[s].msgs) = m
  BY <1>1, HeldIs DEF TcpTypes, SenderHolds
<1>3. m \in Given(s, Ways)
  BY DEF Given, Ways
<1>4. /\ wire' = [wire EXCEPT ![s] = @ \o T!Units(thread[s].at, m)]
      /\ thread' = [thread EXCEPT ![s] = IF @.at = "header" THEN [@ EXCEPT !.at = "data"]
                                                            ELSE T!At("take", <<>>)]
      /\ UNCHANGED <<sender, conn, snd_closed, snd_queue, sent, direct, receiver, backlog,
                     _socket, recv, rcv_queue, taken>>
  BY <1>2 DEF T!SendWrite, T!directVars, T!recvVars, T!getVars
<1> DEFINE p == IF thread[s].at = "header" THEN [thread[s] EXCEPT !.at = "data"]
                ELSE T!At("take", <<>>)
<1>5. p \in Position
  BY <1>1, Empties DEF Position, Places
<1>6. Held(p, {"header", "data"}, Given(s, {"queue"}))
  <2>1. CASE thread[s].at = "header"
    <3>1. p.at = "data" /\ p.msgs = <<m>>
      BY <1>1, <1>2, <2>1 DEF Position
    <3> QED  BY <3>1 DEF Held
  <2>2. CASE thread[s].at # "header"
    BY <2>2, Empties
  <2> QED  BY <2>1, <2>2
<1>7. thread' = [thread EXCEPT ![s] = p]
  BY <1>4
<1> HIDE DEF p
<1>8. thread' \in [Senders -> Position]
  BY <1>5, <1>7 DEF TcpTypes, TcpFunctions
<1>9. ASSUME NEW z \in Senders
      PROVE  /\ Held(thread'[z], {"header", "data"}, Given(z, {"queue"}))
             /\ Held(direct'[z], {"header", "data"}, Given(z, {"direct"}))
  <2>1. thread'[z] = IF z = s THEN p ELSE thread[z]
    BY <1>7 DEF TcpTypes, TcpFunctions
  <2> QED  BY <1>4, <1>6, <2>1 DEF TcpTypes, SenderHolds
<1>10. direct' \in [Senders -> Position] /\ sent' \in [Senders -> Seq(Msgs)]
  BY <1>4 DEF TcpTypes, TcpFunctions
<1> QED  BY <1>1, <1>3, <1>4, <1>8, <1>9, <1>10, WriteTypes

LEMMA SendDirectTypes ==
    ASSUME TcpTypes, NEW s \in Senders, NEW size \in Nat, T!SendDirect(s, size)
    PROVE  TcpTypes'
<1> DEFINE m == T!Message(s, "direct", size)
           p == T!At("header", <<m>>)
<1>1. m \in Given(s, {"direct"}) /\ m \in Msgs
  BY MessageIs, GivenAre DEF TcpTypes
<1>2. direct' = [direct EXCEPT ![s] = p]
      /\ UNCHANGED <<sender, conn, snd_closed, snd_queue, sent, thread, wire, receiver, backlog,
                     _socket, recv, rcv_queue, taken>>
  BY DEF T!SendDirect, T!connVars, T!recvVars, T!getVars
<1> HIDE DEF m
<1>3. p \in Position /\ Held(p, {"header", "data"}, Given(s, {"direct"}))
  <2>1. <<m>> \in Seq(Msgs)
    BY <1>1
  <2>2. p \in Position /\ p.at = "header" /\ p.msgs = <<m>>
    BY <2>1, PositionIs DEF Places
  <2> QED  BY <1>1, <2>2 DEF Held
<1> HIDE DEF p
<1>4. TcpFunctions'
  BY <1>2, <1>3 DEF TcpTypes, TcpFunctions
<1>5. ASSUME NEW z \in Senders PROVE SenderHolds(z)'
  <2>1. direct'[z] = IF z = s THEN p ELSE direct[z]
    BY <1>2 DEF TcpTypes, TcpFunctions
  <2> QED  BY <1>2, <1>3, <2>1 DEF TcpTypes, SenderHolds
<1>6. ASSUME NEW r \in Receivers PROVE ReceiverHolds(r)'
  BY <1>2 DEF TcpTypes, ReceiverHolds
<1> QED  BY <1>4, <1>5, <1>6 DEF TcpTypes

LEMMA DirectWriteTypes ==
    ASSUME TcpTypes, NEW s \in Senders, T!DirectWrite(s)
    PROVE  TcpTypes'
<1>1. direct[s] \in Position /\ direct[s].at \in {"header", "data"}
  BY DEF T!DirectWrite, TcpTypes, TcpFunctions
<1>2. PICK m \in Given(s, {"direct"}) : direct[s].msgs = <<m>> /\ Head(direct[s].msgs) = m
  BY <1>1, HeldIs DEF TcpTypes, SenderHolds
<1>3. m \in Given(s, Ways) /\ m \in Msgs
  BY GivenAre DEF Given, Ways
<1>4. /\ wire' = [wire EXCEPT ![s] = @ \o T!Units(direct[s].at, m)]
      /\ UNCHANGED <<sender, conn, snd_closed, snd_queue, thread, receiver, backlog,
                     _socket, recv, rcv_queue, taken>>
  BY <1>2 DEF T!DirectWrite, T!recvVars, T!getVars
<1>5. \/ direct[s].at = "header" /\ direct' = [direct EXCEPT ![s].at = "data"]
         /\ sent' = [sent EXCEPT ![s] = @ \o direct[s].msgs]
      \/ direct[s].at = "data" /\ direct' = [direct EXCEPT ![s] = T!At("none", <<>>)]
         /\ sent' = sent
  BY DEF T!DirectWrite
<1>6. sent' \in [Senders -> Seq(Msgs)]
  <2>1. sent[s] \o direct[s].msgs \in Seq(Msgs)
    BY <1>1 DEF TcpTypes, TcpFunctions, Position
  <2> QED  BY <1>5, <2>1 DEF TcpTypes, TcpFunctions
<1> DEFINE p == IF direct[s].at = "header" THEN [direct[s] EXCEPT !.at = "data"]
                ELSE T!At("none", <<>>)
<1>7. p \in Position
  BY <1>1, Empties DEF Position, Places
<1>8. Held(p, {"header", "data"}, Given(s, {"direct"}))
  <2>1. CASE direct[s].at = "header"
    <3>1. p.at = "data" /\ p.msgs = <<m>>
      BY <1>1, <1>2, <2>1 DEF Position
    <3> QED  BY <3>1 DEF Held
  <2>2. CASE direct[s].at # "header"
    BY <2>2, Empties
  <2> QED  BY <2>1, <2>2
<1>9. direct' = [direct EXCEPT ![s] = p]
  BY <1>5
<1> HIDE DEF p
<1>10. direct' \in [Senders -> Position]
  BY <1>7, <1>9 DEF TcpTypes, TcpFunctions
<1>11. ASSUME NEW z \in Senders
       PROVE  /\ Held(thread'[z], {"header", "data"}, Given(z, {"queue"}))
              /\ Held(direct'[z], {"header", "data"}, Given(z, {"direct"}))
  <2>1. direct'[z] = IF z = s THEN p ELSE direct[z]
    BY <1>9 DEF TcpTypes, TcpFunctions
  <2> QED  BY <1>4, <1>8, <2>1 DEF TcpTypes, SenderHolds
<1>12. thread' \in [Senders -> Position]
  BY <1>4 DEF TcpTypes, TcpFunctions
<1> QED  BY <1>1, <1>3, <1>4, <1>6, <1>10, <1>11, <1>12, WriteTypes

(* A receiver's step: it may read from the wire of the sender it is        *)
(* connected to.                                                           *)
LEMMA ReceiverTypes ==
    ASSUME TcpTypes, NEW r \in Receivers, NEW p \in Position,
           recv' = [recv EXCEPT ![r] = p],
           NEW z \in Senders \union {NoSender}, _socket' = [_socket EXCEPT ![r] = z],
           Held(p, {"data", "push"}, Given(z, Ways \union {"none"})),
           p.at # "none" => z \in Senders, p.at = "data" => p.msgs[1].size > 0,
           receiver' \in [Receivers -> Stands], backlog' \in [Receivers -> Seq(Senders)],
           conn' \in [Senders -> Conns], rcv_queue' \in [Receivers -> Seq(Msgs)],
           \/ wire' = wire
           \/ _socket[r] \in Senders /\ wire[_socket[r]] # <<>>
              /\ wire' = [wire EXCEPT ![_socket[r]] = Tail(@)],
           UNCHANGED <<sender, snd_closed, snd_queue, sent, thread, direct, taken>>
    PROVE  TcpTypes'
<1> DEFINE w == Tail(wire[_socket[r]])
<1>1. ASSUME wire' # wire
      PROVE  /\ _socket[r] \in Senders /\ wire' = [wire EXCEPT ![_socket[r]] = w]
             /\ w \in Seq(Pieces(_socket[r])) /\ w \in Seq(AnyPiece)
  <2>1. _socket[r] \in Senders /\ wire[_socket[r]] # <<>>
        /\ wire' = [wire EXCEPT ![_socket[r]] = w]
    BY <1>1
  <2>2. wire[_socket[r]] \in Seq(Pieces(_socket[r])) /\ wire[_socket[r]] \in Seq(AnyPiece)
    BY <2>1 DEF TcpTypes, SenderHolds, TcpFunctions
  <2>3. w \in Seq(Pieces(_socket[r])) /\ w \in Seq(AnyPiece)
    BY <2>1, <2>2, HeadTailProperties
  <2> QED  BY <2>1, <2>3
<1> HIDE DEF w
<1>2. wire' \in [Senders -> Seq(AnyPiece)]
  BY <1>1 DEF TcpTypes, TcpFunctions
<1>3. TcpFunctions'
  BY <1>2 DEF TcpTypes, TcpFunctions
<1>4. ASSUME NEW x \in Senders PROVE SenderHolds(x)'
  <2>1. wire'[x] \in Seq(Pieces(x))
    <3>1. CASE wire' = wire
      BY <3>1 DEF TcpTypes, SenderHolds
    <3>2. CASE wire' # wire
      <4>1. wire'[x] = IF x = _socket[r] THEN w ELSE wire[x]
        BY <1>1, <3>2 DEF TcpTypes, TcpFunctions
      <4> QED  BY <1>1, <3>2, <4>1 DEF TcpTypes, SenderHolds
    <3> QED  BY <3>1, <3>2
  <2> QED  BY <2>1 DEF TcpTypes, SenderHolds
<1>5. ASSUME NEW x \in Receivers PROVE ReceiverHolds(x)'
  <2>1. /\ recv'[x] = IF x = r THEN p ELSE recv[x]
        /\ _socket'[x] = IF x = r THEN z ELSE _socket[x]
    BY DEF TcpTypes, TcpFunctions
  <2> QED  BY <2>1 DEF TcpTypes, ReceiverHolds
<1> QED  BY <1>3, <1>4, <1>5 DEF TcpTypes

(* Steps that leave alone what the types are about.                        *)
LEMMA QuietTypes ==
    ASSUME TcpTypes,
           sender' \in [Senders -> Stages], conn' \in [Senders -> Conns],
           receiver' \in [Receivers -> Stands], snd_closed' \in [Senders -> BOOLEAN],
           UNCHANGED <<snd_queue, sent, thread, direct, wire, backlog, _socket, recv, rcv_queue,
                       taken>>
    PROVE  TcpTypes'
<1>1. TcpFunctions'
  BY DEF TcpTypes, TcpFunctions
<1>2. ASSUME NEW z \in Senders PROVE SenderHolds(z)'
  BY DEF TcpTypes, SenderHolds
<1>3. ASSUME NEW r \in Receivers PROVE ReceiverHolds(r)'
  BY DEF TcpTypes, ReceiverHolds
<1> QED  BY <1>1, <1>2, <1>3 DEF TcpTypes

Unread(r) == /\ UNCHANGED <<sender, conn, snd_closed, snd_queue, sent, thread, direct, wire,
                            receiver, backlog, _socket, taken>>
             /\ rcv_queue' = rcv_queue

LEMMA IdleTypes ==
    ASSUME TcpTypes, NEW r \in Receivers, NEW where \in Places \ {"data", "push"},
           recv' = [recv EXCEPT ![r] = T!At(where, <<>>)],
           recv[r].at # "none", Unread(r)
    PROVE  TcpTypes'
<1> DEFINE p == T!At(where, <<>>)
<1>1. p \in Position /\ Held(p, {"data", "push"}, Given(_socket[r], Ways \union {"none"}))
      /\ p.at # "data"
  BY Empties, Empties DEF T!At
<1>2. _socket[r] \in Senders /\ _socket' = [_socket EXCEPT ![r] = _socket[r]]
  BY DEF TcpTypes, ReceiverHolds, TcpFunctions, Unread
<1>3. /\ receiver' \in [Receivers -> Stands] /\ backlog' \in [Receivers -> Seq(Senders)]
      /\ conn' \in [Senders -> Conns] /\ rcv_queue' \in [Receivers -> Seq(Msgs)]
  BY DEF TcpTypes, TcpFunctions, Unread
<1> HIDE DEF p
<1>4. recv' = [recv EXCEPT ![r] = p]
  BY DEF p
<1> QED  BY <1>1, <1>2, <1>3, <1>4, ReceiverTypes DEF Unread

LEMMA AcceptTypes ==
    ASSUME TcpTypes, NEW r \in Receivers, T!Accept(r)
    PROVE  TcpTypes'
<1> DEFINE z == Head(backlog[r])
           p == T!At("test", <<>>)
<1>1. backlog[r] \in Seq(Senders) /\ backlog[r] # <<>> /\ z \in Senders
  BY DEF T!Accept, TcpTypes, TcpFunctions
<1>2. p \in Position /\ Held(p, {"data", "push"}, Given(z, Ways \union {"none"}))
      /\ p.at # "data"
  BY Empties DEF T!At, Places
<1>3. /\ recv' = [recv EXCEPT ![r] = p] /\ _socket' = [_socket EXCEPT ![r] = z]
      /\ backlog' = [backlog EXCEPT ![r] = <<>>]
      /\ receiver' = [receiver EXCEPT ![r] = IF @ = "accepting" THEN "open" ELSE @]
      /\ conn' = [s \in Senders |-> IF s \in T!Range(Tail(backlog[r])) THEN "reset" ELSE conn[s]]
      /\ UNCHANGED <<sender, snd_closed, snd_queue, sent, thread, direct, wire, rcv_queue, taken>>
  BY DEF T!Accept, T!sendVars, T!directVars, T!getVars
<1> HIDE DEF z, p
<1>4. /\ receiver' \in [Receivers -> Stands] /\ backlog' \in [Receivers -> Seq(Senders)]
      /\ conn' \in [Senders -> Conns] /\ rcv_queue' \in [Receivers -> Seq(Msgs)]
  BY <1>3, Empties DEF TcpTypes, TcpFunctions, Stages, Stands, Conns
<1>5. z \in Senders \union {NoSender} /\ wire' = wire
  BY <1>1, <1>3
<1> QED  BY <1>1, <1>2, <1>3, <1>4, <1>5, ReceiverTypes

(* What a receiver reads.                                                  *)
ReadUnit(r, p) ==
    /\ _socket[r] \in Senders /\ wire[_socket[r]] # <<>>
    /\ wire' = [wire EXCEPT ![_socket[r]] = Tail(@)]
    /\ recv' = [recv EXCEPT ![r] = p]
    /\ UNCHANGED <<sender, conn, snd_closed, snd_queue, sent, thread, direct, receiver, backlog,
                   _socket, rcv_queue, taken>>

LEMMA ReadTypes ==
    ASSUME TcpTypes, NEW r \in Receivers, NEW p \in Position, ReadUnit(r, p),
           Held(p, {"data", "push"}, Given(_socket[r], Ways \union {"none"})),
           p.at = "data" => p.msgs[1].size > 0
    PROVE  TcpTypes'
<1>1. _socket[r] \in Senders /\ _socket' = [_socket EXCEPT ![r] = _socket[r]]
  BY DEF TcpTypes, TcpFunctions, ReadUnit
<1>2. /\ receiver' \in [Receivers -> Stands] /\ backlog' \in [Receivers -> Seq(Senders)]
      /\ conn' \in [Senders -> Conns] /\ rcv_queue' \in [Receivers -> Seq(Msgs)]
  BY DEF TcpTypes, TcpFunctions, ReadUnit
<1> QED  BY <1>1, <1>2, ReceiverTypes DEF ReadUnit

LEMMA PieceIs ==
    ASSUME TcpTypes, NEW r \in Receivers, _socket[r] \in Senders, wire[_socket[r]] # <<>>
    PROVE  /\ Head(wire[_socket[r]]) \in Pieces(_socket[r])
           /\ Head(wire[_socket[r]]) \in AnyPiece
           /\ Head(wire[_socket[r]]).msg \in Msgs
           /\ Head(wire[_socket[r]]).msg \in Given(_socket[r], Ways)
           /\ Head(wire[_socket[r]]).part \in {"header", "data"}
           /\ Head(wire[_socket[r]]).part = "data" => Head(wire[_socket[r]]).msg.size > 0
<1> DEFINE u == Head(wire[_socket[r]])
<1>1. u \in Pieces(_socket[r])
  <2>1. wire[_socket[r]] \in Seq(Pieces(_socket[r]))
    BY DEF TcpTypes, SenderHolds
  <2> QED  BY <2>1, HeadTailProperties
<1> HIDE DEF u
<1>2. u \in AnyPiece /\ u.msg \in Given(_socket[r], Ways) /\ (u.part = "data" => u.msg.size > 0)
  BY <1>1 DEF Pieces
<1>3. u.msg \in Msgs /\ u.part \in {"header", "data"}
  BY <1>2 DEF AnyPiece
<1> QED  BY <1>1, <1>2, <1>3 DEF u

LEMMA RecvHeaderIs ==
    ASSUME TcpTypes, NEW r \in Receivers, T!RecvHeader(r)
    PROVE  \E p \in Position :
              /\ ReadUnit(r, p) /\ recv[r].at = "header" /\ conn[_socket[r]] # "reset"
              /\ LET u    == Head(wire[_socket[r]])
                     size == IF u.part = "header" THEN u.msg.size ELSE _header[r]
                 IN  p = IF size = 0 THEN T!At("test", <<>>) ELSE T!At("data", <<u.msg>>)
<1> DEFINE u == Head(wire[_socket[r]])
           size == IF u.part = "header" THEN u.msg.size ELSE _header[r]
           p == IF size = 0 THEN T!At("test", <<>>) ELSE T!At("data", <<u.msg>>)
<1>1. recv[r].at = "header" /\ wire[_socket[r]] # <<>> /\ conn[_socket[r]] # "reset"
  BY DEF T!RecvHeader, T!Readable
<1>2. _socket[r] \in Senders
  BY <1>1 DEF TcpTypes, ReceiverHolds
<1>3. u.msg \in Msgs
  BY <1>1, <1>2, PieceIs
<1>4. ReadUnit(r, p)
  BY <1>1, <1>2 DEF T!RecvHeader, ReadUnit, T!sendVars, T!directVars, T!getVars
<1> HIDE DEF u, size
<1>5. p \in Position
  <2>1. <<u.msg>> \in Seq(Msgs)
    BY <1>3
  <2> QED  BY <2>1, PositionIs, Empties DEF Places
<1> QED  BY <1>1, <1>4, <1>5 DEF u, size

LEMMA RecvHeaderTypes ==
    ASSUME TcpTypes, NEW r \in Receivers, T!RecvHeader(r)
    PROVE  TcpTypes'
<1> DEFINE u == Head(wire[_socket[r]])
           size == IF u.part = "header" THEN u.msg.size ELSE _header[r]
<1>1. PICK p \in Position : ReadUnit(r, p) /\ p = IF size = 0 THEN T!At("test", <<>>)
                                                  ELSE T!At("data", <<u.msg>>)
  BY RecvHeaderIs
<1>2. _socket[r] \in Senders /\ wire[_socket[r]] # <<>>
  BY <1>1 DEF ReadUnit
<1>3. /\ u.msg \in Given(_socket[r], Ways) /\ u.part \in {"header", "data"}
      /\ (u.part = "data" => u.msg.size > 0) /\ u.msg.size \in Nat
  BY <1>2, PieceIs DEF Msgs
<1> DEFINE m == u.msg
<1>4. m \in Given(_socket[r], Ways \union {"none"})
  BY <1>3 DEF Given, Ways
<1>5. size # 0 => m.size > 0
  BY <1>3
<1> HIDE DEF size, m, u
<1>6. p = IF size = 0 THEN T!At("test", <<>>) ELSE T!At("data", <<m>>)
  BY <1>1 DEF m
<1>7. Held(p, {"data", "push"}, Given(_socket[r], Ways \union {"none"}))
      /\ (p.at = "data" => p.msgs[1].size > 0)
  <2>1. CASE size = 0
    BY <1>6, <2>1 DEF T!At, Held
  <2>2. CASE size # 0
    <3>1. p.at = "data" /\ p.msgs = <<m>>
      BY <1>6, <2>2 DEF T!At
    <3> QED  BY <1>4, <1>5, <2>2, <3>1 DEF Held
  <2> QED  BY <2>1, <2>2
<1> QED  BY <1>1, <1>7, ReadTypes

LEMMA RecvDataIs ==
    ASSUME TcpTypes, NEW r \in Receivers, T!RecvData(r)
    PROVE  \E p \in Position :
              /\ ReadUnit(r, p) /\ recv[r].at = "data" /\ conn[_socket[r]] # "reset"
              /\ LET u   == Head(wire[_socket[r]])
                     got == IF u.part = "data" THEN u.msg ELSE [u.msg EXCEPT !.way = "none"]
                 IN  p = T!At("push", <<got>>) /\ got \in Msgs
<1> DEFINE u == Head(wire[_socket[r]])
           got == IF u.part = "data" THEN u.msg ELSE [u.msg EXCEPT !.way = "none"]
           p == T!At("push", <<got>>)
<1>1. recv[r].at = "data" /\ wire[_socket[r]] # <<>> /\ conn[_socket[r]] # "reset"
  BY DEF T!RecvData, T!Readable
<1>2. _socket[r] \in Senders
  BY <1>1 DEF TcpTypes, ReceiverHolds
<1>3. u.msg \in Msgs
  BY <1>1, <1>2, PieceIs
<1>4. ReadUnit(r, p)
  BY <1>1, <1>2 DEF T!RecvData, ReadUnit, T!sendVars, T!directVars, T!getVars
<1>5. got \in Msgs
  BY <1>3 DEF Msgs
<1> HIDE DEF got, u
<1>6. p \in Position
  <2>1. <<got>> \in Seq(Msgs)
    BY <1>5
  <2> QED  BY <2>1, PositionIs DEF Places
<1> QED  BY <1>1, <1>4, <1>5, <1>6 DEF u, got

LEMMA RecvDataTypes ==
    ASSUME TcpTypes, NEW r \in Receivers, T!RecvData(r)
    PROVE  TcpTypes'
<1> DEFINE u == Head(wire[_socket[r]])
           got == IF u.part = "data" THEN u.msg ELSE [u.msg EXCEPT !.way = "none"]
<1>1. PICK p \in Position : ReadUnit(r, p) /\ p = T!At("push", <<got>>)
  BY RecvDataIs
<1>2. _socket[r] \in Senders /\ wire[_socket[r]] # <<>>
  BY <1>1 DEF ReadUnit
<1>3. u.msg \in Given(_socket[r], Ways)
  BY <1>2, PieceIs
<1>4. got \in Given(_socket[r], Ways \union {"none"})
  BY <1>3 DEF Given, Ways
<1> HIDE DEF got
<1>5. p.at = "push" /\ p.msgs = <<got>>
  BY <1>1 DEF T!At
<1>6. Held(p, {"data", "push"}, Given(_socket[r], Ways \union {"none"}))
  BY <1>4, <1>5 DEF Held
<1> QED  BY <1>1, <1>5, <1>6, ReadTypes

LEMMA RecvPushTypes ==
    ASSUME TcpTypes, NEW r \in Receivers, T!RecvPush(r)
    PROVE  TcpTypes'
<1> DEFINE p == T!At("notify", <<>>)
<1>1. p \in Position /\ Held(p, {"data", "push"}, Given(_socket[r], Ways \union {"none"}))
      /\ p.at # "data"
  BY Empties DEF T!At, Places
<1>2. recv[r].at = "push" /\ rcv_queue' = [rcv_queue EXCEPT ![r] = @ \o recv[r].msgs]
      /\ recv' = [recv EXCEPT ![r] = p]
      /\ UNCHANGED <<sender, conn, snd_closed, snd_queue, sent, thread, direct, wire, receiver,
                     backlog, _socket, taken>>
  BY DEF T!RecvPush, T!sendVars, T!directVars, T!connVars, T!getVars
<1>3. _socket[r] \in Senders /\ _socket' = [_socket EXCEPT ![r] = _socket[r]]
  BY <1>2 DEF TcpTypes, ReceiverHolds, TcpFunctions
<1>4. rcv_queue[r] \o recv[r].msgs \in Seq(Msgs)
  <2>1. rcv_queue[r] \in Seq(Msgs) /\ recv[r].msgs \in Seq(Msgs)
    BY DEF TcpTypes, TcpFunctions, Position
  <2> QED  BY <2>1, ConcatProperties
<1>5. /\ receiver' \in [Receivers -> Stands] /\ backlog' \in [Receivers -> Seq(Senders)]
      /\ conn' \in [Senders -> Conns] /\ rcv_queue' \in [Receivers -> Seq(Msgs)]
  BY <1>2, <1>4 DEF TcpTypes, TcpFunctions
<1> HIDE DEF p
<1> QED  BY <1>1, <1>2, <1>3, <1>5, ReceiverTypes

LEMMA GetTakeTypes ==
    ASSUME TcpTypes, NEW g \in Getters, T!GetTake(g)
    PROVE  TcpTypes'
<1> DEFINE r == From[g]
<1>1. r \in Receivers
  BY TcpAssumption
<1> HIDE DEF r
<1>2. /\ rcv_queue[r] # <<>>
      /\ taken' = [taken EXCEPT ![r] = Append(@, Head(rcv_queue[r]))]
      /\ rcv_queue' = [rcv_queue EXCEPT ![r] = Tail(@)]
      /\ UNCHANGED <<sender, conn, snd_closed, snd_queue, sent, thread, direct, wire, receiver,
                     backlog, _socket, recv>>
  BY DEF T!GetTake, T!sendVars, T!directVars, T!connVars, r
<1>3. rcv_queue[r] \in Seq(Msgs) /\ taken[r] \in Seq(Msgs)
  BY <1>1 DEF TcpTypes, TcpFunctions
<1>4. Append(taken[r], Head(rcv_queue[r])) \in Seq(Msgs) /\ Tail(rcv_queue[r]) \in Seq(Msgs)
  BY <1>2, <1>3
<1>5. TcpFunctions'
  BY <1>2, <1>4 DEF TcpTypes, TcpFunctions
<1>6. ASSUME NEW z \in Senders PROVE SenderHolds(z)'
  BY <1>2 DEF TcpTypes, SenderHolds
<1>7. ASSUME NEW x \in Receivers PROVE ReceiverHolds(x)'
  BY <1>2 DEF TcpTypes, ReceiverHolds
<1> QED  BY <1>5, <1>6, <1>7 DEF TcpTypes

LEMMA SizesAre == ASSUME NEW s \in Senders, NEW size \in Sizes[s] PROVE size \in Nat
BY TcpAssumption

LEMMA StepTypes ==
    ASSUME TcpTypes, T!TcpNext
    PROVE  TcpTypes'
<1> USE DEF T!sendVars, T!directVars, T!connVars, T!recvVars, T!getVars
<1>1. ASSUME NEW s \in Senders,
             \/ T!MakeSender(s) \/ T!ConnectRefused(s) \/ T!SenderOpens(s) \/ T!CloseSender(s)
             \/ T!JoinSender(s) \/ T!Break(s)
      PROVE  TcpTypes'
  <2>1. /\ sender' \in [Senders -> Stages] /\ conn' \in [Senders -> Conns]
        /\ receiver' \in [Receivers -> Stands] /\ snd_closed' \in [Senders -> BOOLEAN]
        /\ UNCHANGED <<snd_queue, sent, thread, direct, wire, backlog, _socket, recv, rcv_queue,
                       taken>>
    BY <1>1 DEF TcpTypes, TcpFunctions, Stages, Stands, Conns, T!MakeSender, T!ConnectRefused,
                T!SenderOpens,
                T!CloseSender, T!JoinSender, T!Break
  <2> QED  BY <2>1, QuietTypes
<1>2. ASSUME NEW s \in Senders, T!Connect(s) PROVE TcpTypes'
  <2>0. To[s] \in Receivers /\ Append(backlog[To[s]], s) \in Seq(Senders)
    BY TcpAssumption DEF TcpTypes, TcpFunctions
  <2>1. /\ sender' \in [Senders -> Stages] /\ conn' \in [Senders -> Conns]
        /\ backlog' \in [Receivers -> Seq(Senders)]
    BY <1>2, <2>0 DEF TcpTypes, TcpFunctions, Stages, Stands, Conns, T!Connect
  <2>2. thread' = [thread EXCEPT ![s] = T!At("take", <<>>)] /\ direct' = direct
        /\ UNCHANGED <<snd_closed, snd_queue, sent, wire, receiver, _socket, recv, rcv_queue,
                       taken>>
    BY <1>2 DEF T!Connect
  <2> QED  BY <2>1, <2>2, LetGoTypes DEF Places
<1>3. ASSUME NEW s \in Senders, NEW size \in Sizes[s], T!Send(s, size) PROVE TcpTypes'
  BY <1>3, SizesAre, SendTypes
<1>4. ASSUME NEW s \in Senders, NEW size \in Sizes[s], T!SendDirect(s, size) PROVE TcpTypes'
  BY <1>4, SizesAre, SendDirectTypes
<1>5. ASSUME NEW s \in Senders, T!DirectWrite(s) PROVE TcpTypes'
  BY <1>5, DirectWriteTypes
<1>6. ASSUME NEW s \in Senders, T!DirectFails(s) PROVE TcpTypes'
  <2>1. /\ sender' \in [Senders -> Stages] /\ conn' \in [Senders -> Conns]
        /\ backlog' \in [Receivers -> Seq(Senders)]
    BY <1>6 DEF TcpTypes, TcpFunctions, T!DirectFails
  <2>2. direct' = [direct EXCEPT ![s] = T!At("none", <<>>)] /\ thread' = thread
        /\ UNCHANGED <<snd_closed, snd_queue, sent, wire, receiver, _socket, recv, rcv_queue,
                       taken>>
    BY <1>6 DEF T!DirectFails
  <2> QED  BY <2>1, <2>2, LetGoTypes DEF Places
<1>7. ASSUME NEW s \in Senders, T!SendTake(s) PROVE TcpTypes'
  BY <1>7, SendTakeTypes
<1>8. ASSUME NEW s \in Senders, T!SendEnd(s) \/ T!SendFails(s) PROVE TcpTypes'
  <2>1. /\ sender' \in [Senders -> Stages] /\ conn' \in [Senders -> Conns]
        /\ backlog' \in [Receivers -> Seq(Senders)]
    BY <1>8 DEF TcpTypes, TcpFunctions, T!SendEnd, T!SendFails
  <2>2. PICK where \in {"stillborn", "end"} : thread' = [thread EXCEPT ![s] = T!At(where, <<>>)]
    BY <1>8 DEF T!SendEnd, T!SendFails
  <2>3. direct' = direct
        /\ UNCHANGED <<snd_closed, snd_queue, sent, wire, receiver, _socket, recv, rcv_queue,
                       taken>>
    BY <1>8 DEF T!SendEnd, T!SendFails
  <2>4. where \in Places \ {"header", "data"}
    BY DEF Places
  <2> QED  BY <2>1, <2>2, <2>3, <2>4, LetGoTypes
<1>9. ASSUME NEW s \in Senders, T!SendWrite(s) PROVE TcpTypes'
  BY <1>9, SendWriteTypes
<1>10. ASSUME NEW s \in Senders, T!Crash(s) PROVE TcpTypes'
  <2> DEFINE p == T!At("end", <<>>)
             q == T!At("none", <<>>)
  <2>1. /\ p \in Position /\ q \in Position
        /\ \A msgs : Held(p, {"header", "data"}, msgs) /\ Held(q, {"header", "data"}, msgs)
    BY Empties DEF Places
  <2> HIDE DEF p, q
  <2>2. /\ thread' = [thread EXCEPT ![s] = p] /\ direct' = [direct EXCEPT ![s] = q]
        /\ sender' = [sender EXCEPT ![s] = "crashed"]
        /\ conn' = [conn EXCEPT ![s] = IF @ = "open" THEN "closed" ELSE @]
        /\ UNCHANGED <<snd_closed, snd_queue, sent, wire, receiver, backlog, _socket, recv,
                       rcv_queue, taken>>
    BY <1>10 DEF T!Crash, p, q
  <2>3. TcpFunctions'
    BY <2>1, <2>2 DEF TcpTypes, TcpFunctions, Stages, Stands, Conns
  <2>4. ASSUME NEW z \in Senders PROVE SenderHolds(z)'
    <3>1. /\ thread'[z] = IF z = s THEN p ELSE thread[z]
          /\ direct'[z] = IF z = s THEN q ELSE direct[z]
      BY <2>2 DEF TcpTypes, TcpFunctions
    <3> QED  BY <2>1, <2>2, <3>1 DEF TcpTypes, SenderHolds
  <2>5. ASSUME NEW r \in Receivers PROVE ReceiverHolds(r)'
    BY <2>2 DEF TcpTypes, ReceiverHolds
  <2> QED  BY <2>3, <2>4, <2>5 DEF TcpTypes
<1>11. ASSUME NEW r \in Receivers,
              T!MakeReceiver(r) \/ T!Listen(r) \/ T!CloseReceiver(r) \/ T!JoinReceiver(r)
       PROVE  TcpTypes'
  <2>1. /\ sender' \in [Senders -> Stages] /\ conn' \in [Senders -> Conns]
        /\ receiver' \in [Receivers -> Stands] /\ snd_closed' \in [Senders -> BOOLEAN]
        /\ UNCHANGED <<snd_queue, sent, thread, direct, wire, backlog, _socket, recv, rcv_queue,
                       taken>>
    BY <1>11 DEF TcpTypes, TcpFunctions, Stages, Stands, Conns, T!MakeReceiver, T!Listen,
                 T!CloseReceiver,
                 T!JoinReceiver
  <2> QED  BY <2>1, QuietTypes
<1>12. ASSUME NEW r \in Receivers, T!Accept(r) PROVE TcpTypes'
  BY <1>12, AcceptTypes
<1>13. ASSUME NEW r \in Receivers,
              T!RecvTest(r) \/ T!RecvEnd(r) \/ T!RecvFails(r) \/ T!RecvNotify(r)
       PROVE  TcpTypes'
  <2>1. PICK where \in {"end", "header", "accept", "test"} :
           recv' = [recv EXCEPT ![r] = T!At(where, <<>>)]
    BY <1>13 DEF T!RecvTest, T!RecvEnd, T!RecvFails, T!RecvNotify
  <2>2. recv[r].at # "none" /\ Unread(r)
    BY <1>13 DEF T!RecvTest, T!RecvEnd, T!RecvFails, T!RecvNotify, T!Readable, Unread
  <2>3. where \in Places \ {"data", "push"}
    BY DEF Places
  <2> QED  BY <2>1, <2>2, <2>3, IdleTypes
<1>14. ASSUME NEW r \in Receivers, T!RecvHeader(r) PROVE TcpTypes'
  BY <1>14, RecvHeaderTypes
<1>15. ASSUME NEW r \in Receivers, T!RecvData(r) PROVE TcpTypes'
  BY <1>15, RecvDataTypes
<1>16. ASSUME NEW r \in Receivers, T!RecvPush(r) PROVE TcpTypes'
  BY <1>16, RecvPushTypes
<1>17. ASSUME NEW g \in Getters, T!GetTake(g) PROVE TcpTypes'
  BY <1>17, GetTakeTypes
<1>18. ASSUME NEW g \in Getters, T!GetTest(g) \/ T!GetSleep(g) \/ T!SpuriousWakeup(g)
       PROVE  TcpTypes'
  <2>1. /\ sender' \in [Senders -> Stages] /\ conn' \in [Senders -> Conns]
        /\ receiver' \in [Receivers -> Stands] /\ snd_closed' \in [Senders -> BOOLEAN]
        /\ UNCHANGED <<snd_queue, sent, thread, direct, wire, backlog, _socket, recv, rcv_queue,
                       taken>>
    BY <1>18 DEF TcpTypes, TcpFunctions, T!GetTest, T!GetSleep, T!SpuriousWakeup
  <2> QED  BY <2>1, QuietTypes
<1> QED
  BY <1>1, <1>2, <1>3, <1>4, <1>5, <1>6, <1>7, <1>8, <1>9, <1>10, <1>11, <1>12, <1>13, <1>14,
     <1>15, <1>16, <1>17, <1>18
  DEF T!TcpNext, T!SenderThread, T!ReceiverThread

-----------------------------------------------------------------------------
(* Where the senders are after a step.                                     *)
Lives == (\A s \in Senders : Life(s)) /\ (\A r \in Receivers : Linked(r))

(* What a step of sender s leaves alone of the others.                     *)
OnlyOf(s) ==
    /\ \A z \in Senders \ {s} :
          /\ sender'[z] = sender[z] /\ conn'[z] = conn[z] /\ thread'[z] = thread[z]
          /\ direct'[z] = direct[z] /\ snd_closed'[z] = snd_closed[z]
          /\ snd_queue'[z] = snd_queue[z] /\ sent'[z] = sent[z] /\ wire'[z] = wire[z]
          /\ (z \in mixed' <=> z \in mixed)
    /\ UNCHANGED <<receiver, listening, _socket, recv, rcv_queue, taken>>

LEMMA OthersLive ==
    ASSUME NEW s \in Senders, OnlyOf(s), Lives, Life(s)'
    PROVE  \A z \in Senders : Life(z)'
<1> SUFFICES ASSUME NEW z \in Senders, z # s PROVE Life(z)'
  OBVIOUS
<1> QED  BY DEF Lives, Life, OnlyOf

SenderStep(s) ==
    \/ T!MakeSender(s) \/ T!Connect(s) \/ T!ConnectRefused(s) \/ T!SenderOpens(s)
    \/ \E size \in Sizes[s] : T!Send(s, size)
    \/ \E size \in Sizes[s] : T!SendDirect(s, size)
    \/ T!DirectWrite(s) \/ T!DirectFails(s)
    \/ T!SenderThread(s) \/ T!CloseSender(s) \/ T!JoinSender(s) \/ T!Crash(s) \/ T!Break(s)

LEMMA OnlyOne ==
    ASSUME TcpTypes, NEW s \in Senders, SenderStep(s)
    PROVE  OnlyOf(s)
<1> USE DEF T!sendVars, T!directVars, T!connVars, T!recvVars, T!getVars, TcpTypes, TcpFunctions,
            OnlyOf
<1>1. CASE T!MakeSender(s) \/ T!Connect(s) \/ T!ConnectRefused(s) \/ T!SenderOpens(s)
  BY <1>1 DEF T!MakeSender, T!Connect, T!ConnectRefused, T!SenderOpens
<1>2. ASSUME NEW size, T!Send(s, size) PROVE OnlyOf(s)
  BY <1>2 DEF T!Send
<1>3. ASSUME NEW size, T!SendDirect(s, size) PROVE OnlyOf(s)
  BY <1>3 DEF T!SendDirect
<1>4. CASE T!DirectWrite(s)
  BY <1>4 DEF T!DirectWrite
<1>5. CASE T!DirectFails(s)
  BY <1>5 DEF T!DirectFails
<1>6. CASE T!SendTake(s)
  BY <1>6 DEF T!SendTake
<1>7. CASE T!SendEnd(s) \/ T!SendFails(s)
  BY <1>7 DEF T!SendEnd, T!SendFails
<1>8. CASE T!SendWrite(s)
  BY <1>8 DEF T!SendWrite
<1>9. CASE T!CloseSender(s) \/ T!JoinSender(s) \/ T!Crash(s) \/ T!Break(s)
  BY <1>9 DEF T!CloseSender, T!JoinSender, T!Crash, T!Break
<1> QED  BY <1>1, <1>2, <1>3, <1>4, <1>5, <1>6, <1>7, <1>8, <1>9 DEF SenderStep, T!SenderThread

LEMMA StepLife ==
    ASSUME TcpTypes, NEW s \in Senders, Life(s), SenderStep(s)
    PROVE  Life(s)'
<1> USE DEF T!sendVars, T!directVars, T!connVars, T!recvVars, T!getVars, TcpTypes, TcpFunctions,
            Life, T!At
<1>0. thread[s] \in Position /\ direct[s] \in Position
  OBVIOUS
<1>1. CASE T!MakeSender(s)
  BY <1>1 DEF T!MakeSender
<1>2. CASE T!Connect(s)
  BY <1>2 DEF T!Connect
<1>3. CASE T!ConnectRefused(s)
  BY <1>3 DEF T!ConnectRefused
<1>4. CASE T!SenderOpens(s)
  BY <1>4 DEF T!SenderOpens
<1>5. ASSUME NEW size, T!Send(s, size) PROVE Life(s)'
  BY <1>5 DEF T!Send
<1>6. ASSUME NEW size, T!SendDirect(s, size) PROVE Life(s)'
  BY <1>6 DEF T!SendDirect
<1>7. CASE T!DirectWrite(s)
  <2>1. direct'[s].at \in {"none", "data"} /\ (direct[s].at # "none")
    BY <1>0, <1>7 DEF T!DirectWrite, Position
  <2> QED  BY <1>7, <2>1 DEF T!DirectWrite
<1>8. CASE T!DirectFails(s)
  BY <1>8 DEF T!DirectFails
<1>9. CASE T!SendTake(s)
  BY <1>9 DEF T!SendTake
<1>10. CASE T!SendEnd(s)
  <2>1. sender[s] \in {"started", "joining"} /\ snd_queue[s] = <<>>
    BY <1>10 DEF T!SendEnd, Stages
  <2> QED  BY <1>10, <2>1 DEF T!SendEnd
<1>11. CASE T!SendFails(s)
  BY <1>11 DEF T!SendFails
<1>12. CASE T!SendWrite(s)
  <2>1. thread'[s].at \in {"take", "data"} /\ (thread'[s].at = "data" => thread[s].at = "header")
    BY <1>0, <1>12 DEF T!SendWrite, Position
  <2> QED  BY <1>12, <2>1 DEF T!SendWrite
<1>13. CASE T!CloseSender(s)
  BY <1>13 DEF T!CloseSender
<1>14. CASE T!JoinSender(s)
  BY <1>14 DEF T!JoinSender
<1>15. CASE T!Crash(s)
  BY <1>15 DEF T!Crash
<1>16. CASE T!Break(s)
  BY <1>16 DEF T!Break
<1> QED
  BY <1>1, <1>2, <1>3, <1>4, <1>5, <1>6, <1>7, <1>8, <1>9, <1>10, <1>11, <1>12, <1>13, <1>14,
     <1>15, <1>16
  DEF SenderStep, T!SenderThread

LEMMA SenderStepLives ==
    ASSUME TcpTypes, Lives, NEW s \in Senders, SenderStep(s)
    PROVE  Lives'
<1>1. OnlyOf(s)
  BY OnlyOne
<1>2. \A z \in Senders : Life(z)'
  BY <1>1, StepLife, OthersLive DEF Lives
<1>3. \A z \in Senders : conn[z] # "none" => conn'[z] # "none"
  <2>1. conn[s] # "none" => conn'[s] # "none"
    <3>1. conn' = conn \/ conn' = [conn EXCEPT ![s] = "open"]
          \/ conn' = [conn EXCEPT ![s] = "reset"]
          \/ conn' = [conn EXCEPT ![s] = IF @ = "open" THEN "closed" ELSE @]
      BY DEF SenderStep, T!SenderThread, T!MakeSender, T!Connect, T!ConnectRefused, T!SenderOpens,
             T!Send, T!SendDirect, T!DirectWrite, T!DirectFails, T!SendTake, T!SendEnd,
             T!SendFails, T!SendWrite, T!CloseSender, T!JoinSender, T!Crash, T!Break, T!connVars
    <3> QED  BY <3>1 DEF TcpTypes, TcpFunctions
  <2> QED  BY <1>1, <2>1 DEF OnlyOf
<1>4. \/ backlog' = backlog
      \/ backlog' = [backlog EXCEPT ![To[s]] = Append(@, s)] /\ conn'[s] # "none"
  BY DEF SenderStep, T!SenderThread, T!MakeSender, T!Connect, T!ConnectRefused, T!SenderOpens,
         T!Send, T!SendDirect, T!DirectWrite, T!DirectFails, T!SendTake, T!SendEnd,
         T!SendFails, T!SendWrite, T!CloseSender, T!JoinSender, T!Crash, T!Break, T!connVars,
         TcpTypes, TcpFunctions
<1>5. ASSUME NEW r \in Receivers PROVE Linked(r)'
  <2>1. backlog[r] \in Seq(Senders)
    BY DEF TcpTypes, TcpFunctions
  <2>2. \A n \in 1..Len(backlog[r]) :
           /\ backlog[r][n] \in Senders
           /\ To[backlog[r][n]] = r /\ conn[backlog[r][n]] # "none"
    BY <2>1 DEF Lives, Linked
  <2>3. \A n \in 1..Len(backlog'[r]) : To[backlog'[r][n]] = r /\ conn'[backlog'[r][n]] # "none"
    <3>1. CASE backlog'[r] = backlog[r]
      BY <1>3, <2>2, <3>1
    <3>2. CASE backlog'[r] # backlog[r]
      <4>1. backlog'[r] = Append(backlog[r], s) /\ r = To[s] /\ conn'[s] # "none"
        BY <1>4, <3>2 DEF TcpTypes, TcpFunctions
      <4> TAKE n \in 1..Len(backlog'[r])
      <4>2. CASE n = Len(backlog[r]) + 1
        BY <2>1, <4>1, <4>2
      <4>3. CASE n # Len(backlog[r]) + 1
        <5>1. n \in 1..Len(backlog[r]) /\ backlog'[r][n] = backlog[r][n]
          BY <2>1, <4>1, <4>3
        <5> QED  BY <1>3, <2>2, <5>1
      <4> QED  BY <4>2, <4>3
    <3> QED  BY <3>1, <3>2
  <2> QED  BY <1>1, <2>3 DEF OnlyOf, Lives, Linked, T!Accepting
<1> QED  BY <1>2, <1>5 DEF Lives

-----------------------------------------------------------------------------
(* And after a step of a receiver or a getter.                             *)
LEMMA SendersLive ==
    ASSUME Lives, UNCHANGED <<sender, conn, thread, direct, snd_closed, snd_queue, mixed>>
    PROVE  \A z \in Senders : Life(z)'
BY DEF Lives, Life

LEMMA AcceptLives ==
    ASSUME TcpTypes, Lives, NEW r \in Receivers, T!Accept(r)
    PROVE  Lives'
<1>1. /\ r \in listening /\ backlog[r] # <<>> /\ backlog[r] \in Seq(Senders)
      /\ _socket' = [_socket EXCEPT ![r] = Head(backlog[r])]
      /\ conn' = [s \in Senders |-> IF s \in T!Range(Tail(backlog[r])) THEN "reset" ELSE conn[s]]
      /\ listening' = listening \ {r} /\ backlog' = [backlog EXCEPT ![r] = <<>>]
      /\ receiver' = [receiver EXCEPT ![r] = IF @ = "accepting" THEN "open" ELSE @]
      /\ recv' = [recv EXCEPT ![r] = T!At("test", <<>>)]
      /\ UNCHANGED <<sender, thread, direct, snd_closed, snd_queue, mixed>>
  BY DEF T!Accept, T!sendVars, T!directVars, TcpTypes, TcpFunctions
<1>2. \A n \in 1..Len(backlog[r]) : /\ backlog[r][n] \in Senders
                                    /\ To[backlog[r][n]] = r /\ conn[backlog[r][n]] # "none"
  BY <1>1 DEF Lives, Linked
<1>3. \A s \in Senders : s \in T!Range(Tail(backlog[r])) => conn[s] # "none"
  <2> SUFFICES ASSUME NEW s \in Senders, s \in T!Range(Tail(backlog[r])) PROVE conn[s] # "none"
    OBVIOUS
  <2>1. PICK n \in DOMAIN Tail(backlog[r]) : s = Tail(backlog[r])[n]
    BY DEF T!Range
  <2>2. n + 1 \in 1..Len(backlog[r]) /\ s = backlog[r][n + 1]
    BY <1>1, <2>1
  <2> QED  BY <1>2, <2>2
<1>4. \A s \in Senders : conn'[s] = conn[s] \/ (conn'[s] = "reset" /\ conn[s] # "none")
  BY <1>1, <1>3
<1>5. ASSUME NEW s \in Senders PROVE Life(s)'
  BY <1>1, <1>4 DEF Lives, Life
<1>6. ASSUME NEW x \in Receivers PROVE Linked(x)'
  <2>1. CASE x = r
    <3>1. Head(backlog[r]) \in Senders /\ To[Head(backlog[r])] = r
      BY <1>1, <1>2
    <3>2. _socket'[r] = Head(backlog[r]) /\ backlog'[r] = <<>> /\ recv'[r].at = "test"
          /\ r \notin listening'
      BY <1>1 DEF TcpTypes, TcpFunctions, T!At
    <3>3. receiver'[r] \notin {"none", "accepting"}
      <4>1. receiver[r] = "accepting" \/ recv[r].at = "accept"
        BY <1>1 DEF Lives, Linked, T!Accepting
      <4>2. receiver[r] \in {"none", "accepting"} => recv[r].at = "none"
        BY DEF Lives, Linked
      <4> QED  BY <1>1, <4>1, <4>2 DEF TcpTypes, TcpFunctions
    <3> QED  BY <2>1, <3>1, <3>2, <3>3 DEF Linked
  <2>2. CASE x # r
    <3>1. /\ _socket'[x] = _socket[x] /\ backlog'[x] = backlog[x] /\ recv'[x] = recv[x]
          /\ receiver'[x] = receiver[x] /\ (x \in listening' => x \in listening)
      BY <1>1, <2>2 DEF TcpTypes, TcpFunctions
    <3>2. \A n \in 1..Len(backlog[x]) : /\ backlog[x][n] \in Senders
                                        /\ To[backlog[x][n]] = x /\ conn[backlog[x][n]] # "none"
      BY DEF Lives, Linked, TcpTypes, TcpFunctions
    <3>3. \A n \in 1..Len(backlog[x]) : conn'[backlog[x][n]] # "none"
      BY <1>4, <3>2
    <3> QED  BY <3>1, <3>2, <3>3 DEF Lives, Linked, T!Accepting
  <2> QED  BY <2>1, <2>2
<1> QED  BY <1>5, <1>6 DEF Lives

ReceiverStep(r) ==
    T!MakeReceiver(r) \/ T!ReceiverThread(r) \/ T!CloseReceiver(r) \/ T!JoinReceiver(r)

LEMMA ReceiverStepLives ==
    ASSUME TcpTypes, Lives, NEW r \in Receivers, ReceiverStep(r)
    PROVE  Lives'
<1> USE DEF T!sendVars, T!directVars, T!connVars, T!recvVars, T!getVars
<1>1. CASE T!Accept(r)
  BY <1>1, AcceptLives
<1>2. CASE ~T!Accept(r)
  <2>1. /\ UNCHANGED <<sender, conn, thread, direct, snd_closed, snd_queue, mixed>>
        /\ UNCHANGED <<backlog, _socket>>
    BY <1>2 DEF ReceiverStep, T!ReceiverThread, T!MakeReceiver, T!CloseReceiver, T!JoinReceiver,
                T!Listen, T!RecvTest, T!RecvHeader, T!RecvData, T!RecvEnd, T!RecvFails,
                T!RecvPush, T!RecvNotify
  <2>2. \/ listening' = listening
        \/ listening' = listening \union {r} /\ T!Accepting(r) /\ recv' = recv
           /\ receiver' = receiver
    BY <1>2 DEF ReceiverStep, T!ReceiverThread, T!MakeReceiver, T!CloseReceiver, T!JoinReceiver,
                T!Listen, T!RecvTest, T!RecvHeader, T!RecvData, T!RecvEnd, T!RecvFails,
                T!RecvPush, T!RecvNotify
  <2>4. \/ receiver' = receiver
        \/ receiver[r] = "none" /\ receiver' = [receiver EXCEPT ![r] = "accepting"]
           /\ recv' = recv
        \/ receiver[r] = "open" /\ receiver' = [receiver EXCEPT ![r] = "joining"]
           /\ recv' = recv
        \/ receiver[r] = "joining" /\ receiver' = [receiver EXCEPT ![r] = "closed"]
           /\ recv' = recv
    BY <1>2 DEF ReceiverStep, T!ReceiverThread, T!MakeReceiver, T!CloseReceiver, T!JoinReceiver,
                T!Listen, T!RecvTest, T!RecvHeader, T!RecvData, T!RecvEnd, T!RecvFails,
                T!RecvPush, T!RecvNotify
  <2>5. recv' = recv \/ (recv[r].at \notin {"none", "accept"}
                         /\ \A x \in Receivers \ {r} : recv'[x] = recv[x])
    <3> USE DEF TcpTypes, TcpFunctions
    <3>1. CASE T!MakeReceiver(r) \/ T!CloseReceiver(r) \/ T!JoinReceiver(r) \/ T!Listen(r)
      BY <3>1 DEF T!MakeReceiver, T!CloseReceiver, T!JoinReceiver, T!Listen
    <3>2. CASE T!RecvTest(r) \/ T!RecvEnd(r) \/ T!RecvFails(r)
      BY <3>2 DEF T!RecvTest, T!RecvEnd, T!RecvFails, T!Readable
    <3>3. CASE T!RecvPush(r) \/ T!RecvNotify(r)
      BY <3>3 DEF T!RecvPush, T!RecvNotify
    <3>4. CASE T!RecvHeader(r) \/ T!RecvData(r)
      BY <3>4 DEF T!RecvHeader, T!RecvData, T!Readable
    <3> QED  BY <1>2, <3>1, <3>2, <3>3, <3>4 DEF ReceiverStep, T!ReceiverThread
  <2>3. ASSUME NEW x \in Receivers PROVE Linked(x)'
    <3>1. /\ receiver[x] \in {"none", "accepting"} => recv[x].at = "none"
          /\ x \in listening => T!Accepting(x)
      BY DEF Lives, Linked
    <3>2. receiver'[x] \in {"none", "accepting"} => recv'[x].at = "none"
      BY <2>4, <2>5, <3>1 DEF TcpTypes, TcpFunctions
    <3>3. x \in listening' => T!Accepting(x)'
      <4> SUFFICES ASSUME x \in listening' PROVE T!Accepting(x)'
        OBVIOUS
      <4>1. T!Accepting(x)
        BY <2>2, <3>1
      <4>2. receiver[x] = "accepting" => receiver'[x] = "accepting"
        BY <2>4 DEF TcpTypes, TcpFunctions
      <4>3. recv[x].at = "accept" => recv'[x] = recv[x]
        BY <2>5
      <4> QED  BY <4>1, <4>2, <4>3, <2>5, <3>1 DEF T!Accepting
    <3> QED  BY <2>1, <3>2, <3>3 DEF Lives, Linked
  <2> QED  BY <2>1, <2>3, SendersLive DEF Lives
<1> QED  BY <1>1, <1>2

LEMMA GetterStepLives ==
    ASSUME Lives, NEW g \in Getters,
           T!GetTake(g) \/ T!GetTest(g) \/ T!GetSleep(g) \/ T!SpuriousWakeup(g)
    PROVE  Lives'
<1>1. UNCHANGED <<sender, conn, thread, direct, snd_closed, snd_queue, mixed, backlog, _socket,
                  listening, recv, receiver>>
  BY DEF T!GetTake, T!GetTest, T!GetSleep, T!SpuriousWakeup, T!sendVars, T!directVars,
         T!connVars, T!recvVars, T!getVars
<1>2. ASSUME NEW r \in Receivers PROVE Linked(r)'
  BY <1>1 DEF Lives, Linked, T!Accepting
<1> QED  BY <1>1, <1>2, SendersLive DEF Lives

LEMMA StepLives ==
    ASSUME TcpTypes, Lives, T!TcpNext
    PROVE  Lives'
BY SenderStepLives, ReceiverStepLives, GetterStepLives DEF T!TcpNext, SenderStep, ReceiverStep

-----------------------------------------------------------------------------
(* The stream of a sender: the header whose data the receiver waits for,   *)
(* the wire, and the data a writer is about to write; and the messages due *)
(* as they have arrived, are being read, are on the wire, and so on.       *)
Pend(s) ==
    IF _socket[To[s]] = s /\ recv[To[s]].at = "data"
    THEN <<HeaderOf(recv[To[s]].msgs[1])>> ELSE <<>>

Owed(p) == IF p.at = "data" THEN T!Units("data", p.msgs[1]) ELSE <<>>
Rest(s) == Owed(thread[s]) \o Owed(direct[s])

How(s) == IF conn[s] = "reset" THEN "reset" ELSE IF sender[s] = "crashed" THEN "cut" ELSE "whole"

Arrived(s, way) == T!Received(s, way)
Reading(s, way) == T!Of(s, way, recv[To[s]].msgs)
Wired(s, way)   == OnWire(s, way, wire[s])
Writing(s, way) == T!Of(s, way, T!Unwritten(thread[s]))
Queued(s, way)  == T!Of(s, way, snd_queue[s])

Shape(s) ==
    s \notin mixed /\ How(s) # "reset" => ShapeOf((Pend(s) \o wire[s]) \o Rest(s), How(s))

Flow(s, way) ==
    s \notin mixed =>
       FlowOf(Arrived(s, way), Reading(s, way), Wired(s, way), Writing(s, way), Queued(s, way),
              T!Due(s, way), How(s))

Stream(s) == Shape(s) /\ \A way \in Ways : Flow(s, way)

LEMMA FlowTypes ==
    ASSUME TcpTypes, NEW s \in Senders, NEW way
    PROVE  /\ Five(Arrived(s, way), Reading(s, way), Wired(s, way), Writing(s, way),
                   Queued(s, way))
           /\ T!Due(s, way) \in Seq(Msgs)
<1>1. To[s] \in Receivers
  BY TcpAssumption
<1>2. /\ taken[To[s]] \in Seq(Msgs) /\ rcv_queue[To[s]] \in Seq(Msgs) /\ sent[s] \in Seq(Msgs)
      /\ recv[To[s]].msgs \in Seq(Msgs) /\ wire[s] \in Seq(AnyPiece) /\ snd_queue[s] \in Seq(Msgs)
      /\ thread[s].msgs \in Seq(Msgs)
  BY <1>1 DEF TcpTypes, TcpFunctions, Position
<1>3. taken[To[s]] \o rcv_queue[To[s]] \in Seq(Msgs)
  BY <1>2, ConcatProperties
<1>4. T!Unwritten(thread[s]) \in Seq(Msgs)
  BY <1>2 DEF T!Unwritten
<1>5. Arrived(s, way) \in Seq(Msgs)
  BY <1>3, OfSeq DEF Arrived, T!Received
<1>6. Reading(s, way) \in Seq(Msgs)
  BY <1>2, OfSeq DEF Reading
<1>7. Wired(s, way) \in Seq(Msgs)
  BY <1>2, WireSeq DEF Wired
<1>8. Writing(s, way) \in Seq(Msgs)
  BY <1>4, OfSeq DEF Writing
<1>9. Queued(s, way) \in Seq(Msgs)
  BY <1>2, OfSeq DEF Queued
<1>10. T!Due(s, way) \in Seq(Msgs)
  BY <1>2, OfSeq DEF T!Due
<1> QED  BY <1>5, <1>6, <1>7, <1>8, <1>9, <1>10 DEF Five

LEMMA HowIs == ASSUME NEW s PROVE How(s) \in {"reset", "cut", "whole"}
BY DEF How

LEMMA OwedAre ==
    ASSUME TcpTypes, NEW s \in Senders
    PROVE  /\ Owed(thread[s]) \in Seq(AnyPiece) /\ Owed(direct[s]) \in Seq(AnyPiece)
           /\ Rest(s) \in Seq(AnyPiece)
<1>1. Owed(thread[s]) \in Seq(AnyPiece)
  <2>1. CASE thread[s].at = "data"
    <3>1. PICK m \in Given(s, {"queue"}) : thread[s].msgs[1] = m
      BY <2>1, HeldIs DEF TcpTypes, SenderHolds
    <3>2. m \in Given(s, Ways)
      BY DEF Given, Ways
    <3> QED  BY <2>1, <3>1, <3>2, UnitsAre DEF Owed
  <2>2. CASE thread[s].at # "data"
    BY <2>2, Empties DEF Owed
  <2> QED  BY <2>1, <2>2
<1>2. Owed(direct[s]) \in Seq(AnyPiece)
  <2>1. CASE direct[s].at = "data"
    <3>1. PICK m \in Given(s, {"direct"}) : direct[s].msgs[1] = m
      BY <2>1, HeldIs DEF TcpTypes, SenderHolds
    <3>2. m \in Given(s, Ways)
      BY DEF Given, Ways
    <3> QED  BY <2>1, <3>1, <3>2, UnitsAre DEF Owed
  <2>2. CASE direct[s].at # "data"
    BY <2>2, Empties DEF Owed
  <2> QED  BY <2>1, <2>2
<1> QED  BY <1>1, <1>2, ConcatProperties DEF Rest

LEMMA PendIs ==
    ASSUME TcpTypes, NEW s \in Senders
    PROVE  Pend(s) \in Seq(AnyPiece)
<1>1. CASE _socket[To[s]] = s /\ recv[To[s]].at = "data"
  <2>1. To[s] \in Receivers
    BY TcpAssumption
  <2>0. Held(recv[To[s]], {"data", "push"}, Given(s, Ways \union {"none"}))
    BY <1>1, <2>1 DEF TcpTypes, ReceiverHolds
  <2>2. PICK m \in Given(s, Ways \union {"none"}) : recv[To[s]].msgs[1] = m
    BY <1>1, <2>0, HeldIs
  <2>3. m \in Msgs
    BY GivenAre DEF Ways
  <2>4. HeaderOf(m) \in AnyPiece
    BY <2>3, WireOne
  <2>5. <<HeaderOf(m)>> \in Seq(AnyPiece)
    BY <2>4
  <2> QED  BY <1>1, <2>2, <2>5 DEF Pend
<1>2. CASE ~(_socket[To[s]] = s /\ recv[To[s]].at = "data")
  BY <1>2, Empties DEF Pend
<1> QED  BY <1>1, <1>2

-----------------------------------------------------------------------------
(* What leaves the stream of a sender as it is, or loses its end.          *)
ReceiverKeeps(s) ==
    /\ Pend(s)' = Pend(s)
    /\ \A way \in Ways : /\ Arrived(s, way)' = Arrived(s, way)
                         /\ Reading(s, way)' = Reading(s, way)

SenderKeeps(s) ==
    /\ wire'[s] = wire[s] /\ Rest(s)' = Rest(s) /\ snd_queue'[s] = snd_queue[s]
    /\ sent'[s] = sent[s] /\ T!Unwritten(thread[s])' = T!Unwritten(thread[s])
    /\ (s \in mixed => s \in mixed')

LEMMA StreamKept ==
    ASSUME NEW s, Stream(s), ReceiverKeeps(s), SenderKeeps(s), How(s)' = How(s)
    PROVE  Stream(s)'
<1>1. Shape(s)'
  BY DEF Stream, Shape, ReceiverKeeps, SenderKeeps
<1>2. ASSUME NEW way \in Ways PROVE Flow(s, way)'
  <2>1. Wired(s, way)' = Wired(s, way)
    BY DEF SenderKeeps, Wired, OnWire, T!Of, T!Announced
  <2>2. Writing(s, way)' = Writing(s, way)
    BY DEF SenderKeeps, Writing, T!Of
  <2>3. Queued(s, way)' = Queued(s, way) /\ T!Due(s, way)' = T!Due(s, way)
    BY DEF SenderKeeps, Queued, T!Due, T!Of
  <2> QED  BY <2>1, <2>2, <2>3 DEF Stream, Flow, ReceiverKeeps, SenderKeeps
<1> QED  BY <1>1, <1>2 DEF Stream

LEMMA StreamReset ==
    ASSUME TcpTypes, NEW s \in Senders, Stream(s), ReceiverKeeps(s), sent'[s] = sent[s],
           s \in mixed => s \in mixed', How(s)' = "reset"
    PROVE  Stream(s)'
<1>1. Shape(s)'
  BY DEF Shape
<1>2. ASSUME NEW way \in Ways, s \notin mixed PROVE Flow(s, way)'
  <2>1. Starts(Arrived(s, way) \o Reading(s, way), T!Due(s, way))
    BY <1>2, FlowTypes, HowIs, FlowAlways DEF Stream, Flow
  <2>2. T!Due(s, way)' = T!Due(s, way)
    BY DEF T!Due, T!Of
  <2>3. Arrived(s, way)' = Arrived(s, way) /\ Reading(s, way)' = Reading(s, way)
    BY DEF ReceiverKeeps
  <2> QED  BY <2>1, <2>2, <2>3 DEF Flow, FlowOf
<1> QED  BY <1>1, <1>2 DEF Stream, Flow

LEMMA StreamCut ==
    ASSUME TcpTypes, NEW s \in Senders, Stream(s), ReceiverKeeps(s), sent'[s] = sent[s],
           s \in mixed => s \in mixed', How(s) # "reset", How(s)' = "cut",
           wire'[s] = wire[s], Rest(s)' = <<>>
    PROVE  Stream(s)'
<1>1. Shape(s)'
  <2> SUFFICES ASSUME s \notin mixed PROVE Shape(s)'
    BY DEF Shape
  <2> DEFINE x == Pend(s) \o wire[s]
  <2>1. Pend(s) \in Seq(AnyPiece) /\ wire[s] \in Seq(AnyPiece) /\ Rest(s) \in Seq(AnyPiece)
    BY PendIs, OwedAre DEF TcpTypes, TcpFunctions
  <2>2. x \in Seq(AnyPiece)
    BY <2>1, ConcatProperties
  <2>3. Paired(x \o Rest(s))
    BY DEF Stream, Shape, ShapeOf, Whole
  <2>4. Pend(s)' \o wire'[s] = x
    BY DEF ReceiverKeeps
  <2> HIDE DEF x
  <2>5. Paired(x)
    BY <2>1, <2>2, <2>3, PairedStart
  <2>6. x \o <<>> = x
    BY <2>2
  <2> QED  BY <2>4, <2>5, <2>6 DEF Shape, ShapeOf
<1>2. ASSUME NEW way \in Ways, s \notin mixed PROVE Flow(s, way)'
  <2>1. Starts((Arrived(s, way) \o Reading(s, way)) \o Wired(s, way), T!Due(s, way))
    BY <1>2, FlowTypes, HowIs, FlowAlways DEF Stream, Flow
  <2>2. T!Due(s, way)' = T!Due(s, way)
    BY DEF T!Due, T!Of
  <2>3. Wired(s, way)' = Wired(s, way)
    BY DEF Wired, OnWire, T!Of, T!Announced
  <2>4. Arrived(s, way)' = Arrived(s, way) /\ Reading(s, way)' = Reading(s, way)
    BY DEF ReceiverKeeps
  <2> QED  BY <2>1, <2>2, <2>3, <2>4 DEF Flow, FlowOf
<1> QED  BY <1>1, <1>2 DEF Stream, Flow

LEMMA ReceiversKeep ==
    ASSUME NEW s, UNCHANGED <<_socket, recv, rcv_queue, taken>>
    PROVE  ReceiverKeeps(s)
BY DEF ReceiverKeeps, Pend, Arrived, Reading, T!Received, T!Of

LEMMA OthersStream ==
    ASSUME NEW s \in Senders, OnlyOf(s), \A z \in Senders : Stream(z), Stream(s)'
    PROVE  \A z \in Senders : Stream(z)'
<1> SUFFICES ASSUME NEW z \in Senders \ {s} PROVE Stream(z)'
  OBVIOUS
<1>1. ReceiverKeeps(z)
  BY ReceiversKeep DEF OnlyOf
<1>2. SenderKeeps(z)
  BY DEF OnlyOf, SenderKeeps, Rest, T!Unwritten
<1>3. How(z)' = How(z)
  BY DEF OnlyOf, How
<1> QED  BY <1>1, <1>2, <1>3, StreamKept

-----------------------------------------------------------------------------
(* The stream of a sender after a step of its own.                         *)
Quietly(s) == OnlyOf(s) /\ SenderKeeps(s) /\ How(s)' = How(s)

LEMMA QuietStream ==
    ASSUME NEW s \in Senders, Stream(s), Quietly(s)
    PROVE  Stream(s)'
BY ReceiversKeep, StreamKept DEF Quietly, OnlyOf

LEMMA OwedNone ==
    ASSUME NEW p, p.at # "data"
    PROVE  Owed(p) = <<>>
BY DEF Owed

LEMMA SendStream ==
    ASSUME TcpTypes, NEW s \in Senders, Stream(s), NEW size \in Nat, T!Send(s, size), OnlyOf(s)
    PROVE  Stream(s)'
<1> DEFINE m == T!Message(s, "queue", size)
<1>1. m \in Msgs
  BY MessageIs, GivenAre DEF TcpTypes
<1> HIDE DEF m
<1>2. /\ sent'[s] = Append(sent[s], m) /\ snd_queue'[s] = Append(snd_queue[s], m)
      /\ sender[s] = "open"
      /\ UNCHANGED <<sender, conn, thread, direct, wire, mixed>>
  BY DEF T!Send, T!directVars, T!connVars, T!recvVars, T!getVars, TcpTypes, TcpFunctions, m
<1>3. ReceiverKeeps(s)
  BY ReceiversKeep DEF OnlyOf
<1>4. How(s)' = How(s) /\ How(s) \in {"reset", "whole"}
  BY <1>2 DEF How
<1>5. Shape(s)'
  BY <1>2, <1>3, <1>4 DEF Stream, Shape, ReceiverKeeps, Rest
<1>6. ASSUME NEW way \in Ways, s \notin mixed PROVE Flow(s, way)'
  <2> DEFINE a == Arrived(s, way)
             b == Reading(s, way)
             c == Wired(s, way)
             d == Writing(s, way)
             e == Queued(s, way)
             due == T!Due(s, way)
             x == T!Of(s, way, <<m>>)
  <2>1. Five(a, b, c, d, e) /\ due \in Seq(Msgs)
    BY FlowTypes
  <2>2. a' = a /\ b' = b /\ c' = c /\ d' = d
    BY <1>2, <1>3 DEF ReceiverKeeps, Wired, Writing, OnWire, T!Of, T!Announced, T!Unwritten
  <2>3. x \in Seq(Msgs) /\ x = IF Wants(s, way, m) THEN <<m>> ELSE <<>>
    BY <1>1, OfOne
  <2>4. snd_queue[s] \in Seq(Msgs) /\ sent[s] \in Seq(Msgs)
    BY DEF TcpTypes, TcpFunctions
  <2>5. e' = T!Of(s, way, Append(snd_queue[s], m)) /\ due' = T!Of(s, way, Append(sent[s], m))
    BY <1>2 DEF Queued, T!Due, T!Of
  <2>6. e' = IF Wants(s, way, m) THEN Append(e, m) ELSE e
    BY <1>1, <2>4, <2>5, OfAppend DEF Queued
  <2>7. due' = IF Wants(s, way, m) THEN Append(due, m) ELSE due
    BY <1>1, <2>4, <2>5, OfAppend DEF T!Due
  <2>8. FlowOf(a, b, c, d, e, due, How(s))
    BY <1>6 DEF Stream, Flow
  <2> HIDE DEF a, b, c, d, e, due, x
  <2>9. e \in Seq(Msgs) /\ due \in Seq(Msgs)
    BY <2>1 DEF Five
  <2>10. e' = e \o x /\ due' = due \o x
    <3>1. /\ Append(e, m) = e \o <<m>> /\ Append(due, m) = due \o <<m>>
          /\ e \o <<>> = e /\ due \o <<>> = due
      BY <1>1, <2>9
    <3>2. CASE Wants(s, way, m)
      BY <2>3, <2>6, <2>7, <3>1, <3>2
    <3>3. CASE ~Wants(s, way, m)
      BY <2>3, <2>6, <2>7, <3>1, <3>3
    <3> QED  BY <3>2, <3>3
  <2>11. FlowOf(a, b, c, d, e \o x, due \o x, How(s))
    BY <1>4, <2>1, <2>3, <2>8, FlowGiven
  <2>12. FlowOf(a', b', c', d', e', due', How(s)')
    BY <1>4, <2>2, <2>10, <2>11
  <2> QED  BY <1>2, <2>12 DEF Flow, a, b, c, d, e, due
<1> QED  BY <1>2, <1>5, <1>6 DEF Stream, Flow

LEMMA SendTakeStream ==
    ASSUME TcpTypes, NEW s \in Senders, Stream(s), T!SendTake(s), OnlyOf(s)
    PROVE  Stream(s)'
<1> DEFINE q == snd_queue[s]
           m == Head(q)
<1>1. q # <<>> /\ q \in Seq(Msgs) /\ m \in Msgs /\ Tail(q) \in Seq(Msgs)
  BY DEF T!SendTake, TcpTypes, TcpFunctions
<1>2. /\ thread[s].at = "take" /\ thread'[s].at = "header" /\ thread'[s].msgs = <<m>>
      /\ snd_queue'[s] = Tail(q) /\ (s \in mixed => s \in mixed')
      /\ UNCHANGED <<sender, conn, direct, wire, sent>>
  BY DEF T!SendTake, T!At, T!connVars, TcpTypes, TcpFunctions
<1> HIDE DEF q, m
<1>3. ReceiverKeeps(s)
  BY ReceiversKeep DEF OnlyOf
<1>4. How(s)' = How(s)
  BY <1>2 DEF How
<1>5. Shape(s)'
  <2>1. Rest(s)' = Rest(s)
    BY <1>2 DEF Rest, Owed
  <2> QED  BY <1>2, <1>3, <1>4, <2>1 DEF Stream, Shape, ReceiverKeeps
<1>6. ASSUME NEW way \in Ways, s \notin mixed PROVE Flow(s, way)'
  <2> DEFINE a == Arrived(s, way)
             b == Reading(s, way)
             c == Wired(s, way)
             d == Writing(s, way)
             e == Queued(s, way)
             due == T!Due(s, way)
             x == T!Of(s, way, <<m>>)
             y == T!Of(s, way, Tail(q))
  <2>1. Five(a, b, c, d, e)
    BY FlowTypes
  <2>2. a' = a /\ b' = b /\ c' = c /\ due' = due
    BY <1>2, <1>3 DEF ReceiverKeeps, Wired, OnWire, T!Of, T!Announced, T!Due
  <2>3. x \in Seq(Msgs) /\ y \in Seq(Msgs)
    BY <1>1, OfOne, OfSeq
  <2>4. d = <<>>
    <3>1. T!Unwritten(thread[s]) = <<>>
      BY <1>2 DEF T!Unwritten
    <3> QED  BY <3>1, Empties, OfSeq DEF Writing
  <2>5. d' = x /\ e' = y
    BY <1>2 DEF Writing, Queued, T!Unwritten, T!Of
  <2>6. e = x \o y
    <3>1. q = <<m>> \o Tail(q) /\ <<m>> \in Seq(Msgs)
      BY <1>1 DEF m
    <3>2. OfBoth(s, way, <<m>>, Tail(q))
      BY <1>1, <3>1, OfJoin
    <3> QED  BY <3>1, <3>2 DEF OfBoth, Queued, q
  <2>7. FlowOf(a, b, c, d, e, due, How(s))
    BY <1>6 DEF Stream, Flow
  <2> HIDE DEF a, b, c, d, e, due, x, y
  <2>8. FlowOf(a, b, c, <<>>, x \o y, due, How(s))
    BY <2>4, <2>6, <2>7
  <2>9. Five(a, b, c, x, y)
    BY <2>1, <2>3 DEF Five
  <2>10. FlowOf(a, b, c, x, y, due, How(s))
    BY <2>8, <2>9, HowIs, FlowTaken
  <2>11. FlowOf(a', b', c', d', e', due', How(s)')
    BY <1>4, <2>2, <2>5, <2>10
  <2> QED  BY <2>11 DEF Flow, a, b, c, d, e, due
<1> QED  BY <1>2, <1>5, <1>6 DEF Stream, Flow

-----------------------------------------------------------------------------
(* A writer writes a header, and then the data.                            *)
LEMMA HeaderShape ==
    ASSUME NEW p \in Seq(AnyPiece), NEW w \in Seq(AnyPiece), NEW m \in Msgs,
           Whole((p \o w) \o <<>>)
    PROVE  Whole((p \o (w \o <<HeaderOf(m)>>)) \o T!Units("data", m))
<1> DEFINE x == p \o w
           h == HeaderOf(m)
<1>1. h \in AnyPiece
  BY WireOne
<1> HIDE DEF h
<1>2. <<h>> \in Seq(AnyPiece)
  BY <1>1
<1>3. p \o (w \o <<h>>) = (p \o w) \o <<h>>
  <2> DEFINE v == <<h>>
  <2>1. v \in Seq(AnyPiece)
    BY <1>2
  <2> HIDE DEF v
  <2>2. (p \o w) \o v = p \o (w \o v)
    BY <2>1, ConcatAssociative
  <2> QED  BY <2>2 DEF v
<1>4. x \in Seq(AnyPiece) /\ x \o <<>> = x
  OBVIOUS
<1> HIDE DEF x
<1>5. Whole(x)
  BY <1>4 DEF x
<1>6. Whole((x \o <<h>>) \o T!Units("data", m))
  BY <1>4, <1>5, WholeGrows DEF h
<1> QED  BY <1>3, <1>6 DEF x, h

LEMMA DataShape ==
    ASSUME NEW p \in Seq(AnyPiece), NEW w \in Seq(AnyPiece), NEW u \in Seq(AnyPiece)
    PROVE  (p \o (w \o u)) \o <<>> = (p \o w) \o u
<1>1. (p \o w) \o u = p \o (w \o u)
  BY ConcatAssociative
<1>2. p \o (w \o u) \in Seq(AnyPiece)
  OBVIOUS
<1>3. (p \o (w \o u)) \o <<>> = p \o (w \o u)
  BY <1>2, ConcatEmptySeq
<1> QED  BY <1>1, <1>3

(* Data adds no message to what is on the wire.                            *)
LEMMA DataWired ==
    ASSUME NEW s, NEW way, NEW w \in Seq(AnyPiece), NEW m \in Msgs
    PROVE  OnWire(s, way, w \o T!Units("data", m)) = OnWire(s, way, w)
<1>1. CASE m.size = 0
  <2>1. w \o T!Units("data", m) = w
    BY <1>1 DEF T!Units
  <2> QED  BY <2>1
<1>2. CASE m.size # 0
  <2> DEFINE d == DataOf(m)
             u == <<d>>
  <2>1. T!Units("data", m) = u
    BY <1>2 DEF T!Units, DataOf
  <2>0. d \in AnyPiece /\ OnWire(s, way, u) = <<>>
    BY WireOne
  <2> HIDE DEF d
  <2>2. u \in Seq(AnyPiece) /\ OnWire(s, way, u) = <<>>
    BY <2>0
  <2> HIDE DEF u
  <2>3. OnWire(s, way, w \o u) = OnWire(s, way, w) \o OnWire(s, way, u)
    BY <2>2, WireJoin
  <2>4. OnWire(s, way, w) \in Seq(Msgs)
    BY WireSeq
  <2> QED  BY <2>1, <2>2, <2>3, <2>4
<1> QED  BY <1>1, <1>2

LEMMA HeaderWired ==
    ASSUME NEW s, NEW way, NEW w \in Seq(AnyPiece), NEW m \in Msgs
    PROVE  /\ T!Units("header", m) = <<HeaderOf(m)>>
           /\ OnWire(s, way, w \o T!Units("header", m)) = OnWire(s, way, w) \o T!Of(s, way, <<m>>)
<1> DEFINE d == HeaderOf(m)
           u == <<d>>
<1>1. T!Units("header", m) = u
  BY DEF T!Units, HeaderOf
<1>0. d \in AnyPiece /\ OnWire(s, way, u) = T!Of(s, way, <<m>>)
  BY WireOne
<1> HIDE DEF d
<1>2. u \in Seq(AnyPiece) /\ OnWire(s, way, u) = T!Of(s, way, <<m>>)
  BY <1>0
<1> HIDE DEF u
<1>3. OnWire(s, way, w \o u) = OnWire(s, way, w) \o OnWire(s, way, u)
  BY <1>2, WireJoin
<1> QED  BY <1>1, <1>2, <1>3 DEF u, d

(* The wire after a write of m, at its header or at its data.              *)
Written(s, m, place) ==
    /\ wire'[s] = wire[s] \o T!Units(place, m) /\ conn[s] = "open"
    /\ UNCHANGED <<sender, conn, snd_queue>>
    /\ (s \in mixed' <=> s \in mixed)

LEMMA HeaderStream ==
    ASSUME TcpTypes, NEW s \in Senders, Stream(s), NEW m \in Msgs, Written(s, m, "header"),
           OnlyOf(s), How(s) = "whole", Rest(s) = <<>>, Rest(s)' = T!Units("data", m)
    PROVE  Shape(s)'
<1> SUFFICES ASSUME s \notin mixed PROVE Shape(s)'
  BY DEF Shape, Written
<1> DEFINE p == Pend(s)
           w == wire[s]
<1>1. p \in Seq(AnyPiece) /\ w \in Seq(AnyPiece)
  BY PendIs DEF TcpTypes, TcpFunctions
<1>2. Whole((p \o w) \o <<>>)
  BY DEF Stream, Shape, ShapeOf
<1>3. T!Units("header", m) = <<HeaderOf(m)>>
  BY <1>1, HeaderWired
<1>4. Pend(s)' = p
  BY ReceiversKeep DEF OnlyOf, ReceiverKeeps
<1> HIDE DEF p, w
<1>5. Whole((p \o (w \o <<HeaderOf(m)>>)) \o T!Units("data", m))
  BY <1>1, <1>2, HeaderShape
<1>6. wire'[s] = w \o <<HeaderOf(m)>>
  BY <1>3 DEF Written, w
<1>7. Whole((Pend(s)' \o wire'[s]) \o Rest(s)')
  BY <1>4, <1>5, <1>6
<1> QED  BY <1>7 DEF Shape, ShapeOf, Written, How

LEMMA DataStream ==
    ASSUME TcpTypes, NEW s \in Senders, Stream(s), NEW m \in Msgs, Written(s, m, "data"),
           OnlyOf(s), Rest(s) = T!Units("data", m), Rest(s)' = <<>>, sent'[s] = sent[s],
           T!Unwritten(thread[s]) = T!Unwritten(thread[s])'
    PROVE  Stream(s)'
<1> DEFINE p == Pend(s)
           w == wire[s]
           u == T!Units("data", m)
<1>1. p \in Seq(AnyPiece) /\ w \in Seq(AnyPiece) /\ u \in Seq(AnyPiece)
  BY PendIs, OwedAre DEF TcpTypes, TcpFunctions
<1>2. How(s)' = How(s)
  BY DEF Written, How
<1>3. ReceiverKeeps(s)
  BY ReceiversKeep DEF OnlyOf
<1>4. Shape(s)'
  <2> HIDE DEF p, w, u
  <2>1. (p \o (w \o u)) \o <<>> = (p \o w) \o u
    BY <1>1, DataShape
  <2>2. (Pend(s)' \o wire'[s]) \o Rest(s)' = (Pend(s) \o wire[s]) \o Rest(s)
    BY <1>3, <2>1 DEF p, w, u, Written, ReceiverKeeps
  <2> QED  BY <1>2, <2>2 DEF Stream, Shape, Written
<1>5. ASSUME NEW way \in Ways PROVE Flow(s, way)'
  <2>1. OnWire(s, way, w \o u) = OnWire(s, way, w)
    BY <1>1, DataWired
  <2>2. Wired(s, way)' = OnWire(s, way, w \o u)
    BY DEF Wired, OnWire, T!Of, T!Announced, Written
  <2>3. Wired(s, way)' = Wired(s, way)
    BY <2>1, <2>2 DEF Wired
  <2>4. Writing(s, way)' = Writing(s, way)
    BY DEF Writing, T!Of
  <2>5. Queued(s, way)' = Queued(s, way) /\ T!Due(s, way)' = T!Due(s, way)
    BY DEF Written, Queued, T!Due, T!Of
  <2>6. Arrived(s, way)' = Arrived(s, way) /\ Reading(s, way)' = Reading(s, way)
    BY <1>3 DEF ReceiverKeeps
  <2> QED  BY <1>2, <2>3, <2>4, <2>5, <2>6 DEF Stream, Flow, Written
<1> QED  BY <1>4, <1>5 DEF Stream

LEMMA SendWriteStream ==
    ASSUME TcpTypes, NEW s \in Senders, Life(s), Stream(s), T!SendWrite(s), OnlyOf(s)
    PROVE  Stream(s)'
<1>1. thread[s] \in Position /\ thread[s].at \in {"header", "data"} /\ direct[s] \in Position
  BY DEF T!SendWrite, TcpTypes, TcpFunctions
<1>2. PICK m \in Given(s, {"queue"}) : /\ thread[s].msgs = <<m>> /\ Head(thread[s].msgs) = m
                                       /\ thread[s].msgs[1] = m
  BY <1>1, HeldIs DEF TcpTypes, SenderHolds
<1>3. m \in Msgs
  BY GivenAre
<1>4. /\ Written(s, m, thread[s].at) /\ direct'[s] = direct[s] /\ sent'[s] = sent[s]
      /\ (s \in mixed' <=> s \in mixed)
      /\ thread'[s] = IF thread[s].at = "header" THEN [thread[s] EXCEPT !.at = "data"]
                      ELSE T!At("take", <<>>)
  BY <1>2 DEF T!SendWrite, Written, T!directVars, TcpTypes, TcpFunctions
<1>5. How(s) = "whole" /\ How(s)' = "whole"
  BY <1>1, <1>4 DEF Life, How, Written
<1>6. CASE s \in mixed
  BY <1>4, <1>6 DEF Stream, Shape, Flow
<1>7. CASE s \notin mixed
  <2>1. direct[s].at = "none" /\ Owed(direct[s]) = <<>> /\ Owed(direct[s])' = <<>>
    BY <1>1, <1>4, <1>7 DEF Life, Owed
  <2>2. T!Units("data", m) \in Seq(AnyPiece)
    <3>1. m \in Given(s, Ways)
      BY DEF Given, Ways
    <3> QED  BY <3>1, UnitsAre
  <2>3. T!Units("data", m) \o <<>> = T!Units("data", m) /\ <<>> \o <<>> = <<>>
    BY <2>2
  <2>4. CASE thread[s].at = "header"
    <3>1. thread'[s].at = "data" /\ thread'[s].msgs = <<m>>
      BY <1>1, <1>2, <1>4, <2>4 DEF Position
    <3>2. thread'[s].msgs[1] = m
      BY <3>1
    <3>3. Owed(thread[s]) = <<>> /\ Owed(thread[s])' = T!Units("data", m)
      BY <2>4, <3>1, <3>2 DEF Owed
    <3>4. Rest(s) = <<>> /\ Rest(s)' = T!Units("data", m)
      BY <2>1, <2>3, <3>3 DEF Rest
    <3>5. Shape(s)'
      BY <1>3, <1>4, <1>5, <2>4, <3>4, HeaderStream
    <3>6. ASSUME NEW way \in Ways PROVE Flow(s, way)'
      <4> DEFINE a == Arrived(s, way)
                 b == Reading(s, way)
                 c == Wired(s, way)
                 d == Writing(s, way)
                 e == Queued(s, way)
                 due == T!Due(s, way)
      <4>1. Five(a, b, c, d, e)
        BY FlowTypes
      <4>2. wire[s] \in Seq(AnyPiece)
        BY DEF TcpTypes, TcpFunctions
      <4>3. d = T!Of(s, way, <<m>>)
        BY <1>2, <2>4 DEF Writing, T!Unwritten, T!Of
      <4>4. c' = OnWire(s, way, wire[s] \o T!Units("header", m))
        BY <1>4, <2>4 DEF Written, Wired, OnWire, T!Of, T!Announced
      <4>5. c' = c \o d
        BY <1>3, <4>2, <4>3, <4>4, HeaderWired DEF Wired
      <4>6. d' = <<>>
        <5>1. T!Unwritten(thread[s])' = <<>>
          BY <3>1 DEF T!Unwritten
        <5>2. d' = T!Of(s, way, <<>>)
          BY <5>1 DEF Writing, T!Of
        <5> QED  BY <5>2, Empties, OfSeq
      <4>7. e' = e /\ due' = due
        BY <1>4 DEF Written, Queued, T!Due, T!Of
      <4>8. a' = a /\ b' = b
        BY ReceiversKeep DEF OnlyOf, ReceiverKeeps
      <4>9. FlowOf(a, b, c, d, e, due, "whole")
        BY <1>5, <1>7 DEF Stream, Flow
      <4> HIDE DEF a, b, c, d, e, due
      <4>10. FlowOf(a, b, c \o d, <<>>, e, due, "whole")
        BY <4>1, <4>9, FlowWritten
      <4>11. FlowOf(a', b', c', d', e', due', How(s)')
        BY <1>5, <4>5, <4>6, <4>7, <4>8, <4>10
      <4> QED  BY <4>11 DEF Flow, a, b, c, d, e, due
    <3> QED  BY <3>5, <3>6 DEF Stream
  <2>5. CASE thread[s].at = "data"
    <3>1. thread'[s].at = "take"
      BY <1>4, <2>5 DEF T!At
    <3>2. Owed(thread[s]) = T!Units("data", m) /\ Owed(thread[s])' = <<>>
      BY <1>2, <2>5, <3>1 DEF Owed
    <3>3. Rest(s) = T!Units("data", m) /\ Rest(s)' = <<>>
      BY <2>1, <2>3, <3>2 DEF Rest
    <3>4. T!Unwritten(thread[s]) = T!Unwritten(thread[s])'
      BY <2>5, <3>1 DEF T!Unwritten
    <3> QED  BY <1>3, <1>4, <2>5, <3>3, <3>4, DataStream
  <2> QED  BY <1>1, <2>4, <2>5
<1> QED  BY <1>6, <1>7

LEMMA DirectWriteStream ==
    ASSUME TcpTypes, NEW s \in Senders, Life(s), Stream(s), T!DirectWrite(s), OnlyOf(s)
    PROVE  Stream(s)'
<1>1. thread[s] \in Position /\ direct[s].at \in {"header", "data"} /\ direct[s] \in Position
  BY DEF T!DirectWrite, TcpTypes, TcpFunctions
<1>2. PICK m \in Given(s, {"direct"}) : /\ direct[s].msgs = <<m>> /\ Head(direct[s].msgs) = m
                                        /\ direct[s].msgs[1] = m
  BY <1>1, HeldIs DEF TcpTypes, SenderHolds
<1>3. m \in Msgs /\ m.way = "direct"
  BY GivenAre
<1>4. /\ Written(s, m, direct[s].at) /\ thread'[s] = thread[s] /\ (s \in mixed' <=> s \in mixed)
      /\ direct[s].at = "header" => direct'[s] = [direct[s] EXCEPT !.at = "data"]
                                    /\ sent'[s] = sent[s] \o <<m>>
      /\ direct[s].at = "data" => direct'[s] = T!At("none", <<>>) /\ sent'[s] = sent[s]
  BY <1>1, <1>2 DEF T!DirectWrite, Written, TcpTypes, TcpFunctions
<1>5. How(s) = "whole" /\ How(s)' = "whole"
  BY <1>1, <1>4 DEF Life, How, Written
<1>6. CASE s \in mixed
  BY <1>4, <1>6 DEF Stream, Shape, Flow
<1>7. CASE s \notin mixed
  <2>1. /\ thread[s].at \notin {"header", "data"}
        /\ Owed(thread[s]) = <<>> /\ Owed(thread[s])' = <<>>
        /\ T!Unwritten(thread[s]) = <<>> /\ T!Unwritten(thread[s])' = <<>>
    BY <1>1, <1>4, <1>7 DEF Life, Owed, T!Unwritten
  <2>2. T!Units("data", m) \in Seq(AnyPiece)
    <3>1. m \in Given(s, Ways)
      BY DEF Given, Ways
    <3> QED  BY <3>1, UnitsAre
  <2>3. <<>> \o T!Units("data", m) = T!Units("data", m) /\ <<>> \o <<>> = <<>>
    BY <2>2
  <2>4. CASE direct[s].at = "header"
    <3>1. direct'[s].at = "data" /\ direct'[s].msgs = <<m>>
      BY <1>1, <1>2, <1>4, <2>4 DEF Position
    <3>2. direct'[s].msgs[1] = m
      BY <3>1
    <3>3. Owed(direct[s]) = <<>> /\ Owed(direct[s])' = T!Units("data", m)
      BY <2>4, <3>1, <3>2 DEF Owed
    <3>4. Rest(s) = <<>> /\ Rest(s)' = T!Units("data", m)
      BY <2>1, <2>3, <3>3 DEF Rest
    <3>5. Shape(s)'
      BY <1>3, <1>4, <1>5, <2>4, <3>4, HeaderStream
    <3>6. ASSUME NEW way \in Ways PROVE Flow(s, way)'
      <4> DEFINE a == Arrived(s, way)
                 b == Reading(s, way)
                 c == Wired(s, way)
                 d == Writing(s, way)
                 e == Queued(s, way)
                 due == T!Due(s, way)
                 x == T!Of(s, way, <<m>>)
      <4>1. Five(a, b, c, d, e) /\ due \in Seq(Msgs)
        BY FlowTypes
      <4>2. wire[s] \in Seq(AnyPiece) /\ sent[s] \in Seq(Msgs)
        BY DEF TcpTypes, TcpFunctions
      <4>3. d = <<>> /\ d' = <<>>
        <5>1. d = T!Of(s, way, <<>>) /\ d' = T!Of(s, way, <<>>)
          BY <2>1 DEF Writing, T!Of
        <5> QED  BY <5>1, Empties, OfSeq
      <4>4. c' = OnWire(s, way, wire[s] \o T!Units("header", m))
        BY <1>4, <2>4 DEF Written, Wired, OnWire, T!Of, T!Announced
      <4>5. c' = c \o x
        BY <1>3, <4>2, <4>4, HeaderWired DEF Wired
      <4>6. e' = e
        BY <1>4 DEF Written, Queued, T!Of
      <4>7. due' = due \o x
        <5>1. <<m>> \in Seq(Msgs)
          BY <1>3
        <5>2. OfBoth(s, way, sent[s], <<m>>)
          BY <4>2, <5>1, OfJoin
        <5>3. due' = T!Of(s, way, sent'[s])
          BY DEF T!Due, T!Of
        <5>4. sent'[s] = sent[s] \o <<m>>
          BY <1>4, <2>4
        <5>5. due' = T!Of(s, way, sent[s] \o <<m>>)
          BY <5>3, <5>4
        <5> QED  BY <5>2, <5>5 DEF OfBoth, T!Due
      <4>8. a' = a /\ b' = b
        BY ReceiversKeep DEF OnlyOf, ReceiverKeeps
      <4>9. FlowOf(a, b, c, d, e, due, "whole")
        BY <1>5, <1>7 DEF Stream, Flow
      <4>10. x \in Seq(Msgs) /\ (way = "queue" => x = <<>>)
        <5>1. x \in Seq(Msgs) /\ x = IF Wants(s, way, m) THEN <<m>> ELSE <<>>
          BY <1>3, OfOne
        <5> QED  BY <1>3, <5>1 DEF Wants
      <4>11. way = "direct" => e = <<>>
        <5> SUFFICES ASSUME way = "direct" PROVE e = <<>>
          OBVIOUS
        <5>1. snd_queue[s] \in Seq(Given(s, {"queue"})) /\ snd_queue[s] \in Seq(Msgs)
          BY DEF TcpTypes, TcpFunctions, SenderHolds
        <5>2. \A n \in 1..Len(snd_queue[s]) : snd_queue[s][n] \in Given(s, {"queue"})
          BY <5>1
        <5>3. \A n \in 1..Len(snd_queue[s]) : ~Wants(s, way, snd_queue[s][n])
          BY <5>2 DEF Given, Wants
        <5> QED  BY <5>1, <5>3, OfNone DEF Queued
      <4> HIDE DEF a, b, c, d, e, due, x
      <4>12. x = <<>> \/ (d = <<>> /\ e = <<>>)
        BY <4>3, <4>10, <4>11 DEF Ways
      <4>13. FlowOf(a, b, c \o x, d, e, due \o x, "whole")
        BY <4>1, <4>9, <4>10, <4>12, FlowDirect
      <4>14. FlowOf(a', b', c', d', e', due', How(s)')
        BY <1>5, <4>3, <4>5, <4>6, <4>7, <4>8, <4>13
      <4> QED  BY <4>14 DEF Flow, a, b, c, d, e, due
    <3> QED  BY <3>5, <3>6 DEF Stream
  <2>5. CASE direct[s].at = "data"
    <3>1. direct'[s].at = "none"
      BY <1>4, <2>5 DEF T!At
    <3>2. Owed(direct[s]) = T!Units("data", m) /\ Owed(direct[s])' = <<>>
      BY <1>2, <2>5, <3>1 DEF Owed
    <3>3. Rest(s) = T!Units("data", m) /\ Rest(s)' = <<>>
      BY <2>1, <2>3, <3>2 DEF Rest
    <3> QED  BY <1>3, <1>4, <2>1, <2>5, <3>3, DataStream
  <2> QED  BY <1>1, <2>4, <2>5
<1> QED  BY <1>6, <1>7

(* A sender's step that writes nothing and takes nothing.                  *)
LEMMA SilentStream ==
    ASSUME TcpTypes, NEW s \in Senders, Life(s), Stream(s), OnlyOf(s),
           \/ T!MakeSender(s) \/ T!Connect(s) \/ T!ConnectRefused(s) \/ T!SenderOpens(s)
           \/ T!CloseSender(s) \/ T!JoinSender(s) \/ T!SendEnd(s)
           \/ \E size \in Sizes[s] : T!SendDirect(s, size)
           \/ T!DirectFails(s) /\ conn[s] = "none"
    PROVE  Stream(s)'
<1> USE DEF T!sendVars, T!directVars, T!connVars, T!recvVars, T!getVars
<1>0. thread[s] \in Position /\ direct[s] \in Position /\ conn[s] \in Conns
  BY DEF TcpTypes, TcpFunctions
<1>1. /\ wire'[s] = wire[s] /\ snd_queue'[s] = snd_queue[s] /\ sent'[s] = sent[s]
      /\ (s \in mixed => s \in mixed') /\ How(s)' = How(s)
  BY DEF T!MakeSender, T!Connect, T!ConnectRefused, T!SenderOpens, T!CloseSender, T!JoinSender,
         T!SendEnd, T!SendDirect, T!DirectFails, TcpTypes, TcpFunctions, Life, How
<1>2. thread'[s] = thread[s] \/ (thread[s].at \notin {"header", "data"}
                                 /\ thread'[s].at \notin {"header", "data"})
  <2>1. CASE T!Connect(s)
    BY <2>1 DEF T!Connect, TcpTypes, TcpFunctions, Life, T!At
  <2>2. CASE T!SendEnd(s)
    BY <2>2 DEF T!SendEnd, TcpTypes, TcpFunctions, T!At
  <2>3. CASE ~T!Connect(s) /\ ~T!SendEnd(s)
    BY <2>3 DEF T!MakeSender, T!ConnectRefused, T!SenderOpens, T!CloseSender, T!JoinSender,
                T!SendDirect, T!DirectFails
  <2> QED  BY <2>1, <2>2, <2>3
<1>3. direct'[s] = direct[s] \/ (direct[s].at # "data" /\ direct'[s].at # "data")
  BY DEF T!MakeSender, T!Connect, T!ConnectRefused, T!SenderOpens, T!CloseSender, T!JoinSender,
         T!SendEnd, T!SendDirect, T!DirectFails, TcpTypes, TcpFunctions, Life, T!At
<1>4. Owed(thread[s])' = Owed(thread[s]) /\ T!Unwritten(thread[s])' = T!Unwritten(thread[s])
  BY <1>2 DEF Owed, T!Unwritten
<1>5. Owed(direct[s])' = Owed(direct[s])
  BY <1>3 DEF Owed
<1> QED  BY <1>1, <1>4, <1>5, QuietStream DEF Quietly, SenderKeeps, Rest

LEMMA FailingStream ==
    ASSUME TcpTypes, NEW s \in Senders, Life(s), Stream(s), OnlyOf(s),
           \/ T!SendFails(s) \/ T!Break(s) \/ T!Crash(s)
           \/ T!DirectFails(s) /\ conn[s] # "none"
    PROVE  Stream(s)'
<1> USE DEF T!sendVars, T!directVars, T!connVars, T!recvVars, T!getVars
<1>0. thread[s] \in Position /\ direct[s] \in Position /\ conn[s] \in Conns
  BY DEF TcpTypes, TcpFunctions
<1>1. ReceiverKeeps(s) /\ sent'[s] = sent[s] /\ (s \in mixed => s \in mixed')
  BY ReceiversKeep DEF OnlyOf, T!SendFails, T!Break, T!Crash, T!DirectFails
<1>2. CASE T!SendFails(s) \/ T!Break(s) \/ (T!DirectFails(s) /\ conn[s] # "none")
  <2>1. conn'[s] = "reset"
    <3>1. CASE T!SendFails(s)
      BY <3>1 DEF T!SendFails
    <3>2. CASE T!Break(s)
      BY <3>2 DEF T!Break, TcpTypes, TcpFunctions
    <3>3. CASE T!DirectFails(s) /\ conn[s] # "none"
      <4>1. direct[s].at # "none" /\ conn[s] # "open" /\ conn'[s] = conn[s]
        BY <3>3 DEF T!DirectFails
      <4>2. conn[s] # "closed"
        BY <4>1 DEF Life
      <4> QED  BY <1>0, <3>3, <4>1, <4>2 DEF Conns
    <3> QED  BY <1>2, <3>1, <3>2, <3>3
  <2> QED  BY <1>1, <2>1, StreamReset DEF How
<1>3. CASE T!Crash(s)
  <2>1. /\ sender'[s] = "crashed" /\ wire'[s] = wire[s]
        /\ (conn'[s] = "reset" <=> conn[s] = "reset")
        /\ thread'[s].at = "end" /\ direct'[s].at = "none"
    BY <1>0, <1>3 DEF T!Crash, T!At, TcpTypes, TcpFunctions, Conns
  <2>2. Rest(s)' = <<>>
    BY <2>1 DEF Rest, Owed
  <2>3. CASE conn[s] = "reset"
    BY <1>1, <2>1, <2>3, StreamReset DEF How
  <2>4. CASE conn[s] # "reset"
    BY <1>1, <2>1, <2>2, <2>4, StreamCut DEF How
  <2> QED  BY <2>3, <2>4
<1> QED  BY <1>2, <1>3

LEMMA SenderStepStreams ==
    ASSUME TcpTypes, Lives, \A z \in Senders : Stream(z), NEW s \in Senders, SenderStep(s)
    PROVE  \A z \in Senders : Stream(z)'
<1>1. OnlyOf(s) /\ Life(s) /\ Stream(s)
  BY OnlyOne DEF Lives
<1>2. Stream(s)'
  <2>1. ASSUME NEW size \in Sizes[s], T!Send(s, size) PROVE Stream(s)'
    BY <1>1, <2>1, SizesAre, SendStream
  <2>2. CASE T!DirectWrite(s)
    BY <1>1, <2>2, DirectWriteStream
  <2>3. CASE T!SendWrite(s)
    BY <1>1, <2>3, SendWriteStream
  <2>4. CASE T!SendTake(s)
    BY <1>1, <2>4, SendTakeStream
  <2>5. CASE \/ T!MakeSender(s) \/ T!Connect(s) \/ T!ConnectRefused(s) \/ T!SenderOpens(s)
             \/ T!CloseSender(s) \/ T!JoinSender(s) \/ T!SendEnd(s)
             \/ \E size \in Sizes[s] : T!SendDirect(s, size)
             \/ T!DirectFails(s) /\ conn[s] = "none"
    BY <1>1, <2>5, SilentStream
  <2>6. CASE \/ T!SendFails(s) \/ T!Break(s) \/ T!Crash(s)
             \/ T!DirectFails(s) /\ conn[s] # "none"
    BY <1>1, <2>6, FailingStream
  <2> QED  BY <2>1, <2>2, <2>3, <2>4, <2>5, <2>6 DEF SenderStep, T!SenderThread
<1> QED  BY <1>1, <1>2, OthersStream

-----------------------------------------------------------------------------
(* The streams after a step of a receiver.                                 *)
LEMMA HeadFirst ==
    ASSUME NEW w, w \in Seq(AnyPiece), w # <<>>, NEW y, y \in Seq(AnyPiece)
    PROVE  LET x == (<<>> \o w) \o y
           IN  /\ x \in Seq(AnyPiece) /\ x # <<>> /\ x[1] = Head(w)
               /\ Tail(x) = (<<>> \o Tail(w)) \o y
               /\ (<<Head(w)>> \o Tail(w)) \o y = x
<1> DEFINE x == (<<>> \o w) \o y
           h == Head(w)
           t == Tail(w)
           z == (<<>> \o t) \o y
<1>1. h \in AnyPiece /\ t \in Seq(AnyPiece) /\ Len(w) = Len(t) + 1 /\ Len(w) \in Nat /\ w[1] = h
      /\ \A n \in 1..Len(t) : t[n] = w[n + 1]
  OBVIOUS
<1>2. /\ x \in Seq(AnyPiece) /\ x # <<>> /\ x[1] = h /\ Len(x) = Len(w) + Len(y)
      /\ \A n \in 1..Len(x) : x[n] = IF n <= Len(w) THEN w[n] ELSE y[n - Len(w)]
  OBVIOUS
<1> HIDE DEF h, t, x
<1>3. /\ z \in Seq(AnyPiece) /\ Len(z) = Len(t) + Len(y)
      /\ \A n \in 1..Len(z) : z[n] = IF n <= Len(t) THEN t[n] ELSE y[n - Len(t)]
  BY <1>1
<1> HIDE DEF z
<1>4. Tail(x) = z
  <2> DEFINE v == Tail(x)
  <2>1. v \in Seq(AnyPiece) /\ Len(v) = Len(x) - 1 /\ \A n \in 1..Len(v) : v[n] = x[n + 1]
    BY <1>2
  <2> HIDE DEF v
  <2>2. Len(v) = Len(z)
    BY <1>1, <1>2, <1>3, <2>1
  <2>3. ASSUME NEW n \in 1..Len(v) PROVE v[n] = z[n]
    <3>1. n \in 1..Len(z) /\ n + 1 \in 1..Len(x)
      BY <1>1, <1>2, <1>3, <2>1, <2>2
    <3>2. v[n] = IF n + 1 <= Len(w) THEN w[n + 1] ELSE y[(n + 1) - Len(w)]
      BY <1>2, <2>1, <3>1
    <3>3. z[n] = IF n <= Len(t) THEN t[n] ELSE y[n - Len(t)]
      BY <1>3, <3>1
    <3>4. (n + 1 <= Len(w) <=> n <= Len(t)) /\ (n + 1) - Len(w) = n - Len(t)
      BY <1>1, <3>1
    <3>5. n <= Len(t) => t[n] = w[n + 1]
      BY <1>1, <3>1
    <3> QED  BY <3>2, <3>3, <3>4, <3>5
  <2>4. v = z
    BY <1>3, <2>1, <2>2, <2>3, SameSeq
  <2> QED  BY <2>4 DEF v
<1>5. <<h>> \o t = w /\ <<>> \o w = w
  <2> DEFINE u == <<h>>
             v == u \o t
  <2>1. u \in Seq(AnyPiece) /\ Len(u) = 1 /\ u[1] = h
    BY <1>1
  <2> HIDE DEF u
  <2>0. u \in Seq(AnyPiece) /\ t \in Seq(AnyPiece)
    BY <1>1, <2>1
  <2>5. /\ v \in Seq(AnyPiece) /\ Len(v) = Len(u) + Len(t)
        /\ \A n \in 1..Len(v) : v[n] = IF n <= Len(u) THEN u[n] ELSE t[n - Len(u)]
    BY <2>0
  <2>2. /\ v \in Seq(AnyPiece) /\ Len(v) = 1 + Len(t)
        /\ \A n \in 1..Len(v) : v[n] = IF n <= 1 THEN u[n] ELSE t[n - 1]
    BY <2>1, <2>5
  <2> HIDE DEF v
  <2>3. ASSUME NEW n \in 1..Len(v) PROVE v[n] = w[n]
    <3>1. n <= 1 => n = 1
      BY <1>1, <2>2
    <3>2. ~(n <= 1) => n - 1 \in 1..Len(t) /\ (n - 1) + 1 = n
      BY <1>1, <2>2
    <3> QED  BY <1>1, <2>1, <2>2, <3>1, <3>2
  <2>4. v = w
    BY <1>1, <2>2, <2>3, SameSeq
  <2> QED  BY <2>4 DEF u, v
<1> QED  BY <1>2, <1>4, <1>5 DEF x, h, t, z

LEMMA PairFirst ==
    ASSUME NEW h \in AnyPiece, NEW w, w \in Seq(AnyPiece), w # <<>>, NEW y, y \in Seq(AnyPiece)
    PROVE  LET x == (<<h>> \o w) \o y
           IN  /\ x \in Seq(AnyPiece) /\ Len(x) > 1 /\ x[1] = h /\ x[2] = Head(w)
               /\ Tail(Tail(x)) = (<<>> \o Tail(w)) \o y
<1> DEFINE x == (<<h>> \o w) \o y
           t == Tail(w)
           z == (<<>> \o t) \o y
           g == Head(w)
<1>1. t \in Seq(AnyPiece) /\ Len(w) = Len(t) + 1 /\ Len(w) \in Nat /\ w[1] = g
      /\ \A n \in 1..Len(t) : t[n] = w[n + 1]
  OBVIOUS
<1>2. /\ x \in Seq(AnyPiece) /\ Len(x) = (Len(w) + 1) + Len(y)
      /\ \A n \in 1..Len(x) : x[n] = IF n = 1 THEN h
                                     ELSE IF n <= Len(w) + 1 THEN w[n - 1]
                                     ELSE y[n - (Len(w) + 1)]
  OBVIOUS
<1> HIDE DEF t, x, g
<1>3. /\ z \in Seq(AnyPiece) /\ Len(z) = Len(t) + Len(y)
      /\ \A n \in 1..Len(z) : z[n] = IF n <= Len(t) THEN t[n] ELSE y[n - Len(t)]
  BY <1>1
<1> HIDE DEF z
<1>4. Len(x) > 1 /\ x[1] = h /\ x[2] = g
  BY <1>1, <1>2
<1>5. Tail(Tail(x)) = z
  <2> DEFINE v == Tail(Tail(x))
  <2> DEFINE u == Tail(x)
  <2>0. u \in Seq(AnyPiece) /\ Len(u) = Len(x) - 1 /\ \A n \in 1..Len(u) : u[n] = x[n + 1]
    BY <1>2, <1>4
  <2> HIDE DEF u
  <2>5. /\ Tail(u) \in Seq(AnyPiece) /\ Len(Tail(u)) = Len(u) - 1
        /\ \A n \in 1..Len(Tail(u)) : Tail(u)[n] = u[n + 1]
    BY <1>2, <1>4, <2>0
  <2>1. v \in Seq(AnyPiece) /\ Len(v) = Len(x) - 2 /\ \A n \in 1..Len(v) : v[n] = x[n + 2]
    <3>1. v = Tail(u)
      BY DEF u
    <3> HIDE DEF v
    <3>2. v \in Seq(AnyPiece) /\ Len(v) = Len(x) - 2
      BY <1>2, <1>4, <2>0, <2>5, <3>1
    <3>3. ASSUME NEW n \in 1..Len(v) PROVE v[n] = x[n + 2]
      <4>1. n \in 1..Len(Tail(u)) /\ n + 1 \in 1..Len(u) /\ (n + 1) + 1 = n + 2
        BY <1>2, <1>4, <2>0, <2>5, <3>1
      <4> QED  BY <2>0, <2>5, <3>1, <4>1
    <3> QED  BY <3>2, <3>3
  <2> HIDE DEF v
  <2>2. Len(v) = Len(z)
    BY <1>1, <1>2, <1>3, <2>1
  <2>3. ASSUME NEW n \in 1..Len(v) PROVE v[n] = z[n]
    <3>1. n \in 1..Len(z) /\ n + 2 \in 1..Len(x)
      BY <1>1, <1>2, <1>3, <2>1, <2>2
    <3>2. v[n] = IF n + 2 <= Len(w) + 1 THEN w[(n + 2) - 1] ELSE y[(n + 2) - (Len(w) + 1)]
      BY <1>2, <2>1, <3>1
    <3>3. z[n] = IF n <= Len(t) THEN t[n] ELSE y[n - Len(t)]
      BY <1>3, <3>1
    <3>4. /\ (n + 2 <= Len(w) + 1 <=> n <= Len(t)) /\ (n + 2) - (Len(w) + 1) = n - Len(t)
          /\ (n + 2) - 1 = n + 1
      BY <1>1, <3>1
    <3>5. n <= Len(t) => t[n] = w[n + 1]
      BY <1>1, <3>1
    <3> QED  BY <3>2, <3>3, <3>4, <3>5
  <2>4. v = z
    BY <1>3, <2>1, <2>2, <2>3, SameSeq
  <2> QED  BY <2>4 DEF v
<1> QED  BY <1>2, <1>4, <1>5 DEF x, t, z, g

LEMMA WireHead ==
    ASSUME NEW s, NEW way, NEW w, w \in Seq(AnyPiece), w # <<>>
    PROVE  /\ Head(w).part = "header" =>
                 /\ Head(w) = HeaderOf(Head(w).msg)
                 /\ OnWire(s, way, w) = T!Of(s, way, <<Head(w).msg>>) \o OnWire(s, way, Tail(w))
           /\ Head(w).part # "header" =>
                 /\ Head(w) = DataOf(Head(w).msg)
                 /\ OnWire(s, way, w) = OnWire(s, way, Tail(w))
<1> DEFINE h == Head(w)
           t == Tail(w)
           u == <<h>>
<1>1. h \in AnyPiece /\ t \in Seq(AnyPiece)
  OBVIOUS
<1>2. <<h>> \o t = w
  <2>1. (<<h>> \o t) \o <<>> = (<<>> \o w) \o <<>>
    BY Empties, HeadFirst
  <2>2. <<h>> \o t \in Seq(AnyPiece) /\ <<>> \o w = w /\ w \o <<>> = w
    BY <1>1
  <2> QED  BY <2>1, <2>2, ConcatEmptySeq
<1> HIDE DEF h, t
<1>3. u \in Seq(AnyPiece)
  BY <1>1
<1>4. OnWire(s, way, w) = OnWire(s, way, u) \o OnWire(s, way, t)
  <2> HIDE DEF u
  <2>1. OnWire(s, way, u \o t) = OnWire(s, way, u) \o OnWire(s, way, t)
    BY <1>1, <1>3, WireJoin
  <2> QED  BY <1>2, <2>1 DEF u
<1>5. h.msg \in Msgs /\ h.part \in {"header", "data"} /\ h = [part |-> h.part, msg |-> h.msg]
  BY <1>1 DEF AnyPiece
<1>6. h.part = "header" => h = HeaderOf(h.msg)
  BY <1>5 DEF HeaderOf
<1>7. h.part # "header" => h = DataOf(h.msg)
  BY <1>5 DEF DataOf
<1>8. h.part = "header" => OnWire(s, way, u) = T!Of(s, way, <<h.msg>>)
  BY <1>5, <1>6, WireOne
<1>9. h.part # "header" => OnWire(s, way, w) = OnWire(s, way, t)
  <2> SUFFICES ASSUME h.part # "header" PROVE OnWire(s, way, w) = OnWire(s, way, t)
    OBVIOUS
  <2>1. OnWire(s, way, u) = <<>>
    BY <1>5, <1>7, WireOne
  <2> DEFINE v == OnWire(s, way, t)
  <2>2. v \in Seq(Msgs)
    BY <1>1, WireSeq
  <2> HIDE DEF v
  <2>3. <<>> \o v = v
    BY <2>2
  <2> QED  BY <1>4, <2>1, <2>3 DEF v
<1> QED  BY <1>4, <1>6, <1>7, <1>8, <1>9 DEF h, t

(* A receiver holds nothing of a sender it is not connected to.            *)
LEMMA Foreign ==
    ASSUME NEW q, NEW p, NEW places, NEW ways, Held(p, places, Given(q, ways)),
           p.at \in places => q \in Senders, ways = Ways \union {"none"}, NEW s, s # q, NEW way
    PROVE  T!Of(s, way, p.msgs) = <<>>
<1>1. CASE p.at \in places
  <2>1. PICK m \in Given(q, ways) : p.msgs = <<m>>
    BY <1>1 DEF Held
  <2>2. m \in Msgs /\ m.from = q
    BY <1>1, GivenAre DEF Ways
  <2>3. T!Of(s, way, <<m>>) = IF Wants(s, way, m) THEN <<m>> ELSE <<>>
    BY <2>2, OfOne
  <2> QED  BY <2>1, <2>2, <2>3 DEF Wants
<1>2. CASE p.at \notin places
  BY <1>2, Empties, OfSeq DEF Held
<1> QED  BY <1>1, <1>2

Reads(r) ==
    /\ UNCHANGED <<sender, conn, thread, direct, snd_queue, sent, mixed, _socket, rcv_queue,
                   taken>>
    /\ \A x \in Receivers \ {r} : recv'[x] = recv[x]
    /\ \A z \in Senders : z # _socket[r] => wire'[z] = wire[z]

LEMMA ReaderStreams ==
    ASSUME TcpTypes, TcpTypes', Lives, NEW r \in Receivers, Reads(r), recv[r].at # "none",
           recv'[r].at # "none", \A z \in Senders : Stream(z), NEW q, q = _socket[r], Stream(q)'
    PROVE  \A z \in Senders : Stream(z)'
<1> SUFFICES ASSUME NEW z \in Senders, z # _socket[r] PROVE Stream(z)'
  OBVIOUS
<1>1. How(z)' = How(z) /\ SenderKeeps(z)
  BY DEF Reads, How, SenderKeeps, Rest, T!Unwritten
<1>2. ReceiverKeeps(z)
  <2>1. CASE To[z] = r
    <3>1. Pend(z) = <<>> /\ Pend(z)' = <<>>
      BY <2>1 DEF Pend, Reads
    <3>2. ASSUME NEW way \in Ways PROVE Reading(z, way) = <<>> /\ Reading(z, way)' = <<>>
      <4> DEFINE p == recv[r]
                 v == recv'[r]
                 all == Ways \union {"none"}
      <4>1. /\ Held(p, {"data", "push"}, Given(q, all)) /\ q \in Senders
            /\ Held(v, {"data", "push"}, Given(q, all))
        BY DEF TcpTypes, ReceiverHolds, Reads
      <4>2. Reading(z, way) = T!Of(z, way, p.msgs) /\ Reading(z, way)' = T!Of(z, way, v.msgs)
        BY <2>1 DEF Reading, T!Of
      <4> HIDE DEF p, v
      <4> QED  BY <4>1, <4>2, Foreign
    <3>3. \A way \in Ways : Arrived(z, way)' = Arrived(z, way)
      BY DEF Arrived, T!Received, T!Of, Reads
    <3> QED  BY <3>1, <3>2, <3>3 DEF ReceiverKeeps
  <2>2. CASE To[z] # r
    <3>1. To[z] \in Receivers
      BY TcpAssumption
    <3>2. /\ recv'[To[z]] = recv[To[z]] /\ _socket' = _socket
          /\ rcv_queue' = rcv_queue /\ taken' = taken
      BY <2>2, <3>1 DEF Reads
    <3>3. Pend(z)' = Pend(z)
      BY <3>2 DEF Pend
    <3>4. \A way \in Ways : Arrived(z, way)' = Arrived(z, way)
      BY <3>2 DEF Arrived, T!Received, T!Of
    <3>5. \A way \in Ways : Reading(z, way)' = Reading(z, way)
      BY <3>2 DEF Reading, T!Of
    <3> QED  BY <3>3, <3>4, <3>5 DEF ReceiverKeeps
  <2> QED  BY <2>1, <2>2
<1> QED  BY <1>1, <1>2, StreamKept

LEMMA RecvNone ==
    ASSUME TcpTypes, NEW r \in Receivers, recv[r].at \notin {"data", "push"}
    PROVE  recv[r].msgs = <<>>
BY DEF TcpTypes, ReceiverHolds, Held

(* A receiver's thread that held nothing and holds nothing.                *)
LEMMA IdleKeeps ==
    ASSUME TcpTypes, NEW r \in Receivers, NEW where, where \notin {"data", "push"},
           recv[r].at \notin {"data", "push"}, recv' = [recv EXCEPT ![r] = T!At(where, <<>>)],
           UNCHANGED <<rcv_queue, taken>>, \A x \in Receivers \ {r} : _socket'[x] = _socket[x],
           NEW z \in Senders
    PROVE  ReceiverKeeps(z)
<1>1. To[z] \in Receivers
  BY TcpAssumption
<1>2. \A way \in Ways : Arrived(z, way)' = Arrived(z, way)
  BY DEF Arrived, T!Received, T!Of
<1>3. recv'[To[z]].msgs = recv[To[z]].msgs
  BY <1>1, RecvNone DEF TcpTypes, TcpFunctions, T!At
<1>4. ASSUME NEW way \in Ways PROVE Reading(z, way)' = Reading(z, way)
  <2>1. Reading(z, way)' = T!Of(z, way, recv'[To[z]].msgs)
    BY DEF Reading, T!Of
  <2> QED  BY <1>3, <2>1 DEF Reading
<1>5. Pend(z)' = Pend(z)
  <2>1. CASE To[z] = r
    <3>1. recv[To[z]].at # "data" /\ recv'[To[z]].at # "data"
      BY <2>1 DEF TcpTypes, TcpFunctions, T!At
    <3> QED  BY <3>1 DEF Pend
  <2>2. CASE To[z] # r
    <3>1. recv'[To[z]] = recv[To[z]] /\ _socket'[To[z]] = _socket[To[z]]
      BY <1>1, <2>2 DEF TcpTypes, TcpFunctions
    <3> QED  BY <3>1 DEF Pend
  <2> QED  BY <2>1, <2>2
<1> QED  BY <1>2, <1>4, <1>5 DEF ReceiverKeeps

Sent == UNCHANGED <<sender, thread, direct, snd_queue, sent, mixed, wire>>

LEMMA SentKept == ASSUME NEW z, Sent PROVE SenderKeeps(z)
BY DEF Sent, SenderKeeps, Rest, T!Unwritten

LEMMA IdleStreams ==
    ASSUME TcpTypes, NEW r \in Receivers, NEW where, where \notin {"data", "push"},
           recv[r].at \notin {"data", "push"}, recv' = [recv EXCEPT ![r] = T!At(where, <<>>)],
           UNCHANGED <<rcv_queue, taken>>, \A x \in Receivers \ {r} : _socket'[x] = _socket[x],
           Sent, \A z \in Senders : conn'[z] \in {conn[z], "reset"},
           \A z \in Senders : Stream(z)
    PROVE  \A z \in Senders : Stream(z)'
<1> SUFFICES ASSUME NEW z \in Senders PROVE Stream(z)'
  OBVIOUS
<1>1. ReceiverKeeps(z) /\ SenderKeeps(z)
  BY IdleKeeps, SentKept
<1>2. CASE conn'[z] = "reset"
  BY <1>1, <1>2, StreamReset DEF How, SenderKeeps
<1>3. CASE conn'[z] = conn[z]
  <2>1. How(z)' = How(z)
    BY <1>3 DEF How, Sent
  <2> QED  BY <1>1, <2>1, StreamKept
<1> QED  BY <1>2, <1>3

LEMMA AcceptStreams ==
    ASSUME TcpTypes, Lives, NEW r \in Receivers, T!Accept(r), \A z \in Senders : Stream(z)
    PROVE  \A z \in Senders : Stream(z)'
<1>1. r \in listening /\ T!Accepting(r)
  BY DEF T!Accept, Lives, Linked
<1>2. recv[r].at \in {"none", "accept"}
  BY <1>1 DEF T!Accepting, Lives, Linked
<1>3. /\ recv' = [recv EXCEPT ![r] = T!At("test", <<>>)] /\ UNCHANGED <<rcv_queue, taken>>
      /\ \A x \in Receivers \ {r} : _socket'[x] = _socket[x]
      /\ Sent
  BY DEF T!Accept, T!sendVars, T!directVars, T!getVars, Sent, TcpTypes, TcpFunctions
<1>4. \A z \in Senders : conn'[z] \in {conn[z], "reset"}
  BY DEF T!Accept
<1> QED  BY <1>2, <1>3, <1>4, IdleStreams

LEMMA PushStreams ==
    ASSUME TcpTypes, NEW r \in Receivers, T!RecvPush(r), \A z \in Senders : Stream(z)
    PROVE  \A z \in Senders : Stream(z)'
<1> SUFFICES ASSUME NEW z \in Senders PROVE Stream(z)'
  OBVIOUS
<1>1. /\ recv[r].at = "push" /\ recv'[r] = T!At("notify", <<>>) /\ Sent
      /\ rcv_queue'[r] = rcv_queue[r] \o recv[r].msgs
      /\ \A x \in Receivers \ {r} : recv'[x] = recv[x] /\ rcv_queue'[x] = rcv_queue[x]
      /\ UNCHANGED <<conn, _socket, taken>>
  BY DEF T!RecvPush, T!sendVars, T!directVars, T!connVars, T!getVars, Sent, TcpTypes, TcpFunctions
<1>2. SenderKeeps(z) /\ How(z)' = How(z)
  BY <1>1, SentKept DEF How, Sent
<1>3. To[z] \in Receivers
  BY TcpAssumption
<1>4. Pend(z)' = Pend(z)
  BY <1>1, <1>3 DEF Pend, T!At
<1>5. CASE To[z] # r
  <2>1. recv'[To[z]] = recv[To[z]] /\ rcv_queue'[To[z]] = rcv_queue[To[z]] /\ taken' = taken
    BY <1>1, <1>3, <1>5
  <2>2. ReceiverKeeps(z)
    BY <1>4, <2>1 DEF ReceiverKeeps, Arrived, Reading, T!Received, T!Of
  <2> QED  BY <1>2, <2>2, StreamKept
<1>6. CASE To[z] = r
  <2>1. Shape(z)'
    BY <1>2, <1>4 DEF Stream, Shape, SenderKeeps
  <2>2. ASSUME NEW way \in Ways, z \notin mixed PROVE Flow(z, way)'
    <3> DEFINE a == Arrived(z, way)
               b == Reading(z, way)
               c == Wired(z, way)
               d == Writing(z, way)
               e == Queued(z, way)
               due == T!Due(z, way)
    <3>1. Five(a, b, c, d, e) /\ FlowOf(a, b, c, d, e, due, How(z))
      BY <2>2, FlowTypes DEF Stream, Flow
    <3>2. c' = c /\ d' = d /\ e' = e /\ due' = due
      BY <1>2 DEF SenderKeeps, Wired, Writing, Queued, OnWire, T!Due, T!Of, T!Announced
    <3>3. b' = <<>>
      <4>1. b' = T!Of(z, way, recv'[r].msgs)
        BY <1>6 DEF Reading, T!Of
      <4>2. recv'[r].msgs = <<>>
        BY <1>1 DEF T!At
      <4> QED  BY <4>1, <4>2, Empties, OfSeq
    <3>4. a' = a \o b
      <4> DEFINE x == taken[r]
                 y == rcv_queue[r]
                 v == recv[r].msgs
      <4>1. x \in Seq(Msgs) /\ y \in Seq(Msgs) /\ v \in Seq(Msgs)
        BY DEF TcpTypes, TcpFunctions, Position
      <4>2. a' = T!Of(z, way, taken'[r] \o rcv_queue'[r])
        BY <1>6 DEF Arrived, T!Received, T!Of
      <4>3. taken'[r] \o rcv_queue'[r] = x \o (y \o v)
        BY <1>1
      <4>4. a = T!Of(z, way, x \o y) /\ b = T!Of(z, way, v)
        BY <1>6 DEF Arrived, Reading, T!Received
      <4> HIDE DEF a, b, x, y, v
      <4>5. x \o (y \o v) = (x \o y) \o v /\ x \o y \in Seq(Msgs)
        BY <4>1, Assoc
      <4>6. OfBoth(z, way, x \o y, v)
        BY <4>1, <4>5, OfJoin
      <4> QED  BY <4>2, <4>3, <4>4, <4>5, <4>6 DEF OfBoth
    <3> HIDE DEF a, b, c, d, e, due
    <3>5. FlowOf(a \o b, <<>>, c, d, e, due, How(z))
      BY <3>1, HowIs, FlowPushed
    <3>6. FlowOf(a', b', c', d', e', due', How(z)')
      BY <1>2, <3>2, <3>3, <3>4, <3>5
    <3> QED  BY <3>6 DEF Flow, a, b, c, d, e, due
  <2> QED  BY <1>2, <2>1, <2>2 DEF Stream, Flow, SenderKeeps
<1> QED  BY <1>5, <1>6

LEMMA TakeStreams ==
    ASSUME TcpTypes, NEW g \in Getters, T!GetTake(g), \A z \in Senders : Stream(z)
    PROVE  \A z \in Senders : Stream(z)'
<1> SUFFICES ASSUME NEW z \in Senders PROVE Stream(z)'
  OBVIOUS
<1> DEFINE r == From[g]
           x == taken[r]
           y == rcv_queue[r]
<1>1. r \in Receivers
  BY TcpAssumption
<1>2. /\ y # <<>> /\ Sent /\ UNCHANGED <<conn, _socket, recv>>
      /\ taken'[r] = Append(x, Head(y)) /\ rcv_queue'[r] = Tail(y)
      /\ \A q \in Receivers \ {r} : taken'[q] = taken[q] /\ rcv_queue'[q] = rcv_queue[q]
  BY <1>1 DEF T!GetTake, T!sendVars, T!directVars, T!connVars, Sent, TcpTypes, TcpFunctions
<1>3. SenderKeeps(z) /\ How(z)' = How(z)
  BY <1>2, SentKept DEF How, Sent
<1>4. x \in Seq(Msgs) /\ y \in Seq(Msgs)
  BY <1>1 DEF TcpTypes, TcpFunctions
<1>5. To[z] \in Receivers
  BY TcpAssumption
<1> HIDE DEF r
<1>6. taken'[To[z]] \o rcv_queue'[To[z]] = taken[To[z]] \o rcv_queue[To[z]]
  <2>1. CASE To[z] = r
    <3> HIDE DEF x, y
    <3>1. Append(x, Head(y)) \o Tail(y) = x \o y
      <4> DEFINE h == Head(y)
                 t == Tail(y)
                 u == <<h>>
      <4>1. h \in Msgs /\ t \in Seq(Msgs) /\ y = <<h>> \o t /\ u \in Seq(Msgs)
        BY <1>2, <1>4
      <4> HIDE DEF h, t
      <4>2. Append(x, h) = x \o u
        BY <1>4, <4>1
      <4> HIDE DEF u
      <4>3. (x \o u) \o t = x \o (u \o t)
        BY <1>4, <4>1, Assoc
      <4> QED  BY <4>1, <4>2, <4>3 DEF h, t, u
    <3> QED  BY <1>2, <2>1, <3>1 DEF x, y
  <2>2. CASE To[z] # r
    BY <1>2, <1>5, <2>2
  <2> QED  BY <2>1, <2>2
<1>7. ReceiverKeeps(z)
  BY <1>2, <1>6 DEF ReceiverKeeps, Pend, Arrived, Reading, T!Received, T!Of
<1> QED  BY <1>3, <1>7, StreamKept

(* A unit read from the wire of the sender the receiver is connected to.   *)
Link(r, s, p) == /\ Reads(r) /\ recv'[r] = p /\ wire'[s] = Tail(wire[s])
                 /\ s \in Senders /\ s = _socket[r] /\ s = _socket'[r] /\ To[s] = r
                 /\ conn[s] # "reset" /\ conn'[s] = conn[s]
                 /\ wire[s] # <<>> /\ wire[s] \in Seq(AnyPiece)

LEMMA LinkIs ==
    ASSUME TcpTypes, Lives, NEW r \in Receivers, NEW p \in Position, ReadUnit(r, p),
           recv[r].at # "none", conn[_socket[r]] # "reset", UNCHANGED mixed
    PROVE  Link(r, _socket[r], p)
<1>1. _socket[r] \in Senders /\ To[_socket[r]] = r
  BY DEF ReadUnit, Lives, Linked
<1> QED  BY <1>1 DEF ReadUnit, Reads, Link, TcpTypes, TcpFunctions

LEMMA LinkKeeps ==
    ASSUME NEW r, NEW s, NEW p, Link(r, s, p), NEW way
    PROVE  /\ How(s)' = How(s) /\ How(s) \in {"cut", "whole"} /\ Rest(s)' = Rest(s)
           /\ (s \in mixed' <=> s \in mixed)
           /\ Arrived(s, way)' = Arrived(s, way)
           /\ Reading(s, way) = T!Of(s, way, recv[r].msgs)
           /\ Reading(s, way)' = T!Of(s, way, p.msgs)
           /\ Wired(s, way)' = OnWire(s, way, Tail(wire[s]))
           /\ Writing(s, way)' = Writing(s, way)
           /\ Queued(s, way)' = Queued(s, way) /\ T!Due(s, way)' = T!Due(s, way)
<1> USE DEF Link, Reads
<1>1. How(s)' = How(s) /\ How(s) \in {"cut", "whole"} /\ Rest(s)' = Rest(s)
  BY DEF How, Rest
<1>2. Arrived(s, way)' = Arrived(s, way)
  BY DEF Arrived, T!Received, T!Of
<1>3. Reading(s, way) = T!Of(s, way, recv[r].msgs)
  BY DEF Reading
<1>4. Reading(s, way)' = T!Of(s, way, p.msgs)
  <2>1. Reading(s, way)' = T!Of(s, way, recv'[To[s]].msgs)
    BY DEF Reading, T!Of
  <2> QED  BY <2>1
<1>5. Wired(s, way)' = OnWire(s, way, Tail(wire[s]))
  <2>1. Wired(s, way)' = OnWire(s, way, wire'[s])
    BY DEF Wired, OnWire, T!Of, T!Announced
  <2> QED  BY <2>1
<1>6. Writing(s, way)' = Writing(s, way)
  BY DEF Writing, T!Of, T!Unwritten
<1>7. Queued(s, way)' = Queued(s, way) /\ T!Due(s, way)' = T!Due(s, way)
  BY DEF Queued, T!Due, T!Of
<1> QED  BY <1>1, <1>2, <1>3, <1>4, <1>5, <1>6, <1>7

LEMMA HeaderRead ==
    ASSUME TcpTypes, NEW r \in Receivers, NEW s, NEW p \in Position, Link(r, s, p), Stream(s),
           recv[r].at = "header", NEW u, u = Head(wire[s]), NEW size,
           u.part = "header" => size = u.msg.size,
           p = IF size = 0 THEN T!At("test", <<>>) ELSE T!At("data", <<u.msg>>)
    PROVE  Stream(s)'
<1> DEFINE w == wire[s]
           y == Rest(s)
           x == (<<>> \o w) \o y
<1>1. w \in Seq(AnyPiece) /\ w # <<>> /\ s \in Senders /\ u = Head(w)
  BY DEF Link
<1>2. u \in AnyPiece /\ u.msg \in Msgs /\ y \in Seq(AnyPiece)
  <2>1. y \in Seq(AnyPiece)
    BY <1>1, OwedAre
  <2>2. u \in AnyPiece
    <3> HIDE DEF w
    <3> QED  BY <1>1
  <2>3. u.msg \in Msgs
    BY <2>2 DEF AnyPiece
  <2> QED  BY <2>1, <2>2, <2>3
<1> HIDE DEF w, y
<1>3. /\ x \in Seq(AnyPiece) /\ x # <<>> /\ x[1] = u /\ Tail(x) = (<<>> \o Tail(w)) \o y
      /\ (<<u>> \o Tail(w)) \o y = x
  <2>1. /\ x \in Seq(AnyPiece) /\ x # <<>> /\ x[1] = Head(w)
        /\ Tail(x) = (<<>> \o Tail(w)) \o y /\ (<<Head(w)>> \o Tail(w)) \o y = x
    BY <1>1, <1>2, HeadFirst
  <2> HIDE DEF x
  <2> QED  BY <1>1, <2>1
<1> HIDE DEF x
<1>4. Pend(s) = <<>> /\ recv[r].msgs = <<>>
  BY RecvNone DEF Pend, Link
<1>5. s \notin mixed => ShapeOf(x, How(s))
  <2>1. s \notin mixed /\ How(s) # "reset" => ShapeOf((Pend(s) \o wire[s]) \o Rest(s), How(s))
    BY DEF Stream, Shape
  <2> QED  BY <1>4, <2>1, LinkKeeps DEF x, w, y
<1>6. s \notin mixed => u.part = "header"
  BY <1>3, <1>5, ShapeTail
<1>7. u.part = "header" => u = HeaderOf(u.msg)
  BY <1>1, WireHead
<1>8. s \notin mixed => ShapeOf((Pend(s)' \o Tail(w)) \o y, How(s))
  <2> SUFFICES ASSUME s \notin mixed PROVE ShapeOf((Pend(s)' \o Tail(w)) \o y, How(s))
    OBVIOUS
  <2>1. size = u.msg.size
    BY <1>6
  <2>2. CASE size = 0
    <3>1. Pend(s)' = <<>>
      BY <2>2 DEF Pend, Link, T!At
    <3>2. ~Needs(x[1])
      BY <1>3, <2>1, <2>2 DEF Needs
    <3>3. ShapeOf(Tail(x), How(s))
      BY <1>3, <1>5, <3>2, ShapeTail
    <3> QED  BY <1>3, <3>1, <3>3
  <2>3. CASE size # 0
    <3>1. recv'[r].at = "data" /\ recv'[r].msgs = <<u.msg>>
      BY <2>3 DEF Link, T!At
    <3>2. recv'[r].msgs[1] = u.msg
      BY <3>1
    <3>3. Pend(s)' = <<HeaderOf(u.msg)>>
      BY <3>1, <3>2 DEF Pend, Link
    <3> QED  BY <1>3, <1>5, <1>6, <1>7, <3>3
  <2> QED  BY <2>2, <2>3
<1>9. Shape(s)'
  BY <1>8, LinkKeeps DEF Shape, Link, w, y
<1>10. ASSUME NEW way \in Ways, s \notin mixed PROVE Flow(s, way)'
  <2> DEFINE a == Arrived(s, way)
             b == Reading(s, way)
             c == Wired(s, way)
             d == Writing(s, way)
             e == Queued(s, way)
             due == T!Due(s, way)
             v == T!Of(s, way, <<u.msg>>)
             t == OnWire(s, way, Tail(w))
  <2>1. Five(a, b, c, d, e) /\ FlowOf(a, b, c, d, e, due, How(s))
    BY <1>1, <1>10, FlowTypes DEF Stream, Flow
  <2>2. b = <<>>
    <3>1. b = T!Of(s, way, recv[r].msgs)
      BY LinkKeeps
    <3> QED  BY <1>4, <3>1, Empties, OfSeq
  <2>3. c = v \o t
    BY <1>1, <1>6, <1>10, WireHead DEF Wired, w
  <2>4. v \in Seq(Msgs) /\ v = IF Wants(s, way, u.msg) THEN <<u.msg>> ELSE <<>>
    BY <1>2, OfOne
  <2>5. t \in Seq(Msgs)
    <3>1. Tail(w) \in Seq(AnyPiece)
      BY <1>1
    <3> QED  BY <3>1, WireSeq
  <2>6. b' = v
    <3>1. b' = T!Of(s, way, p.msgs)
      BY LinkKeeps
    <3>2. CASE size = 0
      <4>1. p.msgs = <<>>
        BY <3>2 DEF T!At
      <4>2. v = <<>>
        BY <1>6, <1>10, <2>4, <3>2 DEF Wants
      <4> QED  BY <3>1, <4>1, <4>2, Empties, OfSeq
    <3>3. CASE size # 0
      <4>1. p.msgs = <<u.msg>>
        BY <3>3 DEF T!At
      <4> QED  BY <3>1, <4>1
    <3> QED  BY <3>2, <3>3
  <2>7. a' = a /\ c' = t /\ d' = d /\ e' = e /\ due' = due /\ How(s)' = How(s)
        /\ How(s) \in {"cut", "whole"}
    BY LinkKeeps DEF w
  <2> HIDE DEF a, b, c, d, e, due, v, t
  <2>8. Five(a, v, t, d, e) /\ FlowOf(a, <<>>, v \o t, d, e, due, How(s))
    BY <2>1, <2>2, <2>3, <2>4, <2>5 DEF Five
  <2>9. FlowOf(a, v, t, d, e, due, How(s))
    BY <2>7, <2>8, FlowRead
  <2>10. FlowOf(a', b', c', d', e', due', How(s)')
    BY <2>6, <2>7, <2>9
  <2> QED  BY <2>10 DEF Flow, a, b, c, d, e, due
<1>11. s \in mixed' <=> s \in mixed
  BY LinkKeeps
<1> QED  BY <1>9, <1>10, <1>11 DEF Stream, Flow

LEMMA DataRead ==
    ASSUME TcpTypes, NEW r \in Receivers, NEW s, NEW p \in Position, Link(r, s, p), Stream(s),
           recv[r].at = "data", NEW u, u = Head(wire[s]),
           u.part = "data" => p = T!At("push", <<u.msg>>), p.at = "push"
    PROVE  Stream(s)'
<1> DEFINE w == wire[s]
           y == Rest(s)
           m == recv[r].msgs[1]
           h == HeaderOf(m)
           x == (<<h>> \o w) \o y
<1>1. w \in Seq(AnyPiece) /\ w # <<>> /\ s \in Senders /\ u = Head(w)
  BY DEF Link
<1>2. y \in Seq(AnyPiece)
  BY <1>1, OwedAre
<1>3. m \in Msgs /\ recv[r].msgs = <<m>> /\ m.size > 0
  <2>1. Held(recv[r], {"data", "push"}, Given(s, Ways \union {"none"})) /\ recv[r].msgs[1].size > 0
    BY DEF TcpTypes, ReceiverHolds, Link
  <2>2. PICK z \in Given(s, Ways \union {"none"}) : recv[r].msgs = <<z>> /\ recv[r].msgs[1] = z
    BY <2>1, HeldIs
  <2>3. z \in Msgs
    BY <1>1, GivenAre DEF Ways
  <2> QED  BY <2>1, <2>2, <2>3
<1>4. Pend(s) = <<h>>
  BY DEF Pend, Link
<1> HIDE DEF w, y, m
<1>5. h \in AnyPiece /\ Needs(h) /\ h.msg = m
  BY <1>3, WireOne DEF Needs, HeaderOf
<1> HIDE DEF h
<1>6. /\ x \in Seq(AnyPiece) /\ Len(x) > 1 /\ x[1] = h /\ x[2] = u
      /\ Tail(Tail(x)) = (<<>> \o Tail(w)) \o y
  BY <1>1, <1>2, <1>5, PairFirst
<1> HIDE DEF x
<1>7. s \notin mixed => ShapeOf(x, How(s))
  <2>1. s \notin mixed /\ How(s) # "reset" => ShapeOf((Pend(s) \o wire[s]) \o Rest(s), How(s))
    BY DEF Stream, Shape
  <2> QED  BY <1>4, <2>1, LinkKeeps DEF x, w, y
<1>8. s \notin mixed => u = DataOf(m) /\ ShapeOf(Tail(Tail(x)), How(s))
  BY <1>5, <1>6, <1>7, ShapePair
<1>9. s \notin mixed => u.part = "data" /\ u.msg = m
  BY <1>8 DEF DataOf
<1>10. Shape(s)'
  <2>1. Pend(s)' = <<>>
    BY DEF Pend, Link
  <2> QED  BY <1>6, <1>8, <2>1, LinkKeeps DEF Shape, Link, w, y
<1>11. ASSUME NEW way \in Ways, s \notin mixed PROVE Flow(s, way)'
  <2> DEFINE a == Arrived(s, way)
             b == Reading(s, way)
             c == Wired(s, way)
             d == Writing(s, way)
             e == Queued(s, way)
             due == T!Due(s, way)
  <2>1. FlowOf(a, b, c, d, e, due, How(s))
    BY <1>11 DEF Stream, Flow
  <2>2. c' = c
    <3>1. u.part # "header"
      BY <1>9, <1>11
    <3>2. OnWire(s, way, w) = OnWire(s, way, Tail(w))
      BY <1>1, <3>1, WireHead
    <3> QED  BY <3>2, LinkKeeps DEF Wired, w
  <2>3. b' = b
    <3>1. p.msgs = <<m>>
      BY <1>9, <1>11 DEF T!At
    <3> QED  BY <1>3, <3>1, LinkKeeps
  <2>4. a' = a /\ d' = d /\ e' = e /\ due' = due /\ How(s)' = How(s)
    BY LinkKeeps
  <2> HIDE DEF a, b, c, d, e, due
  <2>5. FlowOf(a', b', c', d', e', due', How(s)')
    BY <2>1, <2>2, <2>3, <2>4
  <2> QED  BY <2>5 DEF Flow, a, b, c, d, e, due
<1>12. s \in mixed' <=> s \in mixed
  BY LinkKeeps
<1> QED  BY <1>10, <1>11, <1>12 DEF Stream, Flow

(* What a receiver had begun to read is lost: the connection was reset, or *)
(* its sender ended in the middle of a message.                            *)
Lost(r, s) == \/ conn[s] = "reset"
              \/ conn[s] = "closed" /\ wire[s] = <<>>

LEMMA SingleSeq ==
    ASSUME NEW h
    PROVE  (<<h>> \o <<>>) \o <<>> = <<h>> /\ Len(<<h>>) = 1 /\ <<h>>[1] = h /\ <<h>> # <<>>
OBVIOUS

LEMMA LostRead ==
    ASSUME TcpTypes, Lives, NEW r \in Receivers, NEW s \in Senders, s = _socket[r], To[s] = r,
           Stream(s), recv[r].at = "data", NEW where, where \notin {"data", "push"},
           recv'[r] = T!At(where, <<>>), Reads(r), UNCHANGED <<conn, wire>>, Lost(r, s)
    PROVE  Stream(s)'
<1>1. /\ How(s)' = How(s) /\ Rest(s)' = Rest(s) /\ (s \in mixed' <=> s \in mixed)
      /\ wire'[s] = wire[s] /\ _socket'[r] = s
  BY DEF Reads, How, Rest
<1>2. Pend(s)' = <<>>
  BY DEF Pend, T!At
<1>3. /\ Held(recv[r], {"data", "push"}, Given(s, Ways \union {"none"}))
      /\ recv[r].msgs[1].size > 0
  BY DEF TcpTypes, ReceiverHolds
<1>4. ASSUME s \notin mixed PROVE How(s) = "reset" \/ (How(s) = "cut" /\ Rest(s) = <<>>)
  <2>1. CASE conn[s] = "reset"
    BY <2>1 DEF How
  <2>2. CASE conn[s] = "closed" /\ wire[s] = <<>>
    <3>1. sender[s] \in {"closed", "crashed"} /\ direct[s].at = "none"
      BY <2>2 DEF Lives, Life
    <3>2. thread[s].at \in {"none", "end", "stillborn"}
      BY <3>1 DEF Lives, Life
    <3>3. Rest(s) = <<>>
      BY <3>1, <3>2 DEF Rest, Owed
    <3>4. ASSUME How(s) = "whole" PROVE FALSE
      <4> DEFINE h == HeaderOf(recv[r].msgs[1])
                 x == <<h>>
      <4>1. Pend(s) = x
        BY DEF Pend
      <4>2. Needs(h)
        BY <1>3 DEF Needs, HeaderOf
      <4> HIDE DEF h
      <4>3. (x \o <<>>) \o <<>> = x /\ Len(x) = 1 /\ x[1] = h /\ x # <<>>
        BY SingleSeq
      <4> HIDE DEF x
      <4>4. Whole((Pend(s) \o wire[s]) \o Rest(s))
        BY <1>4, <3>4 DEF Stream, Shape, ShapeOf
      <4>5. Whole(x)
        BY <2>2, <3>3, <4>1, <4>3, <4>4
      <4> QED  BY <4>2, <4>3, <4>5 DEF Whole
    <3> QED  BY <2>2, <3>3, <3>4, HowIs DEF How
  <2> QED  BY <2>1, <2>2 DEF Lost
<1>5. Shape(s)'
  <2> SUFFICES ASSUME s \notin mixed, How(s) # "reset"
               PROVE  ShapeOf((Pend(s)' \o wire'[s]) \o Rest(s)', How(s))
    BY <1>1 DEF Shape
  <2>1. How(s) = "cut" /\ Rest(s) = <<>> /\ wire[s] = <<>>
    BY <1>4 DEF Lost, How
  <2>2. (<<>> \o <<>>) \o <<>> = <<>>
    OBVIOUS
  <2>3. ShapeOf(<<>>, "cut")
    BY DEF ShapeOf, Paired
  <2> QED  BY <1>1, <1>2, <2>1, <2>2, <2>3
<1>6. ASSUME NEW way \in Ways, s \notin mixed PROVE Flow(s, way)'
  <2> DEFINE a == Arrived(s, way)
             b == Reading(s, way)
             c == Wired(s, way)
             d == Writing(s, way)
             e == Queued(s, way)
             due == T!Due(s, way)
  <2>1. Five(a, b, c, d, e) /\ FlowOf(a, b, c, d, e, due, How(s))
    BY <1>6, FlowTypes DEF Stream, Flow
  <2>2. a' = a
    BY DEF Reads, Arrived, T!Received, T!Of
  <2>3. c' = c
    BY DEF Reads, Wired, OnWire, T!Of, T!Announced
  <2>4. d' = d /\ e' = e /\ due' = due
    BY DEF Reads, Writing, Queued, T!Due, T!Of, T!Unwritten
  <2>5. b' = <<>>
    <3>1. b' = T!Of(s, way, recv'[r].msgs)
      BY DEF Reading, T!Of
    <3>2. recv'[r].msgs = <<>>
      BY DEF T!At
    <3> QED  BY <3>1, <3>2, Empties, OfSeq
  <2>6. How(s) \in {"reset", "cut"} /\ (How(s) = "cut" => c = <<>>)
    <3>1. How(s) = "cut" => wire[s] = <<>>
      BY DEF How, Lost
    <3>2. wire[s] = <<>> => c = <<>>
      <4> SUFFICES ASSUME wire[s] = <<>> PROVE c = <<>>
        OBVIOUS
      <4>1. c = OnWire(s, way, <<>>)
        BY DEF Wired
      <4>2. \E m : m \in Msgs
        <5>1. recv[r].msgs[1] \in Msgs
          <6>1. PICK m \in Given(s, Ways \union {"none"}) : recv[r].msgs[1] = m
            BY <1>3, HeldIs
          <6> QED  BY <6>1, GivenAre DEF Ways
        <5> QED  BY <5>1
      <4> QED  BY <4>1, <4>2, WireOne
    <3> QED  BY <1>4, <1>6, <3>1, <3>2
  <2> HIDE DEF a, b, c, d, e, due
  <2>7. FlowOf(a, <<>>, c, d, e, due, How(s))
    BY <2>1, <2>6, FlowLost
  <2>8. FlowOf(a', b', c', d', e', due', How(s)')
    BY <1>1, <2>2, <2>3, <2>4, <2>5, <2>7
  <2> QED  BY <2>8 DEF Flow, a, b, c, d, e, due
<1> QED  BY <1>1, <1>5, <1>6 DEF Stream, Flow

LEMMA ReceiverStepStreams ==
    ASSUME TcpTypes, TcpTypes', Lives, NEW r \in Receivers, ReceiverStep(r),
           \A z \in Senders : Stream(z)
    PROVE  \A z \in Senders : Stream(z)'
<1> USE DEF T!sendVars, T!directVars, T!connVars, T!recvVars, T!getVars
<1>1. CASE T!MakeReceiver(r) \/ T!CloseReceiver(r) \/ T!JoinReceiver(r) \/ T!Listen(r)
  <2>1. Sent /\ UNCHANGED <<conn, _socket, recv, rcv_queue, taken>>
    BY <1>1 DEF T!MakeReceiver, T!CloseReceiver, T!JoinReceiver, T!Listen, Sent
  <2> TAKE z \in Senders
  <2>2. ReceiverKeeps(z) /\ SenderKeeps(z) /\ How(z)' = How(z)
    BY <2>1, ReceiversKeep, SentKept DEF How, Sent
  <2> QED  BY <2>2, StreamKept
<1>2. CASE T!Accept(r)
  BY <1>2, AcceptStreams
<1>3. CASE T!RecvTest(r) \/ T!RecvNotify(r)
           \/ (recv[r].at = "header" /\ (T!RecvEnd(r) \/ T!RecvFails(r)))
  <2>1. PICK where \in {"test", "header", "end", "accept"} :
           recv' = [recv EXCEPT ![r] = T!At(where, <<>>)]
    BY <1>3 DEF T!RecvTest, T!RecvNotify, T!RecvEnd, T!RecvFails
  <2>2. /\ recv[r].at \notin {"data", "push"} /\ where \notin {"data", "push"} /\ Sent
        /\ UNCHANGED <<conn, _socket, rcv_queue, taken>>
    BY <1>3 DEF T!RecvTest, T!RecvNotify, T!RecvEnd, T!RecvFails, Sent
  <2> QED  BY <2>1, <2>2, IdleStreams
<1>4. CASE T!RecvPush(r)
  BY <1>4, PushStreams
<1>5. CASE recv[r].at = "data" /\ (T!RecvEnd(r) \/ T!RecvFails(r))
  <2>1. PICK where \in {"test", "accept"} : recv' = [recv EXCEPT ![r] = T!At(where, <<>>)]
    BY <1>5 DEF T!RecvEnd, T!RecvFails
  <2>2. PICK s : s = _socket[r]
    OBVIOUS
  <2>3. s \in Senders /\ To[s] = r
    BY <1>5, <2>2 DEF TcpTypes, ReceiverHolds, Lives, Linked
  <2>4. recv'[r] = T!At(where, <<>>) /\ Reads(r) /\ UNCHANGED <<conn, wire>> /\ Lost(r, s)
    BY <1>5, <2>1, <2>2 DEF T!RecvEnd, T!RecvFails, Reads, Lost, TcpTypes, TcpFunctions
  <2>5. Stream(s)'
    BY <1>5, <2>2, <2>3, <2>4, LostRead
  <2>6. recv'[r].at # "none"
    BY <2>4 DEF T!At
  <2> QED  BY <1>5, <2>2, <2>4, <2>5, <2>6, ReaderStreams
<1>6. CASE T!RecvHeader(r)
  <2> DEFINE w == Head(wire[_socket[r]])
             z == IF w.part = "header" THEN w.msg.size ELSE _header[r]
  <2>1. PICK p \in Position :
           /\ ReadUnit(r, p) /\ recv[r].at = "header" /\ conn[_socket[r]] # "reset"
           /\ p = IF z = 0 THEN T!At("test", <<>>) ELSE T!At("data", <<w.msg>>)
    BY <1>6, RecvHeaderIs
  <2>2. UNCHANGED mixed
    BY <1>6 DEF T!RecvHeader
  <2>3. PICK s, u, size : s = _socket[r] /\ u = w /\ size = z
    OBVIOUS
  <2>4. Link(r, s, p) /\ s \in Senders
    BY <2>1, <2>2, <2>3, LinkIs DEF Link
  <2>5. Stream(s)'
    BY <2>1, <2>3, <2>4, HeaderRead
  <2>6. p.at # "none"
    BY <2>1 DEF T!At
  <2> QED  BY <2>1, <2>3, <2>4, <2>5, <2>6, ReaderStreams DEF Link
<1>7. CASE T!RecvData(r)
  <2> DEFINE w == Head(wire[_socket[r]])
             got == IF w.part = "data" THEN w.msg ELSE [w.msg EXCEPT !.way = "none"]
  <2>1. PICK p \in Position :
           /\ ReadUnit(r, p) /\ recv[r].at = "data" /\ conn[_socket[r]] # "reset"
           /\ p = T!At("push", <<got>>)
    BY <1>7, RecvDataIs
  <2>2. UNCHANGED mixed
    BY <1>7 DEF T!RecvData
  <2>3. PICK s, u : s = _socket[r] /\ u = w
    OBVIOUS
  <2>4. Link(r, s, p) /\ s \in Senders
    BY <2>1, <2>2, <2>3, LinkIs DEF Link
  <2>5. p.at = "push" /\ (u.part = "data" => p = T!At("push", <<u.msg>>))
    BY <2>1, <2>3 DEF T!At
  <2>6. Stream(s)'
    BY <2>1, <2>3, <2>4, <2>5, DataRead
  <2> QED  BY <2>1, <2>3, <2>4, <2>5, <2>6, ReaderStreams DEF Link
<1> QED
  BY <1>1, <1>2, <1>3, <1>4, <1>5, <1>6, <1>7
  DEF ReceiverStep, T!ReceiverThread, T!RecvEnd, T!RecvFails, T!Readable

-----------------------------------------------------------------------------
(* The invariant: the types, where everybody is, and every stream.         *)
TcpInv == TcpTypes /\ Lives /\ \A s \in Senders : Stream(s)

LEMMA TcpStart == T!TcpInit => TcpInv
<1> SUFFICES ASSUME T!TcpInit PROVE TcpInv
  OBVIOUS
<1>1. TcpTypes
  BY InitTcpTypes
<1>2. Lives
  <2>1. ASSUME NEW s \in Senders PROVE Life(s)
    BY DEF T!TcpInit, T!At, Life
  <2>2. ASSUME NEW r \in Receivers PROVE Linked(r)
    <3>1. /\ receiver[r] = "none" /\ recv[r].at = "none" /\ listening = {} /\ backlog[r] = <<>>
          /\ _socket[r] = NoSender
      BY DEF T!TcpInit, T!At
    <3>2. NoSender \notin Senders
      BY TcpAssumption
    <3> QED  BY <3>1, <3>2 DEF Linked
  <2> QED  BY <2>1, <2>2 DEF Lives
<1>3. ASSUME NEW s \in Senders PROVE Stream(s)
  <2>1. To[s] \in Receivers
    BY TcpAssumption
  <2>2. /\ How(s) = "whole" /\ Pend(s) = <<>> /\ wire[s] = <<>> /\ Rest(s) = <<>>
    BY <2>1 DEF T!TcpInit, T!At, How, Pend, Rest, Owed
  <2>3. (<<>> \o <<>>) \o <<>> = <<>>
    OBVIOUS
  <2>4. ShapeOf(<<>>, "whole")
    BY DEF ShapeOf, Whole, Paired
  <2>5. Shape(s)
    BY <2>2, <2>3, <2>4 DEF Shape
  <2>6. ASSUME NEW way \in Ways PROVE Flow(s, way)
    <3>1. /\ taken[To[s]] \o rcv_queue[To[s]] = <<>> /\ recv[To[s]].msgs = <<>>
          /\ T!Unwritten(thread[s]) = <<>> /\ snd_queue[s] = <<>> /\ sent[s] = <<>>
      BY <2>1 DEF T!TcpInit, T!At, T!Unwritten
    <3>2. T!Announced(<<>>) = <<>>
      <4>1. T!Announced(<<>>) \in Seq(Msgs) /\ Len(T!Announced(<<>>)) = Len(<<>>)
        BY Empties, AnnouncedSeq
      <4> QED  BY <4>1
    <3>3. T!Of(s, way, <<>>) = <<>>
      BY Empties, OfSeq
    <3>4. /\ Arrived(s, way) = <<>> /\ Reading(s, way) = <<>> /\ Wired(s, way) = <<>>
          /\ Writing(s, way) = <<>> /\ Queued(s, way) = <<>> /\ T!Due(s, way) = <<>>
      BY <2>2, <3>1, <3>2, <3>3
      DEF Arrived, T!Received, Reading, Wired, OnWire, Writing, Queued, T!Due
    <3>5. FlowOf(<<>>, <<>>, <<>>, <<>>, <<>>, <<>>, "whole")
      BY DEF FlowOf
    <3> QED  BY <2>2, <3>4, <3>5 DEF Flow
  <2> QED  BY <2>5, <2>6 DEF Stream
<1> QED  BY <1>1, <1>2, <1>3 DEF TcpInv

LEMMA NextTcpInv == TcpInv /\ [T!TcpNext]_tcpVars => TcpInv'
<1> SUFFICES ASSUME TcpInv, [T!TcpNext]_tcpVars PROVE TcpInv'
  OBVIOUS
<1>1. CASE T!TcpNext
  <2>1. TcpTypes' /\ Lives'
    BY <1>1, StepTypes, StepLives DEF TcpInv
  <2>2. CASE \E s \in Senders : SenderStep(s)
    BY <2>1, <2>2, SenderStepStreams DEF TcpInv
  <2>3. CASE \E r \in Receivers : ReceiverStep(r)
    BY <2>1, <2>3, ReceiverStepStreams DEF TcpInv
  <2>4. CASE \E g \in Getters : T!GetTake(g)
    BY <2>1, <2>4, TakeStreams DEF TcpInv
  <2>5. CASE \E g \in Getters : T!GetTest(g) \/ T!GetSleep(g) \/ T!SpuriousWakeup(g)
    <3>1. Sent /\ UNCHANGED <<conn, _socket, recv, rcv_queue, taken>>
      BY <2>5 DEF T!GetTest, T!GetSleep, T!SpuriousWakeup, Sent, T!sendVars, T!directVars,
                  T!connVars, T!recvVars
    <3>2. ASSUME NEW z \in Senders PROVE Stream(z)'
      <4>1. ReceiverKeeps(z) /\ SenderKeeps(z) /\ How(z)' = How(z)
        BY <3>1, ReceiversKeep, SentKept DEF How, Sent
      <4> QED  BY <4>1, StreamKept DEF TcpInv
    <3> QED  BY <2>1, <3>2 DEF TcpInv
  <2> QED  BY <1>1, <2>2, <2>3, <2>4, <2>5 DEF T!TcpNext, SenderStep, ReceiverStep
<1>2. CASE UNCHANGED tcpVars
  <2> USE <1>2 DEF tcpVars
  <2>1. TcpTypes'
    <3>1. TcpFunctions'
      BY DEF TcpInv, TcpTypes, TcpFunctions
    <3>2. \A s \in Senders : SenderHolds(s)'
      BY DEF TcpInv, TcpTypes, SenderHolds
    <3>3. \A r \in Receivers : ReceiverHolds(r)'
      BY DEF TcpInv, TcpTypes, ReceiverHolds
    <3> QED  BY <3>1, <3>2, <3>3 DEF TcpTypes
  <2>2. Lives'
    BY DEF TcpInv, Lives, Life, Linked, T!Accepting
  <2>3. ASSUME NEW z \in Senders PROVE Stream(z)'
    <3>1. Sent /\ UNCHANGED <<conn, _socket, recv, rcv_queue, taken>>
      BY DEF Sent
    <3>2. ReceiverKeeps(z) /\ SenderKeeps(z) /\ How(z)' = How(z)
      BY <3>1, ReceiversKeep, SentKept DEF How, Sent
    <3> QED  BY <3>2, StreamKept DEF TcpInv
  <2> QED  BY <2>1, <2>2, <2>3 DEF TcpInv
<1> QED  BY <1>1, <1>2

LEMMA PrefixIs ==
    ASSUME NEW x \in Seq(Msgs), NEW y, Starts(x, y)
    PROVE  T!IsPrefix(x, y)
<1>1. PICK z \in Seq(Msgs) : x \o z = y
  BY DEF Starts
<1>2. y \in Seq(Msgs) /\ Len(y) = Len(x) + Len(z) /\ \A n \in 1..Len(x) : y[n] = x[n]
  <2> DEFINE v == x \o z
  <2>1. v \in Seq(Msgs) /\ Len(v) = Len(x) + Len(z) /\ \A n \in 1..Len(x) : v[n] = x[n]
    OBVIOUS
  <2> HIDE DEF v
  <2>2. y = v
    BY <1>1 DEF v
  <2> QED  BY <2>1, <2>2
<1>3. Len(x) <= Len(y)
  BY <1>2
<1>4. SubSeq(x, 1, Len(x)) = SubSeq(y, 1, Len(x))
  BY <1>2, <1>3
<1> QED  BY <1>3, <1>4 DEF T!IsPrefix

LEMMA OnItsWayIs ==
    ASSUME TcpTypes, NEW s \in Senders, NEW way
    PROVE  T!OnItsWay(s, way)
              = ((Reading(s, way) \o Wired(s, way)) \o Writing(s, way)) \o Queued(s, way)
<1> DEFINE b == recv[To[s]].msgs
           c == T!Announced(wire[s])
           d == T!Unwritten(thread[s])
           e == snd_queue[s]
<1>1. To[s] \in Receivers
  BY TcpAssumption
<1>2. b \in Seq(Msgs) /\ d \in Seq(Msgs) /\ e \in Seq(Msgs)
  BY <1>1 DEF TcpTypes, TcpFunctions, Position, T!Unwritten
<1>3. c \in Seq(Msgs)
  BY AnnouncedSeq DEF TcpTypes, TcpFunctions
<1>4. /\ T!OnItsWay(s, way) = T!Of(s, way, ((b \o c) \o d) \o e)
      /\ Reading(s, way) = T!Of(s, way, b) /\ Wired(s, way) = T!Of(s, way, c)
      /\ Writing(s, way) = T!Of(s, way, d) /\ Queued(s, way) = T!Of(s, way, e)
  BY DEF T!OnItsWay, Reading, Wired, OnWire, Writing, Queued
<1> HIDE DEF b, c, d, e
<1>5. b \o c \in Seq(Msgs) /\ (b \o c) \o d \in Seq(Msgs)
  BY <1>2, <1>3
<1>6. OfBoth(s, way, b, c) /\ OfBoth(s, way, b \o c, d) /\ OfBoth(s, way, (b \o c) \o d, e)
  BY <1>2, <1>3, <1>5, OfJoin
<1> QED  BY <1>4, <1>6 DEF OfBoth

LEMMA FiveJoined ==
    ASSUME NEW a, NEW b, NEW c, NEW d, NEW e, Five(a, b, c, d, e)
    PROVE  (((a \o b) \o c) \o d) \o e = a \o (((b \o c) \o d) \o e)
<1>0. /\ a \in Seq(Msgs) /\ b \in Seq(Msgs) /\ c \in Seq(Msgs)
      /\ d \in Seq(Msgs) /\ e \in Seq(Msgs)
  BY DEF Five
<1>1. (a \o b) \o c = a \o (b \o c)
  BY <1>0, Assoc
<1> DEFINE x == b \o c
           y == x \o d
<1>2. x \in Seq(Msgs)
  BY <1>0
<1> HIDE DEF x
<1>3. (a \o x) \o d = a \o (x \o d)
  BY <1>0, <1>2, Assoc
<1>4. y \in Seq(Msgs)
  BY <1>0, <1>2
<1> HIDE DEF y
<1>5. (a \o y) \o e = a \o (y \o e)
  <2>1. a \in Seq(Msgs) /\ y \in Seq(Msgs) /\ e \in Seq(Msgs)
    BY <1>0, <1>4
  <2> QED  BY <2>1, Assoc
<1> QED  BY <1>1, <1>3, <1>5 DEF x, y

LEMMA StreamsIntact == TcpInv => T!StreamIntact
<1> SUFFICES ASSUME TcpInv, NEW s \in Senders
    PROVE  /\ s \notin mixed =>
                 \A way \in {"queue", "direct"} :
                    /\ T!IsPrefix(T!Received(s, way), T!Due(s, way))
                    /\ (sender[s] # "crashed" /\ conn[s] # "reset") =>
                          T!Received(s, way) \o T!OnItsWay(s, way) = T!Due(s, way)
           /\ (sender[s] = "closed" /\ conn[s] = "closed" /\ thread[s].at # "stillborn")
                 => snd_queue[s] = <<>>
  BY DEF T!StreamIntact
<1>1. ASSUME NEW way \in {"queue", "direct"}, s \notin mixed
      PROVE  /\ T!IsPrefix(T!Received(s, way), T!Due(s, way))
             /\ (sender[s] # "crashed" /\ conn[s] # "reset") =>
                   T!Received(s, way) \o T!OnItsWay(s, way) = T!Due(s, way)
  <2> DEFINE a == Arrived(s, way)
             b == Reading(s, way)
             c == Wired(s, way)
             d == Writing(s, way)
             e == Queued(s, way)
             due == T!Due(s, way)
  <2>1. Five(a, b, c, d, e) /\ FlowOf(a, b, c, d, e, due, How(s))
    BY <1>1, FlowTypes DEF TcpInv, Stream, Flow, Ways
  <2>2. T!OnItsWay(s, way) = ((b \o c) \o d) \o e
    BY OnItsWayIs DEF TcpInv
  <2>3. T!Received(s, way) = a /\ T!Due(s, way) = due
    BY DEF Arrived
  <2> HIDE DEF a, b, c, d, e, due
  <2>4. Starts(a, due)
    BY <2>1, HowIs, FlowAlways
  <2>5. T!IsPrefix(a, due)
    BY <2>1, <2>4, PrefixIs DEF Five
  <2>6. ASSUME sender[s] # "crashed", conn[s] # "reset"
        PROVE  a \o (((b \o c) \o d) \o e) = due
    <3>1. (((a \o b) \o c) \o d) \o e = due
      BY <2>1, <2>6 DEF How, FlowOf
    <3>2. (((a \o b) \o c) \o d) \o e = a \o (((b \o c) \o d) \o e)
      BY <2>1, FiveJoined
    <3> QED  BY <3>1, <3>2
  <2> QED  BY <2>2, <2>3, <2>5, <2>6
<1>2. ASSUME sender[s] = "closed", conn[s] = "closed", thread[s].at # "stillborn"
      PROVE  snd_queue[s] = <<>>
  BY <1>2 DEF TcpInv, Lives, Life
<1> QED  BY <1>1, <1>2

LEMMA TcpSteps == [PartsNext]_allVars => [T!TcpNext]_tcpVars
  BY DEF PartsNext, allVars, restVars, tcpVars

(* Whatever the senders, the receivers and the getters do, whoever fails   *)
(* and wherever: the messages of a sender arrive whole, in order and each  *)
(* once, and none is missing as long as neither its program nor its        *)
(* connection failed.                                                      *)
THEOREM StreamsAreIntact == PartsSpec => []StreamIntact
<1>1. PartsInit => TcpInv
  BY TcpStart DEF PartsInit
<1>2. TcpInv /\ [PartsNext]_allVars => TcpInv'
  BY TcpSteps, NextTcpInv
<1>3. TcpInv => StreamIntact
  BY StreamsIntact DEF StreamIntact
<1> QED  BY <1>1, <1>2, <1>3, PTL DEF PartsSpec, allVars
=============================================================================
