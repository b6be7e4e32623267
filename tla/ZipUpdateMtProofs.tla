--------------------------- MODULE ZipUpdateMtProofs ---------------------------
(***************************************************************************)
(* Proofs about ZipUpdateMt, for every list of items, every number of       *)
(* threads, every size of the pool and of its blocks, and every subset of   *)
(* the faults.                                                              *)
(*                                                                          *)
(* The inductive invariant IInv says where each thread is and for which     *)
(* item (Rest, Order), which thread may write to the archive (Turns), who   *)
(* holds the blocks of the pool (Blocks), and what the streams, the items   *)
(* that are finished and the archive hold of the data (ArchiveFits).        *)
(***************************************************************************)
EXTENDS ZipUpdateMt, FiniteSetTheorems, SequenceTheorems, TLAPS

Unit == Nat \X Nat \X Nat
Stream == [blocks : Nat, pos : Nat, size : Nat, cells : Seq(Unit), real : BOOLEAN,
           unlockSent : BOOLEAN, realEvent : BOOLEAN, stopEvent : BOOLEAN, offset : Nat]
Coder == [item : Nat \ {0}, pass : 1 .. MaxPasses, units : Nat, rest : Nat,
          result : Results \ {"running"}, packSize : Nat]
Ref == [skip : BOOLEAN, finished : BOOLEAN, blocks : Nat, size : Nat, cells : Seq(Unit),
        pass : Nat, packSize : Nat]

\* The place of a thread, or the one it goes to when it has freed its blocks.
Freeing == {"free", "releaseBlock"}
Place(a) == IF pc[a] \in Freeing THEN after[a] ELSE pc[a]
Resting == {"none", "idle", "release", "exited"}
Stopping == {"stop", "join", "flush", "done"}

ThreadPlaces == Resting \cup {"code", "write", "allocate", "flush", "finish"}
MainPlaces == {"create", "loop", "lock", "getItem", "collect"} \cup Stopping

Places ==
  /\ pc \in [Actors -> Labels] /\ after \in [Actors -> {"loop", "write"}]
  /\ toFree \in [Actors -> Nat]
  /\ Place(Main) \in MainPlaces
  /\ \A t \in Threads : Place(t) \in ThreadPlaces
  /\ \A a \in Actors : IF pc[a] = "free" THEN toFree[a] > 0
                       ELSE pc[a] # "releaseBlock" => toFree[a] = 0

\* The pool, the threads and what they do.
ThreadTypes ==
  /\ freeBlocks \in Nat /\ semaphore \in Nat
  /\ isFree \in [Threads -> BOOLEAN] /\ compressEvent \in [Threads -> BOOLEAN]
  /\ exitThread \in [Threads -> BOOLEAN]
  /\ out \in [Threads -> Stream] /\ coder \in [Threads -> Coder]
  /\ finishedList \in Seq(Threads) /\ finishedSem \in Nat

\* The update.
Progress == [item : 1 .. NumItems + 1, mtItem : 1 .. NumItems + 1, lastReal : Nat, ti : Actors,
             result : Results]

MainTypes ==
  /\ updateItems \in Seq(Kinds) /\ numBlocks \in Nat
  /\ main \in Progress
  /\ threadIndices \in Seq(Threads)
  /\ refs \in [1 .. NumItems -> Ref]
  /\ items \in Seq([item : Nat, pass : Nat, size : Nat])
  /\ archive \in Seq(Unit) /\ hres \in BOOLEAN /\ failed \in BOOLEAN /\ dropped \in BOOLEAN

Types == Places /\ ThreadTypes /\ MainTypes

\* It is one of the threads of threadIndices.
Active(t) == \E k \in 1 .. Len(threadIndices) : threadIndices[k] = t

-------------------------------------------------------------------------------
(* The pool.                                                                *)

Blocks ==
  /\ BlocksExact
  /\ main.result = "running" =>
       \A t \in Threads : ~Active(t) => out[t].blocks = 0
  /\ \A i \in 1 .. NumItems : ~refs[i].finished => refs[i].blocks = 0

-------------------------------------------------------------------------------
(* The threads and what they are for.                                       *)

\* It is at no item, and will not begin with one.
Rests(t) == pc[t] \in Resting /\ (compressEvent[t] => exitThread[t])
Listed(t) == \E k \in 1 .. Len(finishedList) : finishedList[k] = t
Collected(t) == pc[Main] = "collect" /\ main.ti = t

WasListed == main.ti \in Threads /\ Active(main.ti) /\ ~Listed(main.ti)

Rest ==
  /\ main.result = "running" <=> Place(Main) \notin Stopping
  /\ main.result = "running" =>
       \A t \in Threads : (isFree[t] <=> ~Active(t)) /\ ~exitThread[t] /\ ~out[t].stopEvent
  /\ \A t \in Threads : ~Active(t) \/ Listed(t) \/ Collected(t) => Rests(t)
  /\ \A t \in Threads : pc[t] \notin Resting => (compressEvent[t] => exitThread[t])
  /\ pc[Main] = "collect" => WasListed
  /\ \A t \in Threads : Listed(t) => Active(t)
  /\ \A j, k \in 1 .. Len(finishedList) : finishedList[j] = finishedList[k] => j = k
  /\ Len(finishedList) = finishedSem + Cardinality({t \in Threads : pc[t] = "release"})
                           + (IF pc[Main] = "getItem" THEN 1 ELSE 0)

\* The items that are started and neither written nor finished.
Pending == {i \in main.item .. main.mtItem - 1 :
              updateItems[i] = "file" /\ ~refs[i].skip /\ ~refs[i].finished}

\* The threads are in the order of their items.
Order ==
  /\ main.item <= main.mtItem /\ main.lastReal <= main.item
  /\ \A j, k \in 1 .. Len(threadIndices) :
       j < k => coder[threadIndices[j]].item < coder[threadIndices[k]].item
  /\ \A t \in Threads : Active(t) => coder[t].item \in Pending
  /\ main.result = "running" =>
       \A i \in Pending : \E t \in Threads : Active(t) /\ coder[t].item = i
  /\ \A i \in 1 .. NumItems :
       /\ refs[i].skip <=> updateItems[i] = "absent" /\ i < main.mtItem
       /\ refs[i].finished => updateItems[i] = "file" /\ i < main.mtItem
  /\ pc[Main] \in {"lock", "getItem", "collect"} =>
       main.item \in Pending /\ main.lastReal = main.item

\* Only the thread of the current item is told to write to the archive.
Turns ==
  \A t \in Threads :
    /\ out[t].real \/ out[t].realEvent => out[t].unlockSent
    /\ Active(t) /\ out[t].unlockSent => coder[t].item = main.item /\ main.lastReal = main.item

-------------------------------------------------------------------------------
(* The data.                                                                *)

\* The units that the coder of t has written.
WrittenBy(t) == coder[t].units - coder[t].rest
Data(t, n) == Units(coder[t].item, coder[t].pass, 1, n)
OnArchive(t) == out[t].real /\ pc[t] # "flush"

\* What the archive shows of the data of t, when t is at the head.
Shown(t) == IF OnArchive(t) THEN Data(t, WrittenBy(t)) ELSE <<>>

Memory(o) == o.size <= Len(o.cells) /\ Needed(o) <= o.blocks

\* It is told to code an item, or does.
Codes(t) == \/ Place(t) \in {"code", "write", "allocate", "flush"}
            \/ pc[t] \in Resting /\ ~Rests(t)

DataFits(t) ==
  /\ coder[t].rest <= coder[t].units
  /\ Place(t) \notin {"write", "allocate", "flush"} /\ coder[t].result = OK => coder[t].rest = 0
  /\ pc[t] = "code" \/ (pc[t] \in Resting /\ ~Rests(t)) => coder[t].rest = 0
  /\ pc[t] = "finish" \/ Listed(t) \/ Collected(t) =>
       (coder[t].result = OK => coder[t].packSize = coder[t].units)
  /\ pc[t] = "flush" => out[t].real
  /\ pc[t] \in Freeing => out[t].real
  /\ ~OnArchive(t) =>
       /\ Memory(out[t]) /\ out[t].size = WrittenBy(t) /\ out[t].pos = out[t].size
       /\ InMemory(out[t]) = Data(t, WrittenBy(t))
  /\ OnArchive(t) =>
       out[t].size = 0 \/ (pc[t] \in {"finish"} \cup Resting /\ coder[t].result # OK)
  /\ Codes(t) => coder[t].result = OK
  /\ out[t].real /\ pc[t] \in Resting => Rests(t)

RefFits(i) ==
  refs[i].finished /\ i >= main.item =>
    InMemory(refs[i]) = Units(i, refs[i].pass, 1, refs[i].packSize)

\* What is in the archive of the current item.
Current ==
  IF main.lastReal # main.item THEN <<>>
  ELSE LET t == Head(threadIndices)
       IN <<Header(main.item)>> \o (IF OnArchive(t) THEN Data(t, WrittenBy(t)) ELSE <<>>)

\* The archive ends where the thread that writes to it is.
PositionFits(t) ==
  Active(t) /\ out[t].unlockSent =>
    (OnArchive(t) /\ coder[t].result # OK) \/ Len(archive) = out[t].offset + Len(Shown(t))

\* An error of the archive was returned or dropped.
Lost == failed \/ dropped

\* An error that was returned ends the update.
FailureSeen ==
  failed => \/ hres
            \/ main.result \notin {"running", OK}
            \/ \E t \in Threads : Active(t) /\ coder[t].result # OK

ArchiveFits ==
  /\ ItemsInOrder
  /\ \A t \in Threads : (Active(t) => DataFits(t)) /\ PositionFits(t)
  /\ \A i \in 1 .. NumItems : RefFits(i)
  /\ ~Lost =>
       /\ archive = Written \o Current
       /\ main.lastReal = main.item =>
            threadIndices # <<>> /\ coder[Head(threadIndices)].item = main.item
       /\ \A t \in Threads : Active(t) /\ out[t].unlockSent => out[t].offset = Len(Written) + 1
  /\ FailureSeen
  /\ main.result = OK => main.item > NumItems /\ ~failed

IInv == Types /\ Blocks /\ Rest /\ Order /\ Turns /\ ArchiveFits

-------------------------------------------------------------------------------
(* Numbers, sums and sequences.                                             *)

\* A set of numbers has a least one.
LEMMA LeastNumber ==
  ASSUME NEW S \in SUBSET Nat, S # {}
  PROVE  \E n \in S : \A m \in S : n <= m
<1>1. PICK top \in S : TRUE
  OBVIOUS
<1> DEFINE below == {k \in 0 .. top : \A m \in S : m >= k}
<1>2. PICK k \in below : k + 1 \notin below
  <2> SUFFICES ASSUME \A k \in below : k + 1 \in below PROVE FALSE
    OBVIOUS
  <2> DEFINE next == [k \in below |-> k + 1]
  <2>1. below \subseteq 0 .. top /\ 0 \in below /\ top \in Nat
    OBVIOUS
  <2>2. next \in [below -> below \ {0}] /\ \A j, k \in below : next[j] = next[k] => j = k
    OBVIOUS
  <2> HIDE DEF next, below
  <2>3. IsFiniteSet(below)
    <3>1. IsFiniteSet(0 .. top)
      BY <2>1, FS_Interval
    <3> QED
      BY <2>1, <3>1, FS_Subset
  <2>4. IsFiniteSet(below \ {0}) /\ Cardinality(below \ {0}) < Cardinality(below)
    <3>1. Cardinality(below) \in Nat
      BY <2>3, FS_CardinalityType
    <3>2. /\ IsFiniteSet(below \ {0})
          /\ Cardinality(below \ {0}) = IF 0 \in below THEN Cardinality(below) - 1
                                        ELSE Cardinality(below)
      BY <2>3, FS_RemoveElement, Zenon
    <3> QED
      BY <2>1, <3>1, <3>2
  <2> QED
    BY <2>2, <2>3, <2>4, FS_PigeonHole
<1>3. k \in Nat /\ \A m \in S : m >= k
  OBVIOUS
<1>4. k \in S
  <2> SUFFICES ASSUME k \notin S PROVE k + 1 \in below
    BY <1>2
  <2>1. \A m \in S : m >= k + 1
    BY <1>3
  <2> QED
    BY <1>3, <2>1
<1> QED
  BY <1>3, <1>4

-----
\* The partial concatenations that FlattenSeq goes through.
Partial(f, s, n) == /\ f = [i \in 1 .. n |-> f[i]]
                    /\ \A i \in 1 .. n : f[i] = IF i = 1 THEN s[i] ELSE f[i - 1] \o s[i]

LEMMA PartialUnique ==
  ASSUME NEW s, NEW n \in Nat, NEW f, NEW g, NEW m \in Nat, n <= m,
         Partial(f, s, n), Partial(g, s, m)
  PROVE  \A i \in 1 .. n : f[i] = g[i]
<1> DEFINE bad == {i \in 1 .. n : f[i] # g[i]}
<1> SUFFICES ASSUME bad # {} PROVE FALSE
  OBVIOUS
<1>1. bad \in SUBSET Nat
  OBVIOUS
<1>2. PICK i \in bad : \A j \in bad : i <= j
  BY <1>1, LeastNumber
<1>3. i \in 1 .. n /\ i \in 1 .. m /\ f[i] # g[i]
  OBVIOUS
<1>4. i # 1
  BY <1>3 DEF Partial
<1>5. i - 1 \in 1 .. n /\ i - 1 \notin bad
  BY <1>2, <1>3, <1>4
<1>6. f[i - 1] = g[i - 1]
  BY <1>5
<1> QED
  BY <1>3, <1>4, <1>6, ZenonT(30) DEF Partial

LEMMA PartialExists ==
  ASSUME NEW S, NEW s \in Seq(Seq(S))
  PROVE  \A n \in 0 .. Len(s) : \E f \in [1 .. n -> Seq(S)] : Partial(f, s, n)
<1> DEFINE bad == {n \in 0 .. Len(s) : ~\E f \in [1 .. n -> Seq(S)] : Partial(f, s, n)}
<1> SUFFICES ASSUME bad # {} PROVE FALSE
  OBVIOUS
<1>0. Len(s) \in Nat /\ bad \in SUBSET Nat
  OBVIOUS
<1>1. PICK n \in bad : \A j \in bad : n <= j
  BY <1>0, LeastNumber
<1>2. n # 0
  <2>1. [i \in 1 .. 0 |-> <<>>] \in [1 .. 0 -> Seq(S)] /\ Partial([i \in 1 .. 0 |-> <<>>], s, 0)
    BY DEF Partial
  <2> QED
    BY <2>1
<1>3. n \in 1 .. Len(s) /\ n - 1 \in 0 .. Len(s) /\ n - 1 \notin bad
  <2>1. n \in 0 .. Len(s)
    OBVIOUS
  <2> HIDE DEF bad
  <2> QED
    BY <1>0, <1>1, <1>2, <2>1
<1>4. PICK f \in [1 .. n - 1 -> Seq(S)] : Partial(f, s, n - 1)
  BY <1>3
<1> DEFINE last == IF n = 1 THEN s[n] ELSE f[n - 1] \o s[n]
           g == [i \in 1 .. n |-> IF i = n THEN last ELSE f[i]]
<1>5. last \in Seq(S)
  <2>1. s[n] \in Seq(S)
    BY <1>3
  <2>2. CASE n = 1
    BY <2>1, <2>2
  <2>3. CASE n # 1
    <3>1. f[n - 1] \in Seq(S)
      BY <1>3, <2>3
    <3> QED
      BY <2>1, <2>3, <3>1, ConcatProperties
  <2> QED
    BY <2>2, <2>3
<1> HIDE DEF last
<1>6. g \in [1 .. n -> Seq(S)]
  BY <1>3, <1>5
<1>7. \A i \in 1 .. n : g[i] = IF i = 1 THEN s[i] ELSE g[i - 1] \o s[i]
  <2> TAKE i \in 1 .. n
  <2>1. CASE i = n
    BY <1>3, <2>1 DEF last
  <2>2. CASE i # n
    <3>1. i \in 1 .. n - 1 /\ g[i] = f[i] /\ (i # 1 => g[i - 1] = f[i - 1])
      BY <1>3, <2>2
    <3> HIDE DEF g
    <3> QED
      BY <1>4, <3>1 DEF Partial
  <2> QED
    BY <2>1, <2>2
<1>8. Partial(g, s, n)
  BY <1>6, <1>7 DEF Partial
<1> QED
  BY <1>6, <1>8

LEMMA FlattenIs ==
  ASSUME NEW S, NEW s \in Seq(Seq(S)), NEW f, Partial(f, s, Len(s)), Len(s) > 0
  PROVE  FlattenSeq(s) = f[Len(s)]
<1> DEFINE rec(g) == [i \in 1 .. Len(s) |-> IF i = 1 THEN s[i] ELSE g[i - 1] \o s[i]]
           g == CHOOSE g : g = rec(g)
<1>1. f = rec(f)
  BY Zenon DEF Partial
<1>2. g = rec(g)
  BY <1>1, Zenon
<1>3. FlattenSeq(s) = g[Len(s)]
  BY DEF FlattenSeq
<1> HIDE DEF g
<1>4. Partial(g, s, Len(s))
  BY <1>2 DEF Partial
<1> QED
  BY <1>3, <1>4, PartialUnique

\* FlattenSeq of one sequence more.
LEMMA FlattenAppend ==
  ASSUME NEW S, NEW s \in Seq(Seq(S)), NEW e \in Seq(S)
  PROVE  /\ FlattenSeq(s) \in Seq(S)
         /\ FlattenSeq(Append(s, e)) = FlattenSeq(s) \o e
<1>0. /\ Len(s) \in Nat /\ Append(s, e) \in Seq(Seq(S)) /\ Len(Append(s, e)) = Len(s) + 1
      /\ \A i \in 1 .. Len(s) : Append(s, e)[i] = s[i]
      /\ Append(s, e)[Len(s) + 1] = e
  BY AppendProperties
<1>1. PICK n, a : /\ n = Len(s) /\ a = Append(s, e) /\ n \in Nat /\ a \in Seq(Seq(S))
                  /\ Len(a) = n + 1 /\ a[n + 1] = e /\ \A i \in 1 .. n : a[i] = s[i]
  BY <1>0
<1>2. PICK f : f \in [1 .. n + 1 -> Seq(S)] /\ Partial(f, a, n + 1)
  <2>1. n + 1 \in 0 .. Len(a)
    BY <1>1
  <2> QED
    BY <1>1, <2>1, PartialExists
<1>3. FlattenSeq(a) = f[n + 1]
  <2>1. Len(a) > 0 /\ Partial(f, a, Len(a))
    BY <1>1, <1>2
  <2> QED
    BY <1>1, <2>1, FlattenIs
<1>4. CASE n = 0
  <2>1. s = <<>>
    BY <1>1, <1>4
  <2>2. FlattenSeq(s) = <<>>
    BY <2>1 DEF FlattenSeq
  <2>3. f[n + 1] = e
    BY <1>1, <1>2, <1>4 DEF Partial
  <2> QED
    BY <1>1, <1>3, <2>2, <2>3
<1>5. CASE n > 0
  <2>1. PICK g : g \in [1 .. n -> Seq(S)] /\ Partial(g, s, n)
    <3>1. n \in 0 .. Len(s)
      BY <1>1
    <3> QED
      BY <3>1, PartialExists
  <2>2. FlattenSeq(s) = g[n] /\ g[n] \in Seq(S)
    <3>1. Len(s) > 0 /\ Partial(g, s, Len(s)) /\ n \in 1 .. n
      BY <1>1, <1>5, <2>1
    <3>2. FlattenSeq(s) = g[Len(s)]
      BY <3>1, FlattenIs
    <3> QED
      BY <1>1, <2>1, <3>1, <3>2
  <2>3. Partial(g, a, n)
    BY <1>1, <2>1 DEF Partial
  <2>4. \A i \in 1 .. n : g[i] = f[i]
    <3>1. n <= n + 1 /\ n + 1 \in Nat /\ n \in Nat
      BY <1>1
    <3>2. Partial(f, a, n + 1)
      BY <1>2
    <3> QED
      BY <2>3, <3>1, <3>2, PartialUnique
  <2>5. f[n + 1] = f[n] \o e
    <3>1. n + 1 \in 1 .. n + 1 /\ n + 1 # 1 /\ (n + 1) - 1 = n
      BY <1>1, <1>5
    <3> QED
      BY <1>1, <1>2, <3>1, ZenonT(30) DEF Partial
  <2>6. g[n] = f[n]
    BY <1>1, <1>5, <2>4
  <2> QED
    BY <1>1, <1>3, <2>2, <2>5, <2>6
<1> QED
  BY <1>1, <1>4, <1>5

-----
\* A sum, and what becomes of it when one value changes.
LEMMA TotalType ==
  ASSUME NEW S, IsFiniteSet(S), NEW f \in [S -> Nat]
  PROVE  IsFiniteSet(UNION {{x} \X (1 .. f[x]) : x \in DOMAIN f}) /\ Total(f) \in Nat
<1> DEFINE P == {{x} \X (1 .. f[x]) : x \in DOMAIN f}
<1>1. DOMAIN f = S
  OBVIOUS
<1>2. IsFiniteSet(P)
  <2> DEFINE h == [x \in S |-> {x} \X (1 .. f[x])]
  <2>1. h \in Surjection(S, P)
    BY <1>1 DEF Surjection
  <2> QED
    BY <2>1, FS_Surjection
<1>3. \A p \in P : IsFiniteSet(p)
  <2> TAKE p \in P
  <2>1. PICK x \in S : p = {x} \X (1 .. f[x])
    BY <1>1
  <2>2. IsFiniteSet({x}) /\ IsFiniteSet(1 .. f[x])
    <3>1. IsFiniteSet({x})
      BY FS_Singleton
    <3>2. 1 \in Int /\ f[x] \in Int
      OBVIOUS
    <3>3. IsFiniteSet(1 .. f[x])
      BY <3>2, FS_Interval
    <3> QED
      BY <3>1, <3>3
  <2> QED
    BY <2>1, <2>2, FS_Product
<1>4. IsFiniteSet(UNION P)
  BY <1>2, <1>3, FS_UNION
<1> QED
  BY <1>4, FS_CardinalityType DEF Total

LEMMA TotalExcept ==
  ASSUME NEW S, IsFiniteSet(S), NEW f \in [S -> Nat], NEW x \in S, NEW n \in Nat
  PROVE  Total([f EXCEPT ![x] = n]) = Total(f) - f[x] + n
<1> DEFINE Pairs(h) == UNION {{y} \X (1 .. h[y]) : y \in DOMAIN h}
           Others(h) == {p \in Pairs(h) : p[1] # x}
           g == [f EXCEPT ![x] = n]
<1>1. ASSUME NEW h \in [S -> Nat]
      PROVE  /\ IsFiniteSet(Others(h)) /\ Cardinality(Others(h)) \in Nat
             /\ Total(h) = Cardinality(Others(h)) + h[x]
  <2> DEFINE Own == {x} \X (1 .. h[x])
  <2>1. Pairs(h) = Others(h) \cup Own /\ Others(h) \cap Own = {}
    OBVIOUS
  <2>2. IsFiniteSet(Pairs(h))
    BY TotalType
  <2>3. IsFiniteSet(Others(h)) /\ Cardinality(Others(h)) \in Nat
    BY <2>2, FS_Subset, FS_CardinalityType
  <2>4. IsFiniteSet(Own) /\ Cardinality(Own) = h[x]
    <3>1. IsFiniteSet({x}) /\ Cardinality({x}) = 1
      BY FS_Singleton
    <3>2. IsFiniteSet(1 .. h[x]) /\ Cardinality(1 .. h[x]) = h[x]
      BY FS_Interval
    <3>3. IsFiniteSet(Own) /\ Cardinality(Own) = Cardinality({x}) * Cardinality(1 .. h[x])
      BY <3>1, <3>2, FS_Product
    <3> QED
      BY <3>1, <3>2, <3>3
  <2>5. Cardinality(Pairs(h)) = Cardinality(Others(h)) + Cardinality(Own)
                                  - Cardinality(Others(h) \cap Own)
    BY <2>1, <2>3, <2>4, FS_Union
  <2>6. Cardinality(Others(h) \cap Own) = 0
    BY <2>1, FS_EmptySet
  <2>7. Total(h) = Cardinality(Pairs(h))
    BY DEF Total
  <2> QED
    BY <2>3, <2>4, <2>5, <2>6, <2>7
<1>2. g \in [S -> Nat] /\ g[x] = n
  OBVIOUS
<1>3. Others(g) = Others(f)
  OBVIOUS
<1>4. Total(g) = Cardinality(Others(g)) + n /\ Total(f) = Cardinality(Others(f)) + f[x]
  BY <1>1, <1>2
<1>5. Cardinality(Others(f)) \in Nat /\ f[x] \in Nat
  BY <1>1
<1> HIDE DEF Others, g
<1> QED
  BY <1>3, <1>4, <1>5 DEF g

-----
\* The arithmetic of the blocks.
LEMMA Division ==
  ASSUME NEW n \in Nat, NEW B \in Nat \ {0}, NEW k \in Nat, n < (k + 1) * B
  PROVE  (n \div B) \in Nat /\ (n \div B) <= k
<1>1. (n \div B) \in Nat /\ B * (n \div B) <= n
  OBVIOUS
<1> DEFINE q == n \div B
<1>2. PICK r : r = q /\ r \in Nat /\ B * r <= n
  BY <1>1
<1>3. ASSUME r >= k + 1 PROVE FALSE
  <2>1. B * r >= B * (k + 1)
    BY <1>2, <1>3
  <2> QED
    BY <1>2, <2>1
<1> QED
  BY <1>2, <1>3

LEMMA BlocksNeeded ==
  ASSUME NEW n \in Nat, NEW B \in Nat \ {0}
  PROVE  /\ ((n + B - 1) \div B) \in Nat
         /\ n <= ((n + B - 1) \div B) * B
         /\ \A k \in Nat : n <= k * B => ((n + B - 1) \div B) <= k
<1>1. PICK m : m = n + B - 1 /\ m \in Nat
  OBVIOUS
<1>2. PICK q : q = m \div B /\ q \in Nat /\ m < (q + 1) * B
  <2>1. /\ (m \div B) \in Nat /\ (m % B) \in 0 .. B - 1
        /\ m = B * (m \div B) + (m % B)
    BY <1>1
  <2>2. PICK r, a : r = (m % B) /\ a = (m \div B) /\ r \in Nat /\ r < B /\ a \in Nat /\ m = B * a + r
    BY <2>1
  <2>3. (a + 1) * B = B * a + B
    BY <2>2
  <2> QED
    BY <1>1, <2>2, <2>3
<1>3. n <= q * B
  <2>1. (q + 1) * B = q * B + B /\ (q * B) \in Nat
    BY <1>2
  <2> QED
    BY <1>1, <1>2, <2>1
<1>4. ASSUME NEW k \in Nat, n <= k * B PROVE q <= k
  <2>1. (k + 1) * B = k * B + B /\ (k * B) \in Nat
    OBVIOUS
  <2>2. m < (k + 1) * B
    BY <1>1, <1>4, <2>1
  <2> QED
    BY <1>1, <1>2, <2>2, Division
<1> QED
  BY <1>1, <1>2, <1>3, <1>4

LEMMA BlockEnd ==
  ASSUME NEW pos \in Nat, NEW B \in Nat \ {0}, NEW k \in Nat, NEW n \in Nat,
         pos < k * B, n <= B - (pos % B)
  PROVE  pos + n <= k * B
<1>1. /\ (pos \div B) \in Nat /\ (pos % B) \in 0 .. B - 1
      /\ pos = B * (pos \div B) + (pos % B)
  OBVIOUS
<1> DEFINE q == pos \div B
           r == pos % B
<1>2. r \in Nat /\ r < B /\ q \in Nat /\ pos = B * q + r /\ n <= B - r
  BY <1>1
<1> HIDE DEF q, r
<1>3. ASSUME q >= k PROVE FALSE
  <2>1. B * q >= B * k
    BY <1>2, <1>3
  <2> QED
    BY <1>2, <2>1
<1>4. B * (q + 1) <= B * k
  BY <1>2, <1>3
<1>5. B * (q + 1) = B * q + B
  BY <1>2
<1>6. pos + n <= B * q + B
  BY <1>2
<1> QED
  BY <1>2, <1>4, <1>5, <1>6

-----
\* The units of an item.
LEMMA UnitsAre ==
  ASSUME NEW i \in Nat, NEW p \in Nat, NEW a \in Nat, NEW b \in Nat, a <= b + 1
  PROVE  Units(i, p, a, b) \in Seq(Unit) /\ Len(Units(i, p, a, b)) = b - a + 1
<1> DEFINE f == [k \in 1 .. b - a + 1 |-> <<i, p, a + k - 1>>]
<1>1. Units(i, p, a, b) = f
  BY DEF Units
<1>2. b - a + 1 \in Nat /\ \A k \in 1 .. b - a + 1 : <<i, p, a + k - 1>> \in Unit
  BY DEF Unit
<1>3. /\ f \in [1 .. b - a + 1 -> Unit]
      /\ \A k \in 1 .. b - a + 1 : f[k] = <<i, p, a + k - 1>>
  BY <1>2
<1> HIDE DEF f
<1>4. f \in Seq(Unit) /\ Len(f) = b - a + 1
  BY <1>2, <1>3
<1> QED
  BY <1>1, <1>3, <1>4

LEMMA FirstUnits ==
  ASSUME NEW i \in Nat, NEW p \in Nat, NEW n \in Nat
  PROVE  /\ Units(i, p, 1, n) \in Seq(Unit) /\ Len(Units(i, p, 1, n)) = n
         /\ \A k \in 1 .. n : Units(i, p, 1, n)[k] = <<i, p, k>>
<1>1. n - 1 + 1 = n /\ \A k \in 1 .. n : 1 + k - 1 = k
  OBVIOUS
<1>2. Units(i, p, 1, n) = [k \in 1 .. n |-> <<i, p, k>>]
  BY <1>1 DEF Units
<1> QED
  BY <1>2, SMTT(30) DEF Unit

UnitsAfter(i, p, n, b) == Units(i, p, n + 1, b)

LEMMA UnitsConcat ==
  ASSUME NEW i \in Nat, NEW p \in Nat, NEW n \in Nat,
         NEW b \in Nat, n <= b
  PROVE  Units(i, p, 1, n) \o UnitsAfter(i, p, n, b) = Units(i, p, 1, b)
<1>0. PICK m \in Nat : b = n + m
  <2>1. b - n \in Nat /\ b = n + (b - n)
    OBVIOUS
  <2> QED
    BY <2>1
<1> DEFINE a == n + 1
           s == Units(i, p, 1, n)
           t == Units(i, p, a, b)
           u == Units(i, p, 1, b)
<1>1. s \in Seq(Unit) /\ Len(s) = n /\ \A k \in 1 .. n : s[k] = <<i, p, k>>
  BY FirstUnits
<1>2. t \in Seq(Unit) /\ Len(t) = m /\ \A k \in 1 .. m : t[k] = <<i, p, n + k>>
  <2>0. a <= b + 1
    BY <1>0
  <2>1. t \in Seq(Unit) /\ Len(t) = b - a + 1
    <3>1. Units(i, p, a, b) \in Seq(Unit)
      BY <2>0, UnitsAre
    <3>2. Len(Units(i, p, a, b)) = b - a + 1
      BY <2>0, b - a + 1 \in Nat DEF Units
    <3> QED
      BY <3>1, <3>2
  <2>2. b - a + 1 = m /\ \A k \in 1 .. m : a + k - 1 = n + k
    BY <1>0
  <2>3. \A k \in 1 .. m : t[k] = <<i, p, n + k>>
    BY <2>2 DEF Units
  <2> HIDE DEF t
  <2> QED
    BY <2>1, <2>2, <2>3
<1>3. /\ u \in Seq(Unit) /\ Len(u) = n + m /\ \A k \in 1 .. n + m : u[k] = <<i, p, k>>
  <2>1. b \in Nat
    OBVIOUS
  <2>2. u \in Seq(Unit) /\ Len(u) = b /\ \A k \in 1 .. b : u[k] = <<i, p, k>>
    BY <2>1, FirstUnits
  <2> HIDE DEF u
  <2> QED
    BY <1>0, <2>2
<1> HIDE DEF a, s, t, u
<1>4. /\ s \o t \in Seq(Unit) /\ Len(s \o t) = n + m
      /\ \A k \in 1 .. n + m : (s \o t)[k] = IF k <= n THEN s[k] ELSE t[k - n]
  BY <1>1, <1>2, ConcatProperties
<1>5. \A k \in 1 .. n + m : (s \o t)[k] = u[k]
  <2> SUFFICES ASSUME NEW k \in 1 .. n + m PROVE (s \o t)[k] = u[k]
    OBVIOUS
  <2>1. u[k] = <<i, p, k>> /\ (s \o t)[k] = IF k <= n THEN s[k] ELSE t[k - n]
    BY <1>3, <1>4
  <2>2. k <= n => s[k] = <<i, p, k>>
    BY <1>1
  <2>3. k > n => t[k - n] = <<i, p, k>>
    <3> SUFFICES ASSUME k > n PROVE t[k - n] = <<i, p, k>>
      OBVIOUS
    <3>1. k - n \in 1 .. m /\ n + (k - n) = k
      OBVIOUS
    <3> QED
      BY <1>2, <3>1
  <2>4. k <= n \/ k > n
    OBVIOUS
  <2> QED
    BY <2>1, <2>2, <2>3, <2>4
<1>6. s \o t = u
  BY <1>3, <1>4, <1>5, SeqEqual
<1> QED
  BY <1>6 DEF a, s, t, u, UnitsAfter

\* The beginning of a sequence.
LEMMA FirstIs ==
  ASSUME NEW S, NEW s \in Seq(S), NEW n \in Nat
  PROVE  /\ First(s, n) \in Seq(S)
         /\ n <= Len(s) => First(s, n) = SubSeq(s, 1, n) /\ Len(First(s, n)) = n
         /\ n >= Len(s) => First(s, n) = s
<1>1. Len(s) \in Nat /\ \A i \in 1 .. Len(s) : s[i] \in S
  BY ElementOfSeq
<1>2. PICK m : m = Smaller(n, Len(s)) /\ m \in 0 .. Len(s) /\ (n <= Len(s) => m = n)
               /\ (n >= Len(s) => m = Len(s))
  BY <1>1 DEF Smaller
<1>3. SubSeq(s, 1, m) \in Seq(S) /\ Len(SubSeq(s, 1, m)) = m
  BY <1>1, <1>2, SubSeqProperties
<1>4. SubSeq(s, 1, Len(s)) = s
  BY SubSeqFull
<1> QED
  BY <1>1, <1>2, <1>3, <1>4 DEF First

LEMMA FirstOfConcat ==
  ASSUME NEW S, NEW s \in Seq(S), NEW t \in Seq(S)
  PROVE  First(s \o t, Len(s)) = s
<1>1. /\ s \o t \in Seq(S) /\ Len(s \o t) = Len(s) + Len(t) /\ Len(s) \in Nat /\ Len(t) \in Nat
      /\ \A i \in 1 .. Len(s) + Len(t) : (s \o t)[i] = IF i <= Len(s) THEN s[i] ELSE t[i - Len(s)]
  BY ConcatProperties
<1>2. PICK u : u = s \o t /\ u \in Seq(S)
  BY <1>1
<1> DEFINE f == First(u, Len(s))
<1>3. f \in Seq(S) /\ Len(f) = Len(s) /\ f = SubSeq(u, 1, Len(s))
  <2>1. Len(s) \in Nat /\ Len(s) <= Len(u)
    BY <1>1, <1>2
  <2> QED
    BY <1>2, <2>1, FirstIs
<1> HIDE DEF f
<1>4. \A i \in 1 .. Len(s) : f[i] = u[i]
  <2>1. \A i \in 1 .. Len(s) : u[i] \in S
    BY <1>1, <1>2, ElementOfSeq
  <2>2. \A i \in 1 .. Len(s) - 1 + 1 : SubSeq(u, 1, Len(s))[i] = u[1 + i - 1]
    BY <1>1, <2>1, SubSeqProperties
  <2>3. \A i \in 1 .. Len(s) : i \in 1 .. Len(s) - 1 + 1 /\ 1 + i - 1 = i
    BY <1>1
  <2> QED
    BY <1>3, <2>2, <2>3
<1>5. \A i \in 1 .. Len(f) : f[i] = s[i]
  BY <1>1, <1>2, <1>3, <1>4
<1> QED
  BY <1>2, <1>3, <1>5, SeqEqual DEF f

-------------------------------------------------------------------------------
(* What a step of a coder thread leaves alone.                              *)

\* Of another thread, and of its own stream and coder.
OthersAlone(t) ==
  \A a \in Actors \ {t} :
    /\ pc'[a] = pc[a] /\ after'[a] = after[a] /\ toFree'[a] = toFree[a]
    /\ a \in Threads => out'[a] = out[a] /\ coder'[a] = coder[a]
                        /\ compressEvent'[a] = compressEvent[a]

OwnKept(t) ==
  /\ coder'[t].item = coder[t].item
  /\ out'[t].unlockSent = out[t].unlockSent /\ out'[t].offset = out[t].offset
  /\ out'[t].stopEvent => out[t].stopEvent
  /\ out'[t].realEvent => out[t].realEvent
  /\ out'[t].real => out[t].real \/ out[t].realEvent

LEMMA ThreadEffects ==
  ASSUME NEW t \in Threads, Types, ThreadStep(t)
  PROVE  /\ UNCHANGED <<const, update, isFree, exitThread>>
         /\ OthersAlone(t) /\ OwnKept(t) /\ (failed => failed') /\ (hres => hres')
         /\ UNCHANGED dropped
<1>0. /\ pc \in [Actors -> Labels] /\ after \in [Actors -> {"loop", "write"}]
      /\ toFree \in [Actors -> Nat] /\ out \in [Threads -> Stream] /\ coder \in [Threads -> Coder]
      /\ compressEvent \in [Threads -> BOOLEAN] /\ t \in Actors /\ failed \in BOOLEAN
      /\ hres \in BOOLEAN
  BY DEF Types, Places, ThreadTypes, MainTypes, Actors
<1>1. CASE WaitWork(t)
  BY <1>0, <1>1 DEF WaitWork, Goto, OthersAlone, OwnKept, Stream, Coder, const, update, info, output,
    pool, mtSem
<1>2. CASE CallWrite(t)
  BY <1>0, <1>2 DEF CallWrite, Goto, SetCoder, OthersAlone, OwnKept, Stream, Coder, const, update, info, output,
    pool, mtSem
<1>3. CASE EndCompress(t)
  BY <1>0, <1>3 DEF EndCompress, Goto, SetCoder, OthersAlone, OwnKept, Stream, Coder, const, update, info, output,
    pool, mtSem
<1>4. CASE NextMethod(t)
  <2>1. CASE out[t].real
    <3>1. /\ coder' = [coder EXCEPT ![t] = [coder[t] EXCEPT !.pass = @ + 1, !.units = 0]]
          /\ UNCHANGED <<const, pool, toFree, after, pc, info, out, mtSem, update, hres, failed, dropped>>
      BY <1>4, <2>1 DEF NextMethod, SetCoder
    <3> QED
      BY <1>0, <3>1 DEF OthersAlone, OwnKept, Stream, Coder, const, update, info, output,
        pool, mtSem
  <2>2. CASE ~out[t].real
    <3>1. /\ out' = [out EXCEPT ![t] = [out[t] EXCEPT !.pos = 0, !.size = 0]]
          /\ coder' = [coder EXCEPT ![t] = [coder[t] EXCEPT !.pass = @ + 1, !.units = 0]]
          /\ UNCHANGED <<const, toFree, after, pc, info, update, hres, failed, dropped>>
      BY <1>4, <2>2 DEF NextMethod, SetCoder, SetOut, Rewound
    <3>2. /\ out'[t].stopEvent = out[t].stopEvent /\ out'[t].realEvent = out[t].realEvent
          /\ out'[t].real = out[t].real /\ out'[t].unlockSent = out[t].unlockSent
          /\ out'[t].offset = out[t].offset
          /\ coder'[t].item = coder[t].item
      BY <1>0, <3>1 DEF Stream, Coder
    <3> QED
      BY <1>0, <3>1, <3>2 DEF OthersAlone, OwnKept, const, update, info, output, pool, mtSem
  <2> QED
    BY <2>1, <2>2
<1>5. CASE CompressFails(t)
  BY <1>0, <1>5 DEF CompressFails, Return, Goto, SetCoder, OthersAlone, OwnKept, Stream, Coder, const, update, info, output,
    pool, mtSem
<1>6. CASE WriteReal(t)
  BY <1>0, <1>6 DEF WriteReal, Append2, WriteFails, KeptFails, RefusedFails, Return, Goto, SetCoder, output, OthersAlone, OwnKept, Stream, Coder, const, update, info, output,
    pool, mtSem
<1>7. CASE WriteBlock(t)
  BY <1>0, <1>7 DEF WriteBlock, SetOut, Goto, SetCoder, OthersAlone, OwnKept, Stream, Coder, const, update, info, output,
    pool, mtSem
<1>8. CASE WaitStop(t)
  BY <1>0, <1>8 DEF WaitStop, SetOut, Return, Goto, SetCoder, OthersAlone, OwnKept, Stream, Coder, const, update, info, output,
    pool, mtSem
<1>9. CASE WaitReal(t)
  BY <1>0, <1>9 DEF WaitReal, SetOut, Goto, OthersAlone, OwnKept, Stream, Coder, const, update, info, output,
    pool, mtSem
<1>10. CASE WaitBlock(t)
  BY <1>0, <1>10 DEF WaitBlock, Goto, OthersAlone, OwnKept, Stream, Coder, const, update, info, output,
    pool, mtSem
<1>11. CASE AllocateBlock(t)
  <2>1. CASE freeBlocks = 0
    BY <1>0, <1>11, <2>1 DEF AllocateBlock, Return, Goto, SetCoder, OthersAlone, OwnKept, Stream, Coder, const, update, info, output,
        pool, mtSem
  <2>2. CASE freeBlocks # 0
    <3>1. /\ out' = [out EXCEPT ![t] = [out[t] EXCEPT !.blocks = @ + 1]]
          /\ pc' = [pc EXCEPT ![t] = "write"]
          /\ UNCHANGED <<const, toFree, after, coder, info, update, hres, failed, dropped>>
      BY <1>11, <2>2 DEF AllocateBlock, SetOut, Goto, output
    <3>2. /\ out'[t].stopEvent = out[t].stopEvent /\ out'[t].realEvent = out[t].realEvent
          /\ out'[t].real = out[t].real /\ out'[t].unlockSent = out[t].unlockSent
          /\ out'[t].offset = out[t].offset
      BY <1>0, <3>1 DEF Stream
    <3> QED
      BY <1>0, <3>1, <3>2 DEF OthersAlone, OwnKept, const, update, info, output, pool, mtSem
  <2> QED
    BY <2>1, <2>2
<1>12. CASE WriteToRealStream(t)
  <2>1. CASE Append2(InMemory(out[t]))
    <3>1. UNCHANGED <<const, info, update, hres, failed, dropped>>
      BY <1>12, <2>1 DEF WriteToRealStream, Append2
    <3>2. CASE FreeAndGoto(t, out[t].blocks, "write") /\ SetOut(t, Emptied(out[t])) /\ UNCHANGED coder
      <4>1. /\ out' = [out EXCEPT ![t] = [out[t] EXCEPT !.blocks = 0, !.size = 0, !.cells = <<>>]]
            /\ toFree' = [toFree EXCEPT ![t] = out[t].blocks] /\ UNCHANGED coder
            /\ after' = [after EXCEPT ![t] = "write"]
            /\ pc' = [pc EXCEPT ![t] = IF out[t].blocks = 0 THEN "write" ELSE "free"]
        BY <3>2 DEF FreeAndGoto, SetOut, Emptied, Goto
      <4>2. /\ out'[t].stopEvent = out[t].stopEvent /\ out'[t].realEvent = out[t].realEvent
          /\ out'[t].real = out[t].real /\ out'[t].unlockSent = out[t].unlockSent
          /\ out'[t].offset = out[t].offset
        BY <1>0, <4>1 DEF Stream
      <4> QED
        BY <1>0, <3>1, <4>1, <4>2 DEF OthersAlone, OwnKept, const, update, info, output, pool, mtSem
    <3>3. CASE Return(t, "write") /\ UNCHANGED <<toFree, after, out>>
      BY <1>0, <3>1, <3>3 DEF Return, SetCoder, Goto, Coder, OthersAlone, OwnKept, const, update, info, output, pool, mtSem
    <3> QED
      BY <1>12, <3>2, <3>3 DEF WriteToRealStream
  <2>2. CASE WriteFails /\ Return(t, "write") /\ UNCHANGED <<toFree, after, out>>
    <3>1. /\ pc' = [pc EXCEPT ![t] = "finish"] /\ coder' = [coder EXCEPT ![t].result = "write"]
          /\ UNCHANGED <<const, toFree, after, out, info, update, dropped>> /\ failed' = TRUE
          /\ hres => hres'
      BY <1>0, <1>12, <2>2 DEF WriteToRealStream, WriteFails, KeptFails, RefusedFails, Return, Goto, SetCoder
    <3> QED
      BY <1>0, <3>1 DEF OthersAlone, OwnKept, Stream, Coder, const, update, info, output,
        pool, mtSem
  <2> QED
    BY <1>12, <2>1, <2>2 DEF WriteToRealStream
<1>13. CASE ReleaseItem(t)
  BY <1>0, <1>13 DEF ReleaseItem, Goto, OthersAlone, OwnKept, Stream, Coder, const, update, info, output,
    pool, mtSem
<1>14. CASE ReleaseSem(t)
  BY <1>0, <1>14 DEF ReleaseSem, Goto, OthersAlone, OwnKept, Stream, Coder, const, update, info, output,
    pool, mtSem
<1>15. CASE FreeBlock(t)
  BY <1>0, <1>15 DEF FreeBlock, Goto, OthersAlone, OwnKept, Stream, Coder, const, update, info, output,
    pool, mtSem
<1>16. CASE ReleaseBlock(t)
  BY <1>0, <1>16 DEF ReleaseBlock, Goto, OthersAlone, OwnKept, Stream, Coder, const, update, info, output,
    pool, mtSem
<1> QED
  BY <1>1, <1>2, <1>3, <1>4, <1>5, <1>6, <1>7, <1>8, <1>9, <1>10, <1>11, <1>12, <1>13, <1>14, <1>15, <1>16 DEF ThreadStep

-------------------------------------------------------------------------------
(* Facts about the states of the invariant.                                 *)

LEMMA ConstantTypes ==
  /\ BlockSize \in Nat \ {0} /\ MaxPasses \in Nat \ {0} /\ MaxUnits \in Nat
  /\ WriteSizes \subseteq Nat \ {0} /\ Main \notin Threads /\ IsFiniteSet(Threads) /\ Threads # {}
  /\ IsFiniteSet(Actors)
<1>1. /\ BlockSize \in Nat \ {0} /\ MaxPasses \in Nat \ {0} /\ MaxUnits \in Nat
      /\ WriteSizes \subseteq Nat \ {0} /\ Main \notin Threads /\ IsFiniteSet(Threads) /\ Threads # {}
  BY ZipAssumption
<1>2. IsFiniteSet(Actors)
  BY <1>1, FS_AddElement DEF Actors
<1> QED
  BY <1>1, <1>2

\* A thread that is at work is one of threadIndices, and not one that has finished.
LEMMA AtWork ==
  ASSUME IInv, NEW t \in Threads, ~Rests(t)
  PROVE  Active(t) /\ ~Listed(t) /\ ~Collected(t)
BY DEF IInv, Rest, Collected, WasListed

LEMMA PlaceOfThread ==
  ASSUME Types, NEW t \in Threads
  PROVE  /\ pc[t] \in ThreadPlaces \cup Freeing
         /\ pc[t] \in Freeing => after[t] = "write"
<1>1. Place(t) \in ThreadPlaces /\ after[t] \in {"loop", "write"}
  BY DEF Types, Places, Actors
<1> QED
  BY <1>1 DEF Place, ThreadPlaces, Resting, Freeing

LEMMA ItemIsNumber ==
  ASSUME IInv, NEW t \in Threads
  PROVE  coder[t].item \in Nat /\ coder[t] \in Coder /\ out[t] \in Stream
<1>1. coder[t] \in Coder /\ out[t] \in Stream
  BY DEF IInv, Types, ThreadTypes
<1> QED
  BY <1>1 DEF Coder

\* The item at the head is that of the earliest of the threads.
LEMMA AtTheHead ==
  ASSUME IInv, NEW t \in Threads, Active(t), coder[t].item = main.item
  PROVE  threadIndices # <<>> /\ t = Head(threadIndices)
<1>1. PICK k \in 1 .. Len(threadIndices) : threadIndices[k] = t
  BY DEF Active
<1>2. /\ threadIndices \in Seq(Threads) /\ Len(threadIndices) \in Nat
      /\ threadIndices # <<>> /\ Head(threadIndices) = threadIndices[1]
      /\ \A j \in 1 .. Len(threadIndices) : threadIndices[j] \in Threads
      /\ 1 \in 1 .. Len(threadIndices)
  <2>1. threadIndices \in Seq(Threads)
    BY DEF IInv, Types, MainTypes, Progress
  <2> QED
    BY <1>1, <2>1, HeadTailProperties
<1>3. ASSUME k # 1 PROVE FALSE
  <2> DEFINE u == threadIndices[1]
  <2>1. u \in Threads /\ Active(u)
    BY <1>2 DEF Active
  <2>2. coder[u].item < coder[t].item
    <3>1. 1 < k /\ \A a, b \in 1 .. Len(threadIndices) :
            a < b => coder[threadIndices[a]].item < coder[threadIndices[b]].item
      BY <1>2, <1>3 DEF IInv, Order
    <3> QED
      BY <1>1, <1>2, <3>1
  <2>3. coder[u].item \in Pending /\ main.item \in Nat /\ main.mtItem \in Nat
    BY <2>1 DEF IInv, Order, Types, MainTypes, Progress
  <2>4. coder[u].item >= main.item /\ coder[u].item \in Nat
    BY <2>3 DEF Pending
  <2> QED
    BY <2>2, <2>3, <2>4
<1> QED
  BY <1>1, <1>2, <1>3

\* Two active threads have two items.
LEMMA ItemsDiffer ==
  ASSUME IInv, NEW t \in Threads, NEW u \in Threads, Active(t), Active(u),
         coder[t].item = coder[u].item
  PROVE  t = u
<1>1. PICK j, k \in 1 .. Len(threadIndices) : threadIndices[j] = t /\ threadIndices[k] = u
  BY DEF Active
<1>2. Len(threadIndices) \in Nat /\ coder[t].item \in Nat
  BY ItemIsNumber DEF IInv, Types, MainTypes, Progress
<1>3. \A a, b \in 1 .. Len(threadIndices) :
        a < b => coder[threadIndices[a]].item < coder[threadIndices[b]].item
  BY DEF IInv, Order
<1>4. ~(j < k) /\ ~(k < j)
  <2>1. ~(coder[t].item < coder[u].item) /\ ~(coder[u].item < coder[t].item)
    BY <1>2
  <2> QED
    BY <1>1, <1>3, <2>1
<1> QED
  BY <1>1, <1>2, <1>4

\* The places in threadIndices are the threads'.
LEMMA OnePlaceEach ==
  ASSUME IInv
  PROVE  \A j, k \in 1 .. Len(threadIndices) : threadIndices[j] = threadIndices[k] => j = k
<1>1. Len(threadIndices) \in Nat /\ \A j \in 1 .. Len(threadIndices) : threadIndices[j] \in Threads
  BY DEF IInv, Types, MainTypes, Progress
<1>3. \A a, b \in 1 .. Len(threadIndices) :
        a < b => coder[threadIndices[a]].item < coder[threadIndices[b]].item
  BY DEF IInv, Order
<1> SUFFICES ASSUME NEW j \in 1 .. Len(threadIndices), NEW k \in 1 .. Len(threadIndices),
                    threadIndices[j] = threadIndices[k]
             PROVE  j = k
  OBVIOUS
<1>4. ~(j < k) /\ ~(k < j)
  <2>1. coder[threadIndices[j]].item \in Nat
    BY <1>1, ItemIsNumber
  <2>2. ~(coder[threadIndices[j]].item < coder[threadIndices[k]].item)
        /\ ~(coder[threadIndices[k]].item < coder[threadIndices[j]].item)
    BY <2>1
  <2> QED
    BY <1>3, <2>2
<1> QED
  BY <1>1, <1>4

Item == [item : Nat, pass : Nat, size : Nat]

LEMMA ContentType ==
  ASSUME NEW e \in Item
  PROVE  Content(e) \in Seq(Unit) /\ Len(Content(e)) = e.size + 1
<1>1. e.item \in Nat /\ e.pass \in Nat /\ e.size \in Nat
  BY DEF Item
<1>2. Units(e.item, e.pass, 1, e.size) \in Seq(Unit) /\ Len(Units(e.item, e.pass, 1, e.size)) = e.size
  BY <1>1, FirstUnits
<1>3. <<Header(e.item)>> \in Seq(Unit) /\ Len(<<Header(e.item)>>) = 1
  BY <1>1 DEF Header, Unit
<1> QED
  BY <1>1, <1>2, <1>3, ConcatProperties DEF Content

LEMMA WrittenType ==
  ASSUME Types
  PROVE  /\ Written \in Seq(Unit) /\ Len(Written) \in Nat
         /\ \A e \in Item : items' = Append(items, e) => Written' = Written \o Content(e)
<1>1. items \in Seq(Item)
  BY DEF Types, MainTypes, Progress, Item
<1> DEFINE parts == [k \in 1 .. Len(items) |-> Content(items[k])]
<1>2. parts \in Seq(Seq(Unit)) /\ Len(parts) = Len(items)
  <2>1. Len(items) \in Nat /\ \A k \in 1 .. Len(items) : items[k] \in Item
    BY <1>1, ElementOfSeq
  <2>2. \A k \in 1 .. Len(items) : Content(items[k]) \in Seq(Unit)
    BY <2>1, ContentType
  <2>3. parts \in [1 .. Len(items) -> Seq(Unit)]
    BY <2>2
  <2> HIDE DEF parts
  <2> QED
    BY <2>1, <2>3
<1>3. Written = FlattenSeq(parts)
  BY DEF Written
<1> HIDE DEF parts
<1>4. Written \in Seq(Unit)
  <2>1. <<>> \in Seq(Unit)
    OBVIOUS
  <2> QED
    BY <1>2, <1>3, <2>1, FlattenAppend
<1>5. ASSUME NEW e \in Item, items' = Append(items, e) PROVE Written' = Written \o Content(e)
  <2>1. Content(e) \in Seq(Unit)
    BY ContentType
  <2>2. FlattenSeq(Append(parts, Content(e))) = FlattenSeq(parts) \o Content(e)
    BY <1>2, <2>1, FlattenAppend
  <2>3. [k \in 1 .. Len(items') |-> Content(items'[k])] = Append(parts, Content(e))
    <3> DEFINE new == [k \in 1 .. Len(items') |-> Content(items'[k])]
    <3>1. /\ Len(items) \in Nat /\ Len(items') = Len(items) + 1
          /\ \A k \in 1 .. Len(items) : items'[k] = items[k]
          /\ items'[Len(items) + 1] = e
      BY <1>1, <1>5, AppendProperties
    <3>2. /\ Append(parts, Content(e)) \in Seq(Seq(Unit))
          /\ Len(Append(parts, Content(e))) = Len(items) + 1
          /\ \A k \in 1 .. Len(items) : Append(parts, Content(e))[k] = parts[k]
          /\ Append(parts, Content(e))[Len(items) + 1] = Content(e)
      BY <1>2, <2>1, AppendProperties
    <3>3. \A k \in 1 .. Len(items) : parts[k] = Content(items[k])
      BY DEF parts
    <3>4. \A k \in 1 .. Len(items') : Append(parts, Content(e))[k] = Content(items'[k])
      <4> SUFFICES ASSUME NEW k \in 1 .. Len(items')
                   PROVE  Append(parts, Content(e))[k] = Content(items'[k])
        OBVIOUS
      <4>1. CASE k \in 1 .. Len(items)
        <5>1. items'[k] = items[k] /\ Append(parts, Content(e))[k] = parts[k] /\ parts[k] = Content(items[k])
          BY <3>1, <3>2, <3>3, <4>1
        <5> QED
          BY <5>1
      <4>2. CASE k = Len(items) + 1
        <5>1. items'[k] = e /\ Append(parts, Content(e))[k] = Content(e)
          BY <3>1, <3>2, <4>2
        <5> QED
          BY <5>1
      <4>3. k \in 1 .. Len(items) \/ k = Len(items) + 1
        BY <3>1
      <4> QED
        BY <4>1, <4>2, <4>3
    <3>5. Append(parts, Content(e)) = [k \in 1 .. Len(items') |-> Append(parts, Content(e))[k]]
      <4> DEFINE a == Append(parts, Content(e))
      <4>1. a \in Seq(Seq(Unit)) /\ Len(a) = Len(items')
        BY <3>1, <3>2
      <4> HIDE DEF a
      <4>2. a = [k \in 1 .. Len(items') |-> a[k]]
        BY <4>1
      <4> QED
        BY <4>2 DEF a
    <3> QED
      BY <3>4, <3>5
  <2> QED
    BY <1>3, <2>2, <2>3 DEF Written
<1> QED
  BY <1>4, <1>5

LEMMA WrittenByType ==
  ASSUME IInv, NEW t \in Threads, Active(t)
  PROVE  /\ WrittenBy(t) \in Nat /\ coder[t].units \in Nat /\ coder[t].rest \in Nat
         /\ coder[t].pass \in 1 .. MaxPasses
         /\ \A n \in Nat : Data(t, n) \in Seq(Unit) /\ Len(Data(t, n)) = n
<1>1. coder[t] \in Coder
  BY ItemIsNumber
<1>2. /\ coder[t].item \in Nat /\ coder[t].pass \in 1 .. MaxPasses
      /\ coder[t].units \in Nat /\ coder[t].rest \in Nat
  BY <1>1 DEF Coder
<1>3. DataFits(t)
  BY DEF IInv, ArchiveFits
<1>4. coder[t].rest <= coder[t].units
  BY <1>3 DEF DataFits
<1>5. \A n \in Nat : Data(t, n) \in Seq(Unit) /\ Len(Data(t, n)) = n
  <2>1. coder[t].pass \in Nat
    BY <1>2, ConstantTypes
  <2> QED
    BY <1>2, <2>1, FirstUnits DEF Data
<1> QED
  BY <1>2, <1>4, <1>5 DEF WrittenBy

\* The thread whose stream is the archive: what the archive holds of its item.
LEMMA OnTheArchive ==
  ASSUME IInv, NEW t \in Threads, Active(t), out[t].unlockSent, ~Lost
  PROVE  /\ threadIndices # <<>> /\ t = Head(threadIndices)
         /\ coder[t].item = main.item /\ main.lastReal = main.item
         /\ out[t].offset = Len(Written) + 1
         /\ Written \o <<Header(main.item)>> \in Seq(Unit)
         /\ Len(Written \o <<Header(main.item)>>) = out[t].offset
         /\ archive = (Written \o <<Header(main.item)>>)
                        \o (IF OnArchive(t) THEN Data(t, WrittenBy(t)) ELSE <<>>)
<1>1. coder[t].item = main.item /\ main.lastReal = main.item
  BY DEF IInv, Turns
<1>2. threadIndices # <<>> /\ t = Head(threadIndices)
  BY <1>1, AtTheHead
<1>3. archive = Written \o Current /\ out[t].offset = Len(Written) + 1
  BY DEF IInv, ArchiveFits
<1> DEFINE data == IF OnArchive(t) THEN Data(t, WrittenBy(t)) ELSE <<>>
<1>4. Current = <<Header(main.item)>> \o data
  BY <1>1, <1>2 DEF Current
<1>5. Written \in Seq(Unit) /\ Len(Written) \in Nat
  BY WrittenType DEF IInv
<1>6. <<Header(main.item)>> \in Seq(Unit) /\ Len(<<Header(main.item)>>) = 1
  BY DEF Header, Unit, IInv, Types, MainTypes, Progress
<1>7. data \in Seq(Unit)
  BY WrittenByType
<1> HIDE DEF data
<1>8. Written \o <<Header(main.item)>> \in Seq(Unit)
      /\ Len(Written \o <<Header(main.item)>>) = Len(Written) + 1
  BY <1>5, <1>6, ConcatProperties
<1>9. Written \o (<<Header(main.item)>> \o data) = (Written \o <<Header(main.item)>>) \o data
  BY <1>5, <1>6, <1>7, ConcatAssociative
<1> QED
  BY <1>1, <1>2, <1>3, <1>4, <1>8, <1>9 DEF data

LEMMA AtCode ==
  ASSUME IInv, NEW t \in Threads, pc[t] \in {"code", "write"}, out[t].real
  PROVE  /\ Active(t) /\ out[t].unlockSent /\ OnArchive(t) /\ out[t].size = 0
         /\ coder[t].result = OK
         /\ out[t].offset \in Nat /\ Len(archive) = out[t].offset + WrittenBy(t)
         /\ WrittenBy(t) \in Nat /\ out[t].offset <= Len(archive)
<1>1. Active(t)
  BY AtWork DEF Rests, Resting
<1>2. OnArchive(t)
  BY DEF OnArchive
<1>3. coder[t].result = OK /\ out[t].size = 0
  BY <1>1, <1>2 DEF IInv, ArchiveFits, DataFits, Resting, Codes, Place, Freeing
<1>4. out[t].unlockSent
  BY DEF IInv, Turns
<1>5. Len(archive) = out[t].offset + WrittenBy(t)
  <2>1. Len(Shown(t)) = WrittenBy(t)
    BY <1>1, <1>2, WrittenByType DEF Shown
  <2> QED
    BY <1>1, <1>2, <1>3, <1>4, <2>1 DEF IInv, ArchiveFits, PositionFits
<1>6. out[t].offset \in Nat /\ WrittenBy(t) \in Nat
  BY <1>1, WrittenByType DEF IInv, Types, ThreadTypes, Stream
<1> QED
  BY <1>1, <1>2, <1>3, <1>4, <1>5, <1>6

\* What the archive has before the units of the thread.
LEMMA BeforeTheUnits ==
  ASSUME IInv, NEW t \in Threads, pc[t] \in {"code", "write"}, out[t].real, ~Lost
  PROVE  SubSeq(archive, 1, out[t].offset) = Written \o <<Header(main.item)>>
<1>1. Active(t) /\ out[t].unlockSent /\ OnArchive(t)
  BY AtCode
<1> DEFINE begin == Written \o <<Header(main.item)>>
           data == Data(t, WrittenBy(t))
<1>5. begin \in Seq(Unit) /\ Len(begin) = out[t].offset /\ archive = begin \o data
  BY <1>1, OnTheArchive
<1>6. data \in Seq(Unit) /\ Len(data) = WrittenBy(t) /\ WrittenBy(t) \in Nat
  BY <1>1, WrittenByType
<1> HIDE DEF begin, data
<1>7. Len(begin) \in Nat /\ Len(archive) = Len(begin) + Len(data)
  <2>1. begin \in Seq(Unit) /\ data \in Seq(Unit)
    BY <1>5, <1>6
  <2>2. Len(begin) \in Nat /\ Len(begin \o data) = Len(begin) + Len(data)
    BY <2>1, ConcatProperties
  <2> QED
    BY <1>5, <2>2
<1>8. First(archive, Len(begin)) = begin
  BY <1>5, <1>6, FirstOfConcat
<1>9. archive \in Seq(Unit) /\ Len(begin) <= Len(archive)
  BY <1>5, <1>6, <1>7, ConcatProperties
<1>10. SubSeq(archive, 1, Len(begin)) = begin
  <2>1. First(archive, Len(begin)) = SubSeq(archive, 1, Len(begin))
    <3>1. PICK a, m : a = archive /\ m = Len(begin)
      OBVIOUS
    <3>2. a \in Seq(Unit) /\ m \in Nat /\ m <= Len(a)
      BY <1>7, <1>9, <3>1
    <3>3. First(a, m) = SubSeq(a, 1, m)
      BY <3>2, FirstIs
    <3> QED
      BY <3>1, <3>3, Zenon
  <2> QED
    BY <1>8, <2>1, Zenon
<1> QED
  BY <1>5, <1>10 DEF begin

\* What Seek returns at the end of a pass.
LEMMA PositionIs ==
  ASSUME IInv, NEW t \in Threads, pc[t] = "code"
  PROVE  Position(t) = coder[t].units /\ coder[t].rest = 0 /\ WrittenBy(t) = coder[t].units
<1>1. Active(t)
  BY AtWork DEF Rests, Resting
<1>2. DataFits(t)
  BY <1>1 DEF IInv, ArchiveFits
<1>3. coder[t].rest = 0 /\ coder[t].units \in Nat
  BY <1>1, <1>2, WrittenByType DEF DataFits
<1>4. WrittenBy(t) = coder[t].units
  BY <1>3 DEF WrittenBy
<1>5. CASE out[t].real
  BY <1>4, <1>3, <1>5, AtCode, SMTT(30) DEF Position
<1>6. CASE ~out[t].real
  BY <1>2, <1>4, <1>6 DEF Position, DataFits, OnArchive
<1> QED
  BY <1>3, <1>4, <1>5, <1>6

-------------------------------------------------------------------------------
(* Types are kept.                                                          *)

PlacesOf(a) == (IF a = Main THEN MainPlaces ELSE ThreadPlaces)

\* An actor that has nothing to free goes elsewhere.
LEMMA PlacesGoto ==
  ASSUME Places, NEW a \in Actors, pc[a] \notin Freeing,
         NEW label \in PlacesOf(a), pc' = [pc EXCEPT ![a] = label], UNCHANGED <<after, toFree>>
  PROVE  Places'
<1>1. /\ pc \in [Actors -> Labels] /\ after \in [Actors -> {"loop", "write"}]
      /\ toFree \in [Actors -> Nat] /\ Main \notin Threads /\ toFree[a] = 0
  BY ConstantTypes DEF Places, Freeing
<1>2. label \in Labels /\ label \notin Freeing
  BY DEF PlacesOf, MainPlaces, ThreadPlaces, Resting, Stopping, Labels, Freeing
<1>3. pc' \in [Actors -> Labels] /\ pc'[a] = label /\ \A b \in Actors \ {a} : pc'[b] = pc[b]
  BY <1>1, <1>2
<1>4. Place(Main)' \in MainPlaces
  BY <1>1, <1>2, <1>3 DEF Places, Place, PlacesOf, Actors
<1>5. \A t \in Threads : Place(t)' \in ThreadPlaces
  BY <1>1, <1>2, <1>3 DEF Places, Place, PlacesOf, Actors
<1>6. \A b \in Actors : IF pc'[b] = "free" THEN toFree'[b] > 0
                        ELSE pc'[b] # "releaseBlock" => toFree'[b] = 0
  BY <1>1, <1>2, <1>3 DEF Places, Freeing
<1> QED
  BY <1>1, <1>3, <1>4, <1>5, <1>6 DEF Places

\* An actor begins to free blocks.
LEMMA PlacesFree ==
  ASSUME Places, NEW a \in Actors, pc[a] \notin Freeing, NEW n \in Nat,
         NEW label \in PlacesOf(a), label \in {"loop", "write"}, FreeAndGoto(a, n, label)
  PROVE  Places'
<1>1. /\ pc \in [Actors -> Labels] /\ after \in [Actors -> {"loop", "write"}]
      /\ toFree \in [Actors -> Nat] /\ Main \notin Threads /\ toFree[a] = 0
  BY ConstantTypes DEF Places, Freeing
<1>2. label \in Labels /\ label \notin Freeing /\ Freeing = {"free", "releaseBlock"} /\ "free" \in Labels
  BY DEF PlacesOf, MainPlaces, ThreadPlaces, Resting, Stopping, Labels, Freeing
<1>3. /\ pc' \in [Actors -> Labels] /\ pc'[a] = (IF n = 0 THEN label ELSE "free")
      /\ after' \in [Actors -> {"loop", "write"}] /\ toFree' \in [Actors -> Nat]
      /\ after'[a] = label /\ toFree'[a] = n
      /\ \A b \in Actors \ {a} : pc'[b] = pc[b] /\ after'[b] = after[b] /\ toFree'[b] = toFree[b]
  BY <1>1, <1>2 DEF FreeAndGoto, Goto
<1>4. Place(Main)' \in MainPlaces
  BY <1>1, <1>2, <1>3 DEF Places, Place, PlacesOf, Actors
<1>5. \A t \in Threads : Place(t)' \in ThreadPlaces
  BY <1>1, <1>2, <1>3 DEF Places, Place, PlacesOf, Actors
<1>6. \A b \in Actors : IF pc'[b] = "free" THEN toFree'[b] > 0
                        ELSE pc'[b] # "releaseBlock" => toFree'[b] = 0
  BY <1>1, <1>2, <1>3 DEF Places
<1> QED
  BY <1>1, <1>3, <1>4, <1>5, <1>6 DEF Places

LEMMA PlacesFreeBlock ==
  ASSUME Places, NEW a \in Actors, FreeBlock(a) \/ ReleaseBlock(a)
  PROVE  Places' /\ Place(a)' = Place(a)
<1>1. /\ pc \in [Actors -> Labels] /\ after \in [Actors -> {"loop", "write"}]
      /\ toFree \in [Actors -> Nat] /\ Main \notin Threads
  BY ConstantTypes DEF Places
<1>2. /\ Freeing = {"free", "releaseBlock"} /\ Freeing \subseteq Labels
      /\ {"loop", "write"} \subseteq Labels
  BY DEF Freeing, Labels
<1>3. /\ pc' \in [Actors -> Labels] /\ toFree' \in [Actors -> Nat] /\ after' = after
      /\ pc[a] \in Freeing /\ Place(a)' = Place(a)
      /\ IF pc'[a] = "free" THEN toFree'[a] > 0 ELSE pc'[a] # "releaseBlock" => toFree'[a] = 0
      /\ \A b \in Actors \ {a} : pc'[b] = pc[b] /\ toFree'[b] = toFree[b]
  <2>1. CASE FreeBlock(a)
    <3>1. /\ pc[a] = "free" /\ pc' = [pc EXCEPT ![a] = "releaseBlock"] /\ after' = after
          /\ toFree' = [toFree EXCEPT ![a] = @ - 1] /\ toFree[a] \in Nat /\ toFree[a] > 0
      BY <1>1, <2>1 DEF FreeBlock, Goto, Places
    <3> QED
      BY <1>1, <1>2, <3>1 DEF Place
  <2>2. CASE ReleaseBlock(a)
    <3>1. /\ pc[a] = "releaseBlock" /\ pc' = [pc EXCEPT ![a] = IF toFree[a] = 0 THEN after[a] ELSE "free"]
          /\ after' = after /\ toFree' = toFree /\ toFree[a] \in Nat /\ after[a] \in {"loop", "write"}
      BY <1>1, <2>2 DEF ReleaseBlock, Goto
    <3> QED
      BY <1>1, <1>2, <3>1 DEF Place
  <2> QED
    BY <2>1, <2>2
<1>4. Place(Main)' \in MainPlaces
  BY <1>1, <1>3 DEF Places, Place, Actors
<1>5. \A t \in Threads : Place(t)' \in ThreadPlaces
  BY <1>1, <1>3 DEF Places, Place, Actors
<1>6. \A b \in Actors : IF pc'[b] = "free" THEN toFree'[b] > 0
                        ELSE pc'[b] # "releaseBlock" => toFree'[b] = 0
  BY <1>3 DEF Places
<1> QED
  BY <1>1, <1>3, <1>4, <1>5, <1>6 DEF Places

LEMMA PlacesThread ==
  ASSUME IInv, NEW t \in Threads, ThreadStep(t)
  PROVE  Places'
<1>0. /\ Places /\ t \in Actors /\ t # Main /\ PlacesOf(t) = ThreadPlaces
      /\ out[t].blocks \in Nat
  BY ConstantTypes, ItemIsNumber DEF IInv, Types, Actors, PlacesOf, Stream
<1>1. ASSUME pc[t] \notin Freeing, NEW label \in ThreadPlaces, Goto(t, label), UNCHANGED <<after, toFree>>
      PROVE  Places'
  BY <1>0, <1>1, PlacesGoto DEF Goto
<1>2. CASE WaitWork(t)
  BY <1>1, <1>2 DEF WaitWork, ThreadPlaces, Resting, Freeing
<1>3. CASE CallWrite(t)
  BY <1>1, <1>3 DEF CallWrite, ThreadPlaces, Freeing
<1>4. CASE EndCompress(t)
  BY <1>1, <1>4 DEF EndCompress, ThreadPlaces, Freeing
<1>5. CASE NextMethod(t)
  <2>1. Goto(t, "code") /\ pc[t] \notin Freeing
    BY <1>0, <1>5 DEF NextMethod, Goto, Freeing, Places
  <2> QED
    BY <1>1, <1>5, <2>1 DEF NextMethod, ThreadPlaces
<1>6. CASE CompressFails(t)
  BY <1>1, <1>6 DEF CompressFails, Return, ThreadPlaces, Freeing
<1>7. CASE WriteReal(t)
  BY <1>1, <1>7 DEF WriteReal, Return, ThreadPlaces, Freeing
<1>8. CASE WriteBlock(t)
  BY <1>1, <1>8 DEF WriteBlock, ThreadPlaces, Freeing
<1>9. CASE WaitStop(t)
  BY <1>1, <1>9 DEF WaitStop, Waits, Return, ThreadPlaces, Freeing
<1>10. CASE WaitReal(t)
  BY <1>1, <1>10 DEF WaitReal, Waits, ThreadPlaces, Freeing
<1>11. CASE WaitBlock(t)
  BY <1>1, <1>11 DEF WaitBlock, Waits, ThreadPlaces, Freeing
<1>12. CASE AllocateBlock(t)
  <2>1. CASE freeBlocks = 0
    BY <1>1, <1>12, <2>1 DEF AllocateBlock, Return, ThreadPlaces, Freeing
  <2>2. CASE freeBlocks # 0
    BY <1>1, <1>12, <2>2 DEF AllocateBlock, ThreadPlaces, Freeing
  <2> QED
    BY <2>1, <2>2
<1>13. CASE WriteToRealStream(t)
  <2>1. pc[t] \notin Freeing /\ "write" \in ThreadPlaces /\ "finish" \in ThreadPlaces
    BY <1>13 DEF WriteToRealStream, Freeing, ThreadPlaces
  <2>2. CASE FreeAndGoto(t, out[t].blocks, "write")
    <3>1. "write" \in PlacesOf(t) /\ "write" \in {"loop", "write"}
      BY <1>0, <2>1
    <3> QED
      BY <1>0, <2>1, <2>2, <3>1, PlacesFree
  <2>3. CASE Return(t, "write") /\ UNCHANGED <<toFree, after, out>>
    BY <1>1, <2>1, <2>3 DEF Return
  <2> QED
    BY <1>13, <2>2, <2>3 DEF WriteToRealStream
<1>14. CASE ReleaseItem(t)
  BY <1>1, <1>14 DEF ReleaseItem, ThreadPlaces, Resting, Freeing
<1>15. CASE ReleaseSem(t)
  BY <1>1, <1>15 DEF ReleaseSem, ThreadPlaces, Resting, Freeing
<1>16. CASE FreeBlock(t) \/ ReleaseBlock(t)
  BY <1>0, <1>16, PlacesFreeBlock
<1> QED
  BY <1>2, <1>3, <1>4, <1>5, <1>6, <1>7, <1>8, <1>9, <1>10, <1>11, <1>12, <1>13, <1>14, <1>15,
     <1>16 DEF ThreadStep

\* Writing to the archive.
ArchiveTypes ==
  archive \in Seq(Unit) /\ hres \in BOOLEAN /\ failed \in BOOLEAN /\ dropped \in BOOLEAN

LEMMA Append2Types ==
  ASSUME ArchiveTypes, NEW u \in Seq(Unit), Append2(u) \/ WriteFails
  PROVE  ArchiveTypes'
BY ConcatProperties DEF ArchiveTypes, Append2, WriteFails, KeptFails, RefusedFails

LEMMA InMemoryType ==
  ASSUME NEW o, o.cells \in Seq(Unit), o.size \in Nat
  PROVE  /\ InMemory(o) \in Seq(Unit)
         /\ o.size <= Len(o.cells) => InMemory(o) = SubSeq(o.cells, 1, o.size) /\ Len(InMemory(o)) = o.size
BY FirstIs DEF InMemory

\* The units that a coder writes next.
LEMMA NextUnitsType ==
  ASSUME IInv, NEW t \in Threads, Active(t), NEW n \in 0 .. coder[t].rest
  PROVE  /\ NextUnits(t, n) \in Seq(Unit) /\ Len(NextUnits(t, n)) = n
         /\ WrittenBy(t) + n \in Nat
         /\ Data(t, WrittenBy(t)) \o NextUnits(t, n) = Data(t, WrittenBy(t) + n)
<1>1. /\ coder[t].item \in Nat /\ coder[t].pass \in Nat /\ coder[t].units \in Nat /\ coder[t].rest \in Nat
      /\ WrittenBy(t) \in Nat
  BY WrittenByType, ItemIsNumber, ConstantTypes
<1>2. PICK w \in Nat : w = WrittenBy(t)
  BY <1>1
<1>3. coder[t].units - coder[t].rest = w
  BY <1>2 DEF WrittenBy
<1> DEFINE a == w + 1
           b == w + n
<1>8. PICK i, p \in Nat : i = coder[t].item /\ p = coder[t].pass
  BY <1>1
<1>4. NextUnits(t, n) = Units(i, p, a, b)
  <2>1. w + 1 + n - 1 = w + n
    BY <1>1, <1>2
  <2> QED
    BY <1>3, <1>8, <2>1 DEF NextUnits
<1>5. i \in Nat /\ p \in Nat /\ a \in Nat /\ b \in Nat /\ a <= b + 1 /\ a = w + 1 /\ b = w + n /\ n \in Nat /\ b - a + 1 = n
  BY <1>1, <1>2
<1> HIDE DEF a, b
<1>6. NextUnits(t, n) \in Seq(Unit) /\ Len(NextUnits(t, n)) = n
  <2>1. NextUnits(t, n) \in Seq(Unit)
    BY <1>4, <1>5, UnitsAre
  <2>2. Len(Units(i, p, a, b)) = b - a + 1
    BY <1>5 DEF Units
  <2> QED
    BY <1>4, <1>5, <2>1, <2>2
<1>7. Units(i, p, 1, w) \o Units(i, p, a, b) = Units(i, p, 1, b)
  <2>1. w \in Nat /\ w <= b /\ Units(i, p, a, b) = UnitsAfter(i, p, w, b)
    BY <1>2, <1>5 DEF UnitsAfter
  <2>2. i \in Nat /\ p \in Nat /\ b \in Nat
    BY <1>5
  <2>3. Units(i, p, 1, w) \o UnitsAfter(i, p, w, b) = Units(i, p, 1, b)
    <3>1. \A n1, b1 \in Nat : n1 <= b1 =>
             Units(i, p, 1, n1) \o UnitsAfter(i, p, n1, b1) = Units(i, p, 1, b1)
      BY <2>2, UnitsConcat
    <3> QED
      BY <2>1, <2>2, <3>1
  <2> QED
    BY <2>1, <2>3
<1> QED
  BY <1>2, <1>8, <1>4, <1>5, <1>6, <1>7 DEF Data, b

\* A stream with new data in memory.
LEMMA CellsType ==
  ASSUME NEW c \in Seq(Unit), NEW u \in Seq(Unit), NEW a \in 0 .. Len(c), NEW b \in Nat, a <= b
  PROVE  SubSeq(c, 1, a) \o u \o SubSeq(c, b + 1, Len(c)) \in Seq(Unit)
<1>1. Len(c) \in Nat /\ \A k \in 1 .. Len(c) : c[k] \in Unit
  BY ElementOfSeq
<1>2. SubSeq(c, 1, a) \in Seq(Unit)
  BY <1>1, SubSeqProperties
<1>3. SubSeq(c, b + 1, Len(c)) \in Seq(Unit)
  <2>1. b + 1 \in Nat /\ \A k \in (b + 1) .. Len(c) : c[k] \in Unit
    BY <1>1
  <2> QED
    BY <1>1, <2>1, SubSeqProperties
<1> QED
  BY <1>2, <1>3, ConcatProperties

\* What a thread does to its own coder and stream.
LEMMA OwnTypes ==
  ASSUME IInv, NEW t \in Threads, ThreadStep(t)
  PROVE  /\ out'[t] \in Stream /\ coder'[t] \in Coder
         /\ out' = [out EXCEPT ![t] = out'[t]] /\ coder' = [coder EXCEPT ![t] = coder'[t]]
<1>0. /\ out[t] \in Stream /\ coder[t] \in Coder /\ out \in [Threads -> Stream]
      /\ coder \in [Threads -> Coder]
      /\ {OK, "E_FAIL", "E_ABORT"} \subseteq Results \ {"running"}
  BY ItemIsNumber DEF IInv, Types, ThreadTypes, Results, OK
<1>00. /\ BlockSize \in Nat \ {0} /\ MaxPasses \in Nat \ {0} /\ WriteSizes \subseteq Nat \ {0}
  BY ConstantTypes
<1>1. ASSUME "write" \in Faults PROVE "write" \in Results \ {"running"}
  BY <1>1 DEF Results
<1>2. CASE UNCHANGED <<out, coder>>
  BY <1>0, <1>2
<1>3. CASE WaitWork(t) \/ WaitBlock(t) \/ ReleaseItem(t) \/ ReleaseSem(t) \/ FreeBlock(t) \/ ReleaseBlock(t)
  BY <1>2, <1>3 DEF WaitWork, WaitBlock, ReleaseItem, ReleaseSem, FreeBlock, ReleaseBlock
<1>4. ASSUME NEW res \in Results \ {"running"}, Return(t, res), UNCHANGED out
      PROVE  /\ out'[t] \in Stream /\ coder'[t] \in Coder
             /\ out' = [out EXCEPT ![t] = out'[t]] /\ coder' = [coder EXCEPT ![t] = coder'[t]]
  <2>1. coder' = [coder EXCEPT ![t] = [coder[t] EXCEPT !.result = res]]
    BY <1>4 DEF Return, SetCoder
  <2> QED
    BY <1>0, <1>4, <2>1 DEF Coder
<1>5. CASE CallWrite(t)
  <2>1. PICK n \in WriteSizes : coder' = [coder EXCEPT ![t] = [coder[t] EXCEPT !.units = @ + n, !.rest = n]]
    BY <1>5 DEF CallWrite, SetCoder
  <2>2. n \in Nat /\ coder[t].units \in Nat /\ coder[t].units + n \in Nat /\ UNCHANGED out
    BY <1>0, <1>00, <1>5 DEF CallWrite, Coder
  <2> QED
    BY <1>0, <2>1, <2>2 DEF Coder
<1>6. CASE EndCompress(t)
  <2>1. coder' = [coder EXCEPT ![t] = [coder[t] EXCEPT !.packSize = Position(t), !.result = OK]]
        /\ Position(t) = coder[t].units /\ UNCHANGED out
    BY <1>6, PositionIs DEF EndCompress, SetCoder
  <2> QED
    BY <1>0, <2>1 DEF Coder
<1>7. CASE NextMethod(t)
  <2>1. coder' = [coder EXCEPT ![t] = [coder[t] EXCEPT !.pass = @ + 1, !.units = 0]]
        /\ coder[t].pass < MaxPasses
    BY <1>7 DEF NextMethod, SetCoder
  <2>2. coder'[t] \in Coder /\ coder' = [coder EXCEPT ![t] = coder'[t]]
    <3>1. coder[t].pass + 1 \in 1 .. MaxPasses
      BY <1>0, <1>00, <2>1 DEF Coder
    <3> QED
      BY <1>0, <2>1, <3>1 DEF Coder
  <2>3. UNCHANGED out \/ out' = [out EXCEPT ![t] = [out[t] EXCEPT !.pos = 0, !.size = 0]]
    BY <1>7 DEF NextMethod, SetOut, Rewound
  <2>4. out'[t] \in Stream /\ out' = [out EXCEPT ![t] = out'[t]]
    <3>1. CASE UNCHANGED out
      BY <1>0, <3>1
    <3>2. CASE out' = [out EXCEPT ![t] = [out[t] EXCEPT !.pos = 0, !.size = 0]]
      BY <1>0, <3>2 DEF Stream
    <3> QED
      BY <2>3, <3>1, <3>2
  <2> QED
    BY <2>2, <2>4
<1>8. CASE CompressFails(t)
  <2>1. "code" \in Results \ {"running"}
    BY <1>8 DEF CompressFails, Results
  <2> QED
    BY <1>4, <1>8, <2>1 DEF CompressFails
<1>9. CASE WriteReal(t)
  <2>1. CASE SetCoder(t, [coder[t] EXCEPT !.rest = 0]) /\ UNCHANGED out
    BY <1>0, <2>1 DEF SetCoder, Coder
  <2>2. CASE WriteFails /\ Return(t, "write") /\ UNCHANGED out
    <3>1. "write" \in Results \ {"running"}
      BY DEF Results
    <3> QED
      BY <1>4, <2>2, <3>1
  <2> QED
    BY <1>9, <2>1, <2>2 DEF WriteReal
<1>10. CASE WriteBlock(t)
  <2> DEFINE o == out[t]
             n == Smaller(coder[t].rest, BlockSize - (o.pos % BlockSize))
             end == o.pos + n
             c == SubSeq(o.cells, 1, o.pos) \o NextUnits(t, n) \o SubSeq(o.cells, end + 1, Len(o.cells))
  <2>1. /\ out' = [out EXCEPT ![t] = [o EXCEPT !.pos = end, !.size = Larger(@, end), !.cells = c]]
        /\ coder' = [coder EXCEPT ![t] = [coder[t] EXCEPT !.rest = @ - n]]
        /\ pc[t] = "write" /\ ~out[t].real
    BY <1>10 DEF WriteBlock, SetOut, SetCoder
  <2>2. o.pos \in Nat /\ o.size \in Nat /\ o.cells \in Seq(Unit) /\ coder[t].rest \in Nat
    BY <1>0 DEF Stream, Coder
  <2>3. n \in 0 .. coder[t].rest
    <3>1. (o.pos % BlockSize) \in 0 .. BlockSize - 1
      BY <1>00, <2>2
    <3> QED
      BY <1>00, <2>2, <3>1 DEF Smaller
  <2>4. Active(t) /\ o.pos <= Len(o.cells)
    <3>1. Active(t)
      BY <2>1, AtWork DEF Rests, Resting
    <3>2. DataFits(t)
      BY <3>1 DEF IInv, ArchiveFits
    <3> QED
      BY <2>1, <3>1, <3>2 DEF DataFits, OnArchive, Memory
  <2>5. c \in Seq(Unit)
    <3>1. NextUnits(t, n) \in Seq(Unit)
      BY <2>3, <2>4, NextUnitsType
    <3>2. o.pos \in 0 .. Len(o.cells) /\ end \in Nat /\ o.pos <= end
      BY <2>2, <2>3, <2>4
    <3> HIDE DEF n, end
    <3> QED
      BY <2>2, <3>1, <3>2, CellsType
  <2>6. end \in Nat /\ Larger(o.size, end) \in Nat /\ coder[t].rest - n \in Nat
    BY <2>2, <2>3 DEF Larger
  <2> HIDE DEF n, end, c
  <2> QED
    BY <1>0, <2>1, <2>5, <2>6 DEF Stream, Coder
<1>11. CASE WaitStop(t)
  <2>1. /\ out' = [out EXCEPT ![t] = [out[t] EXCEPT !.stopEvent = FALSE]]
        /\ coder' = [coder EXCEPT ![t] = [coder[t] EXCEPT !.result = "E_ABORT"]]
    BY <1>11 DEF WaitStop, SetOut, Return, SetCoder
  <2> QED
    BY <1>0, <2>1 DEF Stream, Coder
<1>12. CASE WaitReal(t)
  <2>1. /\ out' = [out EXCEPT ![t] = [out[t] EXCEPT !.realEvent = FALSE, !.real = TRUE]]
        /\ coder' = coder
    BY <1>12 DEF WaitReal, SetOut
  <2> QED
    BY <1>0, <2>1 DEF Stream
<1>13. CASE AllocateBlock(t)
  <2>1. CASE freeBlocks = 0
    BY <1>0, <1>4, <1>13, <2>1 DEF AllocateBlock
  <2>2. CASE freeBlocks # 0
    <3>1. out' = [out EXCEPT ![t] = [out[t] EXCEPT !.blocks = @ + 1]] /\ coder' = coder
      BY <1>13, <2>2 DEF AllocateBlock, SetOut
    <3>2. out[t].blocks + 1 \in Nat
      BY <1>0 DEF Stream
    <3> QED
      BY <1>0, <3>1, <3>2 DEF Stream
  <2> QED
    BY <2>1, <2>2
<1>14. CASE WriteToRealStream(t)
  <2>1. CASE SetOut(t, Emptied(out[t])) /\ UNCHANGED coder
    <3>1. <<>> \in Seq(Unit)
      OBVIOUS
    <3> QED
      BY <1>0, <2>1, <3>1 DEF SetOut, Emptied, Stream
  <2>2. CASE WriteFails /\ Return(t, "write") /\ UNCHANGED <<toFree, after, out>>
    <3>1. "write" \in Results \ {"running"}
      BY DEF Results
    <3> QED
      BY <1>4, <2>2, <3>1
  <2> QED
    BY <1>14, <2>1, <2>2 DEF WriteToRealStream
<1> QED
  BY <1>3, <1>5, <1>6, <1>7, <1>8, <1>9, <1>10, <1>11, <1>12, <1>13, <1>14 DEF ThreadStep

LEMMA TypesThread ==
  ASSUME IInv, NEW t \in Threads, ThreadStep(t)
  PROVE  Types'
<1>0. /\ freeBlocks \in Nat /\ semaphore \in Nat /\ compressEvent \in [Threads -> BOOLEAN]
      /\ finishedList \in Seq(Threads) /\ finishedSem \in Nat /\ archive \in Seq(Unit)
      /\ ArchiveTypes
      /\ isFree \in [Threads -> BOOLEAN] /\ exitThread \in [Threads -> BOOLEAN]
      /\ out \in [Threads -> Stream] /\ coder \in [Threads -> Coder] /\ MainTypes
  BY DEF IInv, Types, ThreadTypes, MainTypes, ArchiveTypes
<1>1. UNCHANGED <<const, update, isFree, exitThread>>
  BY ThreadEffects DEF IInv
<1>2. out' \in [Threads -> Stream] /\ coder' \in [Threads -> Coder]
  BY <1>0, OwnTypes
<1>3. freeBlocks' \in Nat /\ semaphore' \in Nat
  <2>1. CASE UNCHANGED pool
    BY <1>0, <2>1 DEF pool
  <2>2. CASE WaitBlock(t)
    BY <1>0, <2>2 DEF WaitBlock
  <2>3. CASE AllocateBlock(t)
    BY <1>0, <2>3 DEF AllocateBlock, pool
  <2>4. CASE FreeBlock(t) \/ ReleaseBlock(t)
    BY <1>0, <2>4 DEF FreeBlock, ReleaseBlock
  <2> QED
    BY <2>1, <2>2, <2>3, <2>4 DEF ThreadStep, WaitWork, CallWrite, EndCompress, NextMethod,
       CompressFails, WriteReal, WriteBlock, WaitStop, WaitReal, WriteToRealStream, ReleaseItem,
       ReleaseSem
<1>4. compressEvent' \in [Threads -> BOOLEAN]
  <2>1. CASE UNCHANGED compressEvent
    BY <1>0, <2>1
  <2>2. CASE WaitWork(t)
    BY <1>0, <2>2 DEF WaitWork
  <2> QED
    BY <2>1, <2>2 DEF ThreadStep, CallWrite, EndCompress, NextMethod,
       CompressFails, WriteReal, WriteBlock, WaitStop, WaitReal, WaitBlock, AllocateBlock,
       WriteToRealStream, ReleaseItem, ReleaseSem, FreeBlock, ReleaseBlock, info
<1>5. finishedList' \in Seq(Threads) /\ finishedSem' \in Nat
  <2>1. CASE UNCHANGED mtSem
    BY <1>0, <2>1 DEF mtSem
  <2>2. CASE ReleaseItem(t)
    <3>1. <<t>> \in Seq(Threads)
      OBVIOUS
    <3> QED
      BY <1>0, <2>2, <3>1, ConcatProperties DEF ReleaseItem
  <2>3. CASE ReleaseSem(t)
    BY <1>0, <2>3 DEF ReleaseSem
  <2> QED
    BY <2>1, <2>2, <2>3 DEF ThreadStep, WaitWork, CallWrite, EndCompress, NextMethod,
       CompressFails, WriteReal, WriteBlock, WaitStop, WaitReal, WaitBlock, AllocateBlock,
       WriteToRealStream, FreeBlock, ReleaseBlock
<1>6. ArchiveTypes'
  <2>1. CASE UNCHANGED output
    BY <1>0, <2>1 DEF output, ArchiveTypes
  <2>2. CASE NextMethod(t)
    <3>1. CASE ~out[t].real
      BY <1>0, <2>2, <3>1 DEF NextMethod, ArchiveTypes
    <3>2. CASE out[t].real
      <4>1. out[t].offset \in Nat /\ out[t].offset <= Len(archive)
        BY <2>2, <3>2, AtCode DEF NextMethod
      <4>2. SubSeq(archive, 1, out[t].offset) \in Seq(Unit)
        BY <1>0, <4>1, ElementOfSeq, SubSeqProperties
      <4> QED
        BY <1>0, <2>2, <3>2, <4>2 DEF NextMethod, ArchiveTypes
    <3> QED
      BY <3>1, <3>2
  <2>3. ASSUME NEW u \in Seq(Unit), Append2(u) \/ WriteFails
        PROVE  ArchiveTypes'
    BY <1>0, <2>3, Append2Types
  <2>4. CASE WriteReal(t)
    <3>1. Active(t) /\ coder[t].rest \in Nat
      BY <2>4, AtCode, WrittenByType DEF WriteReal
    <3>2. NextUnits(t, coder[t].rest) \in Seq(Unit)
      BY <3>1, NextUnitsType
    <3> QED
      BY <2>3, <2>4, <3>2 DEF WriteReal
  <2>5. CASE WriteToRealStream(t)
    <3>1. InMemory(out[t]) \in Seq(Unit)
      BY <1>0, InMemoryType DEF Stream
    <3> QED
      BY <2>3, <2>5, <3>1 DEF WriteToRealStream
  <2> QED
    BY <2>1, <2>2, <2>4, <2>5 DEF ThreadStep, WaitWork, CallWrite, EndCompress,
       CompressFails, WriteBlock, WaitStop, WaitReal, WaitBlock, AllocateBlock,
       ReleaseItem, ReleaseSem, FreeBlock, ReleaseBlock
<1>7. ThreadTypes'
  BY <1>0, <1>1, <1>2, <1>3, <1>4, <1>5 DEF ThreadTypes
<1>8. MainTypes'
  BY <1>0, <1>1, <1>6 DEF MainTypes, ArchiveTypes, Progress, update, const, NumItems
<1>9. Places'
  BY PlacesThread
<1> QED
  BY <1>7, <1>8, <1>9 DEF Types

-------------------------------------------------------------------------------
(* The states of the main thread.                                           *)

LEMMA MainFacts ==
  ASSUME IInv
  PROVE  /\ NumItems \in Nat /\ main \in Progress
         /\ main.item \in 1 .. NumItems + 1 /\ main.mtItem \in 1 .. NumItems + 1
         /\ main.lastReal \in Nat /\ main.result \in Results /\ main.item <= main.mtItem
         /\ main.lastReal <= main.item
         /\ Len(threadIndices) \in Nat /\ threadIndices \in Seq(Threads)
         /\ refs \in [1 .. NumItems -> Ref] /\ updateItems \in Seq(Kinds)
         /\ out \in [Threads -> Stream] /\ coder \in [Threads -> Coder]
         /\ pc \in [Actors -> Labels] /\ Main \in Actors
<1>1. updateItems \in Seq(Kinds) /\ main \in Progress
  BY DEF IInv, Types, MainTypes
<1>2. NumItems \in Nat
  BY <1>1 DEF NumItems
<1>3. /\ main.item \in 1 .. NumItems + 1 /\ main.mtItem \in 1 .. NumItems + 1
      /\ main.lastReal \in Nat /\ main.result \in Results
  BY <1>1 DEF Progress
<1>4. main.item <= main.mtItem /\ main.lastReal <= main.item
  BY DEF IInv, Order
<1>5. /\ threadIndices \in Seq(Threads) /\ refs \in [1 .. NumItems -> Ref]
      /\ out \in [Threads -> Stream] /\ coder \in [Threads -> Coder]
      /\ pc \in [Actors -> Labels]
  BY DEF IInv, Types, MainTypes, ThreadTypes, Places
<1>6. Len(threadIndices) \in Nat /\ Main \in Actors
  BY <1>5 DEF Actors
<1> QED
  BY <1>1, <1>2, <1>3, <1>4, <1>5, <1>6

LEMMA CurrentStarted ==
  ASSUME IInv, Turn
  PROVE  main.item < main.mtItem /\ main.item \in 1 .. NumItems /\ main.result = "running"
<1>1. /\ NumItems \in Nat /\ main.item \in 1 .. NumItems + 1 /\ main.mtItem \in 1 .. NumItems + 1
      /\ Len(threadIndices) \in Nat /\ main.item <= NumItems /\ pc[Main] = "loop" /\ ~Ahead
  BY MainFacts DEF Turn
<1>2. main.result = "running"
  BY <1>1 DEF IInv, Rest, Place, Freeing, Stopping
<1>3. CASE main.mtItem > NumItems
  BY <1>1, <1>2, <1>3
<1>4. CASE ~(main.mtItem > NumItems)
  <2>1. Cardinality(Threads) \in Nat /\ Cardinality(Threads) > 0
    BY ConstantTypes, FS_CardinalityType, FS_EmptySet
  <2>2. Len(threadIndices) > 0
    BY <1>1, <1>4, <2>1 DEF Ahead
  <2>3. threadIndices[1] \in Threads /\ Active(threadIndices[1])
    BY <1>1, <2>2, MainFacts DEF Active
  <2>4. coder[threadIndices[1]].item \in Pending
    BY <2>3 DEF IInv, Order
  <2>5. coder[threadIndices[1]].item \in main.item .. main.mtItem - 1
    BY <2>4 DEF Pending
  <2> QED
    BY <1>1, <1>2, <2>5
<1> QED
  BY <1>3, <1>4

\* There is a thread at the current item.
LEMMA CurrentAtHead ==
  ASSUME IInv, main.result = "running", main.item \in Pending
  PROVE  /\ threadIndices # <<>> /\ Head(threadIndices) \in Threads
         /\ Active(Head(threadIndices)) /\ coder[Head(threadIndices)].item = main.item
<1>1. PICK t \in Threads : Active(t) /\ coder[t].item = main.item
  BY DEF IInv, Order
<1>2. threadIndices # <<>> /\ t = Head(threadIndices)
  BY <1>1, AtTheHead
<1> QED
  BY <1>1, <1>2

LEMMA CurrentPending ==
  ASSUME IInv, NotFinished
  PROVE  main.item \in Pending /\ main.result = "running"
<1>1. main.item < main.mtItem /\ main.item \in 1 .. NumItems /\ main.result = "running"
  BY CurrentStarted DEF NotFinished
<1> QED
  BY <1>1, MainFacts DEF NotFinished, Pending

\* The thread that is collected.
LEMMA TheCollected ==
  ASSUME IInv, Collects
  PROVE  /\ main.ti \in Threads /\ Active(main.ti) /\ ~Listed(main.ti) /\ Rests(main.ti)
         /\ coder[main.ti].item \in Pending /\ coder[main.ti].item \in 1 .. NumItems
         /\ DataFits(main.ti) /\ pc[main.ti] \in Resting
         /\ main.result = "running" /\ main.item \in Pending /\ main.lastReal = main.item
         /\ main.item <= coder[main.ti].item /\ main.item \in 1 .. NumItems
<1>1. main.ti \in Threads /\ Active(main.ti) /\ ~Listed(main.ti) /\ Rests(main.ti)
  BY DEF IInv, Rest, Collects, Collected, WasListed
<1>2. coder[main.ti].item \in Pending /\ DataFits(main.ti)
  BY <1>1 DEF IInv, Order, ArchiveFits
<1>3. /\ coder[main.ti].item \in 1 .. NumItems /\ main.item <= coder[main.ti].item
  BY <1>1, <1>2, MainFacts DEF Pending
<1>4. main.item \in Pending /\ main.lastReal = main.item
  BY DEF IInv, Order, Collects
<1>5. main.result = "running"
  BY DEF IInv, Rest, Collects, Place, Freeing, Stopping
<1> QED
  BY <1>1, <1>2, <1>3, <1>4, <1>5, MainFacts DEF Rests, Pending

\* What it has in memory, unless it has written it.
LEMMA CollectedMemory ==
  ASSUME IInv, Collects, coder[main.ti].result = OK
  PROVE  /\ Needed(out[main.ti]) \in Nat /\ Needed(out[main.ti]) <= out[main.ti].blocks
         /\ out[main.ti].size <= Needed(out[main.ti]) * BlockSize
         /\ coder[main.ti].rest = 0 /\ coder[main.ti].packSize = coder[main.ti].units
         /\ WrittenBy(main.ti) = coder[main.ti].units
         /\ InMemory(out[main.ti]) = IF out[main.ti].real THEN <<>>
                                     ELSE Data(main.ti, coder[main.ti].units)
         /\ ~out[main.ti].real => out[main.ti].size = coder[main.ti].units
                                    /\ out[main.ti].size <= Len(out[main.ti].cells)
<1> DEFINE t == main.ti
           o == out[t]
<1>1. t \in Threads /\ DataFits(t) /\ pc[t] \in Resting /\ Active(t)
  BY TheCollected
<1>2. o.size \in Nat /\ o.blocks \in Nat /\ o.cells \in Seq(Unit) /\ coder[t].units \in Nat
  BY <1>1, ItemIsNumber DEF Stream, Coder
<1> HIDE DEF t, o
<1>3. /\ Needed(o) \in Nat /\ o.size <= Needed(o) * BlockSize
      /\ \A k \in Nat : o.size <= k * BlockSize => Needed(o) <= k
  BY <1>2, ConstantTypes, BlocksNeeded DEF Needed
<1>4. coder[t].rest = 0 /\ coder[t].packSize = coder[t].units /\ WrittenBy(t) = coder[t].units
  <2>1. pc[t] \notin Freeing \cup {"flush", "write", "allocate"}
    BY <1>1 DEF Resting, Freeing
  <2>2. coder[t].rest = 0
    BY <1>1, <2>1 DEF DataFits, t, Place
  <2>3. Collected(t)
    BY DEF Collected, Collects, t
  <2>4. coder[t].result = OK
    BY DEF t
  <2> QED
    BY <1>1, <1>2, <2>2, <2>3, <2>4 DEF DataFits, WrittenBy
<1>5. CASE ~o.real
  BY <1>1, <1>2, <1>3, <1>4, <1>5 DEF DataFits, OnArchive, Memory, o, t
<1>6. CASE o.real
  <2>1. OnArchive(t)
    BY <1>1, <1>6 DEF OnArchive, o, Resting
  <2>2. o.size = 0
    BY <1>1, <2>1 DEF DataFits, o, t
  <2>3. Needed(o) <= o.blocks
    BY <1>2, <1>3, <2>2, ConstantTypes
  <2>4. InMemory(o) = <<>>
    <3>1. InMemory(o) = SubSeq(o.cells, 1, 0)
      BY <1>2, <2>2, InMemoryType
    <3> QED
      BY <1>2, <3>1
  <2> QED
    BY <1>3, <1>4, <1>6, <2>2, <2>3, <2>4 DEF o, t
<1> QED
  BY <1>5, <1>6

LEMMA ProgressKept ==
  ASSUME IInv
  PROVE  /\ \A i \in 1 .. NumItems : /\ main.item = i => [main EXCEPT !.item = @ + 1] \in Progress
                                     /\ main.mtItem = i => [main EXCEPT !.mtItem = @ + 1] \in Progress
                                     /\ main.item = i => [main EXCEPT !.lastReal = Larger(@, main.item)] \in Progress
         /\ \A res \in Results : [main EXCEPT !.result = res] \in Progress
         /\ \A a \in Actors : [main EXCEPT !.ti = a] \in Progress
<1>1. main \in Progress /\ NumItems \in Nat /\ main.lastReal \in Nat
  BY MainFacts
<1>2. ASSUME NEW i \in 1 .. NumItems, main.item = i PROVE [main EXCEPT !.item = @ + 1] \in Progress
  <2>1. main.item + 1 \in 1 .. NumItems + 1
    BY <1>1, <1>2
  <2> QED
    BY <1>1, <2>1 DEF Progress
<1>3. ASSUME NEW i \in 1 .. NumItems, main.mtItem = i PROVE [main EXCEPT !.mtItem = @ + 1] \in Progress
  <2>1. main.mtItem + 1 \in 1 .. NumItems + 1
    BY <1>1, <1>3
  <2> QED
    BY <1>1, <2>1 DEF Progress
<1>4. ASSUME NEW i \in 1 .. NumItems, main.item = i
      PROVE  [main EXCEPT !.lastReal = Larger(@, main.item)] \in Progress
  <2>1. Larger(main.lastReal, main.item) \in Nat
    BY <1>1, <1>4 DEF Larger
  <2> QED
    BY <1>1, <2>1 DEF Progress
<1>5. \A res \in Results : [main EXCEPT !.result = res] \in Progress
  BY <1>1 DEF Progress
<1>6. \A a \in Actors : [main EXCEPT !.ti = a] \in Progress
  BY <1>1 DEF Progress
<1> QED
  BY <1>2, <1>3, <1>4, <1>5, <1>6

\* The archive has a part of the units, and the error is dropped.
Loses == \E u \in Seq(Unit) : archive' = archive \o u /\ dropped' = TRUE /\ UNCHANGED <<hres, failed>>

LEMMA DropsOrLoses ==
  ASSUME IInv, NEW r \in Ref, DropError(r)
  PROVE  KeptFails \/ Loses
<1> SUFFICES ASSUME ~KeptFails PROVE Loses
  OBVIOUS
<1>1. PICK n \in 0 .. Len(InMemory(r)) :
        /\ archive' = archive \o <<Header(main.item)>> \o First(InMemory(r), n)
        /\ dropped' = TRUE /\ UNCHANGED <<hres, failed>>
  BY DEF DropError
<1>2. InMemory(r) \in Seq(Unit) /\ archive \in Seq(Unit) /\ <<Header(main.item)>> \in Seq(Unit)
  <2>1. InMemory(r) \in Seq(Unit)
    BY InMemoryType DEF Ref
  <2>2. archive \in Seq(Unit) /\ main.item \in Nat
    BY MainFacts DEF IInv, Types, MainTypes
  <2> QED
    BY <2>1, <2>2 DEF Header, Unit
<1>3. First(InMemory(r), n) \in Seq(Unit)
  <2>1. PICK m \in Seq(Unit) : m = InMemory(r)
    BY <1>2
  <2>2. First(m, n) \in Seq(Unit)
    BY FirstIs
  <2> QED
    BY <2>1, <2>2
<1> DEFINE u == <<Header(main.item)>> \o First(InMemory(r), n)
<1>4. u \in Seq(Unit) /\ archive' = archive \o u
  BY <1>1, <1>2, <1>3, ConcatAssociative, ConcatProperties
<1> QED
  BY <1>1, <1>4 DEF Loses

LEMMA MainTypesKept ==
  ASSUME IInv, UNCHANGED const, main' \in Progress, threadIndices' \in Seq(Threads),
         refs' \in [1 .. NumItems -> Ref], items' \in Seq(Item),
         UNCHANGED output \/ WriteFails \/ Loses \/ \E u \in Seq(Unit) : Append2(u)
  PROVE  MainTypes'
<1>1. ArchiveTypes /\ updateItems \in Seq(Kinds) /\ numBlocks \in Nat
  BY DEF IInv, Types, MainTypes, ArchiveTypes
<1>2. ArchiveTypes'
  <2>1. CASE UNCHANGED output
    BY <1>1, <2>1 DEF output, ArchiveTypes
  <2>2. CASE Loses
    BY <1>1, <2>2, ConcatProperties DEF Loses, ArchiveTypes
  <2>3. CASE WriteFails \/ \E u \in Seq(Unit) : Append2(u)
    <3>1. <<>> \in Seq(Unit)
      OBVIOUS
    <3> QED
      BY <1>1, <2>3, <3>1, Append2Types
  <2> QED
    BY <2>1, <2>2, <2>3
<1>3. NumItems' = NumItems
  BY DEF NumItems, const
<1>4. Progress' = Progress
  BY <1>3 DEF Progress
<1> QED
  BY <1>1, <1>2, <1>3, <1>4 DEF MainTypes, ArchiveTypes, Item, const

LEMMA ThreadTypesKept ==
  ASSUME IInv, UNCHANGED <<pool, info, out, coder, mtSem>>
  PROVE  ThreadTypes'
BY DEF IInv, Types, ThreadTypes, pool, info, mtSem

LEMMA PlacesMain ==
  ASSUME IInv, pc[Main] \notin Freeing
  PROVE  /\ UNCHANGED <<after, toFree, pc>> => Places'
         /\ \A label \in MainPlaces : Goto(Main, label) /\ UNCHANGED <<after, toFree>> => Places'
         /\ \A n \in Nat : FreeAndGoto(Main, n, "loop") => Places'
<1>1. Places /\ Main \in Actors /\ PlacesOf(Main) = MainPlaces
  BY DEF IInv, Types, Actors, PlacesOf
<1>2. UNCHANGED <<after, toFree, pc>> => Places'
  BY <1>1 DEF Places, Place
<1>3. \A label \in MainPlaces : Goto(Main, label) /\ UNCHANGED <<after, toFree>> => Places'
  BY <1>1, PlacesGoto DEF Goto
<1>4. ASSUME NEW n \in Nat, FreeAndGoto(Main, n, "loop") PROVE Places'
  <2>1. "loop" \in PlacesOf(Main) /\ "loop" \in {"loop", "write"}
    BY <1>1 DEF MainPlaces
  <2> QED
    BY <1>1, <1>4, <2>1, PlacesFree
<1> QED
  BY <1>2, <1>3, <1>4

\* A return of Update2.
LEMMA LeaveTypes ==
  ASSUME IInv, pc[Main] \notin Freeing, NEW res \in Results, Leave(res), UNCHANGED <<after, toFree>>
  PROVE  Places' /\ main' \in Progress
<1>1. "stop" \in MainPlaces
  BY DEF MainPlaces, Stopping
<1> QED
  BY <1>1, PlacesMain, ProgressKept DEF Leave, SetMain

LEMMA FaultsAreResults ==
  ASSUME IInv
  PROVE  /\ \A f \in Faults : f \in Results
         /\ OK \in Results /\ "E_FAIL" \in Results /\ "write" \in Results
BY DEF Results, OK

-----
LEMMA TypesStart ==
  ASSUME IInv, CreateThread \/ PassDirect \/ PassAbsent \/ StartThread \/ GetStreamFails \/ SkipItem
               \/ WriteCentralDir \/ Lock \/ GetFreeItem \/ FinalFlush \/ HeaderFails
  PROVE  Types'
<1>0. /\ ThreadTypes /\ MainTypes /\ threadIndices \in Seq(Threads) /\ items \in Seq(Item)
      /\ refs \in [1 .. NumItems -> Ref] /\ main \in Progress
  BY MainFacts DEF IInv, Types, MainTypes, Item
<1>1. ASSUME UNCHANGED <<const, pool, info, out, coder, mtSem, threadIndices, refs, items>>,
             Places', main' \in Progress, UNCHANGED output \/ WriteFails
      PROVE  Types'
  BY <1>0, <1>1, MainTypesKept, ThreadTypesKept DEF Types
<1>2. CASE CreateThread
  <2>1. CASE \E t \in Threads : pc[t] = "none" /\ UNCHANGED main
                 /\ pc' = [pc EXCEPT ![t] = "idle",
                              ![Main] = IF \A u \in Threads \ {t} : pc[u] # "none"
                                        THEN "loop" ELSE "create"]
    <3>1. PICK t \in Threads : pc[t] = "none" /\ UNCHANGED main
                 /\ pc' = [pc EXCEPT ![t] = "idle",
                              ![Main] = IF \A u \in Threads \ {t} : pc[u] # "none"
                                        THEN "loop" ELSE "create"]
      BY <2>1
    <3>2. /\ pc \in [Actors -> Labels] /\ t \in Actors /\ Main \in Actors /\ t # Main
          /\ pc[Main] = "create" /\ UNCHANGED <<toFree, after>>
          /\ "idle" \in Labels /\ "loop" \in Labels /\ "create" \in Labels
      BY <1>2, ConstantTypes DEF IInv, Types, Places, Actors, CreateThread, Labels
    <3>3. PICK l \in {"loop", "create"} : pc' = [pc EXCEPT ![t] = "idle", ![Main] = l]
      BY <3>1
    <3>4. /\ pc' \in [Actors -> Labels] /\ pc'[t] = "idle" /\ pc'[Main] = l
          /\ \A a \in Actors \ {t, Main} : pc'[a] = pc[a]
      BY <3>2, <3>3
    <3>5. /\ "idle" \in ThreadPlaces /\ l \in MainPlaces /\ "idle" \notin Freeing /\ l \notin Freeing
          /\ "idle" # "free" /\ "idle" # "releaseBlock" /\ pc[t] = "none" /\ "none" \notin Freeing
          /\ pc[Main] \notin Freeing
      BY <3>1, <3>2 DEF ThreadPlaces, Resting, MainPlaces, Freeing
    <3>6. Place(Main)' \in MainPlaces
      BY <3>4, <3>5 DEF Place
    <3>7. \A u \in Threads : Place(u)' \in ThreadPlaces
      <4> TAKE u \in Threads
      <4>1. CASE u = t
        BY <3>4, <3>5, <4>1 DEF Place
      <4>2. CASE u # t
        <5>1. u \in Actors \ {t, Main} /\ Place(u) \in ThreadPlaces
          BY <4>2, ConstantTypes DEF Actors, IInv, Types, Places
        <5> QED
          BY <3>2, <3>4, <5>1 DEF Place
      <4> QED
        BY <4>1, <4>2
    <3>8. \A a \in Actors : IF pc'[a] = "free" THEN toFree'[a] > 0
                            ELSE pc'[a] # "releaseBlock" => toFree'[a] = 0
      BY <3>2, <3>4, <3>5 DEF IInv, Types, Places, Freeing
    <3>9. Places'
      BY <3>2, <3>4, <3>6, <3>7, <3>8 DEF Places, IInv, Types
    <3> QED
      BY <1>0, <1>1, <1>2, <3>1, <3>9 DEF CreateThread
  <2>2. CASE "create" \in Faults /\ Leave("create")
    BY <1>1, <1>2, <2>2, LeaveTypes, FaultsAreResults DEF CreateThread, Freeing
  <2> QED
    BY <1>2, <2>1, <2>2 DEF CreateThread
<1>3. ASSUME Ahead PROVE pc[Main] \notin Freeing /\ main.mtItem \in 1 .. NumItems
  BY <1>3, MainFacts DEF Ahead, Freeing
<1>4. CASE PassDirect
  BY <1>1, <1>3, <1>4, PlacesMain, ProgressKept DEF PassDirect, NextMtItem, SetMain
<1>5. CASE PassAbsent
  <2>1. /\ pc[Main] \notin Freeing /\ main.mtItem \in 1 .. NumItems
        /\ refs' = [refs EXCEPT ![main.mtItem].skip = TRUE]
        /\ main' = [main EXCEPT !.mtItem = @ + 1]
        /\ UNCHANGED <<const, pool, toFree, after, pc, info, out, coder, mtSem, threadIndices,
                 items, output>>
    BY <1>3, <1>5 DEF PassAbsent, NextMtItem, SetMain
  <2>2. Places' /\ main' \in Progress
    BY <2>1, PlacesMain, ProgressKept
  <2>3. refs' \in [1 .. NumItems -> Ref]
    BY <1>0, <2>1 DEF Ref
  <2> QED
    BY <1>0, <2>1, <2>2, <2>3, MainTypesKept, ThreadTypesKept DEF Types
<1>6. CASE StartThread
  <2>0. pc[Main] \notin Freeing /\ main.mtItem \in 1 .. NumItems
    BY <1>3, <1>6 DEF StartThread
  <2>1. CASE \A t \in Threads : ~isFree[t]
    BY <1>1, <1>6, <2>0, <2>1, LeaveTypes, FaultsAreResults DEF StartThread
  <2>2. CASE ~(\A t \in Threads : ~isFree[t])
    <3> DEFINE t == CHOOSE u \in Threads : isFree[u]
    <3>1. t \in Threads
      BY <2>2
    <3>2. /\ isFree' = [isFree EXCEPT ![t] = FALSE]
          /\ out' = [out EXCEPT ![t] = InitStream(out[t])]
          /\ coder' = [coder EXCEPT ![t] = [InitCoder EXCEPT !.item = main.mtItem]]
          /\ compressEvent' = [compressEvent EXCEPT ![t] = TRUE]
          /\ threadIndices' = Append(threadIndices, t)
          /\ main' = [main EXCEPT !.mtItem = @ + 1]
          /\ UNCHANGED <<const, pool, toFree, after, pc, exitThread, mtSem, refs, items, output>>
      BY <1>6, <2>2 DEF StartThread, SetOut, SetCoder, NextMtItem, SetMain
    <3> HIDE DEF t
    <3>3. Places' /\ main' \in Progress
      BY <2>0, <3>2, PlacesMain, ProgressKept
    <3>4. InitStream(out[t]) \in Stream
      <4>1. out[t] \in Stream /\ <<>> \in Seq(Unit)
        BY <1>0, <3>1 DEF ThreadTypes
      <4> QED
        BY <4>1 DEF InitStream, Emptied, Stream
    <3>5. [InitCoder EXCEPT !.item = main.mtItem] \in Coder
      <4>1. main.mtItem \in Nat \ {0} /\ 1 \in 1 .. MaxPasses /\ OK \in Results \ {"running"}
        BY <2>0, ConstantTypes DEF Results, OK
      <4> QED
        BY <4>1 DEF InitCoder, Coder
    <3>6. /\ out' \in [Threads -> Stream] /\ coder' \in [Threads -> Coder]
          /\ isFree' \in [Threads -> BOOLEAN] /\ compressEvent' \in [Threads -> BOOLEAN]
      BY <1>0, <3>1, <3>2, <3>4, <3>5 DEF ThreadTypes
    <3>7. ThreadTypes'
      BY <1>0, <3>2, <3>6 DEF ThreadTypes, pool, mtSem
    <3>8. threadIndices' \in Seq(Threads)
      BY <1>0, <3>1, <3>2, AppendProperties
    <3> QED
      BY <1>0, <3>2, <3>3, <3>7, <3>8, MainTypesKept DEF Types
  <2> QED
    BY <2>1, <2>2
<1>7. CASE GetStreamFails
  BY <1>1, <1>3, <1>7, LeaveTypes, FaultsAreResults DEF GetStreamFails
<1>8. CASE SkipItem
  <2>1. pc[Main] \notin Freeing /\ main.item \in 1 .. NumItems
    BY <1>8, CurrentStarted DEF SkipItem, Turn, Freeing
  <2> QED
    BY <1>1, <1>8, <2>1, PlacesMain, ProgressKept DEF SkipItem, NextItem, SetMain
<1>9. CASE WriteCentralDir
  BY <1>1, <1>9, LeaveTypes, FaultsAreResults DEF WriteCentralDir, Freeing
<1>10. CASE Lock
  <2>1. /\ pc[Main] = "lock" /\ finishedSem > 0 /\ finishedSem' = finishedSem - 1
        /\ Goto(Main, "getItem")
        /\ UNCHANGED <<const, pool, toFree, after, info, out, coder, finishedList, update, output>>
    BY <1>10 DEF Lock
  <2>2. Places'
    BY <2>1, PlacesMain DEF Freeing, MainPlaces
  <2>3. ThreadTypes'
    BY <1>0, <2>1 DEF ThreadTypes, pool, info
  <2> QED
    BY <1>0, <2>1, <2>2, <2>3, MainTypesKept DEF Types, update
<1>11. CASE GetFreeItem
  <2>1. /\ pc[Main] = "getItem" /\ finishedList' = Tail(finishedList)
        /\ main' = [main EXCEPT !.ti = Head(finishedList)]
        /\ Goto(Main, "collect")
        /\ UNCHANGED <<const, pool, toFree, after, info, out, coder, finishedSem, threadIndices, refs,
                 items, output>>
    BY <1>11 DEF GetFreeItem, SetMain
  <2>2. Places'
    BY <2>1, PlacesMain DEF Freeing, MainPlaces
  <2>3. finishedList # <<>> /\ finishedList \in Seq(Threads)
    <3>1. /\ Len(finishedList) = finishedSem + Cardinality({t \in Threads : pc[t] = "release"}) + 1
          /\ finishedSem \in Nat /\ finishedList \in Seq(Threads)
      BY <2>1 DEF IInv, Rest, Types, ThreadTypes
    <3>2. Cardinality({t \in Threads : pc[t] = "release"}) \in Nat
      BY ConstantTypes, FS_Subset, FS_CardinalityType
    <3> QED
      BY <3>1, <3>2
  <2>4. finishedList' \in Seq(Threads) /\ Head(finishedList) \in Actors
    BY <2>1, <2>3, HeadTailProperties DEF Actors
  <2>5. main' \in Progress
    BY <2>1, <2>4, ProgressKept
  <2>6. ThreadTypes'
    BY <1>0, <2>1, <2>4 DEF ThreadTypes, pool, info
  <2> QED
    BY <1>0, <2>1, <2>2, <2>5, <2>6, MainTypesKept DEF Types
<1>12. CASE FinalFlush
  <2>1. "done" \in MainPlaces /\ pc[Main] \notin Freeing
    BY <1>12 DEF MainPlaces, Stopping, Freeing, FinalFlush
  <2>2. Places'
    BY <1>12, <2>1, PlacesMain DEF FinalFlush
  <2>3. main' \in Progress /\ (UNCHANGED output \/ WriteFails)
    BY <1>0, <1>12, ProgressKept, FaultsAreResults DEF FinalFlush, SetMain
  <2> QED
    BY <1>1, <1>12, <2>2, <2>3 DEF FinalFlush
<1>13. CASE HeaderFails
  <2>1. pc[Main] \notin Freeing /\ "write" \in Results
    BY <1>13, FaultsAreResults DEF HeaderFails, NotFinished, Turn, Freeing
  <2> QED
    BY <1>1, <1>13, <2>1, LeaveTypes DEF HeaderFails
<1> QED
  BY <1>2, <1>4, <1>5, <1>6, <1>7, <1>8, <1>9, <1>10, <1>11, <1>12, <1>13

\* The head of the archive's part for an item.
LEMMA HeaderType ==
  ASSUME NEW i \in Nat, NEW u \in Seq(Unit)
  PROVE  <<Header(i)>> \in Seq(Unit) /\ <<Header(i)>> \o u \in Seq(Unit)
<1>1. <<Header(i)>> \in Seq(Unit)
  BY DEF Header, Unit
<1> QED
  BY <1>1, ConcatProperties

LEMMA AddedType ==
  ASSUME IInv, NEW pass \in Nat, NEW size \in Nat
  PROVE  /\ Added(pass, size) \in Seq(Item) /\ [item |-> main.item, pass |-> pass, size |-> size] \in Item
<1>1. items \in Seq(Item) /\ main.item \in Nat
  BY MainFacts DEF IInv, Types, MainTypes, Item
<1>2. [item |-> main.item, pass |-> pass, size |-> size] \in Item
  BY <1>1 DEF Item
<1> QED
  BY <1>1, <1>2, AppendProperties DEF Added

LEMMA TypesTurn ==
  ASSUME IInv, WriteDirect \/ WriteFinished \/ OpenItem
  PROVE  Types'
<1>0. /\ ThreadTypes /\ MainTypes /\ threadIndices \in Seq(Threads) /\ items \in Seq(Item)
      /\ refs \in [1 .. NumItems -> Ref] /\ main \in Progress
  BY MainFacts DEF IInv, Types, MainTypes, Item
<1>1. Turn /\ pc[Main] \notin Freeing /\ main.item \in 1 .. NumItems /\ NumItems \in Nat
  BY CurrentStarted, MainFacts DEF WriteDirect, WriteFinished, OpenItem, NotFinished, Turn, Freeing
<1>2. CASE WriteDirect
  <2>0. ThreadTypes'
    BY <1>2, ThreadTypesKept DEF WriteDirect
  <2>1. CASE Append2(<<Header(main.item)>> \o Units(main.item, 1, 1, 1)) /\ items' = Added(1, 1)
             /\ NextItem /\ UNCHANGED pc
    <3>1. <<Header(main.item)>> \o Units(main.item, 1, 1, 1) \in Seq(Unit)
      <4>1. Units(main.item, 1, 1, 1) \in Seq(Unit)
        BY <1>1, FirstUnits
      <4> QED
        BY <1>1, <4>1, HeaderType
    <3>2. items' \in Seq(Item)
      BY <2>1, AddedType
    <3>3. Places' /\ main' \in Progress
      BY <1>1, <1>2, <2>1, PlacesMain, ProgressKept DEF WriteDirect, NextItem, SetMain
    <3> QED
      BY <1>0, <1>2, <2>0, <2>1, <3>1, <3>2, <3>3, MainTypesKept DEF WriteDirect, Types
  <2>2. CASE WriteFails /\ Leave("write") /\ UNCHANGED items
    <3>1. Places' /\ main' \in Progress
      BY <1>1, <1>2, <2>2, LeaveTypes, FaultsAreResults DEF WriteDirect
    <3> QED
      BY <1>0, <1>2, <2>0, <2>2, <3>1, MainTypesKept DEF WriteDirect, Types
  <2>3. CASE "direct" \in Faults /\ Leave("direct") /\ UNCHANGED <<items, output>>
    <3>1. Places' /\ main' \in Progress
      BY <1>1, <1>2, <2>3, LeaveTypes, FaultsAreResults DEF WriteDirect
    <3> QED
      BY <1>0, <1>2, <2>0, <2>3, <3>1, MainTypesKept DEF WriteDirect, Types
  <2> QED
    BY <1>2, <2>1, <2>2, <2>3 DEF WriteDirect
<1>3. CASE WriteFinished
  <2> DEFINE r == refs[main.item]
  <2>0. ThreadTypes' /\ r \in Ref
    BY <1>0, <1>1, <1>3, ThreadTypesKept DEF WriteFinished
  <2>1. CASE /\ Append2(<<Header(main.item)>> \o InMemory(r)) \/ DropError(r)
             /\ items' = Added(r.pass, r.packSize)
             /\ refs' = [refs EXCEPT ![main.item].blocks = 0, ![main.item].cells = <<>>]
             /\ FreeAndGoto(Main, r.blocks, "loop")
             /\ NextItem
    <3>1. r.pass \in Nat /\ r.packSize \in Nat /\ r.blocks \in Nat /\ r.cells \in Seq(Unit) /\ r.size \in Nat
      BY <2>0 DEF Ref
    <3>2. <<Header(main.item)>> \o InMemory(r) \in Seq(Unit)
      BY <1>1, <3>1, InMemoryType, HeaderType
    <3>3. items' \in Seq(Item)
      BY <2>1, <3>1, AddedType
    <3>4. refs' \in [1 .. NumItems -> Ref]
      <4>1. <<>> \in Seq(Unit)
        OBVIOUS
      <4> QED
        <5>1. r \in Ref /\ [r EXCEPT !.blocks = 0, !.cells = <<>>] \in Ref
          BY <2>0, <4>1 DEF Ref
        <5>2. refs' = [refs EXCEPT ![main.item] = [r EXCEPT !.blocks = 0, !.cells = <<>>]]
          BY <2>1
        <5> QED
          BY <1>0, <1>1, <5>1, <5>2
    <3>5. Places' /\ main' \in Progress
      BY <1>1, <2>1, <3>1, PlacesMain, ProgressKept DEF NextItem, SetMain
    <3>6. WriteFails \/ Loses \/ \E u \in Seq(Unit) : Append2(u)
      BY <2>0, <2>1, <3>2, DropsOrLoses DEF WriteFails
    <3> QED
      BY <1>0, <1>3, <2>0, <3>3, <3>4, <3>5, <3>6, MainTypesKept DEF WriteFinished, Types
  <2>2. CASE WriteFails /\ Leave("write") /\ UNCHANGED <<items, refs, toFree, after>>
    <3>1. Places' /\ main' \in Progress
      BY <1>1, <1>3, <2>2, LeaveTypes, FaultsAreResults DEF WriteFinished
    <3> QED
      BY <1>0, <1>3, <2>0, <2>2, <3>1, MainTypesKept DEF WriteFinished, Types
  <2> QED
    BY <1>3, <2>1, <2>2 DEF WriteFinished
<1>4. CASE OpenItem
  <2> DEFINE t == Head(threadIndices)
  <2>1. t \in Threads
    BY <1>4, CurrentPending, CurrentAtHead DEF OpenItem
  <2>2. UNCHANGED output \/ \E u \in Seq(Unit) : Append2(u)
    <3>1. <<Header(main.item)>> \in Seq(Unit)
      BY <1>1 DEF Header, Unit
    <3> QED
      BY <1>4, <3>1 DEF OpenItem
  <2>3. main' \in Progress /\ Places'
    <3>1. "lock" \in MainPlaces
      BY DEF MainPlaces
    <3>2. main' = [main EXCEPT !.lastReal = Larger(@, main.item)]
      BY <1>4 DEF OpenItem, SetMain
    <3>3. Places'
      BY <1>1, <1>4, <3>1, PlacesMain DEF OpenItem
    <3> QED
      BY <1>1, <3>2, <3>3, ProgressKept
  <2>4. MainTypes'
    BY <1>0, <1>4, <2>2, <2>3, MainTypesKept DEF OpenItem
  <2>5. Len(archive') \in Nat
    BY <2>4 DEF MainTypes
  <2>6. out' \in [Threads -> Stream]
    <3>1. CASE out[t].unlockSent
      BY <1>0, <1>4, <3>1 DEF OpenItem, ThreadTypes
    <3>2. CASE ~out[t].unlockSent
      <4>1. out' = [out EXCEPT ![t] = [out[t] EXCEPT !.offset = Len(archive'), !.unlockSent = TRUE,
                                                     !.realEvent = TRUE]]
        BY <1>4, <3>2 DEF OpenItem, SetRealStreamMode, SetOut
      <4>2. out[t] \in Stream /\ out \in [Threads -> Stream]
        BY <1>0, <2>1 DEF ThreadTypes
      <4>3. [out[t] EXCEPT !.offset = Len(archive'), !.unlockSent = TRUE, !.realEvent = TRUE] \in Stream
        BY <2>5, <4>2 DEF Stream
      <4> QED
        BY <2>1, <4>1, <4>2, <4>3
    <3> QED
      BY <3>1, <3>2
  <2>7. ThreadTypes'
    BY <1>0, <1>4, <2>6 DEF OpenItem, ThreadTypes, pool, info, mtSem
  <2> QED
    BY <2>3, <2>4, <2>7 DEF Types
<1> QED
  BY <1>2, <1>3, <1>4

\* A list without the element at k.
LEMMA RemoveAtIs ==
  ASSUME NEW S, NEW s \in Seq(S), NEW k \in 1 .. Len(s)
  PROVE  /\ RemoveAt(s, k) \in Seq(S) /\ Len(RemoveAt(s, k)) = Len(s) - 1
         /\ \A j \in 1 .. Len(s) - 1 : RemoveAt(s, k)[j] = s[IF j < k THEN j ELSE j + 1]
<1>1. Len(s) \in Nat /\ k \in Nat /\ \A i \in 1 .. Len(s) : s[i] \in S
  BY ElementOfSeq
<1> DEFINE a == SubSeq(s, 1, k - 1)
           b == SubSeq(s, k + 1, Len(s))
<1>2. a \in Seq(S) /\ Len(a) = k - 1 /\ \A j \in 1 .. k - 1 : a[j] = s[j]
  <2>1. k - 1 \in 0 .. Len(s)
    BY <1>1
  <2>2. a \in Seq(S) /\ Len(a) = k - 1
    BY <1>1, <2>1, SubSeqProperties
  <2>3. \A j \in 1 .. k - 1 : a[j] = s[j]
    <3>1. \A i \in 1 .. (k - 1) - 1 + 1 : a[i] = s[1 + i - 1]
      BY <1>1
    <3>2. \A i \in 1 .. k - 1 : i \in 1 .. (k - 1) - 1 + 1 /\ 1 + i - 1 = i
      BY <1>1
    <3> HIDE DEF a
    <3> QED
      BY <3>1, <3>2
  <2> QED
    BY <2>2, <2>3
<1>3. b \in Seq(S) /\ Len(b) = Len(s) - k /\ \A j \in 1 .. Len(s) - k : b[j] = s[k + j]
  <2>1. k + 1 \in 1 .. Len(s) + 1 /\ Len(s) - (k + 1) + 1 = Len(s) - k
    BY <1>1
  <2>2. b \in Seq(S)
    BY <1>1, <2>1, SubSeqProperties
  <2>3. Len(b) = Len(s) - k
    <3>1. PICK f \in Int : f = k + 1
      BY <1>1
    <3>2. \A i \in f .. Len(s) : s[i] \in S
      BY <1>1, <3>1
    <3>3. Len(SubSeq(s, f, Len(s))) = IF f <= Len(s) THEN Len(s) - f + 1 ELSE 0
      BY <1>1, <3>2, SubSeqProperties
    <3> QED
      BY <1>1, <3>1, <3>3
  <2>4. \A j \in 1 .. Len(s) - k : b[j] = s[k + j]
    <3>1. PICK f : f = k + 1 /\ f \in Int /\ Len(s) - f + 1 = Len(s) - k
      BY <1>1
    <3>2. \A i \in 1 .. Len(s) - f + 1 : SubSeq(s, f, Len(s))[i] = s[f + i - 1]
      BY <1>1, <3>1
    <3>3. \A j \in 1 .. Len(s) - k : j \in 1 .. Len(s) - f + 1 /\ f + j - 1 = k + j
      BY <1>1, <3>1
    <3> QED
      BY <3>1, <3>2, <3>3
  <2> QED
    BY <2>2, <2>3, <2>4
<1>4. RemoveAt(s, k) = a \o b
  BY DEF RemoveAt
<1> HIDE DEF a, b
<1>5. /\ a \o b \in Seq(S) /\ Len(a \o b) = Len(a) + Len(b)
      /\ \A i \in 1 .. Len(a) + Len(b) : (a \o b)[i] = IF i <= Len(a) THEN a[i] ELSE b[i - Len(a)]
  BY <1>2, <1>3, ConcatProperties
<1>6. \A j \in 1 .. Len(s) - 1 : (a \o b)[j] = s[IF j < k THEN j ELSE j + 1]
  <2> TAKE j \in 1 .. Len(s) - 1
  <2>1. j \in 1 .. Len(a) + Len(b)
    BY <1>1, <1>2, <1>3
  <2>2. CASE j < k
    <3>1. j \in 1 .. k - 1 /\ j <= Len(a)
      BY <1>1, <1>2, <2>2
    <3> QED
      BY <1>2, <1>5, <2>1, <2>2, <3>1
  <2>3. CASE ~(j < k)
    <3>1. ~(j <= Len(a)) /\ j - Len(a) \in 1 .. Len(s) - k /\ k + (j - Len(a)) = j + 1
      BY <1>1, <1>2, <2>3
    <3>2. b[j - Len(a)] = s[k + (j - Len(a))]
      BY <1>3, <3>1
    <3> QED
      BY <1>5, <2>1, <2>3, <3>1, <3>2
  <2> QED
    BY <2>2, <2>3
<1>7. Len(a) + Len(b) = Len(s) - 1
  BY <1>1, <1>2, <1>3
<1> QED
  BY <1>4, <1>5, <1>6, <1>7, Zenon

LEMMA TypesCollect ==
  ASSUME IInv, CoderFailed \/ CloseItem \/ DetachData
  PROVE  Types'
<1>0. /\ ThreadTypes /\ MainTypes /\ threadIndices \in Seq(Threads) /\ items \in Seq(Item)
      /\ refs \in [1 .. NumItems -> Ref] /\ main \in Progress /\ NumItems \in Nat
  BY MainFacts DEF IInv, Types, MainTypes, Item
<1> DEFINE t == main.ti
           o == out[t]
           c == coder[t]
<1>1. /\ Collects /\ pc[Main] \notin Freeing /\ t \in Threads
      /\ c.item \in 1 .. NumItems /\ main.item \in 1 .. NumItems
  BY TheCollected, Zenon DEF CoderFailed, CloseItem, DetachData, Collects, Freeing
<1>2. /\ o \in Stream /\ c \in Coder /\ <<>> \in Seq(Unit)
  BY <1>1, ItemIsNumber
<1>3. /\ o.blocks \in Nat /\ o.size \in Nat /\ o.cells \in Seq(Unit)
      /\ c.pass \in Nat /\ c.packSize \in Nat /\ c.result \in Results
  BY <1>2, ConstantTypes, SMTT(30) DEF Stream, Coder
<1>4. Emptied(o) \in Stream
  BY <1>2 DEF Emptied, Stream
<1>5. ASSUME SetFree, UNCHANGED <<pool, coder, mtSem>>, out' = out \/ SetOut(t, Emptied(o))
      PROVE  ThreadTypes'
  <2>1. isFree' \in [Threads -> BOOLEAN] /\ out' \in [Threads -> Stream]
    BY <1>0, <1>1, <1>4, <1>5 DEF SetFree, SetOut, ThreadTypes
  <2> QED
    BY <1>0, <1>5, <2>1 DEF ThreadTypes, SetFree, pool, mtSem
<1>6. CASE CoderFailed
  <2>1. Places' /\ main' \in Progress
    BY <1>1, <1>3, <1>6, LeaveTypes DEF CoderFailed
  <2>2. ThreadTypes'
    BY <1>5, <1>6 DEF CoderFailed
  <2> QED
    BY <1>0, <1>6, <2>1, <2>2, MainTypesKept DEF CoderFailed, Types
<1>7. CASE CloseItem
  <2>1. threadIndices' \in Seq(Threads) /\ UNCHANGED <<const, pool, coder, mtSem, refs>> /\ SetFree
    BY <1>0, <1>7, HeadTailProperties DEF CloseItem, IsFront
  <2>2. CASE c.item # main.item
    <3>0. Leave("E_FAIL") /\ UNCHANGED <<toFree, after, out, items, output>>
      BY <1>7, <2>2 DEF CloseItem
    <3>1. Places' /\ main' \in Progress
      BY <1>1, <3>0, LeaveTypes, FaultsAreResults
    <3>2. ThreadTypes'
      BY <1>5, <2>1, <3>0
    <3> QED
      BY <1>0, <2>1, <3>0, <3>1, <3>2, MainTypesKept DEF Types
  <2>3. CASE /\ Append2(InMemory(o))
             /\ items' = Added(c.pass, c.packSize)
             /\ FreeAndGoto(Main, o.blocks, "loop")
             /\ SetOut(t, Emptied(o))
             /\ NextItem
    <3>1. Places' /\ main' \in Progress
      BY <1>1, <1>3, <2>3, PlacesMain, ProgressKept DEF NextItem, SetMain
    <3>2. ThreadTypes'
      BY <1>5, <2>1, <2>3
    <3>3. items' \in Seq(Item) /\ InMemory(o) \in Seq(Unit)
      BY <1>3, <2>3, AddedType, InMemoryType
    <3> QED
      BY <1>0, <2>1, <2>3, <3>1, <3>2, <3>3, MainTypesKept DEF Types
  <2>4. CASE WriteFails /\ Leave("write") /\ UNCHANGED <<toFree, after, out, items>>
    <3>1. Places' /\ main' \in Progress
      BY <1>1, <2>4, LeaveTypes, FaultsAreResults
    <3>2. ThreadTypes'
      BY <1>5, <2>1, <2>4
    <3> QED
      BY <1>0, <2>1, <2>4, <3>1, <3>2, MainTypesKept DEF Types
  <2> QED
    BY <1>7, <2>2, <2>3, <2>4 DEF CloseItem
<1>8. CASE DetachData
  <2>0. /\ c.result = OK /\ SetFree /\ UNCHANGED <<const, pool, coder, mtSem, main, items, output>>
        /\ SetOut(t, Emptied(o)) /\ FreeAndGoto(Main, Surplus(o), "loop")
    BY <1>8, Zenon DEF DetachData
  <2>1. PICK k \in 1 .. Len(threadIndices) : threadIndices' = RemoveAt(threadIndices, k)
    BY <1>8, Zenon DEF DetachData
  <2>2. threadIndices' \in Seq(Threads)
    BY <1>0, <2>1, RemoveAtIs
  <2>3. /\ Needed(o) \in Nat /\ Surplus(o) \in Nat
    BY <1>1, <1>3, <2>0, CollectedMemory DEF Surplus
  <2>4. Places'
    BY <1>1, <2>0, <2>3, PlacesMain
  <2>5. ThreadTypes'
    BY <1>5, <2>0
  <2>6. First(o.cells, Needed(o) * BlockSize) \in Seq(Unit)
    <3>1. Needed(o) * BlockSize \in Nat
      BY <2>3, ConstantTypes
    <3> QED
      BY <1>3, <3>1, FirstIs
  <2>7. PICK f \in Seq(Unit), n \in Nat :
          refs' = [refs EXCEPT ![c.item] = [refs[c.item] EXCEPT !.finished = TRUE, !.blocks = n,
                             !.size = o.size, !.cells = f, !.pass = c.pass, !.packSize = c.packSize]]
    <3> DEFINE new == [refs[c.item] EXCEPT !.finished = TRUE, !.blocks = Needed(o),
                          !.size = o.size, !.cells = First(o.cells, Needed(o) * BlockSize),
                          !.pass = c.pass, !.packSize = c.packSize]
    <3>1. refs' = [refs EXCEPT ![c.item] = new]
      BY <1>0, <1>1, <1>8, Zenon DEF DetachData
    <3> QED
      BY <2>3, <2>6, <3>1, Zenon
  <2>8. refs' \in [1 .. NumItems -> Ref]
    <3>1. refs[c.item] \in Ref
      BY <1>0, <1>1
    <3>2. [refs[c.item] EXCEPT !.finished = TRUE, !.blocks = n, !.size = o.size, !.cells = f,
                               !.pass = c.pass, !.packSize = c.packSize] \in Ref
      BY <1>3, <3>1 DEF Ref
    <3> QED
      BY <1>0, <1>1, <2>7, <3>2
  <2> QED
    BY <1>0, <2>0, <2>2, <2>4, <2>5, <2>8, MainTypesKept DEF Types
<1> QED
  BY <1>6, <1>7, <1>8

LEMMA TypesEnd ==
  ASSUME IInv, (\E t \in Threads : StopWait(t)) \/ Wait_Close \/ FreeBlock(Main) \/ ReleaseBlock(Main)
  PROVE  Types'
<1>0. /\ ThreadTypes /\ MainTypes /\ threadIndices \in Seq(Threads) /\ items \in Seq(Item)
      /\ refs \in [1 .. NumItems -> Ref] /\ main \in Progress /\ Main \in Actors
  BY MainFacts DEF IInv, Types, MainTypes, Item
<1>1. ASSUME NEW t \in Threads, StopWait(t) PROVE Types'
  <2>1. /\ pc[Main] = "stop" /\ exitThread' = [exitThread EXCEPT ![t] = TRUE]
        /\ out' = [out EXCEPT ![t] = [out[t] EXCEPT !.stopEvent = TRUE]]
        /\ compressEvent' = [compressEvent EXCEPT ![t] = TRUE]
        /\ main' = [main EXCEPT !.ti = t]
        /\ Goto(Main, "join")
        /\ UNCHANGED <<const, pool, toFree, after, isFree, coder, mtSem, threadIndices, refs, items,
                 output>>
    BY <1>1 DEF StopWait, StopWriting, SetOut, SetMain
  <2>2. Places'
    BY <2>1, PlacesMain DEF Freeing, MainPlaces, Stopping
  <2>3. main' \in Progress
    <3>1. t \in Actors
      BY DEF Actors
    <3> QED
      BY <2>1, <3>1, ProgressKept
  <2>4. /\ out' \in [Threads -> Stream] /\ exitThread' \in [Threads -> BOOLEAN]
        /\ compressEvent' \in [Threads -> BOOLEAN]
    BY <1>0, <2>1 DEF ThreadTypes, Stream
  <2>5. ThreadTypes'
    BY <1>0, <2>1, <2>4 DEF ThreadTypes, pool, mtSem
  <2> QED
    BY <1>0, <2>1, <2>2, <2>3, <2>5, MainTypesKept DEF Types
<1>2. CASE Wait_Close
  <2>1. PICK label \in {"flush", "stop"} : Goto(Main, label)
    BY <1>2 DEF Wait_Close
  <2>2. Places'
    BY <1>2, <2>1, PlacesMain DEF Wait_Close, Freeing, MainPlaces, Stopping
  <2> QED
    BY <1>0, <1>2, <2>2, MainTypesKept, ThreadTypesKept DEF Wait_Close, Types, update
<1>3. CASE FreeBlock(Main) \/ ReleaseBlock(Main)
  <2>1. Places'
    BY <1>0, <1>3, PlacesFreeBlock DEF IInv, Types
  <2>2. freeBlocks' \in Nat /\ semaphore' \in Nat
    BY <1>0, <1>3 DEF FreeBlock, ReleaseBlock, ThreadTypes
  <2>3. ThreadTypes'
    BY <1>0, <1>3, <2>2 DEF FreeBlock, ReleaseBlock, ThreadTypes, info, mtSem
  <2>4. UNCHANGED <<const, update, output>>
    BY <1>3 DEF FreeBlock, ReleaseBlock
  <2> QED
    BY <1>0, <2>1, <2>3, <2>4, MainTypesKept DEF Types, update
<1> QED
  BY <1>1, <1>2, <1>3

LEMMA TypesKept ==
  ASSUME IInv, [Next]_vars
  PROVE  Types'
<1>1. CASE MainStep
  BY <1>1, TypesStart, TypesTurn, TypesCollect, TypesEnd DEF MainStep
<1>2. CASE \E t \in Threads : ThreadStep(t)
  BY <1>2, TypesThread
<1>3. CASE UNCHANGED vars
  <2>1. Places'
    BY <1>3 DEF IInv, Types, Places, Place, vars
  <2>2. ThreadTypes'
    BY <1>3 DEF IInv, Types, ThreadTypes, vars, pool, info, mtSem
  <2>3. MainTypes'
    BY <1>3 DEF IInv, Types, MainTypes, Progress, vars, update, const, output, NumItems
  <2> QED
    BY <2>1, <2>2, <2>3 DEF Types
<1> QED
  BY <1>1, <1>2, <1>3 DEF Next, Done

-------------------------------------------------------------------------------
(* The order of the threads, and whose turn it is.                          *)

\* A thread changes neither.
LEMMA OrderThread ==
  ASSUME IInv, NEW t \in Threads, ThreadStep(t)
  PROVE  Order' /\ Turns'
<1>1. /\ main' = main /\ threadIndices' = threadIndices /\ refs' = refs /\ updateItems' = updateItems
      /\ pc'[Main] = pc[Main] /\ NumItems' = NumItems
      /\ \A u \in Threads : coder'[u].item = coder[u].item
      /\ \A u \in Threads : /\ out'[u].unlockSent = out[u].unlockSent
                            /\ out'[u].realEvent => out[u].realEvent
                            /\ out'[u].real => out[u].real \/ out[u].realEvent
  <2>1. UNCHANGED <<const, update, isFree, exitThread>> /\ OthersAlone(t) /\ OwnKept(t)
    BY ThreadEffects DEF IInv
  <2>2. \A u \in Threads : u # t => out'[u] = out[u] /\ coder'[u] = coder[u]
    BY <2>1 DEF OthersAlone, Actors
  <2>3. Main # t /\ Main \in Actors
    BY ConstantTypes DEF Actors
  <2> QED
    BY <2>1, <2>2, <2>3 DEF OthersAlone, OwnKept, const, update, NumItems
<1>2. Pending' = Pending /\ \A u \in Threads : Active(u)' <=> Active(u)
  BY <1>1 DEF Pending, Active
<1>3. \A j \in 1 .. Len(threadIndices) : threadIndices[j] \in Threads
  BY MainFacts
<1>4. Order'
  BY <1>1, <1>2, <1>3 DEF IInv, Order
<1>5. Turns'
  BY <1>1, <1>2 DEF IInv, Turns
<1> QED
  BY <1>4, <1>5

\* The main thread at the same item.
LEMMA OrderSame ==
  ASSUME IInv, UNCHANGED <<updateItems, refs, threadIndices, coder>>,
         main'.item = main.item, main'.mtItem = main.mtItem,
         main'.lastReal = main.lastReal \/ main'.lastReal = main.item,
         main'.result = "running" => main.result = "running",
         pc'[Main] \in {"lock", "getItem", "collect"} =>
           main.item \in Pending /\ main'.lastReal = main.item
  PROVE  /\ Order'
         /\ (\A t \in Threads : out'[t].unlockSent = out[t].unlockSent
                                 /\ out'[t].realEvent = out[t].realEvent /\ out'[t].real = out[t].real)
              => Turns'
<1>1. Pending' = Pending /\ (\A u \in Threads : Active(u)' <=> Active(u)) /\ NumItems' = NumItems
  BY DEF Pending, Active, NumItems
<1>2. main.lastReal <= main.item /\ main.item \in Nat
  BY MainFacts
<1>3. main'.lastReal <= main'.item
  BY <1>2
<1>4. Order'
  BY <1>1, <1>3 DEF IInv, Order
<1>5. ASSUME \A t \in Threads : out'[t].unlockSent = out[t].unlockSent
                                 /\ out'[t].realEvent = out[t].realEvent /\ out'[t].real = out[t].real
      PROVE  Turns'
  BY <1>1, <1>5 DEF IInv, Turns
<1> QED
  BY <1>4, <1>5

\* The next item, when no thread is at the current one.
LEMMA OrderNext ==
  ASSUME IInv, Turn, main.item \notin Pending, UNCHANGED <<updateItems, threadIndices, coder, out>>,
         NextItem, pc'[Main] \notin {"lock", "getItem", "collect"},
         \A i \in 1 .. NumItems : refs'[i].skip = refs[i].skip /\ refs'[i].finished = refs[i].finished
  PROVE  Order' /\ Turns'
<1>0. main.item < main.mtItem /\ main.item \in 1 .. NumItems /\ NumItems \in Nat /\ main \in Progress
      /\ main.mtItem \in Nat /\ main.lastReal \in Nat /\ main.lastReal <= main.item
      /\ main.mtItem <= NumItems + 1
  BY CurrentStarted, MainFacts
<1>1. /\ main'.item = main.item + 1 /\ main'.mtItem = main.mtItem /\ main'.lastReal = main.lastReal
      /\ main'.result = main.result
  BY <1>0 DEF NextItem, SetMain, Progress
<1>2. Pending' = Pending /\ (\A u \in Threads : Active(u)' <=> Active(u)) /\ NumItems' = NumItems
  <2>1. Pending' = {i \in main.item + 1 .. main.mtItem - 1 :
                      updateItems[i] = "file" /\ ~refs'[i].skip /\ ~refs'[i].finished}
    BY <1>1 DEF Pending
  <2>2. \A i \in main.item + 1 .. main.mtItem - 1 : i \in 1 .. NumItems
    BY <1>0
  <2>3. \A i \in Pending : i \in main.item + 1 .. main.mtItem - 1
    BY <1>0 DEF Pending
  <2>4. Pending' = Pending
    BY <1>0, <2>1, <2>2, <2>3 DEF Pending
  <2> QED
    BY <2>4 DEF Active, NumItems
<1>3. main'.item <= main'.mtItem /\ main'.lastReal <= main'.item
  BY <1>0, <1>1
<1>4. Order'
  BY <1>1, <1>2, <1>3 DEF IInv, Order
<1>5. \A t \in Threads : Active(t) => ~out[t].unlockSent
  BY DEF IInv, Turns, Order
<1>6. Turns'
  BY <1>2, <1>5 DEF IInv, Turns
<1> QED
  BY <1>4, <1>6

\* The list without one thread.
LEMMA Removal ==
  ASSUME IInv, NEW k \in 1 .. Len(threadIndices), threadIndices' \in Seq(Threads),
         Len(threadIndices') = Len(threadIndices) - 1,
         \A j \in 1 .. Len(threadIndices) - 1 :
           threadIndices'[j] = threadIndices[IF j < k THEN j ELSE j + 1]
  PROVE  /\ \A t \in Threads : Active(t)' <=> Active(t) /\ t # threadIndices[k]
         /\ \A j, l \in 1 .. Len(threadIndices') :
              j < l => coder[threadIndices'[j]].item < coder[threadIndices'[l]].item
<1>1. Len(threadIndices) \in Nat /\ k \in Nat
  BY MainFacts
<1> DEFINE n == Len(threadIndices)
           old(j) == IF j < k THEN j ELSE j + 1
<1>2. \A j \in 1 .. n - 1 : old(j) \in 1 .. n /\ old(j) # k /\ threadIndices'[j] = threadIndices[old(j)]
  BY <1>1
<1>3. \A j, l \in 1 .. n - 1 : j < l => old(j) < old(l)
  BY <1>1
<1>4. \A a \in 1 .. n : a # k => \E j \in 1 .. n - 1 : old(j) = a
  <2> TAKE a \in 1 .. n
  <2>1. CASE a < k
    <3>1. a \in 1 .. n - 1 /\ old(a) = a
      BY <1>1, <2>1
    <3> QED
      BY <3>1
  <2>2. CASE a > k
    <3>1. a - 1 \in 1 .. n - 1 /\ old(a - 1) = a
      BY <1>1, <2>2
    <3> QED
      BY <3>1
  <2> QED
    BY <1>1, <2>1, <2>2
<1> HIDE DEF old
<1>5. ASSUME NEW t \in Threads PROVE Active(t)' <=> Active(t) /\ t # threadIndices[k]
  <2>1. ASSUME Active(t)' PROVE Active(t) /\ t # threadIndices[k]
    <3>1. PICK j \in 1 .. n - 1 : threadIndices'[j] = t
      BY <2>1 DEF Active
    <3>2. old(j) \in 1 .. n /\ old(j) # k /\ threadIndices[old(j)] = t
      BY <1>2, <3>1
    <3> QED
      BY <3>2, OnePlaceEach DEF Active
  <2>2. ASSUME Active(t), t # threadIndices[k] PROVE Active(t)'
    <3>1. PICK a \in 1 .. n : threadIndices[a] = t
      BY <2>2 DEF Active
    <3>2. PICK j \in 1 .. n - 1 : old(j) = a
      BY <1>4, <2>2, <3>1
    <3>3. threadIndices'[j] = t
      BY <1>2, <3>1, <3>2
    <3> QED
      BY <3>2, <3>3 DEF Active
  <2> QED
    BY <2>1, <2>2
<1>6. ASSUME NEW j \in 1 .. Len(threadIndices'), NEW l \in 1 .. Len(threadIndices'), j < l
      PROVE  coder[threadIndices'[j]].item < coder[threadIndices'[l]].item
  <2>1. /\ old(j) \in 1 .. n /\ old(l) \in 1 .. n /\ old(j) < old(l)
        /\ threadIndices'[j] = threadIndices[old(j)] /\ threadIndices'[l] = threadIndices[old(l)]
    BY <1>2, <1>3, <1>6
  <2>2. coder[threadIndices[old(j)]].item < coder[threadIndices[old(l)]].item
    BY <2>1 DEF IInv, Order
  <2> QED
    BY <2>1, <2>2
<1> QED
  BY <1>5, <1>6

LEMMA TailRemoves ==
  ASSUME IInv, threadIndices # <<>>, threadIndices' = Tail(threadIndices)
  PROVE  /\ \A t \in Threads : Active(t)' <=> Active(t) /\ t # Head(threadIndices)
         /\ \A j, l \in 1 .. Len(threadIndices') :
              j < l => coder[threadIndices'[j]].item < coder[threadIndices'[l]].item
<1>1. threadIndices \in Seq(Threads) /\ Len(threadIndices) \in Nat /\ 1 \in 1 .. Len(threadIndices)
      /\ Head(threadIndices) = threadIndices[1]
  BY MainFacts, HeadTailProperties
<1>2. /\ threadIndices' \in Seq(Threads) /\ Len(threadIndices') = Len(threadIndices) - 1
      /\ \A j \in 1 .. Len(threadIndices) - 1 : threadIndices'[j] = threadIndices[j + 1]
  BY <1>1, HeadTailProperties
<1>3. PICK k \in 1 .. Len(threadIndices) : k = 1
  BY <1>1
<1>4. \A j \in 1 .. Len(threadIndices) - 1 : threadIndices'[j] = threadIndices[IF j < k THEN j ELSE j + 1]
  BY <1>2, <1>3
<1>5. \A t \in Threads : Active(t)' <=> Active(t) /\ t # threadIndices[k]
  BY <1>2, <1>4, Removal
<1> QED
  BY <1>1, <1>2, <1>3, <1>4, <1>5, Removal

\* A return.
LEMMA OrderLeave ==
  ASSUME IInv, NEW res, res # "running", Leave(res),
         UNCHANGED <<updateItems, refs, threadIndices, coder, out>>
  PROVE  Order' /\ Turns'
<1>1. main' = [main EXCEPT !.result = res] /\ pc'[Main] = "stop" /\ main \in Progress
  BY MainFacts DEF Leave, SetMain, Goto
<1>2. /\ main'.item = main.item /\ main'.mtItem = main.mtItem /\ main'.lastReal = main.lastReal
      /\ main'.result # "running" /\ pc'[Main] \notin {"lock", "getItem", "collect"}
  BY <1>1 DEF Progress
<1> QED
  BY <1>2, OrderSame

LEMMA NotRunning == "running" \notin Faults /\ OK # "running" /\ "write" # "running" /\ "E_FAIL" # "running"
BY ZipAssumption DEF FaultKinds, OK

LEMMA OrderPlain ==
  ASSUME IInv,
         \/ CreateThread \/ GetStreamFails \/ WriteCentralDir \/ Lock \/ GetFreeItem \/ FinalFlush
         \/ HeaderFails \/ (\E t \in Threads : StopWait(t)) \/ Wait_Close \/ FreeBlock(Main)
         \/ ReleaseBlock(Main) \/ CoderFailed
  PROVE  Order' /\ Turns'
<1>0. pc \in [Actors -> Labels] /\ Main \in Actors /\ main \in Progress /\ Main \notin Threads
  BY MainFacts, ConstantTypes
<1>1. CASE CreateThread
  <2>1. CASE Leave("create") /\ "create" \in Faults
    BY <1>1, <2>1, OrderLeave, NotRunning DEF CreateThread, const
  <2>2. CASE UNCHANGED main
    <3>1. pc'[Main] \in {"loop", "create"} \/ Leave("create")
      BY <1>0, <1>1 DEF CreateThread
    <3>2. CASE Leave("create")
      <4>1. main'.result = "create"
        BY <1>0, <3>2 DEF Leave, SetMain, Progress
      <4> QED
        BY <1>1, <3>2, OrderLeave DEF CreateThread, const
    <3>3. CASE pc'[Main] \in {"loop", "create"}
      BY <1>1, <2>2, <3>3, OrderSame DEF CreateThread, const
    <3> QED
      BY <3>1, <3>2, <3>3
  <2> QED
    BY <1>1, <2>1, <2>2 DEF CreateThread
<1>2. CASE GetStreamFails
  BY <1>2, OrderLeave DEF GetStreamFails, const
<1>3. CASE WriteCentralDir
  BY <1>3, OrderLeave, NotRunning DEF WriteCentralDir, const
<1>4. CASE Lock \/ GetFreeItem
  <2>1. /\ pc[Main] \in {"lock", "getItem"} /\ UNCHANGED <<updateItems, refs, threadIndices, coder, out>>
        /\ main'.item = main.item /\ main'.mtItem = main.mtItem /\ main'.lastReal = main.lastReal
        /\ main'.result = main.result
    BY <1>0, <1>4 DEF Lock, GetFreeItem, SetMain, update, const, Progress
  <2>2. main.item \in Pending /\ main.lastReal = main.item
    BY <2>1 DEF IInv, Order
  <2> QED
    BY <2>1, <2>2, OrderSame
<1>5. CASE FinalFlush
  <2>1. /\ UNCHANGED <<updateItems, refs, threadIndices, coder, out>> /\ pc'[Main] = "done"
        /\ main'.item = main.item /\ main'.mtItem = main.mtItem /\ main'.lastReal = main.lastReal
        /\ (main'.result = "running" => main.result = "running")
    BY <1>0, <1>5 DEF FinalFlush, SetMain, Goto, const, Progress
  <2> QED
    BY <2>1, OrderSame
<1>6. CASE HeaderFails
  BY <1>6, OrderLeave DEF HeaderFails, const
<1>7. ASSUME NEW t \in Threads, StopWait(t) PROVE Order' /\ Turns'
  <2>1. /\ UNCHANGED <<updateItems, refs, threadIndices, coder>> /\ pc'[Main] = "join"
        /\ main'.item = main.item /\ main'.mtItem = main.mtItem /\ main'.lastReal = main.lastReal
        /\ main'.result = main.result
    BY <1>0, <1>7 DEF StopWait, SetMain, Goto, const, Progress
  <2>2. \A u \in Threads : out'[u].unlockSent = out[u].unlockSent
                           /\ out'[u].realEvent = out[u].realEvent /\ out'[u].real = out[u].real
    <3>1. out' = [out EXCEPT ![t] = [out[t] EXCEPT !.stopEvent = TRUE]] /\ out \in [Threads -> Stream]
      BY <1>7, MainFacts DEF StopWait, StopWriting, SetOut
    <3> QED
      BY <3>1 DEF Stream
  <2> QED
    BY <2>1, <2>2, OrderSame
<1>8. CASE Wait_Close
  <2>1. pc'[Main] \in {"flush", "stop"}
    BY <1>0, <1>8 DEF Wait_Close, Goto
  <2> QED
    BY <1>8, <2>1, OrderSame DEF Wait_Close, update, const
<1>9. CASE FreeBlock(Main) \/ ReleaseBlock(Main)
  <2>1. pc'[Main] \notin {"lock", "getItem", "collect"}
    <3>1. after[Main] \in {"loop", "write"}
      BY <1>0 DEF IInv, Types, Places
    <3> QED
      BY <1>0, <1>9, <3>1 DEF FreeBlock, ReleaseBlock, Goto
  <2> QED
    BY <1>9, <2>1, OrderSame DEF FreeBlock, ReleaseBlock, update, const
<1>10. CASE CoderFailed
  <2>1. coder[main.ti] \in Coder
    BY <1>10, TheCollected, ItemIsNumber DEF CoderFailed
  <2>2. coder[main.ti].result # "running"
    BY <2>1 DEF Coder
  <2> QED
    BY <1>10, <2>2, OrderLeave DEF CoderFailed, const
<1> QED
  BY <1>1, <1>2, <1>3, <1>4, <1>5, <1>6, <1>7, <1>8, <1>9, <1>10

\* One item more is started.
LEMMA OrderAhead ==
  ASSUME IInv, PassDirect \/ PassAbsent \/ StartThread
  PROVE  Order' /\ Turns'
<1>0. /\ main \in Progress /\ NumItems \in Nat /\ main.item \in 1 .. NumItems + 1
      /\ main.lastReal \in Nat /\ main.mtItem \in 1 .. NumItems /\ main.item <= main.mtItem
      /\ refs \in [1 .. NumItems -> Ref] /\ Len(threadIndices) \in Nat
      /\ pc[Main] = "loop" /\ NumItems' = NumItems /\ updateItems' = updateItems
  BY MainFacts DEF PassDirect, PassAbsent, StartThread, Ahead, const, NumItems
<1>00. main.lastReal <= main.item
  BY MainFacts
<1> DEFINE n == main.mtItem
<1>1. ASSUME NextMtItem
      PROVE  /\ main'.item = main.item /\ main'.mtItem = n + 1 /\ main'.lastReal = main.lastReal
             /\ main'.result = main.result /\ main'.item <= main'.mtItem /\ main'.lastReal <= main'.item
  <2>1. /\ main'.item = main.item /\ main'.mtItem = n + 1 /\ main'.lastReal = main.lastReal
        /\ main'.result = main.result
    BY <1>0, <1>1 DEF NextMtItem, SetMain, Progress
  <2> QED
    BY <1>0, <1>00, <2>1
<1>2. \A i \in 1 .. NumItems : /\ refs[i].skip <=> updateItems[i] = "absent" /\ i < n
                               /\ refs[i].finished => updateItems[i] = "file" /\ i < n
  BY DEF IInv, Order
<1>3. ~refs[n].skip /\ ~refs[n].finished
  BY <1>0, <1>2
<1>4. ASSUME NextMtItem,
             \A i \in 1 .. NumItems : refs'[i].finished = refs[i].finished
                                      /\ (refs'[i].skip <=> (refs[i].skip \/ (i = n /\ updateItems[n] = "absent")))
      PROVE  /\ Pending' = Pending \cup (IF updateItems[n] = "file" THEN {n} ELSE {})
             /\ \A i \in 1 .. NumItems' : /\ refs'[i].skip <=> updateItems'[i] = "absent" /\ i < main'.mtItem
                                          /\ refs'[i].finished => updateItems'[i] = "file" /\ i < main'.mtItem
  <2>1. main'.item = main.item /\ main'.mtItem = n + 1
    BY <1>1, <1>4
  <2>2. Pending' = {i \in main.item .. n : updateItems[i] = "file" /\ ~refs'[i].skip /\ ~refs'[i].finished}
    BY <1>0, <2>1 DEF Pending
  <2>3. \A i \in main.item .. n : i \in 1 .. NumItems /\ (i = n \/ i \in main.item .. n - 1)
    BY <1>0
  <2>4. n \in main.item .. n /\ n \notin Pending /\ \A i \in main.item .. n - 1 : i \in main.item .. n /\ i # n
    BY <1>0 DEF Pending
  <2>5. Pending' = Pending \cup (IF updateItems[n] = "file" THEN {n} ELSE {})
    <3>1. \A i \in Pending' : i \in Pending \cup (IF updateItems[n] = "file" THEN {n} ELSE {})
      BY <1>4, <2>2, <2>3 DEF Pending
    <3>2. \A i \in Pending : i \in Pending'
      <4> TAKE i \in Pending
      <4>1. i \in main.item .. n /\ i # n /\ i \in 1 .. NumItems
        BY <2>3, <2>4 DEF Pending
      <4> QED
        BY <1>4, <2>2, <4>1 DEF Pending
    <3>3. updateItems[n] = "file" => n \in Pending'
      BY <1>0, <1>3, <1>4, <2>2, <2>4
    <3> QED
      BY <3>1, <3>2, <3>3
  <2>6. \A i \in 1 .. NumItems : i < n + 1 <=> i < n \/ i = n
    BY <1>0
  <2>7. \A i \in 1 .. NumItems' : /\ refs'[i].skip <=> updateItems'[i] = "absent" /\ i < main'.mtItem
                                  /\ refs'[i].finished => updateItems'[i] = "file" /\ i < main'.mtItem
    BY <1>0, <1>2, <1>4, <2>1, <2>6
  <2> QED
    BY <2>5, <2>7
<1>5. CASE PassDirect \/ PassAbsent
  <2>1. /\ NextMtItem /\ updateItems[n] # "file" /\ UNCHANGED <<pc, out, coder, threadIndices>>
        /\ \A i \in 1 .. NumItems : refs'[i].finished = refs[i].finished
                                    /\ (refs'[i].skip <=> (refs[i].skip \/ (i = n /\ updateItems[n] = "absent")))
    <3>1. CASE PassDirect
      BY <3>1 DEF PassDirect
    <3>2. CASE PassAbsent
      BY <1>0, <3>2 DEF PassAbsent, Ref
    <3> QED
      BY <1>5, <3>1, <3>2
  <2>2. Pending' = Pending /\ \A u \in Threads : Active(u)' <=> Active(u)
    BY <1>4, <2>1 DEF Active
  <2>3. \A i \in 1 .. NumItems' : /\ refs'[i].skip <=> updateItems'[i] = "absent" /\ i < main'.mtItem
                                  /\ refs'[i].finished => updateItems'[i] = "file" /\ i < main'.mtItem
    BY <1>4, <2>1
  <2>4. Order'
    BY <1>0, <1>1, <2>1, <2>2, <2>3 DEF IInv, Order
  <2>5. Turns'
    BY <1>1, <2>1, <2>2 DEF IInv, Turns
  <2> QED
    BY <2>4, <2>5
<1>6. CASE StartThread
  <2>1. CASE \A t \in Threads : ~isFree[t]
    BY <1>6, <2>1, OrderLeave, NotRunning DEF StartThread, const, info
  <2>2. CASE ~(\A t \in Threads : ~isFree[t])
    <3> DEFINE t == CHOOSE u \in Threads : isFree[u]
    <3>1. t \in Threads /\ isFree[t]
      BY <2>2
    <3>2. /\ out' = [out EXCEPT ![t] = InitStream(out[t])]
          /\ coder' = [coder EXCEPT ![t] = [InitCoder EXCEPT !.item = n]]
          /\ threadIndices' = Append(threadIndices, t)
          /\ NextMtItem /\ UNCHANGED <<pc, refs>> /\ updateItems[n] = "file"
      BY <1>6, <2>2 DEF StartThread, SetOut, SetCoder
    <3> HIDE DEF t
    <3>3. main.result = "running"
      BY <1>0 DEF IInv, Rest, Place, Freeing, Stopping
    <3>4. ~Active(t)
      BY <3>1, <3>3 DEF IInv, Rest
    <3>5. /\ Len(threadIndices') = Len(threadIndices) + 1
          /\ \A j \in 1 .. Len(threadIndices) : threadIndices'[j] = threadIndices[j]
          /\ threadIndices'[Len(threadIndices) + 1] = t
      BY <3>1, <3>2, MainFacts, AppendProperties
    <3>6. \A u \in Threads : Active(u)' <=> Active(u) \/ u = t
      <4>1. Len(threadIndices) \in Nat
        BY MainFacts
      <4>2. ASSUME NEW u \in Threads, Active(u)' PROVE Active(u) \/ u = t
        <5>1. PICK j \in 1 .. Len(threadIndices') : threadIndices'[j] = u
          BY <4>2 DEF Active
        <5>2. CASE j = Len(threadIndices) + 1
          BY <3>5, <5>1, <5>2
        <5>3. CASE j \in 1 .. Len(threadIndices)
          BY <3>5, <5>1, <5>3 DEF Active
        <5> QED
          BY <3>5, <4>1, <5>1, <5>2, <5>3
      <4>3. ASSUME NEW u \in Threads, Active(u) PROVE Active(u)'
        <5>1. PICK j \in 1 .. Len(threadIndices) : threadIndices[j] = u
          BY <4>3 DEF Active
        <5>2. j \in 1 .. Len(threadIndices') /\ threadIndices'[j] = u
          BY <3>5, <4>1, <5>1
        <5> QED
          BY <5>2 DEF Active
      <4>4. ASSUME NEW u \in Threads, u = t PROVE Active(u)'
        <5>1. Len(threadIndices) + 1 \in 1 .. Len(threadIndices')
          BY <3>5, <4>1
        <5> QED
          BY <3>5, <4>4, <5>1 DEF Active
      <4> QED
        BY <4>2, <4>3, <4>4
    <3>7. /\ coder'[t].item = n /\ \A u \in Threads \ {t} : coder'[u] = coder[u] /\ out'[u] = out[u]
          /\ ~out'[t].real /\ ~out'[t].unlockSent /\ ~out'[t].realEvent
      <4>1. out \in [Threads -> Stream] /\ coder \in [Threads -> Coder] /\ out[t] \in Stream
        BY <3>1, MainFacts
      <4>2. ~InitStream(out[t]).real /\ ~InitStream(out[t]).unlockSent /\ ~InitStream(out[t]).realEvent
        BY <4>1 DEF InitStream, Emptied, Stream
      <4>3. [InitCoder EXCEPT !.item = n].item = n
        BY DEF InitCoder
      <4> QED
        BY <3>1, <3>2, <4>1, <4>2, <4>3
    <3>8. Pending' = Pending \cup {n}
          /\ \A i \in 1 .. NumItems' : /\ refs'[i].skip <=> updateItems'[i] = "absent" /\ i < main'.mtItem
                                       /\ refs'[i].finished => updateItems'[i] = "file" /\ i < main'.mtItem
      BY <1>4, <3>2
    <3>9. \A j, l \in 1 .. Len(threadIndices') :
            j < l => coder'[threadIndices'[j]].item < coder'[threadIndices'[l]].item
      <4> SUFFICES ASSUME NEW j \in 1 .. Len(threadIndices'), NEW l \in 1 .. Len(threadIndices'), j < l
                   PROVE  coder'[threadIndices'[j]].item < coder'[threadIndices'[l]].item
        OBVIOUS
      <4>1. j \in 1 .. Len(threadIndices) /\ threadIndices'[j] = threadIndices[j]
            /\ threadIndices[j] \in Threads /\ Active(threadIndices[j])
        BY <1>0, <3>5, MainFacts DEF Active
      <4>2. coder'[threadIndices'[j]] = coder[threadIndices[j]] /\ coder[threadIndices[j]].item \in Pending
        BY <3>4, <3>7, <4>1 DEF IInv, Order
      <4>3. CASE l \in 1 .. Len(threadIndices)
        <5>1. threadIndices[l] \in Threads /\ Active(threadIndices[l])
          BY <4>3, MainFacts DEF Active
        <5>2. coder'[threadIndices'[l]] = coder[threadIndices[l]]
          BY <3>4, <3>5, <3>7, <4>3, <5>1
        <5>3. coder[threadIndices[j]].item < coder[threadIndices[l]].item
          BY <4>1, <4>3 DEF IInv, Order
        <5> QED
          BY <4>2, <5>2, <5>3
      <4>4. CASE l = Len(threadIndices) + 1
        <5>1. coder'[threadIndices'[l]].item = n
          BY <3>5, <3>7, <4>4
        <5>2. coder[threadIndices[j]].item < n
          BY <1>0, <4>2 DEF Pending
        <5> QED
          BY <4>2, <5>1, <5>2
      <4> QED
        BY <1>0, <3>5, <4>3, <4>4
    <3>10. \A u \in Threads : Active(u)' => coder'[u].item \in Pending'
      BY <3>6, <3>7, <3>8 DEF IInv, Order
    <3>11. \A i \in Pending' : \E u \in Threads : Active(u)' /\ coder'[u].item = i
      <4> SUFFICES ASSUME NEW i \in Pending' PROVE \E u \in Threads : Active(u)' /\ coder'[u].item = i
        OBVIOUS
      <4>1. CASE i = n
        BY <3>1, <3>6, <3>7, <4>1
      <4>2. CASE i \in Pending
        <5>1. PICK u \in Threads : Active(u) /\ coder[u].item = i
          BY <3>3, <4>2 DEF IInv, Order
        <5> QED
          BY <3>4, <3>6, <3>7, <5>1
      <4> QED
        BY <3>8, <4>1, <4>2
    <3>12. Order'
      BY <1>0, <1>1, <3>2, <3>8, <3>9, <3>10, <3>11 DEF Order
    <3>13. Turns'
      BY <1>1, <3>2, <3>6, <3>7 DEF IInv, Turns
    <3> QED
      BY <3>12, <3>13
  <2> QED
    BY <2>1, <2>2
<1> QED
  BY <1>5, <1>6

LEMMA OrderTurn ==
  ASSUME IInv, SkipItem \/ WriteDirect \/ WriteFinished
  PROVE  Order' /\ Turns'
<1>0. /\ Turn /\ main.item \in 1 .. NumItems /\ pc[Main] = "loop"
      /\ pc \in [Actors -> Labels] /\ Main \in Actors /\ refs \in [1 .. NumItems -> Ref]
      /\ UNCHANGED <<updateItems, threadIndices, coder, out>>
  BY CurrentStarted, MainFacts DEF SkipItem, WriteDirect, WriteFinished, Turn, const, info
<1>1. main.item \notin Pending
  BY DEF SkipItem, WriteDirect, WriteFinished, Pending
<1>2. CASE SkipItem
  BY <1>0, <1>1, <1>2, OrderNext DEF SkipItem
<1>3. CASE WriteDirect
  <2>1. CASE NextItem /\ UNCHANGED pc
    BY <1>0, <1>1, <1>3, <2>1, OrderNext DEF WriteDirect
  <2>2. CASE Leave("write")
    BY <1>0, <1>3, <2>2, OrderLeave, NotRunning DEF WriteDirect
  <2>3. CASE "direct" \in Faults /\ Leave("direct")
    BY <1>0, <1>3, <2>3, OrderLeave, NotRunning DEF WriteDirect
  <2> QED
    BY <1>3, <2>1, <2>2, <2>3 DEF WriteDirect
<1>4. CASE WriteFinished
  <2>1. CASE NextItem /\ FreeAndGoto(Main, refs[main.item].blocks, "loop")
             /\ refs' = [refs EXCEPT ![main.item].blocks = 0, ![main.item].cells = <<>>]
    <3>1. pc'[Main] \in {"loop", "free"}
      BY <1>0, <2>1 DEF FreeAndGoto, Goto
    <3>2. \A i \in 1 .. NumItems : refs'[i].skip = refs[i].skip /\ refs'[i].finished = refs[i].finished
      BY <1>0, <2>1 DEF Ref
    <3> QED
      BY <1>0, <1>1, <2>1, <3>1, <3>2, OrderNext
  <2>2. CASE Leave("write") /\ UNCHANGED refs
    BY <1>0, <1>4, <2>2, OrderLeave, NotRunning
  <2> QED
    BY <1>4, <2>1, <2>2 DEF WriteFinished
<1> QED
  BY <1>2, <1>3, <1>4

LEMMA OrderOpen ==
  ASSUME IInv, OpenItem
  PROVE  Order' /\ Turns'
<1> DEFINE t == Head(threadIndices)
<1>0. /\ main.item \in Pending /\ main \in Progress /\ main.item \in Nat /\ main.lastReal \in Nat
      /\ main.lastReal <= main.item /\ pc \in [Actors -> Labels] /\ Main \in Actors
      /\ t \in Threads /\ Active(t) /\ coder[t].item = main.item
  BY CurrentPending, CurrentAtHead, MainFacts DEF OpenItem
<1>1. /\ main'.item = main.item /\ main'.mtItem = main.mtItem /\ main'.result = main.result
      /\ main'.lastReal = main.item /\ pc'[Main] = "lock"
  BY <1>0 DEF OpenItem, SetMain, Larger, Goto, Progress
<1>2. UNCHANGED <<updateItems, refs, threadIndices, coder>>
  BY DEF OpenItem, const
<1>3. Order'
  BY <1>0, <1>1, <1>2, OrderSame
<1>4. /\ \A u \in Threads \ {t} : out'[u] = out[u]
      /\ out'[t].real = out[t].real /\ out'[t].unlockSent
  <2>1. CASE out[t].unlockSent
    BY <2>1 DEF OpenItem
  <2>2. CASE ~out[t].unlockSent
    <3>1. out' = [out EXCEPT ![t] = [out[t] EXCEPT !.offset = Len(archive'), !.unlockSent = TRUE,
                                                   !.realEvent = TRUE]]
      BY <2>2 DEF OpenItem, SetRealStreamMode, SetOut
    <3>2. out \in [Threads -> Stream] /\ out[t] \in Stream
      BY <1>0, MainFacts
    <3> QED
      BY <1>0, <3>1, <3>2 DEF Stream
  <2> QED
    BY <2>1, <2>2
<1>5. \A u \in Threads : Active(u)' <=> Active(u)
  BY <1>2 DEF Active
<1> HIDE DEF t
<1>6. \A u \in Threads : out'[u].real \/ out'[u].realEvent => out'[u].unlockSent
  BY <1>4 DEF IInv, Turns
<1>7. \A u \in Threads : Active(u)' /\ out'[u].unlockSent =>
                           coder'[u].item = main'.item /\ main'.lastReal = main'.item
  BY <1>0, <1>1, <1>2, <1>4, <1>5 DEF IInv, Turns
<1> QED
  BY <1>3, <1>6, <1>7 DEF Turns

LEMMA EmptiedStream ==
  ASSUME IInv, NEW t \in Threads, SetOut(t, Emptied(out[t])) \/ UNCHANGED out
  PROVE  \A u \in Threads :
           /\ out'[u].unlockSent = out[u].unlockSent /\ out'[u].realEvent = out[u].realEvent
           /\ out'[u].real = out[u].real /\ out'[u].offset = out[u].offset
           /\ out'[u].stopEvent = out[u].stopEvent /\ (u # t => out'[u] = out[u])
<1>1. out \in [Threads -> Stream] /\ out[t] \in Stream
  BY MainFacts
<1>2. CASE SetOut(t, Emptied(out[t]))
  BY <1>1, <1>2 DEF SetOut, Emptied, Stream
<1> QED
  BY <1>2

LEMMA OrderCollect ==
  ASSUME IInv, CloseItem \/ DetachData
  PROVE  Order' /\ Turns'
<1> DEFINE t == main.ti
<1>0. /\ Collects /\ main \in Progress /\ main.item \in 1 .. NumItems /\ NumItems \in Nat
      /\ t \in Threads /\ Active(t) /\ coder[t].item \in Pending /\ coder[t].item \in 1 .. NumItems
      /\ main.item \in Pending /\ main.lastReal = main.item /\ main.item <= coder[t].item
      /\ main.mtItem \in 1 .. NumItems + 1 /\ refs \in [1 .. NumItems -> Ref]
      /\ pc \in [Actors -> Labels] /\ Main \in Actors /\ main.result = "running"
  BY TheCollected, MainFacts, Zenon DEF CloseItem, DetachData
<1>1. main.item < main.mtItem
  BY <1>0 DEF Pending
<1>2. UNCHANGED <<updateItems, coder>> /\ NumItems' = NumItems
  BY Zenon DEF CloseItem, DetachData, const, NumItems
<1>3. \A u \in Threads : Active(u) /\ u # t => coder[u].item # coder[t].item
  BY <1>0, ItemsDiffer
<1>4. \A u \in Threads :
           /\ out'[u].unlockSent = out[u].unlockSent /\ out'[u].realEvent = out[u].realEvent
           /\ out'[u].real = out[u].real
  <2>1. SetOut(t, Emptied(out[t])) \/ UNCHANGED out
    BY Zenon DEF CloseItem, DetachData
  <2> QED
    BY <1>0, <2>1, EmptiedStream
<1>5. CASE CloseItem
  <2>1. /\ \A u \in Threads : Active(u)' <=> Active(u) /\ u # t
        /\ \A j, l \in 1 .. Len(threadIndices') :
              j < l => coder[threadIndices'[j]].item < coder[threadIndices'[l]].item
    BY <1>5, TailRemoves DEF CloseItem, IsFront
  <2>2. CASE \E res : res # "running" /\ Leave(res)
    <3>1. PICK res : res # "running" /\ Leave(res)
      BY <2>2
    <3>2. /\ main'.item = main.item /\ main'.mtItem = main.mtItem /\ main'.lastReal = main.lastReal
          /\ main'.result # "running" /\ pc'[Main] = "stop" /\ UNCHANGED refs
      BY <1>0, <1>5, <3>1 DEF Leave, SetMain, Goto, CloseItem, Progress
    <3>3. Pending' = Pending
      BY <1>2, <3>2 DEF Pending
    <3>4. Order'
      BY <1>1, <1>2, <2>1, <3>2, <3>3, MainFacts DEF IInv, Order
    <3>5. Turns'
      BY <1>2, <1>4, <2>1, <3>2 DEF IInv, Turns
    <3> QED
      BY <3>4, <3>5
  <2>3. CASE coder[t].item = main.item /\ NextItem /\ FreeAndGoto(Main, out[t].blocks, "loop")
    <3>1. /\ main'.item = main.item + 1 /\ main'.mtItem = main.mtItem /\ main'.lastReal = main.lastReal
          /\ main'.result = main.result /\ UNCHANGED refs
      BY <1>0, <1>5, <2>3 DEF NextItem, SetMain, CloseItem, Progress
    <3>2. pc'[Main] \in {"loop", "free"}
      BY <1>0, <2>3 DEF FreeAndGoto, Goto
    <3>3. Pending' = Pending \ {main.item}
      <4>1. Pending' = {i \in main.item + 1 .. main.mtItem - 1 :
                         updateItems[i] = "file" /\ ~refs[i].skip /\ ~refs[i].finished}
        BY <1>2, <3>1 DEF Pending
      <4> QED
        BY <1>0, <4>1 DEF Pending
    <3>4. \A u \in Threads : Active(u)' => coder'[u].item \in Pending'
      BY <1>2, <1>3, <2>1, <2>3, <3>3 DEF IInv, Order
    <3>5. \A i \in Pending' : \E u \in Threads : Active(u)' /\ coder'[u].item = i
      BY <1>0, <1>2, <2>1, <2>3, <3>3 DEF IInv, Order
    <3>6. main'.item <= main'.mtItem /\ main'.lastReal <= main'.item
      BY <1>0, <1>1, <3>1
    <3>7. Order'
      BY <1>2, <2>1, <3>1, <3>2, <3>4, <3>5, <3>6 DEF IInv, Order
    <3>8. \A u \in Threads : Active(u)' => ~out'[u].unlockSent
      BY <1>3, <1>4, <2>1, <2>3 DEF IInv, Turns
    <3>9. Turns'
      BY <1>4, <3>8 DEF IInv, Turns
    <3> QED
      BY <3>7, <3>9
  <2> QED
    BY <1>5, <2>2, <2>3, NotRunning DEF CloseItem
<1>6. CASE DetachData
  <2>1. PICK k \in 1 .. Len(threadIndices) : threadIndices[k] = t /\ threadIndices' = RemoveAt(threadIndices, k)
    BY <1>6, Zenon DEF DetachData
  <2>2. /\ threadIndices' \in Seq(Threads) /\ Len(threadIndices') = Len(threadIndices) - 1
        /\ \A j \in 1 .. Len(threadIndices) - 1 :
             threadIndices'[j] = threadIndices[IF j < k THEN j ELSE j + 1]
    <3>1. threadIndices \in Seq(Threads)
      BY MainFacts
    <3> QED
      BY <2>1, <3>1, RemoveAtIs
  <2>3. /\ \A u \in Threads : Active(u)' <=> Active(u) /\ u # threadIndices[k]
        /\ \A j, l \in 1 .. Len(threadIndices') :
              j < l => coder[threadIndices'[j]].item < coder[threadIndices'[l]].item
    BY <2>2, Removal
  <2>4. main' = main /\ pc'[Main] \in {"loop", "free"}
    BY <1>0, <1>6, Zenon DEF DetachData, FreeAndGoto, Goto
  <2>5. \A i \in 1 .. NumItems : /\ refs'[i].skip = refs[i].skip
                                 /\ refs'[i].finished <=> refs[i].finished \/ i = coder[t].item
    <3> DEFINE i == coder[t].item
    <3>1. PICK n, z, f, p, q :
            refs' = [refs EXCEPT ![i] = [refs[i] EXCEPT !.finished = TRUE, !.blocks = n, !.size = z,
                                                        !.cells = f, !.pass = p, !.packSize = q]]
      <4> DEFINE new == [refs[i] EXCEPT !.finished = TRUE, !.blocks = Needed(out[t]),
                            !.size = out[t].size,
                            !.cells = First(out[t].cells, Needed(out[t]) * BlockSize),
                            !.pass = coder[t].pass, !.packSize = coder[t].packSize]
      <4>1. refs' = [refs EXCEPT ![i] = new]
        BY <1>0, <1>6, Zenon DEF DetachData
      <4> QED
        BY <4>1, Zenon
    <3>2. refs[i] \in Ref /\ i \in 1 .. NumItems
      BY <1>0
    <3> HIDE DEF i
    <3>3. refs'[i].finished /\ refs'[i].skip = refs[i].skip
          /\ \A j \in 1 .. NumItems : j # i => refs'[j] = refs[j]
      BY <1>0, <3>1, <3>2 DEF Ref
    <3> QED
      BY <3>3 DEF i
  <2>6. Pending' = Pending \ {coder[t].item}
    <3>1. Pending' = {i \in main.item .. main.mtItem - 1 :
                         updateItems[i] = "file" /\ ~refs'[i].skip /\ ~refs'[i].finished}
      BY <1>2, <2>4 DEF Pending
    <3>2. \A i \in main.item .. main.mtItem - 1 : i \in 1 .. NumItems
      BY <1>0
    <3> QED
      BY <2>5, <3>1, <3>2 DEF Pending
  <2>7. main.item # coder[t].item
    <3>1. threadIndices # <<>> /\ (coder[t].item = main.item => t = Head(threadIndices))
      BY <1>0, CurrentAtHead, AtTheHead
    <3> QED
      BY <1>6, <3>1, Zenon DEF DetachData, IsFront
  <2>8. \A u \in Threads : Active(u)' => coder'[u].item \in Pending'
    BY <1>2, <1>3, <2>1, <2>3, <2>6 DEF IInv, Order
  <2>9. \A i \in Pending' : \E u \in Threads : Active(u)' /\ coder'[u].item = i
    BY <1>0, <1>2, <2>1, <2>3, <2>6 DEF IInv, Order
  <2>10. \A i \in 1 .. NumItems : /\ refs'[i].skip <=> updateItems'[i] = "absent" /\ i < main'.mtItem
                                  /\ refs'[i].finished => updateItems'[i] = "file" /\ i < main'.mtItem
    <3>1. updateItems[coder[t].item] = "file" /\ coder[t].item < main.mtItem
      BY <1>0 DEF Pending
    <3> QED
      BY <1>2, <2>4, <2>5, <3>1 DEF IInv, Order
  <2>11. Order'
    BY <1>2, <2>3, <2>4, <2>8, <2>9, <2>10 DEF IInv, Order
  <2>12. Turns'
    BY <1>2, <1>4, <2>3, <2>4 DEF IInv, Turns
  <2> QED
    BY <2>11, <2>12
<1> QED
  BY <1>5, <1>6

LEMMA OrderKept ==
  ASSUME IInv, [Next]_vars
  PROVE  Order' /\ Turns'
<1>1. CASE MainStep
  BY <1>1, OrderPlain, OrderAhead, OrderTurn, OrderOpen, OrderCollect DEF MainStep
<1>2. CASE \E t \in Threads : ThreadStep(t)
  BY <1>2, OrderThread
<1>3. CASE UNCHANGED vars
  <2>1. UNCHANGED <<updateItems, refs, threadIndices, coder, out, main, pc>>
    BY <1>3 DEF vars, const, update
  <2>2. pc'[Main] \in {"lock", "getItem", "collect"} => main.item \in Pending /\ main'.lastReal = main.item
    BY <2>1 DEF IInv, Order
  <2> QED
    BY <2>1, <2>2, OrderSame
<1> QED
  BY <1>1, <1>2, <1>3 DEF Next, Done

-------------------------------------------------------------------------------
(* Who works and who rests.                                                 *)

\* How many of S have the value v in f; one change changes it by one.
Count(S, f, v) == Cardinality({y \in S : f[y] = v})
LEMMA CountChange ==
  ASSUME NEW S, IsFiniteSet(S), NEW f, NEW g, NEW v, NEW x \in S, \A y \in S : y # x => g[y] = f[y]
  PROVE  /\ Count(S, f, v) \in Nat /\ Count(S, g, v) \in Nat
         /\ Count(S, g, v) = Count(S, f, v) - (IF f[x] = v THEN 1 ELSE 0) + (IF g[x] = v THEN 1 ELSE 0)
<1> DEFINE F == {y \in S : f[y] = v}
           G == {y \in S : g[y] = v}
           C == {y \in S \ {x} : f[y] = v}
<1>1. IsFiniteSet(C) /\ Cardinality(C) \in Nat
  BY FS_Subset, FS_CardinalityType
<1>2. x \notin C /\ (F = IF f[x] = v THEN C \cup {x} ELSE C) /\ (G = IF g[x] = v THEN C \cup {x} ELSE C)
  <2>1. F = IF f[x] = v THEN C \cup {x} ELSE C
    OBVIOUS
  <2>2. G = IF g[x] = v THEN C \cup {x} ELSE C
    <3>1. \A y \in S \ {x} : g[y] = f[y]
      OBVIOUS
    <3>2. \A y : y \in G <=> y \in IF g[x] = v THEN C \cup {x} ELSE C
      BY <3>1
    <3> HIDE DEF G, C
    <3> QED
      BY <3>2
  <2> QED
    BY <2>1, <2>2
<1> HIDE DEF F, G, C
<1>3. Cardinality(C \cup {x}) = Cardinality(C) + 1
  BY <1>1, <1>2, FS_AddElement
<1>4. Cardinality(F) = Cardinality(C) + (IF f[x] = v THEN 1 ELSE 0)
  BY <1>1, <1>2, <1>3
<1>5. Cardinality(G) = Cardinality(C) + (IF g[x] = v THEN 1 ELSE 0)
  BY <1>1, <1>2, <1>3
<1>6. /\ Cardinality(F) \in Nat /\ Cardinality(G) \in Nat
      /\ Cardinality(G) = Cardinality(F) - (IF f[x] = v THEN 1 ELSE 0) + (IF g[x] = v THEN 1 ELSE 0)
  BY <1>1, <1>4, <1>5
<1> QED
  BY <1>6 DEF F, G, Count

LEMMA ThreadFrame ==
  ASSUME IInv, NEW t \in Threads, ThreadStep(t)
  PROVE  /\ UNCHANGED <<main, threadIndices, isFree, exitThread, refs, items, updateItems, numBlocks>>
         /\ pc'[Main] = pc[Main] /\ after'[Main] = after[Main] /\ toFree'[Main] = toFree[Main]
         /\ Place(Main)' = Place(Main) /\ NumItems' = NumItems
         /\ \A u \in Threads : /\ u # t => /\ pc'[u] = pc[u] /\ out'[u] = out[u] /\ coder'[u] = coder[u]
                                           /\ compressEvent'[u] = compressEvent[u] /\ after'[u] = after[u]
                               /\ Active(u)' <=> Active(u)
                               /\ out'[u].stopEvent => out[u].stopEvent
<1>1. UNCHANGED <<const, update, isFree, exitThread>> /\ OthersAlone(t) /\ OwnKept(t)
  BY ThreadEffects DEF IInv
<1>2. Main # t /\ Main \in Actors
  BY ConstantTypes DEF Actors
<1>3. \A u \in Threads : u # t => u \in Actors \ {t}
  BY DEF Actors
<1> QED
  BY <1>1, <1>2, <1>3 DEF OthersAlone, OwnKept, const, update, NumItems, Place, Active

\* A step between two places of work.
LEMMA RestInside ==
  ASSUME IInv, NEW t \in Threads, ThreadStep(t), pc[t] \notin Resting, pc'[t] \notin Resting,
         UNCHANGED mtSem
  PROVE  Rest'
<1>1. Active(t) /\ ~Listed(t) /\ ~Collected(t)
  BY AtWork DEF Rests
<1>2. {u \in Threads : pc'[u] = "release"} = {u \in Threads : pc[u] = "release"}
  <2>1. \A u \in Threads : pc'[u] = "release" <=> pc[u] = "release"
    BY ThreadFrame DEF Resting
  <2> QED
    BY <2>1
<1>3. /\ \A u \in Threads : (Listed(u)' <=> Listed(u)) /\ (Collected(u)' <=> Collected(u))
      /\ \A u \in Threads : u # t => (Rests(u)' <=> Rests(u))
  BY ThreadFrame DEF mtSem, Listed, Collected, Rests
<1>4. Rest
  BY DEF IInv
<1>5. /\ main'.result = "running" <=> Place(Main)' \notin Stopping
      /\ main'.result = "running" =>
           \A u \in Threads : (isFree'[u] <=> ~Active(u)') /\ ~exitThread'[u] /\ ~out'[u].stopEvent
  BY <1>4, ThreadFrame DEF Rest
<1>6. \A u \in Threads : ~Active(u)' \/ Listed(u)' \/ Collected(u)' => Rests(u)'
  BY <1>1, <1>3, <1>4, ThreadFrame DEF Rest
<1>7. pc'[Main] = "collect" => WasListed'
  <2>1. main' = main /\ threadIndices' = threadIndices /\ finishedList' = finishedList /\ pc'[Main] = pc[Main]
    BY ThreadFrame DEF mtSem
  <2> QED
    BY <1>4, <2>1 DEF Rest, WasListed, Active, Listed
<1>8. /\ \A u \in Threads : pc'[u] \notin Resting => (compressEvent'[u] => exitThread'[u])
      /\ \A u \in Threads : Listed(u)' => Active(u)'
      /\ \A j, k \in 1 .. Len(finishedList') : finishedList'[j] = finishedList'[k] => j = k
      /\ Len(finishedList') = finishedSem' + Cardinality({u \in Threads : pc'[u] = "release"})
                                + (IF pc'[Main] = "getItem" THEN 1 ELSE 0)
  <2>1. compressEvent'[t] = compressEvent[t]
    BY ThreadStep(t), Zenon DEF ThreadStep, WaitWork, CallWrite, EndCompress, NextMethod,
       CompressFails, WriteReal, WriteBlock, WaitStop, WaitReal, WaitBlock, AllocateBlock,
       WriteToRealStream, ReleaseItem, ReleaseSem, FreeBlock, ReleaseBlock, info, Resting
  <2> QED
    BY <1>2, <1>3, <1>4, <2>1, ThreadFrame, Zenon DEF Rest, mtSem
<1> QED
  BY <1>5, <1>6, <1>7, <1>8 DEF Rest

LEMMA RestThread ==
  ASSUME IInv, NEW t \in Threads, ThreadStep(t)
  PROVE  Rest'
<1>00. IsFiniteSet(Threads)
  BY ConstantTypes
<1>0. /\ pc \in [Actors -> Labels] /\ t \in Actors /\ Rest /\ after[t] \in {"loop", "write"}
      /\ finishedList \in Seq(Threads) /\ Len(finishedList) \in Nat /\ finishedSem \in Nat
      /\ compressEvent \in [Threads -> BOOLEAN] /\ IsFiniteSet(Threads)
  BY ConstantTypes DEF IInv, Types, Places, ThreadTypes, Actors
<1>1. CASE WaitWork(t)
  <2>1. /\ pc[t] = "idle" /\ compressEvent[t] /\ UNCHANGED <<finishedList, finishedSem>>
        /\ pc'[t] = (IF exitThread[t] THEN "exited" ELSE "code") /\ ~compressEvent'[t]
    BY <1>0, <1>1 DEF WaitWork, Goto, mtSem
  <2>2. Rests(t) => Rests(t)'
    BY <2>1, ThreadFrame DEF Rests, Resting
  <2>3. {u \in Threads : pc'[u] = "release"} = {u \in Threads : pc[u] = "release"}
    <3>1. \A u \in Threads : pc'[u] = "release" <=> pc[u] = "release"
      BY <2>1, ThreadFrame
    <3> QED
      BY <3>1
  <2>4. /\ \A u \in Threads : (Listed(u)' <=> Listed(u)) /\ (Collected(u)' <=> Collected(u))
        /\ \A u \in Threads : Rests(u) => Rests(u)'
    BY <2>1, <2>2, ThreadFrame DEF Listed, Collected, Rests
  <2>5. /\ main'.result = "running" <=> Place(Main)' \notin Stopping
        /\ main'.result = "running" =>
             \A u \in Threads : (isFree'[u] <=> ~Active(u)') /\ ~exitThread'[u] /\ ~out'[u].stopEvent
    BY <1>0, ThreadFrame DEF Rest
  <2>6. \A u \in Threads : ~Active(u)' \/ Listed(u)' \/ Collected(u)' => Rests(u)'
    BY <1>0, <2>4, ThreadFrame DEF Rest
  <2>7. pc'[Main] = "collect" => WasListed'
    <3>1. main' = main /\ threadIndices' = threadIndices /\ finishedList' = finishedList /\ pc'[Main] = pc[Main]
      BY <2>1, ThreadFrame
    <3> QED
      BY <1>0, <3>1 DEF Rest, WasListed, Active, Listed
  <2>8. /\ \A u \in Threads : pc'[u] \notin Resting => (compressEvent'[u] => exitThread'[u])
        /\ \A u \in Threads : Listed(u)' => Active(u)'
        /\ \A j, k \in 1 .. Len(finishedList') : finishedList'[j] = finishedList'[k] => j = k
        /\ Len(finishedList') = finishedSem' + Cardinality({u \in Threads : pc'[u] = "release"})
                                  + (IF pc'[Main] = "getItem" THEN 1 ELSE 0)
    <3>1. \A u \in Threads : pc'[u] \notin Resting => (compressEvent'[u] => exitThread'[u])
      <4>1. exitThread' = exitThread
        BY ThreadFrame
      <4>2. ASSUME NEW u \in Threads, u # t
            PROVE  pc'[u] = pc[u] /\ compressEvent'[u] = compressEvent[u]
        BY <4>2, ThreadFrame
      <4> QED
        BY <1>0, <2>1, <4>1, <4>2 DEF Rest
    <3>2. \A u \in Threads : Listed(u)' => Active(u)'
      BY <1>0, <2>4, ThreadFrame DEF Rest
    <3>3. \A j, k \in 1 .. Len(finishedList') : finishedList'[j] = finishedList'[k] => j = k
      BY <1>0, <2>1 DEF Rest
    <3>4. Len(finishedList') = finishedSem' + Cardinality({u \in Threads : pc'[u] = "release"})
                                + (IF pc'[Main] = "getItem" THEN 1 ELSE 0)
      <4>1. pc'[Main] = pc[Main]
        BY ThreadFrame
      <4> QED
        BY <1>0, <2>1, <2>3, <4>1 DEF Rest
    <3> QED
      BY <3>1, <3>2, <3>3, <3>4
  <2> QED
    BY <2>5, <2>6, <2>7, <2>8 DEF Rest
<1>2. CASE ReleaseItem(t)
  <2>1. /\ pc[t] = "finish" /\ finishedList' = <<t>> \o finishedList /\ pc'[t] = "release"
        /\ UNCHANGED <<finishedSem, compressEvent>>
    BY <1>0, <1>2 DEF ReleaseItem, Goto, info
  <2>2. Active(t) /\ ~Listed(t) /\ ~Collected(t)
    BY <2>1, AtWork DEF Rests, Resting
  <2>3. /\ Len(finishedList') = Len(finishedList) + 1 /\ finishedList'[1] = t
        /\ \A j \in 2 .. Len(finishedList) + 1 : finishedList'[j] = finishedList[j - 1]
    <3>1. <<t>> \in Seq(Threads) /\ Len(<<t>>) = 1 /\ <<t>>[1] = t
      OBVIOUS
    <3> QED
      BY <1>0, <2>1, <3>1, ConcatProperties
  <2>4. \A u \in Threads : Listed(u)' <=> Listed(u) \/ u = t
    <3> SUFFICES ASSUME NEW u \in Threads PROVE Listed(u)' <=> Listed(u) \/ u = t
      OBVIOUS
    <3>1. ASSUME Listed(u)', u # t PROVE Listed(u)
      <4>1. PICK j \in 1 .. Len(finishedList) + 1 : finishedList'[j] = u
        BY <2>3, <3>1 DEF Listed
      <4>2. j - 1 \in 1 .. Len(finishedList) /\ finishedList[j - 1] = u
        BY <1>0, <2>3, <3>1, <4>1
      <4> QED
        BY <4>2 DEF Listed
    <3>2. ASSUME Listed(u) PROVE Listed(u)'
      <4>1. PICK j \in 1 .. Len(finishedList) : finishedList[j] = u
        BY <3>2 DEF Listed
      <4>2. j + 1 \in 1 .. Len(finishedList') /\ finishedList'[j + 1] = u
        BY <1>0, <2>3, <4>1
      <4> QED
        BY <4>2 DEF Listed
    <3>3. Listed(t)'
      <4>1. 1 \in 1 .. Len(finishedList')
        BY <1>0, <2>3
      <4> QED
        BY <2>3, <4>1 DEF Listed
    <3> QED
      BY <3>1, <3>2, <3>3
  <2>5. /\ compressEvent[t] => exitThread[t]
        /\ \A u \in Threads : Collected(u)' <=> Collected(u)
        /\ \A u \in Threads : u # t => (Rests(u)' <=> Rests(u))
    <3>1. compressEvent[t] => exitThread[t]
      BY <1>0, <2>1 DEF Rest, Resting
    <3> QED
      BY <2>1, <3>1, ThreadFrame DEF Collected, Rests
  <2>6. Cardinality({u \in Threads : pc[u] = "release"}) \in Nat
        /\ Cardinality({u \in Threads : pc'[u] = "release"}) = Cardinality({u \in Threads : pc[u] = "release"}) + 1
    <3>1. \A u \in Threads : u # t => pc'[u] = pc[u]
      BY ThreadFrame
    <3>2. PICK f, g : f = pc /\ g = pc'
      OBVIOUS
    <3>3. \A y \in Threads : y # t => g[y] = f[y]
      BY <3>1, <3>2
    <3>4. /\ Count(Threads, f, "release") \in Nat
          /\ Count(Threads, g, "release") =
               Count(Threads, f, "release") - (IF f[t] = "release" THEN 1 ELSE 0)
                 + (IF g[t] = "release" THEN 1 ELSE 0)
      BY <1>00, <3>3, CountChange
    <3> QED
      BY <2>1, <3>2, <3>4 DEF Count
  <2>7. \A j, k \in 1 .. Len(finishedList') : finishedList'[j] = finishedList'[k] => j = k
    <3> SUFFICES ASSUME NEW j \in 1 .. Len(finishedList'), NEW k \in 1 .. Len(finishedList'),
                        finishedList'[j] = finishedList'[k]
                 PROVE  j = k
      OBVIOUS
    <3>1. \A l \in 2 .. Len(finishedList) + 1 :
            l - 1 \in 1 .. Len(finishedList) /\ finishedList'[l] = finishedList[l - 1] /\ finishedList'[l] # t
      <4> TAKE l \in 2 .. Len(finishedList) + 1
      <4>1. l - 1 \in 1 .. Len(finishedList) /\ finishedList'[l] = finishedList[l - 1]
        BY <1>0, <2>3
      <4> QED
        BY <2>2, <4>1 DEF Listed
    <3>2. CASE j = 1
      BY <1>0, <2>3, <3>1, <3>2
    <3>3. CASE k = 1
      BY <1>0, <2>3, <3>1, <3>3
    <3>4. CASE j # 1 /\ k # 1
      <4>1. j \in 2 .. Len(finishedList) + 1 /\ k \in 2 .. Len(finishedList) + 1
        BY <1>0, <2>3, <3>4
      <4>2. j - 1 \in 1 .. Len(finishedList) /\ k - 1 \in 1 .. Len(finishedList)
            /\ finishedList[j - 1] = finishedList[k - 1]
        BY <3>1, <4>1
      <4>3. j - 1 = k - 1
        BY <1>0, <4>2 DEF Rest
      <4> QED
        BY <1>0, <4>1, <4>3
    <3> QED
      BY <3>2, <3>3, <3>4
  <2>8. Rests(t)'
    BY <2>1, <2>5, ThreadFrame DEF Rests, Resting
  <2>9. /\ main'.result = "running" <=> Place(Main)' \notin Stopping
        /\ main'.result = "running" =>
             \A u \in Threads : (isFree'[u] <=> ~Active(u)') /\ ~exitThread'[u] /\ ~out'[u].stopEvent
    BY <1>0, ThreadFrame DEF Rest
  <2>10. /\ \A u \in Threads : ~Active(u)' \/ Listed(u)' \/ Collected(u)' => Rests(u)'
         /\ \A u \in Threads : Listed(u)' => Active(u)'
    BY <1>0, <2>2, <2>4, <2>5, <2>8, ThreadFrame DEF Rest
  <2>11. pc'[Main] = "collect" => WasListed'
    <3>1. main' = main /\ threadIndices' = threadIndices /\ pc'[Main] = pc[Main]
      BY ThreadFrame
    <3>2. ASSUME pc[Main] = "collect"
          PROVE  main.ti \in Threads /\ Active(main.ti) /\ ~Listed(main.ti) /\ main.ti # t
      BY <1>0, <2>2, <3>2 DEF Rest, WasListed, Collected
    <3>3. ASSUME pc[Main] = "collect" PROVE \A k \in 1 .. Len(finishedList') : finishedList'[k] # main.ti
      BY <2>4, <3>2, <3>3 DEF Listed
    <3> QED
      BY <3>1, <3>2, <3>3 DEF WasListed, Active, Listed
  <2>12. \A u \in Threads : pc'[u] \notin Resting => (compressEvent'[u] => exitThread'[u])
    BY <1>0, <2>1, ThreadFrame DEF Rest, Resting
  <2>13. Len(finishedList') = finishedSem' + Cardinality({u \in Threads : pc'[u] = "release"})
                                + (IF pc'[Main] = "getItem" THEN 1 ELSE 0)
    BY <1>0, <2>1, <2>3, <2>6, ThreadFrame DEF Rest
  <2> QED
    BY <2>7, <2>9, <2>10, <2>11, <2>12, <2>13 DEF Rest
<1>3. CASE ReleaseSem(t)
  <2>1. /\ pc[t] = "release" /\ finishedList' = finishedList /\ finishedSem' = finishedSem + 1
        /\ pc'[t] = "idle" /\ UNCHANGED compressEvent
    BY <1>0, <1>3 DEF ReleaseSem, Goto, info
  <2>2. /\ \A u \in Threads : (Listed(u)' <=> Listed(u)) /\ (Collected(u)' <=> Collected(u))
        /\ \A u \in Threads : Rests(u) => Rests(u)'
    BY <2>1, ThreadFrame DEF Listed, Collected, Rests, Resting
  <2>3. Cardinality({u \in Threads : pc[u] = "release"}) \in Nat
        /\ Cardinality({u \in Threads : pc'[u] = "release"}) = Cardinality({u \in Threads : pc[u] = "release"}) - 1
    <3>1. \A u \in Threads : u # t => pc'[u] = pc[u]
      BY ThreadFrame
    <3>2. PICK f, g : f = pc /\ g = pc'
      OBVIOUS
    <3>3. \A y \in Threads : y # t => g[y] = f[y]
      BY <3>1, <3>2
    <3>4. /\ Count(Threads, f, "release") \in Nat
          /\ Count(Threads, g, "release") =
               Count(Threads, f, "release") - (IF f[t] = "release" THEN 1 ELSE 0)
                 + (IF g[t] = "release" THEN 1 ELSE 0)
      BY <1>00, <3>3, CountChange
    <3> QED
      BY <2>1, <3>2, <3>4 DEF Count
  <2>5. /\ main'.result = "running" <=> Place(Main)' \notin Stopping
        /\ main'.result = "running" =>
             \A u \in Threads : (isFree'[u] <=> ~Active(u)') /\ ~exitThread'[u] /\ ~out'[u].stopEvent
    BY <1>0, ThreadFrame DEF Rest
  <2>6. \A u \in Threads : ~Active(u)' \/ Listed(u)' \/ Collected(u)' => Rests(u)'
    BY <1>0, <2>2, ThreadFrame DEF Rest
  <2>7. pc'[Main] = "collect" => WasListed'
    <3>1. main' = main /\ threadIndices' = threadIndices /\ finishedList' = finishedList /\ pc'[Main] = pc[Main]
      BY <2>1, ThreadFrame
    <3> QED
      BY <1>0, <3>1 DEF Rest, WasListed, Active, Listed
  <2>8. /\ \A u \in Threads : pc'[u] \notin Resting => (compressEvent'[u] => exitThread'[u])
        /\ \A u \in Threads : Listed(u)' => Active(u)'
        /\ \A j, k \in 1 .. Len(finishedList') : finishedList'[j] = finishedList'[k] => j = k
    BY <1>0, <2>1, <2>2, ThreadFrame DEF Rest, Resting
  <2>9. Len(finishedList') = finishedSem' + Cardinality({u \in Threads : pc'[u] = "release"})
                               + (IF pc'[Main] = "getItem" THEN 1 ELSE 0)
    BY <1>0, <2>1, <2>3, ThreadFrame DEF Rest
  <2> QED
    BY <2>5, <2>6, <2>7, <2>8, <2>9 DEF Rest
<1>4. CASE \/ CallWrite(t) \/ EndCompress(t) \/ NextMethod(t) \/ CompressFails(t) \/ WriteReal(t)
           \/ WriteBlock(t) \/ WaitStop(t) \/ WaitReal(t) \/ WaitBlock(t) \/ AllocateBlock(t)
           \/ WriteToRealStream(t) \/ FreeBlock(t) \/ ReleaseBlock(t)
  <2>1. pc[t] \notin Resting
    BY <1>4, Zenon DEF CallWrite, EndCompress, NextMethod, CompressFails, WriteReal, WriteBlock, WaitStop,
       WaitReal, WaitBlock, Waits, AllocateBlock, WriteToRealStream, FreeBlock, ReleaseBlock, Resting
  <2>2. pc[t] \in Freeing => after[t] = "write"
    BY PlaceOfThread DEF IInv
  <2>3. pc'[t] \notin Resting
    BY <1>0, <1>4, <2>1, <2>2, Zenon DEF CallWrite, EndCompress, NextMethod, CompressFails, WriteReal, WriteBlock,
       WaitStop, WaitReal, WaitBlock, Waits, AllocateBlock, WriteToRealStream, FreeBlock, ReleaseBlock, Resting,
       Goto, Return, FreeAndGoto, Freeing
  <2>4. UNCHANGED mtSem
    BY <1>4 DEF CallWrite, EndCompress, NextMethod, CompressFails, WriteReal, WriteBlock, WaitStop,
       WaitReal, WaitBlock, AllocateBlock, WriteToRealStream, FreeBlock, ReleaseBlock
  <2> QED
    BY <2>1, <2>3, <2>4, RestInside
<1> QED
  BY <1>1, <1>2, <1>3, <1>4 DEF ThreadStep

\* A step of the main thread that takes no thread to work and none from the list.
LEMMA RestMove ==
  ASSUME IInv, UNCHANGED mtSem,
         \A t \in Threads : /\ pc'[t] \in Resting <=> pc[t] \in Resting
                            /\ pc'[t] = "release" <=> pc[t] = "release"
                            /\ (compressEvent[t] => exitThread[t]) => (compressEvent'[t] => exitThread'[t])
                            /\ Active(t)' => Active(t)
                            /\ Active(t) => Active(t)' \/ Collected(t),
         main'.result = "running" <=> Place(Main)' \notin Stopping,
         main'.result = "running" =>
           \A t \in Threads : (isFree'[t] <=> ~Active(t)') /\ ~exitThread'[t] /\ ~out'[t].stopEvent,
         pc'[Main] \notin {"collect", "getItem"}, pc[Main] # "getItem"
  PROVE  Rest'
<1>0. Rest
  BY DEF IInv
<1>1. {u \in Threads : pc'[u] = "release"} = {u \in Threads : pc[u] = "release"}
  OBVIOUS
<1>2. \A u \in Threads : (Listed(u)' <=> Listed(u)) /\ ~Collected(u)' /\ (Rests(u) => Rests(u)')
  BY DEF Listed, Collected, Rests, mtSem
<1>3. \A u \in Threads : ~Active(u)' \/ Listed(u)' \/ Collected(u)' => Rests(u)'
  BY <1>0, <1>2 DEF Rest
<1>4. \A u \in Threads : pc'[u] \notin Resting => (compressEvent'[u] => exitThread'[u])
  BY <1>0 DEF Rest
<1>5. \A u \in Threads : Listed(u)' => Active(u)'
  BY <1>0, <1>2 DEF Rest, Collected, WasListed
<1>6. /\ \A j, k \in 1 .. Len(finishedList') : finishedList'[j] = finishedList'[k] => j = k
      /\ Len(finishedList') = finishedSem' + Cardinality({u \in Threads : pc'[u] = "release"})
                                + (IF pc'[Main] = "getItem" THEN 1 ELSE 0)
  BY <1>0, <1>1 DEF Rest, mtSem
<1> QED
  BY <1>3, <1>4, <1>5, <1>6 DEF Rest

\* The same, when the threads stay as they are.
LEMMA RestStay ==
  ASSUME IInv, UNCHANGED <<mtSem, compressEvent, exitThread, threadIndices>>,
         \A t \in Threads : pc'[t] = pc[t],
         main'.result = "running" <=> Place(Main)' \notin Stopping,
         main'.result = "running" =>
           main.result = "running" /\ isFree' = isFree /\ \A t \in Threads : out'[t].stopEvent = out[t].stopEvent,
         pc'[Main] \notin {"collect", "getItem"}, pc[Main] # "getItem"
  PROVE  Rest'
<1>1. \A t \in Threads : Active(t)' <=> Active(t)
  BY DEF Active
<1>2. main'.result = "running" =>
        \A t \in Threads : (isFree'[t] <=> ~Active(t)') /\ ~exitThread'[t] /\ ~out'[t].stopEvent
  BY <1>1 DEF IInv, Rest
<1> QED
  BY <1>1, <1>2, RestMove

LEMMA RestLeave ==
  ASSUME IInv, NEW res, res # "running", Leave(res), pc[Main] # "getItem",
         UNCHANGED <<mtSem, compressEvent, exitThread, threadIndices>>
  PROVE  Rest'
<1>0. pc \in [Actors -> Labels] /\ Main \in Actors /\ main \in Progress /\ Main \notin Threads
  BY MainFacts, ConstantTypes
<1>1. /\ main'.result # "running" /\ pc'[Main] = "stop" /\ \A t \in Threads : pc'[t] = pc[t]
  BY <1>0 DEF Leave, SetMain, Goto, Progress, Actors
<1>2. Place(Main)' \in Stopping
  BY <1>1 DEF Place, Stopping, Freeing
<1> QED
  BY <1>1, <1>2, RestStay

\* The main thread goes on.
LEMMA RestOn ==
  ASSUME IInv, UNCHANGED <<mtSem, info, threadIndices>>, main'.result = main.result,
         \A t \in Threads : pc'[t] = pc[t] /\ out'[t].stopEvent = out[t].stopEvent,
         Place(Main) \notin Stopping, Place(Main)' \notin Stopping,
         pc'[Main] \notin {"collect", "getItem"}, pc[Main] # "getItem"
  PROVE  Rest'
<1>1. main.result = "running"
  BY DEF IInv, Rest
<1> QED
  BY <1>1, RestStay DEF info

LEMMA RestStart ==
  ASSUME IInv, CreateThread \/ PassDirect \/ PassAbsent \/ GetStreamFails \/ SkipItem
               \/ WriteDirect \/ WriteFinished \/ OpenItem \/ HeaderFails \/ WriteCentralDir
  PROVE  Rest'
<1>0. pc \in [Actors -> Labels] /\ Main \in Actors /\ main \in Progress /\ Main \notin Threads
      /\ pc[Main] \in {"create", "loop"} /\ Place(Main) \notin Stopping /\ main.result = "running"
      /\ out \in [Threads -> Stream]
  <2>1. pc[Main] \in {"create", "loop"}
    BY DEF CreateThread, PassDirect, PassAbsent, GetStreamFails, Ahead, SkipItem, WriteDirect,
       WriteFinished, OpenItem, HeaderFails, NotFinished, Turn, WriteCentralDir
  <2> QED
    BY <2>1, MainFacts, ConstantTypes DEF Place, Freeing, Stopping, IInv, Rest
<1>1. CASE CreateThread
  <2>1. CASE Leave("create")
    <3>1. "create" # "running"
      OBVIOUS
    <3> QED
      BY <1>0, <1>1, <2>1, <3>1, RestLeave DEF CreateThread, info
  <2>2. CASE ~Leave("create")
    <3>1. PICK t \in Threads :
            /\ pc[t] = "none" /\ main' = main
            /\ pc' = [pc EXCEPT ![t] = "idle", ![Main] = IF \A u \in Threads \ {t} : pc[u] # "none"
                                                          THEN "loop" ELSE "create"]
      BY <1>1, <2>2 DEF CreateThread
    <3>2. /\ pc'[t] = "idle" /\ pc'[Main] \in {"loop", "create"}
          /\ \A u \in Threads : u # t => pc'[u] = pc[u]
      BY <1>0, <3>1 DEF Actors
    <3>3. Place(Main)' \notin Stopping
      BY <3>2 DEF Place, Freeing, Stopping
    <3>4. \A u \in Threads : Active(u)' <=> Active(u)
      BY <1>1 DEF CreateThread, Active
    <3>5. \A u \in Threads : /\ pc'[u] \in Resting <=> pc[u] \in Resting
                             /\ pc'[u] = "release" <=> pc[u] = "release"
      BY <3>1, <3>2 DEF Resting
    <3>6. \A u \in Threads : (isFree'[u] <=> ~Active(u)') /\ ~exitThread'[u] /\ ~out'[u].stopEvent
      BY <1>0, <1>1, <3>4 DEF CreateThread, info, IInv, Rest
    <3> QED
      BY <1>0, <1>1, <3>1, <3>2, <3>3, <3>4, <3>5, <3>6, RestMove DEF CreateThread, info
  <2> QED
    BY <2>1, <2>2
<1>2. CASE PassDirect \/ PassAbsent \/ SkipItem
  <2>1. main'.result = main.result /\ pc' = pc
    BY <1>0, <1>2 DEF PassDirect, PassAbsent, SkipItem, NextMtItem, NextItem, SetMain, Progress
  <2>2. Place(Main)' \notin Stopping
    BY <1>0, <2>1 DEF Place, Freeing, Stopping
  <2> QED
    BY <1>0, <1>2, <2>1, <2>2, RestOn DEF PassDirect, PassAbsent, SkipItem
<1>3. CASE GetStreamFails \/ HeaderFails
  <2>1. \E res : res # "running" /\ Leave(res)
    BY <1>3, NotRunning DEF GetStreamFails, HeaderFails
  <2> QED
    BY <1>0, <1>3, <2>1, RestLeave DEF GetStreamFails, HeaderFails, info
<1>4. CASE WriteCentralDir
  <2>1. \E res : res # "running" /\ Leave(res)
    BY <1>4, NotRunning DEF WriteCentralDir
  <2> QED
    BY <1>0, <1>4, <2>1, RestLeave DEF WriteCentralDir, info
<1>5. CASE WriteDirect
  <2>1. CASE NextItem /\ UNCHANGED pc
    <3>1. main'.result = main.result /\ pc' = pc
      BY <1>0, <2>1 DEF NextItem, SetMain, Progress
    <3>2. Place(Main)' \notin Stopping
      BY <1>0, <3>1 DEF Place, Freeing, Stopping
    <3> QED
      BY <1>0, <1>5, <3>1, <3>2, RestOn DEF WriteDirect
  <2>2. CASE \E res : res # "running" /\ Leave(res)
    BY <1>0, <1>5, <2>2, RestLeave DEF WriteDirect, info
  <2> QED
    BY <1>5, <2>1, <2>2, NotRunning DEF WriteDirect
<1>6. CASE WriteFinished
  <2>1. CASE NextItem /\ FreeAndGoto(Main, refs[main.item].blocks, "loop")
    <3>1. main'.result = main.result /\ pc'[Main] \in {"loop", "free"} /\ (pc'[Main] = "free" => after'[Main] = "loop")
          /\ \A t \in Threads : pc'[t] = pc[t]
      <4>1. after \in [Actors -> {"loop", "write"}]
        BY DEF IInv, Types, Places
      <4> QED
        BY <1>0, <2>1, <4>1 DEF NextItem, SetMain, Progress, FreeAndGoto, Goto, Actors
    <3>2. Place(Main)' \notin Stopping
      BY <3>1 DEF Place, Freeing, Stopping
    <3> QED
      BY <1>0, <1>6, <3>1, <3>2, RestOn DEF WriteFinished
  <2>2. CASE Leave("write")
    BY <1>0, <1>6, <2>2, RestLeave, NotRunning DEF WriteFinished, info
  <2> QED
    BY <1>6, <2>1, <2>2 DEF WriteFinished
<1>7. CASE OpenItem
  <2>1. main'.result = main.result /\ pc'[Main] = "lock" /\ \A t \in Threads : pc'[t] = pc[t]
    BY <1>0, <1>7 DEF OpenItem, SetMain, Goto, Progress, Actors
  <2>2. Place(Main)' \notin Stopping
    BY <2>1 DEF Place, Freeing, Stopping
  <2>3. \A t \in Threads : out'[t].stopEvent = out[t].stopEvent
    <3> DEFINE t == Head(threadIndices)
    <3>1. CASE out[t].unlockSent
      BY <1>7, <3>1 DEF OpenItem
    <3>2. CASE ~out[t].unlockSent
      <4>1. out' = [out EXCEPT ![t] = [out[t] EXCEPT !.offset = Len(archive'), !.unlockSent = TRUE,
                                                     !.realEvent = TRUE]]
        BY <1>7, <3>2 DEF OpenItem, SetRealStreamMode, SetOut
      <4>2. t \in Threads
        BY <1>7, CurrentPending, CurrentAtHead DEF OpenItem
      <4> QED
        BY <1>0, <4>1, <4>2 DEF Stream
    <3> QED
      BY <3>1, <3>2
  <2> QED
    BY <1>0, <1>7, <2>1, <2>2, <2>3, RestOn DEF OpenItem
<1> QED
  BY <1>1, <1>2, <1>3, <1>4, <1>5, <1>6, <1>7

\* A thread is taken to work.
LEMMA RestAhead ==
  ASSUME IInv, StartThread
  PROVE  Rest'
<1>0. pc \in [Actors -> Labels] /\ Main \in Actors /\ main \in Progress /\ Main \notin Threads
      /\ pc[Main] = "loop" /\ main.result = "running" /\ Rest
      /\ out \in [Threads -> Stream] /\ Len(threadIndices) \in Nat
      /\ compressEvent \in [Threads -> BOOLEAN] /\ isFree \in [Threads -> BOOLEAN]
  BY MainFacts, ConstantTypes
     DEF StartThread, Ahead, Place, Freeing, Stopping, IInv, Rest, Types, ThreadTypes
<1>1. CASE \A t \in Threads : ~isFree[t]
  BY <1>0, <1>1, RestLeave, NotRunning DEF StartThread, info
<1>2. CASE \E t \in Threads : isFree[t]
  <2> DEFINE t == CHOOSE u \in Threads : isFree[u]
  <2>1. t \in Threads /\ isFree[t]
    BY <1>2
  <2>2. /\ isFree' = [isFree EXCEPT ![t] = FALSE] /\ compressEvent' = [compressEvent EXCEPT ![t] = TRUE]
        /\ out' = [out EXCEPT ![t] = InitStream(out[t])] /\ threadIndices' = Append(threadIndices, t)
        /\ NextMtItem /\ UNCHANGED <<pc, exitThread, mtSem>>
    BY <1>2 DEF StartThread, SetOut
  <2> HIDE DEF t
  <2>3. main'.result = "running"
    BY <1>0, <2>2 DEF NextMtItem, SetMain, Progress
  <2>4. ~Active(t) /\ ~Listed(t) /\ ~Collected(t) /\ pc[t] \in Resting
    BY <1>0, <2>1 DEF Rest, Collected, Rests
  <2>5. /\ Len(threadIndices') = Len(threadIndices) + 1
        /\ \A j \in 1 .. Len(threadIndices) : threadIndices'[j] = threadIndices[j]
        /\ threadIndices'[Len(threadIndices) + 1] = t
    BY <2>1, <2>2, MainFacts, AppendProperties
  <2>6. \A u \in Threads : Active(u)' <=> Active(u) \/ u = t
    BY <1>0, <2>5 DEF Active
  <2>7. \A u \in Threads : u # t => isFree'[u] = isFree[u] /\ compressEvent'[u] = compressEvent[u]
    BY <2>2
  <2>8. ~isFree'[t] /\ compressEvent'[t]
    BY <1>0, <2>1, <2>2
  <2>9. \A u \in Threads : out'[u].stopEvent = out[u].stopEvent
    BY <1>0, <2>1, <2>2 DEF InitStream, Emptied, Stream
  <2>10. \A u \in Threads : /\ Listed(u)' <=> Listed(u)
                            /\ ~Collected(u)'
                            /\ u # t => (Rests(u)' <=> Rests(u))
    BY <1>0, <2>2, <2>7 DEF Listed, Collected, Rests, mtSem
  <2>15. Place(Main)' \notin Stopping
    BY <1>0, <2>2 DEF Place, Stopping, Freeing
  <2>11. /\ main'.result = "running" <=> Place(Main)' \notin Stopping
         /\ main'.result = "running" =>
              \A u \in Threads : (isFree'[u] <=> ~Active(u)') /\ ~exitThread'[u] /\ ~out'[u].stopEvent
    BY <1>0, <2>2, <2>3, <2>6, <2>7, <2>8, <2>9, <2>15 DEF Rest
  <2>12. /\ \A u \in Threads : ~Active(u)' \/ Listed(u)' \/ Collected(u)' => Rests(u)'
         /\ \A u \in Threads : Listed(u)' => Active(u)'
    BY <1>0, <2>4, <2>6, <2>10 DEF Rest
  <2>13. \A u \in Threads : pc'[u] \notin Resting => (compressEvent'[u] => exitThread'[u])
    BY <1>0, <2>2, <2>4, <2>7 DEF Rest
  <2>14. /\ pc'[Main] # "collect"
         /\ \A j, k \in 1 .. Len(finishedList') : finishedList'[j] = finishedList'[k] => j = k
         /\ Len(finishedList') = finishedSem' + Cardinality({u \in Threads : pc'[u] = "release"})
                                   + (IF pc'[Main] = "getItem" THEN 1 ELSE 0)
    BY <1>0, <2>2 DEF Rest, mtSem
  <2> QED
    BY <2>11, <2>12, <2>13, <2>14 DEF Rest
<1> QED
  BY <1>1, <1>2

LEMMA RestLock ==
  ASSUME IInv, Lock
  PROVE  Rest'
<1>0. pc \in [Actors -> Labels] /\ Main \in Actors /\ main \in Progress /\ Main \notin Threads
      /\ Rest /\ finishedSem \in Nat
  BY MainFacts, ConstantTypes DEF IInv, Types, ThreadTypes
<1>1. /\ pc[Main] = "lock" /\ pc'[Main] = "getItem" /\ finishedSem' = finishedSem - 1
      /\ \A t \in Threads : pc'[t] = pc[t]
      /\ UNCHANGED <<finishedList, main, threadIndices, isFree, exitThread, compressEvent, out>>
  BY <1>0 DEF Lock, Goto, Actors, info, update
<1>2. \A u \in Threads : /\ Listed(u)' <=> Listed(u)
                         /\ Active(u)' <=> Active(u)
                         /\ ~Collected(u)'
                         /\ Rests(u)' <=> Rests(u)
  BY <1>1 DEF Listed, Active, Collected, Rests
<1>3. {u \in Threads : pc'[u] = "release"} = {u \in Threads : pc[u] = "release"}
  BY <1>1
<1>4. Place(Main) \notin Stopping /\ Place(Main)' \notin Stopping
  BY <1>1 DEF Place, Freeing, Stopping
<1>5. /\ main'.result = "running" <=> Place(Main)' \notin Stopping
      /\ main'.result = "running" =>
           \A u \in Threads : (isFree'[u] <=> ~Active(u)') /\ ~exitThread'[u] /\ ~out'[u].stopEvent
  BY <1>0, <1>1, <1>2, <1>4 DEF Rest
<1>6. /\ \A u \in Threads : ~Active(u)' \/ Listed(u)' \/ Collected(u)' => Rests(u)'
      /\ \A u \in Threads : Listed(u)' => Active(u)'
      /\ \A u \in Threads : pc'[u] \notin Resting => (compressEvent'[u] => exitThread'[u])
  BY <1>0, <1>1, <1>2 DEF Rest
<1>7. Cardinality({u \in Threads : pc[u] = "release"}) \in Nat
  <2>1. IsFiniteSet({u \in Threads : pc[u] = "release"})
    BY ConstantTypes, FS_Subset
  <2> QED
    BY <2>1, FS_CardinalityType
<1>8. /\ pc'[Main] # "collect"
      /\ \A j, k \in 1 .. Len(finishedList') : finishedList'[j] = finishedList'[k] => j = k
  BY <1>0, <1>1 DEF Rest
<1>9. Len(finishedList) = finishedSem + Cardinality({u \in Threads : pc[u] = "release"}) + 0
  BY <1>0, <1>1 DEF Rest
<1>10. Len(finishedList) = finishedSem' + Cardinality({u \in Threads : pc[u] = "release"}) + 1
  BY <1>0, <1>1, <1>7, <1>9
<1>11. Len(finishedList') = finishedSem' + Cardinality({u \in Threads : pc'[u] = "release"})
                              + (IF pc'[Main] = "getItem" THEN 1 ELSE 0)
  BY <1>1, <1>3, <1>10
<1> QED
  BY <1>5, <1>6, <1>8, <1>11 DEF Rest

LEMMA RestGet ==
  ASSUME IInv, GetFreeItem
  PROVE  Rest'
<1>0. pc \in [Actors -> Labels] /\ Main \in Actors /\ main \in Progress /\ Main \notin Threads
      /\ Rest /\ finishedSem \in Nat /\ finishedList \in Seq(Threads) /\ Len(finishedList) \in Nat
  BY MainFacts, ConstantTypes DEF IInv, Types, ThreadTypes
<1>1. /\ pc[Main] = "getItem" /\ pc'[Main] = "collect" /\ finishedSem' = finishedSem
      /\ finishedList' = Tail(finishedList) /\ main'.ti = Head(finishedList)
      /\ main'.result = main.result
      /\ \A t \in Threads : pc'[t] = pc[t]
      /\ UNCHANGED <<threadIndices, isFree, exitThread, compressEvent, out>>
  BY <1>0 DEF GetFreeItem, SetMain, Goto, Actors, info, Progress
<1>2. Cardinality({u \in Threads : pc[u] = "release"}) \in Nat
  <2>1. IsFiniteSet({u \in Threads : pc[u] = "release"})
    BY ConstantTypes, FS_Subset
  <2> QED
    BY <2>1, FS_CardinalityType
<1>3. Len(finishedList) >= 1
  <2>1. Len(finishedList) = finishedSem + Cardinality({u \in Threads : pc[u] = "release"}) + 1
    BY <1>0, <1>1 DEF Rest
  <2> QED
    BY <1>0, <1>2, <2>1
<1>4. /\ finishedList # <<>> /\ 1 \in 1 .. Len(finishedList) /\ main'.ti = finishedList[1]
      /\ main'.ti \in Threads /\ Len(finishedList') = Len(finishedList) - 1
      /\ \A j \in 1 .. Len(finishedList) - 1 : finishedList'[j] = finishedList[j + 1]
  BY <1>0, <1>1, <1>3, HeadTailProperties
<1>5. \A u \in Threads : Listed(u)' <=> Listed(u) /\ u # main'.ti
  <2> SUFFICES ASSUME NEW u \in Threads PROVE Listed(u)' <=> Listed(u) /\ u # main'.ti
    OBVIOUS
  <2>1. ASSUME Listed(u)' PROVE Listed(u) /\ u # main'.ti
    <3>1. PICK j \in 1 .. Len(finishedList) - 1 : finishedList'[j] = u
      BY <1>4, <2>1 DEF Listed
    <3>2. j + 1 \in 1 .. Len(finishedList) /\ j + 1 # 1 /\ finishedList[j + 1] = u
      BY <1>0, <1>4, <3>1
    <3> QED
      BY <1>0, <1>4, <3>2 DEF Listed, Rest
  <2>2. ASSUME Listed(u), u # main'.ti PROVE Listed(u)'
    <3>1. PICK k \in 1 .. Len(finishedList) : finishedList[k] = u
      BY <2>2 DEF Listed
    <3>2. k # 1
      BY <1>4, <2>2, <3>1
    <3>3. k - 1 \in 1 .. Len(finishedList') /\ finishedList'[k - 1] = u
      <4>1. k - 1 \in 1 .. Len(finishedList) - 1 /\ (k - 1) + 1 = k
        BY <1>0, <3>1, <3>2
      <4> QED
        BY <1>4, <3>1, <4>1
    <3> QED
      BY <3>3 DEF Listed
  <2> QED
    BY <2>1, <2>2
<1>6. \A u \in Threads : /\ Active(u)' <=> Active(u)
                         /\ Collected(u)' <=> u = main'.ti
                         /\ Rests(u)' <=> Rests(u)
  BY <1>1 DEF Active, Collected, Rests
<1>7. Listed(main'.ti) /\ Active(main'.ti)
  BY <1>0, <1>4 DEF Listed, Rest
<1>8. {u \in Threads : pc'[u] = "release"} = {u \in Threads : pc[u] = "release"}
  BY <1>1
<1>9. Place(Main) \notin Stopping /\ Place(Main)' \notin Stopping
  BY <1>1 DEF Place, Freeing, Stopping
<1>10. /\ main'.result = "running" <=> Place(Main)' \notin Stopping
       /\ main'.result = "running" =>
            \A u \in Threads : (isFree'[u] <=> ~Active(u)') /\ ~exitThread'[u] /\ ~out'[u].stopEvent
  BY <1>0, <1>1, <1>6, <1>9 DEF Rest
<1>11. /\ \A u \in Threads : ~Active(u)' \/ Listed(u)' \/ Collected(u)' => Rests(u)'
       /\ \A u \in Threads : Listed(u)' => Active(u)'
       /\ \A u \in Threads : pc'[u] \notin Resting => (compressEvent'[u] => exitThread'[u])
  BY <1>0, <1>1, <1>5, <1>6, <1>7 DEF Rest
<1>12. WasListed'
  <2>1. /\ \A k \in 1 .. Len(finishedList') : finishedList'[k] # main'.ti
        /\ \E k \in 1 .. Len(threadIndices) : threadIndices[k] = main'.ti
    BY <1>4, <1>5, <1>7 DEF Listed, Active
  <2> QED
    BY <1>1, <1>4, <2>1 DEF WasListed, Listed, Active
<1>13. \A j, k \in 1 .. Len(finishedList') : finishedList'[j] = finishedList'[k] => j = k
  <2> SUFFICES ASSUME NEW j \in 1 .. Len(finishedList'), NEW k \in 1 .. Len(finishedList'),
                      finishedList'[j] = finishedList'[k]
               PROVE  j = k
    OBVIOUS
  <2>1. j + 1 \in 1 .. Len(finishedList) /\ k + 1 \in 1 .. Len(finishedList)
        /\ finishedList[j + 1] = finishedList[k + 1]
    BY <1>0, <1>4
  <2>2. j + 1 = k + 1
    BY <1>0, <2>1 DEF Rest
  <2> QED
    BY <1>0, <1>4, <2>2
<1>15. Len(finishedList) = finishedSem + Cardinality({u \in Threads : pc[u] = "release"}) + 1
  BY <1>0, <1>1 DEF Rest
<1>16. Len(finishedList') = finishedSem' + Cardinality({u \in Threads : pc[u] = "release"}) + 0
  BY <1>0, <1>1, <1>2, <1>4, <1>15
<1>14. Len(finishedList') = finishedSem' + Cardinality({u \in Threads : pc'[u] = "release"})
                              + (IF pc'[Main] = "getItem" THEN 1 ELSE 0)
  BY <1>1, <1>8, <1>16, Zenon
<1> QED
  BY <1>10, <1>11, <1>12, <1>13, <1>14 DEF Rest

\* The thread that is collected rests, and it leaves threadIndices or Update2 returns.
LEMMA RestCollect ==
  ASSUME IInv, CoderFailed \/ CloseItem \/ DetachData
  PROVE  Rest'
<1> DEFINE t == main.ti
<1>0. /\ pc \in [Actors -> Labels] /\ Main \in Actors /\ main \in Progress /\ Main \notin Threads
      /\ pc[Main] = "collect" /\ main.result = "running" /\ Rest /\ t \in Threads /\ Active(t)
      /\ isFree \in [Threads -> BOOLEAN] /\ threadIndices \in Seq(Threads)
      /\ after \in [Actors -> {"loop", "write"}]
  BY MainFacts, ConstantTypes, TheCollected, Zenon
     DEF CoderFailed, CloseItem, DetachData, Collects, IInv, Types, ThreadTypes, Places
<1>1. CASE CoderFailed
  <2>1. coder[t].result # "running"
    <3>1. coder[t] \in Coder
      BY <1>0, ItemIsNumber
    <3> QED
      BY <3>1 DEF Coder
  <2> QED
    BY <1>0, <1>1, <2>1, RestLeave DEF CoderFailed, SetFree
<1>2. ASSUME UNCHANGED mtSem, SetFree,
             \A u \in Threads : Active(u)' <=> Active(u) /\ u # t,
             \A u \in Threads : out'[u].stopEvent = out[u].stopEvent,
             \A u \in Threads : pc'[u] = pc[u],
             \/ main'.result # "running" /\ pc'[Main] = "stop"
             \/ main'.result = "running" /\ pc'[Main] \in {"loop", "free"} /\ after'[Main] = "loop"
      PROVE  Rest'
  <2>1. \A u \in Threads : Collected(u) <=> u = t
    BY <1>0 DEF Collected
  <2>2. isFree' = [isFree EXCEPT ![t] = TRUE] /\ UNCHANGED <<compressEvent, exitThread>>
    BY <1>2 DEF SetFree
  <2>3. main'.result = "running" =>
           \A u \in Threads : (isFree'[u] <=> ~Active(u)') /\ ~exitThread'[u] /\ ~out'[u].stopEvent
    BY <1>0, <1>2, <2>2 DEF Rest
  <2>4. main'.result = "running" <=> Place(Main)' \notin Stopping
    BY <1>2 DEF Place, Freeing, Stopping
  <2>5. pc'[Main] \notin {"collect", "getItem"}
    BY <1>2
  <2> QED
    BY <1>0, <1>2, <2>1, <2>2, <2>3, <2>4, <2>5, RestMove
<1>3. ASSUME NEW n, FreeAndGoto(Main, n, "loop")
      PROVE  pc'[Main] \in {"loop", "free"} /\ after'[Main] = "loop" /\ \A u \in Threads : pc'[u] = pc[u]
  BY <1>0, <1>3 DEF FreeAndGoto, Goto, Actors
<1>4. \A u \in Threads : out'[u].stopEvent = out[u].stopEvent
  <2>1. SetOut(t, Emptied(out[t])) \/ UNCHANGED out
    BY Zenon DEF CoderFailed, CloseItem, DetachData
  <2> QED
    BY <1>0, <2>1, EmptiedStream
<1>5. CASE CloseItem
  <2>1. \A u \in Threads : Active(u)' <=> Active(u) /\ u # t
    BY <1>5, TailRemoves DEF CloseItem, IsFront
  <2>2. CASE \E res : res # "running" /\ Leave(res)
    <3>1. main'.result # "running" /\ pc'[Main] = "stop" /\ \A u \in Threads : pc'[u] = pc[u]
      BY <1>0, <2>2 DEF Leave, SetMain, Goto, Progress, Actors
    <3> QED
      BY <1>2, <1>4, <1>5, <2>1, <3>1 DEF CloseItem
  <2>3. CASE NextItem /\ FreeAndGoto(Main, out[t].blocks, "loop")
    <3>1. main'.result = "running"
      BY <1>0, <2>3 DEF NextItem, SetMain, Progress
    <3> QED
      BY <1>2, <1>3, <1>4, <1>5, <2>1, <2>3, <3>1 DEF CloseItem
  <2> QED
    BY <1>5, <2>2, <2>3, NotRunning DEF CloseItem
<1>6. CASE DetachData
  <2>1. PICK k \in 1 .. Len(threadIndices) : threadIndices[k] = t /\ threadIndices' = RemoveAt(threadIndices, k)
    BY <1>6, Zenon DEF DetachData
  <2>2. /\ threadIndices' \in Seq(Threads) /\ Len(threadIndices') = Len(threadIndices) - 1
        /\ \A j \in 1 .. Len(threadIndices) - 1 :
             threadIndices'[j] = threadIndices[IF j < k THEN j ELSE j + 1]
    BY <1>0, <2>1, RemoveAtIs
  <2>3. \A u \in Threads : Active(u)' <=> Active(u) /\ u # threadIndices[k]
    BY <2>2, Removal
  <2>4. FreeAndGoto(Main, Surplus(out[t]), "loop") /\ main' = main
    BY <1>6, Zenon DEF DetachData
  <2> QED
    BY <1>0, <1>2, <1>3, <1>4, <1>6, <2>1, <2>3, <2>4, Zenon DEF DetachData
<1> QED
  BY <1>1, <1>5, <1>6

LEMMA RestEnd ==
  ASSUME IInv, (\E t \in Threads : StopWait(t)) \/ Wait_Close \/ FinalFlush
  PROVE  Rest'
<1>0. pc \in [Actors -> Labels] /\ Main \in Actors /\ main \in Progress /\ Main \notin Threads
      /\ out \in [Threads -> Stream] /\ Rest /\ Place(Main) \in Stopping /\ pc[Main] # "getItem"
      /\ compressEvent \in [Threads -> BOOLEAN] /\ exitThread \in [Threads -> BOOLEAN]
  BY MainFacts, ConstantTypes
     DEF IInv, Types, ThreadTypes, StopWait, Wait_Close, FinalFlush, Place, Freeing, Stopping
<1>1. main.result # "running"
  BY <1>0 DEF Rest
<1>2. ASSUME NEW t \in Threads, StopWait(t) PROVE Rest'
  <2>1. /\ main'.result # "running" /\ pc'[Main] = "join" /\ \A u \in Threads : pc'[u] = pc[u]
        /\ UNCHANGED <<mtSem, threadIndices>>
    BY <1>0, <1>1, <1>2 DEF StopWait, SetMain, Goto, Progress, Actors
  <2>2. \A u \in Threads : (compressEvent[u] => exitThread[u]) => (compressEvent'[u] => exitThread'[u])
    BY <1>0, <1>2 DEF StopWait
  <2>3. \A u \in Threads : Active(u)' <=> Active(u)
    BY <2>1 DEF Active
  <2>4. Place(Main)' \in Stopping
    BY <2>1 DEF Place, Freeing, Stopping
  <2> QED
    BY <1>0, <2>1, <2>2, <2>3, <2>4, RestMove
<1>3. CASE Wait_Close
  <2>1. /\ main' = main /\ pc'[Main] \in {"flush", "stop"} /\ \A u \in Threads : pc'[u] = pc[u]
        /\ UNCHANGED <<mtSem, compressEvent, exitThread, threadIndices>>
    BY <1>0, <1>3 DEF Wait_Close, Goto, Actors, update, info
  <2>2. Place(Main)' \in Stopping
    BY <2>1 DEF Place, Freeing, Stopping
  <2> QED
    BY <1>0, <1>1, <2>1, <2>2, RestStay
<1>4. CASE FinalFlush
  <2>1. /\ main'.result # "running" /\ pc'[Main] = "done" /\ \A u \in Threads : pc'[u] = pc[u]
        /\ UNCHANGED <<mtSem, compressEvent, exitThread, threadIndices>>
    BY <1>0, <1>1, <1>4 DEF FinalFlush, Goto, SetMain, Actors, info, Progress
  <2>2. Place(Main)' \in Stopping
    BY <2>1 DEF Place, Freeing, Stopping
  <2> QED
    BY <1>0, <2>1, <2>2, RestStay
<1> QED
  BY <1>2, <1>3, <1>4

LEMMA RestFree ==
  ASSUME IInv, FreeBlock(Main) \/ ReleaseBlock(Main)
  PROVE  Rest'
<1>0. pc \in [Actors -> Labels] /\ Main \in Actors /\ Main \notin Threads /\ Places
      /\ after[Main] \in {"loop", "write"} /\ pc[Main] \in Freeing
  BY MainFacts, ConstantTypes DEF IInv, Types, Places, FreeBlock, ReleaseBlock, Freeing
<1>1. Place(Main)' = Place(Main) /\ Place(Main) \notin Stopping
  BY <1>0, PlacesFreeBlock DEF Place, Freeing, Stopping
<1>2. /\ pc'[Main] \in {"loop", "write", "free", "releaseBlock"} /\ \A u \in Threads : pc'[u] = pc[u]
      /\ UNCHANGED <<mtSem, info, out, main, threadIndices>>
  BY <1>0 DEF FreeBlock, ReleaseBlock, Goto, Actors, update
<1> QED
  BY <1>0, <1>1, <1>2, RestOn DEF Freeing

LEMMA RestKept ==
  ASSUME IInv, [Next]_vars
  PROVE  Rest'
<1>1. CASE MainStep
  BY <1>1, RestStart, RestAhead, RestLock, RestGet, RestCollect, RestEnd, RestFree DEF MainStep
<1>2. CASE \E t \in Threads : ThreadStep(t)
  BY <1>2, RestThread
<1>3. CASE UNCHANGED vars
  <2>1. UNCHANGED <<main, threadIndices, isFree, exitThread, compressEvent, out, pc, finishedList,
                    finishedSem, after>>
    BY <1>3 DEF vars, update, info, mtSem
  <2>2. /\ Rest /\ Place(Main)' = Place(Main) /\ (WasListed' <=> WasListed)
        /\ \A u \in Threads : /\ (Active(u)' <=> Active(u)) /\ (Listed(u)' <=> Listed(u))
                              /\ (Collected(u)' <=> Collected(u)) /\ (Rests(u)' <=> Rests(u))
    BY <2>1 DEF IInv, Place, WasListed, Active, Listed, Collected, Rests
  <2> QED
    BY <2>1, <2>2 DEF Rest
<1> QED
  BY <1>1, <1>2, <1>3 DEF Next, Done

-------------------------------------------------------------------------------
(* The blocks of the pool.                                                  *)

InStreams == Total([t \in Threads |-> out[t].blocks])
InRefs == Total([i \in 1 .. NumItems |-> refs[i].blocks])
InFree == Total(toFree)
Taking == Count(Threads, pc, "allocate")
Releasing == Count(Actors, pc, "releaseBlock")

LEMMA BlocksExactIs ==
  /\ BlocksExact <=> /\ freeBlocks + (InStreams + InFree + InRefs) = numBlocks
                     /\ semaphore + Taking + Releasing = freeBlocks
  /\ BlocksExact' <=> /\ freeBlocks' + (InStreams' + InFree' + InRefs') = numBlocks'
                      /\ semaphore' + Taking' + Releasing' = freeBlocks'
BY DEF BlocksExact, InStreams, InRefs, InFree, Taking, Releasing, Count

LEMMA CountOver ==
  ASSUME NEW S, IsFiniteSet(S), NEW f, NEW v
  PROVE  Count(S, f, v) \in Nat /\ ((\E x \in S : f[x] = v) => Count(S, f, v) > 0)
<1> DEFINE F == {y \in S : f[y] = v}
<1>1. IsFiniteSet(F) /\ Cardinality(F) \in Nat
  BY FS_Subset, FS_CardinalityType
<1>2. ASSUME NEW x \in S, f[x] = v PROVE Cardinality(F) > 0
  <2>1. x \in F
    BY <1>2
  <2> HIDE DEF F
  <2>2. F # {}
    BY <2>1
  <2> QED
    BY <1>1, <2>2, FS_EmptySet
<1> QED
  BY <1>1, <1>2 DEF Count

LEMMA NumbersOfBlocks ==
  ASSUME IInv
  PROVE  /\ freeBlocks \in Nat /\ semaphore \in Nat /\ numBlocks \in Nat
         /\ InStreams \in Nat /\ InRefs \in Nat /\ InFree \in Nat
         /\ Taking \in Nat /\ Releasing \in Nat
         /\ freeBlocks + (InStreams + InFree + InRefs) = numBlocks
         /\ semaphore + Taking + Releasing = freeBlocks
<1>1. freeBlocks \in Nat /\ semaphore \in Nat /\ numBlocks \in Nat
  BY DEF IInv, Types, ThreadTypes, MainTypes
<1>2. [t \in Threads |-> out[t].blocks] \in [Threads -> Nat] /\ toFree \in [Actors -> Nat]
      /\ [i \in 1 .. NumItems |-> refs[i].blocks] \in [1 .. NumItems -> Nat]
  <2>1. \A t \in Threads : out[t] \in Stream /\ out[t].blocks \in Nat
    BY MainFacts DEF Stream
  <2>2. \A i \in 1 .. NumItems : refs[i] \in Ref /\ refs[i].blocks \in Nat
    BY MainFacts DEF Ref
  <2> QED
    BY <2>1, <2>2 DEF IInv, Types, Places
<1>3. IsFiniteSet(Threads) /\ IsFiniteSet(Actors) /\ IsFiniteSet(1 .. NumItems)
  BY ConstantTypes, MainFacts, FS_Interval
<1>4. InStreams \in Nat /\ InRefs \in Nat /\ InFree \in Nat
  BY <1>2, <1>3, TotalType DEF InStreams, InRefs, InFree
<1>5. Taking \in Nat /\ Releasing \in Nat
  BY <1>3, CountOver DEF Taking, Releasing
<1> QED
  BY <1>1, <1>4, <1>5, BlocksExactIs DEF IInv, Blocks

LEMMA StreamsChange ==
  ASSUME IInv, NEW t \in Threads, NEW n \in Nat, out'[t].blocks = n,
         \A u \in Threads : u # t => out'[u].blocks = out[u].blocks
  PROVE  InStreams' = InStreams - out[t].blocks + n
<1>1. PICK f : f = [u \in Threads |-> out[u].blocks]
  OBVIOUS
<1>2. f \in [Threads -> Nat] /\ f[t] = out[t].blocks
  <2>1. \A u \in Threads : out[u] \in Stream /\ out[u].blocks \in Nat
    BY MainFacts DEF Stream
  <2> QED
    BY <1>1, <2>1
<1>3. [u \in Threads |-> out'[u].blocks] = [f EXCEPT ![t] = n]
  BY <1>1
<1>4. Total([f EXCEPT ![t] = n]) = Total(f) - f[t] + n
  <2>1. IsFiniteSet(Threads)
    BY ConstantTypes
  <2> QED
    BY <1>2, <2>1, TotalExcept
<1> QED
  BY <1>1, <1>2, <1>3, <1>4 DEF InStreams

LEMMA StreamsSame ==
  ASSUME \A u \in Threads : out'[u].blocks = out[u].blocks
  PROVE  InStreams' = InStreams
<1>1. [u \in Threads |-> out'[u].blocks] = [u \in Threads |-> out[u].blocks]
  OBVIOUS
<1> QED
  BY <1>1 DEF InStreams

LEMMA RefsChange ==
  ASSUME IInv, UNCHANGED updateItems, NEW j \in 1 .. NumItems, NEW n \in Nat, refs'[j].blocks = n,
         \A i \in 1 .. NumItems : i # j => refs'[i].blocks = refs[i].blocks
  PROVE  InRefs' = InRefs - refs[j].blocks + n
<1>1. PICK f : f = [i \in 1 .. NumItems |-> refs[i].blocks]
  OBVIOUS
<1>2. f \in [1 .. NumItems -> Nat] /\ f[j] = refs[j].blocks
  <2>1. \A i \in 1 .. NumItems : refs[i] \in Ref /\ refs[i].blocks \in Nat
    BY MainFacts DEF Ref
  <2> QED
    BY <1>1, <2>1
<1>3. [i \in 1 .. NumItems |-> refs'[i].blocks] = [f EXCEPT ![j] = n]
  BY <1>1
<1>4. Total([f EXCEPT ![j] = n]) = Total(f) - f[j] + n
  <2>1. IsFiniteSet(1 .. NumItems)
    BY MainFacts, FS_Interval
  <2> QED
    BY <1>2, <2>1, TotalExcept
<1>5. NumItems' = NumItems
  BY DEF NumItems
<1> QED
  BY <1>1, <1>2, <1>3, <1>4, <1>5 DEF InRefs

LEMMA RefsSame ==
  ASSUME UNCHANGED updateItems, \A i \in 1 .. NumItems : refs'[i].blocks = refs[i].blocks
  PROVE  InRefs' = InRefs
<1>1. [i \in 1 .. NumItems |-> refs'[i].blocks] = [i \in 1 .. NumItems |-> refs[i].blocks]
  OBVIOUS
<1>2. NumItems' = NumItems
  BY DEF NumItems
<1> QED
  BY <1>1, <1>2 DEF InRefs

LEMMA FreeChange ==
  ASSUME IInv, NEW a \in Actors, NEW n \in Nat, toFree' = [toFree EXCEPT ![a] = n]
  PROVE  InFree' = InFree - toFree[a] + n
<1>1. toFree \in [Actors -> Nat] /\ IsFiniteSet(Actors)
  BY ConstantTypes DEF IInv, Types, Places
<1>2. Total([toFree EXCEPT ![a] = n]) = Total(toFree) - toFree[a] + n
  BY <1>1, TotalExcept
<1> QED
  BY <1>2 DEF InFree

\* One thread changes its place.
LEMMA PlaceChange ==
  ASSUME NEW a \in Actors, \A b \in Actors : b # a => pc'[b] = pc[b]
  PROVE  /\ Releasing' = Releasing - (IF pc[a] = "releaseBlock" THEN 1 ELSE 0)
                           + (IF pc'[a] = "releaseBlock" THEN 1 ELSE 0)
         /\ a \in Threads => Taking' = Taking - (IF pc[a] = "allocate" THEN 1 ELSE 0)
                                + (IF pc'[a] = "allocate" THEN 1 ELSE 0)
<1>1. PICK f, g : f = pc /\ g = pc'
  OBVIOUS
<1>2. \A b \in Actors : b # a => g[b] = f[b]
  BY <1>1
<1>3. IsFiniteSet(Actors) /\ IsFiniteSet(Threads)
  BY ConstantTypes
<1>4. Count(Actors, g, "releaseBlock") = Count(Actors, f, "releaseBlock")
         - (IF f[a] = "releaseBlock" THEN 1 ELSE 0) + (IF g[a] = "releaseBlock" THEN 1 ELSE 0)
  BY <1>2, <1>3, CountChange
<1>5. ASSUME a \in Threads
      PROVE  Count(Threads, g, "allocate") = Count(Threads, f, "allocate")
               - (IF f[a] = "allocate" THEN 1 ELSE 0) + (IF g[a] = "allocate" THEN 1 ELSE 0)
  <2>1. \A b \in Threads : b # a => g[b] = f[b]
    BY <1>2 DEF Actors
  <2> QED
    BY <1>3, <1>5, <2>1, CountChange
<1> QED
  BY <1>1, <1>4, <1>5 DEF Releasing, Taking

LEMMA PlacesSame ==
  ASSUME \A a \in Actors : pc'[a] = "releaseBlock" <=> pc[a] = "releaseBlock",
         \A t \in Threads : pc'[t] = "allocate" <=> pc[t] = "allocate"
  PROVE  Releasing' = Releasing /\ Taking' = Taking
<1>1. {a \in Actors : pc'[a] = "releaseBlock"} = {a \in Actors : pc[a] = "releaseBlock"}
  OBVIOUS
<1>2. {t \in Threads : pc'[t] = "allocate"} = {t \in Threads : pc[t] = "allocate"}
  OBVIOUS
<1> QED
  BY <1>1, <1>2 DEF Releasing, Taking, Count

\* No block goes anywhere.
LEMMA BlocksStay ==
  ASSUME IInv, UNCHANGED <<const, pool, toFree>>,
         \A t \in Threads : out'[t].blocks = out[t].blocks \/ (out'[t].blocks = 0 /\ out[t].blocks = 0),
         \A i \in 1 .. NumItems : refs'[i].blocks = refs[i].blocks,
         \A a \in Actors : pc'[a] = "releaseBlock" <=> pc[a] = "releaseBlock",
         \A t \in Threads : pc'[t] = "allocate" <=> pc[t] = "allocate"
  PROVE  BlocksExact'
<1>1. InStreams' = InStreams /\ InRefs' = InRefs /\ InFree' = InFree
  BY StreamsSame, RefsSame DEF const, InFree
<1>2. Releasing' = Releasing /\ Taking' = Taking
  BY PlacesSame
<1> QED
  BY <1>1, <1>2, NumbersOfBlocks, BlocksExactIs DEF const, pool

\* A block goes to the list, and then to the semaphore.
LEMMA ExactFree ==
  ASSUME IInv, NEW a \in Actors, FreeBlock(a) \/ ReleaseBlock(a)
  PROVE  BlocksExact'
<1>0. /\ pc \in [Actors -> Labels] /\ toFree \in [Actors -> Nat] /\ UNCHANGED <<const, out, refs>>
      /\ \A b \in Actors : b # a => pc'[b] = pc[b]
      /\ a \in Threads \/ a = Main
      /\ after[a] \in {"loop", "write"}
  BY MainFacts DEF IInv, Types, Places, FreeBlock, ReleaseBlock, Goto, update, Actors
<1>1. InStreams' = InStreams /\ InRefs' = InRefs
  BY <1>0, StreamsSame, RefsSame DEF const
<1>2. ASSUME pc[a] # "allocate", pc'[a] # "allocate" PROVE Taking' = Taking
  <2>1. \A t \in Threads : pc'[t] = "allocate" <=> pc[t] = "allocate"
    BY <1>0, <1>2 DEF Actors
  <2>2. {t \in Threads : pc'[t] = "allocate"} = {t \in Threads : pc[t] = "allocate"}
    BY <2>1
  <2> QED
    BY <2>2 DEF Taking, Count
<1>3. CASE FreeBlock(a)
  <2>1. /\ pc[a] = "free" /\ pc'[a] = "releaseBlock" /\ freeBlocks' = freeBlocks + 1
        /\ semaphore' = semaphore /\ toFree' = [toFree EXCEPT ![a] = toFree[a] - 1] /\ toFree[a] > 0
    BY <1>0, <1>3 DEF FreeBlock, Goto, IInv, Types, Places
  <2>2. Releasing' = Releasing + 1
    BY <1>0, <2>1, PlaceChange, NumbersOfBlocks
  <2>3. InFree' = InFree - 1
    <3>1. PICK n \in Nat : n = toFree[a] - 1
      BY <1>0, <2>1
    <3>2. InFree' = InFree - toFree[a] + n
      BY <2>1, <3>1, FreeChange
    <3> QED
      BY <1>0, <3>1, <3>2, NumbersOfBlocks
  <2> QED
    BY <1>0, <1>1, <1>2, <2>1, <2>2, <2>3, NumbersOfBlocks, BlocksExactIs DEF const
<1>4. CASE ReleaseBlock(a)
  <2>1. /\ pc[a] = "releaseBlock" /\ pc'[a] \in {"free", "loop", "write"} /\ freeBlocks' = freeBlocks
        /\ semaphore' = semaphore + 1 /\ toFree' = toFree
    BY <1>0, <1>4 DEF ReleaseBlock, Goto
  <2>2. Releasing' = Releasing - 1
    BY <1>0, <2>1, PlaceChange, NumbersOfBlocks
  <2>3. InFree' = InFree
    BY <2>1 DEF InFree
  <2> QED
    BY <1>0, <1>1, <1>2, <2>1, <2>2, <2>3, NumbersOfBlocks, BlocksExactIs DEF const
<1> QED
  BY <1>3, <1>4

\* What the free list and the threads' streams hold, when one thread does a step.
LEMMA ExactThread ==
  ASSUME IInv, NEW t \in Threads, ThreadStep(t)
  PROVE  BlocksExact'
<1>0. /\ pc \in [Actors -> Labels] /\ t \in Actors /\ out \in [Threads -> Stream] /\ out[t] \in Stream
      /\ refs' = refs /\ UNCHANGED const /\ toFree \in [Actors -> Nat] /\ NumItems' = NumItems
      /\ out[t].blocks \in Nat /\ InRefs' = InRefs
  <2>1. refs' = refs /\ UNCHANGED const /\ NumItems' = NumItems
    BY ThreadEffects DEF IInv, update, NumItems, const
  <2>2. InRefs' = InRefs
    BY <2>1, RefsSame DEF const
  <2> QED
    BY <2>1, <2>2, MainFacts DEF Actors, Stream, IInv, Types, Places
<1>1. \A a \in Actors : a # t => pc'[a] = pc[a]
  <2>1. OthersAlone(t)
    BY ThreadEffects DEF IInv
  <2> QED
    BY <2>1 DEF OthersAlone
<1>2. \A u \in Threads : u # t => out'[u] = out[u]
  BY ThreadFrame
<1>3. ASSUME out'[t].blocks = out[t].blocks, UNCHANGED <<pool, toFree>>,
             pc[t] \notin {"allocate", "releaseBlock"}, pc'[t] \notin {"allocate", "releaseBlock"}
      PROVE  BlocksExact'
  BY <1>0, <1>1, <1>2, <1>3, BlocksStay DEF Actors
<1>4. CASE \/ WaitWork(t) \/ CallWrite(t) \/ EndCompress(t) \/ NextMethod(t) \/ CompressFails(t)
           \/ WriteReal(t) \/ WriteBlock(t) \/ WaitStop(t) \/ WaitReal(t) \/ ReleaseItem(t) \/ ReleaseSem(t)
  <2>1. UNCHANGED <<pool, toFree>>
    BY <1>4 DEF WaitWork, CallWrite, EndCompress, NextMethod, CompressFails, WriteReal, WriteBlock,
       WaitStop, WaitReal, ReleaseItem, ReleaseSem
  <2>2. pc[t] \notin {"allocate", "releaseBlock"} /\ pc'[t] \notin {"allocate", "releaseBlock"}
    BY <1>0, <1>4 DEF WaitWork, CallWrite, EndCompress, NextMethod, CompressFails, WriteReal, WriteBlock,
       WaitStop, WaitReal, Waits, ReleaseItem, ReleaseSem, Goto, Return
  <2>3. out'[t].blocks = out[t].blocks
    <3>1. CASE UNCHANGED out
      BY <3>1
    <3>2. CASE NextMethod(t)
      <4>1. out' = [out EXCEPT ![t] = Rewound(out[t])] \/ UNCHANGED out
        BY <3>2 DEF NextMethod, SetOut
      <4> QED
        BY <1>0, <4>1 DEF Rewound, Stream
    <3>3. CASE WriteBlock(t)
      <4>1. \E p, z, c : out' = [out EXCEPT ![t] = [out[t] EXCEPT !.pos = p, !.size = z, !.cells = c]]
        BY <3>3 DEF WriteBlock, SetOut
      <4> QED
        BY <1>0, <4>1 DEF Stream
    <3>4. CASE WaitStop(t)
      <4>1. out' = [out EXCEPT ![t] = [out[t] EXCEPT !.stopEvent = FALSE]]
        BY <3>4 DEF WaitStop, SetOut
      <4> QED
        BY <1>0, <4>1 DEF Stream
    <3>5. CASE WaitReal(t)
      <4>1. out' = [out EXCEPT ![t] = [out[t] EXCEPT !.realEvent = FALSE, !.real = TRUE]]
        BY <3>5 DEF WaitReal, SetOut
      <4> QED
        BY <1>0, <4>1 DEF Stream
    <3> QED
      BY <1>4, <3>1, <3>2, <3>3, <3>4, <3>5
         DEF WaitWork, CallWrite, EndCompress, CompressFails, WriteReal, ReleaseItem, ReleaseSem
  <2> QED
    BY <1>3, <2>1, <2>2, <2>3
<1>5. CASE WaitBlock(t)
  <2>1. /\ semaphore > 0 /\ semaphore' = semaphore - 1 /\ pc[t] = "write" /\ pc'[t] = "allocate"
        /\ UNCHANGED <<freeBlocks, toFree, out>>
    BY <1>0, <1>5 DEF WaitBlock, Waits, Goto
  <2>2. Releasing' = Releasing /\ Taking' = Taking + 1
    BY <1>0, <1>1, <2>1, PlaceChange, NumbersOfBlocks
  <2>3. InStreams' = InStreams /\ InFree' = InFree
    BY <2>1 DEF InStreams, InFree
  <2> QED
    BY <1>0, <2>1, <2>2, <2>3, NumbersOfBlocks, BlocksExactIs DEF const
<1>6. CASE AllocateBlock(t)
  <2>1. pc[t] = "allocate" /\ Taking > 0
    <3>1. pc[t] = "allocate"
      BY <1>6 DEF AllocateBlock
    <3>2. IsFiniteSet(Threads) /\ \E u \in Threads : pc[u] = "allocate"
      BY <3>1, ConstantTypes
    <3> QED
      BY <3>1, <3>2, CountOver DEF Taking
  <2>2. freeBlocks > 0
    BY <2>1, NumbersOfBlocks
  <2>3. /\ freeBlocks' = freeBlocks - 1 /\ out' = [out EXCEPT ![t] = [out[t] EXCEPT !.blocks = @ + 1]]
        /\ pc'[t] = "write" /\ UNCHANGED <<semaphore, toFree>>
    BY <1>0, <1>6, <2>2 DEF AllocateBlock, Goto, SetOut
  <2>4. out'[t].blocks = out[t].blocks + 1
    BY <1>0, <2>3 DEF Stream
  <2>5. Releasing' = Releasing /\ Taking' = Taking - 1
    BY <1>0, <1>1, <2>1, <2>3, PlaceChange, NumbersOfBlocks
  <2>6. InStreams' = InStreams + 1 /\ InFree' = InFree
    <3>1. PICK n \in Nat : n = out[t].blocks + 1
      BY <1>0
    <3>2. InStreams' = InStreams - out[t].blocks + n
      BY <1>2, <2>4, <3>1, StreamsChange
    <3> QED
      BY <1>0, <2>3, <3>1, <3>2, NumbersOfBlocks DEF InFree
  <2> QED
    BY <1>0, <2>2, <2>3, <2>5, <2>6, NumbersOfBlocks, BlocksExactIs DEF const
<1>7. CASE WriteToRealStream(t)
  <2>1. CASE Return(t, "write") /\ UNCHANGED <<toFree, out>>
    BY <1>0, <1>3, <1>7, <2>1 DEF WriteToRealStream, Return, Goto
  <2>2. CASE FreeAndGoto(t, out[t].blocks, "write") /\ SetOut(t, Emptied(out[t]))
    <3>1. /\ toFree' = [toFree EXCEPT ![t] = out[t].blocks] /\ pc[t] = "flush" /\ pc'[t] \in {"write", "free"}
          /\ out'[t].blocks = 0 /\ UNCHANGED <<freeBlocks, semaphore>>
      BY <1>0, <1>7, <2>2 DEF WriteToRealStream, FreeAndGoto, Goto, SetOut, Emptied, Stream, pool
    <3>2. toFree[t] = 0
      BY <1>0, <3>1 DEF IInv, Types, Places
    <3>3. Releasing' = Releasing /\ Taking' = Taking
      BY <1>0, <1>1, <3>1, PlaceChange, NumbersOfBlocks
    <3>4. InStreams' = InStreams - out[t].blocks
      <4>1. InStreams' = InStreams - out[t].blocks + 0
        BY <1>2, <3>1, StreamsChange
      <4> QED
        BY <1>0, <4>1, NumbersOfBlocks
    <3>5. InFree' = InFree + out[t].blocks
      <4>1. InFree' = InFree - toFree[t] + out[t].blocks
        BY <1>0, <3>1, FreeChange
      <4> QED
        BY <1>0, <3>2, <4>1, NumbersOfBlocks
    <3> QED
      BY <1>0, <3>1, <3>3, <3>4, <3>5, NumbersOfBlocks, BlocksExactIs DEF const
  <2> QED
    BY <1>7, <2>1, <2>2 DEF WriteToRealStream
<1> QED
  BY <1>4, <1>5, <1>6, <1>7, ExactFree DEF ThreadStep, Actors

LEMMA BlocksThread ==
  ASSUME IInv, NEW t \in Threads, ThreadStep(t)
  PROVE  Blocks'
<1>1. out'[t].blocks = out[t].blocks \/ pc[t] \in {"allocate", "flush"}
  <2>1. CASE NextMethod(t)
    <3>1. out' = [out EXCEPT ![t] = Rewound(out[t])] \/ UNCHANGED out
      BY <2>1 DEF NextMethod, SetOut
    <3> QED
      BY <3>1, MainFacts DEF Rewound, Stream
  <2>2. CASE WriteBlock(t)
    <3>1. \E p, z, c : out' = [out EXCEPT ![t] = [out[t] EXCEPT !.pos = p, !.size = z, !.cells = c]]
      BY <2>2 DEF WriteBlock, SetOut
    <3> QED
      BY <3>1, MainFacts DEF Stream
  <2>3. CASE WaitStop(t)
    <3>1. out' = [out EXCEPT ![t] = [out[t] EXCEPT !.stopEvent = FALSE]]
      BY <2>3 DEF WaitStop, SetOut
    <3> QED
      BY <3>1, MainFacts DEF Stream
  <2>4. CASE WaitReal(t)
    <3>1. out' = [out EXCEPT ![t] = [out[t] EXCEPT !.realEvent = FALSE, !.real = TRUE]]
      BY <2>4 DEF WaitReal, SetOut
    <3> QED
      BY <3>1, MainFacts DEF Stream
  <2> QED
    BY <2>1, <2>2, <2>3, <2>4
       DEF ThreadStep, WaitWork, CallWrite, EndCompress, CompressFails, WriteReal, WaitBlock, AllocateBlock,
           WriteToRealStream, ReleaseItem, ReleaseSem, FreeBlock, ReleaseBlock
<1>2. out'[t].blocks = out[t].blocks \/ Active(t)
  BY <1>1, AtWork DEF Rests, Resting
<1>3. /\ main' = main /\ refs' = refs /\ NumItems' = NumItems
      /\ \A u \in Threads : (u # t => out'[u] = out[u]) /\ (Active(u)' <=> Active(u))
  BY ThreadFrame
<1>4. main'.result = "running" => \A u \in Threads : ~Active(u)' => out'[u].blocks = 0
  BY <1>2, <1>3 DEF IInv, Blocks
<1>5. \A i \in 1 .. NumItems' : ~refs'[i].finished => refs'[i].blocks = 0
  BY <1>3, ThreadEffects DEF IInv, Blocks, update
<1> QED
  BY <1>4, <1>5, ExactThread DEF Blocks

\* A step of the main thread that takes no block.
LEMMA BlocksMove ==
  ASSUME IInv, UNCHANGED <<const, pool, toFree>>,
         \A t \in Threads : out'[t].blocks = out[t].blocks,
         \A i \in 1 .. NumItems : refs'[i].blocks = refs[i].blocks /\ refs'[i].finished = refs[i].finished,
         \A t \in Threads : /\ pc'[t] = "releaseBlock" <=> pc[t] = "releaseBlock"
                            /\ pc'[t] = "allocate" <=> pc[t] = "allocate",
         pc[Main] # "releaseBlock", pc'[Main] # "releaseBlock",
         main'.result = "running" => main.result = "running" /\ \A t \in Threads : Active(t) => Active(t)'
  PROVE  Blocks'
<1>1. BlocksExact'
  BY BlocksStay DEF Actors
<1>2. NumItems' = NumItems
  BY DEF const, NumItems
<1>3. main'.result = "running" => \A t \in Threads : ~Active(t)' => out'[t].blocks = 0
  BY DEF IInv, Blocks
<1>4. \A i \in 1 .. NumItems' : ~refs'[i].finished => refs'[i].blocks = 0
  BY <1>2 DEF IInv, Blocks
<1> QED
  BY <1>1, <1>3, <1>4 DEF Blocks

LEMMA BlocksLeave ==
  ASSUME IInv, NEW res, res # "running", Leave(res), UNCHANGED <<const, pool, toFree, out, refs>>,
         pc[Main] # "releaseBlock"
  PROVE  Blocks'
<1>1. /\ main'.result # "running" /\ pc'[Main] # "releaseBlock"
      /\ \A t \in Threads : pc'[t] = pc[t]
  BY MainFacts, ConstantTypes DEF Leave, SetMain, Goto, Progress, Actors
<1> QED
  BY <1>1, BlocksMove

LEMMA BlocksPlain ==
  ASSUME IInv,
         \/ CreateThread \/ PassDirect \/ PassAbsent \/ GetStreamFails \/ SkipItem \/ WriteDirect \/ OpenItem
         \/ HeaderFails \/ Lock \/ GetFreeItem \/ CoderFailed \/ WriteCentralDir
         \/ (\E t \in Threads : StopWait(t)) \/ Wait_Close \/ FinalFlush
  PROVE  Blocks'
<1>0. /\ pc \in [Actors -> Labels] /\ Main \in Actors /\ Main \notin Threads /\ main \in Progress
      /\ out \in [Threads -> Stream] /\ refs \in [1 .. NumItems -> Ref]
      /\ UNCHANGED <<const, pool, toFree>>
  BY MainFacts, ConstantTypes DEF CreateThread, PassDirect, PassAbsent, GetStreamFails, SkipItem, WriteDirect,
       OpenItem, HeaderFails, Lock, GetFreeItem, CoderFailed, WriteCentralDir, StopWait, Wait_Close, FinalFlush
<1>1. pc[Main] # "releaseBlock"
  BY DEF CreateThread, PassDirect, PassAbsent, GetStreamFails, Ahead, SkipItem, WriteDirect,
         OpenItem, HeaderFails, NotFinished, Turn, Lock, GetFreeItem, CoderFailed, Collects, WriteCentralDir,
         StopWait, Wait_Close, FinalFlush
<1>2. /\ pc'[Main] # "releaseBlock"
      /\ \A t \in Threads : /\ pc'[t] = "releaseBlock" <=> pc[t] = "releaseBlock"
                            /\ pc'[t] = "allocate" <=> pc[t] = "allocate"
  BY <1>0, <1>1 DEF CreateThread, PassDirect, PassAbsent, GetStreamFails, SkipItem, WriteDirect,
         OpenItem, HeaderFails, Lock, GetFreeItem, CoderFailed, WriteCentralDir,
         StopWait, Wait_Close, FinalFlush, Goto, Leave, Actors
<1>3. \A t \in Threads : out'[t].blocks = out[t].blocks
  <2>1. CASE UNCHANGED out
    BY <2>1
  <2>2. CASE OpenItem
    <3> DEFINE t == Head(threadIndices)
    <3>1. CASE out[t].unlockSent
      BY <2>2, <3>1 DEF OpenItem
    <3>2. CASE ~out[t].unlockSent
      <4>1. out' = [out EXCEPT ![t] = [out[t] EXCEPT !.offset = Len(archive'), !.unlockSent = TRUE,
                                                     !.realEvent = TRUE]]
        BY <2>2, <3>2 DEF OpenItem, SetRealStreamMode, SetOut
      <4> QED
        BY <1>0, <4>1 DEF Stream
    <3> QED
      BY <3>1, <3>2
  <2>3. ASSUME NEW t \in Threads, StopWait(t) PROVE \A u \in Threads : out'[u].blocks = out[u].blocks
    <3>1. out' = [out EXCEPT ![t] = [out[t] EXCEPT !.stopEvent = TRUE]]
      BY <2>3 DEF StopWait, StopWriting, SetOut
    <3> QED
      BY <1>0, <3>1 DEF Stream
  <2> QED
    BY <2>1, <2>2, <2>3 DEF CreateThread, PassDirect, PassAbsent, GetStreamFails, SkipItem, WriteDirect,
       HeaderFails, Lock, GetFreeItem, CoderFailed, WriteCentralDir, Wait_Close, FinalFlush
<1>4. \A i \in 1 .. NumItems : refs'[i].blocks = refs[i].blocks /\ refs'[i].finished = refs[i].finished
  <2>1. CASE UNCHANGED refs
    BY <2>1
  <2>2. CASE PassAbsent
    BY <1>0, <2>2 DEF PassAbsent, Ref
  <2> QED
    BY <2>1, <2>2 DEF CreateThread, PassDirect, GetStreamFails, SkipItem, WriteDirect, OpenItem,
       HeaderFails, Lock, GetFreeItem, CoderFailed, WriteCentralDir, StopWait, Wait_Close, FinalFlush, update
<1>5. UNCHANGED threadIndices
  BY DEF CreateThread, PassDirect, PassAbsent, GetStreamFails, SkipItem, WriteDirect,
         OpenItem, HeaderFails, Lock, GetFreeItem, CoderFailed, WriteCentralDir,
         StopWait, Wait_Close, FinalFlush, update
<1>6. main'.result = "running" => main.result = "running"
  <2>1. \/ main' = main
        \/ NextMtItem \/ NextItem
        \/ \E a : main' = [main EXCEPT !.ti = a]
        \/ \E n : main' = [main EXCEPT !.lastReal = n]
        \/ \E res : res # "running" /\ main' = [main EXCEPT !.result = res]
    <3>1. \A res : Leave(res) => main' = [main EXCEPT !.result = res]
      BY DEF Leave, SetMain
    <3>2. CASE CoderFailed
      <4>1. coder[main.ti] \in Coder
        BY <3>2, TheCollected, ItemIsNumber DEF CoderFailed
      <4> QED
        BY <3>1, <3>2, <4>1 DEF CoderFailed, Coder
    <3>3. "create" # "running" /\ "stream" # "running" /\ "direct" # "running" /\ "write" # "running" /\ OK # "running"
      BY NotRunning
    <3> QED
      BY <3>1, <3>2, <3>3 DEF CreateThread, PassDirect, PassAbsent, GetStreamFails, SkipItem, WriteDirect,
         OpenItem, HeaderFails, Lock, GetFreeItem, WriteCentralDir, StopWait, Wait_Close, FinalFlush, update,
         SetMain
  <2> QED
    BY <1>0, <2>1 DEF NextMtItem, NextItem, SetMain, Progress
<1>7. \A t \in Threads : Active(t) => Active(t)'
  BY <1>5 DEF Active
<1> QED
  BY <1>0, <1>1, <1>2, <1>3, <1>4, <1>6, <1>7, BlocksMove

LEMMA BlocksAhead ==
  ASSUME IInv, StartThread
  PROVE  Blocks'
<1>0. /\ main.result = "running" /\ pc[Main] = "loop" /\ out \in [Threads -> Stream] /\ main \in Progress
      /\ UNCHANGED <<const, pool, toFree, refs>> /\ Len(threadIndices) \in Nat
  BY MainFacts DEF StartThread, Ahead, Place, Freeing, Stopping, IInv, Rest
<1>1. CASE \A t \in Threads : ~isFree[t]
  BY <1>0, <1>1, BlocksLeave, NotRunning DEF StartThread
<1>2. CASE \E t \in Threads : isFree[t]
  <2> DEFINE t == CHOOSE u \in Threads : isFree[u]
  <2>1. t \in Threads /\ isFree[t]
    BY <1>2
  <2>2. /\ out' = [out EXCEPT ![t] = InitStream(out[t])] /\ threadIndices' = Append(threadIndices, t)
        /\ NextMtItem /\ UNCHANGED pc
    BY <1>2 DEF StartThread, SetOut
  <2> HIDE DEF t
  <2>3. out[t].blocks = 0
    BY <1>0, <2>1 DEF IInv, Rest, Blocks
  <2>4. \A u \in Threads : out'[u].blocks = out[u].blocks
    BY <1>0, <2>1, <2>2, <2>3 DEF InitStream, Emptied, Stream
  <2>5. /\ Len(threadIndices') = Len(threadIndices) + 1
        /\ \A j \in 1 .. Len(threadIndices) : threadIndices'[j] = threadIndices[j]
    BY <2>1, <2>2, MainFacts, AppendProperties
  <2>6. \A u \in Threads : Active(u) => Active(u)'
    BY <1>0, <2>5 DEF Active
  <2> QED
    BY <1>0, <2>2, <2>4, <2>6, BlocksMove
<1> QED
  BY <1>1, <1>2

\* The blocks of a stream or of an item go to those that the main thread has yet to free.
LEMMA MainFrees ==
  ASSUME IInv, NEW n \in Nat, FreeAndGoto(Main, n, "loop"), pc[Main] \in {"loop", "collect"},
         UNCHANGED <<const, pool>>
  PROVE  /\ InFree' = InFree + n /\ Releasing' = Releasing /\ Taking' = Taking
         /\ (InStreams' + InRefs' + n = InStreams + InRefs) /\ InStreams' \in Nat /\ InRefs' \in Nat => BlocksExact'
<1>0. /\ pc \in [Actors -> Labels] /\ Main \in Actors /\ Main \notin Threads /\ toFree[Main] = 0
  BY MainFacts, ConstantTypes DEF IInv, Types, Places
<1>1. /\ toFree' = [toFree EXCEPT ![Main] = n] /\ pc'[Main] \in {"loop", "free"}
      /\ \A t \in Threads : pc'[t] = pc[t]
  BY <1>0 DEF FreeAndGoto, Goto, Actors
<1>2. InFree' = InFree + n
  <2>1. InFree' = InFree - toFree[Main] + n
    BY <1>0, <1>1, FreeChange
  <2> QED
    BY <1>0, <2>1, NumbersOfBlocks
<1>3. Releasing' = Releasing /\ Taking' = Taking
  <2>1. \A a \in Actors : pc'[a] = "releaseBlock" <=> pc[a] = "releaseBlock"
    BY <1>1 DEF Actors
  <2> QED
    BY <1>1, <2>1, PlacesSame
<1>4. ASSUME InStreams' + InRefs' + n = InStreams + InRefs, InStreams' \in Nat, InRefs' \in Nat PROVE BlocksExact'
  <2>1. InStreams' + InFree' + InRefs' = InStreams + InFree + InRefs
    BY <1>2, <1>4, NumbersOfBlocks
  <2> QED
    BY <1>3, <2>1, NumbersOfBlocks, BlocksExactIs DEF const, pool
<1> QED
  BY <1>2, <1>3, <1>4

LEMMA BlocksFinished ==
  ASSUME IInv, WriteFinished
  PROVE  Blocks'
<1>0. /\ main.result = "running" /\ pc[Main] = "loop" /\ main \in Progress /\ main.item \in 1 .. NumItems
      /\ refs \in [1 .. NumItems -> Ref] /\ UNCHANGED <<const, pool, out, threadIndices>>
      /\ NumItems' = NumItems /\ refs[main.item].finished
  BY MainFacts, CurrentStarted DEF WriteFinished, Turn, info, const, NumItems
<1>1. CASE Leave("write")
  <2>1. CASE UNCHANGED <<refs, toFree>>
    BY <1>0, <1>1, <2>1, BlocksLeave, NotRunning
  <2>2. CASE FreeAndGoto(Main, refs[main.item].blocks, "loop")
    BY <1>0, <1>1, <2>2, MainFacts DEF Leave, FreeAndGoto, Goto
  <2> QED
    BY <1>1, <2>1, <2>2 DEF WriteFinished
<1>2. CASE ~Leave("write")
  <2>0. PICK i, n : i = main.item /\ n = refs[i].blocks
    OBVIOUS
  <2>1. /\ refs' = [refs EXCEPT ![i] = [refs[i] EXCEPT !.blocks = 0, !.cells = <<>>]]
        /\ FreeAndGoto(Main, n, "loop") /\ NextItem
    BY <1>0, <1>2, <2>0 DEF WriteFinished
  <2>2. i \in 1 .. NumItems /\ refs[i] \in Ref /\ n \in Nat
    BY <1>0, <2>0 DEF Ref
  <2>3. /\ refs'[i].blocks = 0 /\ refs'[i].finished
        /\ \A j \in 1 .. NumItems : j # i => refs'[j] = refs[j]
    BY <1>0, <2>0, <2>1, <2>2 DEF Ref
  <2>4. InStreams' = InStreams
    BY <1>0, StreamsSame
  <2>5. InRefs' = InRefs - n + 0
    BY <1>0, <2>0, <2>2, <2>3, RefsChange DEF const
  <2>6. InRefs' \in Nat
    <3>1. IsFiniteSet(1 .. NumItems) /\ [j \in 1 .. NumItems |-> refs'[j].blocks] \in [1 .. NumItems -> Nat]
      <4>2. \A j \in 1 .. NumItems : refs[j] \in Ref /\ refs[j].blocks \in Nat
        BY <1>0 DEF Ref
      <4>1. \A j \in 1 .. NumItems : refs'[j].blocks \in Nat
        BY <2>3, <4>2
      <4>3. IsFiniteSet(1 .. NumItems)
        BY MainFacts, FS_Interval
      <4> QED
        BY <4>1, <4>3
    <3> QED
      BY <1>0, <3>1, TotalType DEF InRefs
  <2>7. BlocksExact'
    <3>1. InStreams' + InRefs' + n = InStreams + InRefs /\ InStreams' \in Nat
      BY <2>2, <2>4, <2>5, <2>6, NumbersOfBlocks
    <3> QED
      BY <1>0, <2>1, <2>2, <2>6, <3>1, MainFrees
  <2>8. \A t \in Threads : (Active(t)' <=> Active(t)) /\ out'[t].blocks = out[t].blocks
    BY <1>0 DEF Active
  <2> QED
    BY <1>0, <2>3, <2>7, <2>8 DEF IInv, Blocks
<1> QED
  BY <1>1, <1>2

LEMMA BlocksClose ==
  ASSUME IInv, CloseItem
  PROVE  Blocks'
<1>0. /\ main.result = "running" /\ pc[Main] = "collect" /\ main \in Progress /\ main.ti \in Threads
      /\ out \in [Threads -> Stream] /\ UNCHANGED <<const, pool, refs>>
      /\ NumItems' = NumItems /\ Main \in Actors /\ Main \notin Threads /\ pc \in [Actors -> Labels]
  BY MainFacts, TheCollected, ConstantTypes DEF CloseItem, Collects, const, NumItems
<1>1. CASE \E res : res # "running" /\ Leave(res) /\ UNCHANGED <<toFree, out>>
  BY <1>0, <1>1, BlocksLeave
<1>2. CASE NextItem /\ FreeAndGoto(Main, out[main.ti].blocks, "loop") /\ SetOut(main.ti, Emptied(out[main.ti]))
  <2>0. PICK t, n : t = main.ti /\ n = out[t].blocks
    OBVIOUS
  <2>1. /\ out' = [out EXCEPT ![t] = [out[t] EXCEPT !.blocks = 0, !.size = 0, !.cells = <<>>]]
        /\ FreeAndGoto(Main, n, "loop")
    BY <1>2, <2>0 DEF SetOut, Emptied
  <2>2. t \in Threads /\ out[t] \in Stream /\ n \in Nat
    BY <1>0, <2>0 DEF Stream
  <2>3. out'[t].blocks = 0 /\ \A u \in Threads : u # t => out'[u] = out[u]
    BY <1>0, <2>1, <2>2 DEF Stream
  <2>4. InStreams' = InStreams - n + 0
    BY <2>0, <2>2, <2>3, StreamsChange
  <2>5. InRefs' = InRefs
    BY <1>0, RefsSame DEF const
  <2>6. InStreams' \in Nat
    <3>1. IsFiniteSet(Threads) /\ [u \in Threads |-> out'[u].blocks] \in [Threads -> Nat]
      <4>2. \A u \in Threads : out[u] \in Stream /\ out[u].blocks \in Nat
        BY <1>0 DEF Stream
      <4>1. \A u \in Threads : out'[u].blocks \in Nat
        BY <2>3, <4>2
      <4> QED
        BY <4>1, ConstantTypes
    <3> QED
      BY <3>1, TotalType DEF InStreams
  <2>7. BlocksExact'
    <3>1. InStreams' + InRefs' + n = InStreams + InRefs /\ InRefs' \in Nat
      BY <2>2, <2>4, <2>5, <2>6, NumbersOfBlocks
    <3> QED
      BY <1>0, <2>1, <2>2, <2>6, <3>1, MainFrees
  <2>8. \A u \in Threads : Active(u)' <=> Active(u) /\ u # t
    BY <2>0, TailRemoves DEF CloseItem, IsFront
  <2>9. \A u \in Threads : ~Active(u)' => out'[u].blocks = 0
    BY <1>0, <2>3, <2>8 DEF IInv, Blocks
  <2> QED
    BY <1>0, <2>7, <2>9 DEF IInv, Blocks
<1> QED
  BY <1>1, <1>2, NotRunning DEF CloseItem

LEMMA BlocksDetach ==
  ASSUME IInv, DetachData
  PROVE  Blocks'
<1>0. /\ main.result = "running" /\ pc[Main] = "collect" /\ main.ti \in Threads
      /\ coder[main.ti].item \in Pending /\ coder[main.ti].item \in 1 .. NumItems
      /\ out \in [Threads -> Stream] /\ refs \in [1 .. NumItems -> Ref]
      /\ threadIndices \in Seq(Threads) /\ UNCHANGED <<const, pool, main>>
      /\ NumItems' = NumItems /\ coder[main.ti].result = OK
  BY MainFacts, TheCollected, Zenon DEF DetachData, Collects, const, NumItems
<1>1. Needed(out[main.ti]) \in Nat /\ Needed(out[main.ti]) <= out[main.ti].blocks
  BY <1>0, CollectedMemory, Zenon DEF DetachData
<1>2. PICK t, i, n, need, sur : /\ t = main.ti /\ i = coder[t].item /\ n = out[t].blocks
                                /\ need = Needed(out[t]) /\ sur = n - need
  OBVIOUS
<1>3. /\ t \in Threads /\ out[t] \in Stream /\ n \in Nat /\ need \in Nat /\ sur \in Nat
      /\ i \in 1 .. NumItems /\ refs[i] \in Ref /\ i \in Pending
  BY <1>0, <1>1, <1>2, SMTT(30) DEF Stream
<1>4. refs[i].blocks = 0 /\ ~refs[i].finished
  BY <1>3 DEF IInv, Blocks, Pending
<1>5. FreeAndGoto(Main, sur, "loop")
  BY <1>2, Zenon DEF DetachData, Surplus
<1>6. /\ out'[t].blocks = 0 /\ \A u \in Threads : u # t => out'[u] = out[u]
  <2>1. out' = [out EXCEPT ![t] = [out[t] EXCEPT !.blocks = 0, !.size = 0, !.cells = <<>>]]
    BY <1>2, Zenon DEF DetachData, SetOut, Emptied
  <2> QED
    BY <1>0, <1>3, <2>1 DEF Stream
<1>7. /\ refs'[i].blocks = need /\ refs'[i].finished
      /\ \A j \in 1 .. NumItems : j # i => refs'[j] = refs[j]
  <2> DEFINE new == [refs[i] EXCEPT !.finished = TRUE, !.blocks = need, !.size = out[t].size,
                            !.cells = First(out[t].cells, need * BlockSize),
                            !.pass = coder[t].pass, !.packSize = coder[t].packSize]
  <2>1. refs' = [refs EXCEPT ![i] = new]
    BY <1>0, <1>2, Zenon DEF DetachData
  <2>2. new.blocks = need /\ new.finished
    BY <1>3 DEF Ref
  <2> HIDE DEF new
  <2> QED
    BY <1>0, <1>3, <2>1, <2>2
<1>8. InStreams' = InStreams - n + 0
  BY <1>2, <1>3, <1>6, StreamsChange
<1>9. InRefs' = InRefs - 0 + need
  BY <1>0, <1>3, <1>4, <1>7, RefsChange DEF const
<1>10. InStreams' \in Nat
  <2>1. IsFiniteSet(Threads) /\ [u \in Threads |-> out'[u].blocks] \in [Threads -> Nat]
    <3>2. \A u \in Threads : out[u] \in Stream /\ out[u].blocks \in Nat
      BY <1>0 DEF Stream
    <3>1. \A u \in Threads : out'[u].blocks \in Nat
      BY <1>6, <3>2
    <3> QED
      BY <3>1, ConstantTypes
  <2> QED
    BY <2>1, TotalType DEF InStreams
<1>11. BlocksExact'
  <2>1. InStreams' + InRefs' + sur = InStreams + InRefs /\ InRefs' \in Nat
    BY <1>2, <1>3, <1>8, <1>9, <1>10, NumbersOfBlocks
  <2> QED
    BY <1>0, <1>3, <1>5, <1>10, <2>1, MainFrees
<1>12. \A u \in Threads : Active(u)' <=> Active(u) /\ u # t
  <2>1. PICK k \in 1 .. Len(threadIndices) : threadIndices[k] = t /\ threadIndices' = RemoveAt(threadIndices, k)
    BY <1>2, Zenon DEF DetachData
  <2>2. /\ threadIndices' \in Seq(Threads) /\ Len(threadIndices') = Len(threadIndices) - 1
        /\ \A j \in 1 .. Len(threadIndices) - 1 :
             threadIndices'[j] = threadIndices[IF j < k THEN j ELSE j + 1]
    BY <1>0, <2>1, RemoveAtIs
  <2> QED
    BY <2>1, <2>2, Removal, Zenon
<1>13. \A u \in Threads : ~Active(u)' => out'[u].blocks = 0
  BY <1>0, <1>6, <1>12 DEF IInv, Blocks
<1>14. \A j \in 1 .. NumItems' : ~refs'[j].finished => refs'[j].blocks = 0
  BY <1>0, <1>7 DEF IInv, Blocks
<1> QED
  BY <1>11, <1>13, <1>14 DEF Blocks

LEMMA BlocksFree ==
  ASSUME IInv, FreeBlock(Main) \/ ReleaseBlock(Main)
  PROVE  Blocks'
<1>1. UNCHANGED <<const, out, main, threadIndices, refs>> /\ NumItems' = NumItems
  BY DEF FreeBlock, ReleaseBlock, update, const, NumItems
<1>2. BlocksExact'
  BY MainFacts, ExactFree
<1>3. \A u \in Threads : Active(u)' <=> Active(u)
  BY <1>1 DEF Active
<1> QED
  BY <1>1, <1>2, <1>3 DEF IInv, Blocks

LEMMA BlocksKept ==
  ASSUME IInv, [Next]_vars
  PROVE  Blocks'
<1>1. CASE MainStep
  BY <1>1, BlocksPlain, BlocksAhead, BlocksFinished, BlocksClose, BlocksDetach, BlocksFree DEF MainStep
<1>2. CASE \E t \in Threads : ThreadStep(t)
  BY <1>2, BlocksThread
<1>3. CASE UNCHANGED vars
  <2>1. UNCHANGED <<const, pool, toFree, pc, out, refs, main, threadIndices>> /\ NumItems' = NumItems
    BY <1>3 DEF vars, update, const, NumItems
  <2>2. BlocksExact'
    BY <2>1, BlocksStay
  <2>3. \A u \in Threads : Active(u)' <=> Active(u)
    BY <2>1 DEF Active
  <2> QED
    BY <2>1, <2>2, <2>3 DEF IInv, Blocks
<1> QED
  BY <1>1, <1>2, <1>3 DEF Next, Done

-------------------------------------------------------------------------------
(* The data: the steps of a coder thread.                                   *)

ArchiveKeeps(t) ==
  \/ failed' = failed /\ archive' = archive /\ (Active(t) => Shown(t)' = Shown(t))
  \/ /\ Active(t) /\ out[t].unlockSent
     /\ (OnArchive(t)' /\ coder'[t].result # OK) \/ Len(archive') = out[t].offset + Len(Shown(t)')
     /\ failed' => failed \/ coder'[t].result # OK
     /\ ~Lost' => archive' = (Written \o <<Header(main.item)>>) \o Shown(t)'

\* Of the threads of threadIndices, one at most is on the archive.
LEMMA OneOnArchive ==
  ASSUME IInv, NEW t \in Threads, Active(t), out[t].unlockSent, NEW u \in Threads, Active(u), u # t
  PROVE  ~out[u].unlockSent /\ ~out[u].real
<1>1. coder[t].item = main.item
  BY DEF IInv, Turns
<1>2. coder[u].item # main.item
  BY <1>1, ItemsDiffer
<1> QED
  BY <1>2 DEF IInv, Turns

\* A step of another thread.
LEMMA DataOther ==
  ASSUME IInv, NEW t \in Threads, ThreadStep(t), NEW u \in Threads, u # t, Active(u)
  PROVE  DataFits(u)' /\ Shown(u)' = Shown(u) /\ (OnArchive(u)' <=> OnArchive(u))
<1>1. /\ out'[u] = out[u] /\ coder'[u] = coder[u] /\ pc'[u] = pc[u] /\ after'[u] = after[u]
      /\ compressEvent'[u] = compressEvent[u] /\ exitThread' = exitThread /\ main' = main
      /\ pc'[Main] = pc[Main]
  BY ThreadFrame
<1>2. Listed(u)' <=> Listed(u)
  <2>1. CASE ReleaseItem(t)
    <3>1. finishedList \in Seq(Threads) /\ Len(finishedList) \in Nat
      BY DEF IInv, Types, ThreadTypes
    <3>2. finishedList' = <<t>> \o finishedList /\ <<t>> \in Seq(Threads) /\ Len(<<t>>) = 1 /\ <<t>>[1] = t
      BY <2>1 DEF ReleaseItem
    <3>3. /\ Len(finishedList') = Len(finishedList) + 1 /\ finishedList'[1] = t
          /\ \A j \in 2 .. Len(finishedList) + 1 : finishedList'[j] = finishedList[j - 1]
      BY <3>1, <3>2, ConcatProperties
    <3>4. ASSUME Listed(u)' PROVE Listed(u)
      <4>1. PICK j \in 1 .. Len(finishedList) + 1 : finishedList'[j] = u
        BY <3>3, <3>4 DEF Listed
      <4>2. j - 1 \in 1 .. Len(finishedList) /\ finishedList[j - 1] = u
        BY <3>1, <3>3, <4>1
      <4> QED
        BY <4>2 DEF Listed
    <3>5. ASSUME Listed(u) PROVE Listed(u)'
      <4>1. PICK j \in 1 .. Len(finishedList) : finishedList[j] = u
        BY <3>5 DEF Listed
      <4>2. j + 1 \in 1 .. Len(finishedList') /\ finishedList'[j + 1] = u
        BY <3>1, <3>3, <4>1
      <4> QED
        BY <4>2 DEF Listed
    <3> QED
      BY <3>4, <3>5
  <2>2. CASE ~ReleaseItem(t)
    <3>1. finishedList' = finishedList
      BY <2>2 DEF ThreadStep, WaitWork, CallWrite, EndCompress, NextMethod, CompressFails, WriteReal,
         WriteBlock, WaitStop, WaitReal, WaitBlock, AllocateBlock, WriteToRealStream, ReleaseSem, FreeBlock,
         ReleaseBlock, mtSem
    <3> QED
      BY <3>1 DEF Listed
  <2> QED
    BY <2>1, <2>2
<1>3. (Collected(u)' <=> Collected(u)) /\ (Rests(u)' <=> Rests(u)) /\ (OnArchive(u)' <=> OnArchive(u))
      /\ Place(u)' = Place(u) /\ (Codes(u)' <=> Codes(u))
  BY <1>1 DEF Collected, Rests, OnArchive, Place, Codes
<1>4. WrittenBy(u)' = WrittenBy(u) /\ Data(u, WrittenBy(u))' = Data(u, WrittenBy(u))
  BY <1>1 DEF WrittenBy, Data
<1>5. DataFits(u)
  BY DEF IInv, ArchiveFits
<1>6. /\ coder[u].rest <= coder[u].units
      /\ Place(u)' \notin {"write", "allocate", "flush"} /\ coder'[u].result = OK => coder'[u].rest = 0
      /\ pc'[u] = "code" \/ (pc'[u] \in Resting /\ ~Rests(u)') => coder'[u].rest = 0
      /\ pc'[u] = "finish" \/ Listed(u)' \/ Collected(u)' =>
           (coder'[u].result = OK => coder'[u].packSize = coder'[u].units)
      /\ pc'[u] = "flush" => out'[u].real
      /\ pc'[u] \in Freeing => out'[u].real
      /\ OnArchive(u)' =>
           out'[u].size = 0 \/ (pc'[u] \in {"finish"} \cup Resting /\ coder'[u].result # OK)
      /\ Codes(u)' => coder'[u].result = OK
      /\ out'[u].real /\ pc'[u] \in Resting => Rests(u)'
  BY <1>1, <1>2, <1>3, <1>5 DEF DataFits, OnArchive
<1>7. ~OnArchive(u)' =>
       /\ Memory(out'[u]) /\ out'[u].size = WrittenBy(u)' /\ out'[u].pos = out'[u].size
       /\ InMemory(out'[u]) = Data(u, WrittenBy(u))'
  BY <1>1, <1>3, <1>4, <1>5 DEF DataFits
<1>8. DataFits(u)'
  BY <1>1, <1>6, <1>7 DEF DataFits, Memory, InMemory, Needed
<1>9. Shown(u)' = Shown(u)
  BY <1>3, <1>4 DEF Shown
<1> QED
  BY <1>3, <1>8, <1>9

HeadShown == Shown(Head(threadIndices))

LEMMA CurrentIs ==
  /\ Current = IF main.lastReal # main.item THEN <<>> ELSE <<Header(main.item)>> \o HeadShown
  /\ Current' = IF main'.lastReal # main'.item THEN <<>> ELSE <<Header(main'.item)>> \o HeadShown'
<1>1. Current = IF main.lastReal # main.item THEN <<>> ELSE <<Header(main.item)>> \o HeadShown
  BY DEF Current, Shown, HeadShown
<1>2. Current' = IF main'.lastReal # main'.item THEN <<>> ELSE <<Header(main.item)>>' \o HeadShown'
  BY DEF Current, Shown, HeadShown
<1> QED
  BY <1>1, <1>2 DEF Header

\* What is the same at the head, when the head stays what it is.
LEMMA HeadStays ==
  ASSUME NEW h, h = Head(threadIndices), threadIndices' = threadIndices, Shown(h)' = Shown(h)
  PROVE  HeadShown' = HeadShown
BY DEF HeadShown, Shown, OnArchive, Data, WrittenBy

\* A thread whose item has failed does no more for it.
LEMMA FailedRests ==
  ASSUME IInv, NEW t \in Threads, ThreadStep(t), Active(t), coder[t].result # OK
  PROVE  coder' = coder /\ (OnArchive(t)' <=> OnArchive(t)) /\ UNCHANGED failed
<1>1. ~Codes(t)
  BY DEF IInv, ArchiveFits, DataFits
<1>2. /\ pc[t] \in {"finish"} \cup Resting /\ (pc[t] \in Resting => Rests(t))
      /\ pc \in [Actors -> Labels] /\ t \in Actors
  <2>1. Place(t) \in ThreadPlaces /\ pc \in [Actors -> Labels]
    BY DEF IInv, Types, Places
  <2>2. Place(t) \notin {"code", "write", "allocate", "flush"} /\ (pc[t] \in Resting => Rests(t))
    BY <1>1 DEF Codes
  <2>3. Place(t) \in {"finish"} \cup Resting
    BY <2>1, <2>2 DEF ThreadPlaces
  <2>4. pc[t] \notin Freeing
    <3>1. Types
      BY DEF IInv
    <3> QED
      BY <2>3, <3>1, PlaceOfThread DEF Place, Resting
  <2> QED
    BY <2>1, <2>2, <2>3, <2>4 DEF Place, Actors
<1>3. WaitWork(t) \/ ReleaseItem(t) \/ ReleaseSem(t)
  BY <1>2 DEF ThreadStep, Resting, CallWrite, EndCompress, NextMethod, CompressFails, WriteReal, WriteBlock,
     WaitStop, WaitReal, WaitBlock, Waits, AllocateBlock, WriteToRealStream, FreeBlock, ReleaseBlock
<1>4. coder' = coder /\ out' = out /\ UNCHANGED failed
  BY <1>3 DEF WaitWork, ReleaseItem, ReleaseSem, output
<1>5. pc'[t] # "flush"
  BY <1>2, <1>3 DEF WaitWork, ReleaseItem, ReleaseSem, Goto
<1> QED
  BY <1>2, <1>4, <1>5 DEF OnArchive, Resting

\* A thread step keeps ArchiveFits, when it keeps what is said of its own data.
LEMMA ArchiveThread ==
  ASSUME IInv, NEW t \in Threads, ThreadStep(t), Active(t) => DataFits(t)', ArchiveKeeps(t)
  PROVE  ArchiveFits'
<1>0. /\ UNCHANGED <<main, threadIndices, refs, items, updateItems>> /\ NumItems' = NumItems
      /\ \A u \in Threads : /\ Active(u)' <=> Active(u)
                            /\ u # t => out'[u] = out[u] /\ coder'[u] = coder[u]
      /\ (failed => failed') /\ (hres => hres') /\ UNCHANGED dropped
      /\ failed' \in BOOLEAN /\ failed \in BOOLEAN
      /\ \A u \in Threads : /\ out'[u].unlockSent = out[u].unlockSent /\ out'[u].offset = out[u].offset
                            /\ coder'[u].item = coder[u].item
  <2>1. (failed => failed') /\ (hres => hres') /\ UNCHANGED dropped
    BY ThreadEffects DEF IInv
  <2>2. UNCHANGED <<main, threadIndices, refs, items, updateItems>> /\ NumItems' = NumItems
    BY ThreadFrame
  <2>3. Types' /\ failed \in BOOLEAN
    BY TypesThread DEF IInv, Types, MainTypes
  <2>4. OwnKept(t)
    BY ThreadEffects DEF IInv
  <2> QED
    BY <2>1, <2>2, <2>3, <2>4, ThreadFrame DEF Types, MainTypes, OwnKept
<1>1. \A u \in Threads : Active(u) /\ coder[u].result # OK =>
        coder'[u].result # OK /\ (OnArchive(u)' <=> OnArchive(u))
  BY <1>0, FailedRests, DataOther
<1>2. ASSUME NEW u \in Threads, Active(u), u # t PROVE DataFits(u)' /\ Shown(u)' = Shown(u)
  BY <1>2, DataOther
<1>3. \A u \in Threads : Active(u)' => DataFits(u)'
  BY <1>0, <1>2
<1>9. ASSUME NEW u \in Threads, Active(u), out[u].unlockSent PROVE PositionFits(u)'
  <2>1. CASE archive' = archive /\ Shown(u)' = Shown(u)
    <3>1. (OnArchive(u) /\ coder[u].result # OK) \/ Len(archive) = out[u].offset + Len(Shown(u))
      BY <1>9 DEF IInv, ArchiveFits, PositionFits
    <3> QED
      BY <1>0, <1>1, <1>9, <2>1, <3>1 DEF PositionFits
  <2>2. CASE u = t /\ ~UNCHANGED <<failed, archive>>
    BY <1>0, <2>2 DEF ArchiveKeeps, PositionFits
  <2>3. CASE u # t
    <3>1. ~(Active(t) /\ out[t].unlockSent)
      BY <1>9, <2>3, OneOnArchive
    <3> QED
      BY <1>2, <1>9, <2>1, <2>3, <3>1 DEF ArchiveKeeps
  <2>4. CASE u = t /\ UNCHANGED <<failed, archive>>
    BY <1>0, <1>9, <2>1, <2>4 DEF ArchiveKeeps, PositionFits
  <2> QED
    BY <2>2, <2>3, <2>4
<1>10. \A u \in Threads : PositionFits(u)'
  BY <1>0, <1>9 DEF PositionFits
<1>11. FailureSeen'
  <2>1. CASE failed
    BY <1>0, <1>1, <2>1 DEF IInv, ArchiveFits, FailureSeen
  <2>2. CASE ~failed /\ failed'
    <3>1. Active(t) /\ coder'[t].result # OK
      BY <2>2 DEF ArchiveKeeps
    <3> QED
      BY <1>0, <3>1 DEF FailureSeen
  <2>3. CASE ~failed'
    BY <2>3 DEF FailureSeen
  <2> QED
    BY <1>0, <2>1, <2>2, <2>3
<1>4. ItemsInOrder' /\ Written' = Written
  BY <1>0 DEF IInv, ArchiveFits, ItemsInOrder, Written
<1>5. \A i \in 1 .. NumItems' : RefFits(i)'
  BY <1>0 DEF IInv, ArchiveFits, RefFits, InMemory
<1>6. ASSUME ~Lost'
      PROVE  /\ archive' = Written \o Current'
             /\ main.lastReal = main.item =>
                  threadIndices # <<>> /\ coder'[Head(threadIndices)].item = main.item
             /\ \A u \in Threads : Active(u) /\ out'[u].unlockSent => out'[u].offset = Len(Written) + 1
  <2>0. /\ ~Lost /\ archive = Written \o Current
        /\ main.lastReal = main.item =>
                  threadIndices # <<>> /\ coder[Head(threadIndices)].item = main.item
        /\ \A u \in Threads : Active(u) /\ out[u].unlockSent => out[u].offset = Len(Written) + 1
    BY <1>0, <1>6 DEF IInv, ArchiveFits, Lost
  <2>1. PICK h : h = Head(threadIndices)
    OBVIOUS
  <2>2. main.lastReal = main.item => threadIndices # <<>> /\ h \in Threads /\ Active(h)
    <3>1. ASSUME main.lastReal = main.item
          PROVE  threadIndices # <<>> /\ h \in Threads /\ Active(h)
      <4>1. threadIndices # <<>> /\ threadIndices \in Seq(Threads)
        BY <2>0, <3>1, MainFacts
      <4>2. h = threadIndices[1] /\ 1 \in 1 .. Len(threadIndices) /\ h \in Threads
        BY <2>1, <4>1, HeadTailProperties
      <4> QED
        BY <4>1, <4>2 DEF Active
    <3> QED
      BY <3>1
  <2>3. main.lastReal = main.item =>
          threadIndices # <<>> /\ coder'[Head(threadIndices)].item = main.item
    BY <1>0, <2>0, <2>1, <2>2
  <2>4. archive' = Written \o Current'
    <3>1. CASE archive' = archive /\ (Active(t) => Shown(t)' = Shown(t))
      <4>1. main.lastReal = main.item => HeadShown' = HeadShown
        <5>1. main.lastReal = main.item => Shown(h)' = Shown(h)
          BY <1>2, <2>2, <3>1
        <5> QED
          BY <1>0, <2>1, <5>1, HeadStays
      <4>2. Current' = Current
        BY <1>0, <4>1, CurrentIs
      <4> QED
        BY <2>0, <3>1, <4>2
    <3>2. CASE /\ Active(t) /\ out[t].unlockSent
               /\ archive' = (Written \o <<Header(main.item)>>) \o Shown(t)'
      <4>1. t = h /\ main.lastReal = main.item /\ threadIndices # <<>>
        BY <2>0, <2>1, <3>2, OnTheArchive
      <4>2. HeadShown' = Shown(t)'
        BY <1>0, <2>1, <4>1 DEF HeadShown, Shown, OnArchive, Data, WrittenBy
      <4>3. Shown(t)' \in Seq(Unit)
        <5>1. Active(t)' /\ DataFits(t)' /\ Types'
          BY <1>0, <3>2, TypesThread
        <5>2. coder'[t] \in Coder
          BY <5>1 DEF Types, ThreadTypes
        <5>3. PICK c : c = coder'[t]
          OBVIOUS
        <5>4. c.rest <= c.units /\ c.item \in Nat /\ c.pass \in Nat /\ c.rest \in Nat /\ c.units \in Nat
          <6>1. MaxPasses \in Nat
            BY ConstantTypes
          <6> QED
            BY <5>1, <5>2, <5>3, <6>1 DEF DataFits, Coder
        <5>5. c.units - c.rest \in Nat
          BY <5>4
        <5>6. Units(c.item, c.pass, 1, c.units - c.rest) \in Seq(Unit)
          BY <5>4, <5>5, FirstUnits
        <5>7. <<>> \in Seq(Unit)
          OBVIOUS
        <5> QED
          BY <5>3, <5>6, <5>7 DEF Shown, Data, WrittenBy
      <4>4. Written \in Seq(Unit) /\ <<Header(main.item)>> \in Seq(Unit)
        <5>1. main.item \in Nat
          BY MainFacts
        <5>2. <<>> \in Seq(Unit)
          OBVIOUS
        <5> QED
          BY <5>1, <5>2, HeaderType, WrittenType DEF IInv
      <4>5. archive' = Written \o (<<Header(main.item)>> \o Shown(t)')
        <5> HIDE DEF Header, Unit
        <5> QED
          BY <3>2, <4>3, <4>4, ConcatAssociative
      <4> QED
        BY <1>0, <4>1, <4>2, <4>5, CurrentIs
    <3> QED
      BY <1>6, <3>1, <3>2 DEF ArchiveKeeps
  <2>5. \A u \in Threads : Active(u) /\ out'[u].unlockSent => out'[u].offset = Len(Written) + 1
    BY <1>0, <2>0
  <2> QED
    BY <2>3, <2>4, <2>5
<1>7. main'.result = OK => main'.item > NumItems' /\ ~failed'
  <2>1. ASSUME main.result = OK PROVE main.item > NumItems /\ ~failed'
    <3>1. main.item > NumItems /\ ~failed
      BY <2>1 DEF IInv, ArchiveFits
    <3>2. \A u \in Threads : ~Active(u)
      <4>1. ASSUME NEW u \in Threads, Active(u) PROVE FALSE
        <5>1. coder[u].item \in Pending
          BY <4>1 DEF IInv, Order
        <5> QED
          BY <3>1, <5>1, MainFacts DEF Pending
      <4> QED
        BY <4>1
    <3> QED
      BY <1>0, <3>1, <3>2 DEF ArchiveKeeps
  <2> QED
    BY <1>0, <2>1
<1>8. ~Lost' =>
       /\ archive' = Written' \o Current'
       /\ main'.lastReal = main'.item =>
            threadIndices' # <<>> /\ coder'[Head(threadIndices')].item = main'.item
       /\ \A u \in Threads : Active(u)' /\ out'[u].unlockSent => out'[u].offset = Len(Written') + 1
  BY <1>0, <1>4, <1>6
<1> QED
  BY <1>3, <1>4, <1>5, <1>7, <1>8, <1>10, <1>11 DEF ArchiveFits

\* A thread at work.
LEMMA OwnFacts ==
  ASSUME IInv, NEW t \in Threads, ThreadStep(t), pc[t] \notin Resting
  PROVE  /\ Active(t) /\ DataFits(t) /\ ~Collected(t)' /\ (UNCHANGED finishedList => ~Listed(t)')
         /\ pc \in [Actors -> Labels] /\ after \in [Actors -> {"loop", "write"}] /\ t \in Actors
         /\ out \in [Threads -> Stream] /\ coder \in [Threads -> Coder]
         /\ out[t] \in Stream /\ coder[t] \in Coder
         /\ coder[t].rest \in Nat /\ coder[t].units \in Nat /\ coder[t].rest <= coder[t].units
         /\ WrittenBy(t) \in Nat
         /\ pc[t] \notin Freeing => Place(t) = pc[t]
         /\ pc[t] # "finish" => coder[t].result = OK
<1>1. Active(t) /\ ~Listed(t) /\ ~Collected(t)
  BY AtWork DEF Rests
<1>2. DataFits(t)
  BY <1>1 DEF IInv, ArchiveFits
<1>3. ~Collected(t)' /\ (UNCHANGED finishedList => ~Listed(t)')
  BY <1>1, ThreadFrame DEF Collected, Listed
<1>4. WrittenBy(t) \in Nat /\ coder[t].rest \in Nat /\ coder[t].units \in Nat
  BY <1>1, WrittenByType
<1>5. pc[t] # "finish" => coder[t].result = OK
  BY <1>2, PlaceOfThread DEF DataFits, Codes, Place, ThreadPlaces, Freeing, IInv
<1> QED
  BY <1>1, <1>2, <1>3, <1>4, <1>5, MainFacts DEF DataFits, Place, Actors, IInv, Types, Places

LEMMA DataWaitWork ==
  ASSUME IInv, NEW t \in Threads, WaitWork(t) \/ ReleaseSem(t), Active(t)
  PROVE  DataFits(t)' /\ Shown(t)' = Shown(t)
<1>0. /\ ThreadStep(t) /\ DataFits(t) /\ pc[t] \in {"idle", "release"} /\ pc \in [Actors -> Labels] /\ t \in Actors
      /\ UNCHANGED <<out, coder, failed, finishedList, exitThread, after>>
      /\ compressEvent \in [Threads -> BOOLEAN]
  BY MainFacts DEF ThreadStep, WaitWork, ReleaseSem, Actors, IInv, ArchiveFits, output, mtSem, info, Types, ThreadTypes
<1>1. /\ Listed(t)' <=> Listed(t)
      /\ Collected(t)' <=> Collected(t)
  BY <1>0, ThreadFrame DEF Listed, Collected
<1>2. Shown(t)' = Shown(t) /\ (OnArchive(t)' <=> OnArchive(t))
  <2>1. pc'[t] # "flush" /\ pc[t] # "flush"
    BY <1>0 DEF WaitWork, ReleaseSem, Goto
  <2> QED
    BY <1>0, <2>1 DEF Shown, OnArchive, Data, WrittenBy
<1>3. CASE pc'[t] = "code"
  <2>1. ~Rests(t) /\ pc[t] = "idle"
    BY <1>0, <1>3 DEF WaitWork, ReleaseSem, Goto, Rests
  <2>2. ~Listed(t) /\ ~Collected(t)
    BY <2>1, AtWork
  <2>3. coder[t].rest = 0 /\ ~out[t].real /\ coder[t].result = OK
    BY <1>0, <2>1 DEF DataFits, Resting, Codes
  <2> QED
    BY <1>0, <1>1, <1>2, <1>3, <2>1, <2>2, <2>3
       DEF DataFits, OnArchive, Place, Freeing, Resting, Data, WrittenBy, Memory, InMemory, Needed
<1>4. CASE pc'[t] # "code"
  <2>1. pc'[t] \in {"exited", "idle"}
    BY <1>0, <1>4 DEF WaitWork, ReleaseSem, Goto
  <2>2. Rests(t) => Rests(t)'
    BY <1>0, <2>1 DEF WaitWork, ReleaseSem, Goto, Rests, Resting, info
  <2>3. Codes(t)' => Codes(t)
    BY <1>0, <2>1, <2>2 DEF Codes, Place, Resting, Freeing
  <2> QED
    BY <1>0, <1>1, <1>2, <2>1, <2>2, <2>3
       DEF DataFits, OnArchive, Place, Freeing, Resting, Data, WrittenBy, Memory, InMemory, Needed
<1> QED
  BY <1>2, <1>3, <1>4

\* What is to be shown of a step to another place of work, and of one to the end.
LEMMA FitsAtWork ==
  ASSUME IInv, NEW t \in Threads, ThreadStep(t), pc[t] \notin Resting, UNCHANGED finishedList,
         pc'[t] \notin Resting \cup {"finish"},
         coder'[t].rest <= coder'[t].units,
         Place(t)' \in {"write", "allocate", "flush"} \/ coder'[t].rest = 0,
         pc'[t] \in Freeing \cup {"flush"} => out'[t].real,
         OnArchive(t)' => out'[t].size = 0, coder'[t].result = OK,
         ~OnArchive(t)' =>
           /\ Memory(out'[t]) /\ out'[t].size = WrittenBy(t)' /\ out'[t].pos = out'[t].size
           /\ InMemory(out'[t]) = Data(t, WrittenBy(t))'
  PROVE  DataFits(t)'
<1>1. ~Listed(t)' /\ ~Collected(t)'
  BY OwnFacts
<1>2. pc'[t] = "code" => Place(t)' = "code"
  BY DEF Place, Freeing
<1> QED
  BY <1>1, <1>2 DEF DataFits, Resting, Memory, InMemory, Needed

LEMMA FitsAtEnd ==
  ASSUME IInv, NEW t \in Threads, ThreadStep(t), pc[t] \notin Resting, UNCHANGED finishedList,
         pc'[t] = "finish",
         coder'[t].rest <= coder'[t].units,
         coder'[t].result = OK => coder'[t].rest = 0 /\ coder'[t].packSize = coder'[t].units,
         OnArchive(t)' => coder'[t].result # OK \/ out'[t].size = 0,
         ~OnArchive(t)' =>
           /\ Memory(out'[t]) /\ out'[t].size = WrittenBy(t)' /\ out'[t].pos = out'[t].size
           /\ InMemory(out'[t]) = Data(t, WrittenBy(t))'
  PROVE  DataFits(t)'
<1>1. ~Listed(t)' /\ ~Collected(t)'
  BY OwnFacts
<1> QED
  BY <1>1 DEF DataFits, Resting, Freeing, Memory, InMemory, Needed, Codes, Place

LEMMA DataCallWrite ==
  ASSUME IInv, NEW t \in Threads, CallWrite(t)
  PROVE  DataFits(t)' /\ Shown(t)' = Shown(t)
<1>0. ThreadStep(t) /\ pc[t] = "code" /\ pc[t] \notin Resting
  BY DEF ThreadStep, CallWrite, Resting
<1>1. PICK n \in WriteSizes : coder' = [coder EXCEPT ![t] = [coder[t] EXCEPT !.units = @ + n, !.rest = n]]
  BY DEF CallWrite, SetCoder
<1>2. /\ pc'[t] = "write" /\ UNCHANGED <<out, finishedList, failed>> /\ n \in Nat /\ coder[t].rest = 0
  BY <1>0, OwnFacts, ConstantTypes DEF CallWrite, Goto, mtSem, output, DataFits
<1>3. /\ coder'[t].units = coder[t].units + n /\ coder'[t].rest = n /\ coder'[t].item = coder[t].item
      /\ coder'[t].pass = coder[t].pass /\ coder'[t].result = OK
  BY <1>0, <1>1, OwnFacts DEF Coder
<1>4. WrittenBy(t)' = WrittenBy(t) /\ coder'[t].rest <= coder'[t].units
  BY <1>0, <1>2, <1>3, OwnFacts DEF WrittenBy
<1>5. Data(t, WrittenBy(t))' = Data(t, WrittenBy(t)) /\ (OnArchive(t)' <=> OnArchive(t))
  BY <1>0, <1>2, <1>3, <1>4 DEF Data, OnArchive
<1>6. Shown(t)' = Shown(t)
  BY <1>5 DEF Shown
<1>7. OnArchive(t)' => out'[t].size = 0
  BY <1>0, <1>2, <1>5, OwnFacts DEF DataFits, OnArchive, Resting
<1>8. ~OnArchive(t)' =>
       /\ Memory(out'[t]) /\ out'[t].size = WrittenBy(t)' /\ out'[t].pos = out'[t].size
       /\ InMemory(out'[t]) = Data(t, WrittenBy(t))'
  BY <1>0, <1>2, <1>4, <1>5, OwnFacts DEF DataFits
<1>9. /\ Place(t)' = "write" /\ pc'[t] \notin Resting \cup {"finish"}
      /\ pc'[t] \notin Freeing \cup {"flush"}
  BY <1>2 DEF Place, Freeing, Resting
<1>10. DataFits(t)'
  BY <1>0, <1>2, <1>3, <1>4, <1>7, <1>8, <1>9, FitsAtWork
<1> QED
  BY <1>6, <1>10

\* Compress comes to its end, or fails.
LEMMA DataEnd ==
  ASSUME IInv, NEW t \in Threads, EndCompress(t) \/ CompressFails(t)
  PROVE  DataFits(t)' /\ Shown(t)' = Shown(t)
<1>0. ThreadStep(t) /\ pc[t] = "code" /\ pc[t] \notin Resting
  BY DEF ThreadStep, EndCompress, CompressFails, Resting
<1>1. /\ pc'[t] = "finish" /\ UNCHANGED <<out, finishedList, failed>> /\ coder[t].rest = 0
  BY <1>0, OwnFacts DEF EndCompress, CompressFails, Return, Goto, mtSem, output, DataFits
<1>2. /\ coder'[t].units = coder[t].units /\ coder'[t].rest = 0 /\ coder'[t].item = coder[t].item
      /\ coder'[t].pass = coder[t].pass
      /\ coder'[t].result = OK => coder'[t].packSize = coder[t].units
  <2>1. CASE EndCompress(t)
    <3>1. coder' = [coder EXCEPT ![t] = [coder[t] EXCEPT !.packSize = Position(t), !.result = OK]]
      BY <2>1 DEF EndCompress, SetCoder
    <3>2. Position(t) = coder[t].units
      BY <1>0, PositionIs
    <3> QED
      BY <1>0, <1>1, <3>1, <3>2, OwnFacts DEF Coder
  <2>2. CASE CompressFails(t)
    <3>1. coder' = [coder EXCEPT ![t] = [coder[t] EXCEPT !.result = "code"]]
      BY <2>2 DEF CompressFails, Return, SetCoder
    <3> QED
      BY <1>0, <1>1, <3>1, OwnFacts DEF Coder, OK
  <2> QED
    BY <2>1, <2>2
<1>4. WrittenBy(t)' = WrittenBy(t) /\ coder'[t].rest <= coder'[t].units
  BY <1>0, <1>1, <1>2, OwnFacts DEF WrittenBy
<1>5. Data(t, WrittenBy(t))' = Data(t, WrittenBy(t)) /\ (OnArchive(t)' <=> OnArchive(t))
  BY <1>0, <1>1, <1>2, <1>4 DEF Data, OnArchive
<1>6. Shown(t)' = Shown(t)
  BY <1>5 DEF Shown
<1>7. OnArchive(t)' => out'[t].size = 0
  BY <1>0, <1>1, <1>5, OwnFacts DEF DataFits, OnArchive, Resting
<1>8. ~OnArchive(t)' =>
       /\ Memory(out'[t]) /\ out'[t].size = WrittenBy(t)' /\ out'[t].pos = out'[t].size
       /\ InMemory(out'[t]) = Data(t, WrittenBy(t))'
  BY <1>0, <1>1, <1>4, <1>5, OwnFacts DEF DataFits
<1>9. DataFits(t)'
  BY <1>0, <1>1, <1>2, <1>4, <1>7, <1>8, FitsAtEnd
<1> QED
  BY <1>6, <1>9

LEMMA DataNextMethod ==
  ASSUME IInv, NEW t \in Threads, NextMethod(t)
  PROVE  DataFits(t)' /\ ArchiveKeeps(t)
<1>0. ThreadStep(t) /\ pc[t] = "code" /\ pc[t] \notin Resting
  BY DEF ThreadStep, NextMethod, Resting
<1>1. /\ pc' = pc /\ UNCHANGED <<finishedList, failed>> /\ coder[t].rest = 0
  BY <1>0, OwnFacts DEF NextMethod, mtSem, DataFits
<1>2. /\ coder'[t].units = 0 /\ coder'[t].rest = 0 /\ coder'[t].pass \in Nat /\ coder'[t].item \in Nat
      /\ coder'[t].result = OK
  <2>1. coder' = [coder EXCEPT ![t] = [coder[t] EXCEPT !.pass = @ + 1, !.units = 0]]
    BY DEF NextMethod, SetCoder
  <2>2. MaxPasses \in Nat
    BY ConstantTypes
  <2> QED
    BY <1>0, <1>1, <2>1, <2>2, OwnFacts DEF Coder
<1>3. WrittenBy(t)' = 0 /\ coder'[t].rest <= coder'[t].units
  BY <1>2 DEF WrittenBy
<1>4. Data(t, WrittenBy(t))' = <<>>
  <2>1. PICK c : c = coder'[t]
    OBVIOUS
  <2>2. Len(Units(c.item, c.pass, 1, 0)) = 0 /\ Units(c.item, c.pass, 1, 0) \in Seq(Unit)
    <3>1. PICK i, p, n : i = c.item /\ p = c.pass /\ n = 0
      OBVIOUS
    <3>2. i \in Nat /\ p \in Nat /\ n \in Nat
      BY <1>2, <2>1, <3>1
    <3>3. Units(i, p, 1, n) \in Seq(Unit) /\ Len(Units(i, p, 1, n)) = n
      BY <3>2, FirstUnits
    <3> QED
      BY <3>1, <3>3
  <2>3. Units(c.item, c.pass, 1, 0) = <<>>
    BY <2>2
  <2> QED
    BY <1>3, <2>1, <2>3 DEF Data
<1>5. Shown(t)' = <<>>
  BY <1>4 DEF Shown
<1>6. Place(t)' = "code" /\ pc'[t] \notin Resting \cup {"finish"} /\ pc'[t] \notin Freeing \cup {"flush"}
  BY <1>0, <1>1 DEF Place, Freeing, Resting
<1>7. CASE out[t].real
  <2>1. out' = out /\ archive' = SubSeq(archive, 1, out[t].offset)
    BY <1>7 DEF NextMethod
  <2>2. /\ Active(t) /\ out[t].unlockSent /\ OnArchive(t) /\ out[t].size = 0
        /\ out[t].offset \in Nat /\ out[t].offset <= Len(archive)
    BY <1>0, <1>7, AtCode
  <2>3. OnArchive(t)' /\ out'[t].size = 0
    BY <1>0, <1>1, <1>7, <2>1, <2>2 DEF OnArchive
  <2>4. DataFits(t)'
    BY <1>0, <1>1, <1>2, <1>3, <1>6, <2>2, <2>3, FitsAtWork
  <2>5. ASSUME ~Lost' PROVE archive' = (Written \o <<Header(main.item)>>) \o Shown(t)'
    <3>1. ~Lost
      BY <1>0, <1>1, <2>5, ThreadEffects DEF Lost, IInv
    <3>2. archive' = Written \o <<Header(main.item)>>
      BY <1>0, <1>7, <2>1, <3>1, BeforeTheUnits
    <3>3. Written \o <<Header(main.item)>> \in Seq(Unit)
      BY <2>2, <3>1, OnTheArchive
    <3> QED
      BY <1>5, <3>2, <3>3, ConcatEmptySeq
  <2>6. Len(archive') = out[t].offset + Len(Shown(t)')
    <3>1. PICK a, n : a = archive /\ n = out[t].offset
      OBVIOUS
    <3>2. a \in Seq(Unit) /\ n \in Nat /\ n <= Len(a)
      BY <2>2, <3>1 DEF IInv, Types, MainTypes
    <3>3. Len(SubSeq(a, 1, n)) = n
      BY <3>2
    <3> QED
      BY <1>5, <2>1, <3>1, <3>2, <3>3
  <2> QED
    BY <1>1, <2>2, <2>4, <2>5, <2>6 DEF ArchiveKeeps
<1>8. CASE ~out[t].real
  <2>1. out' = [out EXCEPT ![t] = [out[t] EXCEPT !.pos = 0, !.size = 0]] /\ archive' = archive
    BY <1>8 DEF NextMethod, SetOut, Rewound
  <2>2. /\ out'[t].pos = 0 /\ out'[t].size = 0 /\ ~out'[t].real /\ out'[t].blocks = out[t].blocks
        /\ out'[t].cells = out[t].cells /\ out[t].blocks \in Nat /\ out[t].cells \in Seq(Unit)
    BY <1>0, <1>8, <2>1, OwnFacts DEF Stream
  <2>3. ~OnArchive(t) /\ ~OnArchive(t)'
    BY <1>8, <2>2 DEF OnArchive
  <2>4. Needed(out'[t]) <= out'[t].blocks
    <3>1. ((0 + BlockSize - 1) \div BlockSize) <= out'[t].blocks
      BY <2>2, ConstantTypes, BlocksNeeded
    <3> QED
      BY <2>2, <3>1 DEF Needed
  <2>5. Memory(out'[t]) /\ InMemory(out'[t]) = <<>>
    <3>1. InMemory(out'[t]) \in Seq(Unit) /\ Len(InMemory(out'[t])) = 0 /\ 0 <= Len(out'[t].cells)
      BY <2>2, InMemoryType
    <3> QED
      BY <2>2, <2>4, <3>1 DEF Memory
  <2>6. DataFits(t)'
    BY <1>0, <1>1, <1>2, <1>3, <1>4, <1>6, <2>2, <2>3, <2>5, FitsAtWork
  <2>7. Shown(t) = <<>>
    BY <2>3 DEF Shown
  <2> QED
    BY <1>1, <1>5, <2>1, <2>6, <2>7 DEF ArchiveKeeps
<1> QED
  BY <1>7, <1>8

\* COutMemStream::Write with the archive.
LEMMA DataWriteReal ==
  ASSUME IInv, NEW t \in Threads, WriteReal(t)
  PROVE  DataFits(t)' /\ ArchiveKeeps(t)
<1>0. ThreadStep(t) /\ pc[t] = "write" /\ pc[t] \notin Resting /\ out[t].real /\ UNCHANGED <<out, finishedList>>
  BY DEF ThreadStep, WriteReal, Resting, mtSem
<1>1. /\ Active(t) /\ out[t].unlockSent /\ OnArchive(t) /\ coder[t].result = OK
      /\ out[t].offset \in Nat /\ Len(archive) = out[t].offset + WrittenBy(t)
  BY <1>0, AtCode
<1>2. out[t].size = 0 /\ out'[t].real
  BY <1>0, AtCode
<1>3. CASE Append2(NextUnits(t, coder[t].rest)) /\ SetCoder(t, [coder[t] EXCEPT !.rest = 0]) /\ Goto(t, "code")
  <2>1. pc'[t] = "code" /\ OnArchive(t)' /\ failed' = failed /\ Place(t)' = "code"
    BY <1>0, <1>1, <1>2, <1>3, OwnFacts DEF Goto, OnArchive, Append2, Place, Freeing
  <2>2. /\ coder'[t].rest = 0 /\ coder'[t].units = coder[t].units /\ coder'[t].item = coder[t].item
        /\ coder'[t].pass = coder[t].pass /\ coder'[t].result = OK
    BY <1>0, <1>1, <1>3, OwnFacts DEF SetCoder, Coder
  <2>3. DataFits(t)'
    <3>1. coder'[t].rest <= coder'[t].units
      BY <1>0, <2>2, OwnFacts
    <3> QED
      BY <1>0, <1>2, <2>1, <2>2, <3>1, FitsAtWork DEF Resting, Freeing
  <2>4. Data(t, WrittenBy(t)) \o NextUnits(t, coder[t].rest) = Shown(t)'
    <3>1. PICK n \in 0 .. coder[t].rest : n = coder[t].rest
      BY <1>0, OwnFacts
    <3>2. Data(t, WrittenBy(t)) \o NextUnits(t, n) = Data(t, WrittenBy(t) + n)
      BY <1>1, NextUnitsType
    <3>3. WrittenBy(t)' = WrittenBy(t) + n
      BY <1>0, <2>2, <3>1, OwnFacts DEF WrittenBy
    <3>4. Shown(t)' = Data(t, WrittenBy(t) + n)
      BY <2>1, <2>2, <3>3 DEF Shown, Data
    <3> QED
      BY <3>1, <3>2, <3>4
  <2>5. archive' = archive \o NextUnits(t, coder[t].rest) /\ archive \in Seq(Unit)
    BY <1>3 DEF Append2, IInv, Types, MainTypes
  <2>6. /\ Data(t, WrittenBy(t)) \in Seq(Unit) /\ Len(Data(t, WrittenBy(t))) = WrittenBy(t)
        /\ NextUnits(t, coder[t].rest) \in Seq(Unit) /\ WrittenBy(t) \in Nat
    <3>1. coder[t].rest \in 0 .. coder[t].rest
      BY <1>0, OwnFacts
    <3> QED
      BY <1>1, <3>1, NextUnitsType, WrittenByType
  <2>7. PICK b, c : b = Data(t, WrittenBy(t)) /\ c = NextUnits(t, coder[t].rest)
    OBVIOUS
  <2>8. ASSUME ~Lost' PROVE archive' = (Written \o <<Header(main.item)>>) \o Shown(t)'
    <3>1. ~Lost
      BY <1>0, <2>1, <2>8, ThreadEffects DEF Lost, IInv
    <3>2. PICK a : a = Written \o <<Header(main.item)>>
      OBVIOUS
    <3>3. a \in Seq(Unit) /\ archive = a \o b
      BY <1>1, <2>7, <3>1, <3>2, OnTheArchive
    <3>4. (a \o b) \o c = a \o (b \o c)
      BY <2>6, <2>7, <3>3, ConcatAssociative
    <3> QED
      BY <2>4, <2>5, <2>7, <3>2, <3>3, <3>4
  <2>9. Len(archive') = out[t].offset + Len(Shown(t)')
    <3>1. Len(archive \o c) = Len(archive) + Len(c) /\ Len(b \o c) = Len(b) + Len(c) /\ Len(c) \in Nat
      BY <2>5, <2>6, <2>7, ConcatProperties
    <3>2. Len(b) = WrittenBy(t) /\ Shown(t)' = b \o c /\ archive' = archive \o c
      BY <2>4, <2>5, <2>6, <2>7
    <3> QED
      BY <1>1, <2>6, <3>1, <3>2
  <2> QED
    BY <1>1, <2>1, <2>3, <2>8, <2>9 DEF ArchiveKeeps
<1>4. CASE WriteFails /\ Return(t, "write")
  <2>1. failed' /\ pc'[t] = "finish" /\ OnArchive(t)'
    BY <1>0, <1>2, <1>4, OwnFacts DEF WriteFails, KeptFails, RefusedFails, Return, Goto, OnArchive
  <2>2. /\ coder'[t].result = "write" /\ coder'[t].rest = coder[t].rest /\ coder'[t].units = coder[t].units
    BY <1>0, <1>4, OwnFacts DEF Return, SetCoder, Coder
  <2>3. DataFits(t)'
    <3>1. coder'[t].result # OK
      BY <2>2 DEF OK
    <3> QED
      BY <1>0, <2>1, <2>2, <3>1, OwnFacts, FitsAtEnd
  <2> QED
    BY <1>1, <2>1, <2>2, <2>3 DEF ArchiveKeeps, Lost, OK
<1> QED
  BY <1>3, <1>4 DEF WriteReal

\* The data in memory goes to the archive.
LEMMA DataFlush ==
  ASSUME IInv, NEW t \in Threads, WriteToRealStream(t)
  PROVE  DataFits(t)' /\ ArchiveKeeps(t)
<1>0. ThreadStep(t) /\ pc[t] = "flush" /\ pc[t] \notin Resting /\ UNCHANGED finishedList
  BY DEF ThreadStep, WriteToRealStream, Resting, mtSem
<1>1. Active(t) /\ out[t].real /\ out[t].unlockSent /\ ~OnArchive(t)
  BY <1>0, OwnFacts DEF DataFits, OnArchive, IInv, Turns
<1>2. InMemory(out[t]) = Data(t, WrittenBy(t)) /\ coder[t].result = OK
  BY <1>0, <1>1, OwnFacts DEF DataFits
<1>3. CASE Append2(InMemory(out[t])) /\ FreeAndGoto(t, out[t].blocks, "write")
           /\ SetOut(t, Emptied(out[t])) /\ UNCHANGED coder
  <2>1. /\ pc'[t] \in {"write", "free"} /\ after'[t] = "write" /\ failed' = failed
        /\ archive' = archive \o InMemory(out[t])
    BY <1>0, <1>3, OwnFacts DEF FreeAndGoto, Goto, Append2
  <2>2. out'[t].real /\ out'[t].size = 0
    BY <1>0, <1>1, <1>3, OwnFacts DEF SetOut, Emptied, Stream
  <2>3. OnArchive(t)' /\ Place(t)' = "write"
    BY <2>1, <2>2 DEF OnArchive, Place, Freeing
  <2>4. DataFits(t)'
    BY <1>0, <1>2, <1>3, <2>1, <2>2, <2>3, OwnFacts, FitsAtWork DEF Resting
  <2>5. Shown(t)' = Data(t, WrittenBy(t))
    BY <1>3, <2>3 DEF Shown, Data, WrittenBy
  <2>6. ASSUME ~Lost' PROVE archive' = (Written \o <<Header(main.item)>>) \o Shown(t)'
    <3>0. ~Lost
      BY <1>0, <2>1, <2>6, ThreadEffects DEF Lost, IInv
    <3>1. /\ Written \o <<Header(main.item)>> \in Seq(Unit)
          /\ archive = (Written \o <<Header(main.item)>>) \o <<>>
      BY <1>1, <3>0, OnTheArchive
    <3>2. archive = Written \o <<Header(main.item)>>
      BY <3>1, ConcatEmptySeq
    <3> QED
      BY <1>2, <2>1, <2>5, <3>2
  <2>7. Len(archive') = out[t].offset + Len(Shown(t)')
    <3>1. Len(archive) = out[t].offset + Len(Shown(t)) /\ Shown(t) = <<>>
      BY <1>1 DEF IInv, ArchiveFits, PositionFits, Shown
    <3>2. archive \in Seq(Unit) /\ Data(t, WrittenBy(t)) \in Seq(Unit) /\ out[t].offset \in Nat
      BY <1>0, <1>1, WrittenByType, OwnFacts DEF IInv, Types, MainTypes, Stream
    <3>3. Len(archive \o Data(t, WrittenBy(t))) = Len(archive) + Len(Data(t, WrittenBy(t)))
      BY <3>2, ConcatProperties
    <3> QED
      BY <1>2, <2>1, <2>5, <3>1, <3>2, <3>3
  <2> QED
    BY <1>1, <2>1, <2>4, <2>6, <2>7 DEF ArchiveKeeps
<1>4. CASE WriteFails /\ Return(t, "write") /\ UNCHANGED out
  <2>1. failed' /\ pc'[t] = "finish" /\ OnArchive(t)'
    BY <1>0, <1>1, <1>4, OwnFacts DEF WriteFails, KeptFails, RefusedFails, Return, Goto, OnArchive
  <2>2. /\ coder'[t].result = "write" /\ coder'[t].rest = coder[t].rest /\ coder'[t].units = coder[t].units
    BY <1>0, <1>4, OwnFacts DEF Return, SetCoder, Coder
  <2>3. DataFits(t)'
    <3>1. coder'[t].result # OK
      BY <2>2 DEF OK
    <3> QED
      BY <1>0, <2>1, <2>2, <3>1, OwnFacts, FitsAtEnd
  <2> QED
    BY <1>1, <2>1, <2>2, <2>3 DEF ArchiveKeeps, Lost, OK
<1> QED
  BY <1>3, <1>4 DEF WriteToRealStream

\* A step that leaves the coder, the data in memory and the archive as they are.
LEMMA DataSame ==
  ASSUME IInv, NEW t \in Threads, ThreadStep(t), pc[t] \notin Resting \cup {"finish"},
         UNCHANGED <<finishedList, output>>,
         coder'[t].units = coder[t].units, coder'[t].rest = coder[t].rest,
         coder'[t].item = coder[t].item, coder'[t].pass = coder[t].pass,
         out'[t].size = out[t].size, out'[t].pos = out[t].pos, out'[t].cells = out[t].cells,
         out[t].blocks <= out'[t].blocks, out'[t].blocks \in Nat,
         OnArchive(t)' <=> OnArchive(t),
         \/ pc'[t] = "finish" /\ coder'[t].result # OK
         \/ /\ Place(t)' \in {"write", "allocate", "flush"} /\ coder'[t].result = coder[t].result
            /\ pc'[t] \in Freeing \cup {"flush"} => out'[t].real
  PROVE  DataFits(t)' /\ Shown(t)' = Shown(t)
<1>1. WrittenBy(t)' = WrittenBy(t)
  BY DEF WrittenBy
<1>2. Data(t, WrittenBy(t))' = Data(t, WrittenBy(t))
  BY <1>1 DEF Data
<1>3. Shown(t)' = Shown(t)
  BY <1>2 DEF Shown
<1>4. OnArchive(t)' => out'[t].size = 0
  BY OwnFacts DEF DataFits
<1>5. ASSUME ~OnArchive(t)'
      PROVE  /\ Memory(out'[t]) /\ out'[t].size = WrittenBy(t)' /\ out'[t].pos = out'[t].size
             /\ InMemory(out'[t]) = Data(t, WrittenBy(t))'
  <2>1. /\ Memory(out[t]) /\ out[t].size = WrittenBy(t) /\ out[t].pos = out[t].size
        /\ InMemory(out[t]) = Data(t, WrittenBy(t))
    BY <1>5, OwnFacts DEF DataFits
  <2>2. InMemory(out'[t]) = InMemory(out[t]) /\ Needed(out'[t]) = Needed(out[t])
    BY DEF InMemory, Needed
  <2>3. out[t].size \in Nat /\ out[t].blocks \in Nat /\ Needed(out[t]) \in Nat
    <3>1. out[t].size \in Nat /\ out[t].blocks \in Nat
      BY OwnFacts DEF Stream
    <3> QED
      BY <3>1, ConstantTypes, BlocksNeeded DEF Needed
  <2>4. Memory(out'[t])
    BY <2>1, <2>2, <2>3 DEF Memory
  <2> QED
    BY <1>1, <1>2, <2>1, <2>2, <2>4
<1>6. coder'[t].rest <= coder'[t].units
  BY OwnFacts
<1>7. CASE pc'[t] = "finish" /\ coder'[t].result # OK
  BY <1>3, <1>4, <1>5, <1>6, <1>7, FitsAtEnd
<1>8. CASE /\ Place(t)' \in {"write", "allocate", "flush"} /\ coder'[t].result = coder[t].result
           /\ pc'[t] \in Freeing \cup {"flush"} => out'[t].real
  <2>1. pc'[t] \notin Resting \cup {"finish"}
    BY <1>8 DEF Place, Freeing, Resting
  <2>2. coder'[t].result = OK
    BY <1>8, OwnFacts
  <2> QED
    BY <1>3, <1>4, <1>5, <1>6, <1>8, <2>1, <2>2, FitsAtWork
<1> QED
  BY <1>7, <1>8

\* The waiting of COutMemStream::Write, and the freeing of what was written.
LEMMA DataWaits ==
  ASSUME IInv, NEW t \in Threads,
         WaitStop(t) \/ WaitReal(t) \/ WaitBlock(t) \/ AllocateBlock(t) \/ FreeBlock(t) \/ ReleaseBlock(t)
  PROVE  DataFits(t)' /\ Shown(t)' = Shown(t)
<1>0. /\ ThreadStep(t) /\ pc[t] \notin Resting \cup {"finish"} /\ pc[t] \notin Resting
      /\ UNCHANGED <<finishedList, output>>
  BY DEF ThreadStep, WaitStop, WaitReal, WaitBlock, Waits, AllocateBlock, FreeBlock, ReleaseBlock, Resting, mtSem
<1>00. /\ out[t] \in Stream /\ coder[t] \in Coder /\ out \in [Threads -> Stream]
       /\ coder \in [Threads -> Coder] /\ pc \in [Actors -> Labels] /\ t \in Actors /\ out[t].blocks \in Nat
  BY <1>0, OwnFacts DEF Stream
<1>1. CASE WaitStop(t)
  <2>1. /\ out' = [out EXCEPT ![t] = [out[t] EXCEPT !.stopEvent = FALSE]]
        /\ coder' = [coder EXCEPT ![t] = [coder[t] EXCEPT !.result = "E_ABORT"]]
        /\ pc'[t] = "finish" /\ ~out[t].real
    BY <1>00, <1>1 DEF WaitStop, Waits, SetOut, Return, SetCoder, Goto
  <2>2. /\ coder'[t].units = coder[t].units /\ coder'[t].rest = coder[t].rest
        /\ coder'[t].item = coder[t].item /\ coder'[t].pass = coder[t].pass /\ coder'[t].result # OK
    BY <1>00, <2>1 DEF Coder, OK
  <2>3. /\ out'[t].size = out[t].size /\ out'[t].pos = out[t].pos /\ out'[t].cells = out[t].cells
        /\ out'[t].blocks = out[t].blocks /\ out'[t].real = out[t].real
    BY <1>00, <2>1 DEF Stream
  <2>4. ~OnArchive(t) /\ ~OnArchive(t)'
    BY <2>1, <2>3 DEF OnArchive
  <2> QED
    BY <1>0, <1>00, <2>1, <2>2, <2>3, <2>4, DataSame
<1>2. CASE WaitReal(t)
  <2>1. /\ out' = [out EXCEPT ![t] = [out[t] EXCEPT !.realEvent = FALSE, !.real = TRUE]]
        /\ coder' = coder /\ pc'[t] = "flush" /\ ~out[t].real
    BY <1>00, <1>2 DEF WaitReal, Waits, SetOut, Goto
  <2>2. /\ out'[t].size = out[t].size /\ out'[t].pos = out[t].pos /\ out'[t].cells = out[t].cells
        /\ out'[t].blocks = out[t].blocks /\ out'[t].real
    BY <1>00, <2>1 DEF Stream
  <2>3. ~OnArchive(t) /\ ~OnArchive(t)' /\ Place(t)' = "flush"
    BY <2>1, <2>2 DEF OnArchive, Place, Freeing
  <2> QED
    BY <1>0, <1>00, <2>1, <2>2, <2>3, DataSame
<1>3. CASE WaitBlock(t)
  <2>1. out' = out /\ coder' = coder /\ pc'[t] = "allocate" /\ ~out[t].real
    BY <1>00, <1>3 DEF WaitBlock, Waits, Goto
  <2>2. ~OnArchive(t) /\ ~OnArchive(t)' /\ Place(t)' = "allocate"
    BY <2>1 DEF OnArchive, Place, Freeing
  <2> QED
    BY <1>0, <1>00, <2>1, <2>2, DataSame DEF Freeing
<1>4. CASE AllocateBlock(t)
  <2>1. CASE Return(t, "E_FAIL") /\ out' = out
    <3>1. /\ coder' = [coder EXCEPT ![t] = [coder[t] EXCEPT !.result = "E_FAIL"]] /\ pc'[t] = "finish"
          /\ pc[t] = "allocate"
      BY <1>00, <1>4, <2>1 DEF Return, SetCoder, Goto, AllocateBlock
    <3>2. /\ coder'[t].units = coder[t].units /\ coder'[t].rest = coder[t].rest
          /\ coder'[t].item = coder[t].item /\ coder'[t].pass = coder[t].pass /\ coder'[t].result # OK
      BY <1>00, <3>1 DEF Coder, OK
    <3>3. OnArchive(t)' <=> OnArchive(t)
      BY <2>1, <3>1 DEF OnArchive
    <3> QED
      BY <1>0, <1>00, <2>1, <3>1, <3>2, <3>3, DataSame
  <2>2. CASE SetOut(t, [out[t] EXCEPT !.blocks = @ + 1]) /\ Goto(t, "write") /\ UNCHANGED coder
    <3>1. pc'[t] = "write" /\ pc[t] = "allocate"
      BY <1>00, <1>4, <2>2 DEF Goto, AllocateBlock
    <3>2. /\ out'[t].size = out[t].size /\ out'[t].pos = out[t].pos /\ out'[t].cells = out[t].cells
          /\ out'[t].blocks = out[t].blocks + 1 /\ out'[t].real = out[t].real
      BY <1>00, <2>2 DEF SetOut, Stream
    <3>3. (OnArchive(t)' <=> OnArchive(t)) /\ Place(t)' = "write"
      BY <3>1, <3>2 DEF OnArchive, Place, Freeing
    <3>4. out[t].blocks <= out'[t].blocks /\ out'[t].blocks \in Nat
      BY <1>00, <3>2
    <3> QED
      BY <1>0, <2>2, <3>1, <3>2, <3>3, <3>4, DataSame DEF Freeing
  <2> QED
    BY <1>4, <2>1, <2>2 DEF AllocateBlock
<1>5. CASE FreeBlock(t) \/ ReleaseBlock(t)
  <2>1. /\ out' = out /\ coder' = coder /\ pc[t] \in Freeing /\ out[t].real /\ pc'[t] # "flush"
        /\ Place(t) = "write" /\ Place(t)' = "write"
    <3>1. pc[t] \in Freeing /\ out' = out /\ coder' = coder
      BY <1>5 DEF FreeBlock, ReleaseBlock, Freeing
    <3>2. after[t] = "write" /\ Place(t) = "write" /\ Place(t)' = Place(t)
      BY <1>00, <1>5, <3>1, PlaceOfThread, PlacesFreeBlock DEF Place, IInv, Types
    <3>3. pc'[t] # "flush"
      BY <1>00, <1>5, <3>2 DEF FreeBlock, ReleaseBlock, Goto
    <3>4. out[t].real
      BY <1>0, <3>1, OwnFacts DEF DataFits
    <3> QED
      BY <3>1, <3>2, <3>3, <3>4
  <2>2. OnArchive(t) /\ OnArchive(t)'
    BY <2>1 DEF OnArchive, Freeing
  <2> QED
    BY <1>0, <1>00, <2>1, <2>2, DataSame
<1> QED
  BY <1>1, <1>2, <1>3, <1>4, <1>5

\* A write to a stream's current block, at the end of its data.
Overwritten(c, p, u) == SubSeq(c, 1, p) \o u \o SubSeq(c, p + Len(u) + 1, Len(c))

LEMMA CellsWritten ==
  ASSUME NEW c \in Seq(Unit), NEW u \in Seq(Unit), NEW p \in Nat, p <= Len(c)
  PROVE  /\ Overwritten(c, p, u) \in Seq(Unit) /\ p + Len(u) <= Len(Overwritten(c, p, u))
         /\ First(Overwritten(c, p, u), p + Len(u)) = SubSeq(c, 1, p) \o u
<1>a. PICK end \in Nat : end = p + Len(u)
  OBVIOUS
<1>b. PICK new : new = SubSeq(c, 1, p) \o u \o SubSeq(c, end + 1, Len(c))
  OBVIOUS
<1>c. new = Overwritten(c, p, u)
  BY <1>a, <1>b DEF Overwritten
<1> DEFINE a == SubSeq(c, 1, p)
           b == SubSeq(c, end + 1, Len(c))
<1>1. a \in Seq(Unit) /\ Len(a) = p
  BY SubSeqProperties
<1>2. b \in Seq(Unit) /\ Len(b) \in Nat
  <2>1. end + 1 \in Nat \ {0} /\ Len(c) \in Nat
    OBVIOUS
  <2>2. b \in Seq(Unit)
    BY <2>1, SubSeqProperties
  <2> QED
    BY <2>2
<1>8. new = a \o u \o b
  BY <1>b
<1>9. a = SubSeq(c, 1, p)
  OBVIOUS
<1> HIDE DEF a, b, Unit
<1>3. PICK d : d = a \o u
  OBVIOUS
<1>4. d \in Seq(Unit) /\ Len(d) = end
  BY <1>a, <1>1, <1>3, ConcatProperties
<1>5. d \o b \in Seq(Unit) /\ Len(d \o b) = end + Len(b)
  BY <1>2, <1>4, ConcatProperties
<1>6. First(d \o b, Len(d)) = d
  BY <1>2, <1>4, FirstOfConcat
<1>7. new = d \o b
  BY <1>3, <1>8
<1>10. new \in Seq(Unit) /\ Len(new) = end + Len(b) /\ First(new, end) = d
  BY <1>4, <1>5, <1>6, <1>7
<1>11. end <= Len(new)
  <2>1. PICK k, l : k = Len(b) /\ l = Len(new)
    OBVIOUS
  <2>2. k \in Nat /\ l = end + k
    BY <1>2, <1>10, <2>1
  <2>3. end <= l
    BY <2>2
  <2> QED
    BY <2>1, <2>3
<1>12. First(new, end) = SubSeq(c, 1, p) \o u
  BY <1>3, <1>9, <1>10
<1> QED
  BY <1>a, <1>c, <1>10, <1>11, <1>12

LEMMA DataWriteBlock ==
  ASSUME IInv, NEW t \in Threads, WriteBlock(t)
  PROVE  DataFits(t)' /\ Shown(t)' = Shown(t)
<1>0. /\ ThreadStep(t) /\ pc[t] = "write" /\ pc[t] \notin Resting /\ UNCHANGED <<finishedList, output>>
      /\ ~out[t].real /\ out[t].pos < Capacity(t)
  BY DEF ThreadStep, WriteBlock, Resting, mtSem
<1>1. PICK o : o = out[t]
  OBVIOUS
<1>2. PICK n, end :
        /\ n = Smaller(coder[t].rest, BlockSize - (o.pos % BlockSize)) /\ end = o.pos + n
        /\ SetOut(t, [o EXCEPT !.pos = end, !.size = Larger(@, end),
                               !.cells = SubSeq(@, 1, o.pos) \o NextUnits(t, n) \o SubSeq(@, end + 1, Len(@))])
        /\ SetCoder(t, [coder[t] EXCEPT !.rest = @ - n])
        /\ Goto(t, IF coder[t].rest = n THEN "code" ELSE "write")
  BY <1>1 DEF WriteBlock
<1>3. /\ o \in Stream /\ out \in [Threads -> Stream] /\ coder \in [Threads -> Coder] /\ coder[t] \in Coder
      /\ pc \in [Actors -> Labels] /\ t \in Actors /\ Active(t) /\ DataFits(t)
      /\ coder[t].rest \in Nat /\ coder[t].units \in Nat /\ coder[t].rest <= coder[t].units
      /\ BlockSize \in Nat \ {0} /\ o.pos \in Nat /\ o.size \in Nat /\ o.blocks \in Nat /\ o.cells \in Seq(Unit)
  BY <1>0, <1>1, OwnFacts, ConstantTypes DEF Stream
<1>4. ~OnArchive(t) /\ o.pos = o.size /\ o.size = WrittenBy(t) /\ Memory(o)
      /\ InMemory(o) = Data(t, WrittenBy(t))
  BY <1>0, <1>1, <1>3 DEF DataFits, OnArchive
<1>5. /\ n \in 0 .. coder[t].rest /\ n <= BlockSize - (o.pos % BlockSize) /\ n \in Nat
      /\ end \in Nat /\ Larger(o.size, end) = end
  <2>1. (o.pos % BlockSize) \in 0 .. BlockSize - 1
    BY <1>3
  <2>2. BlockSize - (o.pos % BlockSize) \in Nat
    BY <1>3, <2>1
  <2>3. n \in 0 .. coder[t].rest /\ n <= BlockSize - (o.pos % BlockSize) /\ n \in Nat
    BY <1>2, <1>3, <2>2 DEF Smaller
  <2> QED
    BY <1>2, <1>3, <1>4, <2>3 DEF Larger
<1>6. /\ NextUnits(t, n) \in Seq(Unit) /\ Len(NextUnits(t, n)) = n
      /\ Data(t, WrittenBy(t)) \o NextUnits(t, n) = Data(t, WrittenBy(t) + n)
  BY <1>3, <1>5, NextUnitsType
<1>7. PICK new : new = SubSeq(o.cells, 1, o.pos) \o NextUnits(t, n) \o SubSeq(o.cells, end + 1, Len(o.cells))
  OBVIOUS
<1>8. new \in Seq(Unit) /\ end <= Len(new) /\ First(new, end) = SubSeq(o.cells, 1, o.pos) \o NextUnits(t, n)
  <2>1. PICK c, u : c = o.cells /\ u = NextUnits(t, n)
    OBVIOUS
  <2>2. o.pos <= Len(c) /\ c \in Seq(Unit) /\ u \in Seq(Unit) /\ end = o.pos + Len(u)
    BY <1>2, <1>3, <1>4, <1>6, <2>1 DEF Memory
  <2>3. new = SubSeq(c, 1, o.pos) \o u \o SubSeq(c, end + 1, Len(c))
    BY <1>7, <2>1
  <2>4. new \in Seq(Unit) /\ end <= Len(new) /\ First(new, end) = SubSeq(c, 1, o.pos) \o u
    <3>1. PICK k, e : k = o.pos /\ e = end
      OBVIOUS
    <3>2. k \in Nat /\ e \in Nat /\ k <= Len(c) /\ e = k + Len(u)
      BY <1>3, <1>5, <2>2, <3>1
    <3>3. new = SubSeq(c, 1, k) \o u \o SubSeq(c, e + 1, Len(c))
      BY <2>3, <3>1, Zenon
    <3>4. new \in Seq(Unit) /\ e <= Len(new) /\ First(new, e) = SubSeq(c, 1, k) \o u
      <4>1. c \in Seq(Unit) /\ u \in Seq(Unit)
        BY <2>2
      <4>2. k \in Nat /\ k <= Len(c) /\ e = k + Len(u)
        BY <3>2
      <4>3. new = Overwritten(c, k, u)
        BY <3>3, <4>2 DEF Overwritten
      <4> QED
        BY <4>1, <4>2, <4>3, CellsWritten
    <3> QED
      BY <3>1, <3>4, Zenon
  <2> QED
    BY <2>1, <2>4
<1>9. SubSeq(o.cells, 1, o.pos) = Data(t, WrittenBy(t))
  <2>1. InMemory(o) = SubSeq(o.cells, 1, o.size)
    BY <1>3, <1>4, InMemoryType DEF Memory
  <2> QED
    BY <1>4, <2>1
<1>10. /\ coder'[t].rest = coder[t].rest - n /\ coder'[t].units = coder[t].units
       /\ coder'[t].item = coder[t].item /\ coder'[t].pass = coder[t].pass
       /\ coder'[t].rest \in Nat /\ coder'[t].rest <= coder'[t].units /\ coder'[t].result = OK
       /\ WrittenBy(t)' = WrittenBy(t) + n
  <2>1. /\ coder'[t].rest = coder[t].rest - n /\ coder'[t].units = coder[t].units
        /\ coder'[t].item = coder[t].item /\ coder'[t].pass = coder[t].pass
        /\ coder'[t].result = coder[t].result
    BY <1>2, <1>3 DEF SetCoder, Coder
  <2>2. WrittenBy(t)' = WrittenBy(t) + n
    BY <1>3, <1>5, <2>1 DEF WrittenBy
  <2>3. coder[t].result = OK
    BY <1>0, OwnFacts
  <2> QED
    BY <1>3, <1>5, <2>1, <2>2, <2>3
<1>11. /\ out'[t].pos = end /\ out'[t].size = end /\ out'[t].cells = new /\ out'[t].blocks = o.blocks
       /\ ~out'[t].real
  <2>1. out' = [out EXCEPT ![t] = [o EXCEPT !.pos = end, !.size = end, !.cells = new]]
    BY <1>2, <1>5, <1>7, Zenon DEF SetOut
  <2> QED
    BY <1>0, <1>1, <1>3, <2>1 DEF Stream
<1>12. Data(t, WrittenBy(t))' = Data(t, WrittenBy(t) + n)
  BY <1>10 DEF Data
<1>13. InMemory(out'[t]) = Data(t, WrittenBy(t))'
  <2>1. InMemory(out'[t]) = First(new, end)
    BY <1>11 DEF InMemory
  <2> QED
    BY <1>6, <1>8, <1>9, <1>12, <2>1
<1>14. Memory(out'[t])
  <2>1. end <= o.blocks * BlockSize
    <3>1. o.pos < o.blocks * BlockSize
      BY <1>0, <1>1 DEF Capacity
    <3>2. PICK p, k, B : p = o.pos /\ k = o.blocks /\ B = BlockSize
      OBVIOUS
    <3>3. p + n <= k * B
      BY <1>3, <1>5, <3>1, <3>2, BlockEnd
    <3> QED
      BY <1>2, <3>2, <3>3
  <2>2. Needed(out'[t]) <= out'[t].blocks
    <3>1. PICK k, B : k = o.blocks /\ B = BlockSize
      OBVIOUS
    <3>2. ((end + B - 1) \div B) <= k
      BY <1>3, <1>5, <2>1, <3>1, BlocksNeeded
    <3> QED
      BY <1>11, <3>1, <3>2 DEF Needed
  <2> QED
    BY <1>8, <1>11, <2>2 DEF Memory
<1>15. ~OnArchive(t)' /\ out'[t].size = WrittenBy(t)'
  BY <1>2, <1>4, <1>10, <1>11 DEF OnArchive
<1>16. pc'[t] \in {"code", "write"} /\ (pc'[t] = "code" => coder'[t].rest = 0)
  BY <1>2, <1>3, <1>5, <1>10 DEF Goto
<1>17. Place(t)' \in {"write", "allocate", "flush"} \/ coder'[t].rest = 0
  BY <1>16 DEF Place, Freeing
<1>18. DataFits(t)'
  BY <1>0, <1>10, <1>11, <1>13, <1>14, <1>15, <1>16, <1>17, FitsAtWork DEF Resting, Freeing
<1> QED
  BY <1>4, <1>15, <1>18 DEF Shown

\* The thread is at the end of its item.
LEMMA DataRelease ==
  ASSUME IInv, NEW t \in Threads, ReleaseItem(t)
  PROVE  DataFits(t)' /\ Shown(t)' = Shown(t)
<1>0. /\ ThreadStep(t) /\ pc[t] = "finish" /\ pc[t] \notin Resting
      /\ UNCHANGED <<out, coder, output, compressEvent, exitThread>>
  BY DEF ThreadStep, ReleaseItem, Resting, info
<1>1. pc'[t] = "release" /\ DataFits(t)
  BY <1>0, OwnFacts DEF ReleaseItem, Goto
<1>2. Rests(t)'
  BY <1>0, <1>1 DEF Rests, Resting, IInv, Rest
<1>3. (OnArchive(t)' <=> OnArchive(t)) /\ Shown(t)' = Shown(t)
  BY <1>0, <1>1 DEF OnArchive, Shown, Data, WrittenBy
<1>4. Place(t)' = "release" /\ Place(t) = "finish"
  BY <1>0, <1>1 DEF Place, Freeing
<1>5. DataFits(t)'
  BY <1>0, <1>1, <1>2, <1>3, <1>4
     DEF DataFits, Codes, Freeing, Resting, Data, WrittenBy, Memory, InMemory, Needed, output
<1> QED
  BY <1>3, <1>5

LEMMA DataThread ==
  ASSUME IInv, NEW t \in Threads, ThreadStep(t)
  PROVE  ArchiveFits'
<1>1. CASE WriteReal(t) \/ WriteToRealStream(t) \/ NextMethod(t)
  BY <1>1, DataWriteReal, DataFlush, DataNextMethod, ArchiveThread
<1>2. CASE ~(WriteReal(t) \/ WriteToRealStream(t) \/ NextMethod(t))
  <2>1. UNCHANGED <<archive, failed>>
    BY <1>2 DEF ThreadStep, WaitWork, CallWrite, EndCompress, CompressFails, WriteBlock, WaitStop, WaitReal,
       WaitBlock, AllocateBlock, ReleaseItem, ReleaseSem, FreeBlock, ReleaseBlock, output
  <2>2. ASSUME Active(t) PROVE DataFits(t)' /\ Shown(t)' = Shown(t)
    BY <1>2, <2>2, DataWaitWork, DataCallWrite, DataEnd, DataWriteBlock, DataWaits, DataRelease DEF ThreadStep
  <2> QED
    BY <2>1, <2>2, ArchiveThread DEF ArchiveKeeps
<1> QED
  BY <1>1, <1>2

-------------------------------------------------------------------------------
(* The data: the steps of the main thread.                                  *)

\* A thread that the main thread leaves alone, as far as its data goes.
LEMMA DataKept ==
  ASSUME IInv, NEW u \in Threads, Active(u), coder'[u] = coder[u], after'[u] = after[u],
         /\ out'[u].blocks = out[u].blocks /\ out'[u].pos = out[u].pos /\ out'[u].size = out[u].size
         /\ out'[u].cells = out[u].cells /\ out'[u].real = out[u].real,
         pc'[u] = pc[u] \/ (pc[u] \in Resting /\ pc'[u] \in Resting),
         Listed(u)' \/ Collected(u)' => Listed(u) \/ Collected(u),
         Rests(u) => Rests(u)'
  PROVE  DataFits(u)' /\ Shown(u)' = Shown(u) /\ (OnArchive(u)' <=> OnArchive(u))
<1>0. DataFits(u)
  BY DEF IInv, ArchiveFits
<1>1. (OnArchive(u)' <=> OnArchive(u)) /\ WrittenBy(u)' = WrittenBy(u)
      /\ Data(u, WrittenBy(u))' = Data(u, WrittenBy(u))
  BY DEF OnArchive, WrittenBy, Data, Resting
<1>2. Place(u)' = Place(u) \/ Place(u)' \in Resting
  BY DEF Place, Resting, Freeing
<1>3. InMemory(out'[u]) = InMemory(out[u]) /\ (Memory(out'[u]) <=> Memory(out[u]))
  BY DEF InMemory, Memory, Needed
<1>4. /\ coder'[u].rest <= coder'[u].units
      /\ pc'[u] = "finish" \/ Listed(u)' \/ Collected(u)' =>
           (coder'[u].result = OK => coder'[u].packSize = coder'[u].units)
      /\ pc'[u] = "flush" => out'[u].real
      /\ pc'[u] \in Freeing => out'[u].real
      /\ out'[u].real /\ pc'[u] \in Resting => Rests(u)'
  BY <1>0 DEF DataFits, Resting, Freeing
<1>5. /\ Place(u)' \notin {"write", "allocate", "flush"} /\ coder'[u].result = OK => coder'[u].rest = 0
      /\ pc'[u] = "code" \/ (pc'[u] \in Resting /\ ~Rests(u)') => coder'[u].rest = 0
  <2>1. CASE pc'[u] = pc[u]
    BY <1>0, <2>1 DEF DataFits, Place
  <2>2. CASE pc[u] \in Resting /\ pc'[u] \in Resting
    BY <1>0, <2>2 DEF DataFits, Place, Resting, Freeing
  <2> QED
    BY <2>1, <2>2
<1>6. /\ OnArchive(u)' =>
            out'[u].size = 0 \/ (pc'[u] \in {"finish"} \cup Resting /\ coder'[u].result # OK)
      /\ Codes(u)' => coder'[u].result = OK
  <2>1. OnArchive(u)' =>
          out'[u].size = 0 \/ (pc'[u] \in {"finish"} \cup Resting /\ coder'[u].result # OK)
    BY <1>0, <1>1 DEF DataFits, OnArchive
  <2>2. Codes(u)' => Codes(u)
    <3>1. CASE pc'[u] = pc[u]
      BY <3>1 DEF Codes, Place
    <3>2. CASE pc[u] \in Resting /\ pc'[u] \in Resting
      BY <3>2 DEF Codes, Place, Resting, Freeing
    <3> QED
      BY <3>1, <3>2
  <2> QED
    BY <1>0, <2>1, <2>2 DEF DataFits
<1>7. ~OnArchive(u)' =>
       /\ Memory(out'[u]) /\ out'[u].size = WrittenBy(u)' /\ out'[u].pos = out'[u].size
       /\ InMemory(out'[u]) = Data(u, WrittenBy(u))'
  BY <1>0, <1>1, <1>3 DEF DataFits
<1>8. DataFits(u)'
  BY <1>4, <1>5, <1>6, <1>7 DEF DataFits, Memory, InMemory, Needed
<1> QED
  BY <1>1, <1>8 DEF Shown

LEMMA RefsKept ==
  ASSUME IInv, UNCHANGED updateItems, main'.item >= main.item, main'.item \in Nat,
         \A i \in 1 .. NumItems : /\ refs'[i].finished = refs[i].finished /\ refs'[i].pass = refs[i].pass
                                  /\ refs'[i].packSize = refs[i].packSize
                                  /\ i >= main'.item => refs'[i].cells = refs[i].cells /\ refs'[i].size = refs[i].size
  PROVE  \A i \in 1 .. NumItems' : RefFits(i)'
<1>1. NumItems' = NumItems /\ NumItems \in Nat /\ main.item \in Nat
  BY MainFacts DEF NumItems
<1> SUFFICES ASSUME NEW i \in 1 .. NumItems PROVE RefFits(i)'
  BY <1>1
<1>2. RefFits(i)
  BY DEF IInv, ArchiveFits
<1>3. i >= main'.item => i >= main.item
  BY <1>1
<1> QED
  BY <1>2, <1>3 DEF RefFits, InMemory

\* The list of the items that are written.
LEMMA ItemsKept ==
  ASSUME IInv, UNCHANGED updateItems, main.item \in 1 .. NumItems, main'.item = main.item + 1
  PROVE  /\ (updateItems[main.item] = "absent" /\ items' = items) => ItemsInOrder'
         /\ \A e \in Item : (/\ updateItems[main.item] # "absent" /\ e.item = main.item
                             /\ items' = Append(items, e)) => ItemsInOrder'
<1>0. ItemsInOrder /\ items \in Seq(Item) /\ main.item \in Nat /\ Len(items) \in Nat
  BY MainFacts DEF IInv, ArchiveFits, Types, MainTypes, Item
<1>1. {i \in 1 .. main'.item - 1 : updateItems'[i] # "absent"} =
        {i \in 1 .. main.item - 1 : updateItems[i] # "absent"}
          \cup (IF updateItems[main.item] = "absent" THEN {} ELSE {main.item})
  <2>1. 1 .. main'.item - 1 = (1 .. main.item - 1) \cup {main.item}
    BY <1>0
  <2> QED
    BY <2>1
<1>2. ASSUME updateItems[main.item] = "absent", items' = items PROVE ItemsInOrder'
  BY <1>0, <1>1, <1>2 DEF ItemsInOrder
<1>3. ASSUME NEW e \in Item, updateItems[main.item] # "absent", e.item = main.item, items' = Append(items, e)
      PROVE  ItemsInOrder'
  <2>1. /\ Len(items') = Len(items) + 1 /\ items'[Len(items) + 1] = e
        /\ \A k \in 1 .. Len(items) : items'[k] = items[k]
    BY <1>0, <1>3, AppendProperties
  <2>2. {items'[k].item : k \in 1 .. Len(items')} = {items[k].item : k \in 1 .. Len(items)} \cup {main.item}
    <3>1. 1 .. Len(items') = (1 .. Len(items)) \cup {Len(items) + 1}
      BY <1>0, <2>1
    <3>2. \A x : x \in {items'[k].item : k \in 1 .. Len(items')} <=>
                   x \in {items[k].item : k \in 1 .. Len(items)} \cup {main.item}
      BY <1>3, <2>1, <3>1
    <3> QED
      BY <3>2
  <2>3. \A k \in 1 .. Len(items) : items[k].item < main.item
    <3>1. \A k \in 1 .. Len(items) : items[k].item \in 1 .. main.item - 1
      BY <1>0 DEF ItemsInOrder
    <3> QED
      BY <1>0, <3>1
  <2>4. \A j, k \in 1 .. Len(items') : j < k => items'[j].item < items'[k].item
    <3> SUFFICES ASSUME NEW j \in 1 .. Len(items'), NEW k \in 1 .. Len(items'), j < k
                 PROVE  items'[j].item < items'[k].item
      OBVIOUS
    <3>1. j \in 1 .. Len(items)
      BY <1>0, <2>1
    <3>2. CASE k \in 1 .. Len(items)
      BY <1>0, <2>1, <3>1, <3>2 DEF ItemsInOrder
    <3>3. CASE k = Len(items) + 1
      BY <1>3, <2>1, <2>3, <3>1, <3>3
    <3> QED
      BY <1>0, <2>1, <3>2, <3>3
  <2>5. {items'[k].item : k \in 1 .. Len(items')} = {i \in 1 .. main'.item - 1 : updateItems'[i] # "absent"}
    BY <1>0, <1>1, <1>3, <2>2 DEF ItemsInOrder
  <2> QED
    BY <2>4, <2>5 DEF ItemsInOrder
<1> QED
  BY <1>2, <1>3

\* An error that was seen is not forgotten.
LEMMA SeenStays ==
  ASSUME IInv, failed' => failed, hres => hres',
         main'.result = main.result \/ main'.result \notin {"running", OK},
         \A t \in Threads :
           Active(t) /\ coder[t].result # OK => Active(t)' /\ coder'[t].result # OK
  PROVE  FailureSeen'
<1>1. FailureSeen
  BY DEF IInv, ArchiveFits
<1> QED
  BY <1>1 DEF FailureSeen

\* The archive stays where it is.
LEMMA PositionSame ==
  ASSUME IInv, NEW u \in Threads, UNCHANGED archive,
         Active(u)' => /\ Active(u) /\ coder'[u] = coder[u]
                       /\ out'[u].unlockSent = out[u].unlockSent /\ out'[u].offset = out[u].offset
                       /\ (OnArchive(u)' <=> OnArchive(u)) /\ Shown(u)' = Shown(u)
  PROVE  PositionFits(u)'
<1>1. PositionFits(u)
  BY DEF IInv, ArchiveFits
<1> QED
  BY <1>1 DEF PositionFits

\* The current item is finished.
LEMMA ArchiveNext ==
  ASSUME IInv, UNCHANGED updateItems, main.item \in 1 .. NumItems, main'.item = main.item + 1,
         main'.lastReal = main.lastReal, main'.result = "running", ItemsInOrder',
         \A i \in 1 .. NumItems' : RefFits(i)',
         \A u \in Threads : Active(u)' => DataFits(u)' /\ ~out'[u].unlockSent,
         ~Lost' => archive' = Written', FailureSeen'
  PROVE  ArchiveFits'
<1>1. main'.lastReal # main'.item
  <2>1. main.item \in Nat /\ main.lastReal \in Nat /\ main.lastReal <= main.item
    BY MainFacts
  <2> QED
    BY <2>1
<1>2. Current' = <<>>
  BY <1>1, CurrentIs
<1>3. ~Lost' => archive' = Written' \o Current'
  <2>1. ASSUME ~Lost' PROVE archive' \o <<>> = archive'
    <3>1. Written' = FlattenSeq([k \in 1 .. Len(items') |-> Content(items'[k])])
      BY DEF Written, Content, Header, Units
    <3> QED
      OBVIOUS
  <2> QED
    BY <1>2, <2>1
<1>4. main'.result # OK
  BY NotRunning
<1>5. \A u \in Threads : PositionFits(u)'
  BY DEF PositionFits
<1> QED
  BY <1>1, <1>3, <1>4, <1>5 DEF ArchiveFits

\* What a step of the main thread that leaves t alone keeps of it.
QuietThread(t) ==
  /\ coder'[t] = coder[t] /\ after'[t] = after[t]
  /\ out'[t].blocks = out[t].blocks /\ out'[t].pos = out[t].pos /\ out'[t].size = out[t].size
  /\ out'[t].cells = out[t].cells /\ out'[t].real = out[t].real
  /\ out'[t].unlockSent = out[t].unlockSent /\ out'[t].offset = out[t].offset
  /\ pc'[t] = pc[t] \/ (pc[t] \in Resting /\ pc'[t] \in Resting)
  /\ Listed(t)' \/ Collected(t)' => Listed(t) \/ Collected(t)
  /\ Rests(t) => Rests(t)'

LEMMA QuietFits ==
  ASSUME IInv, NEW t \in Threads, Active(t), QuietThread(t)
  PROVE  DataFits(t)' /\ Shown(t)' = Shown(t) /\ (OnArchive(t)' <=> OnArchive(t))
BY DataKept DEF QuietThread

\* A step that neither writes nor changes who is at the items.
LEMMA ArchiveQuiet ==
  ASSUME IInv, UNCHANGED <<updateItems, threadIndices, items, coder, archive>>,
         main'.item = main.item, main'.lastReal = main.lastReal,
         ~Lost' => ~Lost, FailureSeen',
         main'.result = OK => main.item > NumItems /\ ~failed',
         \A i \in 1 .. NumItems' : RefFits(i)',
         \A t \in Threads : Active(t) => QuietThread(t)
  PROVE  ArchiveFits'
<1>1. \A t \in Threads : Active(t)' <=> Active(t)
  BY DEF Active
<1>2. \A t \in Threads : Active(t) => DataFits(t)' /\ Shown(t)' = Shown(t) /\ (OnArchive(t)' <=> OnArchive(t))
  BY QuietFits
<1>3. ItemsInOrder' /\ Written' = Written /\ NumItems' = NumItems
  BY DEF IInv, ArchiveFits, ItemsInOrder, Written, NumItems
<1>4. \A t \in Threads : Active(t) => out'[t].unlockSent = out[t].unlockSent /\ out'[t].offset = out[t].offset
  BY DEF QuietThread
<1>5. ASSUME ~Lost'
      PROVE  /\ archive' = Written' \o Current'
             /\ main'.lastReal = main'.item =>
                  threadIndices' # <<>> /\ coder'[Head(threadIndices')].item = main'.item
             /\ \A t \in Threads : Active(t)' /\ out'[t].unlockSent => out'[t].offset = Len(Written') + 1
  <2>0. /\ archive = Written \o Current
        /\ main.lastReal = main.item =>
                  threadIndices # <<>> /\ coder[Head(threadIndices)].item = main.item
        /\ \A t \in Threads : Active(t) /\ out[t].unlockSent => out[t].offset = Len(Written) + 1
    BY <1>5 DEF IInv, ArchiveFits
  <2>1. PICK h : h = Head(threadIndices)
    OBVIOUS
  <2>2. threadIndices # <<>> => h \in Threads /\ Active(h)
    <3>1. ASSUME threadIndices # <<>> PROVE h \in Threads /\ Active(h)
      <4>1. h = threadIndices[1] /\ 1 \in 1 .. Len(threadIndices) /\ h \in Threads
        BY <2>1, <3>1, MainFacts, HeadTailProperties
      <4> QED
        BY <4>1 DEF Active
    <3> QED
      BY <3>1
  <2>3. Current' = Current
    <3>1. main.lastReal = main.item => HeadShown' = HeadShown
      BY <1>2, <2>0, <2>1, <2>2, HeadStays
    <3> QED
      BY <3>1, CurrentIs
  <2> QED
    BY <1>1, <1>3, <1>4, <2>0, <2>3
<1>6. \A t \in Threads : PositionFits(t)'
  <2> SUFFICES ASSUME NEW t \in Threads PROVE PositionFits(t)'
    OBVIOUS
  <2>1. Active(t)' => /\ Active(t) /\ coder'[t] = coder[t]
                      /\ out'[t].unlockSent = out[t].unlockSent /\ out'[t].offset = out[t].offset
                      /\ (OnArchive(t)' <=> OnArchive(t)) /\ Shown(t)' = Shown(t)
    BY <1>1, <1>2, <1>4
  <2> QED
    BY <2>1, PositionSame
<1> QED
  BY <1>1, <1>2, <1>3, <1>5, <1>6 DEF ArchiveFits

\* A step that changes no thread but the main thread.
LEMMA MainQuiet ==
  ASSUME UNCHANGED <<out, coder, compressEvent, exitThread, finishedList>>,
         \A t \in Threads : pc'[t] = pc[t] /\ after'[t] = after[t],
         pc'[Main] # "collect"
  PROVE  \A t \in Threads : QuietThread(t)
BY DEF QuietThread, Listed, Collected, Rests

\* No thread is at an item that is past, or that is written.
LEMMA NoneAtWork ==
  ASSUME IInv, main.item > NumItems \/ main.item \notin Pending \/ main.lastReal < main.item
  PROVE  \A t \in Threads : Active(t) => ~out[t].unlockSent
<1>1. main.item \in Nat /\ main.lastReal \in Nat /\ main.mtItem \in 1 .. NumItems + 1 /\ NumItems \in Nat
  BY MainFacts
<1>2. ASSUME NEW t \in Threads, Active(t), out[t].unlockSent PROVE FALSE
  <2>1. coder[t].item = main.item /\ main.lastReal = main.item
    BY <1>2 DEF IInv, Turns
  <2>2. main.item \in Pending
    BY <1>2, <2>1 DEF IInv, Order
  <2>3. main.item <= NumItems
    BY <1>1, <2>2 DEF Pending
  <2> QED
    BY <1>1, <2>1, <2>2, <2>3
<1> QED
  BY <1>2

\* The archive has no part of an item that no thread is at.
LEMMA NoCurrent ==
  ASSUME IInv, main.item > NumItems \/ main.item \notin Pending, ~Lost
  PROVE  main.lastReal # main.item /\ archive = Written /\ archive \in Seq(Unit)
<1>1. archive = Written \o Current /\ (main.lastReal = main.item =>
                  threadIndices # <<>> /\ coder[Head(threadIndices)].item = main.item)
  BY DEF IInv, ArchiveFits
<1>2. ASSUME main.lastReal = main.item PROVE FALSE
  <2>1. PICK h : h = Head(threadIndices)
    OBVIOUS
  <2>2. h \in Threads /\ Active(h) /\ coder[h].item = main.item
    <3>1. h = threadIndices[1] /\ 1 \in 1 .. Len(threadIndices) /\ h \in Threads
      BY <1>1, <1>2, <2>1, MainFacts, HeadTailProperties
    <3> QED
      BY <1>1, <1>2, <2>1, <3>1 DEF Active
  <2>3. main.item \in Pending
    BY <2>2 DEF IInv, Order
  <2>4. main.item <= NumItems
    BY <2>3, MainFacts DEF Pending
  <2> QED
    BY <2>3, <2>4, MainFacts
<1>3. Current = <<>>
  BY <1>2, CurrentIs
<1>4. Written \in Seq(Unit) /\ archive \in Seq(Unit)
  BY WrittenType DEF IInv, Types, MainTypes
<1> HIDE DEF Unit
<1> QED
  BY <1>1, <1>2, <1>3, <1>4, ConcatEmptySeq

\* The steps that write nothing.
LEMMA ArchivePlain ==
  ASSUME IInv,
         UNCHANGED <<out, coder, compressEvent, exitThread, finishedList, updateItems, threadIndices, items, archive>>,
         \A t \in Threads : pc'[t] = pc[t] /\ after'[t] = after[t], pc'[Main] # "collect",
         main'.item = main.item, main'.lastReal = main.lastReal,
         \A i \in 1 .. NumItems : /\ refs'[i].finished = refs[i].finished /\ refs'[i].pass = refs[i].pass
                                  /\ refs'[i].packSize = refs[i].packSize
                                  /\ refs'[i].cells = refs[i].cells /\ refs'[i].size = refs[i].size,
         ~Lost' => ~Lost, FailureSeen',
         main'.result = OK => main.item > NumItems /\ ~failed'
  PROVE  ArchiveFits'
<1>1. main'.item >= main.item /\ main'.item \in Nat
  BY MainFacts
<1>2. \A i \in 1 .. NumItems' : RefFits(i)'
  BY <1>1, RefsKept
<1>3. \A t \in Threads : QuietThread(t)
  BY MainQuiet
<1> QED
  BY <1>2, <1>3, ArchiveQuiet

\* Update2 returns.
LEMMA ArchiveLeave ==
  ASSUME IInv, NEW res, Leave(res),
         UNCHANGED <<out, coder, compressEvent, exitThread, finishedList, updateItems, threadIndices, items, archive,
                     after, refs>>,
         ~Lost' => ~Lost, res # "running",
         res = OK => main.item > NumItems /\ ~failed'
  PROVE  ArchiveFits'
<1>1. /\ main \in Progress /\ pc \in [Actors -> Labels] /\ Main \in Actors /\ Main \notin Threads
  BY MainFacts, ConstantTypes
<1>2. /\ main'.item = main.item /\ main'.lastReal = main.lastReal /\ main'.result = res
      /\ pc'[Main] = "stop" /\ \A t \in Threads : pc'[t] = pc[t]
  BY <1>1 DEF Leave, SetMain, Goto, Progress, Actors
<1>3. FailureSeen'
  BY <1>2 DEF FailureSeen
<1> QED
  BY <1>2, <1>3, ArchivePlain

LEMMA ArchiveAhead ==
  ASSUME IInv, PassDirect \/ PassAbsent \/ GetStreamFails
  PROVE  ArchiveFits'
<1>0. /\ main \in Progress /\ pc \in [Actors -> Labels] /\ Main \in Actors /\ refs \in [1 .. NumItems -> Ref]
      /\ main.result # OK /\ pc[Main] = "loop"
  <2>1. pc[Main] = "loop"
    BY DEF PassDirect, PassAbsent, GetStreamFails, Ahead
  <2>2. main.result = "running"
    BY <2>1 DEF IInv, Rest, Place, Freeing, Stopping
  <2> QED
    BY <2>1, <2>2, MainFacts, NotRunning
<1>1. CASE PassDirect \/ PassAbsent
  <2>1. /\ UNCHANGED <<out, coder, compressEvent, exitThread, finishedList, updateItems, threadIndices, items,
                       archive, failed, hres, dropped, pc, after>>
        /\ NextMtItem
    BY <1>1 DEF PassDirect, PassAbsent, const, info, mtSem, output
  <2>2. main'.item = main.item /\ main'.lastReal = main.lastReal /\ main'.result = main.result
    BY <1>0, <2>1 DEF NextMtItem, SetMain, Progress
  <2>3. \A i \in 1 .. NumItems : /\ refs'[i].finished = refs[i].finished /\ refs'[i].pass = refs[i].pass
                                  /\ refs'[i].packSize = refs[i].packSize
                                  /\ refs'[i].cells = refs[i].cells /\ refs'[i].size = refs[i].size
    <3>1. CASE UNCHANGED refs
      BY <3>1
    <3>2. CASE PassAbsent
      <4>1. PICK m : m = main.mtItem
        OBVIOUS
      <4>2. refs' = [refs EXCEPT ![m] = [refs[m] EXCEPT !.skip = TRUE]] /\ m \in 1 .. NumItems
        <5>1. refs' = [refs EXCEPT ![m] = [refs[m] EXCEPT !.skip = TRUE]] /\ m <= NumItems
          BY <3>2, <4>1 DEF PassAbsent, Ahead
        <5> QED
          BY <4>1, <5>1, MainFacts
      <4>3. refs[m] \in Ref
        BY <1>0, <4>2
      <4> QED
        BY <1>0, <4>2, <4>3 DEF Ref
    <3> QED
      BY <1>1, <3>1, <3>2 DEF PassDirect
  <2>4. (~Lost' => ~Lost) /\ FailureSeen'
    <3>1. \A t \in Threads : Active(t)' <=> Active(t)
      BY <2>1 DEF Active
    <3>2. FailureSeen'
      BY <2>1, <2>2, <3>1, SeenStays
    <3> QED
      BY <2>1, <3>2 DEF Lost
  <2> QED
    BY <1>0, <2>1, <2>2, <2>3, <2>4, ArchivePlain
<1>2. CASE GetStreamFails
  <2>1. "stream" \notin {"running", OK} /\ (~Lost' => ~Lost)
    BY <1>2 DEF OK, Lost, GetStreamFails, output
  <2> QED
    BY <1>2, <2>1, ArchiveLeave DEF GetStreamFails, const, info, mtSem, output
<1> QED
  BY <1>1, <1>2

LEMMA ArchiveMoves ==
  ASSUME IInv, Lock \/ Wait_Close \/ FreeBlock(Main) \/ ReleaseBlock(Main)
  PROVE  ArchiveFits'
<1>0. /\ pc \in [Actors -> Labels] /\ Main \in Actors /\ Main \notin Threads
      /\ after[Main] \in {"loop", "write"}
  BY MainFacts, ConstantTypes DEF IInv, Types, Places
<1>1. /\ UNCHANGED <<out, coder, compressEvent, exitThread, finishedList, updateItems, threadIndices, items,
                     archive, failed, hres, dropped, after, main, refs>>
  BY DEF Lock, Wait_Close, FreeBlock, ReleaseBlock, const, info, mtSem, output, update
<1>2. /\ \A t \in Threads : pc'[t] = pc[t]
      /\ pc'[Main] # "collect"
  BY <1>0 DEF Lock, Wait_Close, FreeBlock, ReleaseBlock, Goto, Actors
<1>3. main.result = OK => main.item > NumItems /\ ~failed
  BY DEF IInv, ArchiveFits
<1>4. (~Lost' => ~Lost) /\ FailureSeen'
  <2>1. \A t \in Threads : Active(t)' <=> Active(t)
    BY <1>1 DEF Active
  <2>2. FailureSeen'
    BY <1>1, <2>1, SeenStays
  <2> QED
    BY <1>1, <2>2 DEF Lost
<1> QED
  BY <1>1, <1>2, <1>3, <1>4, ArchivePlain

LEMMA WriteFailsLoses ==
  ASSUME WriteFails
  PROVE  failed' /\ Lost' /\ UNCHANGED archive
BY DEF WriteFails, KeptFails, RefusedFails, Lost

LEMMA ArchiveEnds ==
  ASSUME IInv, WriteCentralDir \/ FinalFlush \/ HeaderFails \/ CoderFailed
  PROVE  ArchiveFits'
<1>0. /\ main \in Progress /\ pc \in [Actors -> Labels] /\ Main \in Actors /\ Main \notin Threads
      /\ "write" \notin {"running", OK} /\ "running" # OK
  BY MainFacts, ConstantTypes DEF OK
<1>1. /\ UNCHANGED <<out, coder, compressEvent, exitThread, finishedList, updateItems, threadIndices, items,
                     after, refs>>
  BY DEF WriteCentralDir, FinalFlush, HeaderFails, CoderFailed, SetFree, const, info, mtSem, output
<1>2. ASSUME WriteFails, Leave("write") PROVE ArchiveFits'
  BY <1>0, <1>1, <1>2, WriteFailsLoses, ArchiveLeave
<1>3. CASE WriteCentralDir
  <2>1. main.item > NumItems /\ pc[Main] = "loop"
    BY <1>3 DEF WriteCentralDir
  <2>2. CASE ~hres /\ Leave(OK) /\ UNCHANGED output
    <3>1. main.result = "running"
      BY <2>1 DEF IInv, Rest, Place, Freeing, Stopping
    <3>2. \A t \in Threads : ~Active(t)
      <4>1. main.item \in Nat /\ main.mtItem \in 1 .. NumItems + 1 /\ NumItems \in Nat
        BY MainFacts
      <4>2. Pending = {}
        BY <2>1, <4>1 DEF Pending
      <4> QED
        BY <4>2 DEF IInv, Order
    <3>3. ~failed
      BY <2>2, <3>1, <3>2 DEF IInv, ArchiveFits, FailureSeen
    <3>4. UNCHANGED <<archive, failed, dropped>> /\ (~Lost' => ~Lost)
      BY <2>2 DEF output, Lost
    <3> QED
      BY <1>0, <1>1, <2>1, <2>2, <3>3, <3>4, ArchiveLeave
  <2> QED
    BY <1>2, <1>3, <2>2 DEF WriteCentralDir
<1>4. CASE HeaderFails
  BY <1>2, <1>4 DEF HeaderFails
<1>5. CASE CoderFailed
  <2>1. PICK res : res = coder[main.ti].result
    OBVIOUS
  <2>2. Leave(res) /\ UNCHANGED <<archive, failed, dropped>> /\ res # OK /\ Collects
    BY <1>5, <2>1 DEF CoderFailed, output
  <2>3. res # "running"
    <3>1. coder[main.ti] \in Coder
      BY <2>2, TheCollected, ItemIsNumber
    <3> QED
      BY <2>1, <3>1 DEF Coder
  <2>4. ~Lost' => ~Lost
    BY <2>2 DEF Lost
  <2> QED
    BY <1>1, <2>2, <2>3, <2>4, ArchiveLeave
<1>6. CASE FinalFlush
  <2>1. /\ \A t \in Threads : pc'[t] = pc[t]
        /\ pc'[Main] # "collect"
    BY <1>0, <1>6 DEF FinalFlush, Goto, Actors
  <2>2. main.result = OK => main.item > NumItems /\ ~failed
    BY DEF IInv, ArchiveFits
  <2>3. CASE UNCHANGED <<main, output>>
    <3>1. UNCHANGED <<archive, hres, failed, dropped>> /\ (~Lost' => ~Lost)
      BY <2>3 DEF output, Lost
    <3>2. \A t \in Threads : Active(t)' <=> Active(t)
      BY <1>1 DEF Active
    <3>3. FailureSeen'
      BY <1>1, <2>3, <3>1, <3>2, SeenStays
    <3> QED
      BY <1>1, <2>1, <2>2, <2>3, <3>1, <3>3, ArchivePlain
  <2>4. CASE WriteFails /\ SetMain([main EXCEPT !.result = "write"])
    <3>1. main'.item = main.item /\ main'.lastReal = main.lastReal /\ main'.result = "write"
      BY <1>0, <2>4 DEF SetMain, Progress
    <3>2. FailureSeen' /\ main'.result # OK
      BY <1>0, <3>1 DEF FailureSeen
    <3> QED
      BY <1>1, <2>1, <2>4, <3>1, <3>2, WriteFailsLoses, ArchivePlain
  <2> QED
    BY <1>6, <2>3, <2>4 DEF FinalFlush
<1> QED
  BY <1>3, <1>4, <1>5, <1>6

\* The threads are told to end, one after the other.
LEMMA ArchiveStop ==
  ASSUME IInv, NEW v \in Threads, StopWait(v)
  PROVE  ArchiveFits'
<1>0. /\ main \in Progress /\ pc \in [Actors -> Labels] /\ Main \in Actors /\ Main \notin Threads
      /\ out \in [Threads -> Stream] /\ out[v] \in Stream
      /\ exitThread \in [Threads -> BOOLEAN] /\ compressEvent \in [Threads -> BOOLEAN]
  BY MainFacts, ConstantTypes DEF IInv, Types, ThreadTypes
<1>1. /\ UNCHANGED <<coder, finishedList, updateItems, threadIndices, items, archive, failed, hres, dropped, after, refs>>
      /\ out' = [out EXCEPT ![v] = [out[v] EXCEPT !.stopEvent = TRUE]]
      /\ exitThread' = [exitThread EXCEPT ![v] = TRUE] /\ compressEvent' = [compressEvent EXCEPT ![v] = TRUE]
      /\ pc'[Main] = "join" /\ \A t \in Threads : pc'[t] = pc[t]
      /\ main'.item = main.item /\ main'.lastReal = main.lastReal /\ main'.result = main.result
  BY <1>0 DEF StopWait, StopWriting, SetOut, SetMain, Goto, const, mtSem, output, Progress, Actors
<1>2. \A t \in Threads :
        /\ out'[t].blocks = out[t].blocks /\ out'[t].pos = out[t].pos /\ out'[t].size = out[t].size
        /\ out'[t].cells = out[t].cells /\ out'[t].real = out[t].real
        /\ out'[t].unlockSent = out[t].unlockSent /\ out'[t].offset = out[t].offset
  BY <1>0, <1>1 DEF Stream
<1>3. \A t \in Threads : Rests(t) => Rests(t)'
  BY <1>0, <1>1 DEF Rests
<1>4. \A t \in Threads : QuietThread(t)
  BY <1>1, <1>2, <1>3 DEF QuietThread, Listed, Collected
<1>5. main'.item >= main.item /\ main'.item \in Nat
  BY <1>1, MainFacts
<1>6. \A i \in 1 .. NumItems' : RefFits(i)'
  BY <1>1, <1>5, RefsKept
<1>7. main.result = OK => main.item > NumItems /\ ~failed
  BY DEF IInv, ArchiveFits
<1>9. (~Lost' => ~Lost) /\ FailureSeen'
  <2>1. \A t \in Threads : Active(t)' <=> Active(t)
    BY <1>1 DEF Active
  <2>2. FailureSeen'
    BY <1>1, <2>1, SeenStays
  <2> QED
    BY <1>1, <2>2 DEF Lost
<1> QED
  BY <1>1, <1>4, <1>6, <1>7, <1>9, ArchiveQuiet

LEMMA ArchiveGet ==
  ASSUME IInv, GetFreeItem
  PROVE  ArchiveFits'
<1>0. /\ main \in Progress /\ pc \in [Actors -> Labels] /\ Main \in Actors /\ Main \notin Threads
      /\ finishedList \in Seq(Threads) /\ finishedSem \in Nat
  BY MainFacts, ConstantTypes DEF IInv, Types, ThreadTypes
<1>1. /\ UNCHANGED <<out, coder, compressEvent, exitThread, updateItems, threadIndices, items, archive, failed, hres, dropped,
                     after, refs>>
      /\ pc'[Main] = "collect" /\ \A t \in Threads : pc'[t] = pc[t]
      /\ finishedList' = Tail(finishedList)
      /\ main'.item = main.item /\ main'.lastReal = main.lastReal /\ main'.result = main.result
      /\ main'.ti = Head(finishedList)
  BY <1>0 DEF GetFreeItem, SetMain, Goto, const, info, output, Progress, Actors
<1>2. finishedList # <<>>
  <2>1. Len(finishedList) = finishedSem + Cardinality({t \in Threads : pc[t] = "release"}) + 1
    BY DEF IInv, Rest, GetFreeItem
  <2>2. Cardinality({t \in Threads : pc[t] = "release"}) \in Nat
    <3>1. IsFiniteSet({t \in Threads : pc[t] = "release"})
      BY ConstantTypes, FS_Subset
    <3> QED
      BY <3>1, FS_CardinalityType
  <2> QED
    BY <1>0, <2>1, <2>2
<1>3. /\ Head(finishedList) = finishedList[1] /\ 1 \in 1 .. Len(finishedList) /\ Len(finishedList) \in Nat
      /\ Len(finishedList') = Len(finishedList) - 1
      /\ \A k \in 1 .. Len(finishedList) - 1 : finishedList'[k] = finishedList[k + 1]
  BY <1>0, <1>1, <1>2, HeadTailProperties
<1>4. \A t \in Threads : Listed(t)' \/ Collected(t)' => Listed(t)
  <2> SUFFICES ASSUME NEW t \in Threads, Listed(t)' \/ Collected(t)' PROVE Listed(t)
    OBVIOUS
  <2>1. CASE Listed(t)'
    <3>1. PICK k \in 1 .. Len(finishedList) - 1 : finishedList[k + 1] = t
      BY <1>3, <2>1 DEF Listed
    <3>2. k + 1 \in 1 .. Len(finishedList)
      BY <1>3
    <3> QED
      BY <3>1, <3>2 DEF Listed
  <2>2. CASE Collected(t)'
    <3>1. main'.ti = t
      BY <2>2 DEF Collected
    <3> QED
      BY <1>1, <1>3, <3>1 DEF Listed
  <2> QED
    BY <2>1, <2>2
<1>5. \A t \in Threads : QuietThread(t)
  BY <1>1, <1>4 DEF QuietThread, Rests
<1>6. main'.item >= main.item /\ main'.item \in Nat
  BY <1>1, MainFacts
<1>7. \A i \in 1 .. NumItems' : RefFits(i)'
  BY <1>1, <1>6, RefsKept
<1>8. main.result = OK => main.item > NumItems /\ ~failed
  BY DEF IInv, ArchiveFits
<1>9. (~Lost' => ~Lost) /\ FailureSeen'
  <2>1. \A t \in Threads : Active(t)' <=> Active(t)
    BY <1>1 DEF Active
  <2>2. FailureSeen'
    BY <1>1, <2>1, SeenStays
  <2> QED
    BY <1>1, <2>2 DEF Lost
<1> QED
  BY <1>1, <1>5, <1>7, <1>8, <1>9, ArchiveQuiet

LEMMA ArchiveCreate ==
  ASSUME IInv, CreateThread
  PROVE  ArchiveFits'
<1>0. /\ main \in Progress /\ pc \in [Actors -> Labels] /\ Main \in Actors /\ Main \notin Threads
  BY MainFacts, ConstantTypes
<1>1. /\ UNCHANGED <<out, coder, compressEvent, exitThread, finishedList, updateItems, threadIndices, items, archive,
                     failed, hres, dropped, after, refs>>
      /\ (~Lost' => ~Lost)
  BY DEF CreateThread, const, info, mtSem, output, Lost
<1>2. CASE "create" \in Faults /\ Leave("create")
  <2>1. "create" \notin {"running", OK}
    BY DEF OK
  <2> QED
    BY <1>1, <1>2, <2>1, ArchiveLeave
<1>3. CASE UNCHANGED main /\ \E v \in Threads :
             /\ pc[v] = "none"
             /\ pc' = [pc EXCEPT ![v] = "idle", ![Main] = IF \A u \in Threads \ {v} : pc[u] # "none"
                                                          THEN "loop" ELSE "create"]
  <2>1. PICK v \in Threads :
             /\ pc[v] = "none"
             /\ pc' = [pc EXCEPT ![v] = "idle", ![Main] = IF \A u \in Threads \ {v} : pc[u] # "none"
                                                          THEN "loop" ELSE "create"]
    BY <1>3
  <2>2. /\ pc'[v] = "idle" /\ pc'[Main] \in {"loop", "create"}
        /\ \A t \in Threads : t # v => pc'[t] = pc[t]
    BY <1>0, <2>1 DEF Actors
  <2>3. \A t \in Threads : /\ pc'[t] = pc[t] \/ (pc[t] \in Resting /\ pc'[t] \in Resting)
                           /\ Rests(t) => Rests(t)'
    BY <1>1, <2>1, <2>2 DEF Resting, Rests
  <2>4. \A t \in Threads : QuietThread(t)
    BY <1>1, <2>2, <2>3 DEF QuietThread, Listed, Collected
  <2>5. main'.item >= main.item /\ main'.item \in Nat
    BY <1>3, MainFacts
  <2>6. \A i \in 1 .. NumItems' : RefFits(i)'
    BY <1>1, <2>5, RefsKept
  <2>7. main.result = OK => main.item > NumItems /\ ~failed
    BY DEF IInv, ArchiveFits
  <2>8. FailureSeen'
    <3>1. \A t \in Threads : Active(t)' <=> Active(t)
      BY <1>1 DEF Active
    <3> QED
      BY <1>1, <1>3, <3>1, SeenStays
  <2> QED
    BY <1>1, <1>3, <2>4, <2>6, <2>7, <2>8, ArchiveQuiet
<1> QED
  BY <1>2, <1>3 DEF CreateThread

\* The items after the current one that are finished stay as they are.
LaterRefsSame ==
  \A i \in 1 .. NumItems :
    /\ refs'[i].finished = refs[i].finished /\ refs'[i].pass = refs[i].pass
    /\ refs'[i].packSize = refs[i].packSize
    /\ i > main.item => refs'[i].cells = refs[i].cells /\ refs'[i].size = refs[i].size

\* The current item needs no thread, and is finished.
LEMMA ArchiveWritten ==
  ASSUME IInv, Turn, main.item \notin Pending, NextItem, ItemsInOrder',
         UNCHANGED <<out, coder, compressEvent, exitThread, finishedList, updateItems, threadIndices>>,
         \A t \in Threads : pc'[t] = pc[t] /\ after'[t] = after[t], pc'[Main] # "collect",
         LaterRefsSame,
         ~Lost' => archive' = Written', failed' => failed \/ hres', hres => hres'
  PROVE  ArchiveFits'
<1>0. main.item \in 1 .. NumItems /\ main.result = "running" /\ main \in Progress /\ NumItems \in Nat
  BY CurrentStarted, MainFacts
<1>1. main'.item = main.item + 1 /\ main'.lastReal = main.lastReal /\ main'.result = "running"
  BY <1>0 DEF NextItem, SetMain, Progress
<1>2. \A t \in Threads : Active(t) => ~out[t].unlockSent
  BY NoneAtWork
<1>3. \A t \in Threads : QuietThread(t)
  BY MainQuiet
<1>4. \A t \in Threads : Active(t)' <=> Active(t)
  BY DEF Active
<1>5. \A t \in Threads : Active(t)' => DataFits(t)' /\ ~out'[t].unlockSent
  BY <1>2, <1>3, <1>4, QuietFits
<1>6. \A i \in 1 .. NumItems' : RefFits(i)'
  <2>1. main'.item >= main.item /\ main'.item \in Nat
    BY <1>0, <1>1
  <2>2. \A i \in 1 .. NumItems : i >= main'.item => i > main.item
    BY <1>0, <1>1
  <2>3. \A i \in 1 .. NumItems :
          /\ refs'[i].finished = refs[i].finished /\ refs'[i].pass = refs[i].pass
          /\ refs'[i].packSize = refs[i].packSize
          /\ i >= main'.item => refs'[i].cells = refs[i].cells /\ refs'[i].size = refs[i].size
    BY <2>2 DEF LaterRefsSame
  <2> QED
    BY <2>1, <2>3, RefsKept
<1>7. FailureSeen'
  <2>1. CASE hres'
    BY <2>1 DEF FailureSeen
  <2>2. CASE failed' => failed
    BY <1>0, <1>1, <1>4, <2>2, SeenStays
  <2> QED
    BY <2>1, <2>2
<1> QED
  BY <1>0, <1>1, <1>5, <1>6, <1>7, ArchiveNext

\* What the items and the archive are, when an item of a kind that is written is added.
LEMMA AddedItem ==
  ASSUME IInv, main.item \in 1 .. NumItems, main'.item = main.item + 1, UNCHANGED updateItems,
         updateItems[main.item] # "absent", NEW p \in Nat, NEW n \in Nat, items' = Added(p, n)
  PROVE  ItemsInOrder' /\ Written' = Written \o (<<Header(main.item)>> \o Units(main.item, p, 1, n))
<1>1. PICK e : e = [item |-> main.item, pass |-> p, size |-> n]
  OBVIOUS
<1>2. e \in Item /\ e.item = main.item /\ e.pass = p /\ e.size = n /\ items' = Append(items, e)
  BY <1>1, MainFacts DEF Item, Added
<1>3. ItemsInOrder'
  BY <1>2, ItemsKept
<1>4. Written' = Written \o Content(e)
  BY <1>2, WrittenType DEF IInv
<1> QED
  BY <1>2, <1>3, <1>4 DEF Content

LEMMA ArchiveTurn ==
  ASSUME IInv, SkipItem \/ WriteDirect \/ WriteFinished
  PROVE  ArchiveFits'
<1>0. /\ Turn /\ main.item \in 1 .. NumItems /\ pc[Main] = "loop" /\ main \in Progress
      /\ pc \in [Actors -> Labels] /\ Main \in Actors /\ Main \notin Threads
      /\ refs \in [1 .. NumItems -> Ref] /\ after \in [Actors -> {"loop", "write"}]
      /\ UNCHANGED <<out, coder, compressEvent, exitThread, finishedList, updateItems, threadIndices>>
  <2>1. Turn
    BY DEF SkipItem, WriteDirect, WriteFinished
  <2>2. after \in [Actors -> {"loop", "write"}]
    BY DEF IInv, Types, Places
  <2>3. UNCHANGED <<out, coder, compressEvent, exitThread, finishedList, updateItems, threadIndices>>
    BY DEF SkipItem, WriteDirect, WriteFinished, const, info, mtSem
  <2>4. pc[Main] = "loop"
    BY <2>1 DEF Turn
  <2> QED
    BY <2>1, <2>2, <2>3, <2>4, CurrentStarted, MainFacts, ConstantTypes
<1>1. main.item \notin Pending
  BY DEF SkipItem, WriteDirect, WriteFinished, Pending
<1>2. ~Lost => archive = Written /\ archive \in Seq(Unit)
  BY <1>1, NoCurrent
<1>3. NextItem => main'.item = main.item + 1
  BY <1>0 DEF NextItem, SetMain, Progress
<1>4. CASE SkipItem
  <2>1. NextItem /\ UNCHANGED <<pc, after, refs, items, archive, failed, hres, dropped>>
    BY <1>4 DEF SkipItem, output
  <2>2. updateItems[main.item] = "absent"
    BY <1>0, <1>4 DEF SkipItem, IInv, Order
  <2>3. ItemsInOrder'
    BY <1>0, <1>3, <2>1, <2>2, ItemsKept
  <2>4. ~Lost' => archive' = Written'
    BY <1>2, <2>1 DEF Written, Lost
  <2> QED
    BY <1>0, <1>1, <2>1, <2>3, <2>4, ArchiveWritten DEF LaterRefsSame
<1>5. CASE WriteDirect
  <2>0. UNCHANGED <<after, refs>>
    BY <1>5 DEF WriteDirect
  <2>1. CASE /\ Append2(<<Header(main.item)>> \o Units(main.item, 1, 1, 1))
             /\ items' = Added(1, 1) /\ NextItem /\ UNCHANGED pc
    <3>1. updateItems[main.item] # "absent"
      BY <1>5 DEF WriteDirect
    <3>2. ItemsInOrder' /\ Written' = Written \o (<<Header(main.item)>> \o Units(main.item, 1, 1, 1))
      BY <1>0, <1>3, <2>1, <3>1, AddedItem
    <3>3. (~Lost' => archive' = Written') /\ UNCHANGED <<failed, hres>>
      BY <1>2, <2>1, <3>2 DEF Append2, Lost
    <3> QED
      BY <1>0, <1>1, <2>0, <2>1, <3>2, <3>3, ArchiveWritten DEF LaterRefsSame
  <2>2. CASE WriteFails /\ Leave("write") /\ UNCHANGED items
    <3>1. "write" \notin {"running", OK} /\ Lost' /\ UNCHANGED archive
      BY <2>2, WriteFailsLoses DEF OK
    <3> QED
      BY <1>0, <2>0, <2>2, <3>1, ArchiveLeave
  <2>3. CASE Leave("direct") /\ UNCHANGED <<items, output>>
    <3>1. "direct" \notin {"running", OK} /\ (~Lost' => ~Lost)
      BY <2>3 DEF OK, Lost, output
    <3> QED
      BY <1>0, <2>0, <2>3, <3>1, ArchiveLeave DEF output
  <2> QED
    BY <1>5, <2>1, <2>2, <2>3 DEF WriteDirect
<1>6. CASE WriteFinished
  <2> DEFINE r == refs[main.item]
  <2>0. refs[main.item].finished /\ updateItems[main.item] = "file" /\ r \in Ref
        /\ InMemory(r) = Units(main.item, r.pass, 1, r.packSize)
    <3>1. refs[main.item].finished
      BY <1>6 DEF WriteFinished
    <3>2. RefFits(main.item)
      BY <1>0 DEF IInv, ArchiveFits
    <3>3. InMemory(r) = Units(main.item, r.pass, 1, r.packSize)
      BY <1>0, <3>1, <3>2 DEF RefFits
    <3> QED
      BY <1>0, <3>1, <3>3 DEF IInv, Order
  <2>1. CASE /\ Append2(<<Header(main.item)>> \o InMemory(r)) \/ DropError(r)
             /\ items' = Added(r.pass, r.packSize)
             /\ refs' = [refs EXCEPT ![main.item].blocks = 0, ![main.item].cells = <<>>]
             /\ FreeAndGoto(Main, r.blocks, "loop") /\ NextItem
    <3>1. /\ pc'[Main] \in {"loop", "free"}
          /\ \A t \in Threads : pc'[t] = pc[t] /\ after'[t] = after[t]
      BY <1>0, <2>1 DEF FreeAndGoto, Goto, Actors
    <3>2. \A i \in 1 .. NumItems : /\ refs'[i].finished = refs[i].finished /\ refs'[i].pass = refs[i].pass
                                   /\ refs'[i].packSize = refs[i].packSize
                                   /\ i > main.item => refs'[i] = refs[i]
      <4>1. PICK i : i = main.item
        OBVIOUS
      <4>2. refs' = [refs EXCEPT ![i] = [refs[i] EXCEPT !.blocks = 0, !.cells = <<>>]]
        BY <1>0, <2>1, <4>1
      <4>3. i \in 1 .. NumItems /\ refs[i] \in Ref
        BY <1>0, <4>1
      <4>4. /\ refs'[i].finished = refs[i].finished /\ refs'[i].pass = refs[i].pass
            /\ refs'[i].packSize = refs[i].packSize
        BY <1>0, <4>2, <4>3 DEF Ref
      <4>5. \A j \in 1 .. NumItems : j # i => refs'[j] = refs[j]
        BY <1>0, <4>2
      <4>6. \A j \in 1 .. NumItems : j > i => j # i
        BY <4>3
      <4> QED
        BY <4>1, <4>4, <4>5, <4>6
    <3>3. r.pass \in Nat /\ r.packSize \in Nat
      BY <2>0 DEF Ref
    <3>4. ItemsInOrder' /\ Written' = Written \o (<<Header(main.item)>> \o Units(main.item, r.pass, 1, r.packSize))
      <4>1. updateItems[main.item] # "absent"
        BY <2>0
      <4> HIDE DEF r
      <4> QED
        BY <1>0, <1>3, <2>1, <3>3, <4>1, AddedItem
    <3>5. (~Lost' => archive' = Written') /\ (failed' => failed \/ hres') /\ (hres => hres')
      <4>1. CASE Append2(<<Header(main.item)>> \o InMemory(r))
        <5>1. /\ archive' = archive \o (<<Header(main.item)>> \o InMemory(r))
              /\ UNCHANGED <<hres, failed, dropped>>
          BY <4>1, Zenon DEF Append2
        <5>2. ~Lost' => ~Lost
          BY <5>1 DEF Lost
        <5> QED
          BY <1>2, <2>0, <3>4, <5>1, <5>2, Zenon
      <4>2. CASE KeptFails
        BY <4>2, Zenon DEF KeptFails, Lost
      <4>3. CASE Loses
        <5>1. dropped' /\ UNCHANGED <<hres, failed>>
          BY <4>3 DEF Loses
        <5> QED
          BY <5>1 DEF Lost
      <4> QED
        BY <2>0, <2>1, <4>1, <4>2, <4>3, DropsOrLoses
    <3>6. LaterRefsSame
      BY <3>2 DEF LaterRefsSame
    <3>7. pc'[Main] # "collect"
      BY <3>1
    <3>8. NextItem
      BY <2>1
    <3>9. Turn /\ UNCHANGED <<out, coder, compressEvent, exitThread, finishedList, updateItems, threadIndices>>
      BY <1>0
    <3>10. \A t \in Threads : pc'[t] = pc[t] /\ after'[t] = after[t]
      BY <3>1
    <3>11. ItemsInOrder'
      BY <3>4
    <3> HIDE DEF r
    <3> QED
      BY <1>1, <3>5, <3>6, <3>7, <3>8, <3>9, <3>10, <3>11, ArchiveWritten
  <2>2. CASE WriteFails /\ Leave("write") /\ UNCHANGED <<items, refs, toFree, after>>
    <3>1. "write" \notin {"running", OK} /\ Lost' /\ UNCHANGED archive
      BY <2>2, WriteFailsLoses DEF OK
    <3>2. Leave("write") /\ UNCHANGED <<items, refs, after>>
      BY <2>2
    <3>4. PICK res : res = "write"
      OBVIOUS
    <3>5. Leave(res) /\ res \notin {"running", OK}
      BY <3>1, <3>2, <3>4
    <3>6. UNCHANGED <<out, coder, compressEvent, exitThread, finishedList, updateItems, threadIndices, items, archive,
                     after, refs>>
      BY <1>0, <3>1, <3>2
    <3> QED
      BY <3>1, <3>5, <3>6, ArchiveLeave
  <2> QED
    BY <1>6, <2>1, <2>2 DEF WriteFinished
<1> QED
  BY <1>4, <1>5, <1>6

\* The header of the current item is written, and its thread is told to go on in the archive.
LEMMA ArchiveOpen ==
  ASSUME IInv, OpenItem
  PROVE  ArchiveFits'
<1>h. PICK t : t = Head(threadIndices)
  OBVIOUS
<1>0. /\ main.item \in Pending /\ main \in Progress /\ main.item \in Nat /\ main.lastReal \in Nat
      /\ main.lastReal <= main.item /\ pc \in [Actors -> Labels] /\ Main \in Actors /\ Main \notin Threads
      /\ t \in Threads /\ Active(t) /\ coder[t].item = main.item /\ threadIndices # <<>>
      /\ out \in [Threads -> Stream] /\ main.result = "running"
  BY <1>h, CurrentPending, CurrentAtHead, MainFacts, ConstantTypes DEF OpenItem
<1>1. /\ main'.item = main.item /\ main'.lastReal = main.item /\ main'.result = "running"
      /\ pc'[Main] = "lock" /\ \A u \in Threads : pc'[u] = pc[u]
  BY <1>0 DEF OpenItem, SetMain, Larger, Goto, Progress, Actors
<1>2. /\ UNCHANGED <<updateItems, refs, threadIndices, coder, items, after, compressEvent, exitThread, finishedList,
                     failed, hres, dropped>>
      /\ NumItems' = NumItems
  <2>1. UNCHANGED <<updateItems, refs, threadIndices, coder, items, after, compressEvent, exitThread, finishedList>>
    BY DEF OpenItem, const, info, mtSem
  <2>2. UNCHANGED <<failed, hres, dropped>>
    BY DEF OpenItem, Append2, output
  <2> QED
    BY <2>1, <2>2 DEF NumItems
<1>3. /\ \A u \in Threads \ {t} : out'[u] = out[u]
      /\ out'[t].blocks = out[t].blocks /\ out'[t].pos = out[t].pos /\ out'[t].size = out[t].size
      /\ out'[t].cells = out[t].cells /\ out'[t].real = out[t].real /\ out'[t].unlockSent
      /\ out'[t].offset = IF out[t].unlockSent THEN out[t].offset ELSE Len(archive')
  <2>1. CASE out[t].unlockSent
    BY <1>h, <2>1 DEF OpenItem
  <2>2. CASE ~out[t].unlockSent
    <3>1. PICK n : n = Len(archive')
      OBVIOUS
    <3>2. out' = [out EXCEPT ![t] = [out[t] EXCEPT !.offset = n, !.unlockSent = TRUE, !.realEvent = TRUE]]
      BY <1>h, <2>2, <3>1 DEF OpenItem, SetRealStreamMode, SetOut
    <3>3. out[t] \in Stream
      BY <1>0
    <3> QED
      BY <1>0, <2>2, <3>1, <3>2, <3>3 DEF Stream
  <2> QED
    BY <2>1, <2>2
<1>4. \A u \in Threads : Active(u)' <=> Active(u)
  BY <1>2 DEF Active
<1>5. ASSUME NEW u \in Threads, Active(u)
      PROVE  DataFits(u)' /\ Shown(u)' = Shown(u) /\ (OnArchive(u)' <=> OnArchive(u))
  <2>1. /\ out'[u].blocks = out[u].blocks /\ out'[u].pos = out[u].pos /\ out'[u].size = out[u].size
        /\ out'[u].cells = out[u].cells /\ out'[u].real = out[u].real
    BY <1>3
  <2>2. Listed(u)' \/ Collected(u)' => Listed(u) \/ Collected(u)
    BY <1>1, <1>2 DEF Listed, Collected
  <2>3. Rests(u) => Rests(u)'
    BY <1>1, <1>2 DEF Rests
  <2> QED
    BY <1>1, <1>2, <1>5, <2>1, <2>2, <2>3, DataKept
<1>6. \A i \in 1 .. NumItems' : RefFits(i)'
  <2>1. main'.item >= main.item /\ main'.item \in Nat
    BY <1>0, <1>1
  <2> QED
    BY <1>2, <2>1, RefsKept
<1>7. ItemsInOrder' /\ Written' = Written
  BY <1>1, <1>2 DEF IInv, ArchiveFits, ItemsInOrder, Written
<1>8. Current' = <<Header(main.item)>> \o Shown(t)
  <2>1. HeadShown' = Shown(t)'
    <3>1. Head(threadIndices)' = t
      BY <1>h, <1>2
    <3> QED
      BY <3>1 DEF HeadShown, Shown, OnArchive, Data, WrittenBy
  <2>2. Shown(t)' = Shown(t)
    BY <1>0, <1>5
  <2> QED
    BY <1>1, <2>1, <2>2, CurrentIs
<1>9. ~out[t].unlockSent => Shown(t) = <<>>
  BY <1>0 DEF Shown, OnArchive, IInv, Turns
<1>10. /\ Written \in Seq(Unit) /\ Len(Written) \in Nat
       /\ <<Header(main.item)>> \in Seq(Unit) /\ Len(<<Header(main.item)>>) = 1
  BY <1>0, WrittenType, HeaderType DEF IInv
<1>11. <<Header(main.item)>> \o <<>> = <<Header(main.item)>>
  OBVIOUS
<1> HIDE DEF Unit, Header
<1>12. ASSUME ~Lost
       PROVE  /\ archive' = Written \o (<<Header(main.item)>> \o Shown(t))
              /\ out'[t].offset = Len(Written) + 1
  <2>0. archive = Written \o Current
    BY <1>12 DEF IInv, ArchiveFits
  <2>1. CASE main.lastReal < main.item
    <3>1. ~out[t].unlockSent
      BY <1>0, <2>1, NoneAtWork
    <3>2. Current = <<>>
      BY <1>0, <2>1, CurrentIs
    <3>3. archive = Written
      BY <1>10, <2>0, <3>2, ConcatEmptySeq
    <3>4. archive' = Written \o <<Header(main.item)>>
      BY <2>1, <3>3 DEF OpenItem, Append2
    <3>5. Len(archive') = Len(Written) + 1
      BY <1>10, <3>4, ConcatProperties
    <3> QED
      BY <1>3, <1>9, <1>11, <3>1, <3>4, <3>5
  <2>2. CASE main.lastReal = main.item
    <3>1. archive' = archive
      BY <1>0, <2>2 DEF OpenItem, output
    <3>2. Current = <<Header(main.item)>> \o Shown(t)
      BY <1>h, <2>2, CurrentIs DEF HeadShown
    <3>3. CASE out[t].unlockSent
      <4>1. out[t].offset = Len(Written) + 1
        BY <1>0, <1>12, <3>3, OnTheArchive
      <4> QED
        BY <1>3, <2>0, <3>1, <3>2, <3>3, <4>1
    <3>4. CASE ~out[t].unlockSent
      <4>1. archive' = Written \o <<Header(main.item)>>
        BY <1>9, <1>11, <2>0, <3>1, <3>2, <3>4
      <4>2. Len(archive') = Len(Written) + 1
        BY <1>10, <4>1, ConcatProperties
      <4> QED
        BY <1>3, <2>0, <3>1, <3>2, <3>4, <4>2
    <3> QED
      BY <3>3, <3>4
  <2> QED
    BY <1>0, <2>1, <2>2
<1>13. \A u \in Threads : Active(u) /\ out'[u].unlockSent => u = t
  <2> SUFFICES ASSUME NEW u \in Threads, Active(u), out'[u].unlockSent, u # t PROVE FALSE
    OBVIOUS
  <2>1. out[u].unlockSent
    BY <1>3
  <2>2. coder[u].item = main.item
    BY <2>1 DEF IInv, Turns
  <2> QED
    BY <1>0, <2>2, ItemsDiffer
<1>14. ~Lost' =>
         /\ archive' = Written' \o Current'
         /\ main'.lastReal = main'.item =>
              threadIndices' # <<>> /\ coder'[Head(threadIndices')].item = main'.item
         /\ \A u \in Threads : Active(u)' /\ out'[u].unlockSent => out'[u].offset = Len(Written') + 1
  <2>1. threadIndices' # <<>> /\ coder'[Head(threadIndices')].item = main'.item
    BY <1>h, <1>0, <1>1, <1>2
  <2>2. ~Lost' => ~Lost
    BY <1>2 DEF Lost
  <2> QED
    BY <1>2, <1>4, <1>7, <1>8, <1>12, <1>13, <2>1, <2>2
<1>15. main'.result # OK
  BY <1>1, NotRunning
<1>16. FailureSeen'
  BY <1>0, <1>1, <1>2, <1>4, SeenStays
<1>17. ASSUME NEW u \in Threads PROVE PositionFits(u)'
  <2> SUFFICES ASSUME Active(u), out'[u].unlockSent PROVE PositionFits(u)'
    BY <1>4 DEF PositionFits
  <2>1. u = t
    BY <1>13
  <2>2. CASE out[t].unlockSent
    <3>1. main.lastReal = main.item
      BY <1>0, <2>2 DEF IInv, Turns
    <3>2. UNCHANGED archive
      BY <1>0, <3>1 DEF OpenItem, output
    <3> QED
      BY <1>2, <1>3, <1>5, <2>1, <2>2, <3>2, PositionSame
  <2>3. CASE ~out[t].unlockSent
    <3>1. Shown(t)' = <<>> /\ out'[t].offset = Len(archive')
      BY <1>0, <1>3, <1>5, <1>9, <2>3
    <3>2. Len(archive') \in Nat
      <4>1. archive' \in Seq(Unit)
        BY TypesKept DEF Next, MainStep, Types, MainTypes
      <4> QED
        BY <4>1
    <3> QED
      BY <2>1, <3>1, <3>2 DEF PositionFits
  <2> QED
    BY <2>2, <2>3
<1> QED
  BY <1>4, <1>5, <1>6, <1>7, <1>14, <1>15, <1>16, <1>17 DEF ArchiveFits

LEMMA NothingYet ==
  ASSUME NEW i, NEW o, o.size = 0, o.cells = <<>>, o.blocks = 0
  PROVE  Memory(o) /\ InMemory(o) = Units(i, 1, 1, 0)
<1>1. Needed(o) <= o.blocks
  <2>1. BlockSize \in Nat \ {0} /\ 0 \in Nat /\ 0 <= 0 * BlockSize
    BY ConstantTypes
  <2>2. ((0 + BlockSize - 1) \div BlockSize) <= 0
    BY <2>1, BlocksNeeded
  <2> QED
    BY <2>2 DEF Needed
<1>2. First(<<>>, 0) = <<>>
  BY DEF First, Smaller
<1>3. Units(i, 1, 1, 0) = <<>>
  BY DEF Units
<1> QED
  BY <1>1, <1>2, <1>3 DEF Memory, InMemory

\* A thread is started with an item.
LEMMA ArchiveStart ==
  ASSUME IInv, StartThread
  PROVE  ArchiveFits'
<1>0. /\ pc \in [Actors -> Labels] /\ Main \in Actors /\ main \in Progress /\ pc[Main] = "loop"
      /\ main.result = "running" /\ out \in [Threads -> Stream] /\ coder \in [Threads -> Coder]
      /\ compressEvent \in [Threads -> BOOLEAN] /\ isFree \in [Threads -> BOOLEAN]
      /\ Len(threadIndices) \in Nat /\ threadIndices \in Seq(Threads) /\ Rest
      /\ main.mtItem \in Nat
  <2>1. pc[Main] = "loop"
    BY DEF StartThread, Ahead
  <2>2. main.result = "running"
    BY <2>1 DEF IInv, Rest, Place, Freeing, Stopping
  <2>3. compressEvent \in [Threads -> BOOLEAN] /\ isFree \in [Threads -> BOOLEAN] /\ Rest
    BY DEF IInv, Types, ThreadTypes
  <2>4. main.mtItem \in Nat
    BY MainFacts
  <2> QED
    BY <2>1, <2>2, <2>3, <2>4, MainFacts
<1>1. CASE \A t \in Threads : ~isFree[t]
  <2>1. "E_FAIL" \notin {"running", OK} /\ (~Lost' => ~Lost)
    BY DEF OK, Lost, StartThread, output
  <2> QED
    BY <1>1, <2>1, ArchiveLeave DEF StartThread, const, info, mtSem, output
<1>2. CASE \E t \in Threads : isFree[t]
  <2>0. PICK t : t = CHOOSE u \in Threads : isFree[u]
    OBVIOUS
  <2>1. t \in Threads /\ isFree[t]
    BY <1>2, <2>0
  <2>2. /\ compressEvent' = [compressEvent EXCEPT ![t] = TRUE]
        /\ out' = [out EXCEPT ![t] = InitStream(out[t])] /\ threadIndices' = Append(threadIndices, t)
        /\ coder' = [coder EXCEPT ![t] = [InitCoder EXCEPT !.item = main.mtItem]]
        /\ NextMtItem /\ UNCHANGED <<pc, exitThread>>
    BY <1>2, <2>0 DEF StartThread, SetOut, SetCoder
  <2>3. main'.result = "running" /\ main'.item = main.item /\ main'.lastReal = main.lastReal
    BY <1>0, <2>2 DEF NextMtItem, SetMain, Progress
  <2>4. ~Active(t) /\ ~Listed(t) /\ ~Collected(t) /\ pc[t] \in Resting
    BY <1>0, <2>1 DEF Rest, Collected, Rests
  <2>5. /\ Len(threadIndices') = Len(threadIndices) + 1
        /\ \A j \in 1 .. Len(threadIndices) : threadIndices'[j] = threadIndices[j]
        /\ threadIndices'[Len(threadIndices) + 1] = t /\ threadIndices' # <<>>
        /\ threadIndices' \in Seq(Threads)
    BY <1>0, <2>1, <2>2, AppendProperties
  <2>6. \A u \in Threads : Active(u)' <=> Active(u) \/ u = t
    BY <1>0, <2>5 DEF Active
  <2>7. UNCHANGED <<updateItems, items, archive, failed, hres, dropped, refs, after, finishedList>> /\ NumItems' = NumItems
    BY DEF StartThread, const, mtSem, output, NumItems
  <2>8. \A u \in Threads : u # t => out'[u] = out[u] /\ coder'[u] = coder[u] /\ compressEvent'[u] = compressEvent[u]
    BY <2>2
  <2>9. \A u \in Threads : (Listed(u)' <=> Listed(u)) /\ ~Collected(u)'
    BY <1>0, <2>2, <2>7 DEF Listed, Collected
  <2>10. ASSUME NEW u \in Threads, Active(u) PROVE DataFits(u)' /\ Shown(u)' = Shown(u) /\ (OnArchive(u)' <=> OnArchive(u)) /\ u # t
    <3>1. u # t
      BY <2>4, <2>10
    <3>2. Rests(u) => Rests(u)'
      BY <2>2, <2>8, <3>1 DEF Rests
    <3> QED
      BY <2>2, <2>7, <2>8, <2>9, <2>10, <3>1, <3>2, DataKept
  <2>11. /\ out'[t].blocks = 0 /\ out'[t].pos = 0 /\ out'[t].size = 0 /\ out'[t].cells = <<>>
         /\ ~out'[t].real /\ ~out'[t].unlockSent
    <3>1. out[t] \in Stream
      BY <1>0, <2>1
    <3> QED
      BY <1>0, <2>1, <2>2, <3>1 DEF InitStream, Emptied, Stream
  <2>12. /\ coder'[t].item = main.mtItem /\ coder'[t].pass = 1 /\ coder'[t].units = 0
         /\ coder'[t].rest = 0 /\ coder'[t].packSize = 0 /\ coder'[t].result = OK
    BY <1>0, <2>1, <2>2 DEF InitCoder, Coder
  <2>13. DataFits(t)'
    <3>1. pc'[t] \in Resting
      BY <2>2, <2>4
    <3>2. WrittenBy(t)' = 0 /\ Data(t, WrittenBy(t))' = Units(main.mtItem, 1, 1, 0)
      BY <2>12 DEF WrittenBy, Data
    <3>3. Memory(out'[t]) /\ InMemory(out'[t]) = Data(t, WrittenBy(t))'
      BY <2>11, <3>2, NothingYet
    <3> QED
      BY <2>4, <2>9, <2>11, <2>12, <3>1, <3>2, <3>3
         DEF DataFits, Resting, Freeing, OnArchive, Memory, InMemory, Needed
  <2>14. \A u \in Threads : Active(u)' => DataFits(u)'
    BY <2>6, <2>10, <2>13
  <2>15. \A i \in 1 .. NumItems' : RefFits(i)'
    <3>1. main'.item >= main.item /\ main'.item \in Nat
      BY <2>3, MainFacts
    <3> QED
      BY <2>7, <3>1, RefsKept
  <2>16. ItemsInOrder' /\ Written' = Written
    BY <2>3, <2>7 DEF IInv, ArchiveFits, ItemsInOrder, Written
  <2>17. ASSUME ~Lost'
         PROVE  /\ archive' = Written' \o Current'
                /\ main'.lastReal = main'.item =>
                     threadIndices' # <<>> /\ coder'[Head(threadIndices')].item = main'.item
                /\ \A u \in Threads : Active(u)' /\ out'[u].unlockSent => out'[u].offset = Len(Written') + 1
    <3>0. /\ archive = Written \o Current
          /\ main.lastReal = main.item =>
               threadIndices # <<>> /\ coder[Head(threadIndices)].item = main.item
          /\ \A u \in Threads : Active(u) /\ out[u].unlockSent => out[u].offset = Len(Written) + 1
      BY <2>7, <2>17 DEF IInv, ArchiveFits, Lost
    <3>1. PICK h : h = Head(threadIndices)
      OBVIOUS
    <3>2. ASSUME threadIndices # <<>> PROVE h \in Threads /\ Active(h) /\ Head(threadIndices') = h
      <4>1. h = threadIndices[1] /\ 1 \in 1 .. Len(threadIndices) /\ h \in Threads
        BY <1>0, <3>1, <3>2, HeadTailProperties
      <4>2. Head(threadIndices') = threadIndices'[1]
        BY <2>5, HeadTailProperties
      <4> QED
        BY <2>5, <4>1, <4>2 DEF Active
    <3>3. main.lastReal = main.item => HeadShown' = HeadShown /\ coder'[h] = coder[h]
      <4> SUFFICES ASSUME main.lastReal = main.item PROVE HeadShown' = HeadShown /\ coder'[h] = coder[h]
        OBVIOUS
      <4>1. h \in Threads /\ Active(h) /\ Head(threadIndices)' = h
        BY <3>0, <3>2
      <4>2. Shown(h)' = Shown(h) /\ h # t
        BY <2>10, <4>1
      <4>3. HeadShown' = Shown(h)'
        BY <4>1 DEF HeadShown, Shown, OnArchive, Data, WrittenBy
      <4> QED
        BY <2>8, <3>1, <4>1, <4>2, <4>3 DEF HeadShown
    <3>4. Current' = Current
      BY <2>3, <3>3, CurrentIs
    <3>5. main.lastReal = main.item => coder'[Head(threadIndices')].item = main.item
      BY <3>0, <3>1, <3>2, <3>3
    <3>6. \A u \in Threads : Active(u)' /\ out'[u].unlockSent => out'[u].offset = Len(Written) + 1
      BY <2>6, <2>8, <2>11, <3>0
    <3> QED
      BY <2>3, <2>5, <2>7, <2>16, <3>0, <3>4, <3>5, <3>6
  <2>18. main'.result # OK
    BY <2>3, NotRunning
  <2>19. FailureSeen'
    BY <2>3, <2>6, <2>7, <2>8, <2>10, <1>0, SeenStays
  <2>20. ASSUME NEW u \in Threads PROVE PositionFits(u)'
    <3>1. CASE u = t
      BY <2>11, <3>1 DEF PositionFits
    <3>2. CASE u # t
      BY <2>6, <2>7, <2>8, <2>10, <3>2, PositionSame
    <3> QED
      BY <3>1, <3>2
  <2> QED
    BY <2>14, <2>15, <2>16, <2>17, <2>18, <2>19, <2>20 DEF ArchiveFits
<1> QED
  BY <1>1, <1>2

LEMMA FirstOfFirst ==
  ASSUME NEW S, NEW s \in Seq(S), NEW n \in Nat, NEW m \in Nat, n <= m, n <= Len(s)
  PROVE  First(First(s, m), n) = First(s, n)
<1>1. PICK f : f = First(s, m)
  OBVIOUS
<1>2. Len(s) \in Nat
  OBVIOUS
<1>3. CASE m >= Len(s)
  <2>1. f = s
    BY <1>1, <1>3, FirstIs
  <2> QED
    BY <1>1, <2>1
<1>4. CASE m <= Len(s)
  <2>1. f \in Seq(S) /\ f = SubSeq(s, 1, m) /\ Len(f) = m
    BY <1>1, <1>4, FirstIs
  <2>2. First(f, n) = SubSeq(f, 1, n) /\ First(s, n) = SubSeq(s, 1, n)
    <3>1. n <= Len(f)
      BY <2>1
    <3>2. First(f, n) = SubSeq(f, 1, n)
      BY <2>1, <3>1, FirstIs
    <3>3. First(s, n) = SubSeq(s, 1, n)
      BY FirstIs
    <3> QED
      BY <3>2, <3>3
  <2>3. SubSeq(f, 1, n) = SubSeq(s, 1, n)
    <3>1. \A i \in 1 .. m : f[i] = s[i]
      BY <1>4, <2>1
    <3>2. \A i \in 1 .. n : f[i] = s[i]
      BY <3>1
    <3> QED
      BY <3>2
  <2> QED
    BY <1>1, <2>2, <2>3
<1> QED
  BY <1>2, <1>3, <1>4

\* The other threads when one is collected.
LEMMA OthersQuiet ==
  ASSUME IInv, CloseItem \/ DetachData, NEW u \in Threads, u # main.ti
  PROVE  QuietThread(u)
<1>0. /\ pc \in [Actors -> Labels] /\ Main \in Actors /\ Main \notin Threads /\ main.ti \in Threads
      /\ after \in [Actors -> {"loop", "write"}] /\ out \in [Threads -> Stream] /\ Collects
  <2>1. Collects
    BY Zenon DEF CloseItem, DetachData
  <2>2. after \in [Actors -> {"loop", "write"}]
    BY DEF IInv, Types, Places
  <2> QED
    BY <2>1, <2>2, MainFacts, ConstantTypes, TheCollected
<1>1. UNCHANGED <<coder, compressEvent, exitThread, finishedList>>
  BY Zenon DEF CloseItem, DetachData, SetFree, mtSem
<1>2. out'[u] = out[u]
  BY <1>0, Zenon DEF CloseItem, DetachData, SetOut
<1>3. pc'[u] = pc[u] /\ after'[u] = after[u] /\ pc'[Main] # "collect"
  BY <1>0, Zenon DEF CloseItem, DetachData, Leave, FreeAndGoto, Goto, Actors
<1> QED
  BY <1>1, <1>2, <1>3 DEF QuietThread, Listed, Collected, Rests

\* The thread of the current item is collected.
LEMMA ArchiveClose ==
  ASSUME IInv, CloseItem
  PROVE  ArchiveFits'
<1>h. PICK t : t = main.ti
  OBVIOUS
<1>0. /\ Collects /\ coder[t].result = OK /\ IsFront /\ t = Head(threadIndices) /\ threadIndices # <<>>
      /\ main \in Progress /\ main.item \in 1 .. NumItems /\ NumItems \in Nat /\ main.item \in Pending
      /\ t \in Threads /\ Active(t) /\ pc[t] \in Resting /\ coder[t].item = main.item
      /\ main.result = "running" /\ main.lastReal = main.item /\ out[t] \in Stream
  <2>1. Collects /\ coder[t].result = OK /\ IsFront /\ t = Head(threadIndices) /\ threadIndices # <<>>
    BY <1>h DEF CloseItem, IsFront
  <2>2. main.item \in Pending /\ main.result = "running"
    BY <2>1, TheCollected
  <2>3. coder[t].item = main.item
    BY <2>1, <2>2, CurrentAtHead
  <2> QED
    BY <1>h, <2>1, <2>2, <2>3, TheCollected, MainFacts
<1>1. /\ UNCHANGED <<updateItems, coder, refs, finishedList>> /\ NumItems' = NumItems
      /\ threadIndices' = Tail(threadIndices)
  BY DEF CloseItem, const, NumItems, mtSem
<1>2. \A u \in Threads : Active(u)' <=> Active(u) /\ u # t
  BY <1>0, <1>1, TailRemoves
<1>3. \A u \in Threads : Active(u) /\ u # t => QuietThread(u) /\ ~out[u].real /\ ~out[u].unlockSent
  <2>1. \A u \in Threads : u # t => QuietThread(u)
    BY <1>h, OthersQuiet
  <2>2. \A u \in Threads : Active(u) /\ u # t => coder[u].item # main.item
    BY <1>0, ItemsDiffer
  <2> QED
    BY <2>1, <2>2 DEF IInv, Turns
<1>4. \A u \in Threads : Active(u)' => DataFits(u)' /\ ~out'[u].unlockSent
  <2> SUFFICES ASSUME NEW u \in Threads, Active(u)' PROVE DataFits(u)' /\ ~out'[u].unlockSent
    OBVIOUS
  <2>1. Active(u) /\ QuietThread(u) /\ ~out[u].real /\ ~out[u].unlockSent
    BY <1>2, <1>3
  <2> QED
    BY <2>1, DataKept DEF QuietThread
<1>5. CASE /\ Append2(InMemory(out[t])) /\ items' = Added(coder[t].pass, coder[t].packSize) /\ NextItem
  <2>1. main'.item = main.item + 1 /\ main'.lastReal = main.lastReal /\ main'.result = "running"
    BY <1>0, <1>5 DEF NextItem, SetMain, Progress
  <2>2. PICK p, n : p = coder[t].pass /\ n = coder[t].packSize
    OBVIOUS
  <2>3. p \in Nat /\ n \in Nat /\ n = coder[t].units
    <3>1. coder[t] \in Coder /\ MaxPasses \in Nat
      BY <1>0, MainFacts, ConstantTypes
    <3>2. coder[t].packSize = coder[t].units
      BY <1>h, <1>0, CollectedMemory
    <3> QED
      BY <2>2, <3>1, <3>2 DEF Coder
  <2>4. ItemsInOrder' /\ Written' = Written \o (<<Header(main.item)>> \o Units(main.item, p, 1, n))
    <3>1. updateItems[main.item] # "absent"
      BY <1>0 DEF Pending
    <3> QED
      BY <1>0, <1>1, <1>5, <2>1, <2>2, <2>3, <3>1, AddedItem
  <2>5. \A i \in 1 .. NumItems' : RefFits(i)'
    <3>1. main'.item >= main.item /\ main'.item \in Nat
      BY <1>0, <2>1
    <3> QED
      BY <1>1, <3>1, RefsKept
  <2>6. ASSUME ~Lost PROVE archive' = Written'
    <3>1. PICK d : d = Units(main.item, p, 1, n)
      OBVIOUS
    <3>2. d \in Seq(Unit) /\ d = Data(t, coder[t].units)
      <4>1. d \in Seq(Unit)
        <5>1. main.item \in Nat
          BY <1>0
        <5> QED
          BY <2>3, <3>1, <5>1, FirstUnits
      <4>2. d = Data(t, coder[t].units)
        BY <1>0, <2>2, <2>3, <3>1 DEF Data
      <4> QED
        BY <4>1, <4>2
    <3>3. archive = Written \o (<<Header(main.item)>> \o Shown(t)) /\ archive' = archive \o InMemory(out[t])
      <4>1. archive' = archive \o InMemory(out[t])
        BY <1>5 DEF Append2
      <4>2. archive = Written \o Current
        BY <2>6 DEF IInv, ArchiveFits
      <4> QED
        BY <1>0, <4>1, <4>2, CurrentIs DEF HeadShown
    <3>4. /\ Written \in Seq(Unit) /\ <<Header(main.item)>> \in Seq(Unit)
          /\ <<Header(main.item)>> \o d \in Seq(Unit)
      <4>1. main.item \in Nat
        BY MainFacts
      <4> QED
        BY <3>2, <4>1, HeaderType, WrittenType DEF IInv
    <3>5. PICK w, b : w = Written /\ b = <<Header(main.item)>>
      OBVIOUS
    <3> HIDE DEF Unit
    <3>6. CASE out[t].real
      <4>1. InMemory(out[t]) = <<>> /\ Shown(t) = d
        <5>1. OnArchive(t)
          BY <1>0, <3>6 DEF OnArchive, Resting
        <5> QED
          BY <1>h, <1>0, <3>2, <3>6, <5>1, CollectedMemory DEF Shown
      <4>2. archive' = (w \o (b \o d)) \o <<>>
        BY <3>3, <3>5, <4>1
      <4>3. w \o (b \o d) \in Seq(Unit)
        BY <3>4, <3>5, ConcatProperties
      <4>4. archive' = w \o (b \o d)
        BY <4>2, <4>3, ConcatEmptySeq
      <4> QED
        BY <2>4, <3>1, <3>5, <4>4
    <3>7. CASE ~out[t].real
      <4>1. InMemory(out[t]) = d /\ Shown(t) = <<>>
        BY <1>h, <1>0, <3>2, <3>7, CollectedMemory DEF Shown, OnArchive
      <4>2. archive' = (w \o (b \o <<>>)) \o d
        BY <3>3, <3>5, <4>1
      <4>3. b \o <<>> = b
        BY <3>4, <3>5, ConcatEmptySeq
      <4>4. archive' = w \o (b \o d)
        BY <3>2, <3>4, <3>5, <4>2, <4>3, ConcatAssociative
      <4> QED
        BY <2>4, <3>1, <3>5, <4>4
    <3> QED
      BY <3>6, <3>7
  <2>7. UNCHANGED updateItems /\ main.item \in 1 .. NumItems /\ ItemsInOrder'
    BY <1>0, <1>1, <2>4
  <2>8. UNCHANGED <<hres, failed, dropped>> /\ (~Lost' => ~Lost)
    BY <1>5 DEF Append2, Lost
  <2>9. FailureSeen'
    BY <1>0, <1>1, <1>2, <2>1, <2>8, SeenStays
  <2> QED
    BY <1>4, <2>1, <2>5, <2>6, <2>7, <2>8, <2>9, ArchiveNext
<1>6. CASE WriteFails /\ Leave("write") /\ UNCHANGED items
  <2>1. /\ main'.item = main.item /\ main'.result = "write" /\ Lost'
        /\ main'.result \notin {"running", OK}
    BY <1>0, <1>6, WriteFailsLoses DEF Leave, SetMain, Progress, OK
  <2>2. \A i \in 1 .. NumItems' : RefFits(i)'
    <3>1. main'.item >= main.item /\ main'.item \in Nat
      BY <1>0, <2>1
    <3> QED
      BY <1>1, <3>1, RefsKept
  <2>3. ItemsInOrder'
    BY <1>1, <1>6, <2>1 DEF IInv, ArchiveFits, ItemsInOrder
  <2>4. FailureSeen' /\ \A u \in Threads : PositionFits(u)'
    BY <1>4, <2>1 DEF FailureSeen, PositionFits
  <2> QED
    BY <1>4, <2>1, <2>2, <2>3, <2>4 DEF ArchiveFits
<1> QED
  BY <1>h, <1>0, <1>5, <1>6 DEF CloseItem

\* The thread of a later item is collected.
LEMMA ArchiveDetach ==
  ASSUME IInv, DetachData
  PROVE  ArchiveFits'
<1>h. PICK t, i : t = main.ti /\ i = coder[main.ti].item
  OBVIOUS
<1>0. /\ Collects /\ coder[t].result = OK /\ ~IsFront /\ t \in Threads /\ Active(t)
      /\ i \in Pending /\ i \in 1 .. NumItems /\ main.item \in Pending /\ main.result = "running"
      /\ main \in Progress /\ NumItems \in Nat /\ out[t] \in Stream /\ coder[t] \in Coder /\ i = coder[t].item
      /\ refs \in [1 .. NumItems -> Ref]
  <2>1. Collects /\ coder[t].result = OK /\ ~IsFront
    BY <1>h, Zenon DEF DetachData
  <2> QED
    BY <1>h, <2>1, TheCollected, MainFacts
<1>1. /\ UNCHANGED <<updateItems, coder, items, archive, failed, hres, dropped, main>> /\ NumItems' = NumItems
  BY Zenon DEF DetachData, const, NumItems, output
<1>2. PICK k \in 1 .. Len(threadIndices) : threadIndices[k] = t /\ threadIndices' = RemoveAt(threadIndices, k)
  BY <1>h, Zenon DEF DetachData
<1>3. /\ threadIndices' \in Seq(Threads) /\ Len(threadIndices') = Len(threadIndices) - 1
      /\ \A j \in 1 .. Len(threadIndices) - 1 : threadIndices'[j] = threadIndices[IF j < k THEN j ELSE j + 1]
      /\ Len(threadIndices) \in Nat /\ threadIndices \in Seq(Threads)
  BY <1>2, MainFacts, RemoveAtIs
<1>4. \A u \in Threads : Active(u)' <=> Active(u) /\ u # t
  BY <1>2, <1>3, Removal
<1>5. \A u \in Threads : u # t => QuietThread(u)
  BY <1>h, OthersQuiet
<1>6. \A u \in Threads : Active(u) /\ u # t =>
        DataFits(u)' /\ Shown(u)' = Shown(u) /\ (OnArchive(u)' <=> OnArchive(u))
  BY <1>1, <1>5, QuietFits
<1>7. ~out[t].real
  <2>1. i # main.item
    <3>1. i = main.item => threadIndices # <<>> /\ t = Head(threadIndices)
      BY <1>0, AtTheHead
    <3> QED
      BY <1>h, <1>0, <3>1 DEF IsFront
  <2> QED
    BY <1>0, <2>1 DEF IInv, Turns
<1>8. \A j \in 1 .. NumItems' : RefFits(j)'
  <2>1. PICK o, c : o = out[t] /\ c = coder[t]
    OBVIOUS
  <2>2. PICK n, f : n = Needed(o) /\ f = First(o.cells, Needed(o) * BlockSize)
    OBVIOUS
  <2>3. refs' = [refs EXCEPT ![i] = [refs[i] EXCEPT !.finished = TRUE, !.blocks = n, !.size = o.size,
                                       !.cells = f, !.pass = c.pass, !.packSize = c.packSize]]
    BY <1>h, <2>1, <2>2, Zenon DEF DetachData
  <2>4. /\ \A j \in 1 .. NumItems : j # i => refs'[j] = refs[j]
        /\ refs'[i].size = o.size /\ refs'[i].cells = f /\ refs'[i].pass = c.pass
        /\ refs'[i].packSize = c.packSize
    <3>1. refs[i] \in Ref
      BY <1>0
    <3> QED
      BY <1>0, <2>3, <3>1 DEF Ref
  <2>5. /\ n \in Nat /\ o.size <= n * BlockSize /\ o.size <= Len(o.cells) /\ c.packSize = c.units
        /\ InMemory(o) = Data(t, c.units)
    BY <1>h, <1>0, <1>7, <2>1, <2>2, CollectedMemory
  <2>6. First(f, o.size) = First(o.cells, o.size)
    <3>1. o.cells \in Seq(Unit) /\ o.size \in Nat /\ BlockSize \in Nat
      BY <1>0, <2>1, ConstantTypes DEF Stream
    <3>2. PICK m : m = n * BlockSize
      OBVIOUS
    <3>3. m \in Nat
      BY <2>5, <3>1, <3>2
    <3> HIDE DEF Unit
    <3> QED
      BY <2>2, <2>5, <3>1, <3>2, <3>3, FirstOfFirst
  <2>7. InMemory(refs'[i]) = Units(i, refs'[i].pass, 1, refs'[i].packSize)
    BY <1>0, <2>1, <2>4, <2>5, <2>6 DEF InMemory, Data
  <2>8. RefFits(i)'
    BY <1>1, <2>7 DEF RefFits, InMemory
  <2>9. \A j \in 1 .. NumItems : j # i => RefFits(j)'
    BY <1>1, <2>4 DEF IInv, ArchiveFits, RefFits, InMemory
  <2> QED
    BY <1>1, <2>8, <2>9
<1>9. ItemsInOrder' /\ Written' = Written
  BY <1>1 DEF IInv, ArchiveFits, ItemsInOrder, Written
<1>10. /\ threadIndices' # <<>> /\ Head(threadIndices)' = Head(threadIndices) /\ Head(threadIndices) \in Threads
       /\ Active(Head(threadIndices)) /\ Head(threadIndices) # t
  <2>1. /\ threadIndices # <<>> /\ Head(threadIndices) \in Threads /\ Active(Head(threadIndices))
        /\ Head(threadIndices) # t
    BY <1>h, <1>0, CurrentAtHead DEF IsFront
  <2>2. Head(threadIndices) = threadIndices[1]
    BY <1>3, <2>1, HeadTailProperties
  <2>3. k # 1 /\ 1 \in 1 .. Len(threadIndices) - 1
    BY <1>2, <1>3, <2>1, <2>2
  <2>4. threadIndices'[1] = threadIndices[1] /\ threadIndices' # <<>>
    BY <1>2, <1>3, <2>3
  <2>5. Head(threadIndices') = threadIndices'[1]
    BY <1>3, <2>4, HeadTailProperties
  <2> QED
    BY <2>1, <2>2, <2>4, <2>5
<1>11. Current' = Current
  <2>1. PICK h : h = Head(threadIndices)
    OBVIOUS
  <2>2. Shown(h)' = Shown(h)
    BY <1>6, <1>10, <2>1
  <2>3. HeadShown' = Shown(h)'
    BY <1>10, <2>1 DEF HeadShown, Shown, OnArchive, Data, WrittenBy
  <2>4. HeadShown' = HeadShown
    BY <2>1, <2>2, <2>3 DEF HeadShown
  <2> QED
    BY <1>1, <2>4, CurrentIs
<1>12. ~Lost' =>
         /\ archive' = Written' \o Current'
         /\ main'.lastReal = main'.item =>
              threadIndices' # <<>> /\ coder'[Head(threadIndices')].item = main'.item
         /\ \A u \in Threads : Active(u)' /\ out'[u].unlockSent => out'[u].offset = Len(Written') + 1
  <2>1. \A u \in Threads : u # t => out'[u].unlockSent = out[u].unlockSent /\ out'[u].offset = out[u].offset
    BY <1>5 DEF QuietThread
  <2>2. ~Lost' => ~Lost
    BY <1>1 DEF Lost
  <2> QED
    BY <1>1, <1>4, <1>9, <1>10, <1>11, <2>1, <2>2 DEF IInv, ArchiveFits
<1>13. main'.result # OK
  BY <1>0, <1>1, NotRunning
<1>14. FailureSeen'
  BY <1>0, <1>1, <1>4, SeenStays
<1>15. \A u \in Threads : PositionFits(u)'
  <2> SUFFICES ASSUME NEW u \in Threads PROVE PositionFits(u)'
    OBVIOUS
  <2>1. Active(u)' => /\ Active(u) /\ coder'[u] = coder[u]
                      /\ out'[u].unlockSent = out[u].unlockSent /\ out'[u].offset = out[u].offset
                      /\ (OnArchive(u)' <=> OnArchive(u)) /\ Shown(u)' = Shown(u)
    BY <1>1, <1>4, <1>5, <1>6 DEF QuietThread
  <2> QED
    BY <1>1, <2>1, PositionSame
<1> QED
  BY <1>4, <1>6, <1>8, <1>9, <1>12, <1>13, <1>14, <1>15 DEF ArchiveFits

LEMMA ArchiveKept ==
  ASSUME IInv, [Next]_vars
  PROVE  ArchiveFits'
<1>1. CASE MainStep
  BY <1>1, ArchiveCreate, ArchiveAhead, ArchiveStart, ArchiveTurn, ArchiveOpen, ArchiveMoves, ArchiveGet,
     ArchiveEnds, ArchiveClose, ArchiveDetach, ArchiveStop DEF MainStep
<1>2. CASE \E t \in Threads : ThreadStep(t)
  BY <1>2, DataThread
<1>3. CASE UNCHANGED vars
  <2>1. UNCHANGED <<pc, after, out, coder, compressEvent, exitThread, finishedList, main, updateItems,
                    threadIndices, refs, items, archive, failed, hres, dropped>>
    BY <1>3 DEF vars, const, info, mtSem, update, output
  <2>2. \A t \in Threads : QuietThread(t)
    BY <2>1 DEF QuietThread, Listed, Collected, Rests
  <2>3. \A i \in 1 .. NumItems' : RefFits(i)'
    <3>1. main'.item >= main.item /\ main'.item \in Nat
      BY <2>1, MainFacts
    <3> QED
      BY <2>1, <3>1, RefsKept
  <2>4. main.result = OK => main.item > NumItems /\ ~failed
    BY DEF IInv, ArchiveFits
  <2>5. (~Lost' => ~Lost) /\ FailureSeen'
    <3>1. \A t \in Threads : Active(t)' <=> Active(t)
      BY <2>1 DEF Active
    <3>2. FailureSeen'
      BY <2>1, <3>1, SeenStays
    <3> QED
      BY <2>1, <3>2 DEF Lost
  <2> QED
    BY <2>1, <2>2, <2>3, <2>4, <2>5, ArchiveQuiet
<1> QED
  BY <1>1, <1>2, <1>3 DEF Next, Done

LEMMA InvariantKept ==
  ASSUME IInv, [Next]_vars
  PROVE  IInv'
BY TypesKept, BlocksKept, RestKept, OrderKept, ArchiveKept DEF IInv

-------------------------------------------------------------------------------
(* The initial states.                                                      *)

LEMMA TotalZero ==
  ASSUME NEW S, IsFiniteSet(S), NEW f, f = [x \in S |-> 0]
  PROVE  Total(f) = 0
<1>1. UNION {{x} \X (1 .. f[x]) : x \in DOMAIN f} = {}
  OBVIOUS
<1> QED
  BY <1>1, FS_EmptySet DEF Total

LEMMA CountNone ==
  ASSUME NEW S, NEW f, NEW v, \A x \in S : f[x] # v
  PROVE  Count(S, f, v) = 0
<1>1. {x \in S : f[x] = v} = {}
  OBVIOUS
<1> QED
  BY <1>1, FS_EmptySet DEF Count

LEMMA TypesInit ==
  ASSUME Init
  PROVE  Types
<1>0. Main \notin Threads /\ updateItems \in Seq(Kinds) /\ numBlocks \in Nat /\ NumItems \in Nat
  BY ZipAssumption DEF Init, NumItems
<1>1. Places
  <2>1. \A a \in Actors : pc[a] = (IF a = Main THEN "create" ELSE "none")
    BY DEF Init
  <2>2. Main \in Actors /\ \A t \in Threads : t \in Actors /\ t # Main
    BY <1>0 DEF Actors
  <2>3. pc \in [Actors -> Labels]
    BY DEF Init, Labels
  <2>4. after \in [Actors -> {"loop", "write"}] /\ toFree \in [Actors -> Nat]
        /\ \A a \in Actors : toFree[a] = 0
    BY DEF Init
  <2>5. Place(Main) \in MainPlaces
    BY <2>1, <2>2 DEF Place, Freeing, MainPlaces
  <2>6. \A t \in Threads : Place(t) \in ThreadPlaces
    BY <2>1, <2>2 DEF Place, Freeing, ThreadPlaces, Resting
  <2>7. \A a \in Actors : IF pc[a] = "free" THEN toFree[a] > 0 ELSE pc[a] # "releaseBlock" => toFree[a] = 0
    BY <2>1, <2>4
  <2> QED
    BY <2>3, <2>4, <2>5, <2>6, <2>7 DEF Places
<1>2. ThreadTypes
  <2>1. InitOut \in Stream
    BY DEF InitOut, Stream
  <2>2. InitCoder \in Coder
    BY ConstantTypes, NotRunning DEF InitCoder, Coder, Results
  <2>3. out \in [Threads -> Stream] /\ coder \in [Threads -> Coder]
    BY <2>1, <2>2 DEF Init
  <2>4. /\ isFree \in [Threads -> BOOLEAN] /\ compressEvent \in [Threads -> BOOLEAN]
        /\ exitThread \in [Threads -> BOOLEAN] /\ finishedSem \in Nat
        /\ freeBlocks \in Nat /\ semaphore \in Nat
    BY <1>0 DEF Init
  <2>5. finishedList \in Seq(Threads)
    BY DEF Init
  <2> QED
    BY <2>3, <2>4, <2>5 DEF ThreadTypes
<1>3. MainTypes
  <2>1. main \in Progress
    BY <1>0 DEF Init, Progress, Results, Actors
  <2>2. InitRef \in Ref
    BY DEF InitRef, Ref
  <2>3. refs \in [1 .. NumItems -> Ref]
    BY <2>2 DEF Init
  <2>4. threadIndices \in Seq(Threads) /\ items \in Seq([item : Nat, pass : Nat, size : Nat])
        /\ archive \in Seq(Unit) /\ hres = FALSE /\ failed = FALSE /\ dropped = FALSE
    BY DEF Init
  <2> QED
    BY <1>0, <2>1, <2>3, <2>4 DEF MainTypes
<1> QED
  BY <1>1, <1>2, <1>3 DEF Types

LEMMA BlocksInit ==
  ASSUME Init
  PROVE  Blocks
<1>1. /\ freeBlocks = numBlocks /\ semaphore = numBlocks /\ numBlocks \in Nat
      /\ NumItems \in Nat /\ IsFiniteSet(Threads) /\ IsFiniteSet(Actors) /\ IsFiniteSet(1 .. NumItems)
  <2>1. numBlocks \in Nat /\ NumItems \in Nat
    BY ZipAssumption DEF Init, NumItems
  <2>2. IsFiniteSet(1 .. NumItems)
    BY <2>1, FS_Interval
  <2>3. freeBlocks = numBlocks /\ semaphore = numBlocks
    BY DEF Init
  <2> QED
    BY <2>1, <2>2, <2>3, ConstantTypes
<1>2. InStreams = 0
  <2>1. [t \in Threads |-> out[t].blocks] = [t \in Threads |-> 0]
    BY DEF Init, InitOut
  <2> QED
    BY <1>1, <2>1, TotalZero DEF InStreams
<1>3. InRefs = 0
  <2>1. [i \in 1 .. NumItems |-> refs[i].blocks] = [i \in 1 .. NumItems |-> 0]
    BY DEF Init, InitRef
  <2> QED
    BY <1>1, <2>1, TotalZero DEF InRefs
<1>4. InFree = 0
  <2>1. toFree = [a \in Actors |-> 0]
    BY DEF Init
  <2> QED
    BY <1>1, <2>1, TotalZero DEF InFree
<1>5. \A a \in Actors : pc[a] # "allocate" /\ pc[a] # "releaseBlock"
  BY DEF Init
<1>6. Taking = 0 /\ Releasing = 0
  <2>1. \A t \in Threads : pc[t] # "allocate"
    BY <1>5 DEF Actors
  <2>2. Taking = 0
    BY <2>1, CountNone DEF Taking
  <2>3. Releasing = 0
    BY <1>5, CountNone DEF Releasing
  <2> QED
    BY <2>2, <2>3
<1>7. BlocksExact
  BY <1>1, <1>2, <1>3, <1>4, <1>6, BlocksExactIs
<1> QED
  BY <1>7 DEF Blocks, Init, InitOut, InitRef

LEMMA RestInit ==
  ASSUME Init
  PROVE  Rest
<1>1. /\ main.result = "running" /\ pc[Main] = "create" /\ Place(Main) = "create"
      /\ \A t \in Threads : pc[t] = "none"
      /\ threadIndices = <<>> /\ finishedList = <<>> /\ finishedSem = 0
  BY ConstantTypes DEF Init, Place, Freeing, Actors
<1>2. \A t \in Threads : ~Active(t) /\ ~Listed(t) /\ ~Collected(t) /\ Rests(t)
  BY <1>1 DEF Active, Listed, Collected, Rests, Resting, Init
<1>3. Cardinality({t \in Threads : pc[t] = "release"}) = 0
  <2>1. {t \in Threads : pc[t] = "release"} = {}
    BY <1>1
  <2> QED
    BY <2>1, FS_EmptySet
<1>4. \A t \in Threads : isFree[t] /\ ~exitThread[t] /\ ~out[t].stopEvent /\ pc[t] \in Resting
  BY <1>1 DEF Init, InitOut, Resting
<1>5. Place(Main) \notin Stopping
  BY <1>1 DEF Stopping
<1>6. Len(finishedList) = 0 /\ pc[Main] # "getItem" /\ pc[Main] # "collect"
  BY <1>1
<1> QED
  BY <1>1, <1>2, <1>3, <1>4, <1>5, <1>6 DEF Rest

LEMMA OrderInit ==
  ASSUME Init
  PROVE  Order /\ Turns
<1>1. /\ main.item = 1 /\ main.mtItem = 1 /\ main.lastReal = 0 /\ pc[Main] = "create"
      /\ threadIndices = <<>> /\ NumItems \in Nat
      /\ \A i \in 1 .. NumItems : ~refs[i].skip /\ ~refs[i].finished
  BY ZipAssumption DEF Init, InitRef, NumItems, Actors
<1>2. Pending = {} /\ \A t \in Threads : ~Active(t)
  BY <1>1 DEF Pending, Active
<1>3. \A t \in Threads : ~out[t].real /\ ~out[t].realEvent
  BY DEF Init, InitOut
<1> QED
  BY <1>1, <1>2, <1>3 DEF Order, Turns

LEMMA ArchiveInit ==
  ASSUME Init
  PROVE  ArchiveFits
<1>1. /\ main.item = 1 /\ main.lastReal = 0 /\ main.result = "running"
      /\ threadIndices = <<>> /\ items = <<>> /\ archive = <<>> /\ ~failed
      /\ \A i \in 1 .. NumItems : ~refs[i].finished
  BY DEF Init, InitRef
<1>2. \A t \in Threads : ~Active(t)
  BY <1>1 DEF Active
<1>3. Written = <<>>
  <2>1. [k \in 1 .. Len(items) |-> Content(items[k])] = <<>>
    BY <1>1
  <2> QED
    BY <2>1 DEF Written, FlattenSeq
<1>4. Current = <<>>
  BY <1>1 DEF Current
<1>5. ItemsInOrder
  BY <1>1 DEF ItemsInOrder
<1>6. <<>> \o <<>> = <<>>
  OBVIOUS
<1> QED
  BY <1>1, <1>2, <1>3, <1>4, <1>5, <1>6, NotRunning DEF ArchiveFits, RefFits, PositionFits, FailureSeen

-------------------------------------------------------------------------------
(* The theorems.                                                            *)

\* The inductive invariant: where the threads are and for which items, who holds the
\* blocks, and what every stream and the archive hold of the data.
THEOREM Invariant == Spec => []IInv
<1>1. Init => IInv
  BY TypesInit, BlocksInit, RestInit, OrderInit, ArchiveInit DEF IInv
<1>2. IInv /\ [Next]_vars => IInv'
  BY InvariantKept
<1> QED
  BY <1>1, <1>2, PTL DEF Spec

\* Every variable of Update2, of its threads and of the pool has its type.
THEOREM TypesHold == Spec => []Types
<1>1. IInv => Types
  BY DEF IInv
<1> QED
  BY <1>1, Invariant, PTL

\* No block of the pool is lost or held twice, and the semaphore never lets a thread
\* through that finds no block.
THEOREM NoBlockLost == Spec => []BlocksExact
<1>1. IInv => BlocksExact
  BY DEF IInv, Blocks
<1> QED
  BY <1>1, Invariant, PTL

LEMMA WriterIs ==
  ASSUME IInv, main.result = "running", NEW t \in Threads, Working(t), out[t].real \/ out[t].unlockSent
  PROVE  /\ Active(t) /\ out[t].unlockSent /\ coder[t].item = main.item /\ main.lastReal = main.item
         /\ main.item \in Pending /\ ~Rests(t)
<1>1. pc[t] \notin Resting
  BY DEF Working, Resting
<1>2. ~Rests(t)
  BY <1>1 DEF Rests
<1>3. Active(t) /\ out[t].unlockSent
  BY <1>2, AtWork DEF IInv, Turns
<1> QED
  BY <1>2, <1>3 DEF IInv, Turns, Order

\* The archive has one writer at a time: the main thread never writes while a thread may,
\* and of the threads it is only that of the current item.
THEOREM ArchiveHasOneWriter == Spec => []OneWriter
<1>1. IInv => OneWriter
  <2> SUFFICES ASSUME IInv, main.result = "running" PROVE OneWriter
    BY DEF OneWriter
  <2> DEFINE writers == {t \in Threads : Working(t) /\ (out[t].real \/ out[t].unlockSent)}
  <2>1. Cardinality(writers) <= 1
    <3>1. CASE writers = {}
      BY <3>1, FS_EmptySet
    <3>2. CASE writers # {}
      <4>1. PICK t \in writers : TRUE
        BY <3>2
      <4>2. \A u \in writers : u = t
        <5> SUFFICES ASSUME NEW u \in writers PROVE u = t
          OBVIOUS
        <5>1. /\ Active(t) /\ coder[t].item = main.item
              /\ Active(u) /\ coder[u].item = main.item
          BY <4>1, WriterIs
        <5> QED
          BY <4>1, <5>1, ItemsDiffer
      <4>3. writers = {t}
        BY <4>1, <4>2
      <4> HIDE DEF writers
      <4> QED
        BY <4>3, FS_Singleton
    <3> QED
      BY <3>1, <3>2
  <2>2. ASSUME Turn, ~(NotFinished /\ main.lastReal = main.item) PROVE writers = {}
    <3> SUFFICES ASSUME NEW t \in writers PROVE FALSE
      OBVIOUS
    <3>1. main.lastReal = main.item /\ main.item \in Pending
      BY WriterIs
    <3>2. NotFinished
      BY <2>2, <3>1 DEF NotFinished, Pending
    <3> QED
      BY <2>2, <3>1, <3>2
  <2>3. ASSUME Collects, IsFront PROVE writers = {}
    <3> SUFFICES ASSUME NEW t \in writers PROVE FALSE
      OBVIOUS
    <3>1. Active(t) /\ coder[t].item = main.item /\ ~Rests(t)
      BY WriterIs
    <3>2. t = main.ti
      BY <2>3, <3>1, AtTheHead DEF IsFront
    <3> QED
      BY <2>3, <3>1, <3>2, TheCollected
  <2> HIDE DEF writers
  <2> QED
    BY <2>1, <2>2, <2>3 DEF OneWriter, writers
<1> QED
  BY <1>1, Invariant, PTL

\* When Update returns S_OK, every item is in the archive, with all of its data, although
\* the error of WriteToStream is dropped.
THEOREM OkIsWritten == Spec => []OkMeansWritten
<1>1. IInv => OkMeansWritten
  <2> SUFFICES ASSUME IInv, main.result = OK PROVE main.item > NumItems /\ (archive = Written \/ dropped)
    BY DEF OkMeansWritten
  <2>1. main.item > NumItems /\ ~failed
    BY DEF IInv, ArchiveFits
  <2>2. CASE dropped
    BY <2>1, <2>2
  <2>3. CASE ~dropped
    BY <2>1, <2>3, NoCurrent DEF Lost
  <2> QED
    BY <2>2, <2>3
<1> QED
  BY <1>1, Invariant, PTL

\* The archive of the current item, with its data so far.
LEMMA CurrentType ==
  ASSUME IInv, ~Lost
  PROVE  /\ archive = Written \o Current /\ Written \in Seq(Unit) /\ Current \in Seq(Unit)
         /\ \/ Current = <<>>
            \/ \E pass \in 1 .. MaxPasses :
                 Current = <<Header(main.item)>> \o Units(main.item, pass, 1, Len(Current) - 1)
<1>0. archive = Written \o Current /\ Written \in Seq(Unit)
  BY WrittenType DEF IInv, ArchiveFits
<1>1. CASE main.lastReal # main.item
  <2>1. <<>> \in Seq(Unit)
    OBVIOUS
  <2> QED
    BY <1>0, <1>1, <2>1, CurrentIs
<1>2. CASE main.lastReal = main.item
  <2>1. PICK h : h = Head(threadIndices)
    OBVIOUS
  <2>2. h \in Threads /\ Active(h) /\ coder[h].item = main.item
    <3>1. threadIndices # <<>> /\ coder[h].item = main.item
      BY <1>2, <2>1 DEF IInv, ArchiveFits
    <3>2. h = threadIndices[1] /\ 1 \in 1 .. Len(threadIndices) /\ h \in Threads
      BY <2>1, <3>1, MainFacts, HeadTailProperties
    <3> QED
      BY <3>1, <3>2 DEF Active
  <2>3. main.item \in Nat /\ 1 \in 1 .. MaxPasses
    BY MainFacts, ConstantTypes
  <2>4. PICK n \in Nat, pass \in 1 .. MaxPasses : Shown(h) = Units(main.item, pass, 1, n)
    <3>1. CASE OnArchive(h)
      <4>1. WrittenBy(h) \in Nat /\ coder[h].pass \in 1 .. MaxPasses
        BY <2>2, WrittenByType
      <4>2. Shown(h) = Units(main.item, coder[h].pass, 1, WrittenBy(h))
        BY <2>2, <3>1 DEF Shown, Data
      <4> QED
        BY <4>1, <4>2
    <3>2. CASE ~OnArchive(h)
      <4>1. Units(main.item, 1, 1, 0) = <<>>
        BY DEF Units
      <4>2. Shown(h) = Units(main.item, 1, 1, 0)
        BY <3>2, <4>1 DEF Shown
      <4> QED
        BY <2>3, <4>2
    <3> QED
      BY <3>1, <3>2
  <2>5. PICK d : d = Units(main.item, pass, 1, n)
    OBVIOUS
  <2>6. d \in Seq(Unit) /\ Len(d) = n
    <3>1. pass \in Nat
      BY <2>4, ConstantTypes
    <3> QED
      BY <2>3, <2>5, <3>1, FirstUnits
  <2>7. Current = <<Header(main.item)>> \o d
    BY <1>2, <2>1, <2>4, <2>5, CurrentIs DEF HeadShown
  <2>8. PICK b : b = <<Header(main.item)>> /\ b \in Seq(Unit) /\ Len(b) = 1
    <3>1. <<Header(main.item)>> \in Seq(Unit) /\ Len(<<Header(main.item)>>) = 1
      BY <2>3, <2>6, HeaderType
    <3> QED
      BY <3>1
  <2> HIDE DEF Unit
  <2>9. b \o d \in Seq(Unit) /\ Len(b \o d) = 1 + n
    BY <2>6, <2>8, ConcatProperties
  <2>10. Len(Current) - 1 = n
    BY <2>7, <2>8, <2>9
  <2> QED
    BY <1>0, <2>5, <2>7, <2>8, <2>9, <2>10
<1> QED
  BY <1>1, <1>2

LEMMA RestOfConcat ==
  ASSUME NEW S, NEW s \in Seq(S), NEW t \in Seq(S)
  PROVE  SubSeq(s \o t, Len(s) + 1, Len(s \o t)) = t
<1>1. /\ s \o t \in Seq(S) /\ Len(s \o t) = Len(s) + Len(t) /\ Len(s) \in Nat /\ Len(t) \in Nat
      /\ \A i \in 1 .. Len(s) + Len(t) : (s \o t)[i] = IF i <= Len(s) THEN s[i] ELSE t[i - Len(s)]
  BY ConcatProperties
<1>2. PICK u, n, m : u = s \o t /\ n = Len(s) /\ m = Len(t)
  OBVIOUS
<1>3. /\ u \in Seq(S) /\ Len(u) = n + m /\ n \in Nat /\ m \in Nat
      /\ \A i \in 1 .. m : u[n + i] = t[i]
  <2>1. u \in Seq(S) /\ Len(u) = n + m /\ n \in Nat /\ m \in Nat
    BY <1>1, <1>2
  <2>2. ASSUME NEW i \in 1 .. m PROVE u[n + i] = t[i]
    <3>1. n + i \in 1 .. n + m /\ ~(n + i <= n) /\ n + i - n = i
      BY <2>1
    <3> QED
      BY <1>1, <1>2, <3>1
  <2> QED
    BY <2>1, <2>2
<1> DEFINE r == SubSeq(u, n + 1, n + m)
<1>4. r \in Seq(S) /\ Len(r) = m /\ \A i \in 1 .. m : r[i] = u[n + i]
  <2>1. r = [i \in 1 .. m |-> u[n + i]]
    <3>1. n + m - (n + 1) + 1 = m /\ \A i \in 1 .. m : i + (n + 1) - 1 = n + i
      BY <1>3
    <3> QED
      BY <1>3, <3>1
  <2>2. \A i \in 1 .. m : u[n + i] \in S
    BY <1>3, ElementOfSeq
  <2> HIDE DEF r
  <2> QED
    BY <1>3, <2>1, <2>2
<1> HIDE DEF r
<1>5. r = t
  BY <1>2, <1>3, <1>4, SeqEqual
<1> QED
  BY <1>1, <1>2, <1>3, <1>5 DEF r

\* The archive is always the items in the order of the update, each with its header and
\* all of its data, and then a part of the current item.
THEOREM ArchiveIsExact == Spec => []ArchiveExact
<1>1. IInv => ArchiveExact
  <2> SUFFICES ASSUME IInv, ~Lost PROVE ArchiveExact
    BY DEF ArchiveExact, Lost
  <2>1. PICK w, c : w = Written /\ c = Current
    OBVIOUS
  <2>2. /\ archive = w \o c /\ w \in Seq(Unit) /\ c \in Seq(Unit)
        /\ \/ c = <<>>
           \/ \E pass \in 1 .. MaxPasses :
                c = <<Header(main.item)>> \o Units(main.item, pass, 1, Len(c) - 1)
    BY <2>1, CurrentType
  <2> HIDE DEF Unit
  <2>3. First(archive, Len(w)) = w /\ SubSeq(archive, Len(w) + 1, Len(archive)) = c
    BY <2>2, FirstOfConcat, RestOfConcat
  <2>4. ItemsInOrder
    BY DEF IInv, ArchiveFits
  <2> QED
    BY <2>1, <2>2, <2>3, <2>4 DEF ArchiveExact
<1> QED
  BY <1>1, Invariant, PTL
===============================================================================
