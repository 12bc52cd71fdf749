---------------------------- MODULE KvCacheProofs ----------------------------
(***************************************************************************)
(* The KV cache for any number of sequences, cells and batches: what a     *)
(* decode carries from step to step has the shape it should have, and the  *)
(* keys stay rotated to the positions of the cells.                        *)
(*                                                                         *)
(* While micro-batches are on trial the cells do not tell the truth: what  *)
(* is right then is what they will hold when the trial is taken back, and  *)
(* that depends on which micro-batch took a cell first (RotInv).           *)
(***************************************************************************)
EXTENDS KvCache, FiniteSetTheorems, SequenceTheorems, WellFoundedInduction, TLAPS

----------------------------------------------------------------------------
(* Numbers: least elements, bounds, counting and division.                 *)

LEMMA LeastNatural ==
  ASSUME NEW T \in SUBSET Nat, T # {}
  PROVE  \E m \in T : \A k \in T : m <= k
<1>1. PICK m \in T : \A k \in T : ~(<<k, m>> \in OpToRel(<, Nat))
  BY NatLessThanWellFounded, WFMin
<1>2. \A k \in T : ~(k < m)
  BY <1>1 DEF OpToRel
<1> QED
  BY <1>2

(* A finite set of integers has a least and a greatest element.            *)
HasBounds(S) == \E lo \in S, hi \in S : \A x \in S : lo <= x /\ x <= hi

LEMMA FiniteBounds ==
  ASSUME NEW S \in SUBSET Int, IsFiniteSet(S), S # {}
  PROVE  HasBounds(S)
<1> DEFINE Lacking == {n \in Nat : \E T \in SUBSET Int : /\ IsFiniteSet(T) /\ T # {} /\ ~HasBounds(T)
                                                        /\ Cardinality(T) = n}
<1> SUFFICES ASSUME ~HasBounds(S) PROVE FALSE
  OBVIOUS
<1>1. Cardinality(S) \in Lacking
  BY FS_CardinalityType
<1>2. PICK n \in Lacking : \A k \in Lacking : n <= k
  <2>1. Lacking \in SUBSET Nat /\ Lacking # {}
    BY <1>1
  <2> QED
    BY <2>1, LeastNatural
<1>3. PICK T \in SUBSET Int : IsFiniteSet(T) /\ T # {} /\ ~HasBounds(T) /\ Cardinality(T) = n
  BY <1>2
<1>4. PICK e : e \in T
  BY <1>3
<1> DEFINE R == T \ {e}
<1>5. IsFiniteSet(R) /\ Cardinality(R) = n - 1 /\ n - 1 \in Nat
  <2>1. IsFiniteSet(R) /\ Cardinality(R) = n - 1
    BY <1>3, <1>4, FS_RemoveElement
  <2> HIDE DEF R
  <2> QED
    BY <2>1, FS_CardinalityType
<1>6. R = {} \/ HasBounds(R)
  <2>1. n - 1 \notin Lacking
    BY <1>2, <1>5
  <2> QED
    BY <1>5, <2>1
<1>7. CASE R = {}
  <2>1. \A x \in T : x = e
    BY <1>4, <1>7
  <2> QED
    BY <1>3, <1>4, <2>1 DEF HasBounds
<1>8. CASE HasBounds(R)
  <2>1. PICK lo \in R, hi \in R : \A x \in R : lo <= x /\ x <= hi
    BY <1>8 DEF HasBounds
  <2> DEFINE l == IF e < lo THEN e ELSE lo
             h == IF e > hi THEN e ELSE hi
  <2>2. l \in T /\ h \in T /\ e \in Int /\ lo \in Int /\ hi \in Int
    BY <1>4, <2>1
  <2>3. \A x \in T : l <= x /\ x <= h
    BY <1>4, <2>1, <2>2
  <2> HIDE DEF l, h
  <2> QED
    BY <1>3, <2>2, <2>3 DEF HasBounds
<1> QED
  BY <1>6, <1>7, <1>8

LEMMA MaxOf ==
  ASSUME NEW S \in SUBSET Int, IsFiniteSet(S), S # {}
  PROVE  Max(S) \in S /\ \A x \in S : x <= Max(S)
<1>1. \E x \in S : \A y \in S : x >= y
  BY FiniteBounds DEF HasBounds
<1> QED
  BY <1>1 DEF Max

LEMMA MinOf ==
  ASSUME NEW S \in SUBSET Int, IsFiniteSet(S), S # {}
  PROVE  Min(S) \in S /\ \A x \in S : Min(S) <= x
<1>1. \E x \in S : \A y \in S : x <= y
  BY FiniteBounds DEF HasBounds
<1> QED
  BY <1>1 DEF Min

(* The elements of a finite set of naturals can be counted off.            *)
LEMMA CountedOff ==
  ASSUME NEW S \in SUBSET Nat, IsFiniteSet(S), NEW k \in 1 .. Cardinality(S)
  PROVE  \E j \in S : Cardinality({i \in S : i <= j}) = k
<1> DEFINE upto(j) == {i \in S : i <= j}
           T == {j \in S : Cardinality(upto(j)) >= k}
<1>1. \A j \in Nat : IsFiniteSet(upto(j)) /\ Cardinality(upto(j)) \in Nat
  <2> SUFFICES ASSUME NEW j \in Nat PROVE IsFiniteSet(upto(j)) /\ Cardinality(upto(j)) \in Nat
    OBVIOUS
  <2>1. upto(j) \in SUBSET S
    OBVIOUS
  <2> HIDE DEF upto
  <2> QED
    BY <2>1, FS_Subset, FS_CardinalityType
<1>2. S # {} /\ Cardinality(S) \in Nat
  BY FS_EmptySet, FS_CardinalityType
<1>3. T # {}
  <2>1. Max(S) \in S /\ \A x \in S : x <= Max(S)
    BY <1>2, MaxOf
  <2>2. upto(Max(S)) = S
    BY <2>1
  <2> HIDE DEF upto
  <2> QED
    BY <1>2, <2>1, <2>2
<1>4. PICK j \in T : \A i \in T : j <= i
  BY <1>3, LeastNatural
<1> j \in Int /\ j \in S /\ \A x \in S : x \in Int
  BY <1>4
<1> DEFINE below == {i \in S : i < j}
<1>5. Cardinality(upto(j)) = Cardinality(below) + 1 /\ IsFiniteSet(below) /\ Cardinality(below) \in Nat
  <2>1. j \in upto(j) /\ upto(j) \ {j} = below
    <3>1. j \in upto(j)
      OBVIOUS
    <3>2. ASSUME NEW x PROVE x \in upto(j) \ {j} <=> x \in below
      <4>1. CASE x \in S
        <5>1. x \in Int
          BY <4>1
        <5>2. (x <= j /\ x # j) <=> x < j
          BY <5>1
        <5> QED
          BY <4>1, <5>2
      <4>2. CASE x \notin S
        BY <4>2
      <4> QED
        BY <4>1, <4>2
    <3> HIDE DEF upto, below
    <3> QED
      BY <3>1, <3>2
  <2>2. IsFiniteSet(upto(j))
    BY <1>1
  <2> HIDE DEF below, upto
  <2>3. Cardinality(below) = Cardinality(upto(j)) - 1 /\ IsFiniteSet(below)
    BY <2>1, <2>2, FS_RemoveElement
  <2> QED
    BY <1>1, <2>3, FS_CardinalityType
<1>6. Cardinality(below) < k
  <2>1. CASE below = {}
    <3>1. Cardinality(below) = 0
      BY <2>1, FS_EmptySet
    <3> HIDE DEF below
    <3> QED
      BY <3>1
  <2>2. CASE below # {}
    <3>1. below \in SUBSET Int
      OBVIOUS
    <3>2. Max(below) \in below /\ \A x \in below : x <= Max(below)
      <4> HIDE DEF below
      <4> QED
        BY <1>5, <2>2, <3>1, MaxOf
    <3> DEFINE m == Max(below)
    <3> HIDE DEF m
    <3>3. m \in S /\ m < j /\ m \in Nat /\ \A x \in S : x < j => x <= m
      BY <3>2 DEF m
    <3>4. upto(m) = below
      <4>1. \A x \in S : x <= m <=> x < j
        BY <3>3
      <4> QED
        BY <4>1
    <3>5. m \notin T
      BY <1>4, <3>3
    <3> HIDE DEF below, upto
    <3> QED
      BY <1>5, <3>3, <3>4, <3>5
  <2> QED
    BY <2>1, <2>2
<1>7. Cardinality(upto(j)) >= k
  BY <1>4
<1>8. Cardinality(upto(j)) = k
  <2> HIDE DEF upto, below
  <2> QED
    BY <1>5, <1>6, <1>7
<1> QED
  BY <1>8

(* x tokens in pieces of n: the last token is in the last piece.           *)
LEMMA DivBound ==
  ASSUME NEW x \in Nat, NEW n \in Nat \ {0}, NEW c \in Nat, x < n * c
  PROVE  x \div n \in 0 .. c - 1
<1> DEFINE q == x \div n
<1>1. q \in Int /\ n * q <= x /\ 0 <= q
  OBVIOUS
<1> HIDE DEF q
<1>2. q < c
  <2> SUFFICES ASSUME q >= c PROVE FALSE
    BY <1>1
  <2>1. n * q >= n * c
    BY <1>1
  <2> QED
    BY <1>1, <2>1
<1> QED
  BY <1>1, <1>2 DEF q

----------------------------------------------------------------------------
(* Copies between streams: the recursive definition has a value, the last  *)
(* of a run of single copies.                                              *)

CopyRun(f, N, keys, sc) ==
  f = [n \in 0 .. N |-> IF n = 0 THEN keys ELSE stream_copy(f[n - 1], sc[n])]

LEMMA CopyRunExists ==
  ASSUME NEW N \in Nat, NEW keys, NEW sc
  PROVE  \E f : CopyRun(f, N, keys, sc)
<1> DEFINE Lacks == {m \in Nat : ~\E f : CopyRun(f, m, keys, sc)}
<1> SUFFICES ASSUME Lacks # {} PROVE FALSE
  OBVIOUS
<1>1. PICK m \in Lacks : \A k \in Lacks : m <= k
  BY LeastNatural
<1>2. CASE m = 0
  <2> DEFINE f == [n \in 0 .. 0 |-> keys]
  <2>1. CopyRun(f, 0, keys, sc)
    BY DEF CopyRun
  <2> QED
    BY <1>2, <2>1
<1>3. CASE m # 0
  <2>1. m - 1 \in Nat /\ m - 1 \notin Lacks
    BY <1>1, <1>3
  <2>2. PICK f : CopyRun(f, m - 1, keys, sc)
    BY <2>1
  <2> DEFINE g == [n \in 0 .. m |-> IF n = m THEN stream_copy(f[m - 1], sc[m]) ELSE f[n]]
  <2>3. \A n \in 0 .. m - 1 : g[n] = f[n] /\ f[n] = IF n = 0 THEN keys ELSE stream_copy(f[n - 1], sc[n])
    BY <1>1, <2>2 DEF CopyRun
  <2>4. g[m] = stream_copy(f[m - 1], sc[m])
    BY <1>1
  <2>5. g = [n \in 0 .. m |-> g[n]]
    OBVIOUS
  <2> HIDE DEF g
  <2>6. ASSUME NEW n \in 0 .. m
        PROVE  g[n] = IF n = 0 THEN keys ELSE stream_copy(g[n - 1], sc[n])
    <3>1. n \in Nat /\ m \in Nat /\ n <= m
      BY <1>1
    <3>2. CASE n = 0
      <4>1. n \in 0 .. m - 1
        BY <1>1, <1>3, <3>2
      <4> QED
        BY <2>3, <3>2, <4>1
    <3>3. CASE n # 0
      <4>1. n - 1 \in 0 .. m - 1
        BY <3>1, <3>3
      <4>2. g[n - 1] = f[n - 1]
        BY <2>3, <4>1
      <4>3. CASE n = m
        BY <2>4, <3>3, <4>2, <4>3
      <4>4. CASE n # m
        <5>1. n \in 0 .. m - 1
          BY <3>1, <4>4
        <5> QED
          BY <2>3, <3>3, <4>2, <5>1
      <4> QED
        BY <4>3, <4>4
    <3> QED
      BY <3>2, <3>3
  <2>7. CopyRun(g, m, keys, sc)
    BY <2>5, <2>6 DEF CopyRun
  <2> QED
    BY <1>1, <2>7
<1> QED
  BY <1>2, <1>3

LEMMA CopiesRun ==
  ASSUME NEW keys, NEW sc, Len(sc) \in Nat
  PROVE  \E f : CopyRun(f, Len(sc), keys, sc) /\ stream_copies(keys, sc) = f[Len(sc)]
<1> DEFINE after[n \in 0 .. Len(sc)] == IF n = 0 THEN keys ELSE stream_copy(after[n - 1], sc[n])
<1>1. stream_copies(keys, sc) = after[Len(sc)]
  BY DEF stream_copies
<1>2. after = CHOOSE f : CopyRun(f, Len(sc), keys, sc)
  BY DEF CopyRun
<1>3. \E f : CopyRun(f, Len(sc), keys, sc)
  BY CopyRunExists
<1> HIDE DEF after
<1> QED
  BY <1>1, <1>2, <1>3

LEMMA NoCopies ==
  ASSUME NEW keys
  PROVE  stream_copies(keys, <<>>) = keys
<1>1. Len(<<>>) = 0
  BY EmptySeq
<1>2. PICK f : CopyRun(f, 0, keys, <<>>) /\ stream_copies(keys, <<>>) = f[0]
  BY <1>1, CopiesRun
<1> QED
  BY <1>2 DEF CopyRun

LEMMA CopiesType ==
  ASSUME NEW St, NEW V, NEW keys \in [St -> V], NEW sc \in Seq(St \X St)
  PROVE  stream_copies(keys, sc) \in [St -> V]
<1> DEFINE N == Len(sc)
<1>1. N \in Nat /\ \A n \in 1 .. N : sc[n] \in St \X St
  BY LenProperties, ElementOfSeq
<1>2. PICK f : CopyRun(f, N, keys, sc) /\ stream_copies(keys, sc) = f[N]
  BY <1>1, CopiesRun
<1> HIDE DEF N
<1> DEFINE Bad == {n \in 0 .. N : f[n] \notin [St -> V]}
<1>3. Bad = {}
  <2> SUFFICES ASSUME Bad # {} PROVE FALSE
    OBVIOUS
  <2>1. PICK n \in Bad : \A k \in Bad : n <= k
    <3>1. Bad \in SUBSET Nat
      BY <1>1
    <3> HIDE DEF Bad
    <3> QED
      BY <3>1, LeastNatural
  <2>2. n \in Nat /\ n <= N /\ n \in 0 .. N
    BY <1>1
  <2>3. f[0] = keys
    BY <1>1, <1>2 DEF CopyRun
  <2>4. CASE n = 0
    BY <2>1, <2>3, <2>4
  <2>5. CASE n # 0
    <3>1. n - 1 \in 0 .. N /\ n - 1 \in Nat /\ n \in 1 .. N
      BY <1>1, <2>2, <2>5
    <3>2. f[n - 1] \in [St -> V]
      BY <2>1, <2>2, <3>1
    <3>3. f[n] = stream_copy(f[n - 1], sc[n])
      BY <1>1, <1>2, <2>2, <2>5 DEF CopyRun
    <3>4. sc[n] \in St \X St
      BY <1>1, <3>1
    <3>5. f[n] \in [St -> V]
      BY <3>2, <3>3, <3>4 DEF stream_copy
    <3> QED
      BY <2>1, <3>5
  <2> QED
    BY <2>4, <2>5
<1> QED
  BY <1>1, <1>2, <1>3

(* A copy that is ordered last is done last.                               *)
LEMMA CopiesAppend ==
  ASSUME NEW St, NEW keys, NEW sc \in Seq(St \X St), NEW c \in St \X St
  PROVE  stream_copies(keys, Append(sc, c)) = stream_copy(stream_copies(keys, sc), c)
<1> DEFINE N == Len(sc)
           sd == Append(sc, c)
<1>1. /\ N \in Nat /\ Len(sd) = N + 1 /\ sd[N + 1] = c
      /\ \A n \in 1 .. N : sd[n] = sc[n]
  BY LenProperties, AppendProperties
<1>2. PICK f : CopyRun(f, N, keys, sc) /\ stream_copies(keys, sc) = f[N]
  BY <1>1, CopiesRun
<1> HIDE DEF N, sd
<1>3. PICK g : CopyRun(g, N + 1, keys, sd) /\ stream_copies(keys, sd) = g[N + 1]
  <2>1. Len(sd) \in Nat
    BY <1>1
  <2> QED
    BY <1>1, <2>1, CopiesRun
<1> DEFINE Bad == {n \in 0 .. N : f[n] # g[n]}
<1>4. Bad = {}
  <2> SUFFICES ASSUME Bad # {} PROVE FALSE
    OBVIOUS
  <2>1. PICK n \in Bad : \A k \in Bad : n <= k
    <3>1. Bad \in SUBSET Nat
      BY <1>1
    <3> HIDE DEF Bad
    <3> QED
      BY <3>1, LeastNatural
  <2>2. n \in Nat /\ n <= N /\ n \in 0 .. N /\ n \in 0 .. N + 1
    BY <1>1
  <2>3. f[n] = (IF n = 0 THEN keys ELSE stream_copy(f[n - 1], sc[n]))
        /\ g[n] = (IF n = 0 THEN keys ELSE stream_copy(g[n - 1], sd[n]))
    BY <1>2, <1>3, <2>2 DEF CopyRun
  <2>4. CASE n = 0
    BY <2>1, <2>3, <2>4
  <2>5. CASE n # 0
    <3>1. n - 1 \in 0 .. N /\ n - 1 \in Nat /\ n \in 1 .. N
      BY <1>1, <2>2, <2>5
    <3>2. f[n - 1] = g[n - 1]
      BY <2>1, <2>2, <3>1
    <3> QED
      BY <1>1, <2>1, <2>3, <2>5, <3>1, <3>2
  <2> QED
    BY <2>4, <2>5
<1>5. N \in 0 .. N /\ N + 1 \in 0 .. N + 1 /\ N + 1 # 0 /\ (N + 1) - 1 = N
  BY <1>1
<1>6. g[N + 1] = stream_copy(g[N], sd[N + 1])
  BY <1>3, <1>5 DEF CopyRun
<1> QED
  BY <1>1, <1>2, <1>3, <1>4, <1>5, <1>6 DEF sd

----------------------------------------------------------------------------
(* Types.  A batch that is under way has a slot for every micro-batch that *)
(* was placed on trial, with a cell for each of its tokens.                *)

Cell == [pos : Int, shift : Int, seq : SUBSET Seqs]
Key == [tok : Nat, rot : Int]
Token == [tok : Nat, pos : Int, seq : SUBSET Seqs]
SlotInfo == [Streams -> Seq(Slots)]
Ubatch == [Streams -> Seq(Token)]
Saved == [sinfo : SlotInfo, heads : [Streams -> 0 .. Size], cells : [Streams -> Seq(Cell)]]

CacheTypes ==
  /\ seq_to_stream \in {[s \in Seqs |-> 0], [s \in Seqs |-> s]}
  /\ v_cells \in [Streams -> [Slots -> Cell]]
  /\ v_heads \in [Streams -> 0 .. Size]
  /\ sc_info \in Seq(Streams \X Streams)
  /\ data \in [Streams -> [Slots -> Key]]
  /\ ntok \in Nat

BatchTypes ==
  /\ ubatches \in Seq(Ubatch) /\ sinfos \in Seq(SlotInfo) /\ states \in Seq(Saved) /\ i_cur \in Nat
  /\ \A k \in 1 .. Len(sinfos), st \in Streams : DOMAIN sinfos[k][st] = DOMAIN ubatches[k][st]
  /\ \A m \in 1 .. Len(states), st \in Streams : DOMAIN states[m].cells[st] = DOMAIN states[m].sinfo[st]

PhaseInv ==
  /\ phase \in {"idle", "prepare", "restore", "undo", "compute"}
  /\ phase # "idle" => sc_info = <<>> /\ Len(ubatches) > 0 /\ Len(sinfos) <= Len(ubatches)
  /\ phase \in {"prepare", "compute"} => i_cur \in 1 .. Len(ubatches)
  /\ phase = "prepare" => Len(sinfos) = i_cur - 1
  /\ phase \in {"restore", "compute"} => Len(sinfos) = Len(ubatches)
  /\ phase \in {"idle", "compute"} => states = <<>>

TypeInv == CacheTypes /\ BatchTypes /\ PhaseInv

(* A cell is empty, or the key behind it will be rotated to its position   *)
(* by the shift that is pending.                                           *)
Sound(c, k, D) == is_empty(c) \/ k.tok \in D \/ k.rot + c.shift = c.pos

(* It is what the cells hold that is sound, or, where a micro-batch is on  *)
(* trial, what they will hold when the first that took the cell is undone. *)
Untouched(n, st, i) == \A m \in 1 .. n : ~in_slot(states[m].sinfo, st, i)

RotInv ==
  \A st \in Streams, i \in Slots :
    /\ Untouched(Len(states), st, i) => Sound(v_cells[st][i], Keys[st][i], divided \union {0})
    /\ \A m \in 1 .. Len(states) :
         in_slot(states[m].sinfo, st, i) /\ Untouched(m - 1, st, i) =>
           Sound(states[m].cells[st][idx_of(states[m].sinfo, st, i)], Keys[st][i], divided \union {0})

LEMMA SlotsAre == Slots \in SUBSET Nat /\ Slots # {} /\ IsFiniteSet(Slots) /\ Size \in Nat /\ Seqs \in SUBSET Nat
<1>1. Size \in Nat /\ NSeqs \in Nat /\ 0 \in Slots
  BY CacheAssumption DEF Slots
<1>2. IsFiniteSet(0 .. Size - 1)
  BY <1>1, FS_Interval
<1> QED
  BY <1>1, <1>2 DEF Slots, Seqs

LEMMA StreamsAre ==
  ASSUME CacheTypes
  PROVE  /\ Streams \in SUBSET Nat /\ IsFiniteSet(Streams)
         /\ \A s \in Seqs : seq_to_stream[s] \in Streams
         /\ \A s, t \in Streams : s <= t => t - s \in Streams
         /\ ~unified => Streams = Seqs
<1>1. Streams = {0} \/ Streams = Seqs
  <2>1. 0 \in Seqs
    BY CacheAssumption DEF Seqs
  <2> QED
    BY <2>1 DEF CacheTypes, Streams
<1>2. IsFiniteSet({0}) /\ Cardinality({0}) = 1
  BY FS_Singleton
<1>3. IsFiniteSet(Seqs)
  BY CacheAssumption, FS_Interval DEF Seqs
<1>4. \A s, t \in Streams : s <= t => t - s \in Streams
  BY <1>1, CacheAssumption DEF Seqs
<1>5. \A s \in Seqs : seq_to_stream[s] \in Streams
  BY DEF Streams
<1>6. ~unified => Streams = Seqs
  BY <1>1, <1>2 DEF unified
<1>7. Streams \in SUBSET Nat /\ IsFiniteSet(Streams)
  <2>1. CASE Streams = {0}
    <3>1. {0} \in SUBSET Nat
      OBVIOUS
    <3> QED
      BY <1>2, <2>1, <3>1
  <2>2. CASE Streams = Seqs
    BY <1>3, <2>2, SlotsAre
  <2> QED
    BY <1>1, <2>1, <2>2
<1> QED
  BY <1>4, <1>5, <1>6, <1>7

LEMMA EmptyCell == Empty \in Cell /\ is_empty(Empty) /\ Empty.pos = -1 /\ Empty.shift = 0
BY DEF Empty, Cell, is_empty

LEMMA CellsFinite ==
  ASSUME NEW cells \in [Slots -> Cell], NEW I \in SUBSET Slots
  PROVE  {cells[i].pos : i \in I} \in SUBSET Int /\ IsFiniteSet({cells[i].pos : i \in I})
<1> DEFINE P == {cells[i].pos : i \in I}
           f == [i \in I |-> cells[i].pos]
<1>1. P \in SUBSET Int
  BY DEF Cell
<1>2. f \in Surjection(I, P)
  BY DEF Surjection
<1>3. IsFiniteSet(I)
  BY SlotsAre, FS_Subset
<1> HIDE DEF P, f
<1>4. IsFiniteSet(P)
  BY <1>2, <1>3, FS_Surjection
<1> QED
  BY <1>1, <1>4 DEF P

LEMMA PosMaxType ==
  ASSUME NEW cells \in [Slots -> Cell], NEW s
  PROVE  seq_pos_max(cells, s) \in Int
<1>1. seq_pos(cells, s) \in SUBSET Int /\ IsFiniteSet(seq_pos(cells, s))
  <2>1. {j \in Slots : s \in cells[j].seq} \in SUBSET Slots
    OBVIOUS
  <2> QED
    BY <2>1, CellsFinite DEF seq_pos
<1> QED
  BY <1>1, MaxOf DEF seq_pos_max

(* find_slot finds cells of the stream, one for each token.                *)
LEMMA FindSlotType ==
  ASSUME CacheTypes, NEW st \in Streams, NEW n \in Nat
  PROVE  /\ find_slot(st, n) \in Seq(Slots)
         /\ find_slot(st, n) # <<>> => DOMAIN find_slot(st, n) = 1 .. n
<1> DEFINE cells == v_cells[st]
           head_cur == IF v_heads[st] > Cardinality(used(cells)) + 2 * n THEN 0 ELSE v_heads[st]
           ring(j) == (head_cur + j) % Size
           usable == {j \in Slots : can_use(cells[ring(j)], cells)}
           nth(k) == CHOOSE j \in usable : Cardinality({i \in usable : i <= j}) = k
           slot == [k \in 1 .. n |-> ring(nth(k))]
<1>1. find_slot(st, n) = IF Cardinality(usable) < n THEN <<>> ELSE slot
  BY DEF find_slot
<1>2. head_cur \in Nat
  BY SlotsAre DEF CacheTypes
<1> HIDE DEF head_cur
<1>3. \A j \in Nat : ring(j) \in Slots
  BY <1>2, CacheAssumption DEF Slots
<1>4. usable \in SUBSET Nat /\ IsFiniteSet(usable)
  BY SlotsAre, FS_Subset
<1> HIDE DEF usable, ring
<1>5. CASE ~(Cardinality(usable) < n)
  <2>1. Cardinality(usable) \in Nat
    BY <1>4, FS_CardinalityType
  <2>2. \A k \in 1 .. n : nth(k) \in usable
    <3> SUFFICES ASSUME NEW k \in 1 .. n PROVE \E j \in usable : Cardinality({i \in usable : i <= j}) = k
      OBVIOUS
    <3>1. k \in 1 .. Cardinality(usable)
      BY <1>5, <2>1
    <3> QED
      BY <1>4, <3>1, CountedOff
  <2> HIDE DEF nth
  <2>3. \A k \in 1 .. n : ring(nth(k)) \in Slots
    BY <1>3, <1>4, <2>2
  <2>4. slot \in [1 .. n -> Slots]
    BY <2>3
  <2>5. slot \in Seq(Slots) /\ DOMAIN slot = 1 .. n
    BY <2>4, SeqDef
  <2> QED
    BY <1>1, <1>5, <2>5
<1>6. CASE Cardinality(usable) < n
  BY <1>1, <1>6, EmptySeq
<1> QED
  BY <1>5, <1>6

(* A micro-batch in its slot.                                              *)
Fits(sinfo, ub) == \A st \in Streams : DOMAIN sinfo[st] = DOMAIN ub[st]

LEMMA TokenOf ==
  ASSUME NEW sinfo \in SlotInfo, NEW ub \in Ubatch, Fits(sinfo, ub),
         NEW st \in Streams, NEW i, in_slot(sinfo, st, i)
  PROVE  ub[st][idx_of(sinfo, st, i)] \in Token /\ idx_of(sinfo, st, i) \in DOMAIN sinfo[st]
         /\ sinfo[st][idx_of(sinfo, st, i)] = i
<1>1. idx_of(sinfo, st, i) \in DOMAIN sinfo[st] /\ sinfo[st][idx_of(sinfo, st, i)] = i
  BY DEF in_slot, idx_of
<1>2. ub[st] \in Seq(Token) /\ DOMAIN ub[st] = 1 .. Len(ub[st])
  BY LenProperties DEF Ubatch
<1> QED
  BY <1>1, <1>2, ElementOfSeq DEF Fits

LEMMA PutType ==
  ASSUME CacheTypes, NEW sinfo \in SlotInfo, NEW ub \in Ubatch, Fits(sinfo, ub)
  PROVE  put(sinfo, ub) \in [Streams -> [Slots -> Cell]]
<1> SUFFICES ASSUME NEW st \in Streams, NEW i \in Slots PROVE put(sinfo, ub)[st][i] \in Cell
  BY DEF put
<1>1. CASE in_slot(sinfo, st, i)
  <2> DEFINE t == ub[st][idx_of(sinfo, st, i)]
  <2>1. t \in Token
    BY <1>1, TokenOf
  <2>2. put(sinfo, ub)[st][i] = [pos |-> t.pos, shift |-> 0, seq |-> t.seq]
    BY <1>1 DEF put
  <2> HIDE DEF t
  <2> QED
    BY <2>1, <2>2 DEF Token, Cell
<1>2. CASE ~in_slot(sinfo, st, i)
  BY <1>2 DEF put, CacheTypes
<1> QED
  BY <1>1, <1>2

(* What is purged was put there; what stays keeps its position and shift.  *)
LEMMA ApplyType ==
  ASSUME CacheTypes, NEW sinfo \in SlotInfo, NEW ub \in Ubatch, Fits(sinfo, ub)
  PROVE  /\ apply_ubatch(sinfo, ub) \in [Streams -> [Slots -> Cell]]
         /\ \A st \in Streams, i \in Slots :
              LET c == apply_ubatch(sinfo, ub)[st][i] p == put(sinfo, ub)[st][i] IN
              c = Empty \/ (c.pos = p.pos /\ c.shift = p.shift /\ c.seq \subseteq p.seq)
<1> DEFINE new == apply_ubatch(sinfo, ub)
           p == put(sinfo, ub)
<1>1. p \in [Streams -> [Slots -> Cell]]
  BY PutType
<1> HIDE DEF p
<1>2. ASSUME NEW st \in Streams, NEW i \in Slots
      PROVE  \E keep \in SUBSET p[st][i].seq :
               new[st][i] = IF keep = {} THEN Empty ELSE [p[st][i] EXCEPT !.seq = keep]
  BY DEF apply_ubatch, p
<1>3. DOMAIN new = Streams /\ \A st \in Streams : new[st] = [i \in Slots |-> new[st][i]]
  BY DEF apply_ubatch
<1>7. new = [st \in Streams |-> new[st]]
  BY DEF apply_ubatch
<1> HIDE DEF new
<1>4. ASSUME NEW st \in Streams, NEW i \in Slots
      PROVE  /\ new[st][i] \in Cell
             /\ new[st][i] = Empty \/ (/\ new[st][i].pos = p[st][i].pos /\ new[st][i].shift = p[st][i].shift
                                       /\ new[st][i].seq \subseteq p[st][i].seq)
  <2>1. p[st][i] \in Cell
    BY <1>1
  <2>2. PICK keep \in SUBSET p[st][i].seq :
               new[st][i] = IF keep = {} THEN Empty ELSE [p[st][i] EXCEPT !.seq = keep]
    BY <1>2
  <2>3. CASE keep = {}
    BY <2>2, <2>3, EmptyCell
  <2>4. CASE keep # {}
    BY <2>1, <2>2, <2>4 DEF Cell
  <2> QED
    BY <2>3, <2>4
<1>5. \A st \in Streams : new[st] \in [Slots -> Cell]
  BY <1>3, <1>4
<1>6. new \in [Streams -> [Slots -> Cell]]
  BY <1>5, <1>7
<1> QED
  BY <1>4, <1>6 DEF new, p

LEMMA HeadsType ==
  ASSUME CacheTypes, NEW sinfo \in SlotInfo
  PROVE  heads_behind(sinfo) \in [Streams -> 0 .. Size]
<1> SUFFICES ASSUME NEW st \in Streams PROVE heads_behind(sinfo)[st] \in 0 .. Size
  BY DEF heads_behind
<1>1. CASE sinfo[st] = <<>>
  BY <1>1 DEF heads_behind, CacheTypes
<1>2. CASE sinfo[st] # <<>>
  <2>1. sinfo[st] \in Seq(Slots)
    BY DEF SlotInfo
  <2>2. Len(sinfo[st]) \in 1 .. Len(sinfo[st])
    BY <1>2, <2>1, EmptySeq
  <2>3. Last(sinfo[st]) \in Slots
    BY <2>1, <2>2, ElementOfSeq DEF Last
  <2>4. heads_behind(sinfo)[st] = Last(sinfo[st]) + 1
    BY <1>2 DEF heads_behind
  <2> QED
    BY <2>3, <2>4, SlotsAre DEF Slots
<1> QED
  BY <1>1, <1>2

(* The batch and its micro-batches.                                        *)

LEMMA TupleIsSeq ==
  ASSUME NEW n \in Nat, NEW V, NEW f, f \in [1 .. n -> V]
  PROVE  f \in Seq(V) /\ Len(f) = n
<1>1. f \in Seq(V)
  BY SeqDef
<1> QED
  BY <1>1, LenProperties

LEMMA NextPosType ==
  ASSUME CacheTypes, NEW s \in Seqs
  PROVE  next_pos(s) \in Int
<1>1. v_cells[seq_to_stream[s]] \in [Slots -> Cell]
  BY StreamsAre DEF CacheTypes
<1>2. seq_pos_max(v_cells[seq_to_stream[s]], s) \in Int
  BY <1>1, PosMaxType
<1> QED
  BY <1>2 DEF next_pos

LEMMA BatchSeqs ==
  ASSUME NEW S \in SUBSET Seqs, S # {}
  PROVE  /\ Min(S) \in S /\ Max(S) \in S /\ Min(S) <= Max(S) /\ Min(S) \in Nat /\ Max(S) \in Nat
         /\ S = Min(S) .. Max(S) => Cardinality(S) = Max(S) - Min(S) + 1
         /\ Cardinality(S) \in Nat \ {0} /\ Cardinality(S) <= NSeqs
<1>1. IsFiniteSet(Seqs) /\ Cardinality(Seqs) = NSeqs
  <2>1. NSeqs - 1 \in Int /\ NSeqs \in Int /\ NSeqs > 0 /\ NSeqs - 1 - 0 + 1 = NSeqs
    BY CacheAssumption
  <2> QED
    BY <2>1, FS_Interval DEF Seqs
<1>2. IsFiniteSet(S) /\ Cardinality(S) <= NSeqs /\ Cardinality(S) \in Nat \ {0}
  BY <1>1, FS_Subset, FS_CardinalityType, FS_EmptySet
<1>3. \A s \in S : s \in Nat /\ s \in Int
  BY SlotsAre
<1>4. S \in SUBSET Int
  BY <1>3
<1>5. Min(S) \in S /\ Max(S) \in S /\ Min(S) <= Max(S)
  BY <1>2, <1>4, MinOf, MaxOf
<1>6. ASSUME S = Min(S) .. Max(S) PROVE Cardinality(S) = Max(S) - Min(S) + 1
  <2> DEFINE a == Min(S)
             b == Max(S)
  <2>1. a \in Int /\ b \in Int /\ ~(a > b) /\ S = a .. b
    BY <1>3, <1>5, <1>6
  <2> HIDE DEF a, b
  <2>2. Cardinality(S) = b - a + 1
    BY <2>1, FS_Interval
  <2> QED
    BY <2>2 DEF a, b
<1> QED
  BY <1>2, <1>3, <1>5, <1>6

LEMMA TokensType ==
  ASSUME CacheTypes, NEW S \in SUBSET Seqs, S # {}, S = Min(S) .. Max(S), NEW n \in Nat \ {0},
         NEW coupled \in BOOLEAN
  PROVE  /\ tokens(S, n, coupled) \in Seq(Token)
         /\ Len(tokens(S, n, coupled)) = IF coupled THEN n ELSE n * Cardinality(S)
<1> DEFINE lo == Min(S)
           C == Cardinality(S)
<1>1. lo \in S /\ lo \in Nat /\ C \in Nat \ {0} /\ \A q \in 0 .. C - 1 : lo + q \in S
  BY BatchSeqs
<1>2. ntok \in Nat
  BY DEF CacheTypes
<1> HIDE DEF lo, C
<1>3. CASE coupled
  <2> DEFINE tk(j) == [tok |-> ntok + j, pos |-> next_pos(lo) + j - 1, seq |-> S]
             T == [j \in 1 .. n |-> tk(j)]
  <2>1. tokens(S, n, coupled) = T
    BY <1>3 DEF tokens, lo
  <2>2. next_pos(lo) \in Int
    BY <1>1, NextPosType
  <2>3. ASSUME NEW j \in 1 .. n PROVE tk(j) \in Token
    BY <1>2, <2>2 DEF Token
  <2> HIDE DEF tk
  <2>4. T \in [1 .. n -> Token]
    BY <2>3
  <2> HIDE DEF T
  <2> QED
    BY <1>3, <2>1, <2>4, TupleIsSeq
<1>4. CASE ~coupled
  <2> DEFINE s(j) == lo + ((j - 1) \div n)
             tk(j) == [tok |-> ntok + j, pos |-> next_pos(s(j)) + ((j - 1) % n), seq |-> {s(j)}]
             N == n * C
             T == [j \in 1 .. N |-> tk(j)]
  <2>1. tokens(S, n, coupled) = T
    BY <1>4 DEF tokens, lo, C
  <2>2. N \in Nat
    BY <1>1
  <2>3. ASSUME NEW j \in 1 .. N PROVE s(j) \in S /\ (j - 1) % n \in Int
    <3>1. j - 1 \in Nat /\ j - 1 < n * C
      BY <2>2
    <3> HIDE DEF N
    <3>2. (j - 1) \div n \in 0 .. C - 1
      BY <1>1, <3>1, DivBound
    <3>3. (j - 1) % n \in Int
      BY <3>1
    <3> QED
      BY <1>1, <3>2, <3>3
  <2> HIDE DEF s, N
  <2>4. ASSUME NEW j \in 1 .. N PROVE tk(j) \in Token
    <3>1. next_pos(s(j)) \in Int
      BY <2>3, NextPosType
    <3>2. j \in Nat /\ ntok + j \in Nat /\ next_pos(s(j)) + ((j - 1) % n) \in Int /\ {s(j)} \in SUBSET Seqs
      BY <1>2, <2>2, <2>3, <3>1
    <3> QED
      BY <3>2 DEF Token
  <2> HIDE DEF tk
  <2>5. T \in [1 .. N -> Token]
    BY <2>4
  <2> HIDE DEF T
  <2>6. T \in Seq(Token) /\ Len(T) = N
    BY <2>2, <2>5, TupleIsSeq
  <2> QED
    BY <1>4, <2>1, <2>6 DEF N, C
<1> QED
  BY <1>3, <1>4

LEMMA PieceType ==
  ASSUME NEW t \in Seq(Token), NEW k \in Nat \ {0}, NEW n \in Nat \ {0}
  PROVE  piece(t, k, n) \in Seq(Token)
<1> DEFINE a == (k - 1) * n + 1
           b == least(k * n, Len(t))
<1>1. Len(t) \in Nat
  BY LenProperties
<1>2. a \in Int /\ a >= 1 /\ b \in Int /\ b <= Len(t)
  <2>1. k - 1 \in Nat /\ (k - 1) * n \in Nat /\ k * n \in Nat
    OBVIOUS
  <2> QED
    BY <1>1, <2>1 DEF least
<1> HIDE DEF a, b
<1>3. \A i \in a .. b : i \in 1 .. Len(t)
  BY <1>1, <1>2
<1>4. \A i \in a .. b : t[i] \in Token
  BY <1>3, ElementOfSeq
<1>5. SubSeq(t, a, b) \in Seq(Token)
  BY <1>2, <1>4, SubSeqProperties
<1> QED
  BY <1>5 DEF piece, a, b

LEMMA PiecesType ==
  ASSUME NEW len \in Nat \ {0}, NEW n \in Nat \ {0}
  PROVE  pieces(len, n) \in Nat \ {0}
<1> DEFINE q == (len + n - 1) \div n
<1>1. q \in Int /\ n * q <= len + n - 1 /\ len + n - 1 < n * q + n
  OBVIOUS
<1> HIDE DEF q
<1>2. q > 0
  <2> SUFFICES ASSUME q <= 0 PROVE FALSE
    BY <1>1
  <2>1. n * q <= 0
    BY <1>1
  <2> QED
    BY <1>1, <2>1
<1> QED
  BY <1>1, <1>2 DEF pieces, q

LEMMA SplitType ==
  ASSUME CacheTypes, NEW S \in SUBSET Seqs, S # {}, S = Min(S) .. Max(S), NEW n \in Nat \ {0},
         NEW T \in Seq(Token), Len(T) \in Nat \ {0}, unified \/ Len(T) = n * Cardinality(S)
  PROVE  split(T, S, n) \in Seq(Ubatch) /\ Len(split(T, S, n)) > 0
<1>1. CASE unified
  <2> DEFINE N == pieces(Len(T), NUbatch)
             ub(k) == [st \in Streams |-> piece(T, k, NUbatch)]
             U == [k \in 1 .. N |-> ub(k)]
  <2>1. split(T, S, n) = U
    BY <1>1 DEF split
  <2>2. N \in Nat \ {0}
    BY CacheAssumption, PiecesType
  <2> HIDE DEF N
  <2>3. ASSUME NEW k \in 1 .. N PROVE ub(k) \in Ubatch
    <3>1. k \in Nat \ {0} /\ NUbatch \in Nat \ {0}
      BY <2>2, CacheAssumption
    <3>2. piece(T, k, NUbatch) \in Seq(Token)
      BY <3>1, PieceType
    <3> QED
      BY <3>2 DEF Ubatch
  <2> HIDE DEF ub
  <2>4. U \in [1 .. N -> Ubatch]
    BY <2>3
  <2> HIDE DEF U
  <2> QED
    BY <2>1, <2>2, <2>4, TupleIsSeq
<1>2. CASE ~unified
  <2> DEFINE C == Cardinality(S)
             lo == Min(S)
             per == IF NUbatch < C THEN 1 ELSE NUbatch \div C
             of(st) == IF st \in S THEN SubSeq(T, (st - lo) * n + 1, (st - lo + 1) * n) ELSE <<>>
             N == pieces(n, per)
             ub(k) == [st \in Streams |-> piece(of(st), k, per)]
             U == [k \in 1 .. N |-> ub(k)]
  <2>1. split(T, S, n) = U
    BY <1>2 DEF split
  <2>2. C \in Nat \ {0} /\ lo \in Nat /\ \A st \in S : st - lo \in 0 .. C - 1
    BY BatchSeqs
  <2>3. per \in Nat \ {0}
    <3> HIDE DEF C
    <3>1. CASE NUbatch < C
      BY <3>1
    <3>2. CASE ~(NUbatch < C)
      <4> DEFINE q == NUbatch \div C
      <4>1. q \in Int /\ NUbatch < C * q + C
        BY <2>2, CacheAssumption
      <4> HIDE DEF q
      <4>2. q > 0
        <5> SUFFICES ASSUME q <= 0 PROVE FALSE
          BY <4>1
        <5>1. C * q <= 0
          BY <2>2, <4>1
        <5> QED
          BY <2>2, <3>2, <4>1, <5>1, CacheAssumption
      <4> QED
        BY <3>2, <4>1, <4>2 DEF q
    <3> QED
      BY <3>1, <3>2
  <2> HIDE DEF per
  <2>4. N \in Nat \ {0}
    BY <2>3, PiecesType
  <2>5. ASSUME NEW st PROVE of(st) \in Seq(Token)
    <3>1. CASE st \notin S
      BY <3>1, EmptySeq
    <3>2. CASE st \in S
      <4> DEFINE d == st - lo
                 a == d * n + 1
                 b == (d + 1) * n
      <4>1. d \in Nat /\ d + 1 <= C
        BY <2>2, <3>2
      <4>2. Len(T) = n * C /\ Len(T) \in Nat
        BY <1>2
      <4> HIDE DEF d
      <4>3. (d + 1) * n <= n * C /\ d * n \in Nat /\ (d + 1) * n \in Nat
        <5> HIDE DEF C
        <5> QED
          BY <2>2, <4>1
      <4>4. a \in Int /\ a >= 1 /\ b \in Int /\ b <= Len(T)
        BY <4>2, <4>3
      <4> HIDE DEF a, b
      <4>5. \A i \in a .. b : i \in 1 .. Len(T)
        BY <4>2, <4>4
      <4>6. \A i \in a .. b : T[i] \in Token
        BY <4>5, ElementOfSeq
      <4>7. SubSeq(T, a, b) \in Seq(Token)
        BY <4>4, <4>6, SubSeqProperties
      <4> QED
        BY <3>2, <4>7 DEF a, b, d
    <3> QED
      BY <3>1, <3>2
  <2> HIDE DEF of, N
  <2>6. ASSUME NEW k \in 1 .. N PROVE ub(k) \in Ubatch
    <3>1. k \in Nat \ {0}
      BY <2>4
    <3>2. \A st \in Streams : piece(of(st), k, per) \in Seq(Token)
      BY <2>3, <2>5, <3>1, PieceType
    <3> QED
      BY <3>2 DEF Ubatch
  <2> HIDE DEF ub
  <2>7. U \in [1 .. N -> Ubatch]
    BY <2>6
  <2> HIDE DEF U
  <2> QED
    BY <2>1, <2>4, <2>7, TupleIsSeq
<1> QED
  BY <1>1, <1>2

LEMMA CellOps ==
  ASSUME NEW c \in Cell
  PROVE  /\ \A s : cell_rm(c, s) \in Cell
         /\ \A s \in Seqs : cell_keep(c, s) \in Cell
         /\ \A d \in Int : pos_add(c, d) \in Cell
         /\ \A d \in Nat \ {0} : pos_div(c, d) \in Cell
         /\ \A Q \in SUBSET Seqs : [c EXCEPT !.seq = Q] \in Cell
<1>1. c.pos \in Int /\ c.shift \in Int /\ c.seq \in SUBSET Seqs
  BY DEF Cell
<1>2. \A s : cell_rm(c, s) \in Cell
  BY EmptyCell DEF cell_rm, Cell
<1>3. \A s \in Seqs : cell_keep(c, s) \in Cell
  BY EmptyCell DEF cell_keep, Cell
<1>4. ASSUME NEW d \in Int PROVE pos_add(c, d) \in Cell
  <2>1. c.pos + d \in Int /\ c.shift + d \in Int
    BY <1>1
  <2> QED
    BY <2>1, EmptyCell DEF pos_add, Cell
<1>5. ASSUME NEW d \in Nat \ {0} PROVE pos_div(c, d) \in Cell
  <2>1. c.pos \div d \in Int
    BY <1>1
  <2>2. c.shift + (c.pos - c.pos \div d) \in Int
    BY <1>1, <2>1
  <2> QED
    BY <2>1, <2>2 DEF pos_div, Cell
<1>6. \A Q \in SUBSET Seqs : [c EXCEPT !.seq = Q] \in Cell
  BY DEF Cell
<1> QED
  BY <1>2, <1>3, <1>4, <1>5, <1>6

LEMMA FreedType ==
  ASSUME CacheTypes, NEW st \in Streams, NEW new
  PROVE  /\ Freed(st, new) # {} => Min(Freed(st, new)) \in Slots
         /\ HeadBack(st, new) \in 0 .. Size
<1>1. Freed(st, new) \in SUBSET Slots
  BY DEF Freed
<1>2. Freed(st, new) \in SUBSET Int /\ IsFiniteSet(Freed(st, new))
  <2>1. \A i \in Slots : i \in Int
    BY SlotsAre
  <2> QED
    BY <1>1, <2>1, SlotsAre, FS_Subset
<1>3. Freed(st, new) # {} => Min(Freed(st, new)) \in Slots
  BY <1>1, <1>2, MinOf
<1>4. Slots \subseteq 0 .. Size /\ v_heads[st] \in 0 .. Size
  BY SlotsAre DEF Slots, CacheTypes
<1> QED
  BY <1>3, <1>4 DEF HeadBack

LEMMA CacheKept ==
  ASSUME UNCHANGED config, CacheTypes,
         v_cells' \in [Streams -> [Slots -> Cell]], v_heads' \in [Streams -> 0 .. Size],
         sc_info' \in Seq(Streams \X Streams), data' \in [Streams -> [Slots -> Key]], ntok' \in Nat
  PROVE  CacheTypes' /\ Streams' = Streams
BY DEF CacheTypes, config, Streams

LEMMA BatchKept ==
  ASSUME UNCHANGED config, UNCHANGED batch, BatchTypes
  PROVE  BatchTypes'
BY DEF BatchTypes, config, batch, Ubatch, SlotInfo, Saved, Streams

(* A memory call finds no batch under way.                                 *)
LEMMA CallKept ==
  ASSUME TypeInv, MemoryCall, UNCHANGED config, UNCHANGED batch, UNCHANGED ntok,
         v_cells' \in [Streams -> [Slots -> Cell]], v_heads' \in [Streams -> 0 .. Size],
         sc_info' \in Seq(Streams \X Streams), data' \in [Streams -> [Slots -> Key]]
  PROVE  TypeInv'
<1>1. CacheTypes'
  BY CacheKept DEF TypeInv, CacheTypes
<1>2. BatchTypes'
  BY BatchKept DEF TypeInv
<1>3. PhaseInv'
  BY DEF TypeInv, PhaseInv, MemoryCall, batch
<1> QED
  BY <1>1, <1>2, <1>3 DEF TypeInv

LEMMA SetStream ==
  ASSUME CacheTypes, NEW st \in Streams, NEW new \in [Slots -> Cell]
  PROVE  [v_cells EXCEPT ![st] = new] \in [Streams -> [Slots -> Cell]]
BY DEF CacheTypes

LEMMA SetHead ==
  ASSUME CacheTypes, NEW st \in Streams, NEW h \in 0 .. Size
  PROVE  [v_heads EXCEPT ![st] = h] \in [Streams -> 0 .. Size]
BY DEF CacheTypes

LEMMA ClearType == TypeInv /\ Clear => TypeInv'
<1> SUFFICES ASSUME TypeInv, Clear PROVE TypeInv'
  OBVIOUS
<1>1. v_cells' \in [Streams -> [Slots -> Cell]]
  BY EmptyCell DEF Clear
<1>2. v_heads' \in [Streams -> 0 .. Size]
  BY SlotsAre DEF Clear
<1>3. data' \in [Streams -> [Slots -> Key]]
  <2>1. Uncomputed \in Key
    BY DEF Uncomputed, Key
  <2> QED
    BY <2>1 DEF Clear, TypeInv, CacheTypes
<1>4. sc_info' \in Seq(Streams \X Streams) /\ MemoryCall /\ UNCHANGED config /\ UNCHANGED batch /\ UNCHANGED ntok
  BY DEF Clear, TypeInv, CacheTypes
<1> QED
  BY <1>1, <1>2, <1>3, <1>4, CallKept

LEMMA RmType ==
  ASSUME TypeInv, NEW s \in Seqs, NEW r \in Ranges, seq_rm(s, r)
  PROVE  TypeInv'
<1> DEFINE st == seq_to_stream[s]
           new == [i \in Slots |-> LET c == v_cells[st][i] IN
                     IF pos_in(c, r) /\ s \in c.seq THEN cell_rm(c, s) ELSE c]
<1>1. CacheTypes /\ st \in Streams /\ v_cells[st] \in [Slots -> Cell]
  BY StreamsAre DEF TypeInv, CacheTypes
<1>2. /\ v_cells' = [v_cells EXCEPT ![st] = new]
      /\ v_heads' = [v_heads EXCEPT ![st] = HeadBack(st, new)]
      /\ MemoryCall /\ UNCHANGED config /\ UNCHANGED batch /\ UNCHANGED ntok /\ UNCHANGED <<sc_info, data>>
  BY DEF seq_rm
<1> HIDE DEF st
<1>3. new \in [Slots -> Cell]
  BY <1>1, CellOps
<1> HIDE DEF new
<1>4. v_cells' \in [Streams -> [Slots -> Cell]] /\ v_heads' \in [Streams -> 0 .. Size]
  BY <1>1, <1>2, <1>3, FreedType, SetStream, SetHead
<1>5. sc_info' \in Seq(Streams \X Streams) /\ data' \in [Streams -> [Slots -> Key]]
  BY <1>1, <1>2 DEF CacheTypes
<1> QED
  BY <1>2, <1>4, <1>5, CallKept

LEMMA RmAnyType ==
  ASSUME TypeInv, NEW r \in Ranges, seq_rm_any(r)
  PROVE  TypeInv'
<1> DEFINE new == [st \in Streams |-> [i \in Slots |->
                     IF pos_in(v_cells[st][i], r) THEN Empty ELSE v_cells[st][i]]]
<1>1. CacheTypes
  BY DEF TypeInv
<1>2. /\ v_cells' = new
      /\ v_heads' = [st \in Streams |-> HeadBack(st, new[st])]
      /\ MemoryCall /\ UNCHANGED config /\ UNCHANGED batch /\ UNCHANGED ntok /\ UNCHANGED <<sc_info, data>>
  BY DEF seq_rm_any
<1>3. new \in [Streams -> [Slots -> Cell]]
  BY <1>1, EmptyCell DEF CacheTypes
<1> HIDE DEF new
<1>4. v_heads' \in [Streams -> 0 .. Size]
  BY <1>1, <1>2, FreedType
<1>5. sc_info' \in Seq(Streams \X Streams) /\ data' \in [Streams -> [Slots -> Key]]
  BY <1>1, <1>2 DEF CacheTypes
<1> QED
  BY <1>2, <1>3, <1>4, <1>5, CallKept

LEMMA CpCellsType ==
  ASSUME TypeInv, NEW src \in Seqs, NEW dst \in Seqs, NEW r \in Ranges, seq_cp_cells(src, dst, r)
  PROVE  TypeInv'
<1> DEFINE st == seq_to_stream[src]
           sel == {i \in Slots : pos_in(v_cells[st][i], r) /\ src \in v_cells[st][i].seq}
           new == [i \in Slots |-> IF i \in sel THEN [v_cells[st][i] EXCEPT !.seq = @ \union {dst}]
                                   ELSE v_cells[st][i]]
<1>1. CacheTypes /\ st \in Streams /\ v_cells[st] \in [Slots -> Cell]
  BY StreamsAre DEF TypeInv, CacheTypes
<1>2. /\ v_cells' = [v_cells EXCEPT ![st] = new]
      /\ MemoryCall /\ UNCHANGED config /\ UNCHANGED batch /\ UNCHANGED ntok /\ UNCHANGED <<sc_info, data, v_heads>>
  BY DEF seq_cp_cells
<1> HIDE DEF st, sel
<1>3. new \in [Slots -> Cell]
  <2> SUFFICES ASSUME NEW i \in Slots PROVE [v_cells[st][i] EXCEPT !.seq = @ \union {dst}] \in Cell
    BY <1>1
  <2>1. v_cells[st][i] \in Cell /\ v_cells[st][i].seq \union {dst} \in SUBSET Seqs
    BY <1>1 DEF Cell
  <2> QED
    BY <2>1, CellOps
<1> HIDE DEF new
<1>4. v_cells' \in [Streams -> [Slots -> Cell]]
  BY <1>1, <1>2, <1>3, SetStream
<1>5. sc_info' \in Seq(Streams \X Streams) /\ data' \in [Streams -> [Slots -> Key]] /\ v_heads' \in [Streams -> 0 .. Size]
  BY <1>1, <1>2 DEF CacheTypes
<1> QED
  BY <1>2, <1>4, <1>5, CallKept

LEMMA CpStreamType ==
  ASSUME TypeInv, NEW src \in Seqs, NEW dst \in Seqs, NEW r \in Ranges, seq_cp_stream(src, dst, r)
  PROVE  TypeInv'
<1> DEFINE s0 == seq_to_stream[src]
           s1 == seq_to_stream[dst]
           new == [i \in Slots |-> LET c == v_cells[s0][i] IN
                     IF src \in c.seq THEN [c EXCEPT !.seq = {dst}] ELSE Empty]
<1>1. CacheTypes /\ s0 \in Streams /\ s1 \in Streams /\ v_cells[s0] \in [Slots -> Cell] /\ v_heads[s0] \in 0 .. Size
  BY StreamsAre DEF TypeInv, CacheTypes
<1>2. /\ v_cells' = [v_cells EXCEPT ![s1] = new]
      /\ v_heads' = [v_heads EXCEPT ![s1] = v_heads[s0]]
      /\ sc_info' = Append(sc_info, <<s0, s1>>)
      /\ MemoryCall /\ UNCHANGED config /\ UNCHANGED batch /\ UNCHANGED ntok /\ UNCHANGED data
  BY DEF seq_cp_stream
<1> HIDE DEF s0, s1
<1>3. new \in [Slots -> Cell]
  BY <1>1, CellOps, EmptyCell
<1> HIDE DEF new
<1>4. v_cells' \in [Streams -> [Slots -> Cell]] /\ v_heads' \in [Streams -> 0 .. Size]
  BY <1>1, <1>2, <1>3, SetStream, SetHead
<1>5. sc_info' \in Seq(Streams \X Streams)
  BY <1>1, <1>2, AppendProperties DEF CacheTypes
<1>6. data' \in [Streams -> [Slots -> Key]]
  BY <1>1, <1>2 DEF CacheTypes
<1> QED
  BY <1>2, <1>4, <1>5, <1>6, CallKept

LEMMA KeepType ==
  ASSUME TypeInv, NEW s \in Seqs, seq_keep(s)
  PROVE  TypeInv'
<1> DEFINE st == seq_to_stream[s]
           new == [i \in Slots |-> cell_keep(v_cells[st][i], s)]
<1>1. CacheTypes /\ st \in Streams /\ v_cells[st] \in [Slots -> Cell]
  BY StreamsAre DEF TypeInv, CacheTypes
<1>2. /\ v_cells' = [v_cells EXCEPT ![st] = new]
      /\ v_heads' = [v_heads EXCEPT ![st] = HeadBack(st, new)]
      /\ MemoryCall /\ UNCHANGED config /\ UNCHANGED batch /\ UNCHANGED ntok /\ UNCHANGED <<sc_info, data>>
  BY DEF seq_keep
<1> HIDE DEF st
<1>3. new \in [Slots -> Cell]
  BY <1>1, CellOps
<1> HIDE DEF new
<1>4. v_cells' \in [Streams -> [Slots -> Cell]] /\ v_heads' \in [Streams -> 0 .. Size]
  BY <1>1, <1>2, <1>3, FreedType, SetStream, SetHead
<1>5. sc_info' \in Seq(Streams \X Streams) /\ data' \in [Streams -> [Slots -> Key]]
  BY <1>1, <1>2 DEF CacheTypes
<1> QED
  BY <1>2, <1>4, <1>5, CallKept

LEMMA AddType ==
  ASSUME TypeInv, NEW s \in Seqs, NEW r \in Ranges, NEW d \in Deltas, seq_add(s, r, d)
  PROVE  TypeInv'
<1> DEFINE st == seq_to_stream[s]
           new == [i \in Slots |-> LET c == v_cells[st][i] IN
                     IF pos_in(c, r) /\ s \in c.seq THEN pos_add(c, d) ELSE c]
           freed == Freed(st, new)
<1>1. CacheTypes /\ st \in Streams /\ v_cells[st] \in [Slots -> Cell] /\ d \in Int
  BY StreamsAre, CacheAssumption DEF TypeInv, CacheTypes
<1>2. /\ v_cells' = [v_cells EXCEPT ![st] = new]
      /\ v_heads' = [v_heads EXCEPT ![st] = IF freed = {} THEN 0 ELSE Min(freed)]
      /\ MemoryCall /\ UNCHANGED config /\ UNCHANGED batch /\ UNCHANGED ntok /\ UNCHANGED <<sc_info, data>>
  BY DEF seq_add
<1> HIDE DEF st
<1>3. new \in [Slots -> Cell]
  BY <1>1, CellOps
<1> HIDE DEF new
<1>4. (IF freed = {} THEN 0 ELSE Min(freed)) \in 0 .. Size
  BY <1>1, FreedType, SlotsAre DEF Slots
<1> HIDE DEF freed
<1>5. v_cells' \in [Streams -> [Slots -> Cell]] /\ v_heads' \in [Streams -> 0 .. Size]
  BY <1>1, <1>2, <1>3, <1>4, SetStream, SetHead
<1>6. sc_info' \in Seq(Streams \X Streams) /\ data' \in [Streams -> [Slots -> Key]]
  BY <1>1, <1>2 DEF CacheTypes
<1> QED
  BY <1>2, <1>5, <1>6, CallKept

LEMMA DivType ==
  ASSUME TypeInv, NEW s \in Seqs, NEW r \in Ranges, NEW d \in Divisors, seq_div(s, r, d)
  PROVE  TypeInv'
<1> DEFINE st == seq_to_stream[s]
           sel == {i \in Slots : pos_in(v_cells[st][i], r) /\ s \in v_cells[st][i].seq}
           new == [i \in Slots |-> IF i \in sel THEN pos_div(v_cells[st][i], d) ELSE v_cells[st][i]]
<1>1. CacheTypes /\ st \in Streams /\ v_cells[st] \in [Slots -> Cell] /\ d \in Nat \ {0}
  BY StreamsAre, CacheAssumption DEF TypeInv, CacheTypes
<1>2. /\ v_cells' = [v_cells EXCEPT ![st] = new]
      /\ MemoryCall /\ UNCHANGED config /\ UNCHANGED batch /\ UNCHANGED ntok /\ UNCHANGED <<sc_info, data, v_heads>>
  BY DEF seq_div
<1> HIDE DEF st, sel
<1>3. new \in [Slots -> Cell]
  BY <1>1, CellOps
<1> HIDE DEF new
<1>4. v_cells' \in [Streams -> [Slots -> Cell]]
  BY <1>1, <1>2, <1>3, SetStream
<1>5. sc_info' \in Seq(Streams \X Streams) /\ data' \in [Streams -> [Slots -> Key]] /\ v_heads' \in [Streams -> 0 .. Size]
  BY <1>1, <1>2 DEF CacheTypes
<1> QED
  BY <1>2, <1>4, <1>5, CallKept

(* The steps of a decode.                                                  *)

LEMMA SetsKept ==
  ASSUME UNCHANGED config
  PROVE  Streams' = Streams /\ SlotInfo' = SlotInfo /\ Ubatch' = Ubatch /\ Saved' = Saved
BY DEF config, Streams, SlotInfo, Ubatch, Saved

LEMMA KeysType ==
  ASSUME CacheTypes
  PROVE  Keys \in [Streams -> [Slots -> Key]]
BY CopiesType DEF CacheTypes, Keys

LEMMA UpdateType ==
  ASSUME CacheTypes, NEW ok \in BOOLEAN, memory_update(ok)
  PROVE  /\ sc_info' = <<>> /\ sc_info' \in Seq(Streams \X Streams)
         /\ v_cells' \in [Streams -> [Slots -> Cell]]
         /\ data' \in [Streams -> [Slots -> Key]]
<1>1. Keys \in [Streams -> [Slots -> Key]] /\ v_cells \in [Streams -> [Slots -> Cell]]
  BY KeysType DEF CacheTypes
<1>2. sc_info' = <<>> /\ sc_info' \in Seq(Streams \X Streams)
  BY EmptySeq DEF memory_update
<1>3. CASE ok
  <2>1. ASSUME NEW st \in Streams, NEW i \in Slots
        PROVE  /\ [Keys[st][i] EXCEPT !.rot = @ + v_cells[st][i].shift] \in Key
               /\ [v_cells[st][i] EXCEPT !.shift = 0] \in Cell
    <3>1. Keys[st][i] \in Key /\ v_cells[st][i] \in Cell
      BY <1>1
    <3> QED
      BY <3>1 DEF Key, Cell
  <2>2. /\ data' = [st \in Streams |-> [i \in Slots |-> [Keys[st][i] EXCEPT !.rot = @ + v_cells[st][i].shift]]]
        /\ v_cells' = [st \in Streams |-> [i \in Slots |-> [v_cells[st][i] EXCEPT !.shift = 0]]]
    BY <1>3 DEF memory_update
  <2> QED
    BY <1>2, <2>1, <2>2
<1>4. CASE ~ok
  BY <1>1, <1>2, <1>4 DEF memory_update
<1> QED
  BY <1>3, <1>4

LEMMA DecodeType ==
  ASSUME TypeInv, NEW S \in (SUBSET Seqs) \ {{}}, NEW n \in Lengths, NEW coupled \in BOOLEAN,
         Decode(S, n, coupled)
  PROVE  TypeInv'
<1> DEFINE T == tokens(S, n, coupled)
<1>1. CacheTypes /\ n \in Nat \ {0}
  BY CacheAssumption DEF TypeInv
<1>2. /\ S = Min(S) .. Max(S) /\ (coupled => unified)
      /\ ubatches' = split(T, S, n) /\ ntok' = ntok + Len(T)
      /\ phase' = "prepare" /\ i_cur' = 1 /\ sinfos' = <<>> /\ states' = <<>>
      /\ UNCHANGED config /\ UNCHANGED v_heads
  BY DEF Decode
<1>3. PICK ok \in BOOLEAN : memory_update(ok)
  BY DEF Decode, CanFail
<1>4. Cardinality(S) \in Nat \ {0}
  BY BatchSeqs
<1>5. T \in Seq(Token) /\ Len(T) \in Nat \ {0} /\ (unified \/ Len(T) = n * Cardinality(S))
  <2>1. T \in Seq(Token) /\ Len(T) = IF coupled THEN n ELSE n * Cardinality(S)
    BY <1>1, <1>2, TokensType
  <2> HIDE DEF T
  <2>2. n * Cardinality(S) \in Nat \ {0}
    BY <1>1, <1>4
  <2> QED
    BY <1>1, <1>2, <2>1, <2>2
<1> HIDE DEF T
<1>6. ubatches' \in Seq(Ubatch) /\ Len(ubatches') > 0
  BY <1>1, <1>2, <1>5, SplitType
<1>7. sc_info' = <<>> /\ sc_info' \in Seq(Streams \X Streams)
      /\ v_cells' \in [Streams -> [Slots -> Cell]] /\ data' \in [Streams -> [Slots -> Key]]
  BY <1>1, <1>3, UpdateType
<1>8. CacheTypes'
  <2>1. ntok' \in Nat /\ v_heads' \in [Streams -> 0 .. Size]
    BY <1>1, <1>2, <1>5 DEF CacheTypes
  <2> QED
    BY <1>1, <1>2, <1>7, <2>1, CacheKept
<1>9. BatchTypes'
  BY <1>2, <1>6, SetsKept, EmptySeq DEF BatchTypes
<1>10. PhaseInv'
  <2>1. Len(ubatches') \in Nat
    BY <1>6, LenProperties
  <2> QED
    BY <1>2, <1>6, <1>7, <2>1 DEF PhaseInv
<1> QED
  BY <1>8, <1>9, <1>10 DEF TypeInv

(* What PrepareUbatch finds.                                               *)
LEMMA SlotsFound ==
  ASSUME CacheTypes, NEW ub \in Ubatch, NEW sinfo,
         sinfo = [st \in Streams |-> IF ub[st] = <<>> THEN <<>> ELSE find_slot(st, Len(ub[st]))]
  PROVE  /\ sinfo \in SlotInfo
         /\ ~(\E st \in Streams : ub[st] # <<>> /\ sinfo[st] = <<>>) => Fits(sinfo, ub)
<1>1. ASSUME NEW st \in Streams
      PROVE  /\ sinfo[st] \in Seq(Slots)
             /\ ~(ub[st] # <<>> /\ sinfo[st] = <<>>) => DOMAIN sinfo[st] = DOMAIN ub[st]
  <2>1. ub[st] \in Seq(Token) /\ Len(ub[st]) \in Nat /\ DOMAIN ub[st] = 1 .. Len(ub[st])
    BY LenProperties DEF Ubatch
  <2>2. CASE ub[st] = <<>>
    BY <2>2, EmptySeq
  <2>3. CASE ub[st] # <<>>
    <3>1. sinfo[st] = find_slot(st, Len(ub[st]))
      BY <2>3
    <3> QED
      BY <2>1, <2>3, <3>1, FindSlotType
  <2> QED
    BY <2>2, <2>3
<1>2. sinfo \in SlotInfo
  BY <1>1 DEF SlotInfo
<1> QED
  BY <1>1, <1>2 DEF Fits

LEMMA PrepareType == TypeInv /\ PrepareUbatch => TypeInv'
<1> SUFFICES ASSUME TypeInv, PrepareUbatch PROVE TypeInv'
  OBVIOUS
<1> DEFINE ub == ubatches[i_cur]
           sinfo == [st \in Streams |-> IF ub[st] = <<>> THEN <<>> ELSE find_slot(st, Len(ub[st]))]
           cells == [st \in Streams |-> [j \in DOMAIN sinfo[st] |-> v_cells[st][sinfo[st][j]]]]
           saved == [sinfo |-> sinfo, heads |-> v_heads, cells |-> cells]
           failed == \E st \in Streams : ub[st] # <<>> /\ sinfo[st] = <<>>
<1>1. CacheTypes /\ BatchTypes /\ PhaseInv
  BY DEF TypeInv
<1>2. /\ phase = "prepare" /\ UNCHANGED <<config, sc_info, data, ubatches, ntok>> /\ UNCHANGED config
      /\ IF failed
         THEN phase' = "undo" /\ UNCHANGED <<v_cells, v_heads, i_cur, sinfos, states>>
         ELSE /\ sinfos' = Append(sinfos, sinfo)
              /\ states' = Append(states, saved)
              /\ v_cells' = apply_ubatch(sinfo, ub)
              /\ v_heads' = heads_behind(sinfo)
              /\ i_cur' = i_cur + 1
              /\ phase' = IF i_cur = Len(ubatches) THEN "restore" ELSE "prepare"
  BY DEF PrepareUbatch, bounds
<1>3. i_cur \in 1 .. Len(ubatches) /\ Len(ubatches) \in Nat /\ ub \in Ubatch
      /\ ubatches \in Seq(Ubatch) /\ sinfos \in Seq(SlotInfo) /\ states \in Seq(Saved)
      /\ Len(sinfos) = i_cur - 1 /\ Len(states) \in Nat /\ sc_info = <<>>
  BY <1>1, <1>2, LenProperties, ElementOfSeq DEF BatchTypes, PhaseInv
<1> HIDE DEF ub
<1>4. sinfo \in SlotInfo /\ (~failed => Fits(sinfo, ub))
  BY <1>1, <1>3, SlotsFound
<1> HIDE DEF sinfo, failed
<1>5. sc_info' \in Seq(Streams \X Streams) /\ data' \in [Streams -> [Slots -> Key]] /\ ntok' \in Nat
  BY <1>1, <1>2 DEF CacheTypes
<1>6. CASE failed
  <2>1. CacheTypes'
    BY <1>1, <1>2, <1>5, <1>6, CacheKept DEF CacheTypes
  <2>2. BatchTypes'
    BY <1>1, <1>2, <1>6, SetsKept DEF BatchTypes
  <2>3. PhaseInv'
    BY <1>1, <1>2, <1>6 DEF PhaseInv
  <2> QED
    BY <2>1, <2>2, <2>3 DEF TypeInv
<1>7. CASE ~failed
  <2>1. CacheTypes'
    <3>1. apply_ubatch(sinfo, ub) \in [Streams -> [Slots -> Cell]] /\ heads_behind(sinfo) \in [Streams -> 0 .. Size]
      BY <1>1, <1>3, <1>4, <1>7, ApplyType, HeadsType
    <3> QED
      BY <1>1, <1>2, <1>5, <1>7, <3>1, CacheKept
  <2>2. saved \in Saved /\ \A st \in Streams : DOMAIN cells[st] = DOMAIN sinfo[st]
    <3>1. ASSUME NEW st \in Streams PROVE cells[st] \in Seq(Cell)
      <4>1. sinfo[st] \in Seq(Slots) /\ Len(sinfo[st]) \in Nat /\ DOMAIN sinfo[st] = 1 .. Len(sinfo[st])
        BY <1>4, LenProperties DEF SlotInfo
      <4>2. \A j \in 1 .. Len(sinfo[st]) : sinfo[st][j] \in Slots
        BY <4>1, ElementOfSeq
      <4>3. cells[st] \in [1 .. Len(sinfo[st]) -> Cell]
        BY <1>1, <4>1, <4>2 DEF CacheTypes
      <4> HIDE DEF cells
      <4> QED
        BY <4>1, <4>3, TupleIsSeq
    <3>2. cells \in [Streams -> Seq(Cell)]
      BY <3>1
    <3>3. \A st \in Streams : DOMAIN cells[st] = DOMAIN sinfo[st]
      OBVIOUS
    <3> HIDE DEF cells
    <3> QED
      BY <1>1, <1>4, <3>2, <3>3 DEF Saved, CacheTypes
  <2>3. saved.sinfo = sinfo /\ saved.cells = cells
    OBVIOUS
  <2> HIDE DEF saved, cells
  <2>4. /\ sinfos' \in Seq(SlotInfo) /\ Len(sinfos') = i_cur
        /\ sinfos'[i_cur] = sinfo /\ \A k \in 1 .. i_cur - 1 : sinfos'[k] = sinfos[k]
    <3>1. /\ Append(sinfos, sinfo) \in Seq(SlotInfo) /\ Len(Append(sinfos, sinfo)) = Len(sinfos) + 1
          /\ Append(sinfos, sinfo)[Len(sinfos) + 1] = sinfo
          /\ \A k \in 1 .. Len(sinfos) : Append(sinfos, sinfo)[k] = sinfos[k]
      BY <1>3, <1>4, AppendProperties
    <3>2. Len(sinfos) + 1 = i_cur
      BY <1>3
    <3>3. sinfos' = Append(sinfos, sinfo)
      BY <1>2, <1>7
    <3> QED
      BY <1>3, <3>1, <3>2, <3>3
  <2>5. /\ states' \in Seq(Saved) /\ Len(states') = Len(states) + 1
        /\ states'[Len(states) + 1] = saved /\ \A m \in 1 .. Len(states) : states'[m] = states[m]
    <3>1. states' = Append(states, saved)
      BY <1>2, <1>7
    <3> QED
      BY <1>3, <2>2, <3>1, AppendProperties
  <2>6. BatchTypes'
    <3>1. ASSUME NEW k \in 1 .. i_cur, NEW st \in Streams PROVE DOMAIN sinfos'[k][st] = DOMAIN ubatches[k][st]
      <4>1. CASE k = i_cur
        BY <1>4, <1>7, <2>4, <4>1 DEF Fits, ub
      <4>2. CASE k # i_cur
        <5>1. k \in 1 .. i_cur - 1
          BY <1>3, <4>2
        <5> QED
          BY <1>1, <1>3, <2>4, <5>1 DEF BatchTypes
      <4> QED
        BY <4>1, <4>2
    <3>2. ASSUME NEW m \in 1 .. Len(states) + 1, NEW st \in Streams
          PROVE  DOMAIN states'[m].cells[st] = DOMAIN states'[m].sinfo[st]
      <4>1. CASE m = Len(states) + 1
        BY <2>2, <2>3, <2>5, <4>1
      <4>2. CASE m # Len(states) + 1
        <5>1. m \in 1 .. Len(states)
          BY <1>3, <4>2
        <5> QED
          BY <1>1, <2>5, <5>1 DEF BatchTypes
      <4> QED
        BY <4>1, <4>2
    <3>3. i_cur' \in Nat /\ UNCHANGED ubatches
      BY <1>2, <1>3, <1>7
    <3> QED
      BY <1>2, <1>3, <2>4, <2>5, <3>1, <3>2, <3>3, SetsKept DEF BatchTypes
  <2>7. PhaseInv'
    <3>1. i_cur' = i_cur + 1 /\ UNCHANGED <<ubatches, sc_info>>
          /\ phase' = IF i_cur = Len(ubatches) THEN "restore" ELSE "prepare"
      BY <1>2, <1>7
    <3>2. i_cur # Len(ubatches) => i_cur + 1 \in 1 .. Len(ubatches)
      BY <1>3
    <3> QED
      BY <1>3, <2>4, <3>1, <3>2 DEF PhaseInv
  <2> QED
    BY <2>1, <2>6, <2>7 DEF TypeInv
<1> QED
  BY <1>6, <1>7

(* One saved micro-batch is taken out again.                               *)
LEMMA LastSaved ==
  ASSUME BatchTypes, states # <<>>
  PROVE  /\ Len(states) \in Nat \ {0} /\ Last(states) = states[Len(states)] /\ Last(states) \in Saved
         /\ \A st \in Streams : DOMAIN Last(states).cells[st] = DOMAIN Last(states).sinfo[st]
         /\ Front(states) \in Seq(Saved) /\ Len(Front(states)) = Len(states) - 1
         /\ \A m \in 1 .. Len(states) - 1 : Front(states)[m] = states[m]
<1>1. states \in Seq(Saved) /\ Len(states) \in Nat \ {0} /\ Len(states) \in 1 .. Len(states)
  BY EmptySeq DEF BatchTypes
<1>2. Last(states) = states[Len(states)] /\ Last(states) \in Saved
  BY <1>1, ElementOfSeq DEF Last
<1>3. \A st \in Streams : DOMAIN Last(states).cells[st] = DOMAIN Last(states).sinfo[st]
  BY <1>1, <1>2 DEF BatchTypes
<1>4. /\ Front(states) \in Seq(Saved) /\ Len(Front(states)) = Len(states) - 1
      /\ \A m \in 1 .. Len(states) - 1 : Front(states)[m] = states[m]
  <2> DEFINE b == Len(states) - 1
  <2>1. b \in Nat /\ \A m \in 1 .. b : states[m] \in Saved
    BY <1>1, ElementOfSeq
  <2>2. Front(states) = SubSeq(states, 1, b)
    BY DEF Front
  <2> HIDE DEF b
  <2>3. /\ SubSeq(states, 1, b) \in Seq(Saved)
        /\ Len(SubSeq(states, 1, b)) = IF 1 <= b THEN b - 1 + 1 ELSE 0
        /\ \A m \in 1 .. b - 1 + 1 : SubSeq(states, 1, b)[m] = states[1 + m - 1]
    BY <2>1, SubSeqProperties
  <2>4. b - 1 + 1 = b /\ \A m \in 1 .. b : 1 + m - 1 = m
    BY <2>1
  <2>5. Len(Front(states)) = b /\ \A m \in 1 .. b : Front(states)[m] = states[m]
    BY <2>1, <2>2, <2>3, <2>4
  <2> QED
    BY <2>2, <2>3, <2>5 DEF b
<1> QED
  BY <1>1, <1>2, <1>3, <1>4

LEMMA RestoreType == TypeInv /\ RestoreUbatch => TypeInv'
<1> SUFFICES ASSUME TypeInv, RestoreUbatch PROVE TypeInv'
  OBVIOUS
<1> DEFINE old == Last(states)
           strm == {st \in Streams : old.sinfo[st] # <<>>}
           new == [st \in Streams |-> [i \in Slots |->
                     IF in_slot(old.sinfo, st, i) THEN old.cells[st][idx_of(old.sinfo, st, i)]
                     ELSE v_cells[st][i]]]
           heads == [st \in Streams |-> IF st \in strm THEN old.heads[st - Min(strm)] ELSE v_heads[st]]
<1>1. CacheTypes /\ BatchTypes /\ PhaseInv
  BY DEF TypeInv
<1>2. /\ phase \in {"restore", "undo"} /\ states # <<>>
      /\ v_cells' = new /\ v_heads' = heads /\ states' = Front(states)
      /\ IF phase = "restore" /\ Len(states) = 1 THEN phase' = "compute" /\ i_cur' = 1
         ELSE UNCHANGED <<phase, i_cur>>
      /\ UNCHANGED config /\ UNCHANGED <<sc_info, data, ubatches, sinfos, ntok>>
  BY DEF RestoreUbatch, bounds
<1>3. /\ Len(states) \in Nat \ {0} /\ old \in Saved
      /\ \A st \in Streams : DOMAIN old.cells[st] = DOMAIN old.sinfo[st]
      /\ Front(states) \in Seq(Saved) /\ Len(Front(states)) = Len(states) - 1
      /\ \A m \in 1 .. Len(states) - 1 : Front(states)[m] = states[m]
  BY <1>1, <1>2, LastSaved
<1> HIDE DEF old
<1>4. new \in [Streams -> [Slots -> Cell]]
  <2> SUFFICES ASSUME NEW st \in Streams, NEW i \in Slots, in_slot(old.sinfo, st, i)
               PROVE  old.cells[st][idx_of(old.sinfo, st, i)] \in Cell
    BY <1>1 DEF CacheTypes
  <2>1. idx_of(old.sinfo, st, i) \in DOMAIN old.cells[st]
    BY <1>3 DEF in_slot, idx_of
  <2>2. old.cells[st] \in Seq(Cell)
    BY <1>3 DEF Saved
  <2> QED
    BY <2>1, <2>2, LenProperties, ElementOfSeq
<1>5. heads \in [Streams -> 0 .. Size]
  <2> SUFFICES ASSUME NEW st \in strm PROVE old.heads[st - Min(strm)] \in 0 .. Size
    BY <1>1 DEF CacheTypes
  <2>1. strm \in SUBSET Int /\ IsFiniteSet(strm) /\ strm # {}
    <3>1. \A s \in Streams : s \in Int
      BY <1>1, StreamsAre
    <3>2. strm \in SUBSET Streams
      OBVIOUS
    <3> QED
      BY <1>1, <3>1, <3>2, StreamsAre, FS_Subset
  <2>2. Min(strm) \in strm /\ Min(strm) <= st
    <3> HIDE DEF strm
    <3> QED
      BY <2>1, MinOf
  <2>3. st - Min(strm) \in Streams
    BY <1>1, <2>2, StreamsAre
  <2> HIDE DEF strm
  <2> QED
    BY <1>3, <2>3 DEF Saved
<1> HIDE DEF new, heads
<1>6. CacheTypes'
  BY <1>1, <1>2, <1>4, <1>5, CacheKept DEF CacheTypes
<1>7. i_cur' \in Nat /\ Len(ubatches) \in Nat
  BY <1>1, <1>2, LenProperties DEF BatchTypes
<1>8. BatchTypes'
  <2>1. ASSUME NEW m \in 1 .. Len(Front(states)), NEW st \in Streams
        PROVE  DOMAIN Front(states)[m].cells[st] = DOMAIN Front(states)[m].sinfo[st]
    <3>1. m \in 1 .. Len(states) - 1 /\ m \in 1 .. Len(states)
      BY <1>3
    <3> QED
      BY <1>1, <1>3, <3>1 DEF BatchTypes
  <2> QED
    BY <1>1, <1>2, <1>3, <1>7, <2>1, SetsKept DEF BatchTypes
<1>9. PhaseInv'
  <2>1. CASE phase = "restore" /\ Len(states) = 1
    <3>1. Front(states) = <<>>
      BY <1>3, <2>1, EmptySeq
    <3>2. 1 \in 1 .. Len(ubatches)
      BY <1>1, <1>2, <1>7 DEF PhaseInv
    <3> QED
      BY <1>1, <1>2, <2>1, <3>1, <3>2 DEF PhaseInv
  <2>2. CASE ~(phase = "restore" /\ Len(states) = 1)
    BY <1>1, <1>2, <2>2 DEF PhaseInv
  <2> QED
    BY <2>1, <2>2
<1> QED
  BY <1>6, <1>8, <1>9 DEF TypeInv

(* The end of a decode.                                                    *)
LEMMA ReturnKept ==
  ASSUME TypeInv, NEW code, Return(code), UNCHANGED config, states = <<>>
  PROVE  BatchTypes' /\ PhaseInv'
<1>1. phase' = "idle" /\ ubatches' = <<>> /\ i_cur' = 1 /\ sinfos' = <<>> /\ states' = <<>>
  BY DEF Return
<1>2. Len(<<>>) = 0 /\ \A m : m \notin 1 .. 0
  BY EmptySeq
<1>3. BatchTypes'
  BY <1>1, <1>2, EmptySeq DEF BatchTypes
<1>4. PhaseInv'
  BY <1>1 DEF PhaseInv
<1> QED
  BY <1>3, <1>4

LEMMA NoSlotType == TypeInv /\ NoSlot => TypeInv'
<1> SUFFICES ASSUME TypeInv, NoSlot PROVE TypeInv'
  OBVIOUS
<1>1. CacheTypes /\ BatchTypes /\ PhaseInv
  BY DEF TypeInv
<1>2. phase = "undo" /\ states = <<>> /\ UNCHANGED config /\ UNCHANGED <<v_heads, ntok>>
  BY DEF NoSlot, bounds
<1>3. CASE Return(1) /\ UNCHANGED <<v_cells, data, sc_info, did_optimize>>
  <2>1. CacheTypes'
    BY <1>1, <1>2, <1>3, CacheKept DEF CacheTypes
  <2>2. BatchTypes' /\ PhaseInv'
    BY <1>2, <1>3, ReturnKept
  <2> QED
    BY <2>1, <2>2 DEF TypeInv
<1>4. CASE /\ \E ok \in BOOLEAN : memory_update(ok)
           /\ phase' = "prepare" /\ i_cur' = 1 /\ sinfos' = <<>> /\ UNCHANGED <<ubatches, states>>
  <2>1. PICK ok \in BOOLEAN : memory_update(ok)
    BY <1>4
  <2>2. sc_info' = <<>> /\ CacheTypes'
    <3>1. v_heads' \in [Streams -> 0 .. Size] /\ ntok' \in Nat
      BY <1>1, <1>2 DEF CacheTypes
    <3> QED
      BY <1>1, <1>2, <2>1, <3>1, UpdateType, CacheKept
  <2>3. Len(<<>>) = 0 /\ \A m : m \notin 1 .. 0
    BY EmptySeq
  <2>4. BatchTypes'
    BY <1>1, <1>2, <1>4, <2>3, SetsKept, EmptySeq DEF BatchTypes
  <2>5. Len(ubatches) \in Nat /\ Len(ubatches) > 0
    BY <1>1, <1>2, LenProperties DEF BatchTypes, PhaseInv
  <2>6. PhaseInv'
    BY <1>4, <2>2, <2>3, <2>5 DEF PhaseInv
  <2> QED
    BY <2>2, <2>4, <2>6 DEF TypeInv
<1> QED
  BY <1>3, <1>4 DEF NoSlot

(* What a micro-batch that is computed has.                                *)
LEMMA Computing ==
  ASSUME TypeInv, phase = "compute"
  PROVE  /\ sinfos[i_cur] \in SlotInfo /\ ubatches[i_cur] \in Ubatch
         /\ Fits(sinfos[i_cur], ubatches[i_cur])
         /\ i_cur \in 1 .. Len(ubatches) /\ Len(ubatches) \in Nat
         /\ Len(sinfos) = Len(ubatches) /\ states = <<>> /\ sc_info = <<>>
<1>1. /\ i_cur \in 1 .. Len(ubatches) /\ Len(sinfos) = Len(ubatches) /\ states = <<>> /\ sc_info = <<>>
      /\ ubatches \in Seq(Ubatch) /\ sinfos \in Seq(SlotInfo)
  BY DEF TypeInv, BatchTypes, PhaseInv
<1>2. Len(ubatches) \in Nat /\ sinfos[i_cur] \in SlotInfo /\ ubatches[i_cur] \in Ubatch
  BY <1>1, LenProperties, ElementOfSeq
<1>3. Fits(sinfos[i_cur], ubatches[i_cur])
  BY <1>1 DEF TypeInv, BatchTypes, Fits
<1> QED
  BY <1>1, <1>2, <1>3

LEMMA ComputeType == TypeInv /\ ComputeUbatch => TypeInv'
<1> SUFFICES ASSUME TypeInv, ComputeUbatch PROVE TypeInv'
  OBVIOUS
<1> DEFINE sinfo == sinfos[i_cur]
           ub == ubatches[i_cur]
           new == [st \in Streams |-> [i \in Slots |->
                     IF in_slot(sinfo, st, i)
                     THEN LET t == ub[st][idx_of(sinfo, st, i)] IN [tok |-> t.tok, rot |-> t.pos]
                     ELSE data[st][i]]]
<1>1. CacheTypes /\ BatchTypes /\ PhaseInv
  BY DEF TypeInv
<1>2. /\ phase = "compute" /\ v_cells' = apply_ubatch(sinfo, ub) /\ v_heads' = heads_behind(sinfo)
      /\ data' = new
      /\ IF i_cur = Len(ubatches) THEN Return(0)
         ELSE i_cur' = i_cur + 1 /\ UNCHANGED <<phase, ubatches, sinfos, states, result>>
      /\ UNCHANGED config /\ UNCHANGED sc_info /\ UNCHANGED ntok
  BY DEF ComputeUbatch, bounds
<1>3. /\ sinfo \in SlotInfo /\ ub \in Ubatch /\ Fits(sinfo, ub)
      /\ i_cur \in 1 .. Len(ubatches) /\ Len(ubatches) \in Nat
      /\ Len(sinfos) = Len(ubatches) /\ states = <<>> /\ sc_info = <<>>
  BY <1>2, Computing
<1> HIDE DEF sinfo, ub
<1>4. new \in [Streams -> [Slots -> Key]]
  <2> SUFFICES ASSUME NEW st \in Streams, NEW i \in Slots, in_slot(sinfo, st, i)
               PROVE  LET t == ub[st][idx_of(sinfo, st, i)] IN [tok |-> t.tok, rot |-> t.pos] \in Key
    BY <1>1 DEF CacheTypes
  <2> QED
    BY <1>3, TokenOf DEF Token, Key
<1> HIDE DEF new
<1>5. CacheTypes'
  <2>1. apply_ubatch(sinfo, ub) \in [Streams -> [Slots -> Cell]] /\ heads_behind(sinfo) \in [Streams -> 0 .. Size]
    BY <1>1, <1>3, ApplyType, HeadsType
  <2>2. sc_info' \in Seq(Streams \X Streams) /\ ntok' \in Nat
    BY <1>1, <1>2 DEF CacheTypes
  <2> QED
    BY <1>1, <1>2, <1>4, <2>1, <2>2, CacheKept
<1>6. CASE i_cur = Len(ubatches)
  BY <1>2, <1>3, <1>5, <1>6, ReturnKept DEF TypeInv
<1>7. CASE i_cur # Len(ubatches)
  <2>1. i_cur + 1 \in 1 .. Len(ubatches) /\ i_cur + 1 \in Nat
    BY <1>3, <1>7
  <2>2. BatchTypes'
    BY <1>1, <1>2, <1>7, <2>1, SetsKept DEF BatchTypes
  <2>3. PhaseInv'
    BY <1>1, <1>2, <1>3, <1>7, <2>1 DEF PhaseInv
  <2> QED
    BY <1>5, <2>2, <2>3 DEF TypeInv
<1> QED
  BY <1>6, <1>7

(* What of a failed micro-batch is taken out keeps its position and shift. *)
LEMMA FailedCells ==
  ASSUME TypeInv, FailUbatch
  PROVE  /\ v_cells' \in [Streams -> [Slots -> Cell]]
         /\ v_heads' \in [Streams -> 0 .. Size]
         /\ \A st \in Streams, i \in Slots :
              LET c == v_cells'[st][i] p == apply_ubatch(sinfos[i_cur], ubatches[i_cur])[st][i] IN
              c = Empty \/ (c.pos = p.pos /\ c.shift = p.shift)
<1> DEFINE sinfo == sinfos[i_cur]
           ub == ubatches[i_cur]
           placed == apply_ubatch(sinfo, ub)
           emptied(st) == {i \in Slots : ~is_empty(placed[st][i]) /\ is_empty(v_cells'[st][i])}
<1>1. CacheTypes /\ sinfo \in SlotInfo /\ ub \in Ubatch /\ Fits(sinfo, ub)
  BY Computing DEF FailUbatch, TypeInv
<1>2. ASSUME NEW st \in Streams, NEW i \in Slots
      PROVE  \E keep \in SUBSET placed[st][i].seq :
               v_cells'[st][i] = IF keep = {} THEN Empty ELSE [placed[st][i] EXCEPT !.seq = keep]
  BY DEF FailUbatch
<1>3. v_cells' = [st \in Streams |-> [i \in Slots |-> v_cells'[st][i]]]
  BY DEF FailUbatch
<1>4. v_heads' = [st \in Streams |-> Min({heads_behind(sinfo)[st]} \union emptied(st))]
  BY DEF FailUbatch
<1>5. placed \in [Streams -> [Slots -> Cell]] /\ heads_behind(sinfo) \in [Streams -> 0 .. Size]
  BY <1>1, ApplyType, HeadsType
<1> HIDE DEF placed, sinfo, ub
<1>6. ASSUME NEW st \in Streams, NEW i \in Slots
      PROVE  /\ v_cells'[st][i] \in Cell
             /\ v_cells'[st][i] = Empty \/ (/\ v_cells'[st][i].pos = placed[st][i].pos
                                            /\ v_cells'[st][i].shift = placed[st][i].shift)
  <2>1. placed[st][i] \in Cell
    BY <1>5
  <2>2. PICK keep \in SUBSET placed[st][i].seq :
               v_cells'[st][i] = IF keep = {} THEN Empty ELSE [placed[st][i] EXCEPT !.seq = keep]
    BY <1>2
  <2>3. CASE keep = {}
    BY <2>2, <2>3, EmptyCell
  <2>4. CASE keep # {}
    BY <2>1, <2>2, <2>4 DEF Cell
  <2> QED
    BY <2>3, <2>4
<1>7. v_cells' \in [Streams -> [Slots -> Cell]]
  BY <1>3, <1>6
<1>8. v_heads' \in [Streams -> 0 .. Size]
  <2> SUFFICES ASSUME NEW st \in Streams
               PROVE  Min({heads_behind(sinfo)[st]} \union emptied(st)) \in 0 .. Size
    BY <1>4
  <2> DEFINE M == {heads_behind(sinfo)[st]} \union emptied(st)
  <2>1. emptied(st) \in SUBSET Slots /\ IsFiniteSet(emptied(st))
    BY SlotsAre, FS_Subset
  <2>2. heads_behind(sinfo)[st] \in 0 .. Size /\ Slots \subseteq 0 .. Size
    BY <1>5, SlotsAre DEF Slots
  <2> HIDE DEF emptied
  <2>3. IsFiniteSet(M) /\ M # {}
    BY <2>1, FS_Singleton, FS_Union
  <2>4. M \subseteq 0 .. Size
    BY <2>1, <2>2
  <2> HIDE DEF M
  <2>5. M \in SUBSET Int
    BY <2>4
  <2>6. Min(M) \in M
    BY <2>3, <2>5, MinOf
  <2> QED
    BY <2>4, <2>6 DEF M
<1> QED
  BY <1>6, <1>7, <1>8 DEF placed, sinfo, ub

LEMMA FailType == TypeInv /\ FailUbatch => TypeInv'
<1> SUFFICES ASSUME TypeInv, FailUbatch PROVE TypeInv'
  OBVIOUS
<1>1. CacheTypes
  BY DEF TypeInv
<1>2. /\ phase = "compute" /\ Return(2) /\ UNCHANGED config /\ UNCHANGED sc_info /\ UNCHANGED ntok
      /\ data' = [st \in Streams |-> [i \in Slots |->
                    IF in_slot(sinfos[i_cur], st, i) THEN Uncomputed ELSE data[st][i]]]
  BY DEF FailUbatch, bounds
<1>3. data' \in [Streams -> [Slots -> Key]]
  <2>1. Uncomputed \in Key
    BY DEF Uncomputed, Key
  <2> QED
    BY <1>1, <1>2, <2>1 DEF CacheTypes
<1>4. CacheTypes'
  <2>1. sc_info' \in Seq(Streams \X Streams) /\ ntok' \in Nat
    BY <1>1, <1>2 DEF CacheTypes
  <2> QED
    BY <1>1, <1>2, <1>3, <2>1, FailedCells, CacheKept
<1>5. BatchTypes' /\ PhaseInv'
  BY <1>2, Computing, ReturnKept
<1> QED
  BY <1>4, <1>5 DEF TypeInv

LEMMA InitType == Init => TypeInv
<1> SUFFICES ASSUME Init PROVE TypeInv
  OBVIOUS
<1>1. CacheTypes
  <2>1. Uncomputed \in Key
    BY DEF Uncomputed, Key
  <2>2. sc_info \in Seq(Streams \X Streams)
    BY EmptySeq DEF Init
  <2> QED
    BY <2>1, <2>2, EmptyCell, SlotsAre DEF Init, CacheTypes
<1>2. BatchTypes
  <2>1. Len(<<>>) = 0 /\ \A m : m \notin 1 .. 0
    BY EmptySeq
  <2> QED
    BY <2>1, EmptySeq DEF Init, BatchTypes
<1>3. PhaseInv
  BY DEF Init, PhaseInv
<1> QED
  BY <1>1, <1>2, <1>3 DEF TypeInv

LEMMA StutterType == TypeInv /\ UNCHANGED vars => TypeInv'
<1> SUFFICES ASSUME TypeInv, UNCHANGED vars PROVE TypeInv'
  OBVIOUS
<1>1. UNCHANGED config /\ UNCHANGED memory /\ UNCHANGED batch /\ UNCHANGED bounds
  BY DEF vars
<1>2. CacheTypes'
  BY <1>1, CacheKept DEF TypeInv, CacheTypes, memory, bounds
<1>3. BatchTypes'
  BY <1>1, BatchKept DEF TypeInv
<1>4. PhaseInv'
  BY <1>1 DEF TypeInv, PhaseInv, memory, batch
<1> QED
  BY <1>2, <1>3, <1>4 DEF TypeInv

LEMMA TypeStep == TypeInv /\ [Next]_vars => TypeInv'
<1> SUFFICES ASSUME TypeInv, [Next]_vars PROVE TypeInv'
  OBVIOUS
<1>1. CASE UNCHANGED vars
  BY <1>1, StutterType
<1>2. CASE Clear
  BY <1>2, ClearType
<1>3. ASSUME NEW s \in Seqs, NEW r \in Ranges, seq_rm(s, r) PROVE TypeInv'
  BY <1>3, RmType
<1>4. ASSUME NEW s \in Seqs, NEW t \in Seqs, NEW r \in Ranges, seq_cp_cells(s, t, r) PROVE TypeInv'
  BY <1>4, CpCellsType
<1>5. ASSUME NEW s \in Seqs, NEW t \in Seqs, NEW r \in Ranges, seq_cp_stream(s, t, r) PROVE TypeInv'
  BY <1>5, CpStreamType
<1>6. ASSUME NEW s \in Seqs, NEW r \in Ranges, NEW d \in Deltas, seq_add(s, r, d) PROVE TypeInv'
  BY <1>6, AddType
<1>7. ASSUME NEW s \in Seqs, NEW r \in Ranges, NEW d \in Divisors, seq_div(s, r, d) PROVE TypeInv'
  BY <1>7, DivType
<1>8. ASSUME NEW r \in Ranges, seq_rm_any(r) PROVE TypeInv'
  BY <1>8, RmAnyType
<1>9. ASSUME NEW s \in Seqs, seq_keep(s) PROVE TypeInv'
  BY <1>9, KeepType
<1>10. ASSUME NEW S \in (SUBSET Seqs) \ {{}}, NEW n \in Lengths, NEW coupled \in BOOLEAN, Decode(S, n, coupled)
       PROVE  TypeInv'
  BY <1>10, DecodeType
<1>11. CASE PrepareUbatch
  BY <1>11, PrepareType
<1>12. CASE RestoreUbatch
  BY <1>12, RestoreType
<1>13. CASE NoSlot
  BY <1>13, NoSlotType
<1>14. CASE ComputeUbatch
  BY <1>14, ComputeType
<1>15. CASE FailUbatch
  BY <1>15, FailType
<1> QED
  BY <1>1, <1>2, <1>3, <1>4, <1>5, <1>6, <1>7, <1>8, <1>9, <1>10, <1>11, <1>12, <1>13, <1>14, <1>15 DEF Next

----------------------------------------------------------------------------
(* The keys and the positions of the cells.                                *)

LEMMA SoundCells ==
  ASSUME NEW D, NEW c \in Cell, NEW k \in Key, Sound(c, k, D)
  PROVE  /\ \A p : p = Empty => Sound(p, k, D)
         /\ \A p : p.pos = c.pos /\ p.shift = c.shift => Sound(p, k, D)
         /\ \A Q : Sound([c EXCEPT !.seq = Q], k, D)
         /\ \A s : Sound(cell_rm(c, s), k, D)
         /\ \A s : Sound(cell_keep(c, s), k, D)
         /\ \A d \in Int : ~is_empty(c) => Sound(pos_add(c, d), k, D)
<1>1. \A p : p = Empty => Sound(p, k, D)
  BY EmptyCell DEF Sound
<1>2. \A p : p.pos = c.pos /\ p.shift = c.shift => Sound(p, k, D)
  BY DEF Sound, is_empty
<1>3. \A Q : [c EXCEPT !.seq = Q].pos = c.pos /\ [c EXCEPT !.seq = Q].shift = c.shift
  BY DEF Cell
<1>4. \A Q : Sound([c EXCEPT !.seq = Q], k, D)
  BY <1>2, <1>3
<1>5. \A s : Sound(cell_rm(c, s), k, D)
  BY <1>1, <1>4 DEF cell_rm
<1>6. \A s : Sound(cell_keep(c, s), k, D)
  BY <1>1, <1>4 DEF cell_keep
<1>7. ASSUME NEW d \in Int, ~is_empty(c) PROVE Sound(pos_add(c, d), k, D)
  <2>1. CASE c.pos + d < 0
    BY <1>1, <2>1 DEF pos_add
  <2>2. CASE ~(c.pos + d < 0)
    <3> DEFINE p == pos_add(c, d)
    <3>1. p.pos = c.pos + d /\ p.shift = c.shift + d
      BY <2>2 DEF pos_add, Cell
    <3>2. c.pos \in Int /\ c.shift \in Int /\ k.rot \in Int
      BY DEF Cell, Key
    <3>3. k.tok \in D \/ k.rot + c.shift = c.pos
      BY <1>7 DEF Sound
    <3>4. k.rot + c.shift = c.pos => k.rot + (c.shift + d) = c.pos + d
      BY <3>2
    <3> QED
      BY <3>1, <3>3, <3>4 DEF Sound
  <2> QED
    BY <2>1, <2>2
<1> QED
  BY <1>1, <1>2, <1>4, <1>5, <1>6, <1>7

(* Where no micro-batch is on trial.                                       *)
LEMMA AllSound ==
  ASSUME TypeInv, RotInv, states = <<>>, NEW st \in Streams, NEW i \in Slots
  PROVE  /\ Sound(v_cells[st][i], Keys[st][i], divided \union {0})
         /\ v_cells[st][i] \in Cell /\ Keys[st][i] \in Key
<1>1. Len(states) = 0 /\ Untouched(0, st, i)
  BY EmptySeq DEF Untouched
<1>2. Sound(v_cells[st][i], Keys[st][i], divided \union {0})
  BY <1>1 DEF RotInv
<1>3. v_cells[st][i] \in Cell /\ Keys[st][i] \in Key
  BY KeysType DEF TypeInv, CacheTypes
<1> QED
  BY <1>2, <1>3

LEMMA SoundIsEnough ==
  ASSUME UNCHANGED config, states' = <<>>,
         \A st \in Streams, i \in Slots : Sound(v_cells'[st][i], Keys'[st][i], divided' \union {0})
  PROVE  RotInv'
<1>1. Streams' = Streams
  BY SetsKept
<1>2. Len(<<>>) = 0 /\ \A m : m \notin 1 .. 0
  BY EmptySeq
<1> QED
  BY <1>1, <1>2 DEF RotInv

(* A memory call that leaves the keys alone is right when it leaves every  *)
(* cell, empties it or moves it.                                           *)
LEMMA CallRot ==
  ASSUME TypeInv, RotInv, MemoryCall, UNCHANGED config, UNCHANGED batch, UNCHANGED <<sc_info, data, divided>>,
         \A st \in Streams, i \in Slots :
           Sound(v_cells[st][i], Keys[st][i], divided \union {0}) =>
             Sound(v_cells'[st][i], Keys[st][i], divided \union {0})
  PROVE  RotInv'
<1>1. states = <<>> /\ states' = <<>> /\ Keys' = Keys /\ divided' = divided
  BY DEF TypeInv, PhaseInv, MemoryCall, batch, Keys
<1>2. \A st \in Streams, i \in Slots : Sound(v_cells'[st][i], Keys[st][i], divided \union {0})
  BY <1>1, AllSound
<1> QED
  BY <1>1, <1>2, SoundIsEnough

LEMMA StreamCallRot ==
  ASSUME TypeInv, RotInv, MemoryCall, UNCHANGED config, UNCHANGED batch, UNCHANGED <<sc_info, data, divided>>,
         NEW q \in Streams, NEW new, v_cells' = [v_cells EXCEPT ![q] = new],
         \A i \in Slots :
           Sound(v_cells[q][i], Keys[q][i], divided \union {0}) => Sound(new[i], Keys[q][i], divided \union {0})
  PROVE  RotInv'
<1>1. ASSUME NEW st \in Streams, NEW i \in Slots, Sound(v_cells[st][i], Keys[st][i], divided \union {0})
      PROVE  Sound(v_cells'[st][i], Keys[st][i], divided \union {0})
  <2>1. v_cells'[st] = IF st = q THEN new ELSE v_cells[st]
    BY DEF TypeInv, CacheTypes
  <2> QED
    BY <1>1, <2>1
<1> QED
  BY <1>1, CallRot

LEMMA PosIn ==
  ASSUME NEW c \in Cell, NEW r \in Ranges, pos_in(c, r)
  PROVE  ~is_empty(c)
<1>1. r[1] \in Int /\ c.pos \in Int
  BY CacheAssumption DEF Cell
<1> QED
  BY <1>1 DEF pos_in, is_empty

LEMMA ClearRot ==
  ASSUME TypeInv, RotInv, Clear
  PROVE  RotInv'
<1>1. UNCHANGED config /\ states' = <<>>
  BY DEF Clear, MemoryCall, TypeInv, PhaseInv, batch
<1>2. \A st \in Streams, i \in Slots : is_empty(v_cells'[st][i])
  BY EmptyCell DEF Clear
<1>3. \A st \in Streams, i \in Slots : Sound(v_cells'[st][i], Keys'[st][i], divided' \union {0})
  BY <1>2 DEF Sound
<1> QED
  BY <1>1, <1>3, SoundIsEnough

LEMMA RmRot ==
  ASSUME TypeInv, RotInv, NEW s \in Seqs, NEW r \in Ranges, seq_rm(s, r)
  PROVE  RotInv'
<1> DEFINE q == seq_to_stream[s]
           D == divided \union {0}
           new == [i \in Slots |-> LET c == v_cells[q][i] IN
                     IF pos_in(c, r) /\ s \in c.seq THEN cell_rm(c, s) ELSE c]
<1>1. /\ v_cells' = [v_cells EXCEPT ![q] = new] /\ q \in Streams
      /\ MemoryCall /\ UNCHANGED config /\ UNCHANGED batch /\ UNCHANGED <<sc_info, data, divided>>
  BY StreamsAre DEF seq_rm, history, TypeInv
<1> HIDE DEF q
<1>2. ASSUME NEW i \in Slots, Sound(v_cells[q][i], Keys[q][i], D) PROVE Sound(new[i], Keys[q][i], D)
  <2>1. v_cells[q][i] \in Cell /\ Keys[q][i] \in Key
    BY <1>1, KeysType DEF TypeInv, CacheTypes
  <2>2. Sound(cell_rm(v_cells[q][i], s), Keys[q][i], D)
    BY <1>2, <2>1, SoundCells
  <2> QED
    BY <1>2, <2>2
<1> HIDE DEF new
<1> QED
  BY <1>1, <1>2, StreamCallRot

LEMMA RmAnyRot ==
  ASSUME TypeInv, RotInv, NEW r \in Ranges, seq_rm_any(r)
  PROVE  RotInv'
<1>1. MemoryCall /\ UNCHANGED config /\ UNCHANGED batch /\ UNCHANGED <<sc_info, data, divided>>
  BY DEF seq_rm_any, history
<1>2. ASSUME NEW st \in Streams, NEW i \in Slots, Sound(v_cells[st][i], Keys[st][i], divided \union {0})
      PROVE  Sound(v_cells'[st][i], Keys[st][i], divided \union {0})
  <2>1. v_cells'[st][i] = Empty \/ v_cells'[st][i] = v_cells[st][i]
    BY DEF seq_rm_any
  <2>2. is_empty(Empty)
    BY EmptyCell
  <2> QED
    BY <1>2, <2>1, <2>2 DEF Sound
<1> QED
  BY <1>1, <1>2, CallRot

LEMMA CpCellsRot ==
  ASSUME TypeInv, RotInv, NEW src \in Seqs, NEW dst \in Seqs, NEW r \in Ranges, seq_cp_cells(src, dst, r)
  PROVE  RotInv'
<1> DEFINE q == seq_to_stream[src]
           D == divided \union {0}
           sel == {i \in Slots : pos_in(v_cells[q][i], r) /\ src \in v_cells[q][i].seq}
           new == [i \in Slots |-> IF i \in sel THEN [v_cells[q][i] EXCEPT !.seq = @ \union {dst}]
                                   ELSE v_cells[q][i]]
<1>1. /\ v_cells' = [v_cells EXCEPT ![q] = new] /\ q \in Streams
      /\ MemoryCall /\ UNCHANGED config /\ UNCHANGED batch /\ UNCHANGED <<sc_info, data, divided>>
  BY StreamsAre DEF seq_cp_cells, history, TypeInv
<1> HIDE DEF q, sel
<1>2. ASSUME NEW i \in Slots, Sound(v_cells[q][i], Keys[q][i], D) PROVE Sound(new[i], Keys[q][i], D)
  <2>1. v_cells[q][i] \in Cell /\ Keys[q][i] \in Key
    BY <1>1, KeysType DEF TypeInv, CacheTypes
  <2>2. Sound([v_cells[q][i] EXCEPT !.seq = @ \union {dst}], Keys[q][i], D)
    BY <1>2, <2>1, SoundCells
  <2> QED
    BY <1>2, <2>2
<1> HIDE DEF new
<1> QED
  BY <1>1, <1>2, StreamCallRot

LEMMA KeepRot ==
  ASSUME TypeInv, RotInv, NEW s \in Seqs, seq_keep(s)
  PROVE  RotInv'
<1> DEFINE q == seq_to_stream[s]
           D == divided \union {0}
           new == [i \in Slots |-> cell_keep(v_cells[q][i], s)]
<1>1. /\ v_cells' = [v_cells EXCEPT ![q] = new] /\ q \in Streams
      /\ MemoryCall /\ UNCHANGED config /\ UNCHANGED batch /\ UNCHANGED <<sc_info, data, divided>>
  BY StreamsAre DEF seq_keep, history, TypeInv
<1> HIDE DEF q
<1>2. ASSUME NEW i \in Slots, Sound(v_cells[q][i], Keys[q][i], D) PROVE Sound(new[i], Keys[q][i], D)
  <2>1. v_cells[q][i] \in Cell /\ Keys[q][i] \in Key
    BY <1>1, KeysType DEF TypeInv, CacheTypes
  <2> QED
    BY <1>2, <2>1, SoundCells
<1> HIDE DEF new
<1> QED
  BY <1>1, <1>2, StreamCallRot

LEMMA AddRot ==
  ASSUME TypeInv, RotInv, NEW s \in Seqs, NEW r \in Ranges, NEW d \in Deltas, seq_add(s, r, d)
  PROVE  RotInv'
<1> DEFINE q == seq_to_stream[s]
           D == divided \union {0}
           new == [i \in Slots |-> LET c == v_cells[q][i] IN
                     IF pos_in(c, r) /\ s \in c.seq THEN pos_add(c, d) ELSE c]
<1>1. /\ v_cells' = [v_cells EXCEPT ![q] = new] /\ q \in Streams
      /\ MemoryCall /\ UNCHANGED config /\ UNCHANGED batch /\ UNCHANGED <<sc_info, data, divided>>
  BY StreamsAre DEF seq_add, history, TypeInv
<1> HIDE DEF q
<1>2. ASSUME NEW i \in Slots, Sound(v_cells[q][i], Keys[q][i], D) PROVE Sound(new[i], Keys[q][i], D)
  <2>1. v_cells[q][i] \in Cell /\ Keys[q][i] \in Key /\ d \in Int
    BY <1>1, KeysType, CacheAssumption DEF TypeInv, CacheTypes
  <2>2. pos_in(v_cells[q][i], r) => Sound(pos_add(v_cells[q][i], d), Keys[q][i], D)
    BY <1>2, <2>1, SoundCells, PosIn
  <2> QED
    BY <1>2, <2>2
<1> HIDE DEF new
<1> QED
  BY <1>1, <1>2, StreamCallRot

(* What is divided is from now on excepted.                                *)
LEMMA DivRot ==
  ASSUME TypeInv, RotInv, NEW s \in Seqs, NEW r \in Ranges, NEW d \in Divisors, seq_div(s, r, d)
  PROVE  RotInv'
<1> DEFINE q == seq_to_stream[s]
           sel == {i \in Slots : pos_in(v_cells[q][i], r) /\ s \in v_cells[q][i].seq}
<1>1. /\ v_cells' = [v_cells EXCEPT ![q] = [i \in Slots |-> IF i \in sel THEN pos_div(@[i], d) ELSE @[i]]]
      /\ divided' = divided \union {Keys[q][i].tok : i \in sel}
      /\ MemoryCall /\ UNCHANGED config /\ UNCHANGED batch /\ UNCHANGED <<sc_info, data>>
  BY DEF seq_div
<1>2. states = <<>> /\ states' = <<>> /\ Keys' = Keys
  BY <1>1 DEF TypeInv, PhaseInv, MemoryCall, batch, Keys
<1> HIDE DEF q, sel
<1>3. ASSUME NEW st \in Streams, NEW i \in Slots
      PROVE  Sound(v_cells'[st][i], Keys'[st][i], divided' \union {0})
  <2>1. Sound(v_cells[st][i], Keys[st][i], divided \union {0})
    BY <1>2, AllSound
  <2>2. CASE st = q /\ i \in sel
    <3>1. Keys[st][i].tok \in divided'
      BY <1>1, <2>2
    <3> QED
      BY <1>2, <3>1 DEF Sound
  <2>3. CASE ~(st = q /\ i \in sel)
    <3>1. v_cells'[st][i] = v_cells[st][i]
      BY <1>1, <2>3 DEF TypeInv, CacheTypes
    <3> QED
      BY <1>1, <1>2, <2>1, <3>1 DEF Sound
  <2> QED
    BY <2>2, <2>3
<1> QED
  BY <1>1, <1>2, <1>3, SoundIsEnough

(* The keys of a copied stream follow, under the pending copies, its cells. *)
LEMMA CpStreamRot ==
  ASSUME TypeInv, RotInv, NEW src \in Seqs, NEW dst \in Seqs, NEW r \in Ranges, seq_cp_stream(src, dst, r)
  PROVE  RotInv'
<1> DEFINE s0 == seq_to_stream[src]
           s1 == seq_to_stream[dst]
           D == divided \union {0}
           new == [i \in Slots |-> LET c == v_cells[s0][i] IN
                     IF src \in c.seq THEN [c EXCEPT !.seq = {dst}] ELSE Empty]
<1>1. /\ v_cells' = [v_cells EXCEPT ![s1] = new]
      /\ sc_info' = Append(sc_info, <<s0, s1>>)
      /\ s0 \in Streams /\ s1 \in Streams
      /\ MemoryCall /\ UNCHANGED config /\ UNCHANGED batch /\ UNCHANGED data /\ UNCHANGED divided
  BY StreamsAre DEF seq_cp_stream, history, TypeInv
<1>2. states = <<>> /\ states' = <<>>
  BY <1>1 DEF TypeInv, PhaseInv, MemoryCall, batch
<1> HIDE DEF s0, s1
<1>3. Keys' = [Keys EXCEPT ![s1] = Keys[s0]]
  <2>1. sc_info \in Seq(Streams \X Streams) /\ <<s0, s1>> \in Streams \X Streams
    BY <1>1 DEF TypeInv, CacheTypes
  <2>2. Keys' = stream_copy(Keys, <<s0, s1>>)
    BY <1>1, <2>1, CopiesAppend DEF Keys
  <2> QED
    BY <2>2 DEF stream_copy
<1>4. Keys \in [Streams -> [Slots -> Key]] /\ v_cells \in [Streams -> [Slots -> Cell]]
  BY KeysType DEF TypeInv, CacheTypes
<1>5. ASSUME NEW st \in Streams, NEW i \in Slots
      PROVE  Sound(v_cells'[st][i], Keys'[st][i], divided' \union {0})
  <2>1. CASE st = s1
    <3>1. v_cells'[st][i] = new[i] /\ Keys'[st][i] = Keys[s0][i]
      BY <1>1, <1>3, <1>4, <2>1
    <3>2. Sound(v_cells[s0][i], Keys[s0][i], D) /\ v_cells[s0][i] \in Cell /\ Keys[s0][i] \in Key
      BY <1>1, <1>2, AllSound
    <3>3. Sound(Empty, Keys[s0][i], D) /\ Sound([v_cells[s0][i] EXCEPT !.seq = {dst}], Keys[s0][i], D)
      BY <3>2, SoundCells
    <3>4. Sound(new[i], Keys[s0][i], D)
      BY <3>3
    <3> QED
      BY <1>1, <3>1, <3>4
  <2>2. CASE st # s1
    <3>1. v_cells'[st][i] = v_cells[st][i] /\ Keys'[st][i] = Keys[st][i]
      BY <1>1, <1>3, <1>4, <2>2
    <3> QED
      BY <1>1, <1>2, <3>1, AllSound
  <2> QED
    BY <2>1, <2>2
<1> QED
  BY <1>1, <1>2, <1>5, SoundIsEnough

(* The update applies what is pending, or leaves the shifts pending.       *)
LEMMA UpdateRot ==
  ASSUME TypeInv, RotInv, states = <<>>, NEW ok \in BOOLEAN, memory_update(ok),
         UNCHANGED config, states' = <<>>, UNCHANGED divided
  PROVE  RotInv'
<1>1. sc_info' = <<>> /\ Keys' = data'
  BY NoCopies DEF memory_update, Keys
<1>2. ASSUME NEW st \in Streams, NEW i \in Slots
      PROVE  Sound(v_cells'[st][i], Keys'[st][i], divided' \union {0})
  <2> DEFINE c == v_cells[st][i]
             k == Keys[st][i]
  <2>1. Sound(c, k, divided \union {0}) /\ c \in Cell /\ k \in Key
    BY AllSound
  <2>2. CASE ok
    <3>0. /\ data' = [s \in Streams |-> [j \in Slots |-> [Keys[s][j] EXCEPT !.rot = @ + v_cells[s][j].shift]]]
          /\ v_cells' = [s \in Streams |-> [j \in Slots |-> [v_cells[s][j] EXCEPT !.shift = 0]]]
      BY <2>2 DEF memory_update
    <3>1. data'[st][i] = [k EXCEPT !.rot = @ + c.shift] /\ v_cells'[st][i] = [c EXCEPT !.shift = 0]
      BY <3>0
    <3> HIDE DEF c, k
    <3>2. /\ data'[st][i].tok = k.tok /\ data'[st][i].rot = k.rot + c.shift
          /\ v_cells'[st][i].shift = 0 /\ v_cells'[st][i].pos = c.pos
      BY <2>1, <3>1 DEF Key, Cell
    <3>3. k.rot + c.shift + 0 = k.rot + c.shift
      BY <2>1 DEF Key, Cell
    <3> QED
      BY <1>1, <2>1, <3>2, <3>3 DEF Sound, is_empty
  <2>3. CASE ~ok
    <3>1. data'[st][i] = k /\ v_cells'[st][i] = c
      BY <2>3 DEF memory_update
    <3> QED
      BY <1>1, <2>1, <3>1
  <2> QED
    BY <2>2, <2>3
<1> QED
  BY <1>2, SoundIsEnough

LEMMA DecodeRot ==
  ASSUME TypeInv, RotInv, NEW S \in (SUBSET Seqs) \ {{}}, NEW n \in Lengths, NEW coupled \in BOOLEAN,
         Decode(S, n, coupled)
  PROVE  RotInv'
<1>1. states = <<>> /\ states' = <<>> /\ UNCHANGED config /\ UNCHANGED divided
  BY DEF Decode, TypeInv, PhaseInv
<1>2. PICK ok \in BOOLEAN : memory_update(ok)
  BY DEF Decode, CanFail
<1> QED
  BY <1>1, <1>2, UpdateRot

LEMMA NoSlotRot ==
  ASSUME TypeInv, RotInv, NoSlot
  PROVE  RotInv'
<1>1. states = <<>> /\ states' = <<>> /\ UNCHANGED config /\ UNCHANGED divided
  BY DEF NoSlot, Return
<1>2. CASE \E ok \in BOOLEAN : memory_update(ok)
  BY <1>1, <1>2, UpdateRot
<1>3. CASE UNCHANGED <<v_cells, data, sc_info>>
  <2>1. Keys' = Keys
    BY <1>3 DEF Keys
  <2>2. \A st \in Streams, i \in Slots : Sound(v_cells'[st][i], Keys'[st][i], divided' \union {0})
    BY <1>1, <1>3, <2>1, AllSound
  <2> QED
    BY <1>1, <2>2, SoundIsEnough
<1> QED
  BY <1>2, <1>3 DEF NoSlot

(* A cell outside the slot is as it was, or empty.                         *)
LEMMA OutsideSlot ==
  ASSUME CacheTypes, NEW sinfo \in SlotInfo, NEW ub \in Ubatch, Fits(sinfo, ub),
         NEW st \in Streams, NEW i \in Slots, ~in_slot(sinfo, st, i),
         NEW D, NEW k, Sound(v_cells[st][i], k, D)
  PROVE  Sound(apply_ubatch(sinfo, ub)[st][i], k, D)
<1> DEFINE c == apply_ubatch(sinfo, ub)[st][i]
<1>1. c = Empty \/ (c.pos = v_cells[st][i].pos /\ c.shift = v_cells[st][i].shift)
  <2>1. put(sinfo, ub)[st][i] = v_cells[st][i]
    BY DEF put
  <2> QED
    BY <2>1, ApplyType
<1> HIDE DEF c
<1>2. Sound(c, k, D)
  BY <1>1, EmptyCell DEF Sound, is_empty
<1> QED
  BY <1>2 DEF c

(* A cell of the slot is empty, or has the position of its token.          *)
LEMMA InsideSlot ==
  ASSUME CacheTypes, NEW sinfo \in SlotInfo, NEW ub \in Ubatch, Fits(sinfo, ub),
         NEW st \in Streams, NEW i \in Slots, in_slot(sinfo, st, i)
  PROVE  LET c == apply_ubatch(sinfo, ub)[st][i] t == ub[st][idx_of(sinfo, st, i)] IN
         c = Empty \/ (c.pos = t.pos /\ c.shift = 0 /\ t.pos \in Int)
<1> DEFINE t == ub[st][idx_of(sinfo, st, i)]
<1>1. t \in Token
  BY TokenOf
<1>2. put(sinfo, ub)[st][i].pos = t.pos /\ put(sinfo, ub)[st][i].shift = 0
  BY DEF put
<1>3. t.pos \in Int
  BY <1>1 DEF Token
<1> HIDE DEF t
<1> QED
  BY <1>2, <1>3, ApplyType DEF t

LEMMA PrepareRot ==
  ASSUME TypeInv, RotInv, PrepareUbatch
  PROVE  RotInv'
<1> DEFINE ub == ubatches[i_cur]
           sinfo == [st \in Streams |-> IF ub[st] = <<>> THEN <<>> ELSE find_slot(st, Len(ub[st]))]
           cells == [st \in Streams |-> [j \in DOMAIN sinfo[st] |-> v_cells[st][sinfo[st][j]]]]
           saved == [sinfo |-> sinfo, heads |-> v_heads, cells |-> cells]
           failed == \E st \in Streams : ub[st] # <<>> /\ sinfo[st] = <<>>
           D == divided \union {0}
<1>1. CacheTypes /\ BatchTypes /\ PhaseInv
  BY DEF TypeInv
<1>2. /\ phase = "prepare" /\ UNCHANGED config /\ Keys' = Keys /\ divided' = divided
      /\ IF failed
         THEN UNCHANGED <<v_cells, states>>
         ELSE /\ states' = Append(states, saved)
              /\ v_cells' = apply_ubatch(sinfo, ub)
  BY DEF PrepareUbatch, Keys, history
<1>3. ub \in Ubatch /\ states \in Seq(Saved) /\ Len(states) \in Nat
  BY <1>1, <1>2, LenProperties, ElementOfSeq DEF BatchTypes, PhaseInv
<1> HIDE DEF ub
<1>4. sinfo \in SlotInfo /\ (~failed => Fits(sinfo, ub))
  BY <1>1, <1>3, SlotsFound
<1>5. Streams' = Streams
  BY <1>2, SetsKept
<1> HIDE DEF sinfo, failed
<1>6. CASE failed
  BY <1>2, <1>5, <1>6 DEF RotInv, Untouched
<1>7. CASE ~failed
  <2>0. PICK N \in Nat : N = Len(states)
    BY <1>3
  <2>1. saved.sinfo = sinfo /\ saved.cells = cells
    OBVIOUS
  <2>2. \A st \in Streams, i \in Slots : in_slot(sinfo, st, i) =>
          cells[st][idx_of(sinfo, st, i)] = v_cells[st][i]
    BY DEF in_slot, idx_of
  <2> HIDE DEF saved, cells
  <2>3. Len(states') = N + 1 /\ states'[N + 1] = saved /\ \A m \in 1 .. N : states'[m] = states[m]
    BY <1>2, <1>3, <1>7, <2>0, AppendProperties
  <2>4. v_cells' = apply_ubatch(sinfo, ub)
    BY <1>2, <1>7
  <2>5. ASSUME NEW st \in Streams, NEW i \in Slots, NEW n \in 0 .. N
        PROVE  Untouched(n, st, i)' <=> Untouched(n, st, i)
    <3>1. \A m \in 1 .. n : states'[m] = states[m]
      BY <1>3, <2>3
    <3> QED
      BY <3>1 DEF Untouched
  <2>6. ASSUME NEW st \in Streams, NEW i \in Slots, Untouched(N + 1, st, i)'
        PROVE  Sound(v_cells'[st][i], Keys[st][i], D)
    <3>1. N + 1 \in 1 .. N + 1
      BY <1>3
    <3>2. ~in_slot(sinfo, st, i)
      BY <2>1, <2>3, <2>6, <3>1 DEF Untouched
    <3>3. Untouched(N, st, i)
      <4> SUFFICES ASSUME NEW m \in 1 .. N PROVE ~in_slot(states[m].sinfo, st, i)
        BY DEF Untouched
      <4>1. m \in 1 .. N + 1 /\ states'[m] = states[m]
        BY <1>3, <2>3
      <4> QED
        BY <2>6, <4>1 DEF Untouched
    <3>4. Sound(v_cells[st][i], Keys[st][i], D)
      BY <2>0, <3>3 DEF RotInv
    <3> QED
      BY <1>1, <1>3, <1>4, <1>7, <2>4, <3>2, <3>4, OutsideSlot
  <2>7. ASSUME NEW st \in Streams, NEW i \in Slots, NEW m \in 1 .. N + 1,
               in_slot(states'[m].sinfo, st, i), Untouched(m - 1, st, i)'
        PROVE  Sound(states'[m].cells[st][idx_of(states'[m].sinfo, st, i)], Keys[st][i], D)
    <3>1. m - 1 \in 0 .. N
      BY <1>3
    <3>2. Untouched(m - 1, st, i)
      BY <2>5, <2>7, <3>1
    <3>3. CASE m = N + 1
      <4>1. m - 1 = N
        BY <1>3, <3>3
      <4>2. Sound(v_cells[st][i], Keys[st][i], D)
        BY <2>0, <3>2, <4>1 DEF RotInv
      <4>3. states'[m].cells[st][idx_of(states'[m].sinfo, st, i)] = v_cells[st][i]
        BY <2>1, <2>2, <2>3, <2>7, <3>3
      <4> QED
        BY <4>2, <4>3
    <3>4. CASE m # N + 1
      <4>1. m \in 1 .. N /\ states'[m] = states[m]
        BY <1>3, <2>3, <3>4
      <4> QED
        BY <2>0, <2>7, <3>2, <4>1 DEF RotInv
    <3> QED
      BY <3>3, <3>4
  <2> QED
    BY <1>2, <1>5, <2>3, <2>6, <2>7 DEF RotInv
<1> QED
  BY <1>6, <1>7

LEMMA RestoreRot ==
  ASSUME TypeInv, RotInv, RestoreUbatch
  PROVE  RotInv'
<1> DEFINE old == Last(states)
           D == divided \union {0}
<1>1. BatchTypes /\ states # <<>>
  BY DEF TypeInv, RestoreUbatch
<1>2. PICK N \in Nat : /\ N + 1 = Len(states) /\ old = states[N + 1] /\ Len(Front(states)) = N
                       /\ \A m \in 1 .. N : Front(states)[m] = states[m]
  <2>1. Len(states) - 1 \in Nat /\ Len(states) - 1 + 1 = Len(states)
    BY <1>1, LastSaved
  <2> QED
    BY <1>1, <2>1, LastSaved
<1>3. /\ states' = Front(states) /\ UNCHANGED config /\ Keys' = Keys /\ divided' = divided
      /\ \A st \in Streams, i \in Slots :
           v_cells'[st][i] = IF in_slot(old.sinfo, st, i) THEN old.cells[st][idx_of(old.sinfo, st, i)]
                             ELSE v_cells[st][i]
  BY DEF RestoreUbatch, Keys, history
<1> HIDE DEF old
<1>4. Streams' = Streams
  BY <1>3, SetsKept
<1>5. ASSUME NEW st \in Streams, NEW i \in Slots, NEW n \in 0 .. N, Untouched(n, st, i)'
      PROVE  Untouched(n, st, i)
  <2>1. \A m \in 1 .. n : states'[m] = states[m]
    BY <1>2, <1>3
  <2> QED
    BY <1>5, <2>1 DEF Untouched
<1>6. ASSUME NEW st \in Streams, NEW i \in Slots, Untouched(N, st, i)'
      PROVE  Sound(v_cells'[st][i], Keys[st][i], D)
  <2>1. Untouched(N, st, i)
    BY <1>2, <1>5, <1>6
  <2>2. N + 1 \in 1 .. Len(states) /\ N + 1 - 1 = N
    BY <1>2
  <2>3. CASE in_slot(old.sinfo, st, i)
    <3>1. \A m \in 1 .. Len(states) :
            in_slot(states[m].sinfo, st, i) /\ Untouched(m - 1, st, i) =>
              Sound(states[m].cells[st][idx_of(states[m].sinfo, st, i)], Keys[st][i], D)
      BY DEF RotInv
    <3>2. PICK m \in 1 .. Len(states) : m = N + 1 /\ m - 1 = N
      BY <2>2
    <3>3. old = states[m] /\ Untouched(m - 1, st, i)
      BY <1>2, <2>1, <3>2
    <3>4. in_slot(states[m].sinfo, st, i)
      BY <2>3, <3>3
    <3>5. Sound(states[m].cells[st][idx_of(states[m].sinfo, st, i)], Keys[st][i], D)
      BY <3>1, <3>3, <3>4
    <3> QED
      BY <1>3, <2>3, <3>3, <3>5
  <2>4. CASE ~in_slot(old.sinfo, st, i)
    <3>1. Untouched(Len(states), st, i)
      <4> SUFFICES ASSUME NEW m \in 1 .. Len(states) PROVE ~in_slot(states[m].sinfo, st, i)
        BY DEF Untouched
      <4>1. m = N + 1 \/ m \in 1 .. N
        BY <1>2
      <4> QED
        BY <1>2, <2>1, <2>4, <4>1 DEF Untouched
    <3> QED
      BY <1>3, <2>4, <3>1 DEF RotInv
  <2> QED
    BY <2>3, <2>4
<1>7. ASSUME NEW st \in Streams, NEW i \in Slots, NEW m \in 1 .. N,
             in_slot(states'[m].sinfo, st, i), Untouched(m - 1, st, i)'
      PROVE  Sound(states'[m].cells[st][idx_of(states'[m].sinfo, st, i)], Keys[st][i], D)
  <2>1. m - 1 \in 0 .. N /\ m \in 1 .. Len(states) /\ states'[m] = states[m]
    BY <1>2, <1>3
  <2>2. Untouched(m - 1, st, i)
    BY <1>5, <1>7, <2>1
  <2> QED
    BY <1>7, <2>1, <2>2 DEF RotInv
<1> QED
  BY <1>2, <1>3, <1>4, <1>6, <1>7 DEF RotInv

LEMMA ComputeRot ==
  ASSUME TypeInv, RotInv, ComputeUbatch
  PROVE  RotInv'
<1> DEFINE sinfo == sinfos[i_cur]
           ub == ubatches[i_cur]
<1>1. /\ phase = "compute" /\ v_cells' = apply_ubatch(sinfo, ub) /\ UNCHANGED config
      /\ data' = [st \in Streams |-> [i \in Slots |->
                    IF in_slot(sinfo, st, i)
                    THEN LET t == ub[st][idx_of(sinfo, st, i)] IN [tok |-> t.tok, rot |-> t.pos]
                    ELSE data[st][i]]]
      /\ UNCHANGED sc_info /\ divided' = divided /\ (states' = <<>> \/ UNCHANGED states)
  BY DEF ComputeUbatch, Return
<1>2. sinfo \in SlotInfo /\ ub \in Ubatch /\ Fits(sinfo, ub) /\ states = <<>> /\ sc_info = <<>> /\ CacheTypes
  BY <1>1, Computing DEF TypeInv
<1>3. Keys = data /\ Keys' = data'
  BY <1>1, <1>2, NoCopies DEF Keys
<1> HIDE DEF sinfo, ub
<1>4. ASSUME NEW st \in Streams, NEW i \in Slots
      PROVE  Sound(v_cells'[st][i], Keys'[st][i], divided' \union {0})
  <2>1. CASE in_slot(sinfo, st, i)
    <3> DEFINE t == ub[st][idx_of(sinfo, st, i)]
               c == v_cells'[st][i]
    <3>1. Keys'[st][i] = [tok |-> t.tok, rot |-> t.pos]
      BY <1>1, <1>3, <2>1
    <3>2. c = Empty \/ (c.pos = t.pos /\ c.shift = 0 /\ t.pos \in Int)
      BY <1>1, <1>2, <2>1, InsideSlot
    <3> HIDE DEF t, c
    <3>3. Sound(c, Keys'[st][i], divided' \union {0})
      BY <3>1, <3>2, EmptyCell DEF Sound
    <3> QED
      BY <3>3 DEF c
  <2>2. CASE ~in_slot(sinfo, st, i)
    <3>1. Keys'[st][i] = Keys[st][i]
      BY <1>1, <1>3, <2>2
    <3>2. Sound(v_cells[st][i], Keys[st][i], divided \union {0})
      BY <1>2, AllSound
    <3> QED
      BY <1>1, <1>2, <2>2, <3>1, <3>2, OutsideSlot
  <2> QED
    BY <2>1, <2>2
<1> QED
  BY <1>1, <1>2, <1>4, SoundIsEnough

LEMMA FailRot ==
  ASSUME TypeInv, RotInv, FailUbatch
  PROVE  RotInv'
<1> DEFINE sinfo == sinfos[i_cur]
           ub == ubatches[i_cur]
<1>1. /\ phase = "compute" /\ UNCHANGED config /\ states' = <<>> /\ UNCHANGED sc_info /\ divided' = divided
      /\ data' = [st \in Streams |-> [i \in Slots |->
                    IF in_slot(sinfo, st, i) THEN Uncomputed ELSE data[st][i]]]
  BY DEF FailUbatch, Return
<1>2. sinfo \in SlotInfo /\ ub \in Ubatch /\ Fits(sinfo, ub) /\ states = <<>> /\ sc_info = <<>> /\ CacheTypes
  BY <1>1, Computing DEF TypeInv
<1>3. Keys = data /\ Keys' = data'
  BY <1>1, <1>2, NoCopies DEF Keys
<1>4. \A st \in Streams, i \in Slots :
        LET c == v_cells'[st][i] p == apply_ubatch(sinfo, ub)[st][i] IN
        c = Empty \/ (c.pos = p.pos /\ c.shift = p.shift)
  BY FailedCells
<1> HIDE DEF sinfo, ub
<1>5. ASSUME NEW st \in Streams, NEW i \in Slots
      PROVE  Sound(v_cells'[st][i], Keys'[st][i], divided' \union {0})
  <2>1. CASE in_slot(sinfo, st, i)
    <3>1. Keys'[st][i].tok = 0
      BY <1>1, <1>3, <2>1 DEF Uncomputed
    <3> QED
      BY <3>1 DEF Sound
  <2>2. CASE ~in_slot(sinfo, st, i)
    <3> DEFINE c == v_cells'[st][i]
               p == apply_ubatch(sinfo, ub)[st][i]
    <3>1. Keys'[st][i] = Keys[st][i]
      BY <1>1, <1>3, <2>2
    <3>2. Sound(v_cells[st][i], Keys[st][i], divided \union {0})
      BY <1>2, AllSound
    <3>3. Sound(p, Keys[st][i], divided \union {0})
      BY <1>2, <2>2, <3>2, OutsideSlot
    <3>4. c = Empty \/ (c.pos = p.pos /\ c.shift = p.shift)
      BY <1>4
    <3> HIDE DEF c, p
    <3>5. Sound(c, Keys[st][i], divided \union {0})
      BY <3>3, <3>4, EmptyCell DEF Sound, is_empty
    <3> QED
      BY <1>1, <3>1, <3>5 DEF c
  <2> QED
    BY <2>1, <2>2
<1> QED
  BY <1>1, <1>5, SoundIsEnough

LEMMA InitRot == Init => RotInv
<1> SUFFICES ASSUME Init PROVE RotInv
  OBVIOUS
<1>1. Len(<<>>) = 0 /\ \A m : m \notin 1 .. 0
  BY EmptySeq
<1>2. \A st \in Streams, i \in Slots : is_empty(v_cells[st][i])
  BY EmptyCell DEF Init
<1> QED
  BY <1>1, <1>2 DEF Init, RotInv, Sound

LEMMA StutterRot == RotInv /\ UNCHANGED vars => RotInv'
BY DEF RotInv, Untouched, Keys, Streams, vars, config, memory, batch, history

LEMMA RotStep == TypeInv /\ RotInv /\ [Next]_vars => RotInv'
<1> SUFFICES ASSUME TypeInv, RotInv, [Next]_vars PROVE RotInv'
  OBVIOUS
<1>1. CASE UNCHANGED vars
  BY <1>1, StutterRot
<1>2. CASE Clear
  BY <1>2, ClearRot
<1>3. ASSUME NEW s \in Seqs, NEW r \in Ranges, seq_rm(s, r) PROVE RotInv'
  BY <1>3, RmRot
<1>4. ASSUME NEW s \in Seqs, NEW t \in Seqs, NEW r \in Ranges, seq_cp_cells(s, t, r) PROVE RotInv'
  BY <1>4, CpCellsRot
<1>5. ASSUME NEW s \in Seqs, NEW t \in Seqs, NEW r \in Ranges, seq_cp_stream(s, t, r) PROVE RotInv'
  BY <1>5, CpStreamRot
<1>6. ASSUME NEW s \in Seqs, NEW r \in Ranges, NEW d \in Deltas, seq_add(s, r, d) PROVE RotInv'
  BY <1>6, AddRot
<1>7. ASSUME NEW s \in Seqs, NEW r \in Ranges, NEW d \in Divisors, seq_div(s, r, d) PROVE RotInv'
  BY <1>7, DivRot
<1>8. ASSUME NEW r \in Ranges, seq_rm_any(r) PROVE RotInv'
  BY <1>8, RmAnyRot
<1>9. ASSUME NEW s \in Seqs, seq_keep(s) PROVE RotInv'
  BY <1>9, KeepRot
<1>10. ASSUME NEW S \in (SUBSET Seqs) \ {{}}, NEW n \in Lengths, NEW coupled \in BOOLEAN, Decode(S, n, coupled)
       PROVE  RotInv'
  BY <1>10, DecodeRot
<1>11. CASE PrepareUbatch
  BY <1>11, PrepareRot
<1>12. CASE RestoreUbatch
  BY <1>12, RestoreRot
<1>13. CASE NoSlot
  BY <1>13, NoSlotRot
<1>14. CASE ComputeUbatch
  BY <1>14, ComputeRot
<1>15. CASE FailUbatch
  BY <1>15, FailRot
<1> QED
  BY <1>1, <1>2, <1>3, <1>4, <1>5, <1>6, <1>7, <1>8, <1>9, <1>10, <1>11, <1>12, <1>13, <1>14, <1>15 DEF Next

(* What CacheTypes, BatchTypes and PhaseInv say of every reachable state:  *)
(* the micro-batches of a decode fit their slots, prepare has found one    *)
(* for each of them before the first is computed, everything it placed on  *)
(* trial is taken out by then, and no copy between streams is pending      *)
(* while a decode runs.                                                    *)
THEOREM BatchesHaveTheirSlots == Spec => []TypeInv
<1>1. Init => TypeInv
  BY InitType
<1>2. TypeInv /\ [Next]_vars => TypeInv'
  BY TypeStep
<1> QED
  BY <1>1, <1>2, PTL DEF Spec

(* What llama_kv_cache::update is for: however memory calls, failed        *)
(* updates, trial placements, failures and aborts follow each other, the   *)
(* keys are, up to the copies and shifts that are pending, rotated to the  *)
(* positions the cells claim.                                              *)
THEOREM KeysAreRotated == Spec => []RotationPending
<1>1. Init => TypeInv /\ RotInv
  BY InitType, InitRot
<1>2. TypeInv /\ RotInv /\ [Next]_vars => (TypeInv /\ RotInv)'
  BY TypeStep, RotStep
<1>3. TypeInv /\ RotInv => RotationPending
  <2> SUFFICES ASSUME TypeInv, RotInv, phase \in {"idle", "compute"},
                      NEW st \in Streams, NEW i \in Slots
               PROVE  LET c == v_cells[st][i] k == Keys[st][i] IN
                      is_empty(c) \/ k.tok \in divided \union {0} \/ k.rot + c.shift = c.pos
    BY DEF RotationPending
  <2>1. states = <<>>
    BY DEF TypeInv, PhaseInv
  <2> QED
    BY <2>1, AllSound DEF Sound
<1> QED
  BY <1>1, <1>2, <1>3, PTL DEF Spec
==============================================================================
