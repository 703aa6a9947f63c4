---------------------------- MODULE Memory_proofs ----------------------------
(***************************************************************************)
(* Theorems about the two pools that keep memory for reuse, ActivationPool *)
(* and KVCache, for any sizes, budgets, numbers of calls, of layers and of *)
(* passes.  Those about the allocator are in Allocator_proofs.             *)
(***************************************************************************)
EXTENDS ActivationPool, KVCache, FiniteSetTheorems, TLAPS

-------------------------------------------------------------------------------
(* KVCache: what the layers have in common is how much of the pass each has   *)
(* taken; the capacity and the rows differ only where a resize was refused.   *)

\* Positions that the current pass, or those before it, have left in a layer.
Have(l) == len + (IF chunk = 0 \/ l > layer THEN 0 ELSE IF l < layer THEN chunk ELSE done)

\* The shared length is ahead of every layer's, and within the capacity.
LengthOfPass ==
  /\ current_seq_len = len + (IF chunk = 0 THEN 0 ELSE IF layer = 1 THEN done ELSE chunk)
  /\ current_seq_len <= actual_max_seq_len

Kept == ~overrun => \A l \in Layers : \A p \in 1 .. Have(l) :
                      p <= Len(rows[l]) /\ rows[l][p] = Token(p - 1)

Sized == ~broken => \A l \in Layers : Len(rows[l]) = actual_max_seq_len

IInv == TypeOK /\ LengthOfPass /\ Kept /\ Sized

\* Every layer holds what has been appended to it.
LEMMA HaveBounded == ASSUME IInv, NEW l \in Layers
                     PROVE  Have(l) \in Nat /\ Have(l) <= current_seq_len
BY KVAssumption DEF IInv, TypeOK, LengthOfPass, Have, Layers

LEMMA InitIInv == Init => IInv
<1> SUFFICES ASSUME Init PROVE IInv
  OBVIOUS
<1> USE KVAssumption DEF Init
<1>1. ASSUME NEW l \in Layers
      PROVE  rows[l] \in Seq(Nat) /\ Len(rows[l]) = actual_max_seq_len
  <2>1. rows[l] = [p \in 1 .. actual_max_seq_len |-> 0] /\ actual_max_seq_len \in Nat
    OBVIOUS
  <2> QED BY <2>1
<1>2. TypeOK
  <2>1. rows \in [Layers -> Seq(Nat)]
    BY <1>1
  <2>2. 1 \in Layers /\ done \in 0 .. chunk
    BY DEF Layers
  <2> QED BY <2>1, <2>2 DEF TypeOK
<1>3. LengthOfPass
  BY DEF LengthOfPass
<1>4. Kept
  BY DEF Kept, Have, Layers
<1>5. Sized
  BY <1>1 DEF Sized
<1> QED BY <1>2, <1>3, <1>4, <1>5 DEF IInv

\* The copy of a layer is a buffer of the new capacity that keeps the data.
LEMMA CopiedFacts ==
  ASSUME IInv, NEW n \in NewSizes, Shrinks(n), NEW l \in Layers
  PROVE  /\ Target(n) \in Nat /\ Target(n) >= current_seq_len
         /\ Target(n) \in 1 .. MaxSeqLen
         /\ Copied(l, n) \in Seq(Nat) /\ Len(Copied(l, n)) = Target(n)
         /\ \A p \in 1 .. current_seq_len :
              p <= Len(rows[l]) => p <= Target(n) /\ Copied(l, n)[p] = rows[l][p]
<1> USE KVAssumption DEF IInv, TypeOK, LengthOfPass, Layers
<1>1. n \in Nat /\ Target(n) \in Nat /\ Target(n) >= current_seq_len /\ Target(n) \in 1 .. MaxSeqLen
  BY DEF Target, Larger, Shrinks
<1>2. \A p \in 1 .. Target(n) : p <= Len(rows[l]) => rows[l][p] \in Nat
  <2>1. rows[l] \in Seq(Nat)
    OBVIOUS
  <2> QED BY <2>1, <1>1
<1>3. Copied(l, n) \in [1 .. Target(n) -> Nat]
  BY <1>1, <1>2 DEF Copied
<1>4. Copied(l, n) \in Seq(Nat) /\ Len(Copied(l, n)) = Target(n)
  BY <1>1, <1>3 DEF Copied
<1>5. \A p \in 1 .. current_seq_len :
        p <= Len(rows[l]) => p <= Target(n) /\ Copied(l, n)[p] = rows[l][p]
  BY <1>1, SMTT(30) DEF Copied
<1> QED BY <1>1, <1>4, <1>5

LEMMA NextIInv == IInv /\ [Next]_vars => IInv'
<1> SUFFICES ASSUME IInv, [Next]_vars PROVE IInv'
  OBVIOUS
<1> USE KVAssumption DEF IInv
<1>1. ASSUME NEW k \in Chunks, BeginPass(k) PROVE IInv'
  BY <1>1 DEF BeginPass, TypeOK, LengthOfPass, Kept, Sized, Have, Layers, cacheVars, Token
<1>2. CASE append
  <2> DEFINE row(l) == [p \in DOMAIN rows[l] |->
                          IF l = layer /\ p = position + 1 THEN Token(position) ELSE rows[l][p]]
  <2>1. position \in Nat /\ Token(position) \in Nat /\ layer \in Layers
    BY DEF TypeOK, position, Token, Layers
  <2>2. ASSUME NEW l \in Layers
        PROVE  row(l) \in Seq(Nat) /\ Len(row(l)) = Len(rows[l])
    <3>1. rows[l] \in Seq(Nat)
      BY DEF TypeOK
    <3>2. row(l) \in [1 .. Len(rows[l]) -> Nat]
      BY <3>1, <2>1
    <3> QED BY <3>1, <3>2, SMTT(30)
  <2>3. rows' = [l \in Layers |-> row(l)]
    BY <1>2 DEF append
  <2>4. TypeOK'
    BY <1>2, <2>2, <2>3 DEF append, Appending, Accepts, Grown, Larger, position, TypeOK, Layers
  <2>5. LengthOfPass'
    BY <1>2 DEF append, Appending, Accepts, Grown, Larger, position, TypeOK, LengthOfPass, Layers
  <2>6. Sized'
    BY <1>2, <2>2, <2>3 DEF append, Sized
  <2>7. Kept'
    <3> SUFFICES ASSUME ~overrun', NEW l \in Layers, NEW p \in 1 .. Have(l)'
                 PROVE  p <= Len(rows'[l]) /\ rows'[l][p] = Token(p - 1)'
      BY DEF Kept
    <3>0. ~overrun /\ ~(position >= Len(rows[layer])) /\ Token(p - 1)' = Token(p - 1)
      BY <1>2 DEF append, Token
    <3>1. ~overrun /\ position < Len(rows[layer]) /\ Token(p - 1)' = Token(p - 1)
      BY <3>0, <2>1 DEF TypeOK
    <3>2. rows'[l] = row(l) /\ Len(rows'[l]) = Len(rows[l])
      BY <2>2, <2>3
    <3>3. CASE l = layer /\ p = position + 1
      <4>1. p \in DOMAIN rows[l]
        BY <3>1, <3>3, <2>1 DEF TypeOK
      <4> QED BY <3>1, <3>2, <3>3, <4>1, <2>1 DEF TypeOK, Token
    <3>4. CASE ~(l = layer /\ p = position + 1)
      <4>1. p \in 1 .. Have(l)
        BY <1>2, <3>4 DEF append, Appending, Have, position, TypeOK, Layers
      <4>2. p <= Len(rows[l]) /\ rows[l][p] = Token(p - 1)
        BY <3>1, <4>1 DEF Kept
      <4>3. p \in DOMAIN rows[l]
        BY <4>1, <4>2 DEF TypeOK
      <4> QED BY <3>1, <3>2, <3>4, <4>2, <4>3
    <3> QED BY <3>3, <3>4
  <2> QED BY <2>4, <2>5, <2>6, <2>7
<1>3. CASE AppendRefused
  BY <1>3 DEF AppendRefused, TypeOK, LengthOfPass, Kept, Sized, Have, cacheVars, Token
<1>4. CASE NextLayer
  BY <1>4, SMTT(30) DEF NextLayer, Attending, TypeOK, LengthOfPass, Kept, Sized, Have, Layers, cacheVars, Token
<1>5. CASE EndPass
  BY <1>5 DEF EndPass, Attending, TypeOK, LengthOfPass, Kept, Sized, Have, Layers, cacheVars, Token
<1>6. CASE reset
  <2>1. TypeOK'
    <3>1. 1 \in Layers /\ 0 \in 0 .. chunk'
      BY <1>6 DEF reset, Layers
    <3>2. base' \in Nat
      BY <1>6 DEF reset, TypeOK
    <3> QED BY <1>6, <3>1, <3>2 DEF reset, TypeOK
  <2>2. LengthOfPass' /\ Sized'
    BY <1>6 DEF reset, TypeOK, LengthOfPass, Sized
  <2>3. Kept'
    BY <1>6 DEF reset, Kept, Have, Layers
  <2> QED BY <2>1, <2>2, <2>3
<1>7. ASSUME NEW n \in NewSizes, resize(n) PROVE IInv'
  <2>1. Shrinks(n) /\ rows' = [l \in Layers |-> Copied(l, n)]
    BY <1>7 DEF resize
  <2>2. TypeOK'
    BY <1>7, <2>1, CopiedFacts DEF resize, passVars, TypeOK, Layers
  <2>3. LengthOfPass'
    BY <1>7, <2>1, CopiedFacts DEF resize, passVars, TypeOK, LengthOfPass, Layers
  <2>4. Sized'
    BY <1>7, <2>1, CopiedFacts DEF resize, Sized
  <2>5. Kept'
    <3> SUFFICES ASSUME ~overrun', NEW l \in Layers, NEW p \in 1 .. Have(l)'
                 PROVE  p <= Len(rows'[l]) /\ rows'[l][p] = Token(p - 1)'
      BY DEF Kept
    <3>1. ~overrun /\ Have(l)' = Have(l) /\ Token(p - 1)' = Token(p - 1)
      BY <1>7 DEF resize, passVars, Have, Token
    <3>2. p <= Len(rows[l]) /\ rows[l][p] = Token(p - 1)
      BY <3>1 DEF Kept
    <3>3. p \in 1 .. current_seq_len
      BY <3>1, HaveBounded DEF TypeOK
    <3> QED BY <2>1, <3>1, <3>2, <3>3, CopiedFacts
  <2> QED BY <2>2, <2>3, <2>4, <2>5
<1>8. ASSUME NEW n \in NewSizes, NEW failing \in Layers, ResizeFails(n, failing) PROVE IInv'
  <2>1. Shrinks(n) /\ rows' = [l \in Layers |-> IF l < failing THEN Copied(l, n) ELSE rows[l]]
    BY <1>8 DEF ResizeFails
  <2>2. TypeOK'
    BY <1>8, <2>1, CopiedFacts DEF ResizeFails, passVars, TypeOK, Layers
  <2>3. LengthOfPass'
    BY <1>8 DEF ResizeFails, passVars, TypeOK, LengthOfPass, Layers
  <2>4. Sized'
    <3> SUFFICES ASSUME ~broken', NEW l \in Layers PROVE Len(rows'[l]) = actual_max_seq_len'
      BY DEF Sized
    <3>1. ~broken /\ ~(failing > 1)
      BY <1>8 DEF ResizeFails
    <3>2. ~(l < failing)
      BY <3>1 DEF Layers
    <3> QED BY <1>8, <2>1, <3>1, <3>2 DEF ResizeFails, Sized
  <2>5. Kept'
    <3> SUFFICES ASSUME ~overrun', NEW l \in Layers, NEW p \in 1 .. Have(l)'
                 PROVE  p <= Len(rows'[l]) /\ rows'[l][p] = Token(p - 1)'
      BY DEF Kept
    <3>1. ~overrun /\ Have(l)' = Have(l) /\ Token(p - 1)' = Token(p - 1)
      BY <1>8 DEF ResizeFails, passVars, Have, Token
    <3>2. p <= Len(rows[l]) /\ rows[l][p] = Token(p - 1)
      BY <3>1 DEF Kept
    <3>3. p \in 1 .. current_seq_len
      BY <3>1, HaveBounded DEF TypeOK
    <3> QED BY <2>1, <3>1, <3>2, <3>3, CopiedFacts
  <2> QED BY <2>2, <2>3, <2>4, <2>5
<1>9. CASE UNCHANGED vars
  BY <1>9 DEF vars, cacheVars, passVars, TypeOK, LengthOfPass, Kept, Sized, Have, Token
<1> QED BY <1>1, <1>2, <1>3, <1>4, <1>5, <1>6, <1>7, <1>8, <1>9 DEF Next

\* The capacity stays positive and within what the configuration asks, and the place of
\* the pass is one (kv_cache.mm:79-84, 267-272).
THEOREM TypeCorrect == Spec => []TypeOK
<1>1. IInv => TypeOK
  BY DEF IInv
<1> QED BY <1>1, InitIInv, NextIInv, PTL DEF Spec

\* Attention reads the tokens of its own generation, in order and to the last, as long
\* as no copy has overrun a buffer (kv_cache.mm:129-217, 272-320).
THEOREM ReadsAreOwn == Spec => []ReadsOwnTokens
<1>1. IInv => ReadsOwnTokens
  <2> SUFFICES ASSUME IInv, Attending, ~overrun
               PROVE  /\ current_seq_len = len + chunk
                      /\ \A p \in 1 .. current_seq_len : Get[p] = Token(p - 1)
    BY DEF ReadsOwnTokens
  <2>1. current_seq_len = len + chunk /\ layer \in Layers /\ Have(layer) = current_seq_len
    BY KVAssumption DEF IInv, TypeOK, LengthOfPass, Attending, Have, Layers
  <2>2. ASSUME NEW p \in 1 .. current_seq_len PROVE Get[p] = Token(p - 1)
    <3>1. p <= Len(rows[layer]) /\ rows[layer][p] = Token(p - 1)
      BY <2>1 DEF IInv, Kept
    <3> QED BY <3>1 DEF Get
  <2> QED BY <2>1, <2>2
<1> QED BY <1>1, InitIInv, NextIInv, PTL DEF Spec

\* The first layer of a pass speaks for all: append() throws at no other
\* (kv_cache.mm:135, 272).
THEOREM RefusalsComeFirst == Spec => RefusedAtFirstLayer
<1>1. IInv /\ [Next]_vars => [AppendRefused => layer = 1]_vars
  <2> SUFFICES ASSUME IInv, AppendRefused PROVE layer = 1
    OBVIOUS
  <2> QED BY KVAssumption DEF AppendRefused, Appending, Accepts, position, IInv, TypeOK, LengthOfPass, Layers
<1> QED BY <1>1, InitIInv, NextIInv, PTL DEF Spec, RefusedAtFirstLayer

\* Only after a resize() that failed half-way does a copy leave its buffers
\* (kv_cache.mm:135, 293, 323).
THEOREM CopiesAreInside == Spec => CopiesStayInside
<1>1. IInv /\ [Next]_vars => [overrun' /\ ~overrun => broken]_vars
  <2> SUFFICES ASSUME IInv, Next, overrun', ~overrun, ~broken PROVE FALSE
    OBVIOUS
  <2>1. \A l \in Layers : Len(rows[l]) = actual_max_seq_len
    BY DEF IInv, Sized
  <2>2. current_seq_len <= actual_max_seq_len /\ layer \in Layers
    BY DEF IInv, TypeOK, LengthOfPass
  <2>3. CASE append
    BY <2>1, <2>2, <2>3 DEF append, Accepts, position, IInv, TypeOK
  <2>4. ASSUME NEW n \in NewSizes, resize(n) PROVE FALSE
    BY <2>1, <2>2, <2>4 DEF resize, IInv, TypeOK
  <2>5. ASSUME NEW n \in NewSizes, NEW failing \in Layers, ResizeFails(n, failing) PROVE FALSE
    BY <2>1, <2>2, <2>5 DEF ResizeFails, IInv, TypeOK
  <2> QED BY <2>3, <2>4, <2>5 DEF Next, BeginPass, AppendRefused, NextLayer, EndPass, reset
<1> QED BY <1>1, InitIInv, NextIInv, PTL DEF Spec, CopiesStayInside

-------------------------------------------------------------------------------
(* ActivationPool: a pool is good when its free lists, its flags and its count*)
(* of bytes describe the same buffers.  Every helper keeps that, whatever it is*)
(* given, and the actions are compositions of helpers.                        *)

-------------------------------------------------------------------------------
(* Counting bytes                                                              *)

Chunk(bufs, i) == {i} \X (1 .. bufs[i].size)
BytesOf(bufs, set) == UNION {Chunk(bufs, i) : i \in set}

LEMMA UpTo == \A n \in Nat : IsFiniteSet(1 .. n) /\ Cardinality(1 .. n) = n
BY FS_Interval

LEMMA ChunkSize ==
  ASSUME NEW bufs, NEW i, bufs[i].size \in Nat
  PROVE  IsFiniteSet(Chunk(bufs, i)) /\ Cardinality(Chunk(bufs, i)) = bufs[i].size
<1> DEFINE n == bufs[i].size
           numbers == 1 .. n
<1>1. IsFiniteSet({i}) /\ Cardinality({i}) = 1
  BY FS_Singleton
<1>2. IsFiniteSet(numbers) /\ Cardinality(numbers) = n
  BY UpTo
<1>3. Chunk(bufs, i) = {i} \X numbers
  BY DEF Chunk
<1> HIDE DEF numbers
<1>4. /\ IsFiniteSet({i} \X numbers)
      /\ Cardinality({i} \X numbers) = Cardinality({i}) * Cardinality(numbers)
  BY <1>1, <1>2, FS_Product
<1>5. Cardinality({i} \X numbers) = 1 * n
  BY <1>1, <1>2, <1>4
<1> QED BY <1>3, <1>4, <1>5

LEMMA BytesFinite ==
  ASSUME NEW bufs, NEW set, IsFiniteSet(set), \A i \in set : bufs[i].size \in Nat
  PROVE  IsFiniteSet(BytesOf(bufs, set)) /\ Bytes(bufs, set) = Cardinality(BytesOf(bufs, set))
         /\ Bytes(bufs, set) \in Nat
<1> DEFINE chunks == {Chunk(bufs, i) : i \in set}
           f == [i \in set |-> Chunk(bufs, i)]
<1>1. f \in Surjection(set, chunks)
  BY DEF Surjection
<1>2. IsFiniteSet(chunks)
  BY <1>1, FS_Surjection
<1>3. \A c \in chunks : IsFiniteSet(c)
  BY ChunkSize
<1> HIDE DEF chunks
<1>4. IsFiniteSet(UNION chunks)
  BY <1>2, <1>3, FS_UNION
<1>5. UNION chunks = BytesOf(bufs, set)
  BY DEF chunks, BytesOf
<1>6. Bytes(bufs, set) = Cardinality(BytesOf(bufs, set))
  BY DEF Bytes, BytesOf, Chunk
<1> QED BY <1>4, <1>5, <1>6, FS_CardinalityType

\* What is apart is counted apart.
LEMMA BytesSplit ==
  ASSUME NEW bufs, NEW S, NEW T, IsFiniteSet(S), IsFiniteSet(T), S \cap T = {},
         \A i \in S \cup T : bufs[i].size \in Nat
  PROVE  Bytes(bufs, S \cup T) = Bytes(bufs, S) + Bytes(bufs, T)
<1>1. IsFiniteSet(S \cup T)
  BY FS_Union
<1>2. BytesOf(bufs, S \cup T) = BytesOf(bufs, S) \cup BytesOf(bufs, T)
  BY DEF BytesOf
<1>3. BytesOf(bufs, S) \cap BytesOf(bufs, T) = {}
  <2>1. \A x \in BytesOf(bufs, S) : x[1] \in S
    BY DEF BytesOf, Chunk
  <2>2. \A x \in BytesOf(bufs, T) : x[1] \in T
    BY DEF BytesOf, Chunk
  <2> QED BY <2>1, <2>2
<1>4. /\ IsFiniteSet(BytesOf(bufs, S)) /\ IsFiniteSet(BytesOf(bufs, T))
      /\ Bytes(bufs, S) \in Nat /\ Bytes(bufs, T) \in Nat
      /\ Bytes(bufs, S) = Cardinality(BytesOf(bufs, S))
      /\ Bytes(bufs, T) = Cardinality(BytesOf(bufs, T))
      /\ Bytes(bufs, S \cup T) = Cardinality(BytesOf(bufs, S \cup T))
  BY <1>1, BytesFinite
<1>5. Cardinality(BytesOf(bufs, S) \cup BytesOf(bufs, T))
        = Cardinality(BytesOf(bufs, S)) + Cardinality(BytesOf(bufs, T)) - Cardinality({})
  BY <1>3, <1>4, FS_Union
<1>6. Cardinality({}) = 0
  BY FS_EmptySet
<1>7. Bytes(bufs, S \cup T) = Bytes(bufs, S) + Bytes(bufs, T) - 0
  BY <1>2, <1>4, <1>5, <1>6
<1> QED BY <1>4, <1>7

LEMMA BytesAdd ==
  ASSUME NEW bufs, NEW S, IsFiniteSet(S), NEW i, i \notin S,
         \A k \in S \cup {i} : bufs[k].size \in Nat
  PROVE  Bytes(bufs, S \cup {i}) = Bytes(bufs, S) + bufs[i].size
<1>1. IsFiniteSet({i}) /\ S \cap {i} = {}
  BY FS_Singleton
<1>2. Bytes(bufs, S \cup {i}) = Bytes(bufs, S) + Bytes(bufs, {i})
  BY <1>1, BytesSplit
<1>3. BytesOf(bufs, {i}) = Chunk(bufs, i)
  BY DEF BytesOf
<1>4. Bytes(bufs, {i}) = Cardinality(Chunk(bufs, i))
  BY <1>1, <1>3, BytesFinite
<1> QED BY <1>2, <1>4, ChunkSize

\* Only the sizes matter.
LEMMA BytesSame ==
  ASSUME NEW bufs, NEW bufs2, NEW S, \A i \in S : bufs2[i].size = bufs[i].size
  PROVE  Bytes(bufs2, S) = Bytes(bufs, S)
<1>1. {{i} \X (1 .. bufs2[i].size) : i \in S} = {{i} \X (1 .. bufs[i].size) : i \in S}
  OBVIOUS
<1> QED BY <1>1 DEF Bytes

LEMMA BytesNone == \A bufs : Bytes(bufs, {}) = 0
<1>1. \A bufs : UNION {{i} \X (1 .. bufs[i].size) : i \in {}} = {}
  OBVIOUS
<1> QED BY <1>1, FS_EmptySet DEF Bytes

-------------------------------------------------------------------------------
(* Numbers in their order                                                      *)

LEMMA InOrderFits ==
  ASSUME NEW N \in SUBSET Nat, IsFiniteSet(N)
  PROVE  /\ Cardinality(N) \in Nat /\ InOrder(N) \in [1 .. Cardinality(N) -> N]
         /\ \A r, t \in 1 .. Cardinality(N) : InOrder(N)[r] = InOrder(N)[t] => r = t
         /\ \A i \in N : \E r \in 1 .. Cardinality(N) : InOrder(N)[r] = i
         /\ \A i \in N : InOrder(N)[Cardinality({k \in N : k <= i})] = i
<1> DEFINE Below(i) == {k \in N : k <= i}
           rank == [i \in N |-> Cardinality(Below(i))]
<1> PICK n \in Nat : n = Cardinality(N)
  BY FS_CardinalityType
<1>1. ASSUME NEW i \in N
      PROVE  IsFiniteSet(Below(i)) /\ Cardinality(Below(i)) \in 1 .. n /\ i \in Below(i)
  <2>1. Below(i) \in SUBSET N /\ i \in Below(i)
    OBVIOUS
  <2> HIDE DEF Below
  <2>2. IsFiniteSet(Below(i)) /\ Cardinality(Below(i)) <= n
    BY <2>1, FS_Subset
  <2>3. Cardinality(Below(i)) \in Nat /\ Cardinality(Below(i)) # 0
    BY <2>1, <2>2, FS_CardinalityType, FS_EmptySet
  <2> QED BY <2>1, <2>2, <2>3
<1>2. ASSUME NEW i \in N, NEW j \in N, i < j
      PROVE  Cardinality(Below(i)) # Cardinality(Below(j))
  <2>1. i \in Nat /\ j \in Nat /\ N \subseteq Nat
    OBVIOUS
  <2>2. Below(i) \in SUBSET Below(j) /\ j \in Below(j)
    <3>1. \A k \in Nat : k <= i => k <= j
      BY <1>2, <2>1
    <3>2. \A k \in Below(i) : k \in Below(j)
      BY <2>1, <3>1
    <3>3. j \in Below(j)
      BY <2>1
    <3> HIDE DEF Below
    <3> QED BY <3>2, <3>3
  <2>3. j \notin Below(i)
    BY <1>2
  <2> HIDE DEF Below
  <2> QED BY <1>1, <2>2, <2>3, FS_Subset
<1>3. rank \in Injection(N, 1 .. n)
  <2>1. rank \in [N -> 1 .. n]
    BY <1>1
  <2>2. \A i, j \in N : rank[i] = rank[j] => i = j
    <3> SUFFICES ASSUME NEW i \in N, NEW j \in N, i # j PROVE rank[i] # rank[j]
      OBVIOUS
    <3> HIDE DEF Below
    <3>1. i < j \/ j < i
      OBVIOUS
    <3> QED BY <1>2, <3>1
  <2> HIDE DEF rank
  <2> QED BY <2>1, <2>2 DEF Injection, IsInjective
<1>4. rank \in Surjection(N, 1 .. n)
  <2>1. IsFiniteSet(1 .. n) /\ Cardinality(1 .. n) = n
    BY UpTo
  <2> HIDE DEF rank
  <2> QED BY <1>3, <2>1, FS_Injection
<1>5. \A r \in 1 .. n : \E i \in N : Cardinality(Below(i)) = r
  BY <1>4 DEF Surjection
<1>6. \A r \in 1 .. n : InOrder(N)[r] \in N /\ Cardinality(Below(InOrder(N)[r])) = r
  BY <1>5 DEF InOrder
<1>7. InOrder(N) \in [1 .. n -> N]
  BY <1>6 DEF InOrder
<1>8. ASSUME NEW i \in N PROVE rank[i] \in 1 .. n /\ InOrder(N)[rank[i]] = i
  <2>1. /\ InOrder(N)[rank[i]] \in N /\ rank[InOrder(N)[rank[i]]] = rank[i] /\ rank[i] \in 1 .. n
    BY <1>1, <1>6
  <2> QED BY <1>3, <2>1 DEF Injection, IsInjective
<1>9. \A r, t \in 1 .. n : InOrder(N)[r] = InOrder(N)[t] => r = t
  BY <1>6
<1>10. \A i \in N : \E r \in 1 .. n : InOrder(N)[r] = i
  BY <1>8
<1>11. \A i \in N : InOrder(N)[Cardinality({k \in N : k <= i})] = i
  BY <1>8
<1> QED BY <1>7, <1>9, <1>10, <1>11

\* What is not in a list is not among it.
LEMMA AmongNone ==
  ASSUME NEW list, NEW set, \A j \in DOMAIN list : list[j] \notin set
  PROVE  Among(list, set) = <<>>
<1>1. {j \in DOMAIN list : list[j] \in set} = {}
  OBVIOUS
<1>2. Cardinality({}) = 0
  BY FS_EmptySet
<1>3. Among(list, set) = [r \in 1 .. 0 |-> list[InOrder({})[r]]]
  BY <1>1, <1>2, Zenon DEF Among, Selected
<1> QED BY <1>3

-------------------------------------------------------------------------------
(* Pools                                                                       *)

PresentIn(bufs) == {i \in DOMAIN bufs : bufs[i].present}
UsedIn(bufs) == {i \in DOMAIN bufs : bufs[i].in_use}

\* The free lists are exact.
ListsExact(bufs, lists) ==
  /\ \A s \in Sizes : \A j \in DOMAIN lists[s] :
       /\ lists[s][j] \in Unused(bufs)
       /\ bufs[lists[s][j]].size = s
       /\ \A k \in DOMAIN lists[s] : lists[s][j] = lists[s][k] => j = k
  /\ \A i \in Unused(bufs) : \E j \in DOMAIN lists[bufs[i].size] : lists[bufs[i].size][j] = i

\* A pool as it always is: nothing in use is purged, and the bytes are counted.
GoodPool(p) ==
  /\ p.buffers \in Seq(PooledBuffer) /\ p.pool_lists \in [Sizes -> Seq(Nat \ {0})]
  /\ ListsExact(p.buffers, p.pool_lists)
  /\ UsedIn(p.buffers) \subseteq PresentIn(p.buffers)
  /\ p.total = Bytes(p.buffers, PresentIn(p.buffers)) /\ (Budget > 0 => p.total <= Budget)

\* Nothing changes for those who hold a buffer.
SameUse(bufs, bufs2) ==
  /\ DOMAIN bufs2 = DOMAIN bufs
  /\ \A i \in DOMAIN bufs : bufs2[i].size = bufs[i].size /\ bufs2[i].in_use = bufs[i].in_use

LEMMA BufferSets ==
  ASSUME NEW bufs \in Seq(PooledBuffer)
  PROVE  /\ IsFiniteSet(DOMAIN bufs) /\ DOMAIN bufs = 1 .. Len(bufs)
         /\ \A i \in DOMAIN bufs : /\ bufs[i] \in PooledBuffer /\ bufs[i].size \in Sizes
                                   /\ bufs[i].size \in Nat
                                   /\ bufs[i].in_use \in BOOLEAN /\ bufs[i].present \in BOOLEAN
         /\ \A S \in SUBSET DOMAIN bufs : IsFiniteSet(S) /\ Bytes(bufs, S) \in Nat
<1>1. DOMAIN bufs = 1 .. Len(bufs) /\ Len(bufs) \in Nat
  OBVIOUS
<1>2. IsFiniteSet(DOMAIN bufs)
  BY <1>1, UpTo
<1>3. \A i \in DOMAIN bufs : bufs[i] \in PooledBuffer
  OBVIOUS
<1>4. Sizes \subseteq Nat
  BY PoolAssumption
<1>5. \A i \in DOMAIN bufs : /\ bufs[i].size \in Sizes /\ bufs[i].size \in Nat
                             /\ bufs[i].in_use \in BOOLEAN /\ bufs[i].present \in BOOLEAN
  BY <1>3, <1>4 DEF PooledBuffer
<1>6. \A S \in SUBSET DOMAIN bufs : IsFiniteSet(S)
  BY <1>2, FS_Subset
<1>7. \A S \in SUBSET DOMAIN bufs : Bytes(bufs, S) \in Nat
  BY <1>5, <1>6, BytesFinite
<1> QED BY <1>1, <1>2, <1>3, <1>5, <1>6, <1>7

\* A purge empties what is not in use, and gives all of it up.
LEMMA PurgeFits ==
  ASSUME NEW p, GoodPool(p)
  PROVE  /\ GoodPool(Purge(p)) /\ SameUse(p.buffers, Purge(p).buffers)
         /\ Purge(p).total = Bytes(p.buffers, UsedIn(p.buffers))
<1> DEFINE b == p.buffers
           q == Purge(p)
           emptied == [i \in DOMAIN b |-> [b[i] EXCEPT !.present = @ /\ b[i].in_use]]
<1>1. /\ b \in Seq(PooledBuffer) /\ p.pool_lists \in [Sizes -> Seq(Nat \ {0})]
      /\ ListsExact(b, p.pool_lists) /\ UsedIn(b) \subseteq PresentIn(b)
      /\ p.total = Bytes(b, PresentIn(b)) /\ (Budget > 0 => p.total <= Budget)
  BY DEF GoodPool
<1>2. /\ q.buffers = emptied
      /\ q.pool_lists = [s \in Sizes |-> Among(p.pool_lists[s], {i \in DOMAIN emptied : emptied[i].present})]
      /\ q.total = p.total - Bytes(b, Unused(b))
  BY DEF Purge
<1>3. ASSUME NEW i \in DOMAIN b
      PROVE  /\ emptied[i] \in PooledBuffer /\ emptied[i].size = b[i].size
             /\ emptied[i].in_use = b[i].in_use /\ emptied[i].present = b[i].in_use
  <2>1. b[i] \in PooledBuffer /\ (b[i].in_use => b[i].present)
    BY <1>1, BufferSets DEF UsedIn, PresentIn
  <2>2. emptied[i] = [b[i] EXCEPT !.present = b[i].present /\ b[i].in_use]
    OBVIOUS
  <2> HIDE DEF emptied
  <2> QED BY <2>1, <2>2 DEF PooledBuffer
<1>4. emptied \in Seq(PooledBuffer) /\ DOMAIN emptied = DOMAIN b
  <2> PICK n \in Nat : DOMAIN b = 1 .. n
    BY <1>1
  <2>1. emptied \in [1 .. n -> PooledBuffer]
    BY <1>3
  <2> QED BY <2>1
<1> HIDE DEF emptied
<1>5. /\ SameUse(b, q.buffers) /\ PresentIn(q.buffers) = UsedIn(b) /\ UsedIn(q.buffers) = UsedIn(b)
      /\ Unused(q.buffers) = {}
  BY <1>2, <1>3, <1>4 DEF SameUse, PresentIn, UsedIn, Unused
<1>6. q.pool_lists = [s \in Sizes |-> <<>>]
  <2>1. ASSUME NEW s \in Sizes
        PROVE  Among(p.pool_lists[s], {i \in DOMAIN emptied : emptied[i].present}) = <<>>
    <3>1. \A j \in DOMAIN p.pool_lists[s] :
            p.pool_lists[s][j] \notin {i \in DOMAIN emptied : emptied[i].present}
      <4> SUFFICES ASSUME NEW j \in DOMAIN p.pool_lists[s]
                   PROVE  ~emptied[p.pool_lists[s][j]].present
        OBVIOUS
      <4>1. p.pool_lists[s][j] \in DOMAIN b /\ ~b[p.pool_lists[s][j]].in_use
        BY <1>1 DEF ListsExact, Unused
      <4> QED BY <1>3, <4>1
    <3> QED BY <3>1, AmongNone
  <2> QED BY <1>2, <2>1
<1>7. q.total = Bytes(b, UsedIn(b)) /\ q.total = Bytes(q.buffers, UsedIn(b))
  <2>1. /\ IsFiniteSet(UsedIn(b)) /\ IsFiniteSet(Unused(b)) /\ UsedIn(b) \cap Unused(b) = {}
        /\ \A i \in UsedIn(b) \cup Unused(b) : b[i].size \in Nat
        /\ Bytes(b, UsedIn(b)) \in Nat /\ Bytes(b, Unused(b)) \in Nat
    BY <1>1, BufferSets DEF UsedIn, Unused
  <2>2. PresentIn(b) = UsedIn(b) \cup Unused(b)
    BY <1>1 DEF PresentIn, UsedIn, Unused
  <2>3. Bytes(b, PresentIn(b)) = Bytes(b, UsedIn(b)) + Bytes(b, Unused(b))
    BY <2>1, <2>2, BytesSplit
  <2>4. q.total = Bytes(b, UsedIn(b))
    BY <1>1, <1>2, <2>1, <2>3
  <2>5. Bytes(q.buffers, UsedIn(b)) = Bytes(b, UsedIn(b))
    BY <1>5, BytesSame DEF SameUse, UsedIn
  <2> QED BY <2>4, <2>5
<1>8. (Budget > 0 => q.total <= Budget)
  <2>1. /\ q.total \in Nat /\ Bytes(b, Unused(b)) \in Nat /\ p.total \in Nat
        /\ q.total = p.total - Bytes(b, Unused(b))
    BY <1>1, <1>2, <1>7, BufferSets DEF UsedIn, Unused, PresentIn
  <2> QED BY <1>1, <2>1, PoolAssumption
<1>9. GoodPool(q)
  <2>1. q.pool_lists \in [Sizes -> Seq(Nat \ {0})] /\ ListsExact(q.buffers, q.pool_lists)
    BY <1>5, <1>6 DEF ListsExact
  <2> QED BY <1>2, <1>4, <1>5, <1>7, <1>8, <2>1 DEF GoodPool
<1> QED BY <1>5, <1>7, <1>9

LEMMA AppendFits ==
  ASSUME NEW S, NEW q \in Seq(S), NEW e \in S, NEW n, n = Len(q) + 1
  PROVE  /\ Append(q, e) \in Seq(S) /\ DOMAIN Append(q, e) = DOMAIN q \cup {n}
         /\ n \in Nat \ {0} /\ n \notin DOMAIN q /\ Append(q, e)[n] = e
         /\ \A i \in DOMAIN q : Append(q, e)[i] = q[i]
OBVIOUS

\* Lists that know nothing new are as exact as before.
LEMMA ListsKept ==
  ASSUME NEW b, NEW l, ListsExact(b, l), NEW c, Unused(c) = Unused(b),
         \A i \in Unused(b) : c[i].size = b[i].size
  PROVE  ListsExact(c, l)
BY DEF ListsExact

\* A buffer that becomes free comes at the end of the list of its size.
LEMMA ListsAdded ==
  ASSUME NEW b, NEW l \in [Sizes -> Seq(Nat \ {0})], ListsExact(b, l), NEW c, NEW i \in Nat \ {0},
         i \notin Unused(b), Unused(c) = Unused(b) \cup {i}, c[i].size \in Sizes,
         \A k \in Unused(b) : c[k].size = b[k].size /\ c[k].size \in Sizes
  PROVE  LET m == [l EXCEPT ![c[i].size] = Append(@, i)] IN
         m \in [Sizes -> Seq(Nat \ {0})] /\ ListsExact(c, m)
<1>z. PICK z \in Sizes : z = c[i].size
  OBVIOUS
<1>q. PICK q : q = Append(l[z], i)
  OBVIOUS
<1>m. PICK m : m = [l EXCEPT ![z] = q]
  OBVIOUS
<1>1. l[z] \in Seq(Nat \ {0})
  OBVIOUS
<1>n. PICK n : n = Len(l[z]) + 1
  OBVIOUS
<1>2. /\ q \in Seq(Nat \ {0}) /\ DOMAIN q = DOMAIN l[z] \cup {n} /\ q[n] = i
      /\ n \notin DOMAIN l[z] /\ \A j \in DOMAIN l[z] : q[j] = l[z][j]
  BY <1>1, <1>q, <1>n, AppendFits
<1>3. /\ m \in [Sizes -> Seq(Nat \ {0})] /\ m[z] = q
      /\ \A s \in Sizes : s # z => m[s] = l[s]
  BY <1>2, <1>m
<1>4. ASSUME NEW s \in Sizes, NEW j \in DOMAIN m[s]
      PROVE  /\ m[s][j] \in Unused(c) /\ c[m[s][j]].size = s
             /\ \A k \in DOMAIN m[s] : m[s][j] = m[s][k] => j = k
  <2>1. \A k \in DOMAIN l[s] : l[s][k] \in Unused(b) /\ c[l[s][k]].size = s /\ l[s][k] # i
    <3>1. \A k \in DOMAIN l[s] : l[s][k] \in Unused(b) /\ b[l[s][k]].size = s
      BY DEF ListsExact
    <3> QED BY <3>1
  <2>2. \A k, k2 \in DOMAIN l[s] : l[s][k] = l[s][k2] => k = k2
    BY DEF ListsExact
  <2>3. CASE s # z
    BY <1>3, <2>1, <2>2, <2>3
  <2>4. CASE s = z
    <3>1. m[s] = q
      BY <1>3, <2>4
    <3>2. \A k \in DOMAIN q : q[k] \in Unused(c) /\ c[q[k]].size = s
      BY <1>2, <2>1, <2>4, <1>z
    <3>3. \A k, k2 \in DOMAIN q : q[k] = q[k2] => k = k2
      BY <1>2, <2>1, <2>2, <2>4
    <3> QED BY <3>1, <3>2, <3>3
  <2> QED BY <2>3, <2>4
<1>5. ASSUME NEW k \in Unused(c) PROVE \E j \in DOMAIN m[c[k].size] : m[c[k].size][j] = k
  <2>1. CASE k = i
    BY <2>1, <1>2, <1>3, <1>z
  <2>2. CASE k # i
    <3>1. k \in Unused(b) /\ c[k].size = b[k].size /\ c[k].size \in Sizes
      BY <2>2
    <3>2. PICK j \in DOMAIN l[c[k].size] : l[c[k].size][j] = k
      BY <3>1 DEF ListsExact
    <3>3. CASE c[k].size = z
      BY <1>2, <1>3, <3>2, <3>3
    <3>4. CASE c[k].size # z
      BY <1>3, <3>1, <3>2, <3>4
    <3> QED BY <3>3, <3>4
  <2> QED BY <2>1, <2>2
<1>6. ListsExact(c, m)
  BY <1>4, <1>5 DEF ListsExact
<1> QED BY <1>3, <1>6, <1>z, <1>q, <1>m

\* A buffer that is taken is the last of its list.
LEMMA ListsTaken ==
  ASSUME NEW b, NEW l \in [Sizes -> Seq(Nat \ {0})], ListsExact(b, l), NEW c,
         NEW z \in Sizes, l[z] # <<>>, NEW i, i = l[z][Len(l[z])],
         Unused(c) = Unused(b) \ {i},
         \A k \in Unused(b) : c[k].size = b[k].size /\ c[k].size \in Sizes
  PROVE  LET m == [l EXCEPT ![z] = SubSeq(@, 1, Len(@) - 1)] IN
         i \in Unused(b) /\ m \in [Sizes -> Seq(Nat \ {0})] /\ ListsExact(c, m)
<1>q. PICK q : q = SubSeq(l[z], 1, Len(l[z]) - 1)
  OBVIOUS
<1>m. PICK m : m = [l EXCEPT ![z] = q]
  OBVIOUS
<1>n. PICK n \in Nat \ {0} : n = Len(l[z])
  OBVIOUS
<1>1. /\ q \in Seq(Nat \ {0}) /\ DOMAIN l[z] = DOMAIN q \cup {n} /\ l[z][n] = i
      /\ n \notin DOMAIN q /\ \A j \in DOMAIN q : q[j] = l[z][j]
  <2>1. l[z] \in Seq(Nat \ {0})
    OBVIOUS
  <2> QED BY <2>1, <1>q, <1>n
<1>2. /\ m \in [Sizes -> Seq(Nat \ {0})] /\ m[z] = q
      /\ \A s \in Sizes : s # z => m[s] = l[s]
  BY <1>1, <1>m
<1>3. /\ \A s \in Sizes : \A k \in DOMAIN l[s] : l[s][k] \in Unused(b) /\ c[l[s][k]].size = s
      /\ \A s \in Sizes : \A k, k2 \in DOMAIN l[s] : l[s][k] = l[s][k2] => k = k2
  BY ZenonT(60) DEF ListsExact
<1>4. i \in Unused(b) /\ c[i].size = z
  BY <1>1, <1>3
<1>5. ASSUME NEW s \in Sizes, NEW j \in DOMAIN m[s]
      PROVE  /\ m[s][j] \in Unused(c) /\ c[m[s][j]].size = s
             /\ \A k \in DOMAIN m[s] : m[s][j] = m[s][k] => j = k
  <2>1. CASE s # z
    BY <2>1, <1>2, <1>3, <1>4
  <2>2. CASE s = z
    <3>1. m[s] = q
      BY <1>2, <2>2
    <3>2. \A k \in DOMAIN q : q[k] \in Unused(b) /\ c[q[k]].size = z /\ q[k] # i
      BY <1>1, <1>3
    <3>3. \A k, k2 \in DOMAIN q : q[k] = q[k2] => k = k2
      BY <1>1, <1>3
    <3> QED BY <2>2, <3>1, <3>2, <3>3
  <2> QED BY <2>1, <2>2
<1>6. ASSUME NEW k \in Unused(c) PROVE \E j \in DOMAIN m[c[k].size] : m[c[k].size][j] = k
  <2>1. k \in Unused(b) /\ c[k].size = b[k].size /\ c[k].size \in Sizes /\ k # i
    OBVIOUS
  <2>2. PICK j \in DOMAIN l[c[k].size] : l[c[k].size][j] = k
    BY <2>1 DEF ListsExact
  <2>3. CASE c[k].size = z
    BY <1>1, <1>2, <2>1, <2>2, <2>3, SMTT(30)
  <2>4. CASE c[k].size # z
    BY <1>2, <2>1, <2>2, <2>4
  <2> QED BY <2>3, <2>4
<1>7. ListsExact(c, m)
  BY <1>5, <1>6 DEF ListsExact
<1> QED BY <1>2, <1>4, <1>7, <1>q, <1>m

LEMMA RoomFits ==
  ASSUME GoodPool(Pool), NEW size
  PROVE  GoodPool(Room(size)) /\ SameUse(buffers, Room(size).buffers)
<1>1. SameUse(buffers, buffers) /\ Pool.buffers = buffers
  BY DEF SameUse, Pool
<1> QED BY <1>1, PurgeFits DEF Room

\* The bytes of one more buffer.
LEMMA BytesAppended ==
  ASSUME NEW b \in Seq(PooledBuffer), NEW c, NEW n, n \notin DOMAIN b,
         DOMAIN c = DOMAIN b \cup {n}, \A i \in DOMAIN b : c[i] = b[i],
         c[n].present, c[n].size \in Nat
  PROVE  Bytes(c, PresentIn(c)) = Bytes(b, PresentIn(b)) + c[n].size
<1>1. PresentIn(c) = PresentIn(b) \cup {n} /\ n \notin PresentIn(b)
  BY DEF PresentIn
<1>2. IsFiniteSet(PresentIn(b)) /\ \A i \in PresentIn(b) : c[i] = b[i] /\ b[i].size \in Nat
  BY BufferSets DEF PresentIn
<1>3. Bytes(c, PresentIn(b) \cup {n}) = Bytes(c, PresentIn(b)) + c[n].size
  BY <1>1, <1>2, BytesAdd
<1>4. Bytes(c, PresentIn(b)) = Bytes(b, PresentIn(b))
  BY <1>2, BytesSame
<1> QED BY <1>1, <1>3, <1>4

\* A new buffer comes last, and is in the list of its size unless it is handed over.
LEMMA CreatedFits ==
  ASSUME GoodPool(Pool), NEW size \in Sizes, Fits(size), NEW used \in BOOLEAN,
         NEW n, n = Len(buffers) + 1
  PROVE  LET c == Created(size, used) IN
         /\ GoodPool(c) /\ DOMAIN c.buffers = DOMAIN buffers \cup {n} /\ n \notin DOMAIN buffers
         /\ n \in Nat \ {0}
         /\ \A i \in DOMAIN buffers : /\ c.buffers[i].size = buffers[i].size
                                      /\ c.buffers[i].in_use = buffers[i].in_use
         /\ c.buffers[n].size = size /\ c.buffers[n].in_use = used
<1>b. PICK b : b = Room(size).buffers
  OBVIOUS
<1>l. PICK l : l = Room(size).pool_lists
  OBVIOUS
<1>t. PICK t : t = Room(size).total
  OBVIOUS
<1>e. PICK new : new = [size |-> size, in_use |-> used, present |-> TRUE]
  OBVIOUS
<1>1. /\ b \in Seq(PooledBuffer) /\ l \in [Sizes -> Seq(Nat \ {0})]
      /\ ListsExact(b, l) /\ UsedIn(b) \subseteq PresentIn(b)
      /\ t = Bytes(b, PresentIn(b)) /\ SameUse(buffers, b) /\ (Budget > 0 => t + size <= Budget)
  BY <1>b, <1>l, <1>t, RoomFits DEF GoodPool, Fits
<1>2. n = Len(b) + 1 /\ buffers \in Seq(PooledBuffer)
  <2>1. buffers \in Seq(PooledBuffer)
    BY DEF GoodPool, Pool
  <2>2. DOMAIN b = DOMAIN buffers
    BY <1>1 DEF SameUse
  <2> QED BY <1>1, <2>1, <2>2
<1>3. new \in PooledBuffer
  BY <1>e DEF PooledBuffer
<1>c. PICK c : c = Append(b, new)
  OBVIOUS
<1>4. /\ c \in Seq(PooledBuffer) /\ DOMAIN c = DOMAIN b \cup {n}
      /\ n \notin DOMAIN b /\ n \in Nat \ {0} /\ \A i \in DOMAIN b : c[i] = b[i]
      /\ c[n] = new
  BY <1>1, <1>2, <1>3, <1>c, AppendFits
<1>5. c[n].size = size /\ c[n].in_use = used /\ c[n].present
  BY <1>4, <1>e
<1>6. /\ UsedIn(c) = IF used THEN UsedIn(b) \cup {n} ELSE UsedIn(b)
      /\ PresentIn(c) = PresentIn(b) \cup {n}
      /\ Unused(c) = IF used THEN Unused(b) ELSE Unused(b) \cup {n}
  BY <1>4, <1>5 DEF PresentIn, UsedIn, Unused
<1>7. UsedIn(c) \subseteq PresentIn(c)
  BY <1>1, <1>6
<1>8. t + size = Bytes(c, PresentIn(c))
  <2>1. c[n].size \in Nat
    BY <1>4, BufferSets
  <2>2. Bytes(c, PresentIn(c)) = Bytes(b, PresentIn(b)) + c[n].size
    BY <1>1, <1>4, <1>5, <2>1, BytesAppended, SMTT(30)
  <2> QED BY <1>1, <1>5, <2>2
<1>m. PICK m : m = IF used THEN l ELSE [l EXCEPT ![size] = Append(@, n)]
  OBVIOUS
<1>9. m \in [Sizes -> Seq(Nat \ {0})] /\ ListsExact(c, m)
  <2>1. \A i \in Unused(b) : c[i].size = b[i].size /\ c[i].size \in Sizes
    BY <1>1, <1>4, BufferSets DEF Unused
  <2>2. CASE used
    <3>1. Unused(c) = Unused(b) /\ m = l
      BY <2>2, <1>6, <1>m
    <3> QED BY <1>1, <2>1, <3>1, ListsKept
  <2>3. CASE ~used
    <3>1. Unused(c) = Unused(b) \cup {n} /\ n \notin Unused(b) /\ m = [l EXCEPT ![size] = Append(@, n)]
      BY <2>3, <1>4, <1>6, <1>m DEF Unused
    <3> QED BY <1>1, <1>4, <1>5, <2>1, <3>1, ListsAdded
  <2> QED BY <2>2, <2>3
<1>10. Created(size, used) = [buffers |-> c, pool_lists |-> m, total |-> t + size]
  BY <1>2, <1>b, <1>l, <1>t, <1>e, <1>c, <1>m DEF Created
<1>11. GoodPool(Created(size, used))
  BY <1>1, <1>4, <1>7, <1>8, <1>9, <1>10 DEF GoodPool
<1> QED BY <1>1, <1>4, <1>5, <1>10, <1>11 DEF SameUse

\* One buffer changes hands.
LEMMA UseSet ==
  ASSUME NEW b \in Seq(PooledBuffer), NEW i \in DOMAIN b, NEW e,
         \E v \in BOOLEAN : e = [b[i] EXCEPT !.in_use = v]
  PROVE  LET c == [b EXCEPT ![i] = e] IN
         /\ c \in Seq(PooledBuffer) /\ DOMAIN c = DOMAIN b /\ c[i] = e
         /\ \A k \in DOMAIN b : /\ c[k].size = b[k].size /\ (c[k].present <=> b[k].present)
                                /\ k # i => c[k] = b[k]
<1>1. \A k \in DOMAIN b : b[k] \in PooledBuffer
  OBVIOUS
<1>2. e \in PooledBuffer /\ e.size = b[i].size /\ e.present = b[i].present
  BY <1>1 DEF PooledBuffer
<1>c. PICK c : c = [b EXCEPT ![i] = e]
  OBVIOUS
<1>4. c \in Seq(PooledBuffer) /\ DOMAIN c = DOMAIN b
  BY <1>2, <1>c
<1>5. c[i] = e /\ \A k \in DOMAIN b : k # i => c[k] = b[k]
  BY <1>c
<1> QED BY <1>2, <1>4, <1>5, <1>c

\* The last of a free list is handed over.
LEMMA TakenFits ==
  ASSUME GoodPool(Pool), NEW z \in Sizes, pool_lists[z] # <<>>
  PROVE  LET i == pool_lists[z][Len(pool_lists[z])]
             c == [buffers EXCEPT ![i].in_use = TRUE]
             m == [pool_lists EXCEPT ![z] = SubSeq(@, 1, Len(@) - 1)]
         IN /\ GoodPool([buffers |-> c, pool_lists |-> m, total |-> total_allocated])
            /\ i \in Unused(buffers) /\ DOMAIN c = DOMAIN buffers
            /\ \A k \in DOMAIN buffers : /\ c[k].size = buffers[k].size
                                         /\ (c[k].in_use <=> k = i \/ buffers[k].in_use)
<1>i. PICK i : i = pool_lists[z][Len(pool_lists[z])]
  OBVIOUS
<1>e. PICK e : e = [buffers[i] EXCEPT !.in_use = TRUE]
  OBVIOUS
<1>c. PICK c : c = [buffers EXCEPT ![i] = e]
  OBVIOUS
<1>m. PICK m : m = [pool_lists EXCEPT ![z] = SubSeq(@, 1, Len(@) - 1)]
  OBVIOUS
<1>1. /\ buffers \in Seq(PooledBuffer) /\ pool_lists \in [Sizes -> Seq(Nat \ {0})]
      /\ ListsExact(buffers, pool_lists) /\ UsedIn(buffers) \subseteq PresentIn(buffers)
      /\ total_allocated = Bytes(buffers, PresentIn(buffers)) /\ (Budget > 0 => total_allocated <= Budget)
  BY DEF GoodPool, Pool
<1>2. i \in Unused(buffers)
  <2>1. pool_lists[z] \in Seq(Nat \ {0})
    BY <1>1
  <2>2. Len(pool_lists[z]) \in DOMAIN pool_lists[z]
    BY <2>1
  <2> QED BY <1>1, <2>2, <1>i DEF ListsExact
<1>3. /\ c \in Seq(PooledBuffer) /\ DOMAIN c = DOMAIN buffers
      /\ \A k \in DOMAIN buffers : /\ c[k].size = buffers[k].size /\ (c[k].present <=> buffers[k].present)
                                   /\ (c[k].in_use <=> k = i \/ buffers[k].in_use)
  <2>1. i \in DOMAIN buffers /\ \E v \in BOOLEAN : e = [buffers[i] EXCEPT !.in_use = v]
    BY <1>2, <1>e DEF Unused
  <2>2. /\ c \in Seq(PooledBuffer) /\ DOMAIN c = DOMAIN buffers /\ c[i] = e
        /\ \A k \in DOMAIN buffers : /\ c[k].size = buffers[k].size
                                     /\ (c[k].present <=> buffers[k].present)
                                     /\ k # i => c[k] = buffers[k]
    BY <1>1, <2>1, <1>c, UseSet
  <2>3. e.in_use
    <3>1. buffers[i] \in PooledBuffer
      BY <1>1, <2>1
    <3> QED BY <3>1, <1>e DEF PooledBuffer
  <2> QED BY <2>2, <2>3
<1>4. /\ PresentIn(c) = PresentIn(buffers) /\ Unused(c) = Unused(buffers) \ {i}
      /\ UsedIn(c) = UsedIn(buffers) \cup {i}
  BY <1>2, <1>3 DEF PresentIn, UsedIn, Unused
<1>5. \A k \in Unused(buffers) : c[k].size = buffers[k].size /\ c[k].size \in Sizes
  BY <1>1, <1>3, BufferSets DEF Unused
<1>6. m \in [Sizes -> Seq(Nat \ {0})] /\ ListsExact(c, m)
  BY <1>1, <1>i, <1>m, <1>4, <1>5, ListsTaken, ZenonT(60)
<1>7. total_allocated = Bytes(c, PresentIn(c))
  <2>1. \A k \in PresentIn(buffers) : c[k].size = buffers[k].size
    BY <1>3 DEF PresentIn
  <2> QED BY <1>1, <1>4, <2>1, BytesSame
<1>8. UsedIn(c) \subseteq PresentIn(c)
  BY <1>1, <1>2, <1>4 DEF Unused, PresentIn
<1>9. GoodPool([buffers |-> c, pool_lists |-> m, total |-> total_allocated])
  BY <1>1, <1>3, <1>6, <1>7, <1>8 DEF GoodPool
<1> QED BY <1>2, <1>3, <1>9, <1>i, <1>e, <1>c, <1>m

\* A buffer in use becomes free.
LEMMA GivenBackFits ==
  ASSUME GoodPool(Pool), NEW i \in DOMAIN buffers, buffers[i].in_use
  PROVE  LET c == [buffers EXCEPT ![i].in_use = FALSE]
             m == [pool_lists EXCEPT ![buffers[i].size] = Append(@, i)]
         IN /\ GoodPool([buffers |-> c, pool_lists |-> m, total |-> total_allocated])
            /\ DOMAIN c = DOMAIN buffers
            /\ \A k \in DOMAIN buffers : /\ c[k].size = buffers[k].size
                                         /\ (c[k].in_use <=> k # i /\ buffers[k].in_use)
<1>e. PICK e : e = [buffers[i] EXCEPT !.in_use = FALSE]
  OBVIOUS
<1>c. PICK c : c = [buffers EXCEPT ![i] = e]
  OBVIOUS
<1>m. PICK m : m = [pool_lists EXCEPT ![buffers[i].size] = Append(@, i)]
  OBVIOUS
<1>1. /\ buffers \in Seq(PooledBuffer) /\ pool_lists \in [Sizes -> Seq(Nat \ {0})]
      /\ ListsExact(buffers, pool_lists) /\ UsedIn(buffers) \subseteq PresentIn(buffers)
      /\ total_allocated = Bytes(buffers, PresentIn(buffers)) /\ (Budget > 0 => total_allocated <= Budget)
  BY DEF GoodPool, Pool
<1>2. /\ c \in Seq(PooledBuffer) /\ DOMAIN c = DOMAIN buffers
      /\ \A k \in DOMAIN buffers : /\ c[k].size = buffers[k].size /\ (c[k].present <=> buffers[k].present)
                                   /\ (c[k].in_use <=> k # i /\ buffers[k].in_use)
  <2>1. \E v \in BOOLEAN : e = [buffers[i] EXCEPT !.in_use = v]
    BY <1>e
  <2>2. /\ c \in Seq(PooledBuffer) /\ DOMAIN c = DOMAIN buffers /\ c[i] = e
        /\ \A k \in DOMAIN buffers : /\ c[k].size = buffers[k].size
                                     /\ (c[k].present <=> buffers[k].present)
                                     /\ k # i => c[k] = buffers[k]
    BY <1>1, <2>1, <1>c, UseSet
  <2>3. ~e.in_use
    BY <1>1, <1>e DEF PooledBuffer
  <2> QED BY <2>2, <2>3
<1>3. i \in Nat \ {0} /\ buffers[i].present /\ c[i].size = buffers[i].size
  <2>1. i \in UsedIn(buffers)
    BY DEF UsedIn
  <2>2. i \in PresentIn(buffers)
    BY <1>1, <2>1
  <2> QED BY <1>1, <1>2, <2>2 DEF PresentIn
<1>4. /\ PresentIn(c) = PresentIn(buffers) /\ Unused(c) = Unused(buffers) \cup {i}
      /\ UsedIn(c) \subseteq UsedIn(buffers) /\ i \notin Unused(buffers)
  BY <1>2, <1>3 DEF PresentIn, UsedIn, Unused
<1>5. /\ \A k \in Unused(buffers) : c[k].size = buffers[k].size /\ c[k].size \in Sizes
      /\ c[i].size \in Sizes
  BY <1>1, <1>2, BufferSets DEF Unused
<1>6. m \in [Sizes -> Seq(Nat \ {0})] /\ ListsExact(c, m)
  <2>1. m = [pool_lists EXCEPT ![c[i].size] = Append(@, i)]
    BY <1>3, <1>m
  <2> QED BY <1>1, <1>3, <1>4, <1>5, <2>1, ListsAdded
<1>7. total_allocated = Bytes(c, PresentIn(c))
  <2>1. \A k \in PresentIn(buffers) : c[k].size = buffers[k].size
    BY <1>2 DEF PresentIn
  <2> QED BY <1>1, <1>4, <2>1, BytesSame
<1>8. GoodPool([buffers |-> c, pool_lists |-> m, total |-> total_allocated])
  BY <1>1, <1>2, <1>4, <1>6, <1>7 DEF GoodPool
<1> QED BY <1>2, <1>8, <1>e, <1>c, <1>m

\* A list that holds the elements of a set, once each.
OnceEach(q, A) ==
  /\ \A j \in DOMAIN q : q[j] \in A
  /\ \A j, k \in DOMAIN q : q[j] = q[k] => j = k
  /\ \A i \in A : \E j \in DOMAIN q : q[j] = i

LEMMA JoinedFits ==
  ASSUME NEW S, NEW q \in Seq(S), NEW r \in Seq(S), NEW A, NEW B, A \cap B = {},
         OnceEach(q, A), OnceEach(r, B)
  PROVE  q \o r \in Seq(S) /\ OnceEach(q \o r, A \cup B)
<1>w. PICK w : w = q \o r
  OBVIOUS
<1>n. PICK n \in Nat : n = Len(q)
  OBVIOUS
<1>1. /\ w \in Seq(S)
      /\ \A j \in DOMAIN q : j \in DOMAIN w /\ w[j] = q[j]
      /\ \A t \in DOMAIN r : n + t \in DOMAIN w /\ w[n + t] = r[t]
      /\ \A j \in DOMAIN w : j \in DOMAIN q \/ j - n \in DOMAIN r
      /\ \A j \in DOMAIN w : j \in Nat
  BY <1>w, <1>n
<1>2. /\ \A j \in DOMAIN w : j - n \in DOMAIN r => w[j] = r[j - n]
  <2> SUFFICES ASSUME NEW j \in DOMAIN w, j - n \in DOMAIN r PROVE w[j] = r[j - n]
    OBVIOUS
  <2>1. n + (j - n) = j
    BY <1>1
  <2> QED BY <1>1, <2>1
<1>3. /\ \A j \in DOMAIN q : q[j] \in A
      /\ \A j, k \in DOMAIN q : q[j] = q[k] => j = k
      /\ \A i \in A : \E j \in DOMAIN q : q[j] = i
      /\ \A j \in DOMAIN r : r[j] \in B
      /\ \A j, k \in DOMAIN r : r[j] = r[k] => j = k
      /\ \A i \in B : \E j \in DOMAIN r : r[j] = i
  BY DEF OnceEach
<1>4. \A j \in DOMAIN w : w[j] \in A \cup B
  BY <1>1, <1>2, <1>3
<1>5. ASSUME NEW j \in DOMAIN w, NEW k \in DOMAIN w, w[j] = w[k] PROVE j = k
  <2>1. CASE j \in DOMAIN q /\ k \in DOMAIN q
    BY <1>1, <1>3, <1>5, <2>1
  <2>2. CASE j - n \in DOMAIN r /\ k - n \in DOMAIN r
    <3>1. j - n = k - n
      BY <1>2, <1>3, <1>5, <2>2
    <3> QED BY <1>1, <3>1
  <2>3. CASE j \in DOMAIN q /\ k - n \in DOMAIN r
    <3>1. w[j] \in A /\ w[k] \in B
      BY <1>1, <1>2, <1>3, <2>3
    <3> QED BY <1>5, <3>1
  <2>4. CASE j - n \in DOMAIN r /\ k \in DOMAIN q
    <3>1. w[j] \in B /\ w[k] \in A
      BY <1>1, <1>2, <1>3, <2>4
    <3> QED BY <1>5, <3>1
  <2> QED BY <1>1, <2>1, <2>2, <2>3, <2>4
<1>6. ASSUME NEW i \in A \cup B PROVE \E j \in DOMAIN w : w[j] = i
  BY <1>1, <1>3
<1> QED BY <1>1, <1>4, <1>5, <1>6, <1>w DEF OnceEach

\* All buffers in use become free: each list is followed by the numbers of its size.
LEMMA ReleasedFits ==
  ASSUME GoodPool(Pool)
  PROVE  LET c == [i \in DOMAIN buffers |-> [buffers[i] EXCEPT !.in_use = FALSE]]
             m == [s \in Sizes |-> pool_lists[s] \o UsedOf(s)]
         IN /\ GoodPool([buffers |-> c, pool_lists |-> m, total |-> total_allocated])
            /\ DOMAIN c = DOMAIN buffers
            /\ \A i \in DOMAIN buffers : c[i].size = buffers[i].size /\ ~c[i].in_use
<1>1. /\ buffers \in Seq(PooledBuffer) /\ pool_lists \in [Sizes -> Seq(Nat \ {0})]
      /\ ListsExact(buffers, pool_lists) /\ UsedIn(buffers) \subseteq PresentIn(buffers)
      /\ total_allocated = Bytes(buffers, PresentIn(buffers)) /\ (Budget > 0 => total_allocated <= Budget)
  BY DEF GoodPool, Pool
<1>c. PICK c : c = [i \in DOMAIN buffers |-> [buffers[i] EXCEPT !.in_use = FALSE]]
  OBVIOUS
<1>m. PICK m : m = [s \in Sizes |-> pool_lists[s] \o UsedOf(s)]
  OBVIOUS
<1>2. ASSUME NEW i \in DOMAIN buffers
      PROVE  /\ c[i] \in PooledBuffer /\ c[i].size = buffers[i].size /\ ~c[i].in_use
             /\ (c[i].present <=> buffers[i].present)
  <2>1. buffers[i] \in PooledBuffer
    BY <1>1
  <2>2. c[i] = [buffers[i] EXCEPT !.in_use = FALSE]
    BY <1>c
  <2> QED BY <2>1, <2>2 DEF PooledBuffer
<1>3. DOMAIN c = DOMAIN buffers /\ c \in Seq(PooledBuffer)
  <2>1. DOMAIN c = 1 .. Len(buffers) /\ DOMAIN buffers = 1 .. Len(buffers) /\ Len(buffers) \in Nat
    BY <1>1, <1>c
  <2>2. c = [i \in 1 .. Len(buffers) |-> c[i]]
    BY <2>1, <1>c
  <2>3. \A i \in 1 .. Len(buffers) : c[i] \in PooledBuffer
    BY <1>2, <2>1
  <2>4. c \in [1 .. Len(buffers) -> PooledBuffer]
    BY <2>2, <2>3
  <2> QED BY <2>1, <2>4
<1>4. /\ UsedIn(c) = {} /\ PresentIn(c) = PresentIn(buffers)
      /\ Unused(c) = Unused(buffers) \cup UsedIn(buffers) /\ Unused(buffers) \cap UsedIn(buffers) = {}
  <2>1. UsedIn(c) = {} /\ PresentIn(c) = PresentIn(buffers) /\ Unused(c) = PresentIn(buffers)
    BY <1>2, <1>3 DEF UsedIn, PresentIn, Unused
  <2>2. PresentIn(buffers) = Unused(buffers) \cup UsedIn(buffers)
    BY <1>1 DEF UsedIn, PresentIn, Unused
  <2>3. Unused(buffers) \cap UsedIn(buffers) = {}
    BY DEF UsedIn, Unused
  <2> QED BY <2>1, <2>2, <2>3
<1>5. ASSUME NEW s \in Sizes
      PROVE  m[s] \in Seq(Nat \ {0}) /\ OnceEach(m[s], {i \in Unused(c) : c[i].size = s})
  <2> DEFINE A == {i \in Unused(buffers) : buffers[i].size = s}
             B == {i \in UsedIn(buffers) : buffers[i].size = s}
  <2>1. /\ B \in SUBSET Nat /\ B \subseteq Nat \ {0} /\ B \subseteq DOMAIN buffers
    <3>1. DOMAIN buffers = 1 .. Len(buffers) /\ Len(buffers) \in Nat
      BY <1>1
    <3> QED BY <3>1 DEF UsedIn
  <2>2. IsFiniteSet(B) /\ A \cap B = {}
    <3>1. IsFiniteSet(B)
      BY <1>1, <2>1, BufferSets
    <3> QED BY <1>4, <3>1
  <2>3. A \cup B = {i \in Unused(c) : c[i].size = s}
    BY <1>2, <1>4 DEF Unused, UsedIn
  <2>4. pool_lists[s] \in Seq(Nat \ {0}) /\ OnceEach(pool_lists[s], A)
    <3>1. \A j \in DOMAIN pool_lists[s] : pool_lists[s][j] \in A
      BY <1>1 DEF ListsExact
    <3>2. \A j, k \in DOMAIN pool_lists[s] : pool_lists[s][j] = pool_lists[s][k] => j = k
      BY <1>1 DEF ListsExact
    <3>3. \A i \in A : \E j \in DOMAIN pool_lists[s] : pool_lists[s][j] = i
      BY <1>1 DEF ListsExact
    <3> HIDE DEF A
    <3> QED BY <1>1, <3>1, <3>2, <3>3 DEF OnceEach
  <2>5. UsedOf(s) = InOrder(B)
    BY DEF UsedOf, InUse, UsedIn
  <2> HIDE DEF A, B
  <2>6. UsedOf(s) \in Seq(Nat \ {0}) /\ OnceEach(UsedOf(s), B)
    <3>q. PICK q : q = InOrder(B)
      OBVIOUS
    <3>n. PICK n \in Nat : n = Cardinality(B)
      BY <2>1, <2>2, InOrderFits
    <3>1. /\ q \in [1 .. n -> B] /\ \A r, t \in 1 .. n : q[r] = q[t] => r = t
          /\ \A i \in B : \E r \in 1 .. n : q[r] = i
      BY <2>1, <2>2, <3>q, <3>n, InOrderFits
    <3>2. DOMAIN q = 1 .. n /\ q \in [1 .. n -> Nat \ {0}]
      BY <2>1, <3>1
    <3>3. q \in Seq(Nat \ {0}) /\ OnceEach(q, B)
      BY <3>1, <3>2 DEF OnceEach
    <3> QED BY <2>5, <3>q, <3>3
  <2>7. m[s] = pool_lists[s] \o UsedOf(s)
    BY <1>m
  <2>8. m[s] \in Seq(Nat \ {0}) /\ OnceEach(m[s], A \cup B)
    BY <2>2, <2>4, <2>6, <2>7, JoinedFits
  <2> QED BY <2>3, <2>8
<1>6. m \in [Sizes -> Seq(Nat \ {0})]
  BY <1>5, <1>m
<1>7. ListsExact(c, m)
  <2>1. \A i \in Unused(c) : c[i].size \in Sizes
    BY <1>3, BufferSets DEF Unused
  <2>2. ASSUME NEW s \in Sizes, NEW j \in DOMAIN m[s]
        PROVE  /\ m[s][j] \in Unused(c) /\ c[m[s][j]].size = s
               /\ \A k \in DOMAIN m[s] : m[s][j] = m[s][k] => j = k
    BY <1>5 DEF OnceEach
  <2>3. ASSUME NEW i \in Unused(c) PROVE \E j \in DOMAIN m[c[i].size] : m[c[i].size][j] = i
    BY <1>5, <2>1 DEF OnceEach
  <2> QED BY <2>2, <2>3 DEF ListsExact
<1>8. total_allocated = Bytes(c, PresentIn(c))
  <2>1. \A k \in PresentIn(buffers) : c[k].size = buffers[k].size
    BY <1>2 DEF PresentIn
  <2> QED BY <1>1, <1>4, <2>1, BytesSame
<1>9. GoodPool([buffers |-> c, pool_lists |-> m, total |-> total_allocated])
  BY <1>1, <1>3, <1>4, <1>6, <1>7, <1>8 DEF GoodPool
<1> QED BY <1>2, <1>3, <1>9, <1>c, <1>m

-------------------------------------------------------------------------------
(* The inductive invariant                                                     *)

PoolInv ==
  /\ PoolTypeOK /\ GoodPool(Pool)
  /\ total_in_use = Bytes(buffers, UsedIn(buffers))
  /\ HandlesExclusive

LEMMA AllocSizeFits ==
  ASSUME size_classes \subseteq Sizes, NEW size \in Requests
  PROVE  AllocSize(size) \in Sizes
<1>1. size \in Sizes
  BY DEF Sizes
<1>2. CASE Pooled(size)
  <2>1. ClassesFor(size) # {} /\ ClassesFor(size) \subseteq Sizes
    BY <1>2 DEF Pooled, ClassesFor
  <2> QED BY <1>2, <2>1 DEF AllocSize
<1> QED BY <1>1, <1>2 DEF AllocSize

\* A step that leaves those alone who hold a buffer.
LEMMA BystanderStep ==
  ASSUME PoolInv, GoodPool(Pool)', DOMAIN buffers \subseteq DOMAIN buffers',
         \A i \in DOMAIN buffers : /\ buffers'[i].size = buffers[i].size
                                   /\ (buffers'[i].in_use <=> buffers[i].in_use),
         \A i \in DOMAIN buffers' \ DOMAIN buffers : ~buffers'[i].in_use,
         size_classes' \subseteq Sizes, todo' \in Seq(Sizes), configuring' \in BOOLEAN,
         acquires' \in Nat, acquires' >= acquires, UNCHANGED <<total_in_use, handleVars>>
  PROVE  PoolInv'
<1>1. /\ buffers \in Seq(PooledBuffer) /\ buffers' \in Seq(PooledBuffer)
      /\ pool_lists' \in [Sizes -> Seq(Nat \ {0})]
      /\ UsedIn(buffers') \subseteq PresentIn(buffers')
  BY DEF GoodPool, Pool, PoolInv
<1>2. UsedIn(buffers') = UsedIn(buffers)
  BY DEF UsedIn
<1>3. Bytes(buffers', UsedIn(buffers')) = Bytes(buffers, UsedIn(buffers))
  <2>1. \A i \in UsedIn(buffers) : buffers'[i].size = buffers[i].size
    BY DEF UsedIn
  <2> QED BY <1>2, <2>1, BytesSame
<1>4. held' = held /\ past' = past /\ misused' = misused /\ total_in_use' = total_in_use
  BY DEF handleVars
<1>5. PoolTypeOK'
  <2>1. 1 .. Len(buffers) \subseteq 1 .. Len(buffers')
    <3>1. DOMAIN buffers = 1 .. Len(buffers) /\ DOMAIN buffers' = 1 .. Len(buffers')
      BY <1>1
    <3> QED BY <3>1
  <2>2. \A h \in held \cup past : h[2] <= acquires'
    <3>1. \A h \in held \cup past : h[2] \in Nat /\ h[2] <= acquires
      BY DEF PoolInv, PoolTypeOK
    <3> QED BY <3>1 DEF PoolInv, PoolTypeOK
  <2> QED BY <1>1, <1>4, <2>1, <2>2 DEF PoolInv, PoolTypeOK
<1>6. HandlesExclusive'
  <2> SUFFICES ASSUME ~misused
               PROVE  /\ \A g, h \in held : g[1] = h[1] => g = h
                      /\ \A i \in DOMAIN buffers' :
                           buffers'[i].in_use <=> \E h \in held : h[1] = i
                      /\ \A h \in held : buffers'[h[1]].present
    BY <1>4 DEF HandlesExclusive
  <2>1. /\ \A g, h \in held : g[1] = h[1] => g = h
        /\ \A i \in DOMAIN buffers : buffers[i].in_use <=> \E h \in held : h[1] = i
    BY DEF PoolInv, HandlesExclusive
  <2>2. \A h \in held : h[1] \in DOMAIN buffers
    BY <1>1 DEF PoolInv, PoolTypeOK
  <2>3. \A i \in DOMAIN buffers' : buffers'[i].in_use <=> \E h \in held : h[1] = i
    BY <2>1, <2>2
  <2>4. \A h \in held : h[1] \in UsedIn(buffers')
    BY <2>2, <2>3 DEF UsedIn
  <2> QED BY <1>1, <2>1, <2>3, <2>4 DEF PresentIn
<1> QED BY <1>3, <1>4, <1>5, <1>6 DEF PoolInv

LEMMA Indices == \A b \in Seq(PooledBuffer) : DOMAIN b = 1 .. Len(b)
OBVIOUS

\* A buffer nobody uses is handed over.
LEMMA HandOverStep ==
  ASSUME PoolInv, GoodPool(Pool)', NEW i \in Nat \ {0}, i \notin UsedIn(buffers),
         DOMAIN buffers' = DOMAIN buffers \cup {i},
         \A k \in DOMAIN buffers : /\ buffers'[k].size = buffers[k].size
                                   /\ k # i => (buffers'[k].in_use <=> buffers[k].in_use),
         buffers'[i].in_use, HandOver(i)
  PROVE  PoolInv'
<1>1. /\ buffers \in Seq(PooledBuffer) /\ buffers' \in Seq(PooledBuffer)
      /\ pool_lists' \in [Sizes -> Seq(Nat \ {0})]
      /\ UsedIn(buffers') \subseteq PresentIn(buffers')
  BY DEF GoodPool, Pool, PoolInv
<1>2. UsedIn(buffers') = UsedIn(buffers) \cup {i}
  BY DEF UsedIn
<1>3. /\ held' = held \cup {<<i, acquires + 1>>} /\ past' = past /\ misused' = misused
      /\ total_in_use' = total_in_use + buffers'[i].size /\ acquires' = acquires + 1
      /\ size_classes' = size_classes /\ todo' = todo /\ configuring' = configuring
  BY DEF HandOver, cfgVars
<1>4. total_in_use' = Bytes(buffers', UsedIn(buffers'))
  <2>1. /\ IsFiniteSet(UsedIn(buffers))
        /\ \A k \in UsedIn(buffers) : buffers'[k].size = buffers[k].size
        /\ \A k \in UsedIn(buffers) \cup {i} : buffers'[k].size \in Nat
    <3>1. IsFiniteSet(UsedIn(buffers))
      BY <1>1, BufferSets DEF UsedIn
    <3>2. \A k \in UsedIn(buffers) : buffers'[k].size = buffers[k].size
      BY DEF UsedIn
    <3>3. \A k \in UsedIn(buffers) \cup {i} : k \in DOMAIN buffers'
      BY DEF UsedIn
    <3> QED BY <1>1, <3>1, <3>2, <3>3, BufferSets
  <2>2. Bytes(buffers', UsedIn(buffers) \cup {i}) = Bytes(buffers', UsedIn(buffers)) + buffers'[i].size
    BY <2>1, BytesAdd
  <2>3. Bytes(buffers', UsedIn(buffers)) = Bytes(buffers, UsedIn(buffers))
    BY <2>1, BytesSame
  <2> QED BY <1>2, <1>3, <2>2, <2>3 DEF PoolInv
<1>5. \A h \in held : h[1] \in DOMAIN buffers
  BY <1>1 DEF PoolInv, PoolTypeOK
<1>6. PoolTypeOK'
  <2>1. DOMAIN buffers = 1 .. Len(buffers) /\ DOMAIN buffers' = 1 .. Len(buffers')
    BY <1>1, Indices
  <2>2. acquires \in Nat /\ \A h \in held \cup past : h[2] \in Nat /\ h[2] <= acquires
    BY DEF PoolInv, PoolTypeOK
  <2>3. \A h \in held' \cup past' : h[2] <= acquires'
    BY <1>3, <2>2
  <2>4. held \subseteq (1 .. Len(buffers')) \X Nat /\ past \subseteq (1 .. Len(buffers')) \X Nat
    BY <2>1 DEF PoolInv, PoolTypeOK
  <2>5. <<i, acquires + 1>> \in (1 .. Len(buffers')) \X Nat
    BY <2>1, <2>2
  <2> QED BY <1>1, <1>3, <2>2, <2>3, <2>4, <2>5 DEF PoolInv, PoolTypeOK
<1>7. HandlesExclusive'
  <2> SUFFICES ASSUME ~misused
               PROVE  /\ \A g, h \in held' : g[1] = h[1] => g = h
                      /\ \A k \in DOMAIN buffers' :
                           buffers'[k].in_use <=> \E h \in held' : h[1] = k
                      /\ \A h \in held' : buffers'[h[1]].present
    BY <1>3 DEF HandlesExclusive
  <2>1. /\ \A g, h \in held : g[1] = h[1] => g = h
        /\ \A k \in DOMAIN buffers : buffers[k].in_use <=> \E h \in held : h[1] = k
    BY DEF PoolInv, HandlesExclusive
  <2>2. \A h \in held : h[1] # i
    BY <1>5, <2>1 DEF UsedIn
  <2>3. <<i, acquires + 1>>[1] = i
    OBVIOUS
  <2>4. \A g, h \in held' : g[1] = h[1] => g = h
    BY <1>3, <2>1, <2>2, <2>3
  <2>5. \A k \in DOMAIN buffers' : buffers'[k].in_use <=> \E h \in held' : h[1] = k
    <3> SUFFICES ASSUME NEW k \in DOMAIN buffers'
                 PROVE  buffers'[k].in_use <=> \E h \in held' : h[1] = k
      OBVIOUS
    <3>1. CASE k = i
      BY <3>1, <1>3, <2>3
    <3>2. CASE k # i
      BY <3>2, <1>3, <2>1, <2>3
    <3> QED BY <3>1, <3>2
  <2>6. \A h \in held' : h[1] \in UsedIn(buffers')
    BY <1>2, <1>3, <1>5, <2>1, <2>3 DEF UsedIn
  <2> QED BY <1>1, <2>4, <2>5, <2>6 DEF PresentIn
<1> QED BY <1>4, <1>6, <1>7 DEF PoolInv

\* A buffer in use is given back.
LEMMA GiveBackStep ==
  ASSUME PoolInv, NEW i \in DOMAIN buffers, GiveBack(i)
  PROVE  /\ GoodPool(Pool)' /\ DOMAIN buffers' = DOMAIN buffers
         /\ \A k \in DOMAIN buffers : buffers'[k].in_use <=> k # i /\ buffers[k].in_use
         /\ total_in_use' = Bytes(buffers', UsedIn(buffers'))
<1>1. /\ buffers \in Seq(PooledBuffer) /\ buffers[i].in_use
      /\ total_in_use = Bytes(buffers, UsedIn(buffers))
  BY DEF GoodPool, Pool, PoolInv, GiveBack
<1>2. /\ GoodPool([buffers |-> buffers', pool_lists |-> pool_lists', total |-> total_allocated'])
      /\ DOMAIN buffers' = DOMAIN buffers
      /\ \A k \in DOMAIN buffers : /\ buffers'[k].size = buffers[k].size
                                   /\ (buffers'[k].in_use <=> k # i /\ buffers[k].in_use)
  BY <1>1, GivenBackFits DEF PoolInv, GiveBack
<1>3. GoodPool(Pool)'
  BY <1>2 DEF Pool, GoodPool
<1>4. total_in_use' = Bytes(buffers', UsedIn(buffers'))
  <2>1. /\ UsedIn(buffers) = UsedIn(buffers') \cup {i} /\ i \notin UsedIn(buffers')
    BY <1>1, <1>2 DEF UsedIn
  <2>2. /\ IsFiniteSet(UsedIn(buffers'))
        /\ \A k \in UsedIn(buffers') \cup {i} : buffers[k].size \in Nat
        /\ Bytes(buffers, UsedIn(buffers')) \in Nat
    <3>1. UsedIn(buffers') \cup {i} \subseteq DOMAIN buffers
      BY <1>2 DEF UsedIn
    <3> QED BY <1>1, <3>1, BufferSets
  <2>3. Bytes(buffers, UsedIn(buffers)) = Bytes(buffers, UsedIn(buffers')) + buffers[i].size
    BY <2>1, <2>2, BytesAdd
  <2>4. Bytes(buffers', UsedIn(buffers')) = Bytes(buffers, UsedIn(buffers'))
    <3>1. \A k \in UsedIn(buffers') : buffers'[k].size = buffers[k].size
      BY <1>2 DEF UsedIn
    <3> QED BY <3>1, BytesSame
  <2>5. total_in_use' = total_in_use - buffers[i].size
    BY DEF GiveBack
  <2> QED BY <1>1, <2>2, <2>3, <2>4, <2>5
<1> QED BY <1>2, <1>3, <1>4

\* Handles that remain, or are over, keep their type.
LEMMA HandlesTyped ==
  ASSUME PoolInv, GoodPool(Pool)', DOMAIN buffers' = DOMAIN buffers,
         held' \cup past' \subseteq held \cup past, misused' \in BOOLEAN,
         UNCHANGED <<cfgVars, acquires>>
  PROVE  PoolTypeOK'
<1>1. /\ buffers \in Seq(PooledBuffer) /\ buffers' \in Seq(PooledBuffer)
      /\ pool_lists' \in [Sizes -> Seq(Nat \ {0})]
  BY DEF GoodPool, Pool, PoolInv
<1>2. 1 .. Len(buffers') = 1 .. Len(buffers)
  BY <1>1
<1>3. /\ size_classes' = size_classes /\ todo' = todo /\ configuring' = configuring
      /\ acquires' = acquires
  BY DEF cfgVars
<1>4. /\ held \cup past \subseteq (1 .. Len(buffers')) \X Nat
      /\ \A h \in held \cup past : h[2] <= acquires
  BY <1>2 DEF PoolInv, PoolTypeOK
<1>5. /\ held' \subseteq (1 .. Len(buffers')) \X Nat /\ past' \subseteq (1 .. Len(buffers')) \X Nat
      /\ \A h \in held' \cup past' : h[2] <= acquires'
  BY <1>3, <1>4
<1> QED BY <1>1, <1>3, <1>5 DEF PoolInv, PoolTypeOK

LEMMA ReleaseStep ==
  ASSUME PoolInv, NEW h \in held, Release(h) PROVE PoolInv'
<1>1. /\ GiveBack(h[1]) /\ held' = held \ {h} /\ past' = past \cup {h} /\ misused' = misused
  BY DEF Release
<1>2. /\ h[1] \in DOMAIN buffers /\ \A g \in held : g[1] \in DOMAIN buffers
  <2>1. buffers \in Seq(PooledBuffer)
    BY DEF PoolInv, PoolTypeOK
  <2> QED BY <2>1 DEF PoolInv, PoolTypeOK
<1>3. /\ GoodPool(Pool)' /\ DOMAIN buffers' = DOMAIN buffers
      /\ \A k \in DOMAIN buffers : buffers'[k].in_use <=> k # h[1] /\ buffers[k].in_use
      /\ total_in_use' = Bytes(buffers', UsedIn(buffers'))
  BY <1>1, <1>2, GiveBackStep
<1>4. PoolTypeOK'
  <2>1. held' \cup past' \subseteq held \cup past /\ misused' \in BOOLEAN
    BY <1>1 DEF PoolInv, PoolTypeOK
  <2>2. UNCHANGED <<cfgVars, acquires>>
    BY <1>1 DEF GiveBack
  <2> QED BY <1>3, <2>1, <2>2, HandlesTyped
<1>5. HandlesExclusive'
  <2> SUFFICES ASSUME ~misused
               PROVE  /\ \A g, k \in held' : g[1] = k[1] => g = k
                      /\ \A i \in DOMAIN buffers' :
                           buffers'[i].in_use <=> \E g \in held' : g[1] = i
                      /\ \A g \in held' : buffers'[g[1]].present
    BY <1>1 DEF HandlesExclusive
  <2>1. /\ \A g, k \in held : g[1] = k[1] => g = k
        /\ \A i \in DOMAIN buffers : buffers[i].in_use <=> \E g \in held : g[1] = i
    BY DEF PoolInv, HandlesExclusive
  <2>2. \A i \in DOMAIN buffers' : buffers'[i].in_use <=> \E g \in held' : g[1] = i
    BY <1>1, <1>3, <2>1
  <2>3. \A g \in held' : g[1] \in UsedIn(buffers')
    BY <1>1, <1>2, <1>3, <2>2 DEF UsedIn
  <2>4. UsedIn(buffers') \subseteq PresentIn(buffers')
    BY <1>3 DEF GoodPool, Pool
  <2> QED BY <1>1, <2>1, <2>2, <2>3, <2>4 DEF PresentIn
<1> QED BY <1>3, <1>4, <1>5 DEF PoolInv

LEMMA ReleaseStaleStep ==
  ASSUME PoolInv, NEW h \in past, ReleaseStale(h) PROVE PoolInv'
<1>1. /\ GiveBack(h[1]) /\ held' = held /\ past' = past /\ misused' = TRUE
  BY DEF ReleaseStale
<1>2. h[1] \in DOMAIN buffers
  <2>1. buffers \in Seq(PooledBuffer)
    BY DEF PoolInv, PoolTypeOK
  <2> QED BY <2>1 DEF PoolInv, PoolTypeOK
<1>3. /\ GoodPool(Pool)' /\ DOMAIN buffers' = DOMAIN buffers
      /\ total_in_use' = Bytes(buffers', UsedIn(buffers'))
  BY <1>1, <1>2, GiveBackStep
<1>4. PoolTypeOK'
  <2>1. UNCHANGED <<cfgVars, acquires>>
    BY <1>1 DEF GiveBack
  <2> QED BY <1>1, <1>3, <2>1, HandlesTyped
<1>5. HandlesExclusive'
  BY <1>1 DEF HandlesExclusive
<1> QED BY <1>3, <1>4, <1>5 DEF PoolInv

\* Whose handle is still its own, its buffer is in use: the exception is for others.
LEMMA ReleaseThrowsStep ==
  ASSUME PoolInv, NEW h \in held, ReleaseThrows(h) PROVE PoolInv'
<1>1. /\ ~buffers[h[1]].in_use /\ held' = held \ {h} /\ past' = past \cup {h}
      /\ UNCHANGED <<poolVars, total_in_use, cfgVars, misused, acquires>>
  BY DEF ReleaseThrows
<1>2. /\ buffers' = buffers /\ pool_lists' = pool_lists /\ total_allocated' = total_allocated
      /\ total_in_use' = total_in_use /\ misused' = misused
  BY <1>1 DEF poolVars
<1>3. GoodPool(Pool)' /\ total_in_use' = Bytes(buffers', UsedIn(buffers'))
  BY <1>2 DEF PoolInv, GoodPool, Pool
<1>4. PoolTypeOK'
  <2>1. held' \cup past' \subseteq held \cup past /\ misused' \in BOOLEAN
    BY <1>1, <1>2 DEF PoolInv, PoolTypeOK
  <2> QED BY <1>1, <1>2, <1>3, <2>1, HandlesTyped
<1>5. misused
  <2> SUFFICES ASSUME ~misused PROVE FALSE
    OBVIOUS
  <2>1. h[1] \in DOMAIN buffers
    <3>1. buffers \in Seq(PooledBuffer)
      BY DEF PoolInv, PoolTypeOK
    <3> QED BY <3>1 DEF PoolInv, PoolTypeOK
  <2> QED BY <1>1, <2>1 DEF PoolInv, HandlesExclusive
<1>6. HandlesExclusive'
  BY <1>2, <1>5 DEF HandlesExclusive
<1> QED BY <1>3, <1>4, <1>6 DEF PoolInv

LEMMA ReleaseAllStep ==
  ASSUME PoolInv, ReleaseAll PROVE PoolInv'
<1>1. /\ held' = {} /\ past' = past \cup held /\ misused' = misused /\ total_in_use' = 0
      /\ UNCHANGED <<cfgVars, acquires>>
  BY DEF ReleaseAll
<1>2. /\ GoodPool([buffers |-> buffers', pool_lists |-> pool_lists', total |-> total_allocated'])
      /\ DOMAIN buffers' = DOMAIN buffers
      /\ \A i \in DOMAIN buffers : ~buffers'[i].in_use
  BY ReleasedFits DEF PoolInv, ReleaseAll
<1>3. GoodPool(Pool)'
  BY <1>2 DEF Pool, GoodPool
<1>4. PoolTypeOK'
  <2>1. held' \cup past' \subseteq held \cup past /\ misused' \in BOOLEAN
    BY <1>1 DEF PoolInv, PoolTypeOK
  <2> QED BY <1>1, <1>2, <1>3, <2>1, HandlesTyped
<1>5. UsedIn(buffers') = {} /\ total_in_use' = Bytes(buffers', UsedIn(buffers'))
  <2>1. UsedIn(buffers') = {}
    BY <1>2 DEF UsedIn
  <2> QED BY <1>1, <2>1, BytesNone
<1>6. HandlesExclusive'
  BY <1>1, <1>2 DEF HandlesExclusive
<1> QED BY <1>3, <1>4, <1>5, <1>6 DEF PoolInv

LEMMA PoolInitial == PoolInit => PoolInv
<1> SUFFICES ASSUME PoolInit PROVE PoolInv
  OBVIOUS
<1>1. /\ buffers = <<>> /\ pool_lists = [s \in Sizes |-> <<>>]
      /\ size_classes = StandardSizes /\ todo = <<>> /\ configuring = FALSE
      /\ total_allocated = 0 /\ total_in_use = 0
      /\ held = {} /\ past = {} /\ misused = FALSE /\ acquires = 0
  BY DEF PoolInit
<1>2. /\ buffers \in Seq(PooledBuffer) /\ DOMAIN buffers = {} /\ todo \in Seq(Sizes)
      /\ pool_lists \in [Sizes -> Seq(Nat \ {0})] /\ \A s \in Sizes : DOMAIN pool_lists[s] = {}
  BY <1>1
<1>3. UsedIn(buffers) = {} /\ PresentIn(buffers) = {} /\ Unused(buffers) = {}
  BY <1>2 DEF UsedIn, PresentIn, Unused
<1>4. ListsExact(buffers, pool_lists)
  BY <1>2, <1>3 DEF ListsExact
<1>5. GoodPool(Pool)
  <2>1. total_allocated = Bytes(buffers, PresentIn(buffers)) /\ (Budget > 0 => total_allocated <= Budget)
    <3>1. Bytes(buffers, {}) = 0
      BY BytesNone
    <3>2. Budget \in Nat
      BY PoolAssumption
    <3>3. PresentIn(buffers) = {} /\ total_allocated = 0
      BY <1>1, <1>3
    <3>4. total_allocated = Bytes(buffers, PresentIn(buffers))
      BY <3>1, <3>3
    <3> QED BY <3>2, <3>3, <3>4
  <2> QED BY <1>2, <1>3, <1>4, <2>1 DEF GoodPool, Pool
<1>6. total_in_use = Bytes(buffers, UsedIn(buffers))
  BY <1>1, <1>3, BytesNone
<1>7. PoolTypeOK
  BY <1>1, <1>2 DEF PoolTypeOK, Sizes
<1>8. HandlesExclusive
  BY <1>1, <1>2 DEF HandlesExclusive
<1> QED BY <1>5, <1>6, <1>7, <1>8 DEF PoolInv

LEMMA PoolStep == PoolInv /\ [PoolNext]_allPoolVars => PoolInv'
<1> SUFFICES ASSUME PoolInv, [PoolNext]_allPoolVars PROVE PoolInv'
  OBVIOUS
<1>1. /\ buffers \in Seq(PooledBuffer) /\ size_classes \subseteq Sizes /\ todo \in Seq(Sizes)
      /\ configuring \in BOOLEAN /\ acquires \in Nat /\ GoodPool(Pool)
  BY DEF PoolInv, PoolTypeOK
<1>2. ASSUME NEW size, SetPool(Room(size))
      PROVE  /\ GoodPool(Pool)' /\ DOMAIN buffers' = DOMAIN buffers
             /\ \A i \in DOMAIN buffers : /\ buffers'[i].size = buffers[i].size
                                          /\ (buffers'[i].in_use <=> buffers[i].in_use)
  <2>1. GoodPool(Room(size)) /\ SameUse(buffers, Room(size).buffers)
    BY <1>1, RoomFits
  <2> QED BY <1>2, <2>1 DEF SetPool, Pool, GoodPool, SameUse
<1>3. ASSUME UNCHANGED poolVars
      PROVE  GoodPool(Pool)' /\ buffers' = buffers
  BY <1>1, <1>3 DEF poolVars, GoodPool, Pool
<1>4. CASE ConfigureClasses
  <2>1. /\ acquires' = acquires + 1 /\ size_classes' = size_classes \cup ModelSet
        /\ configuring' = TRUE /\ todo' = todo /\ UNCHANGED poolVars
        /\ UNCHANGED <<total_in_use, handleVars>>
    BY <1>4 DEF ConfigureClasses
  <2>2. size_classes' \subseteq Sizes
    BY <1>1, <2>1 DEF Sizes
  <2> QED BY <1>1, <1>3, <2>1, <2>2, BystanderStep
<1>5. CASE ConfigureLock
  <2>1. /\ acquires' = acquires /\ size_classes' = size_classes /\ configuring' = FALSE
        /\ UNCHANGED poolVars /\ UNCHANGED <<total_in_use, handleVars>>
    BY <1>5 DEF ConfigureLock
  <2>2. todo' \in Seq(Sizes)
    <3>n. PICK n \in Nat : n = Len(ModelSizes)
      BY PoolAssumption
    <3>1. \A j \in 1 .. n : ModelSizes[j] \in Sizes
      BY <3>n, PoolAssumption DEF Sizes, ModelSet
    <3>2. \A i \in 1 .. 2 * n : (i + 1) \div 2 \in 1 .. n
      OBVIOUS
    <3>3. todo' = [i \in 1 .. 2 * n |-> ModelSizes[(i + 1) \div 2]]
      BY <1>5, <3>n DEF ConfigureLock
    <3>4. todo' \in [1 .. 2 * n -> Sizes] /\ 2 * n \in Nat
      BY <3>1, <3>2, <3>3
    <3> QED BY <3>4
  <2>3. /\ GoodPool(Pool)' /\ DOMAIN buffers' = DOMAIN buffers /\ acquires' >= acquires
        /\ \A i \in DOMAIN buffers : buffers'[i] = buffers[i]
    BY <1>1, <1>3, <2>1
  <2> QED BY <1>1, <2>1, <2>2, <2>3, BystanderStep
<1>6. CASE Preallocate
  <2>s. PICK size : size = Head(todo)
    OBVIOUS
  <2>n. PICK n : n = Len(buffers) + 1
    OBVIOUS
  <2>1. /\ todo # <<>> /\ Fits(size) /\ SetPool(Created(size, FALSE)) /\ todo' = Tail(todo)
        /\ size_classes' = size_classes /\ configuring' = configuring /\ acquires' = acquires
        /\ UNCHANGED <<total_in_use, handleVars>>
    BY <1>6, <2>s DEF Preallocate, Free
  <2>2. size \in Sizes /\ todo' \in Seq(Sizes)
    BY <1>1, <2>1, <2>s
  <2>3. LET c == Created(size, FALSE) IN
        /\ GoodPool(c) /\ DOMAIN c.buffers = DOMAIN buffers \cup {n}
        /\ \A i \in DOMAIN buffers : /\ c.buffers[i].size = buffers[i].size
                                     /\ c.buffers[i].in_use = buffers[i].in_use
        /\ c.buffers[n].in_use = FALSE
    <3>u. PICK used \in BOOLEAN : used = FALSE
      OBVIOUS
    <3>1. Fits(size) /\ size \in Sizes /\ GoodPool(Pool)
      BY <1>1, <2>1, <2>2
    <3>2. LET c == Created(size, used) IN
          /\ GoodPool(c) /\ DOMAIN c.buffers = DOMAIN buffers \cup {n}
          /\ \A i \in DOMAIN buffers : /\ c.buffers[i].size = buffers[i].size
                                       /\ c.buffers[i].in_use = buffers[i].in_use
          /\ c.buffers[n].in_use = used
      BY <3>1, <2>n, CreatedFits
    <3> QED BY <3>u, <3>2, Zenon
  <2>4. /\ GoodPool(Pool)' /\ DOMAIN buffers' = DOMAIN buffers \cup {n}
        /\ \A i \in DOMAIN buffers : /\ buffers'[i].size = buffers[i].size
                                     /\ (buffers'[i].in_use <=> buffers[i].in_use)
        /\ ~buffers'[n].in_use
    BY <2>1, <2>3 DEF SetPool, Pool, GoodPool
  <2>5. \A i \in DOMAIN buffers' \ DOMAIN buffers : ~buffers'[i].in_use
    BY <2>4
  <2> QED BY <1>1, <2>1, <2>2, <2>4, <2>5, BystanderStep
<1>7. CASE PreallocateFails
  <2>1. /\ todo # <<>> /\ SetPool(Room(Head(todo)))
        /\ todo' = SubSeq(todo, IF Len(todo) % 2 = 0 THEN 3 ELSE 2, Len(todo))
        /\ size_classes' = size_classes /\ configuring' = configuring /\ acquires' = acquires
        /\ UNCHANGED <<total_in_use, handleVars>>
    BY <1>7 DEF PreallocateFails, Free
  <2>2. todo' \in Seq(Sizes)
    BY <1>1, <2>1
  <2>3. /\ GoodPool(Pool)' /\ DOMAIN buffers' = DOMAIN buffers
        /\ \A i \in DOMAIN buffers : /\ buffers'[i].size = buffers[i].size
                                     /\ (buffers'[i].in_use <=> buffers[i].in_use)
    BY <1>2, <2>1
  <2> QED BY <1>1, <2>1, <2>2, <2>3, BystanderStep
<1>8. ASSUME NEW size \in Requests, AcquirePooled(size) PROVE PoolInv'
  <2>z. PICK z : z = AllocSize(size)
    OBVIOUS
  <2>i. PICK i : i = pool_lists[z][Len(pool_lists[z])]
    OBVIOUS
  <2>1. /\ pool_lists[z] # <<>> /\ buffers' = [buffers EXCEPT ![i].in_use = TRUE]
        /\ pool_lists' = [pool_lists EXCEPT ![z] = SubSeq(@, 1, Len(@) - 1)]
        /\ HandOver(i) /\ total_allocated' = total_allocated
    BY <1>8, <2>z, <2>i DEF AcquirePooled
  <2>2. z \in Sizes
    BY <1>1, <2>z, AllocSizeFits
  <2>3. /\ GoodPool([buffers |-> buffers', pool_lists |-> pool_lists', total |-> total_allocated])
        /\ i \in Unused(buffers) /\ DOMAIN buffers' = DOMAIN buffers
        /\ \A k \in DOMAIN buffers : /\ buffers'[k].size = buffers[k].size
                                     /\ (buffers'[k].in_use <=> k = i \/ buffers[k].in_use)
    BY <1>1, <2>1, <2>2, <2>i, TakenFits
  <2>4. /\ GoodPool(Pool)' /\ i \in Nat \ {0} /\ i \notin UsedIn(buffers)
        /\ DOMAIN buffers' = DOMAIN buffers \cup {i}
    <3>1. i \in DOMAIN buffers /\ ~buffers[i].in_use
      BY <2>3 DEF Unused
    <3>2. i \in Nat \ {0}
      BY <1>1, <3>1
    <3>3. GoodPool(Pool)'
      BY <2>1, <2>3 DEF GoodPool, Pool
    <3> QED BY <2>3, <3>1, <3>2, <3>3 DEF UsedIn
  <2>5. /\ buffers'[i].in_use
        /\ \A k \in DOMAIN buffers : /\ buffers'[k].size = buffers[k].size
                                     /\ k # i => (buffers'[k].in_use <=> buffers[k].in_use)
    BY <2>3 DEF Unused
  <2> HIDE DEF HandOver
  <2>6. HandOver(i)
    BY <2>1
  <2> QED BY <2>4, <2>5, <2>6, HandOverStep
<1>9. ASSUME NEW size \in Requests, AcquireNew(size) PROVE PoolInv'
  <2>z. PICK z : z = AllocSize(size)
    OBVIOUS
  <2>i. PICK i : i = Len(buffers) + 1
    OBVIOUS
  <2>1. Fits(z) /\ SetPool(Created(z, TRUE)) /\ HandOver(i)
    BY <1>9, <2>z, <2>i DEF AcquireNew
  <2>2. z \in Sizes
    BY <1>1, <2>z, AllocSizeFits
  <2>3. LET c == Created(z, TRUE) IN
        /\ GoodPool(c) /\ DOMAIN c.buffers = DOMAIN buffers \cup {i}
        /\ i \notin DOMAIN buffers /\ i \in Nat \ {0}
        /\ \A k \in DOMAIN buffers : /\ c.buffers[k].size = buffers[k].size
                                     /\ c.buffers[k].in_use = buffers[k].in_use
        /\ c.buffers[i].in_use = TRUE
    <3>u. PICK used \in BOOLEAN : used = TRUE
      OBVIOUS
    <3>1. Fits(z) /\ z \in Sizes /\ GoodPool(Pool)
      BY <1>1, <2>1, <2>2
    <3>2. LET c == Created(z, used) IN
          /\ GoodPool(c) /\ DOMAIN c.buffers = DOMAIN buffers \cup {i}
          /\ i \notin DOMAIN buffers /\ i \in Nat \ {0}
          /\ \A k \in DOMAIN buffers : /\ c.buffers[k].size = buffers[k].size
                                       /\ c.buffers[k].in_use = buffers[k].in_use
          /\ c.buffers[i].in_use = used
      BY <3>1, <2>i, CreatedFits
    <3> QED BY <3>u, <3>2, Zenon
  <2>4. /\ GoodPool(Pool)' /\ DOMAIN buffers' = DOMAIN buffers \cup {i}
        /\ i \in Nat \ {0} /\ buffers'[i].in_use
        /\ \A k \in DOMAIN buffers : /\ buffers'[k].size = buffers[k].size
                                     /\ k # i => (buffers'[k].in_use <=> buffers[k].in_use)
    BY <2>1, <2>3 DEF SetPool, Pool, GoodPool
  <2>5. i \notin UsedIn(buffers)
    BY <2>3 DEF UsedIn
  <2> QED BY <2>1, <2>4, <2>5, HandOverStep
<1>10. ASSUME NEW size \in Requests, Throws(size) PROVE PoolInv'
  <2>1. /\ SetPool(Room(AllocSize(size))) /\ acquires' = acquires + 1
        /\ size_classes' = size_classes /\ todo' = todo /\ configuring' = configuring
        /\ UNCHANGED <<total_in_use, handleVars>>
    BY <1>10 DEF Throws, cfgVars
  <2>2. /\ GoodPool(Pool)' /\ DOMAIN buffers' = DOMAIN buffers
        /\ \A i \in DOMAIN buffers : /\ buffers'[i].size = buffers[i].size
                                     /\ (buffers'[i].in_use <=> buffers[i].in_use)
    BY <1>2, <2>1
  <2> QED BY <1>1, <2>1, <2>2, BystanderStep
<1>11. CASE purge_unused
  <2>1. /\ SetPool(Purge(Pool)) /\ acquires' = acquires
        /\ size_classes' = size_classes /\ todo' = todo /\ configuring' = configuring
        /\ UNCHANGED <<total_in_use, handleVars>>
    BY <1>11 DEF purge_unused, cfgVars
  <2>2. GoodPool(Purge(Pool)) /\ SameUse(buffers, Purge(Pool).buffers)
    <3>1. Pool.buffers = buffers
      BY DEF Pool
    <3> QED BY <1>1, <3>1, PurgeFits
  <2>3. /\ GoodPool(Pool)' /\ DOMAIN buffers' = DOMAIN buffers
        /\ \A i \in DOMAIN buffers : /\ buffers'[i].size = buffers[i].size
                                     /\ (buffers'[i].in_use <=> buffers[i].in_use)
    BY <2>1, <2>2 DEF SetPool, Pool, GoodPool, SameUse
  <2> QED BY <1>1, <2>1, <2>3, BystanderStep
<1>12. CASE UNCHANGED allPoolVars
  <2>1. /\ UNCHANGED poolVars /\ acquires' = acquires
        /\ size_classes' = size_classes /\ todo' = todo /\ configuring' = configuring
        /\ UNCHANGED <<total_in_use, handleVars>>
    BY <1>12 DEF allPoolVars, cfgVars
  <2> QED BY <1>1, <1>3, <2>1, BystanderStep
<1>13. ASSUME NEW size \in Requests, AcquireRefused(size) \/ AcquireFails(size) PROVE PoolInv'
  BY <1>10, <1>13 DEF AcquireRefused, AcquireFails
<1> QED
  BY <1>4, <1>5, <1>6, <1>7, <1>8, <1>9, <1>11, <1>12, <1>13,
     ReleaseStep, ReleaseStaleStep, ReleaseThrowsStep, ReleaseAllStep DEF PoolNext

-------------------------------------------------------------------------------
(* The theorems                                                                *)

LEMMA PoolAlways == PoolSpec => []PoolInv
<1>1. PoolInit => PoolInv
  BY PoolInitial
<1>2. PoolInv /\ [PoolNext]_allPoolVars => PoolInv'
  BY PoolStep
<1> QED BY <1>1, <1>2, PTL DEF PoolSpec

\* The lists hold indices, the classes are sizes, and a handle names a buffer and the
\* call it came from (activation_pool.mm:70-112).
THEOREM PoolTyped == PoolSpec => []PoolTypeOK
<1>1. PoolInv => PoolTypeOK
  BY DEF PoolInv
<1> QED BY <1>1, PoolAlways, PTL

\* A buffer is never lost to the pool and never in two free lists, whatever was
\* purged, pre-allocated or released in between, with handles misused or not
\* (activation_pool.mm:155-168, 200-221, 346-350, 359-363).
THEOREM FreeListsStayExact == PoolSpec => []FreeListsExact
<1>1. PoolInv => FreeListsExact
  BY DEF PoolInv, GoodPool, Pool, ListsExact, FreeListsExact
<1> QED BY <1>1, PoolAlways, PTL

\* As long as handles are released once, a buffer has one holder, and what is held
\* is not purged (activation_pool.mm:284-372).
THEOREM HandlesStayExclusive == PoolSpec => []HandlesExclusive
<1>1. PoolInv => HandlesExclusive
  BY DEF PoolInv
<1> QED BY <1>1, PoolAlways, PTL

\* Both byte counts are those of the buffers, and never beyond the budget
\* (activation_pool.mm:173-184, 194, 220, 301, 322, 347, 371).
THEOREM PoolStatsStay == PoolSpec => []PoolStatsAgree
<1>1. PoolInv => PoolStatsAgree
  BY DEF PoolInv, GoodPool, Pool, PoolStatsAgree, PresentIn, UsedIn, InUse
<1> QED BY <1>1, PoolAlways, PTL

\* acquire() refuses only what the bytes in use leave no room for
\* (activation_pool.mm:173-184).
THEOREM RefusalsAreJustified == PoolSpec => RefusedOnlyIfFull
<1>1. ASSUME PoolInv, NEW size \in Requests, AcquireRefused(size)
      PROVE  total_in_use + AllocSize(size) > Budget
  <2>z. PICK z : z = AllocSize(size)
    OBVIOUS
  <2>1. z \in Nat
    <3>1. z \in Sizes
      BY <1>1, <2>z, AllocSizeFits DEF PoolInv, PoolTypeOK
    <3> QED BY <3>1, PoolAssumption
  <2>2. GoodPool(Pool) /\ Pool.total = total_allocated /\ Pool.buffers = buffers
    BY <1>1 DEF PoolInv, Pool
  <2>3. Purge(Pool).total = total_in_use
    BY <1>1, <2>2, PurgeFits DEF PoolInv
  <2>4. total_in_use \in Nat /\ total_allocated \in Nat
    BY <1>1, BufferSets DEF PoolInv, GoodPool, Pool, UsedIn, PresentIn
  <2>5. Budget > 0 /\ ~(Room(z).total + z <= Budget)
    BY <1>1, <2>z DEF AcquireRefused, Fits
  <2>6. CASE Budget > 0 /\ total_allocated + z > Budget
    BY <2>1, <2>3, <2>4, <2>5, <2>6, <2>z, PoolAssumption DEF Room
  <2>7. CASE ~(Budget > 0 /\ total_allocated + z > Budget)
    BY <2>1, <2>2, <2>4, <2>5, <2>7, PoolAssumption DEF Room
  <2> QED BY <2>6, <2>7
<1>2. PoolInv => [\A size \in Requests :
                     AcquireRefused(size) => total_in_use + AllocSize(size) > Budget]_allPoolVars
  BY <1>1
<1> QED BY <1>2, PoolAlways, PTL DEF RefusedOnlyIfFull
===============================================================================
