----------------------------- MODULE Tensor_proofs -----------------------------
(***************************************************************************)
(* Theorems about tensors, for any number of them and of calls.            *)
(*                                                                         *)
(* First their exchange with numpy and PyTorch.  The invariant is about    *)
(* who uses a buffer: only objects documented to share memory do, so what  *)
(* is written through one of them is read by no copy.                      *)
(*                                                                         *)
(* Then their arithmetic, over memory that is recycled under commands that *)
(* wait.  The invariant says who has each buffer, and that the waiting     *)
(* commands lead through memories the last of which holds what the         *)
(* tensors mean.                                                           *)
(***************************************************************************)
EXTENDS TensorExchange, TensorArithmetic, TLAPS

-------------------------------------------------------------------------------
(* Numbers and their words                                                     *)

LEMMA Widths ==
  ASSUME NEW d \in AllDTypes
  PROVE  Width(d) \in 1 .. 2 /\ (d = "float32" <=> Width(d) = 2)
BY DEF AllDTypes, Width

LEMMA NumberWordsFit ==
  ASSUME NEW d \in AllDTypes, NEW x \in Numbers \cup {Garbage}
  PROVE  /\ NumberWords(d, x) \in Seq(Word) /\ Len(NumberWords(d, x)) = Width(d)
         /\ NumberWords(d, x)[1][1] = x
<1>1. CASE d = "float32"
  <2>1. NumberWords(d, x) = <<<<x, "low">>, <<x, "high">>>>
    BY <1>1 DEF NumberWords
  <2>2. <<x, "low">> \in Word /\ <<x, "high">> \in Word
    BY DEF Word
  <2>3. NumberWords(d, x) \in Seq(Word) /\ Len(NumberWords(d, x)) = 2
    BY <2>1, <2>2
  <2>4. NumberWords(d, x)[1][1] = x
    BY <2>1
  <2> QED BY <1>1, <2>3, <2>4 DEF Width
<1>2. CASE d = "bfloat16"
  <2>1. NumberWords(d, x) = <<<<x, "high">>>>
    BY <1>2 DEF NumberWords
  <2>2. <<x, "high">> \in Word
    BY DEF Word
  <2> QED BY <1>2, <2>1, <2>2 DEF Width
<1>3. CASE d = "float16"
  <2>1. NumberWords(d, x) = <<<<x, "half">>>>
    BY <1>3 DEF NumberWords
  <2>2. <<x, "half">> \in Word
    BY DEF Word
  <2> QED BY <1>3, <2>1, <2>2 DEF Width
<1> QED BY <1>1, <1>2, <1>3 DEF AllDTypes

LEMMA AppendedOne ==
  ASSUME NEW S, NEW s \in Seq(S), NEW e \in S, NEW n, n = Len(s) + 1
  PROVE  /\ Append(s, e) \in Seq(S) /\ DOMAIN Append(s, e) = DOMAIN s \cup {n}
         /\ \A i \in DOMAIN s : Append(s, e)[i] = s[i]
         /\ Append(s, e)[n] = e
<1>1. Len(Append(s, e)) = n /\ Append(s, e) \in Seq(S) /\ n \in Nat
  OBVIOUS
<1>2. DOMAIN Append(s, e) = 1 .. n /\ DOMAIN s = 1 .. n - 1
  BY <1>1
<1>3. Append(s, e)[n] = e
  OBVIOUS
<1>4. \A i \in DOMAIN s : Append(s, e)[i] = s[i]
  OBVIOUS
<1> QED BY <1>1, <1>2, <1>3, <1>4

\* The cells of a matrix in memory are those it was made of.
LEMMA MatrixFits ==
  ASSUME NEW d \in AllDTypes, NEW cells,
         \A k \in Cells : cells[k] \in Seq(Word) /\ Len(cells[k]) = Width(d)
  PROVE  /\ Matrix(d, cells) \in Seq(Word) /\ Len(Matrix(d, cells)) = 4 * Width(d)
         /\ \A k \in Cells : CellWords(d, Matrix(d, cells), k) = cells[k]
<1> DEFINE m == Matrix(d, cells)
<1>1. m = [i \in 1 .. 4 * Width(d) |->
             cells[((i - 1) \div Width(d)) + 1][((i - 1) % Width(d)) + 1]]
  BY DEF Matrix
<1>2. \A i \in 1 .. 4 * Width(d) : /\ ((i - 1) \div Width(d)) + 1 \in Cells
                                  /\ ((i - 1) % Width(d)) + 1 \in 1 .. Width(d)
  <2>1. \A i \in 1 .. 4 : ((i - 1) \div 1) + 1 \in 1 .. 4 /\ ((i - 1) % 1) + 1 \in 1 .. 1
    OBVIOUS
  <2>2. \A i \in 1 .. 8 : ((i - 1) \div 2) + 1 \in 1 .. 4 /\ ((i - 1) % 2) + 1 \in 1 .. 2
    OBVIOUS
  <2>3. CASE Width(d) = 1
    BY <2>1, <2>3 DEF Cells
  <2>4. CASE Width(d) = 2
    BY <2>2, <2>4 DEF Cells
  <2> QED BY <2>3, <2>4, Widths
<1>3. m \in Seq(Word) /\ Len(m) = 4 * Width(d)
  <2>1. \A i \in 1 .. 4 * Width(d) : m[i] \in Word
    BY <1>1, <1>2
  <2> QED BY <1>1, <2>1, Widths
<1>4. ASSUME NEW k \in Cells PROVE CellWords(d, m, k) = cells[k]
  <2>1. \A j \in 1 .. Width(d) : m[Width(d) * (k - 1) + j] = cells[k][j]
    <3> SUFFICES ASSUME NEW j \in 1 .. Width(d)
                 PROVE  m[Width(d) * (k - 1) + j] = cells[k][j]
      OBVIOUS
    <3>1. CASE Width(d) = 1
      BY <1>1, <3>1 DEF Cells
    <3>2. CASE Width(d) = 2
      <4> PICK i \in 1 .. 8 : i = 2 * (k - 1) + j
        BY <3>2 DEF Cells
      <4>1. ((i - 1) \div 2) + 1 = k /\ ((i - 1) % 2) + 1 = j
        BY <3>2 DEF Cells
      <4>2. m[i] = cells[((i - 1) \div 2) + 1][((i - 1) % 2) + 1]
        BY <1>1, <3>2
      <4> HIDE DEF m
      <4> QED BY <3>2, <4>1, <4>2
    <3> QED BY <3>1, <3>2, Widths
  <2>2. cells[k] = [j \in 1 .. Width(d) |-> cells[k][j]]
    OBVIOUS
  <2> QED BY <2>1, <2>2 DEF CellWords
<1> QED BY <1>3, <1>4

\* What is in a cell is a number, or garbage.
LEMMA DecodeFits ==
  ASSUME NEW d \in AllDTypes, NEW words \in Seq(Word), Len(words) >= 4 * Width(d),
         NEW k \in Cells
  PROVE  Decode(d, words, k) \in Numbers \cup {Garbage}
<1> DEFINE cw == CellWords(d, words, k)
<1>1. Width(d) * (k - 1) + 1 \in 1 .. Len(words) /\ 1 \in 1 .. Width(d)
  BY Widths DEF Cells
<1>2. cw[1] = words[Width(d) * (k - 1) + 1]
  BY <1>1 DEF CellWords
<1>3. cw[1] \in Word
  BY <1>1, <1>2
<1> HIDE DEF cw
<1>4. cw[1][1] \in Numbers \cup {Garbage}
  BY <1>3 DEF Word
<1> QED BY <1>4 DEF Decode, cw

\* What was stored is read again.
LEMMA EncodedFits ==
  ASSUME NEW d \in AllDTypes, NEW cells, \A k \in Cells : cells[k] \in Numbers \cup {Garbage}
  PROVE  /\ Encoded(d, cells) \in Seq(Word) /\ Len(Encoded(d, cells)) = 4 * Width(d)
         /\ \A k \in Cells : Decode(d, Encoded(d, cells), k) = cells[k]
<1> DEFINE cw == [k \in Cells |-> NumberWords(d, cells[k])]
<1>1. \A k \in Cells : cw[k] \in Seq(Word) /\ Len(cw[k]) = Width(d) /\ cw[k][1][1] = cells[k]
  BY NumberWordsFit
<1>2. \A k \in Cells : cw[k] = NumberWords(d, cells[k])
  OBVIOUS
<1>3. Encoded(d, cells) = Matrix(d, cw)
  BY DEF Encoded
<1> HIDE DEF cw
<1>4. /\ Encoded(d, cells) \in Seq(Word) /\ Len(Encoded(d, cells)) = 4 * Width(d)
      /\ \A k \in Cells : CellWords(d, Encoded(d, cells), k) = cw[k]
  BY <1>1, <1>3, MatrixFits
<1> QED BY <1>1, <1>2, <1>4 DEF Decode

\* The rows of a transposed array are words of it.
LEMMA RowMajorFits ==
  ASSUME NEW d \in AllDTypes, NEW words \in Seq(Word), Len(words) >= 4 * Width(d)
  PROVE  RowMajor(d, words) \in Seq(Word) /\ Len(RowMajor(d, words)) = 4 * Width(d)
<1> DEFINE cw == [k \in Cells |-> CellWords(d, words, Transposed[k])]
<1>1. ASSUME NEW k \in Cells PROVE cw[k] \in Seq(Word) /\ Len(cw[k]) = Width(d)
  <2> DEFINE r == Transposed[k]
  <2>1. r \in Cells
    BY DEF Transposed, Cells
  <2> HIDE DEF r
  <2>2. \A j \in 1 .. Width(d) : Width(d) * (r - 1) + j \in 1 .. Len(words)
    <3>1. CASE Width(d) = 1
      BY <2>1, <3>1 DEF Cells
    <3>2. CASE Width(d) = 2
      BY <2>1, <3>2 DEF Cells
    <3> QED BY <3>1, <3>2, Widths
  <2>3. cw[k] = [j \in 1 .. Width(d) |-> words[Width(d) * (r - 1) + j]]
    BY DEF CellWords, r
  <2> QED BY <2>2, <2>3, Widths
<1>2. RowMajor(d, words) = Matrix(d, cw)
  BY DEF RowMajor
<1> HIDE DEF cw
<1> QED BY <1>1, <1>2, MatrixFits

\* A copy of the first bytes holds the same cells.
LEMMA FromNumpyFits ==
  ASSUME NEW d \in AllDTypes, NEW words \in Seq(Word), Len(words) >= 4 * Width(d)
  PROVE  /\ FromNumpy(words, d) \in Seq(Word) /\ Len(FromNumpy(words, d)) = 4 * Width(d)
         /\ \A k \in Cells : Decode(d, FromNumpy(words, d), k) = Decode(d, words, k)
<1> DEFINE copy == FromNumpy(words, d)
<1>1. copy = [i \in 1 .. 4 * Width(d) |-> words[i]] /\ Width(d) \in 1 .. 2
  BY Widths DEF FromNumpy
<1>2. copy \in Seq(Word) /\ Len(copy) = 4 * Width(d)
  BY <1>1
<1>3. ASSUME NEW k \in Cells PROVE CellWords(d, copy, k) = CellWords(d, words, k)
  <2>1. \A j \in 1 .. Width(d) : Width(d) * (k - 1) + j \in 1 .. 4 * Width(d)
    <3>1. CASE Width(d) = 1
      BY <3>1 DEF Cells
    <3>2. CASE Width(d) = 2
      BY <3>2 DEF Cells
    <3> QED BY <3>1, <3>2, Widths
  <2> QED BY <1>1, <2>1 DEF CellWords
<1> QED BY <1>2, <1>3 DEF Decode

-------------------------------------------------------------------------------
(* Who uses which memory                                                       *)

\* What sharing depends on, of an array and of a tensor.
ArrayUse(a) == [buf |-> arrays[a].buf, family |-> arrays[a].family,
                borrowed |-> arrays[a].borrowed, mps |-> arrays[a].kind = "mps"]
TensorUse(t) == [buf |-> tensors[t].buf, family |-> tensors[t].family,
                 borrowed |-> tensors[t].borrowed, mps |-> FALSE]
Uses == {ArrayUse(a) : a \in DOMAIN arrays} \cup {TensorUse(t) : t \in DOMAIN tensors}

\* Only what is documented to share memory does.
Families == \A o, p \in Uses : o.buf = p.buf => o.family = p.family

\* The memory of PyTorch on the MPS device is kept by its own tensors alone.
Lent == \A o, p \in Uses : o.buf = p.buf /\ (o.borrowed \/ o.mps) /\ ~p.borrowed => p.mps

\* A copy keeps its memory.
CopiesOwn == \A t \in DOMAIN tensors : tensors[t].source # <<>> => ~tensors[t].borrowed

ExchangeInv ==
  ExchangeTypeOK /\ Families /\ Lent /\ CopiesOwn /\ CopiesHold /\ MetadataAgrees

\* An object joins with memory of its own, or borrows that of an MPS tensor.
Joins(use) == \/ \A o \in Uses : o.buf # use.buf
              \/ use.borrowed /\ \E o \in Uses : o.buf = use.buf /\ o.family = use.family /\ o.mps
              \/ use \in Uses

LEMMA UsesJoin ==
  ASSUME Families, Lent, NEW use, Joins(use), Uses' \subseteq Uses \cup {use}
  PROVE  Families' /\ Lent'
<1>1. CASE use \in Uses
  BY <1>1 DEF Families, Lent
<1>2. CASE \A o \in Uses : o.buf # use.buf
  BY <1>2 DEF Families, Lent
<1>3. ASSUME use.borrowed, NEW q \in Uses, q.buf = use.buf, q.family = use.family, q.mps
      PROVE  Families' /\ Lent'
  BY <1>3 DEF Families, Lent
<1> QED BY <1>1, <1>2, <1>3 DEF Joins

-------------------------------------------------------------------------------
(* Objects that are added                                                      *)

\* Memory is only added to.
Grows == /\ memory' \in Seq(Seq(Word)) /\ calls' \in 0 .. MaxCalls
         /\ DOMAIN memory \subseteq DOMAIN memory'
         /\ \A b \in DOMAIN memory : memory'[b] = memory[b]

LEMMA AppendGrows ==
  ASSUME ExchangeTypeOK, NEW words \in Seq(Word), memory' = Append(memory, words),
         calls' \in 0 .. MaxCalls
  PROVE  /\ Grows /\ memory'[Len(memory) + 1] = words
         /\ Len(memory) + 1 \in DOMAIN memory' /\ Len(memory) + 1 \in Nat
         /\ \A o \in Uses : o.buf # Len(memory) + 1
<1>1. memory \in Seq(Seq(Word)) /\ \A o \in Uses : o.buf \in DOMAIN memory
  BY DEF ExchangeTypeOK, Uses, ArrayUse, TensorUse, Sized
<1> QED BY <1>1 DEF Grows

\* A copy that keeps its memory holds what it did, as long as nobody writes to it.
LEMMA CopyStays ==
  ASSUME ExchangeInv, NEW t \in DOMAIN tensors, t \in DOMAIN tensors', tensors'[t] = tensors[t],
         tensors[t].source # <<>>, memory'[tensors[t].buf] = memory[tensors[t].buf]
  PROVE  TensorMatrix(t)' = TensorMatrix(t)
<1>1. ~tensors[t].borrowed
  BY DEF ExchangeInv, CopiesOwn
<1>2. Kept(tensors[t].buf) /\ Kept(tensors[t].buf)'
  BY <1>1 DEF Kept
<1>3. Words(tensors[t].buf)' = Words(tensors[t].buf)
  BY <1>2 DEF Words
<1> QED BY <1>3 DEF TensorMatrix

\* What a new tensor must be like.
GoodTensor(x) ==
  /\ x \in Tensor /\ x.buf \in DOMAIN memory' /\ Len(memory'[x.buf]) = 4 * Width(x.dtype)
  /\ x.cached_shape \in {"None", x.cells, "-1"}
  /\ x.cached_dtype \in {"None", x.dtype}
  /\ Joins([buf |-> x.buf, family |-> x.family, borrowed |-> x.borrowed, mps |-> FALSE])
  /\ x.source # <<>> =>
       /\ ~x.borrowed
       /\ ~x.strided /\ ~x.bf16 =>
            x.source = [k \in Cells |-> Decode(x.dtype, memory'[x.buf], k)]

LEMMA TensorJoins ==
  ASSUME ExchangeInv, NEW x, GoodTensor(x), AddTensor(x), UNCHANGED arrays, Grows
  PROVE  ExchangeInv'
<1> USE DEF ExchangeInv
<1> PICK n \in Nat : n = Len(tensors) + 1
  BY DEF ExchangeTypeOK
<1>1. /\ tensors' \in Seq(Tensor) /\ DOMAIN tensors' = DOMAIN tensors \cup {n}
      /\ \A t \in DOMAIN tensors : tensors'[t] = tensors[t]
      /\ tensors'[n] = x
  <2>1. tensors \in Seq(Tensor) /\ x \in Tensor /\ tensors' = Append(tensors, x)
    BY DEF ExchangeTypeOK, AddTensor, GoodTensor
  <2> QED BY <2>1, AppendedOne
<1>2. ExchangeTypeOK'
  <2>1. \A t \in DOMAIN tensors' : Sized(tensors[t])'
    BY <1>1, SMTT(30) DEF ExchangeTypeOK, Grows, Sized, GoodTensor
  <2>2. \A a \in DOMAIN arrays' : Sized(arrays[a])'
    BY DEF ExchangeTypeOK, Grows, Sized
  <2> QED BY <1>1, <2>1, <2>2 DEF ExchangeTypeOK, Grows
<1>3. Families' /\ Lent'
  <2> DEFINE use == [buf |-> x.buf, family |-> x.family, borrowed |-> x.borrowed, mps |-> FALSE]
  <2>1. \A t \in DOMAIN tensors' : TensorUse(t)' = IF t = n THEN use ELSE TensorUse(t)
    BY <1>1 DEF TensorUse
  <2>2. Uses' \subseteq Uses \cup {use}
    BY <1>1, <2>1 DEF Uses, ArrayUse
  <2>3. Joins(use)
    BY DEF GoodTensor
  <2> HIDE DEF use
  <2> QED BY <2>2, <2>3, UsesJoin
<1>4. CopiesOwn'
  BY <1>1 DEF CopiesOwn, GoodTensor
<1>5. CopiesHold'
  <2> SUFFICES ASSUME NEW t \in DOMAIN tensors', tensors'[t].source # <<>>,
                      ~tensors'[t].strided, ~tensors'[t].bf16
               PROVE  TensorMatrix(t)' = tensors'[t].source
    BY DEF CopiesHold
  <2>1. CASE t \in DOMAIN tensors
    <3>1. memory'[tensors[t].buf] = memory[tensors[t].buf]
      BY <2>1 DEF ExchangeTypeOK, Sized, Grows
    <3> QED BY <1>1, <2>1, <3>1, CopyStays DEF CopiesHold
  <2>2. CASE t = n
    <3>1. Kept(x.buf)'
      BY <1>1, <2>2 DEF Kept, GoodTensor
    <3>2. Words(x.buf)' = memory'[x.buf]
      BY <3>1 DEF Words
    <3> QED BY <1>1, <2>2, <3>2 DEF TensorMatrix, GoodTensor
  <2> QED BY <1>1, <2>1, <2>2
<1>6. MetadataAgrees'
  <2>1. \A t \in DOMAIN tensors : Shape(t)' = Shape(t) /\ DType(t)' = DType(t)
    BY <1>1 DEF Shape, DType
  <2>2. Shape(n)' \in {x.cells, "-1"} /\ DType(n)' = x.dtype
    BY <1>1 DEF Shape, DType, GoodTensor
  <2> QED BY <1>1, <2>1, <2>2 DEF MetadataAgrees
<1> QED BY <1>2, <1>3, <1>4, <1>5, <1>6

\* Tensors stay what they are when no copy's memory is written to.
LEMMA TensorsStay ==
  ASSUME ExchangeInv, UNCHANGED tensors,
         \A t \in DOMAIN tensors :
           tensors[t].source # <<>> => memory'[tensors[t].buf] = memory[tensors[t].buf]
  PROVE  CopiesOwn' /\ CopiesHold' /\ MetadataAgrees'
<1>1. CopiesOwn' /\ MetadataAgrees'
  BY DEF ExchangeInv, CopiesOwn, MetadataAgrees, Shape, DType
<1>2. \A t \in DOMAIN tensors : tensors[t].source # <<>> => TensorMatrix(t)' = TensorMatrix(t)
  BY CopyStays
<1> QED BY <1>1, <1>2 DEF ExchangeInv, CopiesHold

LEMMA ArrayJoins ==
  ASSUME ExchangeInv, NEW x \in Array, arrays' = Append(arrays, x), UNCHANGED tensors, Grows,
         x.buf \in DOMAIN memory', Len(memory'[x.buf]) = 4 * Width(x.dtype),
         Joins([buf |-> x.buf, family |-> x.family, borrowed |-> x.borrowed, mps |-> x.kind = "mps"])
  PROVE  ExchangeInv'
<1> USE DEF ExchangeInv
<1> PICK n \in Nat : n = Len(arrays) + 1
  BY DEF ExchangeTypeOK
<1>1. /\ arrays' \in Seq(Array) /\ DOMAIN arrays' = DOMAIN arrays \cup {n}
      /\ \A a \in DOMAIN arrays : arrays'[a] = arrays[a]
      /\ arrays'[n] = x
  BY DEF ExchangeTypeOK
<1>2. ExchangeTypeOK'
  <2>1. \A a \in DOMAIN arrays' : Sized(arrays[a])'
    BY <1>1 DEF ExchangeTypeOK, Grows, Sized
  <2>2. \A t \in DOMAIN tensors' : Sized(tensors[t])'
    BY DEF ExchangeTypeOK, Grows, Sized
  <2> QED BY <1>1, <2>1, <2>2 DEF ExchangeTypeOK, Grows
<1>3. Families' /\ Lent'
  <2> DEFINE use == [buf |-> x.buf, family |-> x.family, borrowed |-> x.borrowed,
                     mps |-> x.kind = "mps"]
  <2>1. \A a \in DOMAIN arrays' : ArrayUse(a)' = IF a = n THEN use ELSE ArrayUse(a)
    BY <1>1 DEF ArrayUse
  <2>2. Uses' \subseteq Uses \cup {use}
    BY <1>1, <2>1 DEF Uses, TensorUse
  <2> HIDE DEF use
  <2> QED BY <2>2, UsesJoin DEF use
<1>4. CopiesOwn' /\ CopiesHold' /\ MetadataAgrees'
  BY TensorsStay DEF ExchangeTypeOK, Sized, Grows
<1> QED BY <1>2, <1>3, <1>4

\* An array the program has in its hands is there, whatever it names.
LEMMA HeldWords ==
  ASSUME ExchangeTypeOK, NEW a \in Held
  PROVE  /\ a \in DOMAIN arrays /\ arrays[a] \in Array /\ arrays[a].buf \in DOMAIN memory
         /\ Words(arrays[a].buf) = memory[arrays[a].buf]
         /\ Words(arrays[a].buf) \in Seq(Word)
         /\ Len(Words(arrays[a].buf)) = 4 * Width(arrays[a].dtype)
         /\ ArrayWords(a) \in Seq(Word) /\ Len(ArrayWords(a)) = 4 * Width(arrays[a].dtype)
         /\ ArrayMatrix(a) \in [Cells -> Numbers \cup {Garbage}]
<1>1. /\ a \in DOMAIN arrays /\ arrays[a] \in Array /\ arrays[a].buf \in DOMAIN memory
      /\ memory[arrays[a].buf] \in Seq(Word) /\ arrays[a].dtype \in AllDTypes
      /\ Len(memory[arrays[a].buf]) = 4 * Width(arrays[a].dtype)
  <2>1. a \in DOMAIN arrays /\ arrays \in Seq(Array) /\ Sized(arrays[a]) /\ memory \in Seq(Seq(Word))
    BY DEF Held, ExchangeTypeOK
  <2>2. arrays[a] \in Array
    BY <2>1
  <2>3. arrays[a].dtype \in AllDTypes
    BY <2>2 DEF Array
  <2> QED BY <2>1, <2>2, <2>3 DEF Sized
<1>2. Kept(arrays[a].buf)
  BY DEF Held, Kept
<1>3. Words(arrays[a].buf) = memory[arrays[a].buf]
  BY <1>2 DEF Words
<1>4. ArrayWords(a) \in Seq(Word) /\ Len(ArrayWords(a)) = 4 * Width(arrays[a].dtype)
  <2>1. CASE arrays[a].layout = "C"
    BY <2>1, <1>1, <1>3 DEF ArrayWords
  <2>2. CASE arrays[a].layout # "C"
    <3>1. Len(memory[arrays[a].buf]) >= 4 * Width(arrays[a].dtype)
      BY <1>1, Widths
    <3> QED BY <2>2, <3>1, <1>1, <1>3, RowMajorFits DEF ArrayWords
  <2> QED BY <2>1, <2>2
<1>5. \A k \in Cells : Decode(arrays[a].dtype, ArrayWords(a), k) \in Numbers \cup {Garbage}
  BY <1>1, <1>4, DecodeFits, Widths
<1> QED BY <1>1, <1>3, <1>4, <1>5 DEF ArrayMatrix

\* What a tensor names may be gone, but is as large.
LEMMA TensorWords ==
  ASSUME ExchangeTypeOK, NEW t \in DOMAIN tensors
  PROVE  /\ tensors[t] \in Tensor /\ tensors[t].dtype \in AllDTypes
         /\ Words(tensors[t].buf) \in Seq(Word)
         /\ Len(Words(tensors[t].buf)) >= 4 * Width(tensors[t].dtype)
<1>1. /\ tensors[t] \in Tensor /\ tensors[t].buf \in DOMAIN memory
      /\ memory[tensors[t].buf] \in Seq(Word) /\ tensors[t].dtype \in AllDTypes
      /\ Len(memory[tensors[t].buf]) = 4 * Width(tensors[t].dtype)
  <2>1. tensors \in Seq(Tensor) /\ Sized(tensors[t]) /\ memory \in Seq(Seq(Word))
    BY DEF ExchangeTypeOK
  <2>2. tensors[t] \in Tensor
    BY <2>1
  <2>3. tensors[t].dtype \in AllDTypes
    BY <2>2 DEF Tensor
  <2> QED BY <2>1, <2>2, <2>3 DEF Sized
<1>2. CASE Kept(tensors[t].buf)
  BY <1>1, <1>2, Widths DEF Words
<1>3. CASE ~Kept(tensors[t].buf)
  <2> DEFINE gone == [i \in 1 .. 8 |-> <<Garbage, "gone">>]
  <2>1. <<Garbage, "gone">> \in Word
    BY DEF Word
  <2>2. gone \in Seq(Word) /\ Len(gone) = 8
    BY <2>1
  <2>3. Words(tensors[t].buf) = gone
    BY <1>3 DEF Words
  <2> QED BY <1>1, <2>2, <2>3, Widths, SMTT(30)
<1> QED BY <1>1, <1>2, <1>3

-------------------------------------------------------------------------------
(* The program around the package                                              *)

LEMMA SameMemory ==
  ASSUME ExchangeTypeOK, UNCHANGED memory, calls' \in 0 .. MaxCalls
  PROVE  Grows
BY DEF ExchangeTypeOK, Grows

LEMMA CallCounts ==
  ASSUME ExchangeTypeOK, Call
  PROVE  calls' \in 0 .. MaxCalls
BY ExchangeAssumption DEF ExchangeTypeOK, Call

LEMMA NewArrayStep ==
  ASSUME ExchangeInv, NEW s \in Sources, NewArray(s[1], s[2])
  PROVE  ExchangeInv'
<1> DEFINE words == Encoded(s[2], <<1, 2, 3, 4>>)
<1> PICK n \in Nat : n = Len(memory) + 1
  BY DEF ExchangeInv, ExchangeTypeOK
<1> PICK f \in Nat : f = NewFamily
  BY DEF ExchangeInv, ExchangeTypeOK, NewFamily
<1> PICK x : x = [kind |-> s[1], buf |-> n, layout |-> "C", dtype |-> s[2],
                  family |-> f, borrowed |-> FALSE, dropped |-> FALSE]
  OBVIOUS
<1>1. s[1] \in {"numpy", "torch", "mps"} /\ s[2] \in AllDTypes
  BY ExchangeAssumption
<1>2. words \in Seq(Word) /\ Len(words) = 4 * Width(s[2])
  <2>1. \A k \in Cells : <<1, 2, 3, 4>>[k] \in Numbers \cup {Garbage}
    BY DEF Cells, Numbers
  <2> QED BY <1>1, <2>1, EncodedFits
<1>3. memory' = Append(memory, words) /\ calls' \in 0 .. MaxCalls
  BY DEF NewArray, ExchangeInv, ExchangeTypeOK
<1> HIDE DEF words
<1>4. /\ Grows /\ memory'[n] = words /\ n \in DOMAIN memory' /\ \A o \in Uses : o.buf # n
  BY <1>2, <1>3, AppendGrows DEF ExchangeInv
<1>5. x \in Array /\ arrays' = Append(arrays, x) /\ UNCHANGED tensors
  BY <1>1 DEF Array, NewArray, AddArray
<1>6. Joins([buf |-> x.buf, family |-> x.family, borrowed |-> x.borrowed, mps |-> x.kind = "mps"])
  BY <1>4 DEF Joins
<1> QED BY <1>2, <1>4, <1>5, <1>6, ArrayJoins

LEMMA TransposeStep ==
  ASSUME ExchangeInv, NEW a \in Held, TransposeView(a)
  PROVE  ExchangeInv'
<1> PICK x : x = [kind |-> arrays[a].kind, buf |-> arrays[a].buf,
                  layout |-> IF arrays[a].layout = "C" THEN "T" ELSE "C",
                  dtype |-> arrays[a].dtype, family |-> arrays[a].family,
                  borrowed |-> arrays[a].borrowed, dropped |-> FALSE]
  OBVIOUS
<1>1. a \in DOMAIN arrays /\ arrays[a] \in Array /\ Sized(arrays[a])
  BY HeldWords DEF ExchangeInv, ExchangeTypeOK
<1>2. x \in Array /\ arrays' = Append(arrays, x) /\ UNCHANGED <<memory, tensors, calls>>
  BY <1>1 DEF Array, TransposeView, AddArray
<1>3. Grows
  BY <1>2, SameMemory DEF ExchangeInv, ExchangeTypeOK
<1>4. x.buf \in DOMAIN memory' /\ Len(memory'[x.buf]) = 4 * Width(x.dtype)
  BY <1>1, <1>2 DEF Sized
<1>5. ArrayUse(a) = [buf |-> x.buf, family |-> x.family, borrowed |-> x.borrowed,
                     mps |-> x.kind = "mps"]
  BY DEF ArrayUse
<1>6. ArrayUse(a) \in Uses
  BY <1>1 DEF Uses
<1> QED BY <1>2, <1>3, <1>4, <1>5, <1>6, ArrayJoins DEF Joins

LEMMA ExportStep ==
  ASSUME ExchangeInv, NEW t \in DOMAIN tensors, NEW kind \in {"numpy", "torch"}, Export(t, kind)
  PROVE  ExchangeInv'
<1> PICK x : x = [kind |-> kind, buf |-> tensors[t].buf, layout |-> "C", dtype |-> Shown(t),
                  family |-> tensors[t].family, borrowed |-> tensors[t].borrowed, dropped |-> FALSE]
  OBVIOUS
<1>1. tensors[t] \in Tensor /\ Sized(tensors[t])
  BY TensorWords DEF ExchangeInv, ExchangeTypeOK
<1>2. Shown(t) \in AllDTypes /\ Width(Shown(t)) = Width(tensors[t].dtype)
  BY <1>1 DEF Shown, Width, Tensor, AllDTypes
<1>3. x \in Array
  BY <1>1, <1>2 DEF Array, Tensor
<1>4. arrays' = Append(arrays, x) /\ UNCHANGED <<memory, tensors>> /\ calls' \in 0 .. MaxCalls
  BY CallCounts DEF Export, AddArray, ExchangeInv
<1>5. Grows
  BY <1>4, SameMemory DEF ExchangeInv
<1>6. x.buf \in DOMAIN memory' /\ Len(memory'[x.buf]) = 4 * Width(x.dtype)
  BY <1>1, <1>2, <1>4 DEF Sized
<1>7. TensorUse(t) = [buf |-> x.buf, family |-> x.family, borrowed |-> x.borrowed,
                      mps |-> x.kind = "mps"]
  BY DEF TensorUse
<1>8. TensorUse(t) \in Uses
  BY DEF Uses
<1> QED BY <1>3, <1>4, <1>5, <1>6, <1>7, <1>8, ArrayJoins DEF Joins

LEMMA DropStep ==
  ASSUME ExchangeInv, NEW a \in Held, Drop(a)
  PROVE  ExchangeInv'
<1>1. a \in DOMAIN arrays /\ arrays \in Seq(Array) /\ UNCHANGED <<memory, tensors, calls>>
  BY HeldWords DEF ExchangeInv, ExchangeTypeOK, Drop
<1>2. /\ arrays' \in Seq(Array) /\ DOMAIN arrays' = DOMAIN arrays
      /\ \A b \in DOMAIN arrays : /\ ArrayUse(b)' = ArrayUse(b)
                                  /\ arrays'[b].dtype = arrays[b].dtype
  <2>1. \A b \in DOMAIN arrays : arrays[b] \in Array
    BY <1>1
  <2>2. arrays' = [arrays EXCEPT ![a] = [arrays[a] EXCEPT !.dropped = TRUE]]
    BY DEF Drop
  <2>3. [arrays[a] EXCEPT !.dropped = TRUE] \in Array
    BY <1>1, <2>1 DEF Array
  <2> QED BY <1>1, <2>1, <2>2, <2>3 DEF ArrayUse, Array
<1>3. ExchangeTypeOK'
  <2>1. \A b \in DOMAIN arrays : arrays'[b].buf = arrays[b].buf
    BY <1>2 DEF ArrayUse
  <2> QED BY <1>1, <1>2, <2>1 DEF ExchangeInv, ExchangeTypeOK, Sized
<1>4. Uses' = Uses
  BY <1>1, <1>2 DEF Uses, TensorUse
<1>5. Families' /\ Lent'
  BY <1>4 DEF ExchangeInv, Families, Lent
<1>6. CopiesOwn' /\ CopiesHold' /\ MetadataAgrees'
  BY <1>1, TensorsStay
<1> QED BY <1>3, <1>5, <1>6 DEF ExchangeInv

\* Writing changes one buffer, and leaves its size.
LEMMA WrittenMemory ==
  ASSUME ExchangeInv, NEW a \in Held, Write(a)
  PROVE  /\ memory' \in Seq(Seq(Word)) /\ DOMAIN memory' = DOMAIN memory
         /\ \A b \in DOMAIN memory : Len(memory'[b]) = Len(memory[b])
         /\ \A b \in DOMAIN memory : b # arrays[a].buf => memory'[b] = memory[b]
<1> DEFINE buf == arrays[a].buf
           d == arrays[a].dtype
           first == Width(d) * ((IF arrays[a].layout = "C" THEN 2 ELSE 3) - 1)
           w == [i \in DOMAIN memory[buf] |-> IF i \in first + 1 .. first + Width(d)
                                             THEN NumberWords(d, 9)[i - first] ELSE memory[buf][i]]
<1>1. memory \in Seq(Seq(Word)) /\ buf \in DOMAIN memory /\ d \in AllDTypes
  <2>1. arrays[a] \in Array /\ arrays[a].buf \in DOMAIN memory
    BY HeldWords DEF ExchangeInv
  <2> QED BY <2>1 DEF Array, ExchangeInv, ExchangeTypeOK
<1>2. memory' = [memory EXCEPT ![buf] = w]
  BY DEF Write
<1>3. w \in Seq(Word) /\ Len(w) = Len(memory[buf])
  <2>1. memory[buf] \in Seq(Word)
    BY <1>1
  <2>2. NumberWords(d, 9) \in Seq(Word) /\ Len(NumberWords(d, 9)) = Width(d)
    BY <1>1, NumberWordsFit DEF Numbers
  <2>3. first \in Nat /\ Width(d) \in 1 .. 2
    BY <1>1, Widths
  <2>4. \A i \in DOMAIN memory[buf] : w[i] \in Word
    <3> SUFFICES ASSUME NEW i \in DOMAIN memory[buf] PROVE w[i] \in Word
      OBVIOUS
    <3> HIDE DEF first
    <3>1. CASE i \in first + 1 .. first + Width(d)
      <4>1. i - first \in 1 .. Len(NumberWords(d, 9))
        BY <3>1, <2>2, <2>3
      <4> QED BY <3>1, <4>1, <2>2
    <3>2. CASE i \notin first + 1 .. first + Width(d)
      BY <3>2, <2>1
    <3> QED BY <3>1, <3>2
  <2> PICK n \in Nat : n = Len(memory[buf]) /\ DOMAIN memory[buf] = 1 .. n
    BY <2>1
  <2>5. DOMAIN w = 1 .. n /\ w = [i \in 1 .. n |-> w[i]]
    OBVIOUS
  <2> HIDE DEF w
  <2>6. \A i \in 1 .. n : w[i] \in Word
    BY <2>4
  <2>7. w \in [1 .. n -> Word]
    BY <2>5, <2>6
  <2>8. w \in Seq(Word) /\ Len(w) = n
    BY <2>7
  <2> QED BY <2>8
<1> HIDE DEF w
<1> QED BY <1>1, <1>2, <1>3

LEMMA WriteStep ==
  ASSUME ExchangeInv, NEW a \in Held, Write(a)
  PROVE  ExchangeInv'
<1> USE DEF ExchangeInv
<1> DEFINE Alike(x, y) == /\ x.buf = y.buf /\ x.dtype = y.dtype /\ x.cells = y.cells
                          /\ x.cached_shape = y.cached_shape /\ x.cached_dtype = y.cached_dtype
                          /\ x.family = y.family /\ x.borrowed = y.borrowed
<1>1. a \in DOMAIN arrays /\ tensors \in Seq(Tensor) /\ UNCHANGED <<arrays, calls>>
  BY HeldWords DEF ExchangeTypeOK, Write
<1>2. /\ tensors' \in Seq(Tensor) /\ DOMAIN tensors' = DOMAIN tensors
      /\ \A t \in DOMAIN tensors :
           /\ Alike(tensors'[t], tensors[t])
           /\ tensors'[t].source # <<>> =>
                tensors'[t] = tensors[t] /\ tensors[t].family # arrays[a].family
  <2> DEFINE blank(t) == [tensors[t] EXCEPT !.source = <<>>]
  <2>1. \A t \in DOMAIN tensors : tensors[t] \in Tensor
    BY <1>1
  <2>2. ASSUME NEW t \in DOMAIN tensors
        PROVE  /\ blank(t) \in Tensor /\ blank(t).source = <<>>
               /\ Alike(blank(t), tensors[t])
    <3>1. tensors[t] \in Tensor /\ <<>> \in Seq(Numbers \cup {Garbage})
      BY <2>1
    <3>2. blank(t) \in Tensor
      BY <3>1 DEF Tensor
    <3> QED BY <3>1, <3>2 DEF Tensor
  <2>3. tensors' = [t \in DOMAIN tensors |->
                      IF tensors[t].family = arrays[a].family THEN blank(t) ELSE tensors[t]]
    BY DEF Write
  <2> HIDE DEF blank
  <2>4. \A t \in DOMAIN tensors : tensors'[t] \in Tensor
    BY <2>1, <2>2, <2>3
  <2>5. tensors' \in Seq(Tensor) /\ DOMAIN tensors' = DOMAIN tensors
    BY <1>1, <2>3, <2>4
  <2> QED BY <2>2, <2>3, <2>5
<1>3. \A t \in DOMAIN tensors :
        /\ tensors'[t].buf = tensors[t].buf /\ tensors'[t].dtype = tensors[t].dtype
        /\ TensorUse(t)' = TensorUse(t) /\ Shape(t)' = Shape(t) /\ DType(t)' = DType(t)
        /\ tensors'[t].cells = tensors[t].cells
  BY <1>2 DEF TensorUse, Shape, DType
<1>4. ExchangeTypeOK'
  <2>1. \A b \in DOMAIN arrays' : Sized(arrays[b])'
    BY <1>1, WrittenMemory DEF ExchangeTypeOK, Sized
  <2>2. \A t \in DOMAIN tensors' : Sized(tensors[t])'
    <3> SUFFICES ASSUME NEW t \in DOMAIN tensors PROVE Sized(tensors[t])'
      BY <1>2
    <3>1. Sized(tensors[t])
      BY DEF ExchangeTypeOK
    <3> QED BY <1>3, <3>1, WrittenMemory DEF Sized
  <2> QED BY <1>1, <1>2, <2>1, <2>2, WrittenMemory DEF ExchangeTypeOK
<1>5. Families' /\ Lent'
  <2>1. Uses' = Uses
    BY <1>1, <1>2, <1>3 DEF Uses, ArrayUse
  <2> QED BY <2>1 DEF Families, Lent
<1>6. CopiesOwn' /\ MetadataAgrees'
  BY <1>2, <1>3 DEF CopiesOwn, MetadataAgrees
<1>7. CopiesHold'
  <2> SUFFICES ASSUME NEW t \in DOMAIN tensors', tensors'[t].source # <<>>,
                      ~tensors'[t].strided, ~tensors'[t].bf16
               PROVE  TensorMatrix(t)' = tensors'[t].source
    BY DEF CopiesHold
  <2>1. t \in DOMAIN tensors /\ tensors'[t] = tensors[t] /\ tensors[t].family # arrays[a].family
    BY <1>2
  <2>2. tensors[t].buf # arrays[a].buf
    <3>1. ArrayUse(a) \in Uses /\ TensorUse(t) \in Uses
      BY <1>1, <2>1 DEF Uses
    <3> QED BY <3>1, <2>1 DEF Families, ArrayUse, TensorUse
  <2>3. memory'[tensors[t].buf] = memory[tensors[t].buf]
    BY <2>1, <2>2, WrittenMemory DEF ExchangeTypeOK, Sized
  <2> QED BY <2>1, <2>3, CopyStays DEF CopiesHold
<1> QED BY <1>4, <1>5, <1>6, <1>7

-------------------------------------------------------------------------------
(* Making tensors                                                              *)

LEMMA FreshTensor ==
  ASSUME ExchangeInv, Call, UNCHANGED arrays, NEW words \in Seq(Word), NEW x \in Tensor,
         memory' = Append(memory, words), AddTensor(x),
         x.buf = Len(memory) + 1, Len(words) = 4 * Width(x.dtype),
         x.cached_shape \in {"None", x.cells, "-1"}, x.cached_dtype \in {"None", x.dtype},
         x.source # <<>> => /\ ~x.borrowed
                            /\ ~x.strided /\ ~x.bf16 =>
                                 x.source = [k \in Cells |-> Decode(x.dtype, words, k)]
  PROVE  ExchangeInv'
<1>1. calls' \in 0 .. MaxCalls
  BY CallCounts DEF ExchangeInv
<1>2. /\ Grows /\ memory'[x.buf] = words /\ x.buf \in DOMAIN memory'
      /\ \A o \in Uses : o.buf # x.buf
  BY <1>1, AppendGrows DEF ExchangeInv
<1>3. Joins([buf |-> x.buf, family |-> x.family, borrowed |-> x.borrowed, mps |-> FALSE])
  BY <1>2 DEF Joins
<1>4. GoodTensor(x)
  BY <1>2, <1>3 DEF GoodTensor
<1> QED BY <1>2, <1>4, TensorJoins

\* A handle to new memory, with nothing known of where its values come from.
LEMMA HandleFits ==
  ASSUME NEW buf \in Nat, NEW d \in AllDTypes, NEW cells \in {"2x2", "4"}, NEW family \in Nat,
         NEW borrowed \in BOOLEAN
  PROVE  FromHandle(buf, d, cells, family, borrowed) \in Tensor
<1>1. <<>> \in Seq(Numbers \cup {Garbage})
  OBVIOUS
<1> QED BY <1>1 DEF FromHandle, Tensor

LEMMA NewTensorStep ==
  ASSUME ExchangeInv, Call, NEW words \in Seq(Word), NEW d \in AllDTypes,
         Len(words) = 4 * Width(d), NewTensor(words, d)
  PROVE  ExchangeInv'
<1> PICK n \in Nat : n = Len(memory) + 1
  BY DEF ExchangeInv, ExchangeTypeOK
<1> PICK f \in Nat : f = NewFamily
  BY DEF ExchangeInv, ExchangeTypeOK, NewFamily
<1> PICK h \in Tensor : h = FromHandle(n, d, "2x2", f, FALSE)
  BY HandleFits
<1> PICK x : x = [h EXCEPT !.cached_dtype = d]
  OBVIOUS
<1>1. x \in Tensor
  BY DEF Tensor
<1>2. /\ x.buf = n /\ x.dtype = d /\ x.cached_shape = "None" /\ x.cached_dtype = d
      /\ x.source = <<>>
  BY DEF FromHandle
<1>3. memory' = Append(memory, words) /\ AddTensor(x) /\ UNCHANGED arrays
  BY DEF NewTensor
<1> QED BY <1>1, <1>2, <1>3, FreshTensor

LEMMA CopyStep ==
  ASSUME ExchangeInv, NEW t \in DOMAIN tensors, CopyTensor(t)
  PROVE  ExchangeInv'
<1>1. /\ Shown(t) \in AllDTypes /\ Words(tensors[t].buf) \in Seq(Word)
      /\ Len(Words(tensors[t].buf)) >= 4 * Width(Shown(t))
  BY TensorWords DEF ExchangeInv, Shown, Width, AllDTypes
<1>2. /\ FromNumpy(Words(tensors[t].buf), Shown(t)) \in Seq(Word)
      /\ Len(FromNumpy(Words(tensors[t].buf), Shown(t))) = 4 * Width(Shown(t))
  BY <1>1, FromNumpyFits
<1> QED BY <1>1, <1>2, NewTensorStep DEF CopyTensor

LEMMA TransposedStep ==
  ASSUME ExchangeInv, NEW t \in DOMAIN tensors, transpose(t)
  PROVE  ExchangeInv'
<1>1. /\ tensors[t].dtype \in AllDTypes /\ Words(tensors[t].buf) \in Seq(Word)
      /\ Len(Words(tensors[t].buf)) >= 4 * Width(tensors[t].dtype)
  BY TensorWords DEF ExchangeInv
<1> QED BY <1>1, RowMajorFits, NewTensorStep DEF transpose

LEMMA ComputeStep ==
  ASSUME ExchangeInv, NEW d \in Requested, Compute(d)
  PROVE  ExchangeInv'
<1> PICK words : words = Encoded(d, <<9, 9, 9, 9>>)
  OBVIOUS
<1> PICK n \in Nat : n = Len(memory) + 1
  BY DEF ExchangeInv, ExchangeTypeOK
<1> PICK f \in Nat : f = NewFamily
  BY DEF ExchangeInv, ExchangeTypeOK, NewFamily
<1>1. d \in AllDTypes
  BY ExchangeAssumption
<1> PICK x \in Tensor : x = FromHandle(n, d, "2x2", f, FALSE)
  BY <1>1, HandleFits
<1>2. words \in Seq(Word) /\ Len(words) = 4 * Width(d)
  <2>1. \A k \in Cells : <<9, 9, 9, 9>>[k] \in Numbers \cup {Garbage}
    BY DEF Cells, Numbers
  <2> QED BY <1>1, <2>1, EncodedFits
<1>3. /\ x.buf = n /\ x.dtype = d /\ x.cached_shape = "None" /\ x.cached_dtype = "None"
      /\ x.source = <<>>
  BY DEF FromHandle
<1>4. memory' = Append(memory, words) /\ AddTensor(x) /\ UNCHANGED arrays /\ Call
  BY DEF Compute
<1> QED BY <1>2, <1>3, <1>4, FreshTensor

LEMMA ReshapeStep ==
  ASSUME ExchangeInv, NEW t \in DOMAIN tensors, reshape(t)
  PROVE  ExchangeInv'
<1> PICK x : x = [FromHandle(tensors[t].buf, tensors[t].dtype, "4", tensors[t].family,
                             tensors[t].borrowed) EXCEPT !.bf16 = tensors[t].bf16]
  OBVIOUS
<1>1. tensors[t] \in Tensor /\ Sized(tensors[t])
  BY TensorWords DEF ExchangeInv, ExchangeTypeOK
<1>2. x \in Tensor
  <2>1. FromHandle(tensors[t].buf, tensors[t].dtype, "4", tensors[t].family,
                   tensors[t].borrowed) \in Tensor
    BY <1>1, HandleFits DEF Tensor
  <2> QED BY <1>1, <2>1 DEF Tensor
<1>3. /\ x.buf = tensors[t].buf /\ x.dtype = tensors[t].dtype /\ x.family = tensors[t].family
      /\ x.borrowed = tensors[t].borrowed /\ x.cached_shape = "None" /\ x.cached_dtype = "None"
      /\ x.source = <<>>
  BY DEF FromHandle
<1>4. AddTensor(x) /\ UNCHANGED <<memory, arrays>> /\ calls' \in 0 .. MaxCalls
  BY CallCounts DEF reshape, ExchangeInv
<1>5. Grows
  BY <1>4, SameMemory DEF ExchangeInv
<1>6. Joins([buf |-> x.buf, family |-> x.family, borrowed |-> x.borrowed, mps |-> FALSE])
  BY <1>3 DEF Joins, Uses, TensorUse
<1>7. GoodTensor(x)
  BY <1>1, <1>2, <1>3, <1>4, <1>6 DEF GoodTensor, Sized
<1> QED BY <1>4, <1>5, <1>7, TensorJoins

\* The dtype of the tensor that is made.
Native(a, dtype) == IF dtype = "None" THEN arrays[a].dtype ELSE dtype

\* What numpy hands over is as large as it must be, and holds the array's cells unless
\* the array was transposed or bfloat16 has a part in it.
LEMMA PreparedFits ==
  ASSUME ExchangeTypeOK, NEW a \in Held, NEW dtype \in AllDTypes \cup {"None"},
         NEW shape \in {"None", "4", "-1"}
  PROVE  LET words == FromNumpy(Prepared(a, dtype, shape), Native(a, dtype)) IN
         /\ words \in Seq(Word) /\ Len(words) = 4 * Width(Native(a, dtype))
         /\ ~(shape = "None" /\ arrays[a].layout = "T") /\ dtype # "bfloat16" =>
              [k \in Cells |-> Decode(Native(a, dtype), words, k)] = ArrayMatrix(a)
<1> DEFINE d == arrays[a].dtype
           raw == IF shape = "None" THEN Words(arrays[a].buf) ELSE ArrayWords(a)
           straight == ~(shape = "None" /\ arrays[a].layout = "T")
<1>1. /\ arrays[a] \in Array /\ d \in AllDTypes /\ arrays[a].layout \in {"C", "T"}
      /\ Words(arrays[a].buf) \in Seq(Word) /\ Len(Words(arrays[a].buf)) = 4 * Width(d)
      /\ ArrayWords(a) \in Seq(Word) /\ Len(ArrayWords(a)) = 4 * Width(d)
  BY HeldWords DEF Array
<1>2. raw \in Seq(Word) /\ Len(raw) = 4 * Width(d) /\ (straight => raw = ArrayWords(a))
  BY <1>1 DEF ArrayWords
<1> HIDE DEF raw
<1>3. straight => ArrayMatrix(a) = [k \in Cells |-> Decode(d, raw, k)]
  BY <1>2 DEF ArrayMatrix
<1>4. Width(d) \in 1 .. 2
  BY <1>1, Widths
<1>5. CASE dtype = "None"
  <2>1. Prepared(a, dtype, shape) = raw /\ Native(a, dtype) = d
    BY <1>5 DEF Prepared, Native, raw
  <2>2. Len(raw) >= 4 * Width(d)
    BY <1>2, <1>4
  <2> QED BY <2>1, <2>2, <1>1, <1>2, <1>3, FromNumpyFits
<1>6. CASE dtype = "bfloat16"
  <2>1. Prepared(a, dtype, shape) = raw /\ Native(a, dtype) = "bfloat16"
    BY <1>6 DEF Prepared, Native, raw
  <2>2. "bfloat16" \in AllDTypes /\ Len(raw) >= 4 * Width("bfloat16")
    BY <1>2, <1>4 DEF Width, AllDTypes
  <2> QED BY <2>1, <2>2, <1>2, <1>6, FromNumpyFits
<1>7. CASE dtype \notin {"None", "bfloat16"}
  <2> DEFINE cells == [k \in Cells |-> Decode(d, raw, k)]
  <2>1. /\ Prepared(a, dtype, shape) = Encoded(dtype, cells)
        /\ Native(a, dtype) = dtype /\ dtype \in AllDTypes
    BY <1>7 DEF Prepared, Native, raw
  <2>2. \A k \in Cells : cells[k] \in Numbers \cup {Garbage}
    BY <1>1, <1>2, <1>4, DecodeFits
  <2>3. straight => ArrayMatrix(a) = cells
    BY <1>3
  <2>4. cells = [k \in Cells |-> cells[k]]
    OBVIOUS
  <2> HIDE DEF cells
  <2>5. /\ Encoded(dtype, cells) \in Seq(Word) /\ Len(Encoded(dtype, cells)) = 4 * Width(dtype)
        /\ \A k \in Cells : Decode(dtype, Encoded(dtype, cells), k) = cells[k]
    BY <2>1, <2>2, EncodedFits
  <2>6. Len(Encoded(dtype, cells)) >= 4 * Width(dtype)
    BY <2>1, <2>5, Widths
  <2>7. /\ FromNumpy(Encoded(dtype, cells), dtype) \in Seq(Word)
        /\ Len(FromNumpy(Encoded(dtype, cells), dtype)) = 4 * Width(dtype)
        /\ \A k \in Cells : Decode(dtype, FromNumpy(Encoded(dtype, cells), dtype), k) = cells[k]
    BY <2>1, <2>5, <2>6, FromNumpyFits
  <2> QED BY <2>1, <2>3, <2>4, <2>7
<1> QED BY <1>5, <1>6, <1>7

\* A tensor that knows the matrix it was copied from.
LEMMA FunctionIsSeq ==
  ASSUME NEW S, NEW n \in Nat, NEW m \in [1 .. n -> S]
  PROVE  m \in Seq(S) /\ Len(m) = n
OBVIOUS

LEMMA MarkedFits ==
  ASSUME NEW y \in Tensor, NEW b \in BOOLEAN, NEW c \in BOOLEAN
  PROVE  [y EXCEPT !.bf16 = b, !.strided = c] \in Tensor
BY DEF Tensor

LEMMA CopyFits ==
  ASSUME NEW h \in Tensor, NEW source \in [Cells -> Numbers \cup {Garbage}],
         NEW d \in AllDTypes, NEW shape \in {"None", "4", "-1"}
  PROVE  [h EXCEPT !.cached_shape = shape, !.cached_dtype = d, !.source = source] \in Tensor
<1>1. source \in Seq(Numbers \cup {Garbage})
  BY FunctionIsSeq DEF Cells
<1> QED BY <1>1 DEF Tensor

LEMMA ConstructedStep ==
  ASSUME ExchangeInv, Call, UNCHANGED arrays, NEW a \in Held,
         NEW dtype \in AllDTypes \cup {"None"}, NEW shape \in {"None", "4", "-1"},
         memory' = Append(memory, FromNumpy(Prepared(a, dtype, shape), Native(a, dtype))),
         AddTensor(Constructed(a, dtype, shape))
  PROVE  ExchangeInv'
<1> PICK words : words = FromNumpy(Prepared(a, dtype, shape), Native(a, dtype))
  OBVIOUS
<1> PICK n \in Nat : n = Len(memory) + 1
  BY DEF ExchangeInv, ExchangeTypeOK
<1> PICK f \in Nat : f = NewFamily
  BY DEF ExchangeInv, ExchangeTypeOK, NewFamily
<1> PICK source : source = ArrayMatrix(a)
  OBVIOUS
<1>1. source \in [Cells -> Numbers \cup {Garbage}] /\ arrays[a] \in Array
  BY HeldWords DEF ExchangeInv
<1> PICK d \in AllDTypes : d = Native(a, dtype)
  BY <1>1 DEF Native, Array
<1> PICK h \in Tensor : h = FromHandle(n, d, IF shape = "None" THEN "2x2" ELSE "4", f, FALSE)
  BY HandleFits
<1> PICK y : y = [h EXCEPT !.cached_shape = shape, !.cached_dtype = d, !.source = source]
  OBVIOUS
<1> DEFINE strided == shape = "None" /\ arrays[a].layout = "T"
           bf16 == "bfloat16" \in {dtype, arrays[a].dtype}
           copied == [y EXCEPT !.bf16 = bf16, !.strided = strided]
<1> PICK x : x = copied
  OBVIOUS
<1>2. y \in Tensor /\ x \in Tensor
  <2>1. y \in Tensor
    BY <1>1, CopyFits
  <2>2. \A b, c \in BOOLEAN : [y EXCEPT !.bf16 = b, !.strided = c] \in Tensor
    BY <2>1, MarkedFits, ZenonT(60)
  <2>3. copied \in Tensor
    <3>1. bf16 \in BOOLEAN /\ strided \in BOOLEAN
      OBVIOUS
    <3> HIDE DEF bf16, strided
    <3> QED BY <2>2, <3>1, Zenon
  <2> QED BY <2>1, <2>3
<1>3. x = Constructed(a, dtype, shape)
  BY DEF Constructed, Native
<1>4. /\ x.buf = n /\ x.dtype = d /\ x.borrowed = FALSE /\ x.cached_dtype = d
      /\ x.cells = (IF shape = "None" THEN "2x2" ELSE "4") /\ x.cached_shape = shape
      /\ x.source = source /\ x.strided = strided /\ x.bf16 = bf16
  <2>1. h.buf = n /\ h.dtype = d /\ h.borrowed = FALSE /\ h.cells = (IF shape = "None" THEN "2x2" ELSE "4")
    BY DEF FromHandle
  <2> QED BY <2>1 DEF Tensor
<1>5. /\ words \in Seq(Word) /\ Len(words) = 4 * Width(d)
      /\ ~strided /\ ~bf16 => source = [k \in Cells |-> Decode(d, words, k)]
  BY PreparedFits DEF ExchangeInv
<1>6. x.cached_shape \in {"None", x.cells, "-1"}
  BY <1>4
<1>7. x.source # <<>> => /\ ~x.borrowed
                         /\ ~x.strided /\ ~x.bf16 =>
                              x.source = [k \in Cells |-> Decode(x.dtype, words, k)]
  BY <1>4, <1>5
<1> HIDE DEF copied
<1>8. memory' = Append(memory, words) /\ AddTensor(x)
  BY <1>3
<1> QED BY <1>2, <1>4, <1>5, <1>6, <1>7, <1>8, FreshTensor

LEMMA ConstructStep ==
  ASSUME ExchangeInv, NEW a \in Held, NEW dtype \in Requested \cup {"None"},
         NEW shape \in {"None", "4", "-1"}, Construct(a, dtype, shape)
  PROVE  ExchangeInv'
<1>1. dtype \in AllDTypes \cup {"None"}
  BY ExchangeAssumption
<1> QED BY <1>1, ConstructedStep DEF Construct, Native

LEMMA FromTorchStep ==
  ASSUME ExchangeInv, NEW a \in Held, FromTorch(a)
  PROVE  ExchangeInv'
<1>1. Native(a, "None") = arrays[a].dtype
  BY DEF Native
<1> QED BY <1>1, ConstructedStep DEF FromTorch

LEMMA FromMpsStep ==
  ASSUME ExchangeInv, NEW a \in Held, FromMps(a)
  PROVE  ExchangeInv'
<1> PICK n \in Nat : n = Len(memory) + 1
  BY DEF ExchangeInv, ExchangeTypeOK
<1> PICK f \in Nat : f = NewFamily
  BY DEF ExchangeInv, ExchangeTypeOK, NewFamily
<1>1. /\ a \in DOMAIN arrays /\ arrays[a] \in Array /\ Sized(arrays[a]) /\ Call
      /\ arrays[a].buf \in Nat /\ arrays[a].dtype \in AllDTypes /\ arrays[a].family \in Nat
  <2>1. a \in DOMAIN arrays /\ arrays[a] \in Array
    BY HeldWords DEF ExchangeInv
  <2> QED BY <2>1 DEF ExchangeInv, ExchangeTypeOK, Array, FromMps
<1>2. CASE arrays[a].layout = "C"
  <2> PICK x \in Tensor : x = FromHandle(arrays[a].buf, arrays[a].dtype, "2x2", arrays[a].family, TRUE)
    BY <1>1, HandleFits
  <2>1. /\ x.buf = arrays[a].buf /\ x.dtype = arrays[a].dtype /\ x.family = arrays[a].family
        /\ x.borrowed = TRUE /\ x.cached_shape = "None" /\ x.cached_dtype = "None"
        /\ x.source = <<>>
    BY DEF FromHandle
  <2>2. AddTensor(x) /\ UNCHANGED <<memory, arrays>> /\ arrays[a].kind = "mps"
    BY <1>2 DEF FromMps
  <2>3. Grows
    BY <1>1, <2>2, CallCounts, SameMemory DEF ExchangeInv
  <2>4. Joins([buf |-> x.buf, family |-> x.family, borrowed |-> x.borrowed, mps |-> FALSE])
    <3>1. ArrayUse(a) \in Uses
      BY <1>1 DEF Uses
    <3>2. /\ ArrayUse(a).mps /\ ArrayUse(a).buf = x.buf /\ ArrayUse(a).family = x.family
      BY <2>1, <2>2 DEF ArrayUse
    <3> QED BY <2>1, <3>1, <3>2 DEF Joins
  <2>5. GoodTensor(x)
    BY <1>1, <2>1, <2>2, <2>4 DEF GoodTensor, Sized
  <2> QED BY <2>2, <2>3, <2>5, TensorJoins
<1>3. CASE arrays[a].layout # "C"
  <2> PICK x \in Tensor : x = FromHandle(n, arrays[a].dtype, "2x2", f, TRUE)
    BY <1>1, HandleFits
  <2>1. /\ x.buf = n /\ x.dtype = arrays[a].dtype /\ x.cached_shape = "None"
        /\ x.cached_dtype = "None" /\ x.source = <<>>
    BY DEF FromHandle
  <2>2. memory' = Append(memory, ArrayWords(a)) /\ AddTensor(x) /\ UNCHANGED arrays
    BY <1>3 DEF FromMps
  <2>3. ArrayWords(a) \in Seq(Word) /\ Len(ArrayWords(a)) = 4 * Width(arrays[a].dtype)
    BY HeldWords DEF ExchangeInv
  <2> QED BY <1>1, <2>1, <2>2, <2>3, FreshTensor
<1> QED BY <1>2, <1>3

LEMMA FromMpsCopiedStep ==
  ASSUME ExchangeInv, NEW a \in Held, FromMpsCopied(a)
  PROVE  ExchangeInv'
<1> PICK n \in Nat : n = Len(memory) + 1
  BY DEF ExchangeInv, ExchangeTypeOK
<1> PICK f \in Nat : f = NewFamily
  BY DEF ExchangeInv, ExchangeTypeOK, NewFamily
<1>1. /\ arrays[a] \in Array /\ arrays[a].dtype \in AllDTypes
      /\ ArrayWords(a) \in Seq(Word) /\ Len(ArrayWords(a)) = 4 * Width(arrays[a].dtype)
      /\ ArrayMatrix(a) \in [Cells -> Numbers \cup {Garbage}]
  BY HeldWords DEF ExchangeInv, Array
<1> PICK h \in Tensor : h = FromHandle(n, arrays[a].dtype, "2x2", f, FALSE)
  BY <1>1, HandleFits
<1> PICK x : x = [h EXCEPT !.source = ArrayMatrix(a)]
  OBVIOUS
<1>2. x \in Tensor
  <2>1. ArrayMatrix(a) \in Seq(Numbers \cup {Garbage})
    BY <1>1, FunctionIsSeq DEF Cells
  <2> QED BY <2>1 DEF Tensor
<1>3. /\ x.buf = n /\ x.dtype = arrays[a].dtype /\ x.cached_shape = "None"
      /\ x.cached_dtype = "None" /\ x.borrowed = FALSE /\ x.source = ArrayMatrix(a)
  BY DEF FromHandle
<1>4. x.source = [k \in Cells |-> Decode(x.dtype, ArrayWords(a), k)]
  BY <1>3 DEF ArrayMatrix
<1>5. memory' = Append(memory, ArrayWords(a)) /\ AddTensor(x) /\ UNCHANGED arrays /\ Call
  BY DEF FromMpsCopied
<1> QED BY <1>1, <1>2, <1>3, <1>4, <1>5, FreshTensor

-------------------------------------------------------------------------------
(* Preparing a model                                                           *)

\* A parameter's new memory is beyond all that is in use, and as large.
LEMMA PortedMemory ==
  ASSUME ExchangeInv, prepare_model
  PROVE  /\ Grows
         /\ \A a \in Converted : /\ a \in Held /\ a \in DOMAIN arrays /\ arrays[a].kind = "torch"
                                 /\ Len(memory) + a \in DOMAIN memory' /\ Len(memory) + a > Len(memory)
                                 /\ memory'[Len(memory) + a] = Ported(a)
                                 /\ Len(Ported(a)) = 4 * Width(arrays[a].dtype)
<1> DEFINE ext == [a \in DOMAIN arrays |-> IF a \in Converted THEN Ported(a) ELSE <<>>]
<1> PICK n \in Nat : n = Len(arrays) /\ DOMAIN arrays = 1 .. n
  BY DEF ExchangeInv, ExchangeTypeOK
<1>1. \A a \in Converted : a \in Held /\ a \in DOMAIN arrays /\ arrays[a].kind = "torch"
  BY DEF Converted, ModelParams, Held
<1>2. ASSUME NEW a \in Converted
      PROVE  Ported(a) \in Seq(Word) /\ Len(Ported(a)) = 4 * Width(arrays[a].dtype)
  <2>1. Native(a, "None") = arrays[a].dtype
    BY DEF Native
  <2> QED BY <1>1, <2>1, PreparedFits DEF Ported, ExchangeInv
<1>3. ext \in Seq(Seq(Word)) /\ Len(ext) = n
  <2>1. \A a \in 1 .. n : ext[a] \in Seq(Word)
    BY <1>2
  <2>2. ext \in [1 .. n -> Seq(Word)]
    BY <2>1
  <2> QED BY <2>2, FunctionIsSeq
<1>4. \A a \in Converted : a \in 1 .. n /\ ext[a] = Ported(a)
  BY <1>1
<1>5. memory' = memory \o ext /\ memory \in Seq(Seq(Word))
  BY DEF prepare_model, ExchangeInv, ExchangeTypeOK
<1> HIDE DEF ext
<1>6. Grows
  <2>1. memory' \in Seq(Seq(Word)) /\ Len(memory') = Len(memory) + n
    BY <1>3, <1>5
  <2>2. \A b \in DOMAIN memory : memory'[b] = memory[b]
    BY <1>3, <1>5
  <2>3. calls' \in 0 .. MaxCalls
    BY CallCounts DEF prepare_model, ExchangeInv
  <2> QED BY <1>5, <2>1, <2>2, <2>3 DEF Grows
<1>7. ASSUME NEW a \in Converted
      PROVE  /\ Len(memory) + a \in DOMAIN memory' /\ Len(memory) + a > Len(memory)
             /\ memory'[Len(memory) + a] = Ported(a)
  BY <1>3, <1>4, <1>5
<1> QED BY <1>1, <1>2, <1>6, <1>7

\* What becomes of the arrays.
LEMMA PortedArrays ==
  ASSUME ExchangeInv, prepare_model
  PROVE  /\ arrays' \in Seq(Array) /\ DOMAIN arrays' = DOMAIN arrays
         /\ \A a \in DOMAIN arrays : a \notin Converted => arrays'[a] = arrays[a]
         /\ \A a \in Converted :
              /\ arrays'[a].kind = arrays[a].kind /\ arrays'[a].dtype = arrays[a].dtype
              /\ arrays'[a].dropped = arrays[a].dropped
              /\ arrays'[a].buf = Len(memory) + a /\ arrays'[a].layout = "C"
              /\ arrays'[a].family = MaxArrays + MaxExchanged + Len(memory) + a
              /\ arrays'[a].borrowed = FALSE
<1> PICK n \in Nat : n = Len(arrays) /\ DOMAIN arrays = 1 .. n
  BY DEF ExchangeInv, ExchangeTypeOK
<1> PICK m \in Nat : m = Len(memory)
  BY DEF ExchangeInv, ExchangeTypeOK
<1> DEFINE moved(a) == [arrays[a] EXCEPT !.buf = m + a, !.layout = "C",
                                         !.family = MaxArrays + MaxExchanged + m + a,
                                         !.borrowed = FALSE]
<1>1. arrays \in Seq(Array) /\ \A a \in DOMAIN arrays : arrays[a] \in Array
  BY DEF ExchangeInv, ExchangeTypeOK
<1>2. ASSUME NEW a \in DOMAIN arrays
      PROVE  /\ moved(a) \in Array
             /\ moved(a).kind = arrays[a].kind /\ moved(a).dtype = arrays[a].dtype
             /\ moved(a).dropped = arrays[a].dropped
             /\ moved(a).buf = m + a /\ moved(a).layout = "C"
             /\ moved(a).family = MaxArrays + MaxExchanged + m + a
             /\ moved(a).borrowed = FALSE
  <2>1. m + a \in Nat /\ MaxArrays + MaxExchanged + m + a \in Nat
    BY ExchangeAssumption
  <2> QED BY <1>1, <2>1 DEF Array
<1>3. arrays' = [a \in DOMAIN arrays |-> IF a \in Converted THEN moved(a) ELSE arrays[a]]
  BY DEF prepare_model
<1>4. Converted \subseteq DOMAIN arrays
  BY DEF Converted, ModelParams, Held
<1> HIDE DEF moved
<1>5. arrays' \in [1 .. n -> Array]
  BY <1>1, <1>2, <1>3
<1>6. arrays' \in Seq(Array)
  BY <1>5, FunctionIsSeq
<1> QED BY <1>2, <1>3, <1>4, <1>6

LEMMA PrepareStep ==
  ASSUME ExchangeInv, prepare_model
  PROVE  ExchangeInv'
<1> USE DEF ExchangeInv
<1> PICK m \in Nat : m = Len(memory)
  BY DEF ExchangeTypeOK
<1> DEFINE fresh(a) == [buf |-> m + a, family |-> MaxArrays + MaxExchanged + m + a,
                        borrowed |-> FALSE, mps |-> FALSE]
<1>1. UNCHANGED tensors /\ Converted \subseteq DOMAIN arrays
  BY DEF prepare_model, Converted, ModelParams, Held
<1>2. ExchangeTypeOK'
  <2>1. ASSUME NEW a \in DOMAIN arrays' PROVE Sized(arrays[a])'
    <3>1. CASE a \in Converted
      BY <3>1, PortedMemory, PortedArrays DEF Sized
    <3>2. CASE a \notin Converted
      <4>1. a \in DOMAIN arrays /\ Sized(arrays[a]) /\ arrays'[a] = arrays[a]
        BY <3>2, PortedArrays DEF ExchangeTypeOK
      <4> QED BY <4>1, PortedMemory DEF Sized, Grows
    <3> QED BY <3>1, <3>2
  <2>2. \A t \in DOMAIN tensors' : Sized(tensors[t])'
    BY <1>1, PortedMemory DEF ExchangeTypeOK, Grows, Sized
  <2> QED BY <1>1, <2>1, <2>2, PortedMemory, PortedArrays DEF ExchangeTypeOK, Grows
<1>3. Uses' \subseteq Uses \cup {fresh(a) : a \in Converted}
  <2>1. ASSUME NEW a \in DOMAIN arrays'
        PROVE  ArrayUse(a)' \in Uses \cup {fresh(b) : b \in Converted}
    <3>1. CASE a \in Converted
      <4>1. ArrayUse(a)' = fresh(a)
        BY <3>1, PortedArrays, PortedMemory DEF ArrayUse
      <4> QED BY <3>1, <4>1
    <3>2. CASE a \notin Converted
      BY <3>2, PortedArrays DEF Uses, ArrayUse
    <3> QED BY <3>1, <3>2
  <2>2. \A t \in DOMAIN tensors' : TensorUse(t)' \in Uses
    BY <1>1 DEF Uses, TensorUse
  <2> HIDE DEF fresh
  <2>3. Uses' = {ArrayUse(a)' : a \in DOMAIN arrays'} \cup {TensorUse(t)' : t \in DOMAIN tensors'}
    BY DEF Uses
  <2> QED BY <2>1, <2>2, <2>3
<1>4. \A o \in Uses : \A a \in Converted : o.buf # fresh(a).buf
  <2>1. \A o \in Uses : o.buf \in 1 .. m
    BY DEF ExchangeTypeOK, Uses, ArrayUse, TensorUse, Sized
  <2>2. \A a \in Converted : m + a > m
    BY PortedMemory
  <2> QED BY <2>1, <2>2
<1>5. \A a, b \in Converted : /\ fresh(a).buf = fresh(b).buf => fresh(a).family = fresh(b).family
                              /\ ~fresh(a).borrowed /\ ~fresh(a).mps
  <2>1. Converted \subseteq Nat
    BY <1>1 DEF ExchangeTypeOK
  <2> QED BY <2>1
<1>6. Families' /\ Lent'
  <2> HIDE DEF fresh
  <2>1. Families'
    BY <1>3, <1>4, <1>5 DEF Families
  <2>2. Lent'
    BY <1>3, <1>4, <1>5 DEF Lent
  <2> QED BY <2>1, <2>2
<1>7. CopiesOwn' /\ CopiesHold' /\ MetadataAgrees'
  BY <1>1, PortedMemory, TensorsStay DEF ExchangeTypeOK, Sized, Grows
<1> QED BY <1>2, <1>6, <1>7

\* Whoever keeps the memory of an array in use goes on keeping it.
LEMMA PreparedKeeps ==
  ASSUME ExchangeInv, prepare_model, NEW a \in Held, arrays[a].layout = "C"
  PROVE  ArrayMatrix(a)' = ArrayMatrix(a)
<1> USE DEF ExchangeInv
<1>1. /\ a \in DOMAIN arrays /\ arrays[a] \in Array /\ arrays[a].dtype \in AllDTypes
      /\ Words(arrays[a].buf) = memory[arrays[a].buf] /\ arrays[a].buf \in DOMAIN memory
      /\ ~arrays[a].dropped
  BY HeldWords DEF Array, Held
<1>2. CASE a \in Converted
  <2> DEFINE d == arrays[a].dtype
  <2>1. /\ arrays'[a].dtype = d /\ arrays'[a].layout = "C" /\ ~arrays'[a].dropped
        /\ ~arrays'[a].borrowed /\ a \in DOMAIN arrays'
        /\ memory'[arrays'[a].buf] = Ported(a)
    BY <1>1, <1>2, PortedArrays, PortedMemory
  <2>2. Kept(arrays[a].buf)'
    BY <2>1 DEF Kept
  <2>3. ArrayWords(a)' = Ported(a)
    BY <2>1, <2>2 DEF ArrayWords, Words
  <2>4. [k \in Cells |-> Decode(d, Ported(a), k)] = ArrayMatrix(a)
    BY PreparedFits DEF Ported, Native
  <2> QED BY <2>1, <2>3, <2>4 DEF ArrayMatrix
<1>3. CASE a \notin Converted
  <2>1. arrays'[a] = arrays[a] /\ a \in DOMAIN arrays' /\ memory'[arrays[a].buf] = memory[arrays[a].buf]
    BY <1>1, <1>3, PortedArrays, PortedMemory DEF Grows
  <2>2. Kept(arrays[a].buf)'
    <3>1. CASE ~arrays[a].borrowed
      BY <1>1, <2>1, <3>1 DEF Kept
    <3>2. CASE arrays[a].borrowed
      <4>1. Kept(arrays[a].buf)
        BY <3>2 DEF Held
      <4>2. UNCHANGED tensors /\ DOMAIN arrays' = DOMAIN arrays
        BY PortedArrays DEF prepare_model
      <4>3. ASSUME NEW b \in DOMAIN arrays, arrays[b].buf = arrays[a].buf,
                   ~arrays[b].borrowed, ~arrays[b].dropped
            PROVE  arrays'[b] = arrays[b]
        <5>1. ArrayUse(a) \in Uses /\ ArrayUse(b) \in Uses
          BY <1>1 DEF Uses
        <5>2. ArrayUse(b).mps
          BY <3>2, <4>3, <5>1 DEF Lent, ArrayUse
        <5>3. b \notin Converted
          BY <5>2, PortedMemory DEF ArrayUse
        <5> QED BY <5>3, PortedArrays
      <4>4. CASE \E b \in DOMAIN arrays :
                   arrays[b].buf = arrays[a].buf /\ ~arrays[b].borrowed /\ ~arrays[b].dropped
        <5> PICK b \in DOMAIN arrays :
                   arrays[b].buf = arrays[a].buf /\ ~arrays[b].borrowed /\ ~arrays[b].dropped
          BY <4>4
        <5>1. arrays'[b] = arrays[b] /\ b \in DOMAIN arrays'
          BY <4>2, <4>3
        <5> QED BY <2>1, <5>1 DEF Kept
      <4>5. CASE \E t \in DOMAIN tensors : tensors[t].buf = arrays[a].buf /\ ~tensors[t].borrowed
        BY <2>1, <4>2, <4>5 DEF Kept
      <4> QED BY <4>1, <4>4, <4>5 DEF Kept
    <3> QED BY <3>1, <3>2
  <2>3. Words(arrays[a].buf)' = Words(arrays[a].buf)
    BY <1>1, <2>1, <2>2 DEF Words
  <2>4. ArrayWords(a)' = ArrayWords(a)
    BY <2>1, <2>3 DEF ArrayWords
  <2> QED BY <2>1, <2>4 DEF ArrayMatrix
<1> QED BY <1>2, <1>3

-------------------------------------------------------------------------------

LEMMA ExchangeInitial == ExchangeInit => ExchangeInv
<1> SUFFICES ASSUME ExchangeInit PROVE ExchangeInv
  OBVIOUS
<1>1. ExchangeTypeOK
  <2>1. memory \in Seq(Seq(Word)) /\ arrays \in Seq(Array) /\ tensors \in Seq(Tensor)
    BY DEF ExchangeInit
  <2> QED BY <2>1, ExchangeAssumption DEF ExchangeInit, ExchangeTypeOK
<1>2. DOMAIN arrays = {} /\ DOMAIN tensors = {}
  BY DEF ExchangeInit
<1> QED BY <1>1, <1>2 DEF ExchangeInv, Families, Lent, CopiesOwn, CopiesHold, MetadataAgrees, Uses

LEMMA ExchangeStep == ExchangeInv /\ [ExchangeNext]_exchangeVars => ExchangeInv'
<1> SUFFICES ASSUME ExchangeInv, [ExchangeNext]_exchangeVars PROVE ExchangeInv'
  OBVIOUS
<1>1. CASE UNCHANGED exchangeVars
  <2>1. ExchangeTypeOK' /\ CopiesOwn'
    BY <1>1 DEF exchangeVars, ExchangeInv, ExchangeTypeOK, Sized, CopiesOwn
  <2>2. Uses' = Uses
    BY <1>1 DEF exchangeVars, Uses, ArrayUse, TensorUse
  <2>3. CopiesHold' /\ MetadataAgrees'
    BY <1>1, TensorsStay DEF exchangeVars
  <2> QED BY <2>1, <2>2, <2>3 DEF ExchangeInv, Families, Lent
<1>2. CASE \E s \in Sources : NewArray(s[1], s[2])
  BY <1>2, NewArrayStep
<1>3. CASE \E a \in Held : TransposeView(a) \/ Drop(a) \/ Write(a)
  BY <1>3, TransposeStep, DropStep, WriteStep
<1>4. CASE \E a \in Held : \E dtype \in Requested \cup {"None"}, shape \in {"None", "4", "-1"} :
             Construct(a, dtype, shape)
  BY <1>4, ConstructStep
<1>5. CASE \E a \in Held : FromTorch(a) \/ FromMps(a) \/ FromMpsCopied(a)
  BY <1>5, FromTorchStep, FromMpsStep, FromMpsCopiedStep
<1>6. CASE \E t \in DOMAIN tensors : CopyTensor(t) \/ transpose(t) \/ reshape(t)
  BY <1>6, CopyStep, TransposedStep, ReshapeStep
<1>7. CASE \E t \in DOMAIN tensors : \E kind \in {"numpy", "torch"} : Export(t, kind)
  BY <1>7, ExportStep
<1>8. CASE \E dtype \in Requested : Compute(dtype)
  BY <1>8, ComputeStep
<1>9. CASE prepare_model
  BY <1>9, PrepareStep
<1> QED BY <1>1, <1>2, <1>3, <1>4, <1>5, <1>6, <1>7, <1>8, <1>9 DEF ExchangeNext

\* Arrays and tensors name memory that is there, of the size their shape and dtype ask for
\* (tensor.py:62-133, bind_core.cpp).
THEOREM ExchangeTyped == ExchangeSpec => []ExchangeTypeOK
<1>1. ExchangeInv => ExchangeTypeOK
  BY DEF ExchangeInv
<1> QED BY <1>1, ExchangeInitial, ExchangeStep, PTL DEF ExchangeSpec

\* A tensor that was copied from a row-major source goes on holding what its source held:
\* its memory is its own, or that of objects documented to share it
\* (tensor.py:77-104, interop.py:87-117, 133-135).
THEOREM CopiesAreKept == ExchangeSpec => []CopiesHold
<1>1. ExchangeInv => CopiesHold
  BY DEF ExchangeInv
<1> QED BY <1>1, ExchangeInitial, ExchangeStep, PTL DEF ExchangeSpec

\* What Python has cached of a tensor's shape and dtype is what _C says, unless the shape is
\* the -1 of the caller (tensor.py:62-133).
THEOREM MetadataIsNative == ExchangeSpec => []MetadataAgrees
<1>1. ExchangeInv => MetadataAgrees
  BY DEF ExchangeInv
<1> QED BY <1>1, ExchangeInitial, ExchangeStep, PTL DEF ExchangeSpec

\* prepare_model() changes no value of an array that is row-major, of a parameter or not
\* (accelerate_plugin.py:84-98).
THEOREM PreparedModelsKeepValues == ExchangeSpec => ModelKeepsValues
<1> DEFINE Keeps == prepare_model => \A a \in Held : arrays[a].layout = "C" => ArrayMatrix(a)' = ArrayMatrix(a)
<1>1. ExchangeInv => [Keeps]_exchangeVars
  BY PreparedKeeps
<1>2. ExchangeInv /\ [ExchangeNext]_exchangeVars => ExchangeInv' /\ [Keeps]_exchangeVars
  BY <1>1, ExchangeStep
<1> QED BY <1>2, ExchangeInitial, PTL DEF ExchangeSpec, ModelKeepsValues

-------------------------------------------------------------------------------
(* TensorArithmetic: the kernels                                               *)

LEMMA NumelFacts ==
  /\ Numel(<<>>) = 1 /\ Numel(<< 1 >>) = 1 /\ Numel(<< 2 >>) = 2 /\ Numel(<<2, 2>>) = 4
  /\ \A shape \in AllShapes : Numel(shape) \in {1, 2, 4} /\ Len(shape) \in 0 .. 2
<1>1. Numel(<<>>) = 1
  BY DEF Numel
<1>2. Numel(<< 1 >>) = 1 /\ Numel(<< 2 >>) = 2
  BY DEF Numel
<1>3. Numel(<<2, 2>>) = 4
  BY DEF Numel
<1> QED BY <1>1, <1>2, <1>3 DEF AllShapes

\* What a reduction adds up, for each shape and dimension.
LEMMA ShapesAre ==
  /\ <<>> \in AllShapes /\ << 1 >> \in AllShapes /\ << 2 >> \in AllShapes /\ <<2, 2>> \in AllShapes
  /\ Len(<<>>) = 0 /\ Len(<< 1 >>) = 1 /\ Len(<< 2 >>) = 1 /\ Len(<<2, 2>>) = 2
  /\ \A shape \in AllShapes : shape = <<>> \/ shape = << 1 >> \/ shape = << 2 >> \/ shape = <<2, 2>>
  BY DEF AllShapes

LEMMA SubSeqPair ==
  /\ SubSeq(<<2, 2>>, 1, 0) = <<>> /\ SubSeq(<<2, 2>>, 3, 2) = <<>>
  /\ SubSeq(<<2, 2>>, 1, 1) = << 2 >> /\ SubSeq(<<2, 2>>, 2, 2) = << 2 >>
<1>0. <<2, 2>> \in Seq(Nat) /\ Len(<<2, 2>>) = 2
  OBVIOUS
<1>1. \A s \in Seq(Nat) : (Len(s) = 0 => s = <<>>) /\ (Len(s) = 1 /\ s[1] = 2 => s = << 2 >>)
  OBVIOUS
<1>2. /\ SubSeq(<<2, 2>>, 1, 0) \in Seq(Nat) /\ Len(SubSeq(<<2, 2>>, 1, 0)) = 0
      /\ SubSeq(<<2, 2>>, 3, 2) \in Seq(Nat) /\ Len(SubSeq(<<2, 2>>, 3, 2)) = 0
  OBVIOUS
<1>3. /\ SubSeq(<<2, 2>>, 1, 1) \in Seq(Nat) /\ Len(SubSeq(<<2, 2>>, 1, 1)) = 1
      /\ SubSeq(<<2, 2>>, 1, 1)[1] = 2
  OBVIOUS
<1>4. /\ SubSeq(<<2, 2>>, 2, 2) \in Seq(Nat) /\ Len(SubSeq(<<2, 2>>, 2, 2)) = 1
      /\ SubSeq(<<2, 2>>, 2, 2)[1] = 2
  OBVIOUS
<1> QED BY <1>1, <1>2, <1>3, <1>4

\* What a reduction adds up, for each shape and dimension.
LEMMA SumsAre ==
  ASSUME NEW x
  PROVE  /\ SumOver(x, << 1 >>, 0) = [k \in 1 .. 1 |-> x[1]]
         /\ SumOver(x, << 2 >>, 0) = [k \in 1 .. 1 |-> (x[1] + x[2]) % 3]
         /\ SumOver(x, <<2, 2>>, 0) = [k \in 1 .. 2 |-> (x[k] + x[k + 2]) % 3]
         /\ SumOver(x, <<2, 2>>, 1) = [k \in 1 .. 2 |-> (x[2 * k - 1] + x[2 * k]) % 3]
<1>1. SumOver(x, << 1 >>, 0) = [k \in 1 .. 1 |-> x[1]]
  <2>1. Numel(SubSeq(<< 1 >>, 2, Len(<< 1 >>))) = 1 /\ Numel(SubSeq(<< 1 >>, 1, 0)) = 1
    BY DEF Numel
  <2> QED BY <2>1 DEF SumOver
<1>2. SumOver(x, << 2 >>, 0) = [k \in 1 .. 1 |-> (x[1] + x[2]) % 3]
  <2>1. Numel(SubSeq(<< 2 >>, 2, Len(<< 2 >>))) = 1 /\ Numel(SubSeq(<< 2 >>, 1, 0)) = 1
    BY DEF Numel
  <2> QED BY <2>1 DEF SumOver
<1>3. SumOver(x, <<2, 2>>, 0) = [k \in 1 .. 2 |-> (x[k] + x[k + 2]) % 3]
  <2>1. Numel(SubSeq(<<2, 2>>, 2, Len(<<2, 2>>))) = 2 /\ Numel(SubSeq(<<2, 2>>, 1, 0)) = 1
    BY DEF Numel
  <2> DEFINE cell(k, r) == (((k - 1) \div 2) * 2 + r) * 2 + ((k - 1) % 2) + 1
  <2>2. /\ 0 + 2 = 2 /\ 0 + 1 = 1 /\ 1 * 2 = 2 /\ <<2, 2>>[1] = 2
    OBVIOUS
  <2>3. SumOver(x, <<2, 2>>, 0) = [k \in 1 .. 2 |-> (x[cell(k, 0)] + x[cell(k, 1)]) % 3]
    BY <2>1, <2>2 DEF SumOver
  <2>4. \A k \in 1 .. 2 : cell(k, 0) = k /\ cell(k, 1) = k + 2
    OBVIOUS
  <2> HIDE DEF cell
  <2> QED BY <2>3, <2>4
<1>4. SumOver(x, <<2, 2>>, 1) = [k \in 1 .. 2 |-> (x[2 * k - 1] + x[2 * k]) % 3]
  <2>1. Numel(SubSeq(<<2, 2>>, 3, Len(<<2, 2>>))) = 1 /\ Numel(SubSeq(<<2, 2>>, 1, 1)) = 2
    BY DEF Numel
  <2> DEFINE cell(k, r) == (((k - 1) \div 1) * 2 + r) * 1 + ((k - 1) % 1) + 1
  <2>2. /\ 1 + 2 = 3 /\ 1 + 1 = 2 /\ 2 * 1 = 2 /\ <<2, 2>>[2] = 2
    OBVIOUS
  <2>3. SumOver(x, <<2, 2>>, 1) = [k \in 1 .. 2 |-> (x[cell(k, 0)] + x[cell(k, 1)]) % 3]
    BY <2>1, <2>2 DEF SumOver
  <2>4. \A k \in 1 .. 2 : cell(k, 0) = 2 * k - 1 /\ cell(k, 1) = 2 * k
    OBVIOUS
  <2> HIDE DEF cell
  <2> QED BY <2>3, <2>4
<1> QED BY <1>1, <1>2, <1>3, <1>4

\* A command over n buffers.
CommandOK(c, n) ==
  /\ c \in Command /\ c.a \in 1 .. n /\ c.b \in 1 .. n /\ c.out \in 1 .. n
  /\ c.kernel = "sum" => c.dim < Len(c.shape)

LEMMA ModuloFits == \A a, b \in Numbers3 : /\ (a + b) % 3 \in Numbers3 /\ (a - b) % 3 \in Numbers3
                                           /\ (-a) % 3 \in Numbers3
  BY DEF Numbers3

LEMMA TimesFits == \A a, b \in Numbers3 : (a * b) % 3 \in Numbers3 /\ a * b \in Nat
<1>1. \A a \in Numbers3 : (a * 0) % 3 \in Numbers3 /\ (a * 1) % 3 \in Numbers3 /\ (a * 2) % 3 \in Numbers3
  BY DEF Numbers3
<1> QED BY <1>1 DEF Numbers3

\* The sum over a dimension has the shape without it, and is a matter of the operand's cells.
LEMMA ReductionFits ==
  ASSUME NEW shape \in AllShapes, NEW dim \in 0 .. 1, dim < Len(shape),
         NEW x, \A i \in 1 .. Numel(shape) : x[i] \in Numbers3
  PROVE  /\ WithoutDim(shape, dim) \in AllShapes
         /\ SumOver(x, shape, dim) \in [1 .. Numel(WithoutDim(shape, dim)) -> Numbers3]
         /\ \A y : (\A i \in 1 .. Numel(shape) : y[i] = x[i]) => SumOver(y, shape, dim) = SumOver(x, shape, dim)
<1>1. \/ shape = << 1 >> /\ dim = 0
      \/ shape = << 2 >> /\ dim = 0
      \/ shape = <<2, 2>>
  <2>1. shape # <<>>
    BY ShapesAre
  <2>2. Len(shape) = 1 => dim = 0
    OBVIOUS
  <2> QED BY <2>1, <2>2, ShapesAre
<1>2. CASE shape = << 1 >> /\ dim = 0
  <2>1. WithoutDim(shape, dim) = <<>>
    BY <1>2 DEF WithoutDim
  <2>2. x[1] \in Numbers3 /\ Numel(shape) = 1
    BY <1>2, NumelFacts
  <2>3. \A y : SumOver(y, shape, dim) = [k \in 1 .. 1 |-> y[1]]
    BY <1>2, SumsAre
  <2> QED BY <2>1, <2>2, <2>3, NumelFacts, ShapesAre
<1>3. CASE shape = << 2 >> /\ dim = 0
  <2>1. WithoutDim(shape, dim) = <<>>
    BY <1>3 DEF WithoutDim
  <2>2. x[1] \in Numbers3 /\ x[2] \in Numbers3 /\ Numel(shape) = 2
    BY <1>3, NumelFacts
  <2>3. \A y : SumOver(y, shape, dim) = [k \in 1 .. 1 |-> (y[1] + y[2]) % 3]
    BY <1>3, SumsAre
  <2>4. (x[1] + x[2]) % 3 \in Numbers3
    BY <2>2, ModuloFits
  <2>5. SumOver(x, shape, dim) \in [1 .. 1 -> Numbers3]
    BY <2>3, <2>4
  <2>6. ASSUME NEW y, \A i \in 1 .. 2 : y[i] = x[i] PROVE SumOver(y, shape, dim) = SumOver(x, shape, dim)
    BY <2>3, <2>6
  <2> QED BY <2>1, <2>2, <2>5, <2>6, NumelFacts, ShapesAre
<1>4. CASE shape = <<2, 2>>
  <2>0. Numel(shape) = 4 /\ Numel(<< 2 >>) = 2 /\ << 2 >> \in AllShapes
    BY <1>4, NumelFacts, ShapesAre
  <2>2. x[1] \in Numbers3 /\ x[2] \in Numbers3 /\ x[3] \in Numbers3 /\ x[4] \in Numbers3
    BY <2>0
  <2>3. CASE dim = 0
    <3>1. WithoutDim(shape, dim) = << 2 >>
      <4>1. SubSeq(<<2, 2>>, 1, 0) = <<>> /\ SubSeq(<<2, 2>>, 2, 2) = << 2 >>
        BY SubSeqPair
      <4>2. WithoutDim(shape, dim) = SubSeq(<<2, 2>>, 1, 0) \o SubSeq(<<2, 2>>, 2, 2)
        BY <1>4, <2>3 DEF WithoutDim
      <4>3. <<>> \o << 2 >> = << 2 >>
        OBVIOUS
      <4> QED BY <4>1, <4>2, <4>3
    <3>2. \A y : SumOver(y, shape, dim) = [k \in 1 .. 2 |-> (y[k] + y[k + 2]) % 3]
      BY <1>4, <2>3, SumsAre
    <3>3. \A k \in 1 .. 2 : (x[k] + x[k + 2]) % 3 \in Numbers3
      <4>1. \A k \in 1 .. 2 : x[k] \in Numbers3 /\ x[k + 2] \in Numbers3
        BY <2>2
      <4> QED BY <4>1, ModuloFits
    <3>4. \A k \in 1 .. 2 : k \in 1 .. 4 /\ k + 2 \in 1 .. 4
      OBVIOUS
    <3>5. SumOver(x, shape, dim) \in [1 .. 2 -> Numbers3]
      BY <3>2, <3>3
    <3>6. ASSUME NEW y, \A i \in 1 .. 4 : y[i] = x[i] PROVE SumOver(y, shape, dim) = SumOver(x, shape, dim)
      BY <3>2, <3>4, <3>6
    <3> QED BY <2>0, <3>1, <3>5, <3>6
  <2>4. CASE dim = 1
    <3>1. WithoutDim(shape, dim) = << 2 >>
      <4>1. SubSeq(<<2, 2>>, 1, 1) = << 2 >> /\ SubSeq(<<2, 2>>, 3, 2) = <<>>
        BY SubSeqPair
      <4>2. WithoutDim(shape, dim) = SubSeq(<<2, 2>>, 1, 1) \o SubSeq(<<2, 2>>, 3, 2)
        BY <1>4, <2>4 DEF WithoutDim
      <4>3. << 2 >> \o <<>> = << 2 >>
        OBVIOUS
      <4> QED BY <4>1, <4>2, <4>3
    <3>2. \A y : SumOver(y, shape, dim) = [k \in 1 .. 2 |-> (y[2 * k - 1] + y[2 * k]) % 3]
      BY <1>4, <2>4, SumsAre
    <3>3. \A k \in 1 .. 2 : (x[2 * k - 1] + x[2 * k]) % 3 \in Numbers3
      <4>1. \A k \in 1 .. 2 : x[2 * k - 1] \in Numbers3 /\ x[2 * k] \in Numbers3
        BY <2>2
      <4> QED BY <4>1, ModuloFits
    <3>4. \A k \in 1 .. 2 : 2 * k - 1 \in 1 .. 4 /\ 2 * k \in 1 .. 4
      OBVIOUS
    <3>5. SumOver(x, shape, dim) \in [1 .. 2 -> Numbers3]
      BY <3>2, <3>3
    <3>6. ASSUME NEW y, \A i \in 1 .. 4 : y[i] = x[i] PROVE SumOver(y, shape, dim) = SumOver(x, shape, dim)
      BY <3>2, <3>4, <3>6
    <3> QED BY <2>0, <3>1, <3>5, <3>6
  <2> QED BY <2>3, <2>4
<1> QED BY <1>1, <1>2, <1>3, <1>4

\* A kernel writes numbers to the first cells of its result.
LEMMA KernelFits ==
  ASSUME NEW n \in Nat, NEW c, CommandOK(c, n), NEW x \in Block, NEW y \in Block
  PROVE  \E m \in 1 .. 4 : Kernel(c, x, y) \in [1 .. m -> Numbers3]
<1>1. c.kernel \in {"add", "sub", "neg", "sum", "matmul", "norm"} /\ c.shape \in AllShapes /\ c.dim \in 0 .. 1
  BY DEF CommandOK, Command
<1>2. Numel(c.shape) \in 1 .. 4 /\ \A i \in 1 .. Numel(c.shape) : i \in 1 .. 4
  BY <1>1, NumelFacts
<1>3. \A i \in 1 .. 4 : x[i] \in Numbers3 /\ y[i] \in Numbers3
  BY DEF Block
<1>4. \A a, b \in Numbers3 : (a + b) % 3 \in Numbers3 /\ (a - b) % 3 \in Numbers3 /\ (-a) % 3 \in Numbers3
  BY ModuloFits
<1>5. \A a, b \in Numbers3 : (a * b) % 3 \in Numbers3 /\ a * b \in Nat
  BY TimesFits
<1>6. CASE c.kernel \in {"add", "sub", "neg"}
  BY <1>2, <1>3, <1>4, <1>6 DEF Kernel
<1>7. CASE c.kernel = "sum"
  <2>1. \A i \in 1 .. Numel(c.shape) : x[i] \in Numbers3
    BY <1>2, <1>3
  <2>2. c.dim < Len(c.shape)
    BY <1>7 DEF CommandOK
  <2>3. Kernel(c, x, y) = SumOver(x, c.shape, c.dim)
    BY <1>7 DEF Kernel
  <2>4. /\ WithoutDim(c.shape, c.dim) \in AllShapes
        /\ SumOver(x, c.shape, c.dim) \in [1 .. Numel(WithoutDim(c.shape, c.dim)) -> Numbers3]
    BY <1>1, <2>1, <2>2, ReductionFits
  <2>5. Numel(WithoutDim(c.shape, c.dim)) \in 1 .. 4
    BY <2>4, NumelFacts
  <2> QED BY <2>3, <2>4, <2>5
<1>8. \A i \in 1 .. 4 : Col(i) \in 0 .. 1 /\ Row(i) \in 0 .. 1
  BY DEF Col, Row
<1>9. CASE c.kernel = "norm"
  <2>1. \A i \in 1 .. Numel(c.shape) : (x[i] * y[Col(i) + 1]) % 3 \in Numbers3
    BY <1>2, <1>3, <1>5, <1>8
  <2>2. Kernel(c, x, y) = [i \in 1 .. Numel(c.shape) |-> (x[i] * y[Col(i) + 1]) % 3]
    BY <1>9 DEF Kernel
  <2> QED BY <1>2, <2>1, <2>2
<1>10. CASE c.kernel = "matmul"
  <2> DEFINE other(i, r) == IF c.dim = 1 THEN 2 * Col(i) + r ELSE 2 * (r - 1) + Col(i) + 1
             cell(i) == (x[2 * Row(i) + 1] * y[other(i, 1)] + x[2 * Row(i) + 2] * y[other(i, 2)]) % 3
  <2>1. \A i \in 1 .. 4 : /\ 2 * Row(i) + 1 \in 1 .. 4 /\ 2 * Row(i) + 2 \in 1 .. 4
                          /\ other(i, 1) \in 1 .. 4 /\ other(i, 2) \in 1 .. 4
    BY <1>8
  <2>2. \A a, b \in Nat : (a + b) % 3 \in Numbers3
    BY DEF Numbers3
  <2>3. \A i \in 1 .. 4 : cell(i) \in Numbers3
    <3> HIDE DEF other
    <3> QED BY <1>3, <1>5, <2>1, <2>2
  <2>4. Kernel(c, x, y) = [i \in 1 .. 4 |-> cell(i)]
    BY <1>8, <1>10 DEF Kernel
  <2> QED BY <2>3, <2>4
<1> QED BY <1>1, <1>6, <1>7, <1>9, <1>10

-------------------------------------------------------------------------------
(* TensorArithmetic: what memory will hold when the GPU is done                *)

\* A claim is what some buffer starts with.
Claim(block, cells) == [block |-> block, cells |-> cells]
Holds(bufs, k) == \A i \in 1 .. Len(k.cells) : bufs[k.block][i] = k.cells[i]
ClaimOK(k, n) == k.block \in 1 .. n /\ k.cells \in Seq(Numbers3) /\ Len(k.cells) \in 1 .. 4

\* The memories of n buffers that the waiting commands lead through, one by one.
Trace(M, n, bufs, cs) ==
  /\ M \in [1 .. Len(cs) + 1 -> [1 .. n -> Block]]
  /\ M[1] = bufs
  /\ \A i \in 1 .. Len(cs) : M[i + 1] = Applied(cs[i], M[i])

\* In the last of them the claims hold.
Foretold(n, bufs, cs, claims) ==
  \E M : Trace(M, n, bufs, cs) /\ \A k \in claims : Holds(M[Len(cs) + 1], k)

Commands(cs, n) == cs \in Seq(Command) /\ \A i \in 1 .. Len(cs) : CommandOK(cs[i], n)

\* What a command computes.  It changes one buffer: the first cells of it.
Made(c, bufs) == Kernel(c, bufs[c.a], bufs[c.b])

LEMMA AppliedFits ==
  ASSUME NEW n \in Nat, NEW bufs \in [1 .. n -> Block], NEW c, CommandOK(c, n)
  PROVE  /\ Applied(c, bufs) \in [1 .. n -> Block]
         /\ \A b \in 1 .. n : b # c.out => Applied(c, bufs)[b] = bufs[b]
         /\ \A i \in DOMAIN Made(c, bufs) : Applied(c, bufs)[c.out][i] = Made(c, bufs)[i]
<1> DEFINE made == Made(c, bufs)
           new == [i \in 1 .. 4 |-> IF i \in DOMAIN made THEN made[i] ELSE bufs[c.out][i]]
<1>1. /\ bufs[c.a] \in Block /\ bufs[c.b] \in Block /\ bufs[c.out] \in Block
      /\ c.out \in 1 .. n
  BY DEF CommandOK
<1>2. PICK m \in 1 .. 4 : made \in [1 .. m -> Numbers3]
  BY <1>1, KernelFits DEF Made
<1>3. DOMAIN made = 1 .. m /\ \A i \in 1 .. m : made[i] \in Numbers3 /\ i \in 1 .. 4
  BY <1>2
<1>4. Applied(c, bufs) = [bufs EXCEPT ![c.out] = new]
  BY DEF Applied, Made
<1> HIDE DEF made
<1>5. new \in Block
  BY <1>1, <1>3 DEF Block
<1>6. \A i \in DOMAIN made : new[i] = made[i]
  BY <1>3
<1> HIDE DEF new
<1>7. /\ Applied(c, bufs) \in [1 .. n -> Block]
      /\ \A b \in 1 .. n : b # c.out => Applied(c, bufs)[b] = bufs[b]
      /\ Applied(c, bufs)[c.out] = new
  BY <1>1, <1>4, <1>5
<1> QED BY <1>6, <1>7 DEF made

\* The GPU runs the first command: the rest of the memories is still to come.
LEMMA ForetoldRun ==
  ASSUME NEW n \in Nat, NEW bufs \in [1 .. n -> Block], NEW cs, Commands(cs, n), cs # <<>>,
         NEW claims, Foretold(n, bufs, cs, claims)
  PROVE  Foretold(n, Applied(Head(cs), bufs), Tail(cs), claims)
<1>1. PICK M : Trace(M, n, bufs, cs) /\ \A k \in claims : Holds(M[Len(cs) + 1], k)
  BY DEF Foretold
<1> DEFINE N == [i \in 1 .. Len(cs) |-> M[i + 1]]
<1>2. /\ cs \in Seq(Command) /\ Len(cs) \in Nat /\ Len(cs) >= 1 /\ Head(cs) = cs[1]
      /\ Tail(cs) \in Seq(Command) /\ Len(Tail(cs)) + 1 = Len(cs)
      /\ \A i \in 1 .. Len(cs) - 1 : Tail(cs)[i] = cs[i + 1]
  BY DEF Commands
<1>3. M \in [1 .. Len(cs) + 1 -> [1 .. n -> Block]] /\ M[1] = bufs
      /\ \A i \in 1 .. Len(cs) : M[i + 1] = Applied(cs[i], M[i])
  BY <1>1 DEF Trace
<1>4. N \in [1 .. Len(cs) -> [1 .. n -> Block]] /\ N[1] = Applied(Head(cs), bufs)
  BY <1>2, <1>3
<1>5. \A i \in 1 .. Len(cs) - 1 : N[i + 1] = Applied(Tail(cs)[i], N[i])
  BY <1>2, <1>3
<1>6. N[Len(cs)] = M[Len(cs) + 1]
  BY <1>2
<1>7. Trace(N, n, Applied(Head(cs), bufs), Tail(cs))
  <2> HIDE DEF N
  <2>1. Len(Tail(cs)) \in Nat /\ Len(Tail(cs)) = Len(cs) - 1
    BY <1>2
  <2> QED BY <1>2, <1>4, <1>5, <2>1 DEF Trace
<1>8. \A k \in claims : Holds(N[Len(Tail(cs)) + 1], k)
  BY <1>1, <1>2, <1>6
<1> QED BY <1>7, <1>8 DEF Foretold

\* A command is encoded whose result nobody has a claim on, and the claim e on its
\* result is justified by the others.
LEMMA ForetoldEncoded ==
  ASSUME NEW n \in Nat, NEW bufs \in [1 .. n -> Block], NEW cs, Commands(cs, n),
         NEW claims, Foretold(n, bufs, cs, claims),
         \A k \in claims : ClaimOK(k, n),
         NEW c, CommandOK(c, n), \A k \in claims : k.block # c.out,
         NEW more, \A e \in more :
           /\ e.block = c.out
           /\ \A mem \in [1 .. n -> Block] : (\A k \in claims : Holds(mem, k)) =>
                \A i \in 1 .. Len(e.cells) : i \in DOMAIN Made(c, mem) /\ e.cells[i] = Made(c, mem)[i]
  PROVE  Commands(Append(cs, c), n) /\ Foretold(n, bufs, Append(cs, c), claims \cup more)
<1>1. PICK M : Trace(M, n, bufs, cs) /\ \A k \in claims : Holds(M[Len(cs) + 1], k)
  BY DEF Foretold
<1> DEFINE L == Len(cs)
           mem == M[L + 1]
           after == Applied(c, mem)
           N == [i \in 1 .. L + 2 |-> IF i = L + 2 THEN after ELSE M[i]]
           ds == Append(cs, c)
<1>2. /\ cs \in Seq(Command) /\ L \in Nat /\ ds \in Seq(Command) /\ Len(ds) = L + 1 /\ ds[L + 1] = c
      /\ \A i \in 1 .. L : ds[i] = cs[i]
  BY DEF Commands, CommandOK
<1>3. Commands(ds, n)
  BY <1>2 DEF Commands
<1>4. /\ M \in [1 .. L + 1 -> [1 .. n -> Block]] /\ M[1] = bufs
      /\ \A i \in 1 .. L : M[i + 1] = Applied(cs[i], M[i])
  BY <1>1 DEF Trace
<1>5. mem \in [1 .. n -> Block]
  BY <1>2, <1>4
<1> HIDE DEF mem
<1>6. /\ after \in [1 .. n -> Block]
      /\ \A b \in 1 .. n : b # c.out => after[b] = mem[b]
      /\ \A i \in DOMAIN Made(c, mem) : after[c.out][i] = Made(c, mem)[i]
  <2>1. after \in [1 .. n -> Block]
    BY <1>5, AppliedFits
  <2>2. \A b \in 1 .. n : b # c.out => after[b] = mem[b]
    BY <1>5, AppliedFits
  <2>3. \A i \in DOMAIN Made(c, mem) : after[c.out][i] = Made(c, mem)[i]
    BY <1>5, AppliedFits
  <2> QED BY <2>1, <2>2, <2>3
<1>7. Trace(N, n, bufs, ds)
  <2> HIDE DEF after, ds, L
  <2>1. N \in [1 .. L + 2 -> [1 .. n -> Block]] /\ N[1] = bufs
    BY <1>2, <1>4, <1>6
  <2>2. ASSUME NEW i \in 1 .. L + 1 PROVE N[i + 1] = Applied(ds[i], N[i])
    <3>1. CASE i = L + 1
      BY <1>2, <3>1 DEF after, mem, L
    <3>2. CASE i \in 1 .. L
      BY <1>2, <1>4, <3>2
    <3> QED BY <1>2, <3>1, <3>2
  <2> HIDE DEF N
  <2> QED BY <1>2, <2>1, <2>2 DEF Trace
<1>8. N[Len(ds) + 1] = after
  BY <1>2
<1>9. \A k \in claims : Holds(mem, k)
  BY <1>1 DEF mem
<1>10. \A k \in claims : Holds(after, k)
  <2> HIDE DEF after
  <2> QED BY <1>6, <1>9 DEF Holds, ClaimOK
<1>11. \A e \in more : Holds(after, e)
  <2> HIDE DEF after
  <2> QED BY <1>5, <1>6, <1>9 DEF Holds
<1> HIDE DEF N, ds, after, L
<1>12. Foretold(n, bufs, ds, claims \cup more)
  BY <1>7, <1>8, <1>10, <1>11 DEF Foretold
<1> QED BY <1>3, <1>12 DEF ds

\* The host writes to a buffer that no waiting command uses.
LEMMA ForetoldWritten ==
  ASSUME NEW n \in Nat, NEW bufs \in [1 .. n -> Block], NEW cs, Commands(cs, n),
         NEW claims, Foretold(n, bufs, cs, claims), \A k \in claims : ClaimOK(k, n),
         NEW b \in 1 .. n, \A k \in claims : k.block # b,
         \A i \in 1 .. Len(cs) : b # cs[i].a /\ b # cs[i].b /\ b # cs[i].out,
         NEW cell \in Block,
         NEW more, \A e \in more : e.block = b /\ \A i \in 1 .. Len(e.cells) : e.cells[i] = cell[i]
  PROVE  Foretold(n, [bufs EXCEPT ![b] = cell], cs, claims \cup more)
<1>1. PICK M : Trace(M, n, bufs, cs) /\ \A k \in claims : Holds(M[Len(cs) + 1], k)
  BY DEF Foretold
<1> DEFINE L == Len(cs)
           N == [i \in 1 .. L + 1 |-> [M[i] EXCEPT ![b] = cell]]
<1>2. cs \in Seq(Command) /\ L \in Nat /\ \A i \in 1 .. L : CommandOK(cs[i], n)
  BY DEF Commands
<1>4. /\ M \in [1 .. L + 1 -> [1 .. n -> Block]] /\ M[1] = bufs
      /\ \A i \in 1 .. L : M[i + 1] = Applied(cs[i], M[i])
  BY <1>1 DEF Trace
<1> HIDE DEF L
<1>5. N \in [1 .. L + 1 -> [1 .. n -> Block]] /\ N[1] = [bufs EXCEPT ![b] = cell]
  <2>1. \A mem \in [1 .. n -> Block] : [mem EXCEPT ![b] = cell] \in [1 .. n -> Block]
    OBVIOUS
  <2>2. \A i \in 1 .. L + 1 : M[i] \in [1 .. n -> Block]
    BY <1>4
  <2>3. \A i \in 1 .. L + 1 : [M[i] EXCEPT ![b] = cell] \in [1 .. n -> Block]
    BY <2>1, <2>2
  <2>4. N \in [1 .. L + 1 -> [1 .. n -> Block]]
    BY <2>3
  <2>5. 1 \in 1 .. L + 1 /\ M[1] = bufs
    BY <1>2, <1>4
  <2> QED BY <2>4, <2>5
<1>6. ASSUME NEW i \in 1 .. L PROVE N[i + 1] = Applied(cs[i], N[i])
  <2>1. i \in 1 .. L + 1 /\ i + 1 \in 1 .. L + 1 /\ M[i] \in [1 .. n -> Block]
    BY <1>2, <1>4
  <2> DEFINE c == cs[i]
  <2>2. CommandOK(c, n) /\ b # c.a /\ b # c.b /\ b # c.out
    BY <1>2 DEF L
  <2>3. c.a \in 1 .. n /\ c.b \in 1 .. n /\ c.out \in 1 .. n
    BY <2>2 DEF CommandOK
  <2>4. M[i + 1] = Applied(c, M[i])
    BY <1>4
  <2> HIDE DEF c
  <2>5. N[i] = [M[i] EXCEPT ![b] = cell] /\ N[i + 1] = [M[i + 1] EXCEPT ![b] = cell]
    BY <2>1
  <2>6. PICK mem \in [1 .. n -> Block] : mem = M[i]
    BY <2>1
  <2>7. [Applied(c, mem) EXCEPT ![b] = cell] = Applied(c, [mem EXCEPT ![b] = cell])
    <3> DEFINE made == Kernel(c, mem[c.a], mem[c.b])
               new == [j \in 1 .. 4 |-> IF j \in DOMAIN made THEN made[j] ELSE mem[c.out][j]]
               mem2 == [mem EXCEPT ![b] = cell]
    <3>1. mem2[c.a] = mem[c.a] /\ mem2[c.b] = mem[c.b] /\ mem2[c.out] = mem[c.out]
      BY <2>2, <2>3
    <3> HIDE DEF mem2
    <3>2. Applied(c, mem) = [mem EXCEPT ![c.out] = new] /\ Applied(c, mem2) = [mem2 EXCEPT ![c.out] = new]
      BY <3>1 DEF Applied
    <3> HIDE DEF new
    <3>3. [[mem EXCEPT ![c.out] = new] EXCEPT ![b] = cell] = [[mem EXCEPT ![b] = cell] EXCEPT ![c.out] = new]
      BY <2>2, <2>3
    <3> QED BY <3>2, <3>3 DEF mem2
  <2> HIDE DEF N
  <2> QED BY <2>4, <2>5, <2>6, <2>7 DEF c
<1>7. Trace(N, n, [bufs EXCEPT ![b] = cell], cs)
  <2> HIDE DEF N
  <2> QED BY <1>5, <1>6 DEF Trace, L
<1>8. M[L + 1] \in [1 .. n -> Block] /\ N[L + 1] = [M[L + 1] EXCEPT ![b] = cell]
  BY <1>2, <1>4
<1>9. \A k \in claims \cup more : Holds(N[L + 1], k)
  <2> HIDE DEF N
  <2>1. \A k \in claims : Holds(N[L + 1], k)
    BY <1>1, <1>8 DEF Holds, ClaimOK, L
  <2>2. \A k \in more : Holds(N[L + 1], k)
    BY <1>8 DEF Holds
  <2> QED BY <2>1, <2>2
<1> HIDE DEF N
<1> QED BY <1>7, <1>9 DEF Foretold, L

\* A new buffer makes no difference to the others.
LEMMA ForetoldGrown ==
  ASSUME NEW n \in Nat, NEW bufs \in [1 .. n -> Block], NEW cs, Commands(cs, n),
         NEW claims, Foretold(n, bufs, cs, claims), \A k \in claims : ClaimOK(k, n),
         NEW cell \in Block, NEW bufs2 \in [1 .. n + 1 -> Block],
         bufs2[n + 1] = cell, \A b \in 1 .. n : bufs2[b] = bufs[b]
  PROVE  Commands(cs, n + 1) /\ Foretold(n + 1, bufs2, cs, claims)
<1>1. PICK M : Trace(M, n, bufs, cs) /\ \A k \in claims : Holds(M[Len(cs) + 1], k)
  BY DEF Foretold
<1> DEFINE L == Len(cs)
           Grown(mem) == [b \in 1 .. n + 1 |-> IF b = n + 1 THEN cell ELSE mem[b]]
           N == [i \in 1 .. L + 1 |-> Grown(M[i])]
<1>2. cs \in Seq(Command) /\ L \in Nat /\ \A i \in 1 .. L : CommandOK(cs[i], n)
  BY DEF Commands
<1>3. Commands(cs, n + 1)
  BY <1>2 DEF Commands, CommandOK
<1>4. /\ M \in [1 .. L + 1 -> [1 .. n -> Block]] /\ M[1] = bufs
      /\ \A i \in 1 .. L : M[i + 1] = Applied(cs[i], M[i])
  BY <1>1 DEF Trace
<1> HIDE DEF L
<1>5. N \in [1 .. L + 1 -> [1 .. n + 1 -> Block]]
  BY <1>2, <1>4
<1>6. N[1] = bufs2
  <2>1. N[1] = Grown(bufs)
    BY <1>2, <1>4
  <2>2. DOMAIN bufs2 = 1 .. n + 1 /\ bufs2 = [b \in 1 .. n + 1 |-> bufs2[b]]
    OBVIOUS
  <2>3. \A b \in 1 .. n + 1 : bufs2[b] = IF b = n + 1 THEN cell ELSE bufs[b]
    OBVIOUS
  <2>4. Grown(bufs) = [b \in 1 .. n + 1 |-> bufs2[b]]
    BY <2>3
  <2> QED BY <2>1, <2>2, <2>4
<1>7. ASSUME NEW i \in 1 .. L PROVE N[i + 1] = Applied(cs[i], N[i])
  <2>1. i \in 1 .. L + 1 /\ i + 1 \in 1 .. L + 1 /\ M[i] \in [1 .. n -> Block]
    BY <1>2, <1>4
  <2> DEFINE c == cs[i]
  <2>2. c.a \in 1 .. n /\ c.b \in 1 .. n /\ c.out \in 1 .. n
    BY <1>2 DEF CommandOK
  <2>3. M[i + 1] = Applied(c, M[i]) /\ N[i] = Grown(M[i]) /\ N[i + 1] = Grown(M[i + 1])
    BY <1>4, <2>1
  <2>4. PICK mem \in [1 .. n -> Block] : mem = M[i]
    BY <2>1
  <2>5. Grown(Applied(c, mem)) = Applied(c, Grown(mem))
    <3> DEFINE made == Kernel(c, mem[c.a], mem[c.b])
               new == [j \in 1 .. 4 |-> IF j \in DOMAIN made THEN made[j] ELSE mem[c.out][j]]
               mem2 == Grown(mem)
    <3> HIDE DEF c
    <3>1. mem2[c.a] = mem[c.a] /\ mem2[c.b] = mem[c.b] /\ mem2[c.out] = mem[c.out]
      BY <2>2
    <3> HIDE DEF mem2
    <3>2. Applied(c, mem) = [mem EXCEPT ![c.out] = new] /\ Applied(c, mem2) = [mem2 EXCEPT ![c.out] = new]
      BY <3>1 DEF Applied
    <3> HIDE DEF new
    <3>3. Grown([mem EXCEPT ![c.out] = new]) = [Grown(mem) EXCEPT ![c.out] = new]
      <4>1. [mem EXCEPT ![c.out] = new] = [b \in 1 .. n |-> IF b = c.out THEN new ELSE mem[b]]
        BY <2>2
      <4>2. [Grown(mem) EXCEPT ![c.out] = new] =
              [b \in 1 .. n + 1 |-> IF b = c.out THEN new ELSE Grown(mem)[b]]
        OBVIOUS
      <4>3. \A b \in 1 .. n + 1 : (IF b = c.out THEN new ELSE Grown(mem)[b])
                                  = Grown([mem EXCEPT ![c.out] = new])[b]
        BY <2>2, <4>1
      <4>4. Grown([mem EXCEPT ![c.out] = new]) =
              [b \in 1 .. n + 1 |-> Grown([mem EXCEPT ![c.out] = new])[b]]
        OBVIOUS
      <4> HIDE DEF Grown
      <4> QED BY <4>2, <4>3, <4>4
    <3> QED BY <3>2, <3>3 DEF mem2
  <2> HIDE DEF N, Grown
  <2> QED BY <2>3, <2>4, <2>5 DEF c
<1>8. Trace(N, n + 1, bufs2, cs)
  <2> HIDE DEF N
  <2> QED BY <1>5, <1>6, <1>7 DEF Trace, L
<1>9. \A b \in 1 .. n : N[L + 1][b] = M[L + 1][b]
  BY <1>2, <1>4
<1>10. \A k \in claims : Holds(N[L + 1], k)
  <2> HIDE DEF N
  <2> QED BY <1>1, <1>9 DEF Holds, ClaimOK, L
<1> HIDE DEF N
<1> QED BY <1>3, <1>8, <1>10 DEF Foretold, L

LEMMA ForetoldLess ==
  ASSUME NEW n, NEW bufs, NEW cs, NEW claims, Foretold(n, bufs, cs, claims), NEW less \in SUBSET claims
  PROVE  Foretold(n, bufs, cs, less)
BY DEF Foretold

-------------------------------------------------------------------------------
(* TensorArithmetic: who has which buffer                                      *)

HeldBy(vs) == {vs[t].block : t \in {u \in DOMAIN vs : vs[u].live}}

\* A buffer of n is in the free list, at work in a call (out) or a tensor's.
Owned(n, free, out, vs) ==
  /\ free \in Seq(1 .. n) /\ out \in SUBSET (1 .. n) /\ HeldBy(vs) \in SUBSET (1 .. n)
  /\ \A i, j \in 1 .. Len(free) : free[i] = free[j] => i = j
  /\ \A i \in 1 .. Len(free) : free[i] \notin out /\ free[i] \notin HeldBy(vs)
  /\ \A b \in out : b \notin HeldBy(vs)
  /\ \A t, u \in DOMAIN vs : vs[t].live /\ vs[u].live /\ vs[t].block = vs[u].block => t = u

\* The buffers, with what is claimed of them as long as the host has kept off.
Sound(bufs, free, out, cs, vs, clean, claims) ==
  /\ bufs \in Seq(Block)
  /\ Owned(Len(bufs), free, out, vs)
  /\ Commands(cs, Len(bufs))
  /\ \A k \in claims : ClaimOK(k, Len(bufs)) /\ k.block \in out \cup HeldBy(vs)
  /\ clean => Foretold(Len(bufs), bufs, cs, claims)

LEMMA Appended ==
  ASSUME NEW S, NEW s \in Seq(S), NEW e \in S
  PROVE  /\ Append(s, e) \in Seq(S) /\ Len(s) \in Nat /\ Len(Append(s, e)) = Len(s) + 1
         /\ Append(s, e)[Len(s) + 1] = e /\ \A i \in 1 .. Len(s) : Append(s, e)[i] = s[i]
OBVIOUS

LEMMA ButLast ==
  ASSUME NEW S, NEW s \in Seq(S), s # <<>>
  PROVE  /\ Len(s) \in Nat \ {0} /\ s[Len(s)] \in S
         /\ SubSeq(s, 1, Len(s) - 1) \in Seq(S) /\ Len(SubSeq(s, 1, Len(s) - 1)) = Len(s) - 1
         /\ \A i \in 1 .. Len(s) - 1 : SubSeq(s, 1, Len(s) - 1)[i] = s[i]
<1>1. Len(s) \in Nat \ {0} /\ s[Len(s)] \in S
  OBVIOUS
<1>2. SubSeq(s, 1, Len(s) - 1) = [i \in 1 .. Len(s) - 1 |-> s[i]]
  BY <1>1
<1>3. \A i \in 1 .. Len(s) - 1 : s[i] \in S
  OBVIOUS
<1>4. \A n \in Nat : \A f \in [1 .. n -> S] : f \in Seq(S) /\ Len(f) = n
  OBVIOUS
<1>5. Len(s) - 1 \in Nat
  BY <1>1
<1>6. SubSeq(s, 1, Len(s) - 1) \in [1 .. Len(s) - 1 -> S]
  BY <1>2, <1>3
<1>7. SubSeq(s, 1, Len(s) - 1) \in Seq(S) /\ Len(SubSeq(s, 1, Len(s) - 1)) = Len(s) - 1
  BY <1>4, <1>5, <1>6
<1> QED BY <1>1, <1>2, <1>7

LEMMA Listed ==
  ASSUME NEW S, NEW n \in Nat, NEW f \in [1 .. n -> S] PROVE f \in Seq(S) /\ Len(f) = n
OBVIOUS

\* The beginning of a buffer.
LEMMA FirstCells ==
  ASSUME NEW f \in [1 .. 4 -> Numbers3], NEW k \in 1 .. 4
  PROVE  /\ SubSeq(f, 1, k) = [i \in 1 .. k |-> f[i]]
         /\ SubSeq(f, 1, k) \in [1 .. k -> Numbers3]
<1>1. f \in Seq(Numbers3) /\ Len(f) = 4
  <2>1. 4 \in Nat
    OBVIOUS
  <2> QED BY <2>1, Listed
<1>2. SubSeq(f, 1, k) = [i \in 1 .. k |-> f[i]]
  BY <1>1
<1>3. [i \in 1 .. k |-> f[i]] \in [1 .. k -> Numbers3]
  OBVIOUS
<1> QED BY <1>2, <1>3

LEMMA BuffersAre ==
  ASSUME NEW bufs \in Seq(Block)
  PROVE  Len(bufs) \in Nat /\ bufs \in [1 .. Len(bufs) -> Block]
OBVIOUS

Zeros == [i \in 1 .. 4 |-> 0]
IsMem(m) == {"blocks", "pool"} \subseteq DOMAIN m

LEMMA MemFits ==
  ASSUME NEW m, IsMem(m)
  PROVE  /\ IsMem(Mem) /\ IsMem(Allocate(m)) /\ IsMem(NewBlock(m))
         /\ \A b, cells : IsMem(HostWrites(m, b, cells))
         /\ \A b : /\ GiveBack(m, b).blocks = m.blocks
                  /\ GiveBack(m, b).pool = Append(m.pool, b)
<1>1. IsMem(Mem) /\ IsMem(Allocate(m)) /\ IsMem(NewBlock(m))
  BY DEF IsMem, Mem, Allocate, NewBlock
<1>2. \A b, cells : IsMem(HostWrites(m, b, cells))
  BY DEF IsMem, HostWrites
<1>3. \A b : GiveBack(m, b).blocks = m.blocks /\ GiveBack(m, b).pool = Append(m.pool, b)
  BY DEF IsMem, GiveBack
<1> QED BY <1>1, <1>2, <1>3

LEMMA SoundNew ==
  ASSUME NEW m, NEW out, NEW cs, NEW vs, NEW clean, NEW claims,
         Sound(m.blocks, m.pool, out, cs, vs, clean, claims)
  PROVE  /\ Sound(NewBlock(m).blocks, NewBlock(m).pool, out \cup {NewBlock(m).got}, cs, vs, clean, claims)
         /\ NewBlock(m).got \in 1 .. Len(NewBlock(m).blocks)
         /\ NewBlock(m).got \notin out /\ NewBlock(m).got \notin HeldBy(vs)
         /\ \A i \in 1 .. Len(cs) : /\ NewBlock(m).got # cs[i].a /\ NewBlock(m).got # cs[i].b
                                    /\ NewBlock(m).got # cs[i].out
<1> DEFINE a == NewBlock(m)
           bufs == m.blocks
           free == m.pool
           n == Len(bufs)
           bufs2 == Append(bufs, Zeros)
<1>1. /\ bufs \in Seq(Block) /\ n \in Nat /\ bufs \in [1 .. n -> Block]
      /\ Owned(n, free, out, vs) /\ Commands(cs, n)
      /\ \A k \in claims : ClaimOK(k, n) /\ k.block \in out \cup HeldBy(vs)
      /\ clean => Foretold(n, bufs, cs, claims)
  BY BuffersAre DEF Sound
<1>2. Zeros \in Block
  BY DEF Zeros, Block, Numbers3
<1>3. /\ bufs2 \in Seq(Block) /\ Len(bufs2) = n + 1 /\ bufs2 \in [1 .. n + 1 -> Block]
      /\ bufs2[n + 1] = Zeros /\ \A b \in 1 .. n : bufs2[b] = bufs[b]
  <2>1. /\ bufs2 \in Seq(Block) /\ Len(bufs2) = n + 1
        /\ bufs2[n + 1] = Zeros /\ \A b \in 1 .. n : bufs2[b] = bufs[b]
    BY <1>1, <1>2, Appended
  <2> HIDE DEF bufs2
  <2> QED BY <2>1, BuffersAre
<1>4. a.blocks = bufs2 /\ a.pool = free /\ a.got = n + 1
  BY DEF NewBlock, Zeros
<1> HIDE DEF bufs2, a
<1>5. n + 1 \notin out /\ n + 1 \notin HeldBy(vs) /\ n + 1 \in 1 .. n + 1
      /\ \A b \in 1 .. n : b \in 1 .. n + 1 /\ b # n + 1
  BY <1>1 DEF Owned
<1>6. Owned(n + 1, free, out \cup {n + 1}, vs)
  <2>1. free \in Seq(1 .. n) /\ Len(free) \in Nat /\ \A i \in 1 .. Len(free) : free[i] \in 1 .. n
    BY <1>1 DEF Owned
  <2>2. free \in Seq(1 .. n + 1)
    BY <1>5, <2>1
  <2> QED BY <1>1, <1>5, <2>1, <2>2 DEF Owned
<1>7. Commands(cs, n + 1)
  BY <1>1 DEF Commands, CommandOK
<1>8. \A k \in claims : ClaimOK(k, n + 1) /\ k.block \in (out \cup {n + 1}) \cup HeldBy(vs)
  BY <1>1 DEF ClaimOK
<1>9. clean => Foretold(n + 1, bufs2, cs, claims)
  BY <1>1, <1>2, <1>3, ForetoldGrown
<1>10. Sound(bufs2, free, out \cup {n + 1}, cs, vs, clean, claims)
  BY <1>3, <1>6, <1>7, <1>8, <1>9 DEF Sound
<1>11. \A i \in 1 .. Len(cs) : n + 1 # cs[i].a /\ n + 1 # cs[i].b /\ n + 1 # cs[i].out
  BY <1>1 DEF Commands, CommandOK
<1> QED BY <1>3, <1>4, <1>5, <1>10, <1>11 DEF a

\* What allocate() returns is nobody's: the last of the free list, or new.
LEMMA SoundAllocated ==
  ASSUME NEW m, NEW out, NEW cs, NEW vs, NEW clean, NEW claims,
         Sound(m.blocks, m.pool, out, cs, vs, clean, claims)
  PROVE  /\ Sound(Allocate(m).blocks, Allocate(m).pool, out \cup {Allocate(m).got}, cs, vs, clean, claims)
         /\ Allocate(m).got \in 1 .. Len(Allocate(m).blocks)
         /\ Allocate(m).got \notin out /\ Allocate(m).got \notin HeldBy(vs)
<1> DEFINE a == Allocate(m)
           bufs == m.blocks
           free == m.pool
<1>1. CASE free = <<>>
  <2>1. a = NewBlock(m)
    BY <1>1 DEF Allocate, NewBlock
  <2> QED BY <2>1, SoundNew
<1>2. CASE free # <<>>
  <2> DEFINE n == Len(bufs)
             L == Len(free)
             rest == SubSeq(free, 1, L - 1)
             got == free[L]
  <2>1. a.blocks = bufs /\ a.pool = rest /\ a.got = got
    BY <1>2 DEF Allocate, Front, Last
  <2>2. Owned(n, free, out, vs)
    BY DEF Sound
  <2>3. /\ free \in Seq(1 .. n) /\ L \in Nat /\ L >= 1 /\ got \in 1 .. n /\ L \in 1 .. L
        /\ rest \in Seq(1 .. n) /\ Len(rest) = L - 1
        /\ \A i \in 1 .. L - 1 : rest[i] = free[i] /\ i # L /\ i \in 1 .. L
    <3>1. free \in Seq(1 .. n)
      BY <2>2 DEF Owned
    <3>2. L \in Nat \ {0} /\ got \in 1 .. n
      BY <1>2, <3>1, ButLast
    <3>3. rest \in Seq(1 .. n) /\ Len(rest) = L - 1
      BY <1>2, <3>1, ButLast
    <3>4. \A i \in 1 .. L - 1 : rest[i] = free[i]
      BY <1>2, <3>1, ButLast
    <3> HIDE DEF rest, L, got
    <3> QED BY <3>1, <3>2, <3>3, <3>4
  <2> HIDE DEF rest, L
  <2>4. got \notin out /\ got \notin HeldBy(vs)
    BY <2>2, <2>3 DEF Owned, L
  <2>5. /\ \A i, j \in 1 .. Len(rest) : rest[i] = rest[j] => i = j
        /\ \A i \in 1 .. Len(rest) : rest[i] # got /\ rest[i] \notin out /\ rest[i] \notin HeldBy(vs)
    <3>1. /\ \A i, j \in 1 .. L : free[i] = free[j] => i = j
          /\ \A i \in 1 .. L : free[i] \notin out /\ free[i] \notin HeldBy(vs)
      BY <2>2 DEF Owned, L
    <3>2. \A i \in 1 .. Len(rest) : i \in 1 .. L - 1 /\ i \in 1 .. L /\ i # L /\ rest[i] = free[i]
      BY <2>3
    <3>3. \A i, j \in 1 .. Len(rest) : rest[i] = rest[j] => i = j
      BY <3>1, <3>2
    <3>4. \A i \in 1 .. Len(rest) : rest[i] # got
      BY <2>3, <3>1, <3>2
    <3>5. \A i \in 1 .. Len(rest) : rest[i] \notin out /\ rest[i] \notin HeldBy(vs)
      BY <3>1, <3>2
    <3> QED BY <3>3, <3>4, <3>5
  <2>6. Owned(n, rest, out \cup {got}, vs)
    <3>1. out \cup {got} \in SUBSET (1 .. n)
      BY <2>2, <2>3 DEF Owned
    <3> HIDE DEF got
    <3> QED BY <2>2, <2>3, <2>4, <2>5, <3>1 DEF Owned
  <2>7. Sound(bufs, rest, out \cup {got}, cs, vs, clean, claims)
    <3> HIDE DEF got
    <3> QED BY <2>6 DEF Sound
  <2> QED BY <2>1, <2>3, <2>4, <2>7
<1> QED BY <1>1, <1>2

\* The host writes to a buffer of its call: once a waiting command uses it, no more is
\* claimed.
LEMMA SoundWritten ==
  ASSUME NEW m, NEW out, NEW cs, NEW vs, NEW clean, NEW claims,
         Sound(m.blocks, m.pool, out, cs, vs, clean, claims), IsMem(m),
         NEW b \in out, \A k \in claims : k.block # b,
         NEW cells, NEW size \in 1 .. 4, cells \in [1 .. size -> Numbers3],
         NEW clean2,
         clean2 => clean /\ \A i \in 1 .. Len(cs) : b # cs[i].a /\ b # cs[i].b /\ b # cs[i].out
  PROVE  Sound(HostWrites(m, b, cells).blocks, HostWrites(m, b, cells).pool, out, cs, vs, clean2,
               claims \cup {Claim(b, cells)})
<1> DEFINE h == HostWrites(m, b, cells)
           bufs == m.blocks
           free == m.pool
           n == Len(bufs)
           cell == [i \in 1 .. 4 |-> IF i \in DOMAIN cells THEN cells[i] ELSE bufs[b][i]]
           bufs2 == [bufs EXCEPT ![b] = cell]
<1>1. /\ bufs \in Seq(Block) /\ n \in Nat /\ bufs \in [1 .. n -> Block] /\ b \in 1 .. n
      /\ Owned(n, free, out, vs) /\ Commands(cs, n)
      /\ \A k \in claims : ClaimOK(k, n) /\ k.block \in out \cup HeldBy(vs)
      /\ clean => Foretold(n, bufs, cs, claims)
  BY BuffersAre DEF Sound, Owned
<1>2. cell \in Block /\ \A i \in 1 .. size : cell[i] = cells[i]
  <2>1. bufs[b] \in Block
    BY <1>1
  <2>2. \A i \in 1 .. 4 : (IF i \in DOMAIN cells THEN cells[i] ELSE bufs[b][i]) \in Numbers3
    BY <2>1 DEF Block
  <2> QED BY <2>2 DEF Block
<1>3. h.blocks = bufs2 /\ h.pool = free
  BY DEF HostWrites, IsMem
<1> HIDE DEF cell, h
<1>4. bufs2 \in Seq(Block) /\ Len(bufs2) = n
  BY <1>1, <1>2
<1>5. cells \in Seq(Numbers3) /\ Len(cells) = size /\ DOMAIN cells = 1 .. size
  OBVIOUS
<1>6. /\ Claim(b, cells).block = b /\ Claim(b, cells).cells = cells
      /\ ClaimOK(Claim(b, cells), n)
  BY <1>1, <1>5 DEF Claim, ClaimOK
<1>7. clean2 => Foretold(n, bufs2, cs, claims \cup {Claim(b, cells)})
  <2> SUFFICES ASSUME clean2 PROVE Foretold(n, bufs2, cs, claims \cup {Claim(b, cells)})
    OBVIOUS
  <2>1. \A e \in {Claim(b, cells)} : e.block = b /\ \A i \in 1 .. Len(e.cells) : e.cells[i] = cell[i]
    BY <1>2, <1>5, <1>6
  <2> QED BY <1>1, <1>2, <2>1, ForetoldWritten
<1>8. Sound(bufs2, free, out, cs, vs, clean2, claims \cup {Claim(b, cells)})
  <2> HIDE DEF bufs2
  <2> QED BY <1>1, <1>4, <1>6, <1>7 DEF Sound
<1> QED BY <1>3, <1>4, <1>8 DEF h

\* The claims leave the command no choice but to write the cells.
Justified(c, cells, claims) ==
  \A mem : mem[c.a] \in Block /\ mem[c.b] \in Block /\ (\A k \in claims : Holds(mem, k)) =>
            \A i \in 1 .. Len(cells) : i \in DOMAIN Made(c, mem) /\ cells[i] = Made(c, mem)[i]

\* A command is encoded into a buffer of the call.
LEMMA SoundEncoded ==
  ASSUME NEW bufs, NEW free, NEW out, NEW cs, NEW vs, NEW clean, NEW claims,
         Sound(bufs, free, out, cs, vs, clean, claims),
         NEW c, CommandOK(c, Len(bufs)), c.out \in out, \A k \in claims : k.block # c.out,
         NEW more, \A e \in more :
           ClaimOK(e, Len(bufs)) /\ e.block = c.out /\ Justified(c, e.cells, claims)
  PROVE  Sound(bufs, free, out, Append(cs, c), vs, clean, claims \cup more)
<1>1. /\ bufs \in Seq(Block) /\ Len(bufs) \in Nat /\ bufs \in [1 .. Len(bufs) -> Block]
      /\ Owned(Len(bufs), free, out, vs) /\ Commands(cs, Len(bufs))
      /\ \A k \in claims : ClaimOK(k, Len(bufs)) /\ k.block \in out \cup HeldBy(vs)
      /\ clean => Foretold(Len(bufs), bufs, cs, claims)
  BY BuffersAre DEF Sound
<1>2. Commands(Append(cs, c), Len(bufs))
  <2>1. c \in Command /\ cs \in Seq(Command) /\ \A i \in 1 .. Len(cs) : CommandOK(cs[i], Len(bufs))
    BY <1>1 DEF Commands, CommandOK
  <2>2. /\ Append(cs, c) \in Seq(Command) /\ Len(Append(cs, c)) = Len(cs) + 1 /\ Len(cs) \in Nat
        /\ Append(cs, c)[Len(cs) + 1] = c /\ \A i \in 1 .. Len(cs) : Append(cs, c)[i] = cs[i]
    BY <2>1
  <2> QED BY <2>1, <2>2 DEF Commands
<1>3. clean => Foretold(Len(bufs), bufs, Append(cs, c), claims \cup more)
  <2> SUFFICES ASSUME clean PROVE Foretold(Len(bufs), bufs, Append(cs, c), claims \cup more)
    OBVIOUS
  <2>1. Foretold(Len(bufs), bufs, cs, claims) /\ \A k \in claims : ClaimOK(k, Len(bufs))
    BY <1>1
  <2>2. \A e \in more :
          /\ e.block = c.out
          /\ \A mem \in [1 .. Len(bufs) -> Block] : (\A k \in claims : Holds(mem, k)) =>
               \A i \in 1 .. Len(e.cells) : i \in DOMAIN Made(c, mem) /\ e.cells[i] = Made(c, mem)[i]
    BY DEF Justified, CommandOK
  <2> QED BY <1>1, <2>1, <2>2, ForetoldEncoded
<1> QED BY <1>1, <1>2, <1>3 DEF Sound

\* A temporary goes back, whatever waits for it.
LEMMA SoundReturned ==
  ASSUME NEW bufs, NEW free, NEW out, NEW cs, NEW vs, NEW clean, NEW claims,
         Sound(bufs, free, out, cs, vs, clean, claims), NEW b \in out,
         NEW less \in SUBSET claims, \A k \in less : k.block # b
  PROVE  Sound(bufs, Append(free, b), out \ {b}, cs, vs, clean, less)
<1> DEFINE n == Len(bufs)
           free2 == Append(free, b)
<1>1. Owned(n, free, out, vs)
  BY DEF Sound
<1>2. /\ free \in Seq(1 .. n) /\ Len(free) \in Nat /\ b \in 1 .. n
      /\ free2 \in Seq(1 .. n) /\ Len(free2) = Len(free) + 1 /\ free2[Len(free) + 1] = b
      /\ \A i \in 1 .. Len(free) : free2[i] = free[i] /\ free[i] # b
  <2>1. free \in Seq(1 .. n) /\ b \in 1 .. n /\ \A i \in 1 .. Len(free) : free[i] # b
    BY <1>1 DEF Owned
  <2> QED BY <2>1, Appended
<1> HIDE DEF free2
<1>3. /\ \A i, j \in 1 .. Len(free2) : free2[i] = free2[j] => i = j
      /\ \A i \in 1 .. Len(free2) : free2[i] \notin out \ {b} /\ free2[i] \notin HeldBy(vs)
  <2>1. /\ \A i, j \in 1 .. Len(free) : free[i] = free[j] => i = j
        /\ \A i \in 1 .. Len(free) : free[i] \notin out /\ free[i] \notin HeldBy(vs)
        /\ b \notin HeldBy(vs)
    BY <1>1 DEF Owned
  <2>2. \A i \in 1 .. Len(free2) : i \in 1 .. Len(free) \/ (i = Len(free2) /\ free2[i] = b)
    BY <1>2
  <2>3. \A i, j \in 1 .. Len(free2) : free2[i] = free2[j] => i = j
    BY <1>2, <2>1, <2>2
  <2>4. \A i \in 1 .. Len(free2) : free2[i] \notin out \ {b} /\ free2[i] \notin HeldBy(vs)
    BY <1>2, <2>1, <2>2
  <2> QED BY <2>3, <2>4
<1>4. Owned(n, free2, out \ {b}, vs)
  BY <1>1, <1>2, <1>3 DEF Owned
<1>5. clean => Foretold(n, bufs, cs, less)
  BY ForetoldLess DEF Sound
<1> QED BY <1>4, <1>5 DEF Sound, free2

LEMMA SoundLess ==
  ASSUME NEW bufs, NEW free, NEW out, NEW cs, NEW vs, NEW clean, NEW claims,
         Sound(bufs, free, out, cs, vs, clean, claims), NEW less \in SUBSET claims
  PROVE  Sound(bufs, free, out, cs, vs, clean, less)
BY ForetoldLess DEF Sound

\* A buffer of the call becomes that of a tensor.
LEMMA SoundKept ==
  ASSUME NEW bufs, NEW free, NEW out, NEW cs, NEW vs \in Seq(Value), NEW clean, NEW claims,
         NEW v \in Value, v.live, v.block \in out,
         Sound(bufs, free, out, cs, vs, clean, claims)
  PROVE  Sound(bufs, free, out \ {v.block}, cs, Append(vs, v), clean, claims)
<1> DEFINE n == Len(bufs)
           vs2 == Append(vs, v)
<1>1. Owned(n, free, out, vs)
  BY DEF Sound
<1>2. /\ DOMAIN vs = 1 .. Len(vs) /\ Len(vs) \in Nat /\ DOMAIN vs2 = 1 .. Len(vs) + 1
      /\ vs2[Len(vs) + 1] = v /\ \A t \in 1 .. Len(vs) : vs2[t] = vs[t]
  OBVIOUS
<1> HIDE DEF vs2
<1>3. HeldBy(vs2) = HeldBy(vs) \cup {v.block}
  BY <1>2 DEF HeldBy
<1>4. \A t, u \in DOMAIN vs2 : vs2[t].live /\ vs2[u].live /\ vs2[t].block = vs2[u].block => t = u
  <2>1. \A t \in DOMAIN vs : vs[t].live => vs[t].block \in HeldBy(vs) /\ vs[t].block # v.block
    BY <1>1 DEF Owned, HeldBy
  <2> QED BY <1>1, <1>2, <2>1 DEF Owned
<1>5. Owned(n, free, out \ {v.block}, vs2)
  BY <1>1, <1>3, <1>4 DEF Owned
<1>6. \A k \in claims : k.block \in (out \ {v.block}) \cup HeldBy(vs2)
  BY <1>3 DEF Sound
<1> QED BY <1>5, <1>6 DEF Sound, vs2

-------------------------------------------------------------------------------
(* TensorArithmetic: the invariant                                             *)

Claims(vs) == {Claim(vs[t].block, vs[t].expect) : t \in {u \in DOMAIN vs : vs[u].live /\ vs[u].exact}}
OfShape(v) == Len(v.expect) = Numel(v.shape)

ArithInv ==
  /\ values \in Seq(Value) /\ \A t \in DOMAIN values : OfShape(values[t])
  /\ Sound(blocks, pool, {}, commands, values, ~raced, Claims(values))
  /\ raced \in BOOLEAN /\ misread \in BOOLEAN
  /\ ~raced => ~misread

LEMMA FloatFits ==
  ASSUME NEW b \in Nat, NEW pooled \in BOOLEAN, NEW shape \in AllShapes,
         NEW expect \in [1 .. Numel(shape) -> Numbers3], NEW exact \in BOOLEAN
  PROVE  /\ Float(b, pooled, shape, expect, exact) \in Value
         /\ OfShape(Float(b, pooled, shape, expect, exact))
         /\ expect \in Seq(Numbers3) /\ Len(expect) = Numel(shape) /\ Len(expect) \in {1, 2, 4}
<1>1. Numel(shape) \in {1, 2, 4}
  BY NumelFacts
<1>2. expect \in Seq(Numbers3) /\ Len(expect) = Numel(shape)
  BY <1>1
<1> QED BY <1>1, <1>2 DEF Float, Value, OfShape

\* The tensors there are.
LEMMA TensorFacts ==
  ASSUME ArithInv, NEW t \in DOMAIN values
  PROVE  /\ values[t] \in Value /\ values[t].shape \in AllShapes
         /\ Numel(values[t].shape) \in {1, 2, 4}
         /\ values[t].expect \in [1 .. Numel(values[t].shape) -> Numbers3]
         /\ values[t].expect \in Seq(Numbers3)
         /\ Len(values[t].expect) = Numel(values[t].shape)
         /\ values[t].exact \in BOOLEAN /\ values[t].pooled \in BOOLEAN /\ values[t].live \in BOOLEAN
         /\ values[t].live => values[t].block \in 1 .. Len(blocks) /\ values[t].block \in HeldBy(values)
         /\ values[t].live /\ values[t].exact => Claim(values[t].block, values[t].expect) \in Claims(values)
<1>1. values[t] \in Value /\ Len(values[t].expect) = Numel(values[t].shape)
  BY DEF ArithInv, OfShape
<1>2. /\ values[t].shape \in AllShapes /\ values[t].expect \in Seq(Numbers3)
      /\ values[t].exact \in BOOLEAN /\ values[t].pooled \in BOOLEAN /\ values[t].live \in BOOLEAN
  BY <1>1 DEF Value
<1>3. Numel(values[t].shape) \in {1, 2, 4}
  BY <1>2, NumelFacts
<1>4. values[t].expect \in [1 .. Numel(values[t].shape) -> Numbers3]
  BY <1>1, <1>2
<1>5. HeldBy(values) \in SUBSET (1 .. Len(blocks))
  BY DEF ArithInv, Sound, Owned
<1>6. values[t].live => values[t].block \in HeldBy(values)
  BY DEF HeldBy
<1>7. values[t].live /\ values[t].exact => Claim(values[t].block, values[t].expect) \in Claims(values)
  BY DEF Claims
<1> QED BY <1>1, <1>2, <1>3, <1>4, <1>5, <1>6, <1>7

\* A claim of a tensor is on its own buffer.
LEMMA ClaimsHeld ==
  ASSUME NEW k \in Claims(values) PROVE k.block \in HeldBy(values)
BY DEF Claims, Claim, HeldBy

\* A call ends with a new tensor, which has the only buffer left.
LEMMA Added ==
  ASSUME ArithInv, NEW v \in Value, v.live, OfShape(v),
         NEW bufs, NEW free, NEW cs, NEW claims,
         Sound(bufs, free, {v.block}, cs, values, ~raced', claims),
         Claims(values) \in SUBSET claims, v.exact => Claim(v.block, v.expect) \in claims,
         blocks' = bufs, pool' = free, commands' = cs, values' = Append(values, v),
         raced' \in BOOLEAN, raced => raced', misread' = misread
  PROVE  ArithInv'
<1>1. /\ values \in Seq(Value) /\ \A t \in DOMAIN values : OfShape(values[t])
      /\ misread \in BOOLEAN /\ ~raced => ~misread
  BY DEF ArithInv
<1>2. Sound(bufs, free, {v.block} \ {v.block}, cs, Append(values, v), ~raced', claims)
  BY <1>1, SoundKept
<1>3. {v.block} \ {v.block} = {}
  OBVIOUS
<1>4. Claims(Append(values, v)) \in SUBSET claims
  <2>1. /\ DOMAIN Append(values, v) = 1 .. Len(values) + 1 /\ DOMAIN values = 1 .. Len(values)
        /\ Len(values) \in Nat /\ Append(values, v)[Len(values) + 1] = v
        /\ \A t \in 1 .. Len(values) : Append(values, v)[t] = values[t]
    BY <1>1
  <2>2. ASSUME NEW t \in DOMAIN Append(values, v), Append(values, v)[t].live, Append(values, v)[t].exact
        PROVE  Claim(Append(values, v)[t].block, Append(values, v)[t].expect) \in claims
    <3>1. CASE t = Len(values) + 1
      BY <2>1, <2>2, <3>1
    <3>2. CASE t \in DOMAIN values
      <4>1. Claim(values[t].block, values[t].expect) \in Claims(values)
        BY <2>1, <2>2, <3>2 DEF Claims
      <4> QED BY <2>1, <3>2, <4>1
    <3> QED BY <2>1, <3>1, <3>2
  <2> HIDE DEF Claim
  <2> QED BY <2>2 DEF Claims
<1>5. Sound(bufs, free, {}, cs, Append(values, v), ~raced', Claims(Append(values, v)))
  BY <1>2, <1>3, <1>4, SoundLess
<1>6. Append(values, v) \in Seq(Value) /\ \A t \in DOMAIN Append(values, v) : OfShape(Append(values, v)[t])
  <2>1. /\ DOMAIN Append(values, v) = 1 .. Len(values) + 1 /\ DOMAIN values = 1 .. Len(values)
        /\ Len(values) \in Nat /\ Append(values, v)[Len(values) + 1] = v
        /\ \A t \in 1 .. Len(values) : Append(values, v)[t] = values[t]
    BY <1>1
  <2> QED BY <1>1, <2>1
<1> QED BY <1>1, <1>5, <1>6 DEF ArithInv

LEMMA InvSound ==
  ASSUME ArithInv
  PROVE  /\ Sound(Mem.blocks, Mem.pool, {}, commands, values, ~raced, Claims(values))
         /\ Mem.blocks = blocks /\ Mem.pool = pool /\ IsMem(Mem)
BY DEF ArithInv, Mem, IsMem

\* The operators of one command: a result in recycled memory.
LEMMA OneCommand ==
  ASSUME ArithInv, NEW c \in Command, NEW v \in Value, v.live, OfShape(v),
         c.a \in HeldBy(values), c.b \in HeldBy(values), c.kernel = "sum" => c.dim < Len(c.shape),
         c.out = Allocate(Mem).got, v.block = Allocate(Mem).got,
         v.exact => Justified(c, v.expect, Claims(values)),
         Becomes(Allocate(Mem)), commands' = Append(commands, c), values' = Append(values, v),
         UNCHANGED <<misread, raced>>
  PROVE  ArithInv'
<1>a. PICK m : m = Allocate(Mem)
  OBVIOUS
<1>1. /\ Sound(m.blocks, m.pool, {} \cup {m.got}, commands, values, ~raced, Claims(values))
      /\ m.got \in 1 .. Len(m.blocks) /\ m.got \notin HeldBy(values)
  BY <1>a, InvSound, SoundAllocated
<1>2. {} \cup {m.got} = {m.got}
  OBVIOUS
<1>3. HeldBy(values) \in SUBSET (1 .. Len(m.blocks))
  BY <1>1 DEF Sound, Owned
<1>4. CommandOK(c, Len(m.blocks))
  BY <1>a, <1>1, <1>3 DEF CommandOK
<1>5. \A k \in Claims(values) : k.block # c.out
  BY <1>a, <1>1, ClaimsHeld
<1> DEFINE more == IF v.exact THEN {Claim(v.block, v.expect)} ELSE {}
<1>6. \A e \in more : ClaimOK(e, Len(m.blocks)) /\ e.block = c.out /\ Justified(c, e.cells, Claims(values))
  <2>1. v.expect \in Seq(Numbers3) /\ Len(v.expect) \in 1 .. 4
    BY NumelFacts DEF Value, OfShape
  <2>2. ClaimOK(Claim(v.block, v.expect), Len(m.blocks))
    BY <1>a, <1>1, <2>1 DEF ClaimOK, Claim
  <2>3. Claim(v.block, v.expect).block = c.out /\ Claim(v.block, v.expect).cells = v.expect
    BY DEF Claim
  <2> QED BY <2>2, <2>3
<1> HIDE DEF more
<1>7. Sound(m.blocks, m.pool, {m.got}, Append(commands, c), values, ~raced, Claims(values) \cup more)
  <2>1. Sound(m.blocks, m.pool, {m.got}, commands, values, ~raced, Claims(values)) /\ c.out \in {m.got}
    BY <1>a, <1>1, <1>2
  <2> QED BY <1>4, <1>5, <1>6, <2>1, SoundEncoded
<1>8. blocks' = m.blocks /\ pool' = m.pool /\ raced' = raced /\ misread' = misread /\ raced' \in BOOLEAN
  BY <1>a DEF Becomes, ArithInv
<1>9. v.exact => Claim(v.block, v.expect) \in Claims(values) \cup more
  BY DEF more
<1>10. Sound(m.blocks, m.pool, {v.block}, Append(commands, c), values, ~raced', Claims(values) \cup more)
  BY <1>a, <1>7, <1>8
<1>11. Claims(values) \in SUBSET (Claims(values) \cup more) /\ raced => raced'
  BY <1>8
<1> QED BY <1>8, <1>9, <1>10, <1>11, Added

-------------------------------------------------------------------------------
(* TensorArithmetic: what the operators mean is what the kernels do            *)

LEMMA StretchedFits ==
  ASSUME NEW s \in Seq(Numbers3), Len(s) \in {1, 2, 4}
  PROVE  \A i \in 1 .. 4 : /\ Stretched(s, i) \in Numbers3
                           /\ i <= Len(s) => Stretched(s, i) = s[i]
<1>1. ASSUME NEW i \in 1 .. 4
      PROVE  /\ ((i - 1) % Len(s)) + 1 \in 1 .. Len(s)
             /\ i <= Len(s) => ((i - 1) % Len(s)) + 1 = i
  <2>1. CASE Len(s) = 1
    BY <2>1
  <2>2. CASE Len(s) = 2
    BY <2>2
  <2>3. CASE Len(s) = 4
    BY <2>3
  <2> QED BY <2>1, <2>2, <2>3
<1> QED BY <1>1 DEF Stretched

LEMMA MeantFits ==
  ASSUME NEW kernel \in {"add", "sub"}, NEW x \in Seq(Numbers3), NEW y \in Seq(Numbers3),
         Len(x) \in {1, 2, 4}, Len(y) \in {1, 2, 4}, NEW shape \in AllShapes
  PROVE  /\ Meant(kernel, x, y, shape) \in [1 .. Numel(shape) -> Numbers3]
         /\ Len(x) = Numel(shape) /\ Len(y) = Numel(shape) =>
              \A i \in 1 .. Numel(shape) :
                Meant(kernel, x, y, shape)[i] = IF kernel = "add" THEN (x[i] + y[i]) % 3 ELSE (x[i] - y[i]) % 3
<1>1. Numel(shape) \in {1, 2, 4} /\ \A i \in 1 .. Numel(shape) : i \in 1 .. 4
  BY NumelFacts
<1>2. \A i \in 1 .. Numel(shape) : Stretched(x, i) \in Numbers3 /\ Stretched(y, i) \in Numbers3
  <2>1. \A i \in 1 .. 4 : Stretched(x, i) \in Numbers3
    BY StretchedFits
  <2>2. \A i \in 1 .. 4 : Stretched(y, i) \in Numbers3
    BY StretchedFits
  <2> QED BY <1>1, <2>1, <2>2
<1>3. \A i \in 1 .. Numel(shape) : /\ (Stretched(x, i) + Stretched(y, i)) % 3 \in Numbers3
                                   /\ (Stretched(x, i) - Stretched(y, i)) % 3 \in Numbers3
  BY <1>2, ModuloFits
<1>4. Meant(kernel, x, y, shape) \in [1 .. Numel(shape) -> Numbers3]
  BY <1>3 DEF Meant
<1>5. Len(x) = Numel(shape) /\ Len(y) = Numel(shape) =>
        \A i \in 1 .. Numel(shape) : Stretched(x, i) = x[i] /\ Stretched(y, i) = y[i]
  <2>1. \A i \in 1 .. 4 : i <= Len(x) => Stretched(x, i) = x[i]
    BY StretchedFits
  <2>2. \A i \in 1 .. 4 : i <= Len(y) => Stretched(y, i) = y[i]
    BY StretchedFits
  <2> QED BY <1>1, <2>1, <2>2
<1>6. \A i \in 1 .. Numel(shape) :
        Meant(kernel, x, y, shape)[i] = IF kernel = "add" THEN (Stretched(x, i) + Stretched(y, i)) % 3
                                        ELSE (Stretched(x, i) - Stretched(y, i)) % 3
  BY DEF Meant
<1> QED BY <1>4, <1>5, <1>6

\* An elementwise kernel over operands that are known cell by cell.
LEMMA ElementsJustified ==
  ASSUME NEW c, c.kernel \in {"add", "sub"}, c.shape \in AllShapes,
         NEW x, NEW y, NEW claims,
         NEW cells \in Seq(Numbers3), Len(cells) = Numel(c.shape), Len(x) = Numel(c.shape), Len(y) = Numel(c.shape),
         Claim(c.a, x) \in claims, Claim(c.b, y) \in claims,
         \A i \in 1 .. Numel(c.shape) :
           cells[i] = IF c.kernel = "add" THEN (x[i] + y[i]) % 3 ELSE (x[i] - y[i]) % 3
  PROVE  Justified(c, cells, claims)
<1> SUFFICES ASSUME NEW mem, mem[c.a] \in Block, mem[c.b] \in Block, \A k \in claims : Holds(mem, k),
                    NEW i \in 1 .. Len(cells)
             PROVE  i \in DOMAIN Made(c, mem) /\ cells[i] = Made(c, mem)[i]
  BY DEF Justified
<1>1. i \in 1 .. Numel(c.shape)
  OBVIOUS
<1>2. mem[c.a][i] = x[i] /\ mem[c.b][i] = y[i]
  BY <1>1 DEF Holds, Claim
<1>3. CASE c.kernel = "add"
  <2>1. Made(c, mem) = [j \in 1 .. Numel(c.shape) |-> (mem[c.a][j] + mem[c.b][j]) % 3]
    BY <1>3 DEF Made, Kernel
  <2>2. Made(c, mem)[i] = (mem[c.a][i] + mem[c.b][i]) % 3 /\ i \in DOMAIN Made(c, mem)
    BY <1>1, <2>1
  <2> QED BY <1>1, <1>2, <1>3, <2>2
<1>4. CASE c.kernel = "sub"
  <2>1. Made(c, mem) = [j \in 1 .. Numel(c.shape) |-> (mem[c.a][j] - mem[c.b][j]) % 3]
    BY <1>4 DEF Made, Kernel
  <2>2. Made(c, mem)[i] = (mem[c.a][i] - mem[c.b][i]) % 3 /\ i \in DOMAIN Made(c, mem)
    BY <1>1, <2>1
  <2> QED BY <1>1, <1>2, <1>4, <2>2
<1> QED BY <1>3, <1>4

LEMMA BroadcastFits ==
  ASSUME NEW s \in AllShapes, NEW r \in AllShapes
  PROVE  /\ Broadcast(s, r) \in AllShapes
         /\ Numel(s) = Numel(r) => Numel(Broadcast(s, r)) = Numel(s)
BY DEF Broadcast

-------------------------------------------------------------------------------
(* TensorArithmetic: the steps                                                 *)

LEMMA GotNew ==
  ASSUME ArithInv
  PROVE  Allocate(Mem).got \in Nat
<1>1. Sound(Mem.blocks, Mem.pool, {}, commands, values, ~raced, Claims(values))
  BY InvSound
<1>2. Allocate(Mem).got \in 1 .. Len(Allocate(Mem).blocks)
  BY <1>1, SoundAllocated
<1> QED BY <1>2

LEMMA FloatsAre ==
  ASSUME ArithInv, NEW t \in Live
  PROVE  /\ t \in DOMAIN values /\ values[t].shape \in AllShapes /\ Numel(values[t].shape) \in {1, 2, 4}
         /\ values[t].expect \in [1 .. Numel(values[t].shape) -> Numbers3]
         /\ values[t].expect \in Seq(Numbers3) /\ Len(values[t].expect) = Numel(values[t].shape)
         /\ values[t].exact \in BOOLEAN
         /\ values[t].block \in HeldBy(values) /\ values[t].block \in Nat
         /\ values[t].exact => Claim(values[t].block, values[t].expect) \in Claims(values)
<1>1. t \in DOMAIN values /\ values[t].live
  BY DEF Live
<1>2. values[t].block \in 1 .. Len(blocks) /\ values[t].block \in HeldBy(values)
  BY <1>1, TensorFacts
<1>3. values[t].exact => Claim(values[t].block, values[t].expect) \in Claims(values)
  BY <1>1, TensorFacts
<1> QED BY <1>1, <1>2, <1>3, TensorFacts

LEMMA StepBinary ==
  ASSUME ArithInv, NEW s \in Floats, NEW t \in Floats, NEW kernel \in {"add", "sub"}, Binary(kernel, s, t)
  PROVE  ArithInv'
<1> DEFINE x == values[s]
           y == values[t]
           shape == Broadcast(x.shape, y.shape)
           got == Allocate(Mem).got
           c == Encode(kernel, x.block, y.block, got, shape, 0)
           expect == Meant(kernel, x.expect, y.expect, shape)
           exact == x.exact /\ y.exact /\ Len(x.expect) = Len(y.expect)
           v == Float(got, TRUE, shape, expect, exact)
<1>1. /\ x.shape \in AllShapes /\ y.shape \in AllShapes
      /\ x.expect \in Seq(Numbers3) /\ y.expect \in Seq(Numbers3)
      /\ Len(x.expect) = Numel(x.shape) /\ Len(y.expect) = Numel(y.shape)
      /\ Len(x.expect) \in {1, 2, 4} /\ Len(y.expect) \in {1, 2, 4}
      /\ x.exact \in BOOLEAN /\ y.exact \in BOOLEAN
      /\ x.block \in HeldBy(values) /\ y.block \in HeldBy(values) /\ x.block \in Nat /\ y.block \in Nat
      /\ x.exact => Claim(x.block, x.expect) \in Claims(values)
      /\ y.exact => Claim(y.block, y.expect) \in Claims(values)
  BY FloatsAre DEF Floats
<1>2. shape \in AllShapes /\ (Numel(x.shape) = Numel(y.shape) => Numel(shape) = Numel(x.shape))
  BY <1>1, BroadcastFits
<1>3. got \in Nat
  BY GotNew
<1>4. /\ Becomes(Allocate(Mem)) /\ commands' = Append(commands, c) /\ values' = Append(values, v)
      /\ UNCHANGED <<misread, raced>>
  BY DEF Binary, AddValue
<1> HIDE DEF x, y, shape, got
<1>5. /\ c \in Command /\ c.kernel = kernel /\ c.a = x.block /\ c.b = y.block /\ c.out = got /\ c.shape = shape
  <2>1. kernel \in {"add", "sub", "neg", "sum", "matmul", "norm"} /\ 0 \in 0 .. 1
    OBVIOUS
  <2> QED BY <1>1, <1>2, <1>3, <2>1 DEF Encode, Command
<1>6. expect \in [1 .. Numel(shape) -> Numbers3]
  BY <1>1, <1>2, MeantFits
<1>7. v \in Value /\ OfShape(v) /\ expect \in Seq(Numbers3) /\ Len(expect) = Numel(shape)
  BY <1>1, <1>2, <1>3, <1>6, FloatFits
<1>8. v.live /\ v.block = got /\ v.expect = expect /\ v.exact = exact
  BY DEF Float
<1> HIDE DEF c, v
<1>9. exact => Justified(c, expect, Claims(values))
  <2> SUFFICES ASSUME exact PROVE Justified(c, expect, Claims(values))
    OBVIOUS
  <2>0. Len(x.expect) = Numel(shape) /\ Len(y.expect) = Numel(shape)
    BY <1>1, <1>2
  <2>1. \A i \in 1 .. Numel(shape) :
          expect[i] = IF kernel = "add" THEN (x.expect[i] + y.expect[i]) % 3 ELSE (x.expect[i] - y.expect[i]) % 3
    <3>1. /\ x.expect \in Seq(Numbers3) /\ y.expect \in Seq(Numbers3) /\ shape \in AllShapes
          /\ Len(x.expect) \in {1, 2, 4} /\ Len(y.expect) \in {1, 2, 4}
      BY <1>1, <1>2
    <3>2. \A i \in 1 .. Numel(shape) :
            Meant(kernel, x.expect, y.expect, shape)[i] =
              IF kernel = "add" THEN (x.expect[i] + y.expect[i]) % 3 ELSE (x.expect[i] - y.expect[i]) % 3
      BY ONLY kernel \in {"add", "sub"}, <2>0, <3>1, MeantFits
    <3> QED BY <3>2
  <2>2. Claim(c.a, x.expect) \in Claims(values) /\ Claim(c.b, y.expect) \in Claims(values)
    BY <1>1, <1>5
  <2> HIDE DEF expect
  <2> QED BY <1>2, <1>5, <1>7, <2>0, <2>1, <2>2, ElementsJustified
<1> QED BY <1>1, <1>4, <1>5, <1>7, <1>8, <1>9, OneCommand DEF got

LEMMA StepUnary ==
  ASSUME ArithInv, NEW t \in Floats, Unary(t)
  PROVE  ArithInv'
<1> DEFINE x == values[t]
           got == Allocate(Mem).got
           c == Encode("neg", x.block, x.block, got, x.shape, 0)
           expect == [i \in DOMAIN x.expect |-> (-x.expect[i]) % 3]
           v == Float(got, TRUE, x.shape, expect, x.exact)
<1>1. /\ x.shape \in AllShapes /\ Numel(x.shape) \in {1, 2, 4}
      /\ x.expect \in [1 .. Numel(x.shape) -> Numbers3]
      /\ x.exact \in BOOLEAN /\ x.block \in HeldBy(values) /\ x.block \in Nat
      /\ Len(x.expect) = Numel(x.shape)
      /\ x.exact => Claim(x.block, x.expect) \in Claims(values)
  BY FloatsAre DEF Floats
<1>2. got \in Nat
  BY GotNew
<1>3. /\ Becomes(Allocate(Mem)) /\ commands' = Append(commands, c) /\ values' = Append(values, v)
      /\ UNCHANGED <<misread, raced>>
  BY DEF Unary, AddValue
<1> HIDE DEF x, got
<1>4. /\ c \in Command /\ c.kernel = "neg" /\ c.a = x.block /\ c.b = x.block /\ c.out = got /\ c.shape = x.shape
  <2>1. "neg" \in {"add", "sub", "neg", "sum", "matmul", "norm"} /\ 0 \in 0 .. 1
    OBVIOUS
  <2> QED BY <1>1, <1>2, <2>1 DEF Encode, Command
<1>5. expect \in [1 .. Numel(x.shape) -> Numbers3]
  BY <1>1, ModuloFits
<1>6. v \in Value /\ OfShape(v) /\ Len(expect) = Numel(x.shape)
  BY <1>1, <1>2, <1>5, FloatFits
<1>7. v.live /\ v.block = got /\ v.expect = expect /\ v.exact = x.exact
  BY DEF Float
<1>8. x.exact => Justified(c, expect, Claims(values))
  <2> SUFFICES ASSUME x.exact,
                      NEW mem, mem[c.a] \in Block, \A k \in Claims(values) : Holds(mem, k),
                      NEW i \in 1 .. Len(expect)
               PROVE  i \in DOMAIN Made(c, mem) /\ expect[i] = Made(c, mem)[i]
    BY DEF Justified
  <2>1. i \in 1 .. Numel(x.shape) /\ i \in 1 .. Len(x.expect)
    BY <1>1, <1>6
  <2>2. mem[x.block][i] = x.expect[i]
    BY <1>1, <2>1 DEF Holds, Claim
  <2> HIDE DEF c
  <2>3. Made(c, mem) = [j \in 1 .. Numel(x.shape) |-> (-mem[x.block][j]) % 3]
    BY <1>4 DEF Made, Kernel
  <2> QED BY <1>1, <2>1, <2>2, <2>3
<1> HIDE DEF c, v, expect
<1> QED BY <1>1, <1>3, <1>4, <1>6, <1>7, <1>8, OneCommand DEF got

LEMMA StepReduce ==
  ASSUME ArithInv, NEW t \in Floats, NEW dim \in 0 .. 1, Reduce(t, dim)
  PROVE  ArithInv'
<1> DEFINE x == values[t]
           got == Allocate(Mem).got
           c == Encode("sum", x.block, x.block, got, x.shape, dim)
           shape == WithoutDim(x.shape, dim)
           expect == SumOver(x.expect, x.shape, dim)
           v == Float(got, TRUE, shape, expect, x.exact)
<1>1. /\ x.shape \in AllShapes /\ Numel(x.shape) \in {1, 2, 4}
      /\ x.expect \in [1 .. Numel(x.shape) -> Numbers3]
      /\ x.exact \in BOOLEAN /\ x.block \in HeldBy(values) /\ x.block \in Nat
      /\ Len(x.expect) = Numel(x.shape)
      /\ x.exact => Claim(x.block, x.expect) \in Claims(values)
  BY FloatsAre DEF Floats
<1>2. got \in Nat
  BY GotNew
<1>3. /\ Becomes(Allocate(Mem)) /\ commands' = Append(commands, c) /\ values' = Append(values, v)
      /\ dim < Len(x.shape) /\ UNCHANGED <<misread, raced>>
  BY DEF Reduce, AddValue
<1> HIDE DEF x, got
<1>4. /\ c \in Command /\ c.kernel = "sum" /\ c.a = x.block /\ c.b = x.block /\ c.out = got
      /\ c.shape = x.shape /\ c.dim = dim
  <2>1. "sum" \in {"add", "sub", "neg", "sum", "matmul", "norm"}
    OBVIOUS
  <2> QED BY <1>1, <1>2, <2>1 DEF Encode, Command
<1>5. /\ shape \in AllShapes /\ expect \in [1 .. Numel(shape) -> Numbers3]
      /\ \A y : (\A i \in 1 .. Numel(x.shape) : y[i] = x.expect[i]) => SumOver(y, x.shape, dim) = expect
  <2>1. \A i \in 1 .. Numel(x.shape) : x.expect[i] \in Numbers3
    BY <1>1
  <2> QED BY <1>1, <1>3, <2>1, ReductionFits
<1> HIDE DEF shape, expect
<1>6. v \in Value /\ OfShape(v) /\ expect \in Seq(Numbers3) /\ Len(expect) = Numel(shape)
  BY <1>1, <1>2, <1>5, FloatFits
<1>7. v.live /\ v.block = got /\ v.expect = expect /\ v.exact = x.exact
  BY DEF Float
<1> HIDE DEF c, v
<1>8. x.exact => Justified(c, expect, Claims(values))
  <2> SUFFICES ASSUME x.exact,
                      NEW mem, mem[c.a] \in Block, \A k \in Claims(values) : Holds(mem, k),
                      NEW i \in 1 .. Len(expect)
               PROVE  i \in DOMAIN Made(c, mem) /\ expect[i] = Made(c, mem)[i]
    BY DEF Justified
  <2>1. \A j \in 1 .. Numel(x.shape) : mem[x.block][j] = x.expect[j]
    BY <1>1 DEF Holds, Claim
  <2>2. Made(c, mem) = SumOver(mem[x.block], x.shape, dim)
    BY <1>4 DEF Made, Kernel
  <2>3. Made(c, mem) = expect
    BY <1>5, <2>1, <2>2
  <2> QED BY <1>6, <2>3
<1> QED BY <1>1, <1>3, <1>4, <1>6, <1>7, <1>8, OneCommand DEF got

\* The GPU goes on.
LEMMA StepRun ==
  ASSUME ArithInv, RunCommand PROVE ArithInv'
<1> DEFINE n == Len(blocks)
<1>1. /\ blocks \in Seq(Block) /\ n \in Nat /\ blocks \in [1 .. n -> Block]
      /\ Owned(n, pool, {}, values) /\ Commands(commands, n)
      /\ \A k \in Claims(values) : ClaimOK(k, n) /\ k.block \in {} \cup HeldBy(values)
      /\ ~raced => Foretold(n, blocks, commands, Claims(values))
  BY BuffersAre DEF ArithInv, Sound
<1>2. /\ commands # <<>> /\ blocks' = Applied(Head(commands), blocks) /\ commands' = Tail(commands)
      /\ UNCHANGED <<pool, values, misread, raced>>
  BY DEF RunCommand
<1>3. /\ commands \in Seq(Command) /\ Len(commands) \in Nat /\ CommandOK(Head(commands), n)
      /\ Tail(commands) \in Seq(Command) /\ Len(Tail(commands)) = Len(commands) - 1
      /\ \A i \in 1 .. Len(commands) - 1 : Tail(commands)[i] = commands[i + 1]
  BY <1>1, <1>2 DEF Commands
<1>4. blocks' \in [1 .. n -> Block]
  BY <1>1, <1>2, <1>3, AppliedFits
<1>5. blocks' \in Seq(Block) /\ Len(blocks') = n
  BY <1>1, <1>4
<1>6. Commands(Tail(commands), n)
  BY <1>1, <1>3 DEF Commands
<1>7. ~raced => Foretold(n, blocks', commands', Claims(values))
  BY <1>1, <1>2, ForetoldRun
<1>8. Sound(blocks', pool, {}, commands', values, ~raced, Claims(values))
  BY <1>1, <1>2, <1>5, <1>6, <1>7 DEF Sound
<1> QED BY <1>2, <1>8 DEF ArithInv

\* A call that fills memory ends with a tensor that has it.
LEMMA Filled ==
  ASSUME ArithInv, NEW m, IsMem(m),
         Sound(m.blocks, m.pool, {m.got}, commands, values, ~raced, Claims(values)),
         m.got \in 1 .. Len(m.blocks), m.got \notin HeldBy(values),
         NEW v \in Value, v.live, OfShape(v), v.block = m.got,
         NEW size \in 1 .. 4, NEW cells \in [1 .. size -> Numbers3],
         v.exact /\ ~raced' => v.expect = cells,
         Becomes(HostWrites(m, m.got, cells)), raced' \in BOOLEAN, raced => raced',
         ~raced' => \A i \in 1 .. Len(commands) :
                      m.got # commands[i].a /\ m.got # commands[i].b /\ m.got # commands[i].out,
         commands' = commands, values' = Append(values, v), misread' = misread
  PROVE  ArithInv'
<1>a. PICK h : h = HostWrites(m, m.got, cells)
  OBVIOUS
<1>1. /\ Sound(h.blocks, h.pool, {m.got}, commands, values, ~raced', Claims(values) \cup {Claim(m.got, cells)})
      /\ Len(h.blocks) = Len(m.blocks)
  <2>1. m.got \in {m.got} /\ \A k \in Claims(values) : k.block # m.got
    BY ClaimsHeld
  <2>2. ~raced' => ~raced /\ \A i \in 1 .. Len(commands) :
                              m.got # commands[i].a /\ m.got # commands[i].b /\ m.got # commands[i].out
    OBVIOUS
  <2>3. Sound(m.blocks, m.pool, {m.got}, commands, values, ~raced, Claims(values)) /\ IsMem(m)
    OBVIOUS
  <2>4. size \in 1 .. 4 /\ cells \in [1 .. size -> Numbers3]
    OBVIOUS
  <2>5. Sound(HostWrites(m, m.got, cells).blocks, HostWrites(m, m.got, cells).pool, {m.got}, commands,
              values, ~raced', Claims(values) \cup {Claim(m.got, cells)})
    BY ONLY <2>1, <2>2, <2>3, <2>4, SoundWritten
  <2>6. Len(HostWrites(m, m.got, cells).blocks) = Len(m.blocks)
    BY DEF HostWrites, IsMem, Sound
  <2> QED BY <1>a, <2>5, <2>6
<1>2. blocks' = h.blocks /\ pool' = h.pool
  BY <1>a DEF Becomes
<1>3. CASE v.exact => v.expect = cells
  <2>1. v.exact => Claim(v.block, v.expect) \in Claims(values) \cup {Claim(m.got, cells)}
    BY <1>3
  <2>2. Claims(values) \in SUBSET (Claims(values) \cup {Claim(m.got, cells)})
    OBVIOUS
  <2> QED BY <1>1, <1>2, <2>1, <2>2, Added
<1>4. CASE raced'
  <2>1. v.expect \in Seq(Numbers3) /\ Len(v.expect) \in 1 .. 4
    BY NumelFacts DEF Value, OfShape
  <2>2. ClaimOK(Claim(m.got, v.expect), Len(h.blocks)) /\ Claim(m.got, v.expect).block = m.got
    BY <1>1, <2>1 DEF ClaimOK, Claim
  <2>3. Sound(h.blocks, h.pool, {m.got}, commands, values, ~raced', Claims(values) \cup {Claim(m.got, v.expect)})
    BY <1>1, <1>4, <2>2 DEF Sound
  <2>4. Claims(values) \in SUBSET (Claims(values) \cup {Claim(m.got, v.expect)})
    OBVIOUS
  <2> QED BY <1>2, <2>3, <2>4, Added
<1> QED BY <1>3, <1>4

LEMMA ConstantsFit == Shapes \in SUBSET AllShapes /\ Scalars \in SUBSET Numbers3
BY ArithmeticAssumption DEF AllShapes, Numbers3

LEMMA DataFits ==
  ASSUME NEW shape \in AllShapes
  PROVE  Numel(shape) \in 1 .. 4 /\ Data(shape) \in [1 .. Numel(shape) -> Numbers3]
<1>1. Numel(shape) \in 1 .. 4
  BY NumelFacts
<1>2. \A i \in 1 .. 4 : i % 3 \in Numbers3
  BY DEF Numbers3
<1> QED BY <1>1, <1>2 DEF Data

LEMMA StepFromData ==
  ASSUME ArithInv, NEW shape \in Shapes, NEW dtype \in {"float32", "int64"}, FromData(shape, dtype)
  PROVE  ArithInv'
<1>a. PICK m : m = NewBlock(Mem)
  OBVIOUS
<1> DEFINE v == [Float(m.got, FALSE, shape, Data(shape), TRUE) EXCEPT !.dtype = dtype]
<1>1. /\ Sound(m.blocks, m.pool, {} \cup {m.got}, commands, values, ~raced, Claims(values))
      /\ m.got \in 1 .. Len(m.blocks) /\ m.got \notin HeldBy(values)
      /\ \A i \in 1 .. Len(commands) :
           m.got # commands[i].a /\ m.got # commands[i].b /\ m.got # commands[i].out
  BY <1>a, InvSound, SoundNew
<1>2. {} \cup {m.got} = {m.got} /\ IsMem(m)
  BY <1>a, InvSound, MemFits
<1>3. /\ Becomes(HostWrites(m, m.got, Data(shape))) /\ values' = Append(values, v)
      /\ UNCHANGED <<commands, misread, raced>>
  BY <1>a DEF FromData, AddValue
<1>4. shape \in AllShapes
  BY ConstantsFit
<1>5. Numel(shape) \in 1 .. 4 /\ Data(shape) \in [1 .. Numel(shape) -> Numbers3]
  BY <1>4, DataFits
<1>6. v \in Value /\ v.live /\ OfShape(v) /\ v.block = m.got /\ v.expect = Data(shape)
  <2>1. Data(shape) \in Seq(Numbers3) /\ Len(Data(shape)) = Numel(shape)
    BY <1>5
  <2>2. m.got \in Nat
    BY <1>1
  <2> QED BY <1>4, <2>1, <2>2 DEF Value, Float, OfShape
<1> HIDE DEF v
<1>7. raced' = raced /\ raced' \in BOOLEAN /\ (raced => raced')
  BY <1>3 DEF ArithInv
<1>8. Sound(m.blocks, m.pool, {m.got}, commands, values, ~raced, Claims(values))
  BY <1>1, <1>2
<1>9. ~raced' => \A i \in 1 .. Len(commands) :
                   m.got # commands[i].a /\ m.got # commands[i].b /\ m.got # commands[i].out
  BY <1>1
<1>10. commands' = commands /\ misread' = misread
  BY <1>3
<1>11. m.got \in 1 .. Len(m.blocks) /\ m.got \notin HeldBy(values) /\ IsMem(m)
  BY <1>1, <1>2
<1> QED BY <1>3, <1>5, <1>6, <1>7, <1>8, <1>9, <1>10, <1>11, Filled

\* What allocate() hands out in a call, by itself.
LEMMA Handed ==
  ASSUME ArithInv, NEW m, m = Allocate(Mem)
  PROVE  /\ Sound(m.blocks, m.pool, {m.got}, commands, values, ~raced, Claims(values))
         /\ m.got \in 1 .. Len(m.blocks) /\ m.got \notin HeldBy(values) /\ IsMem(m)
<1>1. /\ Sound(m.blocks, m.pool, {} \cup {m.got}, commands, values, ~raced, Claims(values))
      /\ m.got \in 1 .. Len(m.blocks) /\ m.got \notin HeldBy(values)
  BY InvSound, SoundAllocated
<1>2. {} \cup {m.got} = {m.got} /\ IsMem(m)
  BY InvSound, MemFits
<1> QED BY <1>1, <1>2

LEMMA NotInUse ==
  ASSUME ArithInv, NEW b, ~InUse(b)
  PROVE  \A i \in 1 .. Len(commands) : b # commands[i].a /\ b # commands[i].b /\ b # commands[i].out
<1>1. commands \in Seq(Command)
  BY DEF ArithInv, Sound, Commands
<1>2. DOMAIN commands = 1 .. Len(commands)
  BY <1>1
<1> QED BY <1>2 DEF InUse

LEMMA StepFull ==
  ASSUME ArithInv, NEW shape \in Shapes, NEW x \in {0, 1}, Full(shape, x)
  PROVE  ArithInv'
<1>a. PICK m : m = Allocate(Mem)
  OBVIOUS
<1> DEFINE cells == [i \in 1 .. Numel(shape) |-> x]
           v == Float(m.got, TRUE, shape, cells, TRUE)
<1>1. /\ Sound(m.blocks, m.pool, {m.got}, commands, values, ~raced, Claims(values))
      /\ m.got \in 1 .. Len(m.blocks) /\ m.got \notin HeldBy(values) /\ IsMem(m)
  BY <1>a, Handed
<1>2. /\ Becomes(HostWrites(m, m.got, cells)) /\ values' = Append(values, v)
      /\ raced' = (raced \/ InUse(m.got)) /\ UNCHANGED <<commands, misread>>
  BY <1>a DEF Full, AddValue
<1>3. shape \in AllShapes /\ Numel(shape) \in 1 .. 4
  BY ConstantsFit, NumelFacts
<1>4. cells \in [1 .. Numel(shape) -> Numbers3] /\ m.got \in Nat
  BY <1>1 DEF Numbers3
<1> HIDE DEF cells
<1>5. v \in Value /\ OfShape(v)
  BY <1>3, <1>4, FloatFits
<1>6. v.live /\ v.block = m.got /\ v.expect = cells
  BY DEF Float
<1> HIDE DEF v
<1>7. raced' \in BOOLEAN /\ (raced => raced')
  BY <1>2 DEF ArithInv, InUse
<1>8. ~raced' => \A i \in 1 .. Len(commands) :
                   m.got # commands[i].a /\ m.got # commands[i].b /\ m.got # commands[i].out
  BY <1>2, NotInUse
<1> QED BY <1>1, <1>2, <1>3, <1>4, <1>5, <1>6, <1>7, <1>8, Filled

LEMMA StepEmpty ==
  ASSUME ArithInv, NEW shape \in Shapes, empty(shape)
  PROVE  ArithInv'
<1>a. PICK m : m = Allocate(Mem)
  OBVIOUS
<1> DEFINE expect == SubSeq(m.blocks[m.got], 1, Numel(shape))
           v == Float(m.got, TRUE, shape, expect, FALSE)
<1>1. /\ Sound(m.blocks, m.pool, {m.got}, commands, values, ~raced, Claims(values))
      /\ m.got \in 1 .. Len(m.blocks) /\ m.got \notin HeldBy(values) /\ IsMem(m)
  BY <1>a, Handed
<1>2. Becomes(m) /\ values' = Append(values, v) /\ UNCHANGED <<commands, misread, raced>>
  BY <1>a DEF empty, AddValue
<1>3. shape \in AllShapes /\ Numel(shape) \in 1 .. 4
  BY ConstantsFit, NumelFacts
<1>4. expect \in [1 .. Numel(shape) -> Numbers3] /\ m.got \in Nat
  <2>1. m.blocks[m.got] \in [1 .. 4 -> Numbers3]
    BY <1>1 DEF Sound, Block
  <2>2. \A f \in [1 .. 4 -> Numbers3] : \A k \in 1 .. 4 : SubSeq(f, 1, k) \in [1 .. k -> Numbers3]
    BY FirstCells
  <2> QED BY <1>1, <1>3, <2>1, <2>2
<1> HIDE DEF expect
<1>5. v \in Value /\ OfShape(v)
  BY <1>3, <1>4, FloatFits
<1>6. v.live /\ v.block = m.got /\ v.expect = expect /\ ~v.exact
  BY DEF Float
<1> HIDE DEF v
<1>7. raced' = raced /\ raced' \in BOOLEAN /\ blocks' = m.blocks /\ pool' = m.pool
  BY <1>2 DEF ArithInv, Becomes
<1>8. Sound(m.blocks, m.pool, {v.block}, commands, values, ~raced', Claims(values))
  BY <1>1, <1>6, <1>7
<1> QED BY <1>2, <1>5, <1>6, <1>7, <1>8, Added

\* A tensor that is dropped takes its claim with it; its buffer is nobody's, or free.
LEMMA StepDrop ==
  ASSUME ArithInv, NEW t \in Live, DropTensor(t)
  PROVE  ArithInv'
<1> DEFINE dead == [Float(0, FALSE, <<>>, <<0>>, FALSE) EXCEPT !.live = FALSE]
           b == values[t].block
           n == Len(blocks)
<1>1. /\ values' = [values EXCEPT ![t] = dead]
      /\ pool' = IF values[t].pooled THEN Append(pool, b) ELSE pool
      /\ UNCHANGED <<blocks, commands, misread, raced>>
  BY DEF DropTensor
<1>2. /\ values \in Seq(Value) /\ \A u \in DOMAIN values : OfShape(values[u])
      /\ blocks \in Seq(Block) /\ n \in Nat /\ Owned(n, pool, {}, values) /\ Commands(commands, n)
      /\ \A k \in Claims(values) : ClaimOK(k, n)
      /\ ~raced => Foretold(n, blocks, commands, Claims(values))
  BY BuffersAre DEF ArithInv, Sound
<1>3. dead \in Value /\ OfShape(dead) /\ ~dead.live
  <2>1. <<0>> \in Seq(Numbers3) /\ Len(<<0>>) = 1
    BY DEF Numbers3
  <2> QED BY <2>1, NumelFacts, ShapesAre DEF Float, Value, OfShape
<1>4. t \in DOMAIN values /\ values[t].live /\ b \in HeldBy(values) /\ b \in 1 .. n
  BY <1>2 DEF Live, HeldBy, Owned
<1> HIDE DEF dead
<1>5. /\ values' \in Seq(Value) /\ DOMAIN values' = DOMAIN values /\ values'[t] = dead
      /\ \A u \in DOMAIN values : u # t => values'[u] = values[u]
  BY <1>1, <1>2, <1>3, <1>4
<1>6. \A u \in DOMAIN values' : OfShape(values'[u])
  BY <1>2, <1>3, <1>5
<1>7. \A u \in DOMAIN values' : values'[u].live => u # t /\ values'[u] = values[u] /\ values[u].live
  BY <1>3, <1>5
<1>8. HeldBy(values') \in SUBSET (HeldBy(values) \ {b})
  <2>1. \A u \in DOMAIN values' : values'[u].live => values[u].block \in HeldBy(values) /\ values[u].block # b
    BY <1>2, <1>4, <1>5, <1>7 DEF Owned, HeldBy
  <2> QED BY <1>7, <2>1 DEF HeldBy
<1>9. Claims(values') \in SUBSET Claims(values)
  <2>1. \A u \in {u2 \in DOMAIN values' : values'[u2].live /\ values'[u2].exact} :
          /\ u \in {u2 \in DOMAIN values : values[u2].live /\ values[u2].exact}
          /\ Claim(values'[u].block, values'[u].expect) = Claim(values[u].block, values[u].expect)
    BY <1>5, <1>7
  <2> HIDE DEF b
  <2> QED BY <2>1 DEF Claims
<1>10. \A k \in Claims(values') : k.block \in {} \cup HeldBy(values')
  BY DEF Claims, Claim, HeldBy
<1>11. Owned(n, pool', {}, values')
  <2>1. \A u, w \in DOMAIN values' :
          values'[u].live /\ values'[w].live /\ values'[u].block = values'[w].block => u = w
    BY <1>2, <1>5, <1>7 DEF Owned
  <2>2. /\ pool \in Seq(1 .. n) /\ Len(pool) \in Nat
        /\ \A i, j \in 1 .. Len(pool) : pool[i] = pool[j] => i = j
        /\ \A i \in 1 .. Len(pool) : pool[i] \notin HeldBy(values) /\ pool[i] # b
        /\ HeldBy(values) \in SUBSET (1 .. n)
    BY <1>2, <1>4 DEF Owned
  <2>3. CASE ~values[t].pooled
    BY <1>1, <1>8, <2>1, <2>2, <2>3 DEF Owned
  <2>4. CASE values[t].pooled
    <3>1. /\ pool' \in Seq(1 .. n) /\ Len(pool') = Len(pool) + 1 /\ pool'[Len(pool) + 1] = b
          /\ \A i \in 1 .. Len(pool) : pool'[i] = pool[i]
      BY <1>1, <1>4, <2>2, <2>4, Appended
    <3> HIDE DEF b
    <3>2. \A i \in 1 .. Len(pool') : i \in 1 .. Len(pool) \/ (i = Len(pool') /\ pool'[i] = b)
      BY <2>2, <3>1
    <3>3. \A i, j \in 1 .. Len(pool') : pool'[i] = pool'[j] => i = j
      BY <2>2, <3>1, <3>2
    <3>4. \A i \in 1 .. Len(pool') : pool'[i] \notin HeldBy(values')
      BY <1>8, <2>2, <3>1, <3>2
    <3> QED BY <1>8, <2>1, <2>2, <3>1, <3>3, <3>4 DEF Owned
  <2> QED BY <2>3, <2>4
<1>12. ~raced => Foretold(n, blocks, commands, Claims(values'))
  BY <1>2, <1>9, ForetoldLess
<1>13. Sound(blocks, pool', {}, commands, values', ~raced, Claims(values'))
  BY <1>2, <1>9, <1>10, <1>11, <1>12 DEF Sound
<1> QED BY <1>1, <1>5, <1>6, <1>13 DEF ArithInv

\* The memory of a result that is not computed goes back.
LEMMA StepThrows ==
  ASSUME ArithInv, NEW s, NEW t, BinaryThrows(s, t)
  PROVE  ArithInv'
<1>a. PICK m : m = Allocate(Mem)
  OBVIOUS
<1>1. /\ Sound(m.blocks, m.pool, {m.got}, commands, values, ~raced, Claims(values))
      /\ m.got \in 1 .. Len(m.blocks) /\ m.got \notin HeldBy(values) /\ IsMem(m)
  BY <1>a, Handed
<1>2. blocks' = m.blocks /\ pool' = Append(m.pool, m.got) /\ UNCHANGED <<values, commands, misread, raced>>
  <2>1. Becomes(GiveBack(m, m.got)) /\ UNCHANGED <<values, commands, misread, raced>>
    BY <1>a DEF BinaryThrows
  <2>2. GiveBack(m, m.got).blocks = m.blocks /\ GiveBack(m, m.got).pool = Append(m.pool, m.got)
    BY <1>1, MemFits
  <2> QED BY <2>1, <2>2 DEF Becomes
<1>3. Sound(m.blocks, Append(m.pool, m.got), {m.got} \ {m.got}, commands, values, ~raced, Claims(values))
  <2>1. m.got \in {m.got} /\ \A k \in Claims(values) : k.block # m.got
    BY <1>1, ClaimsHeld
  <2> QED BY <1>1, <2>1, SoundReturned
<1>4. {m.got} \ {m.got} = {}
  OBVIOUS
<1>5. Sound(blocks', pool', {}, commands, values, ~raced, Claims(values))
  BY <1>2, <1>3, <1>4
<1> QED BY <1>2, <1>5 DEF ArithInv

\* With no command waiting, memory holds what is claimed of it.
LEMMA Ready ==
  ASSUME ArithInv, commands = <<>>, ~raced, NEW t \in Live, values[t].exact
  PROVE  \A i \in 1 .. Len(values[t].expect) : blocks[values[t].block][i] = values[t].expect[i]
<1>1. PICK M : Trace(M, Len(blocks), blocks, <<>>) /\ \A k \in Claims(values) : Holds(M[Len(<<>>) + 1], k)
  BY DEF ArithInv, Sound, Foretold
<1>2. M[Len(<<>>) + 1] = blocks
  BY <1>1 DEF Trace
<1>3. Claim(values[t].block, values[t].expect) \in Claims(values)
  BY FloatsAre
<1> QED BY <1>1, <1>2, <1>3 DEF Holds, Claim

\* A read that has not raced finds no command waiting: the GPU has drained, and none is in
\* the open command buffer.
LEMMA NothingWaits ==
  ASSUME ArithInv, Drained, raced' = (raced \/ open > 0)
  PROVE  raced' \in BOOLEAN /\ (raced => raced') /\ (~raced' => ~raced /\ commands = <<>>)
<1>1. commands \in Seq(Command) /\ Len(commands) \in Nat /\ raced \in BOOLEAN
  BY DEF ArithInv, Sound, Commands
<1>2. raced' \in BOOLEAN
  BY Zenon, <1>1
<1>3. ~raced' => ~raced /\ ~(open > 0)
  BY Zenon
<1>4. ~(open > 0) => commands = <<>>
  BY <1>1 DEF Drained
<1> QED BY Zenon, <1>2, <1>3, <1>4

LEMMA StepRead ==
  ASSUME ArithInv, NEW t \in Live, Read(t)
  PROVE  ArithInv'
<1>1. /\ Drained /\ UNCHANGED <<blocks, pool, values, commands>> /\ raced' = (raced \/ open > 0)
      /\ misread' = (misread \/ (/\ values[t].exact
                                 /\ values[t].expect # SubSeq(blocks[values[t].block], 1, Numel(values[t].shape))))
  BY DEF Read, Shows
<1>0. raced' \in BOOLEAN /\ (raced => raced') /\ (~raced' => ~raced /\ commands = <<>>)
  BY <1>1, NothingWaits
<1>2. ~raced' /\ values[t].exact => values[t].expect = SubSeq(blocks[values[t].block], 1, Numel(values[t].shape))
  <2> SUFFICES ASSUME ~raced', values[t].exact
               PROVE  values[t].expect = SubSeq(blocks[values[t].block], 1, Numel(values[t].shape))
    OBVIOUS
  <2> DEFINE expect == values[t].expect
             f == blocks[values[t].block]
             k == Numel(values[t].shape)
  <2>1. \A i \in 1 .. Len(expect) : f[i] = expect[i]
    BY <1>0, Ready
  <2>2. expect \in [1 .. k -> Numbers3] /\ k \in 1 .. 4 /\ Len(expect) = k
    BY FloatsAre
  <2>3. f \in [1 .. 4 -> Numbers3]
    <3>1. blocks \in Seq(Block) /\ values[t].block \in 1 .. Len(blocks)
      BY FloatsAre DEF ArithInv, Sound, Owned
    <3> QED BY <3>1 DEF Block
  <2> HIDE DEF expect, f, k
  <2>4. SubSeq(f, 1, k) = [i \in 1 .. k |-> f[i]]
    BY <2>2, <2>3, FirstCells
  <2>5. expect = SubSeq(f, 1, k)
    BY <2>1, <2>2, <2>4
  <2> QED BY <2>5 DEF expect, f, k
<1>3. misread' \in BOOLEAN /\ (~raced' => ~misread')
  BY <1>0, <1>1, <1>2 DEF ArithInv
<1>4. /\ values \in Seq(Value) /\ \A u \in DOMAIN values : OfShape(values[u])
      /\ Sound(blocks, pool, {}, commands, values, ~raced, Claims(values))
  BY DEF ArithInv
<1>5. Sound(blocks, pool, {}, commands, values, ~raced', Claims(values))
  BY <1>0, <1>4 DEF Sound
<1> QED BY <1>0, <1>1, <1>3, <1>4, <1>5 DEF ArithInv

LEMMA StepActivation ==
  ASSUME ArithInv, NEW t \in Live, Activation(t)
  PROVE  ArithInv'
<1>a. PICK m : m = NewBlock(Mem)
  OBVIOUS
<1> DEFINE x == values[t]
           size == Numel(x.shape)
           cells == [i \in DOMAIN x.expect |-> (-blocks[x.block][i]) % 3]
           expect == [i \in DOMAIN x.expect |-> (-x.expect[i]) % 3]
           v == Float(m.got, FALSE, x.shape, expect, x.exact)
<1>1. /\ Sound(m.blocks, m.pool, {} \cup {m.got}, commands, values, ~raced, Claims(values))
      /\ m.got \in 1 .. Len(m.blocks) /\ m.got \notin HeldBy(values)
      /\ \A i \in 1 .. Len(commands) :
           m.got # commands[i].a /\ m.got # commands[i].b /\ m.got # commands[i].out
  BY <1>a, InvSound, SoundNew
<1>2. {} \cup {m.got} = {m.got} /\ IsMem(m)
  BY <1>a, InvSound, MemFits
<1>3. /\ Drained /\ Becomes(HostWrites(m, m.got, cells)) /\ values' = Append(values, v)
      /\ UNCHANGED <<commands, misread>> /\ raced' = (raced \/ open > 0)
  BY <1>a DEF Activation, AddValue
<1>11. raced' \in BOOLEAN /\ (raced => raced') /\ (~raced' => ~raced /\ commands = <<>>)
  BY <1>3, NothingWaits
<1>4. /\ x.shape \in AllShapes /\ size \in 1 .. 4 /\ x.expect \in [1 .. size -> Numbers3]
      /\ Len(x.expect) = size /\ x.exact \in BOOLEAN
  BY FloatsAre
<1>5. blocks[x.block] \in [1 .. 4 -> Numbers3]
  <2>1. blocks \in Seq(Block) /\ x.block \in 1 .. Len(blocks)
    BY FloatsAre DEF ArithInv, Sound, Owned
  <2> QED BY <2>1 DEF Block
<1>6. x.exact /\ ~raced' => \A i \in 1 .. size : blocks[x.block][i] = x.expect[i]
  BY <1>4, <1>11, Ready
<1> HIDE DEF x, size
<1>7. cells \in [1 .. size -> Numbers3]
  <2>1. \A i \in 1 .. size : (-blocks[x.block][i]) % 3 \in Numbers3
    <3>1. \A i \in 1 .. size : blocks[x.block][i] \in Numbers3
      BY <1>4, <1>5
    <3> QED BY <3>1, ModuloFits
  <2> QED BY <1>4, <2>1
<1>8. expect \in [1 .. size -> Numbers3]
  <2>1. \A i \in 1 .. size : (-x.expect[i]) % 3 \in Numbers3
    BY <1>4, ModuloFits
  <2> QED BY <1>4, <2>1
<1>9. x.exact /\ ~raced' => expect = cells
  BY <1>4, <1>6
<1> HIDE DEF cells, expect
<1>10. v \in Value /\ OfShape(v) /\ v.live /\ v.block = m.got /\ v.expect = expect /\ v.exact = x.exact
  <2>1. m.got \in Nat
    BY <1>1
  <2>2. v \in Value /\ OfShape(v)
    BY <1>4, <1>8, <2>1, FloatFits DEF size
  <2>3. v.live /\ v.block = m.got /\ v.expect = expect /\ v.exact = x.exact
    BY DEF Float
  <2> QED BY <2>2, <2>3
<1> HIDE DEF v
<1>12. Sound(m.blocks, m.pool, {m.got}, commands, values, ~raced, Claims(values))
  BY <1>1, <1>2
<1>13. ~raced' => \A i \in 1 .. Len(commands) :
                   m.got # commands[i].a /\ m.got # commands[i].b /\ m.got # commands[i].out
  BY <1>1
<1>14. commands' = commands /\ misread' = misread
  BY <1>3
<1>15. m.got \in 1 .. Len(m.blocks) /\ m.got \notin HeldBy(values) /\ IsMem(m)
  BY <1>1, <1>2
<1>16. v.exact /\ ~raced' => v.expect = cells
  BY <1>9, <1>10
<1> QED BY <1>3, <1>4, <1>7, <1>10, <1>11, <1>12, <1>13, <1>14, <1>15, <1>16, Filled

\* The operators of two commands: the first writes to a temporary that is given back when
\* the second has been asked for.
Twice(first, second, c, d, v, mid) ==
  /\ first = Allocate(Mem) /\ second = Allocate(first)
  /\ c \in Command /\ d \in Command /\ v \in Value /\ v.live /\ OfShape(v)
  /\ c.a \in HeldBy(values) /\ c.b \in HeldBy(values) /\ (c.kernel = "sum" => c.dim < Len(c.shape))
  /\ d.a \in HeldBy(values) \cup {first.got} /\ d.b \in HeldBy(values) \cup {first.got}
  /\ d.kernel = "sum" => d.dim < Len(d.shape)
  /\ c.out = first.got /\ d.out = second.got /\ v.block = second.got
  /\ mid \in Seq(Numbers3) /\ Len(mid) \in 1 .. 4
  /\ v.exact => Justified(c, mid, Claims(values))
  /\ v.exact => Justified(d, v.expect, Claims(values) \cup {Claim(first.got, mid)})
  /\ Becomes(GiveBack(second, first.got)) /\ commands' = commands \o <<c, d>>
  /\ values' = Append(values, v) /\ UNCHANGED <<misread, raced>>

LEMMA TwoCommands ==
  ASSUME ArithInv, NEW first, NEW second, NEW c, NEW d, NEW v, NEW mid, Twice(first, second, c, d, v, mid)
  PROVE  ArithInv'
<1> USE DEF Twice
<1>0. commands' = Append(Append(commands, c), d)
  <2>1. commands \in Seq(Command) /\ c \in Command /\ d \in Command
    BY DEF ArithInv, Sound, Commands
  <2>2. commands \o <<c, d>> = Append(Append(commands, c), d)
    BY <2>1
  <2> QED BY <2>2
<1>1. /\ Sound(first.blocks, first.pool, {first.got}, commands, values, ~raced, Claims(values))
      /\ first.got \notin HeldBy(values) /\ IsMem(first)
  BY Handed
<1>2. /\ Sound(second.blocks, second.pool, {first.got} \cup {second.got}, commands, values, ~raced, Claims(values))
      /\ second.got \in 1 .. Len(second.blocks) /\ second.got \notin {first.got} /\ second.got \notin HeldBy(values)
  BY <1>1, SoundAllocated
<1>3. IsMem(second)
  BY <1>1, MemFits
<1> DEFINE n == Len(second.blocks)
           out == {first.got} \cup {second.got}
           claim1 == IF v.exact THEN {Claim(first.got, mid)} ELSE {}
           claim2 == IF v.exact THEN {Claim(second.got, v.expect)} ELSE {}
           all == (Claims(values) \cup claim1) \cup claim2
           rest == Claims(values) \cup claim2
<1>4. /\ first.got \in 1 .. n /\ HeldBy(values) \in SUBSET (1 .. n)
      /\ first.got \in out /\ second.got \in out /\ first.got # second.got
  BY <1>2 DEF Sound, Owned
<1>5. CommandOK(c, n) /\ CommandOK(d, n)
  BY <1>2, <1>4 DEF CommandOK
<1>6. \A k \in Claims(values) : k.block # first.got /\ k.block # second.got
  BY <1>1, <1>2, ClaimsHeld
<1>7. \A e \in claim1 : ClaimOK(e, n) /\ e.block = c.out /\ Justified(c, e.cells, Claims(values))
  <2>1. /\ ClaimOK(Claim(first.got, mid), n) /\ Claim(first.got, mid).block = c.out
        /\ Claim(first.got, mid).cells = mid
    BY <1>4 DEF ClaimOK, Claim
  <2> QED BY <2>1
<1>8. \A e \in claim2 : ClaimOK(e, n) /\ e.block = d.out /\ Justified(d, e.cells, Claims(values) \cup claim1)
  <2>1. v.expect \in Seq(Numbers3) /\ Len(v.expect) \in 1 .. 4
    BY NumelFacts DEF Value, OfShape
  <2>2. /\ ClaimOK(Claim(second.got, v.expect), n) /\ Claim(second.got, v.expect).block = d.out
        /\ Claim(second.got, v.expect).cells = v.expect
    BY <1>2, <2>1 DEF ClaimOK, Claim
  <2> QED BY <2>2
<1> HIDE DEF out, claim1, claim2
<1>9. Sound(second.blocks, second.pool, out, Append(commands, c), values, ~raced, Claims(values) \cup claim1)
  <2>1. Sound(second.blocks, second.pool, out, commands, values, ~raced, Claims(values)) /\ c.out \in out
    BY <1>2, <1>4 DEF out
  <2>2. \A k \in Claims(values) : k.block # c.out
    BY <1>6
  <2> QED BY <1>5, <1>7, <2>1, <2>2, SoundEncoded
<1>10. Sound(second.blocks, second.pool, out, Append(Append(commands, c), d), values, ~raced, all)
  <2>1. d.out \in out /\ \A k \in Claims(values) \cup claim1 : k.block # d.out
    BY <1>4, <1>6, <1>7
  <2> QED BY <1>5, <1>8, <1>9, <2>1, SoundEncoded
<1>11. Sound(second.blocks, Append(second.pool, first.got), out \ {first.got}, Append(Append(commands, c), d),
             values, ~raced, rest)
  <2>1. rest \in SUBSET all /\ \A k \in rest : k.block # first.got
    BY <1>4, <1>6, <1>8
  <2> HIDE DEF all, rest
  <2> QED BY <1>4, <1>10, <2>1, SoundReturned
<1>12. out \ {first.got} = {v.block}
  BY <1>4 DEF out
<1>13. Claims(values) \in SUBSET rest /\ (v.exact => Claim(v.block, v.expect) \in rest)
  BY DEF claim2
<1>14. /\ blocks' = second.blocks /\ pool' = Append(second.pool, first.got)
       /\ raced' = raced /\ misread' = misread /\ raced' \in BOOLEAN /\ (raced => raced')
  <2>1. GiveBack(second, first.got).blocks = second.blocks /\ GiveBack(second, first.got).pool = Append(second.pool, first.got)
    BY <1>3, MemFits
  <2> QED BY <2>1 DEF Becomes, ArithInv
<1> HIDE DEF all, rest
<1>15. Sound(second.blocks, Append(second.pool, first.got), {v.block}, Append(Append(commands, c), d),
             values, ~raced', rest)
  BY ONLY <1>11, <1>12, <1>14
<1> QED BY <1>0, <1>13, <1>14, <1>15, Added

\* All the elements: of a vector at once, of a matrix first of each row.
LEMMA StepReduceAll ==
  ASSUME ArithInv, NEW t \in Live, ReduceAll(t)
  PROVE  ArithInv'
<1>a. PICK first, second : first = Allocate(Mem) /\ second = Allocate(first)
  OBVIOUS
<1> DEFINE x == values[t]
           one == Encode("sum", x.block, x.block, first.got, x.shape, Len(x.shape) - 1)
           two == Encode("sum", first.got, first.got, second.got, << 2 >>, 0)
           total == <<Total(x.expect)>>
           V(got) == Float(got, TRUE, <<>>, total, x.exact)
<1>1. /\ x.shape \in AllShapes /\ Numel(x.shape) \in {1, 2, 4}
      /\ x.expect \in [1 .. Numel(x.shape) -> Numbers3] /\ Len(x.expect) = Numel(x.shape)
      /\ x.exact \in BOOLEAN /\ x.block \in HeldBy(values) /\ x.block \in Nat
      /\ x.exact => Claim(x.block, x.expect) \in Claims(values)
  BY FloatsAre
<1>2. /\ \/ /\ Len(x.shape) = 1 /\ Becomes(first) /\ commands' = Append(commands, one)
            /\ values' = Append(values, V(first.got))
         \/ /\ Len(x.shape) = 2 /\ Becomes(GiveBack(second, first.got))
            /\ commands' = commands \o <<one, two>>
            /\ values' = Append(values, V(second.got))
      /\ UNCHANGED <<misread, raced>>
  BY <1>a DEF ReduceAll, AddValue
<1>3. first.got \in Nat /\ second.got \in Nat
  <2>1. Sound(first.blocks, first.pool, {first.got}, commands, values, ~raced, Claims(values))
    BY <1>a, Handed
  <2>3. first.got \in Nat
    BY <1>a, GotNew
  <2>2. second.got \in 1 .. Len(second.blocks)
    BY <1>a, <2>1, SoundAllocated
  <2> QED BY <2>2, <2>3
<1> HIDE DEF x
<1>4. x.shape = << 1 >> \/ x.shape = << 2 >> \/ x.shape = <<2, 2>>
  <2>1. Len(x.shape) = 1 \/ Len(x.shape) = 2
    BY <1>2
  <2>2. x.shape # <<>>
    BY <2>1, ShapesAre
  <2> QED BY <1>1, <2>2, ShapesAre
<1>5. Total(x.expect) \in Numbers3
  <2>1. \A a \in Nat : a % 3 \in Numbers3
    BY DEF Numbers3
  <2>2. \A a \in Numbers3 : a \in Nat
    BY DEF Numbers3
  <2>3. CASE x.shape = << 1 >>
    <3>1. Len(x.expect) = 1 /\ x.expect[1] \in Numbers3
      BY <1>1, <2>3, NumelFacts
    <3> QED BY <3>1 DEF Total
  <2>4. CASE x.shape = << 2 >>
    <3>1. Len(x.expect) = 2 /\ x.expect[1] \in Nat /\ x.expect[2] \in Nat
      BY <1>1, <2>2, <2>4, NumelFacts
    <3> QED BY <2>1, <3>1 DEF Total
  <2>5. CASE x.shape = <<2, 2>>
    <3>1. /\ Len(x.expect) = 4 /\ x.expect[1] \in Nat /\ x.expect[2] \in Nat
          /\ x.expect[3] \in Nat /\ x.expect[4] \in Nat
      BY <1>1, <2>2, <2>5, NumelFacts
    <3>2. x.expect[1] + x.expect[2] + x.expect[3] + x.expect[4] \in Nat
      BY <3>1
    <3>3. Total(x.expect) = (x.expect[1] + x.expect[2] + x.expect[3] + x.expect[4]) % 3
      BY <3>1 DEF Total
    <3> QED BY <2>1, <3>2, <3>3
  <2> QED BY <1>4, <2>3, <2>4, <2>5
<1>6. total \in [1 .. Numel(<<>>) -> Numbers3] /\ total \in Seq(Numbers3) /\ Len(total) = 1
  BY <1>5, NumelFacts
<1>7. ASSUME NEW got \in Nat
      PROVE  /\ V(got) \in Value /\ OfShape(V(got)) /\ V(got).live /\ V(got).block = got
             /\ V(got).expect = total /\ V(got).exact = x.exact
  <2>1. V(got) \in Value /\ OfShape(V(got))
    BY <1>1, <1>6, ShapesAre, FloatFits
  <2> QED BY <2>1 DEF Float
<1>8. /\ one \in Command /\ one.kernel = "sum" /\ one.a = x.block /\ one.b = x.block /\ one.out = first.got
      /\ one.shape = x.shape /\ one.dim = Len(x.shape) - 1 /\ one.dim < Len(one.shape)
  <2>1. Len(x.shape) - 1 \in 0 .. 1 /\ Len(x.shape) \in Nat
    BY <1>4, ShapesAre
  <2> QED BY <1>1, <1>3, <2>1 DEF Encode, Command
<1>9. /\ two \in Command /\ two.kernel = "sum" /\ two.a = first.got /\ two.b = first.got /\ two.out = second.got
      /\ two.shape = << 2 >> /\ two.dim = 0 /\ two.dim < Len(two.shape)
  <2>1. 0 \in 0 .. 1 /\ 0 < Len(<< 2 >>) /\ << 2 >> \in AllShapes
    BY ShapesAre
  <2> QED BY <1>3, <2>1 DEF Encode, Command
<1> HIDE DEF one, two, total, V
<1>10. \A mem : (\A k \in Claims(values) : Holds(mem, k)) /\ x.exact =>
                \A i \in 1 .. Numel(x.shape) : mem[x.block][i] = x.expect[i]
  BY <1>1 DEF Holds, Claim
<1>11. \A mem : /\ Made(one, mem) = SumOver(mem[x.block], x.shape, Len(x.shape) - 1)
                /\ Made(two, mem) = SumOver(mem[first.got], << 2 >>, 0)
  BY <1>8, <1>9 DEF Made, Kernel
<1>12. CASE Len(x.shape) = 1
  <2>1. x.shape = << 1 >> \/ x.shape = << 2 >>
    BY <1>4, <1>12, ShapesAre
  <2>0. \A mem : Made(one, mem) = SumOver(mem[x.block], x.shape, 0)
    <3>1. Len(x.shape) - 1 = 0
      BY <1>12
    <3> QED BY <1>11, <3>1
  <2>2. x.exact => Justified(one, total, Claims(values))
    <3> SUFFICES ASSUME x.exact, NEW mem, \A k \in Claims(values) : Holds(mem, k)
                 PROVE  \A i \in 1 .. Len(total) : i \in DOMAIN Made(one, mem) /\ total[i] = Made(one, mem)[i]
      BY DEF Justified
    <3>1. total[1] = Total(x.expect)
      BY DEF total
    <3>2. CASE x.shape = << 1 >>
      <4>1. Made(one, mem) = [k \in 1 .. 1 |-> mem[x.block][1]]
        <5>1. Made(one, mem) = SumOver(mem[x.block], << 1 >>, 0)
          BY <2>0, <3>2
        <5> QED BY <5>1, SumsAre
      <4>2. mem[x.block][1] = x.expect[1] /\ Total(x.expect) = x.expect[1]
        BY <1>1, <1>10, <3>2, NumelFacts DEF Total
      <4> QED BY <1>6, <3>1, <4>1, <4>2
    <3>3. CASE x.shape = << 2 >>
      <4>1. Made(one, mem) = [k \in 1 .. 1 |-> (mem[x.block][1] + mem[x.block][2]) % 3]
        <5>1. Made(one, mem) = SumOver(mem[x.block], << 2 >>, 0)
          BY <2>0, <3>3
        <5> QED BY <5>1, SumsAre
      <4>2. /\ mem[x.block][1] = x.expect[1] /\ mem[x.block][2] = x.expect[2]
            /\ Total(x.expect) = (x.expect[1] + x.expect[2]) % 3
        BY <1>1, <1>10, <3>3, NumelFacts DEF Total
      <4> QED BY <1>6, <3>1, <4>1, <4>2
    <3> QED BY <2>1, <3>2, <3>3
  <2>3. /\ Becomes(Allocate(Mem)) /\ commands' = Append(commands, one)
        /\ values' = Append(values, V(Allocate(Mem).got)) /\ UNCHANGED <<misread, raced>>
    BY <1>a, <1>2, <1>12
  <2> QED BY <1>a, <1>1, <1>3, <1>7, <1>8, <2>2, <2>3, OneCommand
<1>13. CASE Len(x.shape) = 2
  <2>1. x.shape = <<2, 2>> /\ Numel(x.shape) = 4
    BY <1>4, <1>13, ShapesAre, NumelFacts
  <2>0. \A mem : Made(one, mem) = SumOver(mem[x.block], <<2, 2>>, 1)
    <3>1. Len(x.shape) - 1 = 1
      BY <1>13
    <3> QED BY <1>11, <2>1, <3>1
  <2> DEFINE mid == SumOver(x.expect, <<2, 2>>, 1)
  <2>2. mid = [k \in 1 .. 2 |-> (x.expect[2 * k - 1] + x.expect[2 * k]) % 3]
    BY SumsAre
  <2>3. mid \in Seq(Numbers3) /\ Len(mid) = 2
    <3>1. \A k \in 1 .. 2 : x.expect[2 * k - 1] \in Numbers3 /\ x.expect[2 * k] \in Numbers3
      BY <1>1, <2>1
    <3>2. \A k \in 1 .. 2 : (x.expect[2 * k - 1] + x.expect[2 * k]) % 3 \in Numbers3
      BY <3>1, ModuloFits
    <3>3. mid \in [1 .. 2 -> Numbers3]
      BY <2>2, <3>2
    <3> HIDE DEF mid
    <3> QED BY <3>3, Listed
  <2>4. x.exact => Justified(one, mid, Claims(values))
    <3> SUFFICES ASSUME x.exact, NEW mem, \A k \in Claims(values) : Holds(mem, k)
                 PROVE  \A i \in 1 .. Len(mid) : i \in DOMAIN Made(one, mem) /\ mid[i] = Made(one, mem)[i]
      BY DEF Justified
    <3>1. Made(one, mem) = [k \in 1 .. 2 |-> (mem[x.block][2 * k - 1] + mem[x.block][2 * k]) % 3]
      BY <2>0, SumsAre
    <3>2. \A k \in 1 .. 2 : 2 * k - 1 \in 1 .. 4 /\ 2 * k \in 1 .. 4
      OBVIOUS
    <3>3. Made(one, mem) = mid
      BY <1>10, <2>1, <2>2, <3>1, <3>2
    <3> QED BY <2>2, <2>3, <3>3
  <2>5. x.exact => Justified(two, total, Claims(values) \cup {Claim(first.got, mid)})
    <3> SUFFICES ASSUME x.exact, NEW mem, \A k \in Claims(values) \cup {Claim(first.got, mid)} : Holds(mem, k)
                 PROVE  \A i \in 1 .. Len(total) : i \in DOMAIN Made(two, mem) /\ total[i] = Made(two, mem)[i]
      BY DEF Justified
    <3>1. Made(two, mem) = [k \in 1 .. 1 |-> (mem[first.got][1] + mem[first.got][2]) % 3]
      BY <1>11, SumsAre
    <3>2. mem[first.got][1] = mid[1] /\ mem[first.got][2] = mid[2]
      <4>1. Claim(first.got, mid).block = first.got /\ Claim(first.got, mid).cells = mid
        BY DEF Claim
      <4>2. Holds(mem, Claim(first.got, mid))
        OBVIOUS
      <4> HIDE DEF mid
      <4> QED BY <2>3, <4>1, <4>2 DEF Holds
    <3>3. /\ mid[1] = (x.expect[1] + x.expect[2]) % 3 /\ mid[2] = (x.expect[3] + x.expect[4]) % 3
      BY <2>2
    <3>4. Total(x.expect) = (x.expect[1] + x.expect[2] + x.expect[3] + x.expect[4]) % 3
      BY <1>1, <2>1 DEF Total
    <3>5. \A a, b, c, d \in Nat : (((a + b) % 3) + ((c + d) % 3)) % 3 = (a + b + c + d) % 3
      OBVIOUS
    <3>6. /\ x.expect[1] \in Nat /\ x.expect[2] \in Nat /\ x.expect[3] \in Nat /\ x.expect[4] \in Nat
      BY <1>1, <2>1 DEF Numbers3
    <3>7. total[1] = (mid[1] + mid[2]) % 3
      BY <3>3, <3>4, <3>5, <3>6 DEF total
    <3> QED BY <1>6, <3>1, <3>2, <3>7
  <2>6. /\ Becomes(GiveBack(second, first.got)) /\ values' = Append(values, V(second.got))
        /\ commands' = commands \o <<one, two>> /\ UNCHANGED <<misread, raced>>
    BY <1>2, <1>13
  <2>7. /\ V(second.got) \in Value /\ OfShape(V(second.got)) /\ V(second.got).live /\ V(second.got).block = second.got
        /\ V(second.got).expect = total /\ V(second.got).exact = x.exact
    BY <1>3, <1>7
  <2> HIDE DEF mid
  <2>8. Twice(first, second, one, two, V(second.got), mid)
    BY <1>a, <1>1, <1>8, <1>9, <2>3, <2>4, <2>5, <2>6, <2>7 DEF Twice
  <2> QED BY <2>8, TwoCommands
<1> QED BY <1>2, <1>12, <1>13

\* A number on one side: the temporary that holds it goes back while the command that
\* reads it waits.
LEMMA StepScalar ==
  ASSUME ArithInv, NEW kernel \in {"add", "sub"}, NEW t \in Live, NEW x \in Scalars, NEW swap \in BOOLEAN,
         Scalar(kernel, t, x, swap)
  PROVE  ArithInv'
<1>a. PICK s, f, m : s = Allocate(Mem) /\ f = HostWrites(s, s.got, <<x>>) /\ m = Allocate(f)
  OBVIOUS
<1> DEFINE y == values[t]
           shape == Broadcast(y.shape, << 1 >>)
           left == IF swap THEN <<x>> ELSE y.expect
           right == IF swap THEN y.expect ELSE <<x>>
           a == IF swap THEN s.got ELSE y.block
           b == IF swap THEN y.block ELSE s.got
           c == Encode(kernel, a, b, m.got, shape, 0)
           expect == Meant(kernel, left, right, shape)
           exact == y.exact /\ Len(y.expect) = 1
           v == Float(m.got, TRUE, shape, expect, exact)
           filled == Claims(values) \cup {Claim(s.got, <<x>>)}
           more == IF exact THEN {Claim(m.got, expect)} ELSE {}
           out == {s.got} \cup {m.got}
<1>1. /\ y.shape \in AllShapes /\ y.expect \in Seq(Numbers3) /\ Len(y.expect) = Numel(y.shape)
      /\ Len(y.expect) \in {1, 2, 4} /\ y.exact \in BOOLEAN
      /\ y.block \in HeldBy(values) /\ y.block \in Nat
      /\ y.exact => Claim(y.block, y.expect) \in Claims(values)
  BY FloatsAre
<1>2. /\ <<x>> \in [1 .. 1 -> Numbers3] /\ <<x>> \in Seq(Numbers3) /\ Len(<<x>>) = 1
  BY ConstantsFit
<1>3. /\ Becomes(GiveBack(m, s.got)) /\ raced' = (raced \/ InUse(s.got))
      /\ commands' = Append(commands, c) /\ values' = Append(values, v) /\ UNCHANGED misread
  <2>1. expect = IF swap THEN Meant(kernel, <<x>>, y.expect, shape) ELSE Meant(kernel, y.expect, <<x>>, shape)
    OBVIOUS
  <2> HIDE DEF expect
  <2> QED BY <1>a, <2>1 DEF Scalar, AddValue
<1> HIDE DEF y
<1>4. shape \in AllShapes /\ (Len(y.expect) = 1 => Numel(shape) = 1)
  BY <1>1, BroadcastFits, ShapesAre, NumelFacts
<1>5. /\ Sound(s.blocks, s.pool, {s.got}, commands, values, ~raced, Claims(values))
      /\ s.got \in 1 .. Len(s.blocks) /\ s.got \notin HeldBy(values) /\ IsMem(s)
  BY <1>a, Handed
<1>6. IsMem(f) /\ IsMem(m)
  BY <1>a, <1>5, MemFits
<1>7. Sound(f.blocks, f.pool, {s.got}, commands, values, ~raced', filled)
  <2>1. s.got \in {s.got} /\ \A k \in Claims(values) : k.block # s.got
    BY <1>5, ClaimsHeld
  <2>2. ~raced' => ~raced /\ \A i \in 1 .. Len(commands) :
                              s.got # commands[i].a /\ s.got # commands[i].b /\ s.got # commands[i].out
    BY <1>3, NotInUse
  <2>3. 1 \in 1 .. 4
    OBVIOUS
  <2>4. Sound(HostWrites(s, s.got, <<x>>).blocks, HostWrites(s, s.got, <<x>>).pool, {s.got}, commands, values,
              ~raced', Claims(values) \cup {Claim(s.got, <<x>>)})
    BY ONLY <1>2, <1>5, <2>1, <2>2, <2>3, SoundWritten
  <2> QED BY <1>a, <2>4
<1>8. /\ Sound(m.blocks, m.pool, out, commands, values, ~raced', filled)
      /\ m.got \in 1 .. Len(m.blocks) /\ m.got \notin {s.got} /\ m.got \notin HeldBy(values)
  BY <1>a, <1>7, SoundAllocated
<1>9. /\ s.got \in 1 .. Len(m.blocks) /\ y.block \in 1 .. Len(m.blocks) /\ Len(m.blocks) \in Nat
      /\ s.got \in out /\ m.got \in out
  BY <1>1, <1>8, BuffersAre DEF Sound, Owned
<1> HIDE DEF shape, left, right, a, b
<1>10. /\ left \in Seq(Numbers3) /\ right \in Seq(Numbers3) /\ Len(left) \in {1, 2, 4} /\ Len(right) \in {1, 2, 4}
       /\ a \in 1 .. Len(m.blocks) /\ b \in 1 .. Len(m.blocks)
  BY <1>1, <1>2, <1>9 DEF left, right, a, b
<1>11. expect \in [1 .. Numel(shape) -> Numbers3]
  BY <1>4, <1>10, MeantFits
<1>12. c \in Command /\ c.kernel = kernel /\ c.a = a /\ c.b = b /\ c.out = m.got /\ c.shape = shape
  <2>1. kernel \in {"add", "sub", "neg", "sum", "matmul", "norm"} /\ 0 \in 0 .. 1 /\ m.got \in Nat
        /\ a \in Nat /\ b \in Nat
    BY <1>8, <1>10
  <2> QED BY <1>4, <2>1 DEF Encode, Command
<1>13. v \in Value /\ OfShape(v) /\ expect \in Seq(Numbers3) /\ Len(expect) = Numel(shape) /\ Len(expect) \in 1 .. 4
  <2>1. exact \in BOOLEAN /\ m.got \in Nat /\ \A k \in {1, 2, 4} : k \in 1 .. 4
    BY <1>1, <1>8
  <2> HIDE DEF exact, expect
  <2> QED BY <1>4, <1>11, <2>1, FloatFits
<1>14. v.live /\ v.block = m.got /\ v.expect = expect /\ v.exact = exact
  BY DEF Float
<1> HIDE DEF c, v
<1>15. exact => Justified(c, expect, filled)
  <2> SUFFICES ASSUME exact PROVE Justified(c, expect, filled)
    OBVIOUS
  <2>0. Len(left) = Numel(shape) /\ Len(right) = Numel(shape)
    BY <1>1, <1>2, <1>4 DEF left, right
  <2>1. \A i \in 1 .. Numel(shape) :
          expect[i] = IF kernel = "add" THEN (left[i] + right[i]) % 3 ELSE (left[i] - right[i]) % 3
    BY <1>4, <1>10, <2>0, MeantFits
  <2>2. Claim(c.a, left) \in filled /\ Claim(c.b, right) \in filled
    <3> HIDE DEF Claim
    <3> QED BY <1>1, <1>12 DEF left, right, a, b
  <2>3. /\ c.kernel \in {"add", "sub"} /\ c.shape \in AllShapes /\ Len(expect) = Numel(c.shape)
        /\ Len(left) = Numel(c.shape) /\ Len(right) = Numel(c.shape)
    BY <1>4, <1>12, <1>13, <2>0
  <2>4. \A i \in 1 .. Numel(c.shape) :
          expect[i] = IF c.kernel = "add" THEN (left[i] + right[i]) % 3 ELSE (left[i] - right[i]) % 3
    BY <1>12, <2>1
  <2> HIDE DEF expect, filled
  <2> QED BY <1>13, <2>2, <2>3, <2>4, ElementsJustified
<1> HIDE DEF expect, exact
<1>16. \A e \in more : ClaimOK(e, Len(m.blocks)) /\ e.block = c.out /\ Justified(c, e.cells, filled)
  <2>1. /\ ClaimOK(Claim(m.got, expect), Len(m.blocks)) /\ Claim(m.got, expect).block = c.out
        /\ Claim(m.got, expect).cells = expect
    BY <1>8, <1>12, <1>13 DEF ClaimOK, Claim
  <2> QED BY <1>15, <2>1
<1>17. Sound(m.blocks, m.pool, out, Append(commands, c), values, ~raced', filled \cup more)
  <2>1. CommandOK(c, Len(m.blocks)) /\ c.out \in out
    BY <1>8, <1>9, <1>10, <1>12 DEF CommandOK
  <2>2. \A k \in filled : k.block # c.out
    BY <1>8, <1>12, ClaimsHeld DEF Claim
  <2> HIDE DEF out, filled, more
  <2> QED BY <1>8, <1>16, <2>1, <2>2, SoundEncoded
<1>18. Sound(m.blocks, Append(m.pool, s.got), out \ {s.got}, Append(commands, c), values, ~raced',
             Claims(values) \cup more)
  <2>1. /\ Claims(values) \cup more \in SUBSET (filled \cup more)
        /\ \A k \in Claims(values) \cup more : k.block # s.got
    BY <1>5, <1>8, <1>12, <1>16, ClaimsHeld
  <2> HIDE DEF out, filled, more
  <2> QED BY <1>9, <1>17, <2>1, SoundReturned
<1>19. out \ {s.got} = {v.block}
  BY <1>8, <1>14
<1>20. /\ Claims(values) \in SUBSET (Claims(values) \cup more)
       /\ v.exact => Claim(v.block, v.expect) \in Claims(values) \cup more
  BY <1>14
<1>21. /\ blocks' = m.blocks /\ pool' = Append(m.pool, s.got) /\ misread' = misread
       /\ raced' \in BOOLEAN /\ (raced => raced')
  <2>1. GiveBack(m, s.got).blocks = m.blocks /\ GiveBack(m, s.got).pool = Append(m.pool, s.got)
    BY <1>6, MemFits
  <2> QED BY <1>3, <2>1 DEF Becomes, ArithInv, InUse
<1> HIDE DEF out, more, filled
<1>22. Sound(m.blocks, Append(m.pool, s.got), {v.block}, Append(commands, c), values, ~raced', Claims(values) \cup more)
  BY ONLY <1>18, <1>19
<1> QED BY <1>3, <1>13, <1>14, <1>20, <1>21, <1>22, Added

\* The tensors of a shape.
LEMMA MatricesAre ==
  ASSUME ArithInv, NEW t \in WithShape(<<2, 2>>)
  PROVE  t \in Live /\ values[t].shape = <<2, 2>> /\ values[t].expect \in Block
<1>1. t \in Live /\ values[t].shape = <<2, 2>>
  BY DEF WithShape, Floats
<1> QED BY <1>1, FloatsAre, NumelFacts DEF Block

LEMMA RowsAre ==
  ASSUME ArithInv, NEW t \in WithShape(<< 2 >>)
  PROVE  t \in Live /\ values[t].shape = << 2 >> /\ values[t].expect \in [1 .. 2 -> Numbers3]
<1>1. t \in Live /\ values[t].shape = << 2 >>
  BY DEF WithShape, Floats
<1> QED BY <1>1, FloatsAre, NumelFacts

LEMMA ProductFits ==
  ASSUME NEW x \in Block, NEW y \in Block, NEW transposed \in BOOLEAN
  PROVE  Product(x, y, transposed) \in [1 .. 4 -> Numbers3]
<1> DEFINE dim == IF transposed THEN 1 ELSE 0
           c == Encode("matmul", 1, 1, 1, <<2, 2>>, dim)
<1>1. CommandOK(c, 1)
  BY ShapesAre DEF CommandOK, Encode, Command
<1>2. PICK m \in 1 .. 4 : Kernel(c, x, y) \in [1 .. m -> Numbers3]
  <2>1. 1 \in Nat
    OBVIOUS
  <2> QED BY <1>1, <2>1, KernelFits
<1>3. Product(x, y, transposed) = Kernel(c, x, y)
  BY DEF Product, Kernel, Encode
<1>4. DOMAIN Kernel(c, x, y) = 1 .. 4
  BY DEF Kernel, Encode
<1> HIDE DEF c
<1>5. m = 4
  <2>1. 1 .. m = 1 .. 4
    BY <1>2, <1>4
  <2> QED BY <2>1
<1> QED BY <1>2, <1>3, <1>5

\* A buffer that holds a claim of four cells is the claim's.
LEMMA HoldsAll ==
  ASSUME NEW mem, NEW b, NEW cells \in Block, mem[b] \in Block, Holds(mem, Claim(b, cells))
  PROVE  mem[b] = cells
<1>1. Claim(b, cells).block = b /\ Claim(b, cells).cells = cells
  BY DEF Claim
<1>2. cells \in Seq(Numbers3) /\ Len(cells) = 4
  <2>1. 4 \in Nat /\ cells \in [1 .. 4 -> Numbers3]
    BY DEF Block
  <2>2. \A n \in Nat : \A f \in [1 .. n -> Numbers3] : f \in Seq(Numbers3) /\ Len(f) = n
    BY Listed
  <2> QED BY ONLY <2>1, <2>2
<1>3. \A i \in 1 .. 4 : mem[b][i] = cells[i]
  BY <1>1, <1>2 DEF Holds
<1>4. mem[b] = [i \in 1 .. 4 |-> mem[b][i]] /\ cells = [i \in 1 .. 4 |-> cells[i]]
  BY DEF Block
<1> QED BY <1>3, <1>4

LEMMA StepMatMul ==
  ASSUME ArithInv, NEW s \in WithShape(<<2, 2>>), NEW t \in WithShape(<<2, 2>>), MatMul(s, t)
  PROVE  ArithInv'
<1> DEFINE x == values[s]
           y == values[t]
           got == Allocate(Mem).got
           c == Encode("matmul", x.block, y.block, got, <<2, 2>>, 0)
           expect == Product(x.expect, y.expect, FALSE)
           exact == x.exact /\ y.exact
           v == Float(got, TRUE, <<2, 2>>, expect, exact)
<1>1. /\ x.expect \in Block /\ x.exact \in BOOLEAN /\ x.block \in HeldBy(values) /\ x.block \in Nat
      /\ x.exact => Claim(x.block, x.expect) \in Claims(values)
  BY MatricesAre, FloatsAre
<1>2. /\ y.expect \in Block /\ y.exact \in BOOLEAN /\ y.block \in HeldBy(values) /\ y.block \in Nat
      /\ y.exact => Claim(y.block, y.expect) \in Claims(values)
  BY MatricesAre, FloatsAre
<1>3. got \in Nat
  BY GotNew
<1>4. /\ Becomes(Allocate(Mem)) /\ commands' = Append(commands, c) /\ values' = Append(values, v)
      /\ UNCHANGED <<misread, raced>>
  BY DEF MatMul, AddValue
<1> HIDE DEF x, y, got
<1>5. c \in Command /\ c.kernel = "matmul" /\ c.a = x.block /\ c.b = y.block /\ c.out = got /\ c.dim = 0
  BY <1>1, <1>2, <1>3, ShapesAre DEF Encode, Command
<1>6. expect \in [1 .. 4 -> Numbers3]
  BY <1>1, <1>2, ProductFits
<1> HIDE DEF expect
<1>7. v \in Value /\ OfShape(v) /\ Len(expect) = 4
  <2>1. <<2, 2>> \in AllShapes /\ Numel(<<2, 2>>) = 4 /\ exact \in BOOLEAN
    BY <1>1, <1>2, ShapesAre, NumelFacts
  <2> HIDE DEF exact
  <2> QED BY <1>3, <1>6, <2>1, FloatFits
<1>8. v.live /\ v.block = got /\ v.expect = expect /\ v.exact = exact
  BY DEF Float
<1> HIDE DEF c, v
<1>9. exact => Justified(c, expect, Claims(values))
  <2> SUFFICES ASSUME exact, NEW mem, mem[c.a] \in Block, mem[c.b] \in Block,
                      \A k \in Claims(values) : Holds(mem, k)
               PROVE  \A i \in 1 .. Len(expect) : i \in DOMAIN Made(c, mem) /\ expect[i] = Made(c, mem)[i]
    BY DEF Justified
  <2>1. mem[c.a] = x.expect
    BY <1>1, <1>5, HoldsAll
  <2>2. mem[c.b] = y.expect
    BY <1>2, <1>5, HoldsAll
  <2>3. Kernel(c, x.expect, y.expect) = expect
    BY <1>5 DEF Kernel, expect, Product, Encode
  <2> QED BY <1>6, <1>7, <2>1, <2>2, <2>3 DEF Made
<1> QED BY <1>1, <1>2, <1>4, <1>5, <1>7, <1>8, <1>9, OneCommand DEF got

LEMMA StepNorm ==
  ASSUME ArithInv, NEW s \in WithShape(<<2, 2>>), NEW t \in WithShape(<< 2 >>), Norm(s, t)
  PROVE  ArithInv'
<1> DEFINE x == values[s]
           y == values[t]
           got == Allocate(Mem).got
           c == Encode("norm", x.block, y.block, got, <<2, 2>>, 0)
           expect == [i \in 1 .. 4 |-> (x.expect[i] * y.expect[Col(i) + 1]) % 3]
           exact == x.exact /\ y.exact
           v == Float(got, TRUE, <<2, 2>>, expect, exact)
<1>1. /\ x.expect \in Block /\ x.exact \in BOOLEAN /\ x.block \in HeldBy(values) /\ x.block \in Nat
      /\ x.exact => Claim(x.block, x.expect) \in Claims(values)
  BY MatricesAre, FloatsAre
<1>2. /\ y.expect \in [1 .. 2 -> Numbers3] /\ y.exact \in BOOLEAN /\ y.block \in HeldBy(values) /\ y.block \in Nat
      /\ y.exact => Claim(y.block, y.expect) \in Claims(values)
  BY RowsAre, FloatsAre
<1>3. got \in Nat
  BY GotNew
<1>4. /\ Becomes(Allocate(Mem)) /\ commands' = Append(commands, c) /\ values' = Append(values, v)
      /\ UNCHANGED <<misread, raced>>
  BY DEF Norm, AddValue
<1> HIDE DEF x, y, got
<1>5. c \in Command /\ c.kernel = "norm" /\ c.a = x.block /\ c.b = y.block /\ c.out = got /\ c.shape = <<2, 2>>
  BY <1>1, <1>2, <1>3, ShapesAre DEF Encode, Command
<1>a. \A i \in 1 .. 4 : Col(i) + 1 \in 1 .. 2
  BY DEF Col
<1>6. expect \in [1 .. 4 -> Numbers3]
  <2>1. \A i \in 1 .. 4 : x.expect[i] \in Numbers3 /\ y.expect[Col(i) + 1] \in Numbers3
    BY <1>1, <1>2, <1>a DEF Block
  <2> QED BY <2>1, TimesFits
<1> HIDE DEF expect
<1>7. v \in Value /\ OfShape(v) /\ Len(expect) = 4
  <2>1. <<2, 2>> \in AllShapes /\ Numel(<<2, 2>>) = 4 /\ exact \in BOOLEAN
    BY <1>1, <1>2, ShapesAre, NumelFacts
  <2> HIDE DEF exact
  <2> QED BY <1>3, <1>6, <2>1, FloatFits
<1>8. v.live /\ v.block = got /\ v.expect = expect /\ v.exact = exact
  BY DEF Float
<1> HIDE DEF c, v
<1>9. exact => Justified(c, expect, Claims(values))
  <2> SUFFICES ASSUME exact, NEW mem, mem[c.a] \in Block, mem[c.b] \in Block,
                      \A k \in Claims(values) : Holds(mem, k)
               PROVE  \A i \in 1 .. Len(expect) : i \in DOMAIN Made(c, mem) /\ expect[i] = Made(c, mem)[i]
    BY DEF Justified
  <2>1. mem[c.a] = x.expect
    BY <1>1, <1>5, HoldsAll
  <2>2. \A i \in 1 .. 2 : mem[c.b][i] = y.expect[i]
    <3>1. Holds(mem, Claim(y.block, y.expect))
      BY <1>2
    <3>2. 2 \in Nat
      OBVIOUS
    <3>3. Len(y.expect) = 2
      BY <1>2, <3>2, Listed
    <3> QED BY <1>5, <3>1, <3>3 DEF Holds, Claim
  <2>3. Made(c, mem) = [i \in 1 .. 4 |-> (mem[c.a][i] * mem[c.b][Col(i) + 1]) % 3]
    BY <1>5, NumelFacts DEF Made, Kernel
  <2>4. Made(c, mem) = expect
    BY <1>a, <2>1, <2>2, <2>3 DEF expect
  <2> QED BY <1>6, <1>7, <2>4
<1> QED BY <1>1, <1>2, <1>4, <1>5, <1>7, <1>8, <1>9, OneCommand DEF got

LEMMA StepLinear ==
  ASSUME ArithInv, NEW s \in WithShape(<<2, 2>>), NEW w \in WithShape(<<2, 2>>), NEW t \in WithShape(<< 2 >>),
         Linear(s, w, t)
  PROVE  ArithInv'
<1>a. PICK first, second : first = Allocate(Mem) /\ second = Allocate(first)
  OBVIOUS
<1> DEFINE x == values[s]
           y == values[w]
           z == values[t]
           c == Encode("matmul", x.block, y.block, first.got, <<2, 2>>, 1)
           d == Encode("add", first.got, z.block, second.got, <<2, 2>>, 0)
           product == Product(x.expect, y.expect, TRUE)
           expect == Meant("add", product, z.expect, <<2, 2>>)
           v == Float(second.got, TRUE, <<2, 2>>, expect, FALSE)
<1>0. s \in Live /\ w \in Live /\ t \in Live
  BY DEF WithShape, Floats
<1>1. x.expect \in Block /\ x.block \in HeldBy(values) /\ x.block \in Nat
  BY <1>0, MatricesAre, FloatsAre
<1>2. y.expect \in Block /\ y.block \in HeldBy(values) /\ y.block \in Nat
  BY <1>0, MatricesAre, FloatsAre
<1>3. z.expect \in [1 .. 2 -> Numbers3] /\ z.block \in HeldBy(values) /\ z.block \in Nat
  BY <1>0, RowsAre, FloatsAre
<1>4. first.got \in Nat /\ second.got \in Nat
  <2>1. Sound(first.blocks, first.pool, {first.got}, commands, values, ~raced, Claims(values))
    BY <1>a, Handed
  <2>3. first.got \in Nat
    BY <1>a, GotNew
  <2>2. second.got \in 1 .. Len(second.blocks)
    BY <1>a, <2>1, SoundAllocated
  <2> QED BY <2>2, <2>3
<1>5. /\ Becomes(GiveBack(second, first.got)) /\ commands' = commands \o <<c, d>>
      /\ values' = Append(values, v) /\ UNCHANGED <<misread, raced>>
  BY <1>a DEF Linear, AddValue
<1> HIDE DEF x, y, z
<1>6. c \in Command /\ c.kernel = "matmul" /\ c.a = x.block /\ c.b = y.block /\ c.out = first.got
  BY <1>1, <1>2, <1>4, ShapesAre DEF Encode, Command
<1>7. d \in Command /\ d.kernel = "add" /\ d.a = first.got /\ d.b = z.block /\ d.out = second.got
  BY <1>3, <1>4, ShapesAre DEF Encode, Command
<1>8. product \in Seq(Numbers3) /\ Len(product) = 4 /\ z.expect \in Seq(Numbers3) /\ Len(z.expect) = 2
  <2>1. product \in [1 .. 4 -> Numbers3]
    BY <1>1, <1>2, ProductFits
  <2>2. 4 \in Nat /\ 2 \in Nat
    OBVIOUS
  <2> HIDE DEF product
  <2> QED BY <1>3, <2>1, <2>2, Listed
<1> HIDE DEF product
<1>9. expect \in [1 .. Numel(<<2, 2>>) -> Numbers3]
  <2>1. "add" \in {"add", "sub"} /\ Len(product) \in {1, 2, 4} /\ Len(z.expect) \in {1, 2, 4}
    BY <1>8
  <2> QED BY <1>8, <2>1, ShapesAre, MeantFits
<1> HIDE DEF expect
<1>10. v \in Value /\ OfShape(v) /\ v.live /\ v.block = second.got /\ ~v.exact
  <2>1. v \in Value /\ OfShape(v)
    BY <1>4, <1>9, ShapesAre, FloatFits
  <2> QED BY <2>1 DEF Float
<1> HIDE DEF c, d, v
<1>11. Twice(first, second, c, d, v, product)
  BY <1>a, <1>1, <1>2, <1>3, <1>5, <1>6, <1>7, <1>8, <1>10 DEF Twice
<1> QED BY <1>11, TwoCommands

-------------------------------------------------------------------------------
(* TensorArithmetic: the theorems                                              *)

LEMMA ArithStart == ArithInit => ArithInv
<1> SUFFICES ASSUME ArithInit PROVE ArithInv
  OBVIOUS
<1> DEFINE n == Len(Inputs)
           First(t) == [i \in 1 .. 4 |-> IF i \in DOMAIN Data(Inputs[t]) THEN Data(Inputs[t])[i] ELSE 0]
           V(t) == Float(t, FALSE, Inputs[t], Data(Inputs[t]), TRUE)
<1>1. n \in Nat /\ DOMAIN Inputs = 1 .. n /\ \A t \in 1 .. n : Inputs[t] \in AllShapes
  BY ArithmeticAssumption DEF AllShapes
<1>2. /\ blocks = [t \in 1 .. n |-> First(t)] /\ values = [t \in 1 .. n |-> V(t)]
      /\ pool = <<>> /\ commands = <<>> /\ misread = FALSE /\ raced = FALSE
  BY <1>1 DEF ArithInit
<1>3. ASSUME NEW t \in 1 .. n
      PROVE  /\ Data(Inputs[t]) \in Seq(Numbers3) /\ Len(Data(Inputs[t])) \in 1 .. 4
             /\ \A i \in 1 .. Len(Data(Inputs[t])) : First(t)[i] = Data(Inputs[t])[i]
             /\ First(t) \in Block /\ V(t) \in Value /\ OfShape(V(t))
  <2>1. Inputs[t] \in AllShapes /\ t \in Nat
    BY <1>1
  <2>2. Numel(Inputs[t]) \in 1 .. 4 /\ Data(Inputs[t]) \in [1 .. Numel(Inputs[t]) -> Numbers3]
    BY <2>1, DataFits
  <2>3. V(t) \in Value /\ OfShape(V(t)) /\ Data(Inputs[t]) \in Seq(Numbers3) /\ Len(Data(Inputs[t])) = Numel(Inputs[t])
    BY <2>1, <2>2, FloatFits
  <2>4. \A i \in 1 .. 4 : (IF i \in DOMAIN Data(Inputs[t]) THEN Data(Inputs[t])[i] ELSE 0) \in Numbers3
    BY <2>2 DEF Numbers3
  <2>5. First(t) \in Block
    BY <2>4 DEF Block
  <2>6. \A i \in 1 .. Len(Data(Inputs[t])) : First(t)[i] = Data(Inputs[t])[i]
    BY <2>2, <2>3
  <2> QED BY <2>2, <2>3, <2>5, <2>6
<1> HIDE DEF First
<1>4. blocks \in [1 .. n -> Block] /\ blocks \in Seq(Block) /\ Len(blocks) = n
  <2>1. blocks \in [1 .. n -> Block]
    BY <1>2, <1>3
  <2> QED BY <1>1, <2>1, Listed
<1>5. \A t \in 1 .. n : V(t).live /\ V(t).exact /\ V(t).block = t /\ V(t).expect = Data(Inputs[t])
  BY DEF Float
<1> HIDE DEF V
<1>6. values \in Seq(Value) /\ DOMAIN values = 1 .. n /\ \A t \in 1 .. n : values[t] = V(t)
  <2>1. values \in [1 .. n -> Value]
    BY <1>2, <1>3
  <2>2. values \in Seq(Value)
    BY <1>1, <2>1, Listed
  <2> QED BY <1>2, <2>2
<1>7. HeldBy(values) \in SUBSET (1 .. n)
  BY <1>5, <1>6 DEF HeldBy
<1>8. Owned(n, pool, {}, values)
  BY <1>2, <1>5, <1>6, <1>7 DEF Owned
<1>9. ASSUME NEW k \in Claims(values)
      PROVE  ClaimOK(k, n) /\ k.block \in {} \cup HeldBy(values) /\ Holds(blocks, k)
  <2>1. PICK t \in 1 .. n : k = Claim(t, Data(Inputs[t]))
    BY <1>5, <1>6 DEF Claims
  <2>2. k.block = t /\ k.cells = Data(Inputs[t])
    BY <2>1 DEF Claim
  <2>3. k.block \in HeldBy(values)
    BY ClaimsHeld
  <2>4. Holds(blocks, k)
    BY <1>2, <1>3, <2>2 DEF Holds
  <2>5. ClaimOK(k, n)
    BY <1>3, <2>2 DEF ClaimOK
  <2> QED BY <2>3, <2>4, <2>5
<1>10. Commands(commands, n)
  BY <1>2 DEF Commands
<1>11. Foretold(n, blocks, commands, Claims(values))
  <2> DEFINE M == [i \in 1 .. 1 |-> blocks]
  <2>1. Len(commands) = 0 /\ M \in [1 .. 1 -> [1 .. n -> Block]] /\ M[1] = blocks
    BY <1>2, <1>4
  <2> HIDE DEF M
  <2>2. Trace(M, n, blocks, commands)
    BY <2>1 DEF Trace
  <2>3. \A k \in Claims(values) : Holds(M[Len(commands) + 1], k)
    BY <1>9, <2>1
  <2> QED BY <2>2, <2>3 DEF Foretold
<1>12. Sound(blocks, pool, {}, commands, values, ~raced, Claims(values))
  BY <1>4, <1>8, <1>9, <1>10, <1>11 DEF Sound
<1> QED BY <1>2, <1>3, <1>6, <1>12 DEF ArithInv

LEMMA ArithStep == ArithInv /\ [ArithNext]_arithVars => ArithInv'
<1> SUFFICES ASSUME ArithInv, [ArithNext]_arithVars PROVE ArithInv'
  OBVIOUS
<1>0. \A t \in Floats : t \in Live
  BY DEF Floats
<1>1. CASE RunCommand
  BY <1>1, StepRun
<1>2. ASSUME NEW shape \in Shapes, NEW dtype \in {"float32", "int64"}, FromData(shape, dtype) PROVE ArithInv'
  BY <1>2, StepFromData
<1>3. ASSUME NEW shape \in Shapes, NEW x \in {0, 1}, Full(shape, x) PROVE ArithInv'
  BY <1>3, StepFull
<1>4. ASSUME NEW shape \in Shapes, empty(shape) PROVE ArithInv'
  BY <1>4, StepEmpty
<1>5. ASSUME NEW t \in Live, DropTensor(t) \/ Read(t) \/ BinaryThrows(t, t) PROVE ArithInv'
  BY <1>5, StepDrop, StepRead, StepThrows
<1>6. ASSUME NEW t \in Floats, Unary(t) \/ Activation(t) \/ ReduceAll(t) PROVE ArithInv'
  BY <1>0, <1>6, StepUnary, StepActivation, StepReduceAll
<1>7. ASSUME NEW t \in Floats, NEW dim \in 0 .. 1, Reduce(t, dim) PROVE ArithInv'
  BY <1>7, StepReduce
<1>8. ASSUME NEW t \in Floats, NEW kernel \in {"add", "sub"}, NEW x \in Scalars, NEW swap \in BOOLEAN,
             Scalar(kernel, t, x, swap)
      PROVE  ArithInv'
  BY <1>0, <1>8, StepScalar
<1>9. ASSUME NEW t \in Floats, NEW s \in Floats, NEW kernel \in {"add", "sub"}, Binary(kernel, s, t) PROVE ArithInv'
  BY <1>9, StepBinary
<1>10. ASSUME NEW x \in WithShape(<<2, 2>>), NEW w \in WithShape(<<2, 2>>), MatMul(x, w) PROVE ArithInv'
  BY <1>10, StepMatMul
<1>11. ASSUME NEW x \in WithShape(<<2, 2>>), NEW w \in WithShape(<<2, 2>>), NEW b \in WithShape(<< 2 >>), Linear(x, w, b)
       PROVE  ArithInv'
  BY <1>11, StepLinear
<1>12. ASSUME NEW x \in WithShape(<<2, 2>>), NEW w \in WithShape(<< 2 >>), Norm(x, w) PROVE ArithInv'
  BY <1>12, StepNorm
<1>13. CASE UNCHANGED arithVars
  BY <1>13 DEF arithVars, ArithInv
<1>14. ASSUME NEW enable \in LazyModes, set_lazy_commit(enable) PROVE ArithInv'
  BY <1>14 DEF set_lazy_commit, ArithInv
<1> QED BY <1>1, <1>2, <1>3, <1>4, <1>5, <1>6, <1>7, <1>8, <1>9, <1>10, <1>11, <1>12, <1>13, <1>14 DEF ArithNext

LEMMA ArithInvariant == ArithSpec => []ArithInv
<1>1. ArithInit => ArithInv
  BY ArithStart
<1>2. ArithInv /\ [ArithNext]_arithVars => ArithInv'
  BY ArithStep
<1> QED BY <1>1, <1>2, PTL DEF ArithSpec

\* What is in the open command buffer waits.
OpenFits == lazy \in BOOLEAN /\ open \in 0 .. Len(commands)

\* Each of the n commands that a call encodes comes after what is open.
LEMMA OpenGrows ==
  ASSUME OpenFits, commands \in Seq(Command), NEW n \in 1 .. 2, Committed(n), Len(commands') = Len(commands) + n
  PROVE  open' \in 0 .. Len(commands')
BY DEF OpenFits, Committed

LEMMA OpenStep == ArithInv /\ OpenFits /\ [ArithNext]_arithVars => OpenFits'
<1> SUFFICES ASSUME ArithInv, OpenFits, [ArithNext]_arithVars PROVE OpenFits'
  OBVIOUS
<1>0. commands \in Seq(Command)
  BY DEF ArithInv, Sound, Commands
<1>a. ASSUME NEW c, commands' = Append(commands, c), Committed(1), UNCHANGED lazy PROVE OpenFits'
  <2>1. Len(commands') = Len(commands) + 1
    BY <1>0, <1>a
  <2> QED BY <1>0, <1>a, <2>1, OpenGrows DEF OpenFits
<1>b. ASSUME NEW c, NEW d, commands' = commands \o <<c, d>>, Committed(2), UNCHANGED lazy PROVE OpenFits'
  <2>1. Len(commands') = Len(commands) + 2
    BY <1>0, <1>b
  <2> QED BY <1>0, <1>b, <2>1, OpenGrows DEF OpenFits
<1>1. CASE RunCommand
  <2>1. Len(commands') = Len(commands) - 1 /\ Len(commands) \in Nat
    BY <1>0, <1>1 DEF RunCommand
  <2> QED BY <1>1, <2>1 DEF RunCommand, bufferVars, OpenFits
<1>2. ASSUME NEW enable \in LazyModes, set_lazy_commit(enable) PROVE OpenFits'
  BY <1>2, ArithmeticAssumption DEF set_lazy_commit, OpenFits
<1>3. ASSUME UNCHANGED <<commands, bufferVars>> PROVE OpenFits'
  BY <1>3 DEF bufferVars, OpenFits
<1>4. ASSUME NEW shape, NEW dtype, FromData(shape, dtype) PROVE OpenFits'
  BY <1>3, <1>4 DEF FromData
<1>5. ASSUME NEW shape, NEW x, Full(shape, x) \/ empty(shape) PROVE OpenFits'
  BY <1>3, <1>5 DEF Full, empty
<1>6. ASSUME NEW t, DropTensor(t) \/ Read(t) \/ BinaryThrows(t, t) \/ Activation(t) PROVE OpenFits'
  BY <1>3, <1>6 DEF DropTensor, Read, Shows, BinaryThrows, Activation
<1>7. ASSUME NEW t, NEW dim, Unary(t) \/ Reduce(t, dim) PROVE OpenFits'
  BY <1>7, <1>a DEF Unary, Reduce
<1>8. ASSUME NEW t, ReduceAll(t) PROVE OpenFits'
  BY <1>8, <1>a, <1>b DEF ReduceAll
<1>9. ASSUME NEW kernel, NEW t, NEW x, NEW swap, Scalar(kernel, t, x, swap) PROVE OpenFits'
  BY <1>9, <1>a DEF Scalar
<1>10. ASSUME NEW kernel, NEW s, NEW t, Binary(kernel, s, t) \/ MatMul(s, t) \/ Norm(s, t) PROVE OpenFits'
  BY <1>10, <1>a DEF Binary, MatMul, Norm
<1>11. ASSUME NEW x, NEW w, NEW b, Linear(x, w, b) PROVE OpenFits'
  BY <1>11, <1>b DEF Linear
<1>12. CASE UNCHANGED arithVars
  BY <1>3, <1>12 DEF arithVars
<1> QED BY <1>1, <1>2, <1>4, <1>5, <1>6, <1>7, <1>8, <1>9, <1>10, <1>11, <1>12 DEF ArithNext

\* Memory, tensors and waiting commands have their types, and every live tensor has a
\* buffer that is there (core/buffer.mm:75-85, tensor.py:66-103).
THEOREM ArithTyped == ArithSpec => []ArithTypeOK
<1>1. ArithInv /\ OpenFits => ArithTypeOK
  <2> SUFFICES ASSUME ArithInv, OpenFits PROVE ArithTypeOK
    OBVIOUS
  <2>1. /\ blocks \in Seq(Block) /\ DOMAIN blocks = 1 .. Len(blocks)
        /\ Owned(Len(blocks), pool, {}, values) /\ commands \in Seq(Command)
    BY DEF ArithInv, Sound, Commands
  <2>2. pool \in Seq(DOMAIN blocks)
    BY <2>1 DEF Owned
  <2>3. \A t \in Live : values[t].block \in DOMAIN blocks
    BY <2>1 DEF Live, Owned, HeldBy
  <2> QED BY <2>1, <2>2, <2>3 DEF ArithTypeOK, OpenFits, ArithInv, OfShape
<1>2. ArithInit => OpenFits
  <2>1. ArithInit => lazy = FALSE /\ open = 0 /\ commands = <<>>
    BY Zenon DEF ArithInit
  <2>2. lazy = FALSE /\ open = 0 /\ commands = <<>> => OpenFits
    <3>1. Len(<<>>) = 0 /\ 0 \in 0 .. 0
      OBVIOUS
    <3>2. FALSE \in BOOLEAN
      OBVIOUS
    <3> QED BY Zenon, <3>1, <3>2 DEF OpenFits
  <2> QED BY <2>1, <2>2
<1>3. ArithInv /\ OpenFits /\ [ArithNext]_arithVars => OpenFits'
  BY OpenStep
<1> QED BY <1>1, <1>2, <1>3, ArithInvariant, PTL DEF ArithSpec

\* What the program reads of a tensor is what the operators it called mean, however far
\* behind the GPU is and whatever has been recycled under its commands, as long as the
\* host has not written to a buffer that a waiting command uses, nor read while commands
\* were in the open command buffer, for which its wait does not reach (tensor.py:160-191,
\* 248-303, 335-398; core/buffer.mm:75-85; core/device.mm:139-145).
THEOREM ReadsAreExpected == ArithSpec => []ReadsExpected
<1>1. ArithInv => ReadsExpected
  BY DEF ArithInv, ReadsExpected
<1> QED BY <1>1, ArithInvariant, PTL
===============================================================================
