----------------------------- MODULE TensorExchange -----------------------------
(***************************************************************************)
(* What goes in and out of a tensor (python/metal_native/tensor.py,        *)
(* interop.py, accelerate_plugin.py, with the bindings they call): which   *)
(* memory an object names, how it reads it, and how long it is there.      *)
(*                                                                         *)
(* Everything is a matrix of 2 x 2, and memory a sequence of 16-bit words. *)
(* An array of the host is row-major ("C") or transposed ("T"); a tensor   *)
(* of this package is row-major.  float32 is two words of a number; those  *)
(* of bfloat16 are the high words of float32.  The integers are like one   *)
(* of the two floats of their width, and other widths behave alike.        *)
(***************************************************************************)
EXTENDS Integers, Sequences

CONSTANTS Sources,                  \* kinds and dtypes of the arrays the program makes
          Requested,                \* dtypes it asks for
          MaxArrays, MaxExchanged,    \* bounds: objects made
          MaxCalls                  \* bound: calls of the package

Cells == 1 .. 4
Transposed == <<1, 3, 2, 4>>        \* the cell in memory, by cell of the matrix
Numbers == Cells \cup {9}           \* 9 is what somebody writes later
Garbage == 0
Word == (Numbers \cup {Garbage}) \X {"low", "high", "half", "gone"}

AllDTypes == {"float32", "float16", "bfloat16"}

\* numpy has no bfloat16.
ASSUME ExchangeAssumption ==
  /\ Sources \subseteq {"numpy", "torch", "mps"} \X AllDTypes
  /\ \A s \in Sources : s[1] = "numpy" => s[2] # "bfloat16"
  /\ Requested \subseteq AllDTypes
  /\ MaxArrays \in Nat /\ MaxExchanged \in Nat /\ MaxCalls \in Nat

VARIABLES
  memory,     \* the buffers, by number
  arrays,     \* numpy arrays and torch tensors, in the order they were made
  tensors,    \* tensors of this package, in the order they were made
  calls

exchangeVars == <<memory, arrays, tensors, calls>>

(* An object names a buffer.  Objects of one family are documented to share memory.   *)
(* An array may have been dropped by the program.  A tensor has what Python cached of *)
(* its shape and dtype; borrowed says that it does not keep its memory; history: the  *)
(* matrix its source held when it was copied from it (until it is written to), and    *)
(* whether the source was transposed, or bfloat16 was asked for.                      *)
Array == [kind : {"numpy", "torch", "mps"}, buf : Nat, layout : {"C", "T"}, dtype : AllDTypes,
          family : Nat, borrowed : BOOLEAN, dropped : BOOLEAN]
Tensor == [buf : Nat, dtype : AllDTypes, cells : {"2x2", "4"}, cached_shape : {"None", "2x2", "4", "-1"},
           cached_dtype : AllDTypes \cup {"None"}, family : Nat, borrowed : BOOLEAN,
           source : Seq(Numbers \cup {Garbage}), strided : BOOLEAN, bf16 : BOOLEAN]

ExchangeInit == memory = <<>> /\ arrays = <<>> /\ tensors = <<>> /\ calls = 0

-------------------------------------------------------------------------------
(* Memory                                                                      *)

Width(dtype) == IF dtype = "float32" THEN 2 ELSE 1

\* The words of the number x.
NumberWords(dtype, x) == CASE dtype = "float32"  -> <<<<x, "low">>, <<x, "high">>>>
                      [] dtype = "bfloat16" -> <<<<x, "high">>>>
                      [] dtype = "float16"  -> <<<<x, "half">>>>

\* A matrix in memory, row by row, from the words of its cells.
Matrix(dtype, cells) ==
  [i \in 1 .. 4 * Width(dtype) |->
     cells[((i - 1) \div Width(dtype)) + 1][((i - 1) % Width(dtype)) + 1]]

Encoded(dtype, cells) == Matrix(dtype, [k \in Cells |-> NumberWords(dtype, cells[k])])

\* The words of a cell, and the number in it where they are those of one.
CellWords(dtype, words, cell) ==
  [j \in 1 .. Width(dtype) |-> words[Width(dtype) * (cell - 1) + j]]
Decode(dtype, words, cell) ==
  LET cw == CellWords(dtype, words, cell) IN IF cw = NumberWords(dtype, cw[1][1]) THEN cw[1][1] ELSE Garbage

\* The cells of a transposed array, row by row.
RowMajor(dtype, words) == Matrix(dtype, [k \in Cells |-> CellWords(dtype, words, Transposed[k])])

Kept(buf) ==
  \/ \E a \in DOMAIN arrays : arrays[a].buf = buf /\ ~arrays[a].borrowed /\ ~arrays[a].dropped
  \/ \E t \in DOMAIN tensors : tensors[t].buf = buf /\ ~tensors[t].borrowed

\* Memory that is gone holds anything.
Words(buf) == IF Kept(buf) THEN memory[buf] ELSE [i \in 1 .. 8 |-> <<Garbage, "gone">>]

ArrayWords(a) == IF arrays[a].layout = "C" THEN Words(arrays[a].buf)
                 ELSE RowMajor(arrays[a].dtype, Words(arrays[a].buf))
ArrayMatrix(a) == [k \in Cells |-> Decode(arrays[a].dtype, ArrayWords(a), k)]
TensorMatrix(t) == [k \in Cells |-> Decode(tensors[t].dtype, Words(tensors[t].buf), k)]

NewFamily == Len(arrays) + Len(tensors) + 1

-------------------------------------------------------------------------------
(* The program around the package                                              *)

AddArray(kind, buf, layout, dtype, family, borrowed) ==
  /\ Len(arrays) < MaxArrays
  /\ arrays' = Append(arrays, [kind |-> kind, buf |-> buf, layout |-> layout, dtype |-> dtype,
                               family |-> family, borrowed |-> borrowed, dropped |-> FALSE])

NewArray(kind, dtype) ==
  /\ memory' = Append(memory, Encoded(dtype, <<1, 2, 3, 4>>))
  /\ AddArray(kind, Len(memory) + 1, "C", dtype, NewFamily, FALSE)
  /\ UNCHANGED <<tensors, calls>>

Held == {a \in DOMAIN arrays : ~arrays[a].dropped /\ (arrays[a].borrowed => Kept(arrays[a].buf))}

\* x.T
TransposeView(a) ==
  /\ AddArray(arrays[a].kind, arrays[a].buf, IF arrays[a].layout = "C" THEN "T" ELSE "C",
              arrays[a].dtype, arrays[a].family, arrays[a].borrowed)
  /\ UNCHANGED <<memory, tensors, calls>>

Drop(a) == /\ arrays' = [arrays EXCEPT ![a].dropped = TRUE]
           /\ UNCHANGED <<memory, tensors, calls>>

\* x[0, 1] = 9: what is documented to share the memory is no copy any more.
Write(a) ==
  LET x == arrays[a]
      first == Width(x.dtype) * ((IF x.layout = "C" THEN 2 ELSE 3) - 1)
  IN
  /\ memory' = [memory EXCEPT ![x.buf] =
                  [i \in DOMAIN @ |-> IF i \in first + 1 .. first + Width(x.dtype)
                                     THEN NumberWords(x.dtype, 9)[i - first] ELSE @[i]]]
  /\ tensors' = [t \in DOMAIN tensors |->
                   IF tensors[t].family = arrays[a].family
                   THEN [tensors[t] EXCEPT !.source = <<>>] ELSE tensors[t]]
  /\ UNCHANGED <<arrays, calls>>

-------------------------------------------------------------------------------
(* Making tensors                                                              *)

Call == calls < MaxCalls /\ calls' = calls + 1

AddTensor(t) == Len(tensors) < MaxExchanged /\ tensors' = Append(tensors, t)

\* A tensor from a native handle: shape and dtype are asked for when needed.
FromHandle(buf, dtype, cells, family, borrowed) ==
  [buf |-> buf, dtype |-> dtype, cells |-> cells, cached_shape |-> "None",
   cached_dtype |-> "None", family |-> family, borrowed |-> borrowed,
   source |-> <<>>, strided |-> FALSE, bf16 |-> dtype = "bfloat16"]

\* _C.tensor_from_numpy(): so many bytes from the first one, whatever the strides.
FromNumpy(words, dtype) == [i \in 1 .. 4 * Width(dtype) |-> words[i]]

\* astype() keeps the order of the elements in memory; bfloat16 is left to the binding.
\* A reshape() that changes the shape makes a transposed array row-major.
Prepared(a, dtype, shape) ==
  LET raw == IF shape = "None" THEN Words(arrays[a].buf) ELSE ArrayWords(a)
  IN IF dtype \in {"None", "bfloat16"} THEN raw
     ELSE Encoded(dtype, [k \in Cells |-> Decode(arrays[a].dtype, raw, k)])

\* Mutant of Constructed: the shape cached for a reshaped tensor is that of the data.
ConstructedStale(a, dtype, shape) ==
  LET native == IF dtype = "None" THEN arrays[a].dtype ELSE dtype IN
  [FromHandle(Len(memory) + 1, native, IF shape = "None" THEN "2x2" ELSE "4", NewFamily, FALSE)
     EXCEPT !.cached_shape = "2x2", !.cached_dtype = native,
            !.source = ArrayMatrix(a), !.bf16 = "bfloat16" \in {dtype, arrays[a].dtype},
            !.strided = shape = "None" /\ arrays[a].layout = "T"]

Constructed(a, dtype, shape) ==
  LET native == IF dtype = "None" THEN arrays[a].dtype ELSE dtype IN
  [FromHandle(Len(memory) + 1, native, IF shape = "None" THEN "2x2" ELSE "4", NewFamily, FALSE)
     EXCEPT !.cached_shape = shape, !.cached_dtype = native,
            !.source = ArrayMatrix(a), !.bf16 = "bfloat16" \in {dtype, arrays[a].dtype},
            !.strided = shape = "None" /\ arrays[a].layout = "T"]

\* Mutant of Construct: the array's own memory is taken.
ConstructShares(a, dtype, shape) ==
  /\ Call /\ arrays[a].kind = "numpy" /\ dtype = "None"
  /\ AddTensor([Constructed(a, dtype, shape) EXCEPT !.buf = arrays[a].buf])
  /\ UNCHANGED <<arrays, memory>>

\* Tensor(data=array), tensor() and from_numpy(); a shape of -1 is cached as it is.
Construct(a, dtype, shape) ==
  /\ Call /\ arrays[a].kind = "numpy"
  /\ memory' = Append(memory, FromNumpy(Prepared(a, dtype, shape),
                                        IF dtype = "None" THEN arrays[a].dtype ELSE dtype))
  /\ AddTensor(Constructed(a, dtype, shape))
  /\ UNCHANGED arrays

\* What numpy() says of the words of a tensor: bfloat16 is shown as float16.
Shown(t) == IF tensors[t].dtype = "bfloat16" THEN "float16" ELSE tensors[t].dtype

\* A tensor with the given words, from numpy data that is row-major.
NewTensor(words, dtype) ==
  /\ memory' = Append(memory, words)
  /\ AddTensor([FromHandle(Len(memory) + 1, dtype, "2x2", NewFamily, FALSE)
                  EXCEPT !.cached_dtype = dtype])
  /\ UNCHANGED arrays

\* Tensor(data=t): the dtype is inferred from numpy().
CopyTensor(t) == Call /\ NewTensor(FromNumpy(Words(tensors[t].buf), Shown(t)), Shown(t))

\* transpose(): a copy of numpy()'s transposed view, with the tensor's own dtype.
transpose(t) ==
  /\ Call /\ tensors[t].cells = "2x2"
  /\ NewTensor(RowMajor(tensors[t].dtype, Words(tensors[t].buf)), tensors[t].dtype)

\* zeros(), and an operation of _C, whose result is a new buffer; GELU and SiLU go
\* through numpy(), and what they make has the dtype shown.
Compute(dtype) ==
  /\ Call
  /\ memory' = Append(memory, Encoded(dtype, <<9, 9, 9, 9>>))
  /\ AddTensor(FromHandle(Len(memory) + 1, dtype, "2x2", NewFamily, FALSE))
  /\ UNCHANGED arrays

\* reshape() and view(): the same buffer; contiguous() returns the tensor itself.
reshape(t) ==
  /\ Call
  /\ AddTensor([FromHandle(tensors[t].buf, tensors[t].dtype, "4", tensors[t].family, tensors[t].borrowed)
                  EXCEPT !.bf16 = tensors[t].bf16])
  /\ UNCHANGED <<memory, arrays>>

\* The properties shape and dtype: what is cached, else what _C says.
Shape(t) == IF tensors[t].cached_shape = "None" THEN tensors[t].cells ELSE tensors[t].cached_shape
DType(t) == IF tensors[t].cached_dtype = "None" THEN tensors[t].dtype ELSE tensors[t].cached_dtype

-------------------------------------------------------------------------------
(* numpy(), to_torch(), from_torch(), prepare_model()                          *)

\* numpy(): a writable view that keeps the tensor; torch.from_numpy() keeps it in turn.
Export(t, kind) ==
  /\ Call
  /\ AddArray(kind, tensors[t].buf, "C", Shown(t), tensors[t].family, tensors[t].borrowed)
  /\ UNCHANGED <<memory, tensors>>

\* A torch tensor on the CPU: _C.tensor_from_dlpack() is a stub that throws, so it is a
\* copy through numpy(), which has no bfloat16.
FromTorch(a) ==
  /\ Call /\ arrays[a].kind = "torch" /\ arrays[a].dtype # "bfloat16"
  /\ memory' = Append(memory, FromNumpy(Prepared(a, "None", "None"), arrays[a].dtype))
  /\ AddTensor(Constructed(a, "None", "None"))
  /\ UNCHANGED arrays

\* On the MPS device: the memory itself, or that of the row-major copy contiguous()
\* makes of a transposed tensor, which nobody keeps when from_torch() returns.
FromMps(a) ==
  /\ Call /\ arrays[a].kind = "mps"
  /\ IF arrays[a].layout = "C"
     THEN /\ AddTensor(FromHandle(arrays[a].buf, arrays[a].dtype, "2x2", arrays[a].family, TRUE))
          /\ UNCHANGED <<memory, arrays>>
     ELSE /\ memory' = Append(memory, ArrayWords(a))
          /\ AddTensor(FromHandle(Len(memory) + 1, arrays[a].dtype, "2x2", NewFamily, TRUE))
          /\ UNCHANGED arrays

\* The binding refuses the pointer: a buffer of our own, filled by PyTorch in the
\* order of the matrix, or copied from the CPU where numpy has no such dtype.
FromMpsCopied(a) ==
  /\ Call /\ arrays[a].kind = "mps"
  /\ memory' = Append(memory, ArrayWords(a))
  /\ AddTensor([FromHandle(Len(memory) + 1, arrays[a].dtype, "2x2", NewFamily, FALSE)
                  EXCEPT !.source = ArrayMatrix(a)])
  /\ UNCHANGED arrays

\* The parameters of a model one after the other, until one has no numpy(): each gets
\* the memory of a tensor that nobody else keeps.  (The numbers of the other arrays'
\* turns go unused.)
ModelParams == {a \in Held : arrays[a].kind = "torch"}
Converted == {a \in ModelParams : \A b \in ModelParams : b <= a => arrays[b].dtype # "bfloat16"}

\* Mutant of Ported: the other order is assumed.
PortedAsTransposed(a) == RowMajor(arrays[a].dtype, Words(arrays[a].buf))

\* from_torch() and to_torch() of a parameter's data.
Ported(a) == FromNumpy(Prepared(a, "None", "None"), arrays[a].dtype)

prepare_model ==
  /\ Call /\ Converted # {}
  /\ memory' = memory \o [a \in DOMAIN arrays |-> IF a \in Converted THEN Ported(a) ELSE <<>>]
  /\ arrays' = [a \in DOMAIN arrays |->
                  IF a \in Converted
                  THEN [arrays[a] EXCEPT !.buf = Len(memory) + a, !.layout = "C",
                                         !.family = MaxArrays + MaxExchanged + Len(memory) + a,
                                         !.borrowed = FALSE]
                  ELSE arrays[a]]
  /\ UNCHANGED tensors

ExchangeNext ==
  \/ \E s \in Sources : NewArray(s[1], s[2])
  \/ \E a \in Held : \/ TransposeView(a) \/ Drop(a) \/ Write(a)
                     \/ \E dtype \in Requested \cup {"None"}, shape \in {"None", "4", "-1"} :
                          Construct(a, dtype, shape)
                     \/ FromTorch(a) \/ FromMps(a) \/ FromMpsCopied(a)
  \/ \E t \in DOMAIN tensors :
       \/ CopyTensor(t) \/ transpose(t) \/ reshape(t)
       \/ \E kind \in {"numpy", "torch"} : Export(t, kind)
  \/ \E dtype \in Requested : Compute(dtype)
  \/ prepare_model

ExchangeSpec == ExchangeInit /\ [][ExchangeNext]_exchangeVars

-------------------------------------------------------------------------------
(* Properties                                                                  *)

\* The buffer an object names has room for its cells.
Sized(o) == o.buf \in DOMAIN memory /\ Len(memory[o.buf]) = 4 * Width(o.dtype)

ExchangeTypeOK ==
  /\ memory \in Seq(Seq(Word)) /\ calls \in 0 .. MaxCalls
  /\ arrays \in Seq(Array) /\ \A a \in DOMAIN arrays : Sized(arrays[a])
  /\ tensors \in Seq(Tensor) /\ \A t \in DOMAIN tensors : Sized(tensors[t])

\* A tensor that was copied goes on holding what its source held, whatever is written
\* to or becomes of the source and of the other tensors, if the source was row-major
\* and bfloat16 has no part in it (tensor.py:77-104, interop.py:87-117, 133-135).
CopiesHold ==
  \A t \in DOMAIN tensors :
    tensors[t].source # <<>> /\ ~tensors[t].strided /\ ~tensors[t].bf16
      => TensorMatrix(t) = tensors[t].source

\* "Tensor with data copied from the array" (tensor.py:549), in whatever order the
\* array has its elements in memory.
SourceKept ==
  \A t \in DOMAIN tensors :
    tensors[t].source # <<>> /\ ~tensors[t].bf16 => TensorMatrix(t) = tensors[t].source

\* The shape and the dtype that Python reports are those of the native tensor, whichever
\* of the two it has cached, unless the caller gave the shape -1 (tensor.py:62-133).
MetadataAgrees ==
  \A t \in DOMAIN tensors :
    Shape(t) \in {tensors[t].cells, "-1"} /\ DType(t) = tensors[t].dtype

\* prepare_model() changes the memory of the parameters, never a value of one that is
\* row-major, and when a parameter stops it half-way the others are as they were
\* (accelerate_plugin.py:84-98).
ModelKeepsValues ==
  [][prepare_model => \A a \in Held : arrays[a].layout = "C" => ArrayMatrix(a)' = ArrayMatrix(a)]_exchangeVars
===============================================================================
