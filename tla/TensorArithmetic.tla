---------------------------- MODULE TensorArithmetic ----------------------------
(***************************************************************************)
(* The operators of a Tensor (python/metal_native/tensor.py) and the       *)
(* layers of nn, over memory that is recycled and a GPU that runs behind.  *)
(*                                                                         *)
(* The host writes memory at once, the GPU when it comes to a command, in  *)
(* the order of the calls.  A buffer goes back to the allocator's free     *)
(* list when the last Python reference to it does, at which point commands *)
(* that use it may be waiting (core/buffer.mm:75-85); what is given back   *)
(* last is handed out first (module SmartAllocator).                       *)
(*                                                                         *)
(* In eager mode a command is submitted with its call; in lazy mode it may *)
(* stay in the open command buffer, and no read waits for it there.  When  *)
(* the operations reach the threshold of module CommandPipeline is left    *)
(* open here.                                                              *)
(*                                                                         *)
(* All tensors here fit one size class, four cells, and numbers are taken  *)
(* modulo 3.  Addition stands for multiplication, subtraction for division,*)
(* negation for the other functions of one operand, sum for mean and max.  *)
(***************************************************************************)
EXTENDS Integers, SequencesExt

CONSTANTS MaxTensors,      \* bound: tensors made
          Scalars,         \* numbers that stand on one side of an operator
          Inputs,          \* shapes of the tensors there are at the start, made from data
          Shapes,          \* shapes of those that are made later
          LazyModes        \* what the program gives set_lazy_commit()

ASSUME ArithmeticAssumption ==
  /\ MaxTensors \in Nat /\ Scalars \subseteq 0 .. 2
  /\ Inputs \in Seq({<<1>>, <<2>>, <<2, 2>>}) /\ Shapes \subseteq {<<1>>, <<2>>, <<2, 2>>}
  /\ LazyModes \subseteq BOOLEAN

VARIABLES
  blocks,     \* memory: the cells of each buffer
  pool,       \* buffers given back, the last one at the end
  values,     \* the tensors, in the order they were made
  commands,   \* encoded and not run yet
  lazy,       \* lazy_commit
  open,       \* how many of them, the last ones, are in the open command buffer
  misread,    \* history: the host has read what an exact tensor should not hold
  raced       \* history: the host wrote to a buffer that a waiting command uses, or read
              \* memory while commands had not been submitted

bufferVars == <<lazy, open>>
arithVars == <<blocks, pool, values, commands, bufferVars, misread, raced>>

Numbers3 == 0 .. 2
Block == [1 .. 4 -> Numbers3]
AllShapes == {<<>>, <<1>>, <<2>>, <<2, 2>>}
Numel(shape) == CASE Len(shape) = 0 -> 1
                  [] Len(shape) = 1 -> shape[1]
                  [] Len(shape) = 2 -> shape[1] * shape[2]

(* expect: the cells by the meaning of the operator that made the tensor; exact is    *)
(* FALSE if that is not known (empty()), or has been lost: see Binary.                *)
Value == [block : Nat, pooled : BOOLEAN, shape : AllShapes, dtype : {"float32", "int64"},
          expect : Seq(Numbers3), exact : BOOLEAN, live : BOOLEAN]
Command == [kernel : {"add", "sub", "neg", "sum", "matmul", "norm"}, a : Nat, b : Nat, out : Nat,
            shape : AllShapes, dim : 0 .. 1]

Live == {t \in DOMAIN values : values[t].live}
Floats == {t \in Live : values[t].dtype = "float32"}

-------------------------------------------------------------------------------
(* The kernels                                                                 *)

\* The cells of a row of two that i falls in, of a matrix and of its transposed.
Row(i) == (i - 1) \div 2
Col(i) == (i - 1) % 2

\* Where the element (o, r, i) of a reduction lies: outer, reduced and inner index.  There
\* are one or two to add.
SumOver(x, shape, dim) ==
  LET inner == Numel(SubSeq(shape, dim + 2, Len(shape)))
      outer == Numel(SubSeq(shape, 1, dim))
      size == shape[dim + 1]
      cell(k, r) == (((k - 1) \div inner) * size + r) * inner + ((k - 1) % inner) + 1
  IN [k \in 1 .. outer * inner |->
        IF size = 1 THEN x[cell(k, 0)] ELSE (x[cell(k, 0)] + x[cell(k, 1)]) % 3]

\* shape is that of the result, for a sum that of the operand.  add and sub read both
\* operands cell by cell, whatever their shapes (elementwise_kernels.metal:14-32).
Kernel(c, x, y) ==
  CASE c.kernel = "add" -> [i \in 1 .. Numel(c.shape) |-> (x[i] + y[i]) % 3]
    [] c.kernel = "sub" -> [i \in 1 .. Numel(c.shape) |-> (x[i] - y[i]) % 3]
    [] c.kernel = "neg" -> [i \in 1 .. Numel(c.shape) |-> (-x[i]) % 3]
    [] c.kernel = "sum" -> SumOver(x, c.shape, c.dim)
    [] c.kernel = "norm" -> [i \in 1 .. Numel(c.shape) |-> (x[i] * y[Col(i) + 1]) % 3]
    [] c.kernel = "matmul" ->          \* dim = 1: the second operand is transposed
         [i \in 1 .. 4 |-> LET row == 2 * Row(i) + 1
                               other(r) == IF c.dim = 1 THEN 2 * Col(i) + r ELSE 2 * (r - 1) + Col(i) + 1
                           IN (x[row] * y[other(1)] + x[row + 1] * y[other(2)]) % 3]

\* The buffers after a command.
Applied(c, bufs) ==
  LET made == Kernel(c, bufs[c.a], bufs[c.b])
  IN [bufs EXCEPT ![c.out] = [i \in 1 .. 4 |-> IF i \in DOMAIN made THEN made[i] ELSE @[i]]]

\* The GPU runs the next command that has been submitted.
RunCommand ==
  /\ commands # <<>> /\ Len(commands) > open
  /\ blocks' = Applied(Head(commands), blocks)
  /\ commands' = Tail(commands)
  /\ UNCHANGED <<pool, values, bufferVars, misread, raced>>

-------------------------------------------------------------------------------
(* Memory.  A call goes from one "mem", the buffers and the free list, to the  *)
(* next; what allocate() returns is the buffer "got".                          *)

Mem == [blocks |-> blocks, pool |-> pool]

Allocate(m) ==
  IF m.pool # <<>> THEN [blocks |-> m.blocks, pool |-> Front(m.pool), got |-> Last(m.pool)]
  ELSE [blocks |-> Append(m.blocks, [i \in 1 .. 4 |-> 0]), pool |-> <<>>, got |-> Len(m.blocks) + 1]

\* A buffer of its own, which never was in the free list.
NewBlock(m) == [blocks |-> Append(m.blocks, [i \in 1 .. 4 |-> 0]), pool |-> m.pool,
                got |-> Len(m.blocks) + 1]

GiveBack(m, block) == [m EXCEPT !.pool = Append(@, block)]

HostWrites(m, block, cells) ==
  [m EXCEPT !.blocks[block] = [i \in 1 .. 4 |-> IF i \in DOMAIN cells THEN cells[i] ELSE @[i]]]

\* Somebody is still going to read or to write the buffer.
InUse(block) == \E i \in DOMAIN commands : block \in {commands[i].a, commands[i].b, commands[i].out}

Becomes(m) == blocks' = m.blocks /\ pool' = m.pool

AddValue(v) == Len(values) < MaxTensors /\ values' = Append(values, v)

Float(block, pooled, shape, expect, exact) ==
  [block |-> block, pooled |-> pooled, shape |-> shape, dtype |-> "float32",
   expect |-> expect, exact |-> exact, live |-> TRUE]

Encode(kernel, a, b, out, shape, dim) ==
  [kernel |-> kernel, a |-> a, b |-> b, out |-> out, shape |-> shape, dim |-> dim]

\* commit_and_continue() after each of n commands: what is open is submitted, or stays.
Committed(n) == open' = 0 \/ (lazy /\ open' \in 1 .. n - 1 \cup {open + n})

set_lazy_commit(enable) ==
  /\ lazy' = enable
  /\ UNCHANGED <<blocks, pool, values, commands, open, misread, raced>>

\* MNDevice::synchronize() has returned: what was submitted is done.
Drained == Len(commands) = open

-------------------------------------------------------------------------------
(* Making tensors                                                              *)

Data(shape) == [i \in 1 .. Numel(shape) |-> i % 3]

ArithInit ==
  /\ blocks = [t \in DOMAIN Inputs |->
                 [i \in 1 .. 4 |-> IF i \in DOMAIN Data(Inputs[t]) THEN Data(Inputs[t])[i] ELSE 0]]
  /\ values = [t \in DOMAIN Inputs |-> Float(t, FALSE, Inputs[t], Data(Inputs[t]), TRUE)]
  /\ pool = <<>> /\ commands = <<>> /\ lazy = FALSE /\ open = 0
  /\ misread = FALSE /\ raced = FALSE

\* Tensor(data=...): memory of its own.
FromData(shape, dtype) ==
  LET m == NewBlock(Mem) IN
  /\ Becomes(HostWrites(m, m.got, Data(shape)))
  /\ AddValue([Float(m.got, FALSE, shape, Data(shape), TRUE) EXCEPT !.dtype = dtype])
  /\ UNCHANGED <<commands, bufferVars, misread, raced>>

\* zeros() and ones(): recycled memory that the host fills.
Full(shape, x) ==
  LET m == Allocate(Mem)
      cells == [i \in 1 .. Numel(shape) |-> x]
  IN
  /\ Becomes(HostWrites(m, m.got, cells))
  /\ raced' = (raced \/ InUse(m.got))
  /\ AddValue(Float(m.got, TRUE, shape, cells, TRUE))
  /\ UNCHANGED <<commands, bufferVars, misread>>

empty(shape) ==
  LET m == Allocate(Mem) IN
  /\ Becomes(m)
  /\ AddValue(Float(m.got, TRUE, shape, SubSeq(m.blocks[m.got], 1, Numel(shape)), FALSE))
  /\ UNCHANGED <<commands, bufferVars, misread, raced>>

\* The last reference to a tensor goes away.
DropTensor(t) ==
  /\ values' = [values EXCEPT ![t] = [Float(0, FALSE, <<>>, <<0>>, FALSE) EXCEPT !.live = FALSE]]
  /\ pool' = IF values[t].pooled THEN Append(pool, values[t].block) ELSE pool
  /\ UNCHANGED <<blocks, commands, bufferVars, misread, raced>>

-------------------------------------------------------------------------------
(* Operators                                                                   *)

\* "broadcast_with": the shapes here differ in their leading dimensions only.
Broadcast(s, r) == IF Numel(s) > Numel(r) \/ (Numel(s) = Numel(r) /\ Len(s) > Len(r)) THEN s ELSE r

\* The element of an operand that belongs to cell i of the result.
Stretched(cells, i) == cells[((i - 1) % Len(cells)) + 1]

Meant(kernel, x, y, shape) ==
  [i \in 1 .. Numel(shape) |->
     IF kernel = "add" THEN (Stretched(x, i) + Stretched(y, i)) % 3
     ELSE (Stretched(x, i) - Stretched(y, i)) % 3]

\* Tensor with Tensor.  The kernels do not repeat a smaller operand: its buffer is read
\* past its elements.
Binary(kernel, s, t) ==
  LET x == values[s]
      y == values[t]
      shape == Broadcast(x.shape, y.shape)
      m == Allocate(Mem)
  IN
  /\ Becomes(m)
  /\ commands' = Append(commands, Encode(kernel, x.block, y.block, m.got, shape, 0))
  /\ AddValue(Float(m.got, TRUE, shape, Meant(kernel, x.expect, y.expect, shape),
                    x.exact /\ y.exact /\ Len(x.expect) = Len(y.expect)))
  /\ Committed(1)
  /\ UNCHANGED <<lazy, misread, raced>>

\* A dtype that has no kernel is found out after the result has its memory.
BinaryThrows(s, t) ==
  /\ values[s].dtype = "int64" /\ values[t].dtype = "int64"
  /\ Becomes(GiveBack(Allocate(Mem), Allocate(Mem).got))
  /\ UNCHANGED <<values, commands, bufferVars, misread, raced>>

\* A number on the right, or with swap on the left (__rsub__; __radd__ is __add__): a
\* tensor of one element, filled by the host, which is gone when the call returns.
Scalar(kernel, t, x, swap) ==
  LET s == Allocate(Mem)
      filled == HostWrites(s, s.got, <<x>>)
      m == Allocate(filled)
      v == values[t]
      shape == Broadcast(v.shape, <<1>>)
      expect == IF swap THEN Meant(kernel, <<x>>, v.expect, shape)
                        ELSE Meant(kernel, v.expect, <<x>>, shape)
  IN
  /\ Becomes(GiveBack(m, s.got))
  /\ raced' = (raced \/ InUse(s.got))
  /\ commands' = Append(commands, Encode(kernel, IF swap THEN s.got ELSE v.block,
                                         IF swap THEN v.block ELSE s.got, m.got, shape, 0))
  /\ AddValue(Float(m.got, TRUE, shape, expect, v.exact /\ Len(v.expect) = 1))
  /\ Committed(1)
  /\ UNCHANGED <<lazy, misread>>

\* __neg__, exp, log, sqrt, abs, relu (a clamp), softmax.
Unary(t) ==
  LET v == values[t]
      m == Allocate(Mem)
  IN
  /\ Becomes(m)
  /\ commands' = Append(commands, Encode("neg", v.block, v.block, m.got, v.shape, 0))
  /\ AddValue(Float(m.got, TRUE, v.shape, [i \in DOMAIN v.expect |-> (-v.expect[i]) % 3], v.exact))
  /\ Committed(1)
  /\ UNCHANGED <<lazy, misread, raced>>

\* GELU and SiLU: as in Read the GPU is waited for, numpy() is computed with on the host, and the
\* result has memory of its own.
Activation(t) ==
  LET v == values[t]
      m == NewBlock(Mem)
      minus(cells) == [i \in DOMAIN v.expect |-> (-cells[i]) % 3]
  IN
  /\ Drained
  /\ Becomes(HostWrites(m, m.got, minus(blocks[v.block])))
  /\ AddValue(Float(m.got, FALSE, v.shape, minus(v.expect), v.exact))
  /\ raced' = (raced \/ open > 0)
  /\ UNCHANGED <<commands, bufferVars, misread>>

WithoutDim(shape, dim) == SubSeq(shape, 1, dim) \o SubSeq(shape, dim + 2, Len(shape))

\* sum(dim)
Reduce(t, dim) ==
  LET v == values[t]
      m == Allocate(Mem)
  IN
  /\ dim < Len(v.shape)
  /\ Becomes(m)
  /\ commands' = Append(commands, Encode("sum", v.block, v.block, m.got, v.shape, dim))
  /\ AddValue(Float(m.got, TRUE, WithoutDim(v.shape, dim), SumOver(v.expect, v.shape, dim), v.exact))
  /\ Committed(1)
  /\ UNCHANGED <<lazy, misread, raced>>

\* The sum of one, two or four numbers.
Total(x) == CASE Len(x) = 1 -> x[1]
              [] Len(x) = 2 -> (x[1] + x[2]) % 3
              [] Len(x) = 4 -> (x[1] + x[2] + x[3] + x[4]) % 3

\* sum() of all elements goes through the dimensions from the last to the first; each
\* result is dropped when the next one has been asked for.
ReduceAll(t) ==
  LET v == values[t]
      first == Allocate(Mem)
      second == Allocate(first)
      one == Encode("sum", v.block, v.block, first.got, v.shape, Len(v.shape) - 1)
      total == <<Total(v.expect)>>
  IN
  /\ IF Len(v.shape) = 1
       THEN /\ Becomes(first)
            /\ commands' = Append(commands, one) /\ Committed(1)
            /\ AddValue(Float(first.got, TRUE, <<>>, total, v.exact))
       ELSE /\ Len(v.shape) = 2
            /\ Becomes(GiveBack(second, first.got))
            /\ commands' = commands \o <<one, Encode("sum", first.got, first.got, second.got, <<2>>, 0)>>
            /\ Committed(2)
            /\ AddValue(Float(second.got, TRUE, <<>>, total, v.exact))
  /\ UNCHANGED <<lazy, misread, raced>>

-------------------------------------------------------------------------------
(* Products and layers                                                         *)

Product(x, y, transposed) ==
  Kernel(Encode("matmul", 0, 0, 0, <<2, 2>>, IF transposed THEN 1 ELSE 0), x, y)

\* __matmul__
MatMul(s, t) ==
  LET m == Allocate(Mem) IN
  /\ Becomes(m)
  /\ commands' = Append(commands, Encode("matmul", values[s].block, values[t].block, m.got, <<2, 2>>, 0))
  /\ AddValue(Float(m.got, TRUE, <<2, 2>>, Product(values[s].expect, values[t].expect, FALSE),
                    values[s].exact /\ values[t].exact))
  /\ Committed(1)
  /\ UNCHANGED <<lazy, misread, raced>>

\* Linear: the product with the transposed weight, and the bias, which has the shape of
\* one row, added with "+"; the product is dropped then.
Linear(x, w, b) ==
  LET first == Allocate(Mem)
      second == Allocate(first)
      product == Product(values[x].expect, values[w].expect, TRUE)
  IN
  /\ Becomes(GiveBack(second, first.got))
  /\ commands' = commands \o
       <<Encode("matmul", values[x].block, values[w].block, first.got, <<2, 2>>, 1),
         Encode("add", first.got, values[b].block, second.got, <<2, 2>>, 0)>>
  /\ AddValue(Float(second.got, TRUE, <<2, 2>>, Meant("add", product, values[b].expect, <<2, 2>>), FALSE))
  /\ Committed(2)
  /\ UNCHANGED <<lazy, misread, raced>>

\* RMSNorm and LayerNorm: a kernel that does repeat the weight, row by row.
Norm(x, w) ==
  LET m == Allocate(Mem) IN
  /\ Becomes(m)
  /\ commands' = Append(commands, Encode("norm", values[x].block, values[w].block, m.got, <<2, 2>>, 0))
  /\ AddValue(Float(m.got, TRUE, <<2, 2>>,
                    [i \in 1 .. 4 |-> (values[x].expect[i] * values[w].expect[Col(i) + 1]) % 3],
                    values[x].exact /\ values[w].exact))
  /\ Committed(1)
  /\ UNCHANGED <<lazy, misread, raced>>

-------------------------------------------------------------------------------
(* Reading                                                                     *)

Shows(t) ==
  LET v == values[t] IN
  /\ misread' = (misread \/ (v.exact /\ v.expect # SubSeq(blocks[v.block], 1, Numel(v.shape))))
  /\ raced' = (raced \/ open > 0)
  /\ UNCHANGED <<blocks, pool, values, commands, bufferVars>>

\* Mutant of Read: the GPU is not waited for.
ReadAtOnce(t) == Shows(t)

\* item() of one element, numpy(): the binding waits for what has been submitted.
Read(t) == Drained /\ Shows(t)

WithShape(shape) == {t \in Floats : values[t].shape = shape}

ArithNext ==
  \/ RunCommand \/ \E enable \in LazyModes : set_lazy_commit(enable)
  \/ \E shape \in Shapes : \/ \E dtype \in {"float32", "int64"} : FromData(shape, dtype)
                           \/ \E x \in {0, 1} : Full(shape, x)
                           \/ empty(shape)
  \/ \E t \in Live : DropTensor(t) \/ Read(t) \/ BinaryThrows(t, t)
  \/ \E t \in Floats :
       \/ Unary(t) \/ Activation(t) \/ ReduceAll(t) \/ \E dim \in 0 .. 1 : Reduce(t, dim)
       \/ \E kernel \in {"add", "sub"}, x \in Scalars :
            Scalar(kernel, t, x, FALSE) \/ (kernel = "sub" /\ Scalar(kernel, t, x, TRUE))
       \/ \E s \in Floats, kernel \in {"add", "sub"} : Binary(kernel, s, t)
  \/ \E x, w \in WithShape(<<2, 2>>) : MatMul(x, w) \/ \E b \in WithShape(<<2>>) : Linear(x, w, b)
  \/ \E x \in WithShape(<<2, 2>>), w \in WithShape(<<2>>) : Norm(x, w)

ArithSpec == ArithInit /\ [][ArithNext]_arithVars

-------------------------------------------------------------------------------
(* Properties                                                                  *)

ArithTypeOK ==
  /\ blocks \in Seq(Block) /\ pool \in Seq(DOMAIN blocks)
  /\ values \in Seq(Value) /\ commands \in Seq(Command)
  /\ lazy \in BOOLEAN /\ open \in 0 .. Len(commands)
  /\ raced \in BOOLEAN /\ misread \in BOOLEAN
  /\ \A t \in DOMAIN values : Len(values[t].expect) = Numel(values[t].shape)
  /\ \A t \in Live : values[t].block \in DOMAIN blocks

\* What the program reads is what the operators it called mean, however far behind the
\* GPU is and whatever temporaries have been recycled under its commands meanwhile:
\* commands run in order, so the GPU's own writes come after the reads.  It needs operands
\* of one size, that the host has not written to a buffer under a waiting command, and
\* that it has not read while commands were in the open command buffer, which the wait
\* of a read does not reach; a program that never enters lazy mode has none there
\* (tensor.py:160-191, 248-303, 335-398; buffer.mm:75-85; device.mm:139-145).
ReadsExpected ==
  ~raced => ~misread

\* "Safe because command buffer ordering already manages read/write dependencies"
\* (buffer.mm:56): the same, whoever wrote.
OrderingSuffices ==
  ~misread
===============================================================================
