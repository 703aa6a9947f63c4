-------------------------------- MODULE KVCache --------------------------------
(***************************************************************************)
(* KVCache (memory/kv_cache.mm): one pair of Metal buffers per layer, all  *)
(* of the same capacity, and one sequence length shared by the layers.     *)
(* Every method holds the mutex and encodes its copies in order, so it is  *)
(* one step.  Keys and values go through every method alike: a row stands  *)
(* for both.                                                               *)
(*                                                                         *)
(* One thread generates: a forward pass takes a chunk of positions through *)
(* the layers, appending them to a layer before it attends to that layer   *)
(* (ops/attention.mm).  Anyone may resize() between its calls.             *)
(***************************************************************************)
EXTENDS Integers, Sequences

CONSTANTS NumLayers,   \* config.num_layers
          MaxSeqLen,   \* config.max_seq_len
          NewSizes,    \* arguments of resize()
          Chunks,      \* positions in a forward pass: a prompt, or one
          MaxTokens    \* bound: positions begun in all

ASSUME KVAssumption ==
  /\ NumLayers \in Nat \ {0} /\ MaxSeqLen \in Nat \ {0}
  /\ NewSizes \subseteq Nat /\ Chunks \subseteq Nat \ {0} /\ MaxTokens \in Nat

Layers == 1 .. NumLayers

VARIABLES
  rows,                 \* by layer: the tokens in its buffers; 0 is no token
  current_seq_len,
  actual_max_seq_len,
  len,                  \* positions that passes before this one have finished
  chunk, layer, done,   \* the pass: its positions, its layer, those appended to it;
                        \* no pass when chunk is 0
  base,                 \* tokens begun in earlier generations
  refused,              \* an append() has thrown: only a reset() goes on
  broken,               \* history: a resize() failed half-way and none succeeded since
  overrun               \* history: a copy went beyond the end of a buffer

cacheVars == <<rows, current_seq_len, actual_max_seq_len>>
passVars == <<len, chunk, layer, done, base, refused>>
vars == <<cacheVars, passVars, broken, overrun>>

TypeOK ==
  /\ rows \in [Layers -> Seq(Nat)]
  /\ current_seq_len \in Nat /\ actual_max_seq_len \in 1 .. MaxSeqLen
  /\ len \in Nat /\ chunk \in Chunks \cup {0} /\ layer \in Layers /\ done \in 0 .. chunk
  /\ base \in Nat /\ refused \in BOOLEAN /\ broken \in BOOLEAN /\ overrun \in BOOLEAN

\* The budget may grant any number of positions down to one.
Init ==
  /\ actual_max_seq_len \in 1 .. MaxSeqLen
  /\ rows = [l \in Layers |-> [p \in 1 .. actual_max_seq_len |-> 0]]
  /\ current_seq_len = 0
  /\ len = 0 /\ chunk = 0 /\ layer = 1 /\ done = 0 /\ base = 0
  /\ refused = FALSE /\ broken = FALSE /\ overrun = FALSE

Larger(a, b) == IF a >= b THEN a ELSE b

\* The position being appended, counted from 0 as in the code, and its token.
position == len + done
Token(p) == base + p + 1

-------------------------------------------------------------------------------
(* The forward pass                                                            *)

BeginPass(k) ==
  /\ chunk = 0 /\ ~refused
  /\ base + len + k <= MaxTokens
  /\ chunk' = k /\ layer' = 1 /\ done' = 0
  /\ UNCHANGED <<cacheVars, len, base, refused, broken, overrun>>

Appending == chunk > 0 /\ done < chunk /\ ~refused

\* Mutant of Accepts: off by one.
AcceptsOneMore == position <= actual_max_seq_len

Accepts == position < actual_max_seq_len

\* Mutant of Grown: the length is counted with the last layer.
GrownLast == IF layer = NumLayers THEN Larger(current_seq_len, position + 1) ELSE current_seq_len

Grown == Larger(current_seq_len, position + 1)

append ==
  /\ Appending /\ Accepts
  /\ rows' = [l \in Layers |->
                [p \in DOMAIN rows[l] |-> IF l = layer /\ p = position + 1
                                          THEN Token(position) ELSE rows[l][p]]]
  /\ overrun' = (overrun \/ position >= Len(rows[layer]))
  /\ current_seq_len' = Grown
  /\ done' = done + 1
  /\ UNCHANGED <<actual_max_seq_len, len, chunk, layer, base, refused, broken>>

\* "position exceeds max_seq_len"
AppendRefused ==
  /\ Appending /\ ~Accepts
  /\ refused' = TRUE
  /\ UNCHANGED <<cacheVars, len, chunk, layer, done, base, broken, overrun>>

Attending == chunk > 0 /\ done = chunk

\* get_key() and get_value() of the layer: they change nothing.
Get == [p \in 1 .. current_seq_len |-> IF p <= Len(rows[layer]) THEN rows[layer][p] ELSE 0]

NextLayer ==
  /\ Attending /\ layer < NumLayers
  /\ layer' = layer + 1 /\ done' = 0
  /\ UNCHANGED <<cacheVars, len, chunk, base, refused, broken, overrun>>

EndPass ==
  /\ Attending /\ layer = NumLayers
  /\ len' = len + chunk /\ chunk' = 0 /\ layer' = 1 /\ done' = 0
  /\ UNCHANGED <<cacheVars, base, refused, broken, overrun>>

\* A new generation, whatever has become of the last one.
reset ==
  /\ current_seq_len' = 0
  /\ base' = base + len + chunk
  /\ len' = 0 /\ chunk' = 0 /\ layer' = 1 /\ done' = 0 /\ refused' = FALSE
  /\ UNCHANGED <<rows, actual_max_seq_len, broken, overrun>>

-------------------------------------------------------------------------------
(* resize()                                                                    *)

\* Mutant of Target: not clamped to the data.
TargetUnclamped(n) == n

Target(n) == Larger(n, current_seq_len)

\* The new buffers of a layer, with what is copied into them.
Copied(l, n) ==
  [p \in 1 .. Target(n) |-> IF p <= current_seq_len /\ p <= Len(rows[l]) THEN rows[l][p] ELSE 0]

\* The early return, and Metal, which has no buffer of length 0.
Shrinks(n) == n \in NewSizes /\ n < actual_max_seq_len /\ Target(n) > 0

resize(n) ==
  /\ Shrinks(n)
  /\ rows' = [l \in Layers |-> Copied(l, n)]
  /\ overrun' = (overrun \/ \E l \in Layers : current_seq_len > Len(rows[l]))
  /\ actual_max_seq_len' = Target(n)
  /\ broken' = FALSE
  /\ UNCHANGED <<current_seq_len, passVars>>

\* No buffer for the layer, or an exception of commit(): the layers before it have
\* been replaced, the others and the capacity have not.
ResizeFails(n, failing) ==
  /\ Shrinks(n)
  /\ rows' = [l \in Layers |-> IF l < failing THEN Copied(l, n) ELSE rows[l]]
  /\ overrun' = (overrun \/ \E l \in Layers : l <= failing /\ current_seq_len > Len(rows[l]))
  /\ broken' = (broken \/ failing > 1)
  /\ UNCHANGED <<current_seq_len, actual_max_seq_len, passVars>>

Next ==
  \/ \E k \in Chunks : BeginPass(k)
  \/ append \/ AppendRefused \/ NextLayer \/ EndPass \/ reset
  \/ \E n \in NewSizes : resize(n) \/ \E failing \in Layers : ResizeFails(n, failing)

Spec == Init /\ [][Next]_vars

-------------------------------------------------------------------------------
(* Properties                                                                  *)

\* What attention reads from a layer are the tokens of this generation up to the
\* pass's last, in order, and nothing older, whatever has been resized between the
\* calls and even after a resize that failed, as long as no copy has overrun a
\* buffer (kv_cache.mm:129-217, 272-320).
ReadsOwnTokens ==
  Attending /\ ~overrun =>
    /\ current_seq_len = len + chunk
    /\ \A p \in 1 .. current_seq_len : Get[p] = Token(p - 1)

\* A pass that the first layer accepts is accepted by all: a resize() in between
\* shrinks no further than the length the first layer has set (kv_cache.mm:135, 272).
RefusedAtFirstLayer == [][AppendRefused => layer = 1]_vars

\* No copy leaves its buffers unless a resize() has failed half-way: it leaves layers
\* that are smaller than the capacity append() checks (kv_cache.mm:135, 293, 323).
CopiesStayInside == [][overrun' /\ ~overrun => broken]_vars
===============================================================================
