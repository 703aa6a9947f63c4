----------------------------- MODULE TextGeneration -----------------------------
(***************************************************************************)
(* Autoregressive generation with the small transformer of                 *)
(* examples/llm_generation.py.  What a vector of the network holds is the  *)
(* set of tokens it has been computed from, each by its place in the text; *)
(* the logits that come out are then any.                                  *)
(***************************************************************************)
EXTENDS Integers, Sequences, FiniteSets

CONSTANTS Vocabulary,      \* vocab_size: tokens 0 .. Vocabulary - 1, of which 0 is EOS
          MaxWindow,       \* bound: max_seq_len
          MaxPrompt,       \* bound: length of the prompt
          MaxNew,          \* bound: max_new_tokens
          MaxLayers        \* bound: n_layers

ASSUME GenerationAssumption ==
  /\ Vocabulary \in Nat \ {0} /\ MaxWindow \in Nat \ {0}
  /\ MaxPrompt \in Nat /\ MaxNew \in Nat /\ MaxLayers \in Nat

Tokens == 0 .. Vocabulary - 1

VARIABLES
  model,           \* max_seq_len, n_layers, and whether n_heads divides d_model
  request,         \* max_new_tokens, top_k, whether temperature is 0, length of the prompt
  generated_ids,
  window,          \* the places of the tokens that are given to the model
  x,               \* by place in the window: the places its vector depends on
  layer,           \* blocks that have been applied
  gen_pc

genVars == <<model, request, generated_ids, window, x, layer, gen_pc>>

Model == [max_seq_len : 1 .. MaxWindow, n_layers : 0 .. MaxLayers, divides : BOOLEAN]
Request == [max_new_tokens : 0 .. MaxNew, top_k : 0 .. Vocabulary + 1, cold : BOOLEAN,
            prompt : 0 .. MaxPrompt]

\* A prompt may hold a token the vocabulary does not have.
GenInit ==
  /\ model \in Model /\ request \in Request
  /\ generated_ids \in {[i \in 1 .. request.prompt |-> 1],
                        [i \in 1 .. request.prompt |-> IF i = 1 THEN Vocabulary ELSE 1]}
  /\ window = <<>> /\ x = <<>> /\ layer = 0 /\ gen_pc = "loop"

Stay == UNCHANGED <<model, request>>
GenGo(from, to) == gen_pc = from /\ gen_pc' = to

-------------------------------------------------------------------------------
(* generate_text() up to the model                                             *)

New == Len(generated_ids) - request.prompt

\* Mutant of LastTokens: the first tokens, not the last ones.
FirstTokens(n) == [i \in 1 .. (IF Len(generated_ids) < n THEN Len(generated_ids) ELSE n) |-> i]

\* generated_ids[-n:]
LastTokens(n) ==
  LET skip == IF Len(generated_ids) > n THEN Len(generated_ids) - n ELSE 0
  IN [i \in 1 .. Len(generated_ids) - skip |-> skip + i]

BeginToken ==
  /\ New < request.max_new_tokens
  /\ GenGo("loop", "embed")
  /\ window' = LastTokens(model.max_seq_len)
  /\ UNCHANGED <<generated_ids, x, layer>> /\ Stay

Finished ==
  /\ New = request.max_new_tokens
  /\ GenGo("loop", "returned")
  /\ UNCHANGED <<generated_ids, window, x, layer>> /\ Stay

Raises(from) == GenGo(from, "raised") /\ UNCHANGED <<generated_ids, window, x, layer>> /\ Stay

-------------------------------------------------------------------------------
(* MiniGPT.forward()                                                           *)

\* A token that is not in the embedding raises.
Embed ==
  IF \E i \in DOMAIN window : generated_ids[window[i]] \notin Tokens
  THEN Raises("embed")
  ELSE /\ GenGo("embed", "blocks")
       /\ x' = [i \in DOMAIN window |-> {window[i]}]
       /\ layer' = 0
       /\ UNCHANGED <<generated_ids, window>> /\ Stay

\* get_causal_mask(): what lies above the diagonal is out of reach.
Sees(i) == {j \in DOMAIN window : j <= i}

\* Every head attends to the same places; the residual keeps what was there.  Without a
\* whole number of columns for each head, reshape() raises; without a place, np.max().
Attention ==
  IF ~model.divides \/ window = <<>> THEN Raises("blocks") /\ layer < model.n_layers
  ELSE /\ layer < model.n_layers
       /\ GenGo("blocks", "feed_forward")
       /\ x' = [i \in DOMAIN window |-> x[i] \cup UNION {x[j] : j \in Sees(i)}]
       /\ UNCHANGED <<generated_ids, window, layer>> /\ Stay

\* Normalisation and the network of a block work on each place by itself.
FeedForward ==
  /\ GenGo("feed_forward", "blocks")
  /\ layer' = layer + 1
  /\ UNCHANGED <<generated_ids, window, x>> /\ Stay

\* logits[0, -1, :], which an empty text does not have.
Head_ ==
  /\ layer = model.n_layers
  /\ IF window = <<>> THEN Raises("blocks")
     ELSE GenGo("blocks", "sample") /\ UNCHANGED <<generated_ids, window, x, layer>> /\ Stay

-------------------------------------------------------------------------------
(* sample_token()                                                              *)

\* The tokens that keep a probability: those no worse than the k-th best, ties included.
Candidates(logits) ==
  IF request.top_k = 0 THEN Tokens
  ELSE {t \in Tokens : Cardinality({u \in Tokens : logits[u] > logits[t]}) < request.top_k}

\* np.partition() raises on a k beyond the vocabulary, np.random.choice() on what a
\* temperature of 0 leaves.
SampleFails == (request.cold \/ request.top_k > Vocabulary) /\ Raises("sample")

Sample(logits, t) ==
  /\ ~request.cold /\ request.top_k <= Vocabulary
  /\ t \in Candidates(logits)
  /\ GenGo("sample", IF t = 0 THEN "returned" ELSE "loop")
  /\ generated_ids' = Append(generated_ids, t)
  /\ window' = <<>> /\ x' = <<>> /\ layer' = 0 /\ Stay

GenNext ==
  \/ BeginToken \/ Finished \/ Embed \/ Attention \/ FeedForward \/ Head_ \/ SampleFails
  \/ \E logits \in [Tokens -> 0 .. 1], t \in Tokens : Sample(logits, t)

GenSpec == GenInit /\ [][GenNext]_genVars

-------------------------------------------------------------------------------
(* Properties                                                                  *)

GenTypeOK ==
  /\ model \in Model /\ request \in Request /\ layer \in 0 .. model.n_layers
  /\ generated_ids \in Seq(Tokens \cup {Vocabulary}) /\ New \in 0 .. request.max_new_tokens
  /\ DOMAIN x \in {{}, DOMAIN window}
  /\ gen_pc \in {"loop", "embed", "blocks", "feed_forward", "sample", "returned", "raised"}

\* A token is drawn from logits that depend on the last max_seq_len tokens, on every one
\* of them as soon as there is a block, and on nothing else; inside the model no place
\* ever knows of a later one (llm_generation.py:94-108, 176-186, 199-209, 267-276).
ContextExact ==
  /\ \A i \in DOMAIN x : x[i] \subseteq {window[j] : j \in 1 .. i}
  /\ gen_pc = "sample" /\ model.n_layers > 0 =>
       x[Len(x)] = {p \in DOMAIN generated_ids : p > Len(generated_ids) - model.max_seq_len}
===============================================================================
