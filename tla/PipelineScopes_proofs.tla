------------------------- MODULE PipelineScopes_proofs -------------------------
(***************************************************************************)
(* Proofs about the RAII scopes of the command pipeline and its counter.   *)
(* The first half is about any number of threads of which one opens        *)
(* scopes, the second about a single thread that performs operations and   *)
(* opens encoder scopes inside an EncoderScope, but no BatchScope.         *)
(***************************************************************************)
EXTENDS CommandPipeline_proofs

(* The modes while a thread is in scopes.                                  *)

\* The only thread that opens scopes.
ScopeUser(s) ==
  s \in Threads /\ \A t \in Threads \ {s} : Calls[t] \cap {"batch", "encoder"} = {}

\* A thread in the constructor of a scope, and in the destructor of one.
Entering(t) == pc[t] \in {"batch_set", "encoder_lock"}
Leaving(t) ==
  pc[t] = "restore" \/ (pc[t] \in {"flush_lock", "flush_acquire"} /\ then[t] = "restore")

\* Beyond the i innermost scopes there is one of an encoder.
EncoderBeyond(i, q) == \E j \in DOMAIN q : j > i /\ q[j].kind = "encoder"

\* Only s is ever in a scope, and it is in one while it enters or leaves one.
OnlyUser(s) ==
  /\ \A t \in Threads \ {s} : scopes[t] = <<>> /\ ~Entering(t) /\ ~Leaving(t)
  /\ Entering(s) \/ Leaving(s) => scopes[s] # <<>>
  /\ pc[s] = "batch_set" => scopes[s][1].kind = "batch"
  /\ pc[s] = "encoder_lock" => scopes[s][1].kind = "encoder"

\* What a scope has saved is what the scopes around it make of the modes.
Saved(s) ==
  \A i \in DOMAIN scopes[s] :
    /\ scopes[s][i].lazy <=> lazy0 \/ i < Len(scopes[s])
    /\ scopes[s][i].kind = "encoder" => (scopes[s][i].encoder <=> EncoderBeyond(i, scopes[s]))

\* The modes are those of the scopes entered and not being left.
Modes(s) ==
  /\ lazy_commit <=> lazy0 \/ (scopes[s] # <<>> /\ (Entering(s) => Len(scopes[s]) > 1))
  /\ encoder_scope_active <=> EncoderBeyond(IF Entering(s) \/ Leaving(s) THEN 1 ELSE 0, scopes[s])

\* The shared encoder belongs to a scope; a rotation is under way only in one.
EncoderInScope ==
  active_encoder # 0 \/ (\E t \in Threads : pc[t] = "rotate") => encoder_scope_active

\* Where a thread is on its way to commit the active buffer, or to find that there is none.
Committing == {"got", "encoding", "count", "cont_acquire", "cont_lock", "commit_acquire",
               "commit_lock", "flush_lock", "flush_acquire", "reset"}

\* A counter at the threshold has somebody who will commit: an encoder scope when it ends,
\* a thread that is on its way, or the one that counted last.
SomebodyCommits ==
  lazy0 /\ op_count >= Threshold /\ active # 0 =>
    \/ encoder_scope_active
    \/ \E t \in Threads : \/ pc[t] \in Committing
                          \/ pc[t] \in {"decide", "recorded"} /\ count[t] = op_count

ScopesInv(s) == OnlyUser(s) /\ Saved(s) /\ Modes(s) /\ EncoderInScope

-------------------------------------------------------------------------------
(* Stacks of scopes.                                                       *)

(* A new scope is the innermost one, and the others are one further out.   *)
LEMMA PushFacts ==
  ASSUME NEW q \in Seq(Scope), NEW x \in Scope
  PROVE  LET p == <<x>> \o q IN
         /\ p \in Seq(Scope) /\ p # <<>> /\ Len(p) = Len(q) + 1 /\ p[1] = x
         /\ \A i \in DOMAIN p : i = 1 \/ (i - 1 \in DOMAIN q /\ p[i] = q[i - 1])
         /\ \A i \in DOMAIN q : i + 1 \in DOMAIN p /\ p[i + 1] = q[i]
<1> DEFINE p == <<x>> \o q
<1>1. p \in Seq(Scope) /\ p # <<>>
  BY StackFacts
<1>2. Len(p) = Len(q) + 1 /\ \A i \in 1 .. Len(q) + 1 : p[i] = IF i = 1 THEN x ELSE q[i - 1]
  OBVIOUS
<1> HIDE DEF p
<1> QED BY <1>1, <1>2 DEF p

(* Leaving the innermost scope takes it away from the others.              *)
LEMMA PopFacts ==
  ASSUME NEW q \in Seq(Scope), q # <<>>
  PROVE  LET p == Tail(q) IN
         /\ p \in Seq(Scope) /\ Len(p) = Len(q) - 1 /\ Head(q) = q[1] /\ 1 \in DOMAIN q
         /\ \A i \in DOMAIN p : i + 1 \in DOMAIN q /\ p[i] = q[i + 1]
         /\ \A i \in DOMAIN q : i = 1 \/ (i - 1 \in DOMAIN p /\ p[i - 1] = q[i])
<1> DEFINE p == Tail(q)
<1>1. p \in Seq(Scope) /\ Len(p) = Len(q) - 1 /\ Head(q) = q[1] /\ Len(q) \in Nat \ {0}
      /\ \A i \in 1 .. Len(p) : p[i] = q[i + 1]
  BY HeadTailProperties
<1> HIDE DEF p
<1> QED BY <1>1 DEF p

(* Entering a scope shifts the encoder scopes one out, leaving it back.    *)
LEMMA BeyondPush ==
  ASSUME NEW q \in Seq(Scope), NEW x \in Scope, NEW i \in Nat
  PROVE  EncoderBeyond(i + 1, <<x>> \o q) <=> EncoderBeyond(i, q)
<1> DEFINE p == <<x>> \o q
<1>1. /\ \A j \in DOMAIN p : j = 1 \/ (j - 1 \in DOMAIN q /\ p[j] = q[j - 1])
      /\ \A j \in DOMAIN q : j + 1 \in DOMAIN p /\ p[j + 1] = q[j]
      /\ DOMAIN q \subseteq Nat \ {0} /\ DOMAIN p \subseteq Nat \ {0}
  BY PushFacts
<1> HIDE DEF p
<1>2. ASSUME NEW j \in DOMAIN p, j > i + 1, p[j].kind = "encoder"
      PROVE  \E k \in DOMAIN q : k > i /\ q[k].kind = "encoder"
  <2>1. j - 1 \in DOMAIN q /\ j - 1 > i /\ q[j - 1].kind = "encoder"
    BY <1>1, <1>2
  <2> QED BY <2>1
<1>3. ASSUME NEW k \in DOMAIN q, k > i, q[k].kind = "encoder"
      PROVE  \E j \in DOMAIN p : j > i + 1 /\ p[j].kind = "encoder"
  <2>1. k + 1 \in DOMAIN p /\ k + 1 > i + 1 /\ p[k + 1].kind = "encoder"
    BY <1>1, <1>3
  <2> QED BY <2>1
<1>4. EncoderBeyond(i + 1, p) <=> EncoderBeyond(i, q)
  BY <1>2, <1>3 DEF EncoderBeyond
<1> QED BY <1>4 DEF p

LEMMA BeyondPop ==
  ASSUME NEW q \in Seq(Scope), q # <<>>, NEW i \in Nat
  PROVE  EncoderBeyond(i, Tail(q)) <=> EncoderBeyond(i + 1, q)
<1> DEFINE x == Head(q)
           r == Tail(q)
<1>1. q = <<x>> \o r /\ x \in Scope /\ r \in Seq(Scope)
  BY HeadTailProperties
<1> HIDE DEF x, r
<1>2. EncoderBeyond(i + 1, <<x>> \o r) <=> EncoderBeyond(i, r)
  BY <1>1, BeyondPush
<1> QED BY <1>1, <1>2 DEF r

-------------------------------------------------------------------------------
(* One thread that opens scopes.                                           *)

(* What is neither a constructor nor a destructor leaves the scopes alone. *)
PlainStep(t) ==
  \/ OpBegin(t) \/ CommitCall(t) \/ FlushCall(t) \/ RecordCall(t) \/ SyncCall(t)
  \/ Encode(t) \/ ReadbackCall(t) \/ OpOpen(t) \/ OpClose(t) \/ ContCount(t)
  \/ ContDecide(t) \/ ContReset(t) \/ AcquireFirst(t) \/ NothingToCommit(t)
  \/ ContCommit(t) \/ Commit(t) \/ FlushLock(t) \/ FlushCommit(t) \/ RecordDecide(t)
  \/ SyncLock(t) \/ SyncCommit(t) \/ Collect(t) \/ Release(t) \/ Rotate(t)
  \/ ReadbackWait(t) \/ ReadbackCopy(t)

ScopeVars == <<lazy_commit, encoder_scope_active, lazy0, scopes>>

LEMMA PlainFrame ==
  ASSUME TypeOK, NEW t \in Threads, PlainStep(t)
  PROVE  /\ UNCHANGED ScopeVars
         /\ \A u \in Threads : /\ pc'[u] = "batch_set" <=> pc[u] = "batch_set"
                               /\ pc'[u] = "encoder_lock" <=> pc[u] = "encoder_lock"
                               /\ Leaving(u)' <=> Leaving(u)
<1> USE DEF ScopeVars, slotVars, bufVars, encVars, cntVars, opVars, ctlVars, Leaving, At, Go
<1>0. pc \in [Threads -> PC] /\ then \in [Threads -> Continuation]
  BY DEF TypeOK, PlaceTypes
<1> DEFINE Frame == /\ UNCHANGED ScopeVars
                    /\ \A u \in Threads : /\ pc'[u] = "batch_set" <=> pc[u] = "batch_set"
                                          /\ pc'[u] = "encoder_lock" <=> pc[u] = "encoder_lock"
                                          /\ Leaving(u)' <=> Leaving(u)
<1>1. CASE OpBegin(t) \/ CommitCall(t) \/ FlushCall(t) \/ RecordCall(t) \/ SyncCall(t)
  BY <1>0, <1>1 DEF OpBegin, CommitCall, FlushCall, RecordCall, SyncCall, Call
<1>2. CASE Encode(t) \/ ReadbackCall(t) \/ OpOpen(t) \/ OpClose(t) \/ ContCount(t)
  BY <1>0, <1>2 DEF Encode, ReadbackCall, OpOpen, OpClose, ContCount, Call
<1>3. CASE ContDecide(t) \/ ContReset(t) \/ AcquireFirst(t) \/ NothingToCommit(t)
  BY <1>0, <1>3 DEF ContDecide, ContReset, AcquireFirst, NothingToCommit
<1>4. CASE ContCommit(t) \/ Commit(t) \/ RecordDecide(t) \/ SyncLock(t) \/ SyncCommit(t)
  BY <1>0, <1>4 DEF ContCommit, Commit, RecordDecide, SyncLock, SyncCommit
<1>5. CASE FlushLock(t) \/ FlushCommit(t)
  BY <1>0, <1>5 DEF FlushLock, FlushCommit, Resume
<1>6. CASE Collect(t) \/ Release(t) \/ Rotate(t) \/ ReadbackWait(t) \/ ReadbackCopy(t)
  BY <1>0, <1>6 DEF Collect, Release, Rotate, ReadbackWait, ReadbackCopy
<1> QED BY <1>1, <1>2, <1>3, <1>4, <1>5, <1>6 DEF PlainStep

(* So what the scopes have saved, and the modes, stay what they are.       *)
LEMMA FrameKeeps ==
  ASSUME NEW s \in Threads, UNCHANGED ScopeVars,
         \A u \in Threads : /\ pc'[u] = "batch_set" <=> pc[u] = "batch_set"
                            /\ pc'[u] = "encoder_lock" <=> pc[u] = "encoder_lock"
                            /\ Leaving(u)' <=> Leaving(u),
         OnlyUser(s), Saved(s), Modes(s)
  PROVE  OnlyUser(s)' /\ Saved(s)' /\ Modes(s)'
<1>1. \A u \in Threads : Entering(u)' <=> Entering(u)
  BY DEF Entering
<1>2. UNCHANGED <<lazy_commit, encoder_scope_active, lazy0, scopes>>
  BY DEF ScopeVars
<1>3. OnlyUser(s)'
  BY <1>1, <1>2 DEF OnlyUser
<1>4. Saved(s)'
  BY <1>2 DEF Saved, EncoderBeyond
<1>5. Modes(s)'
  BY <1>1, <1>2 DEF Modes, EncoderBeyond
<1> QED BY <1>3, <1>4, <1>5

(* The constructors save the modes they find.                              *)
LEMMA EnterKeeps ==
  ASSUME TypeOK, NEW s, ScopeUser(s), OnlyUser(s), Saved(s), Modes(s),
         NEW t \in Threads, BatchEnter(t) \/ EncoderEnter(t)
  PROVE  OnlyUser(s)' /\ Saved(s)' /\ Modes(s)'
<1>0. /\ s \in Threads /\ pc \in [Threads -> PC] /\ scopes[s] \in Seq(Scope)
      /\ scopes \in [Threads -> Seq(Scope)] /\ lazy_commit \in BOOLEAN
      /\ encoder_scope_active \in BOOLEAN
  BY DEF TypeOK, PlaceTypes, ModeTypes, ScopeUser
<1>1. t = s /\ pc[s] = "idle"
  BY DEF ScopeUser, BatchEnter, EncoderEnter, Call, At
<1> PICK x \in Scope : /\ x.lazy = lazy_commit
                       /\ x.kind = "encoder" => x.encoder = encoder_scope_active
                       /\ scopes' = [scopes EXCEPT ![s] = <<x>> \o @]
                       /\ \/ x.kind = "batch" /\ pc' = [pc EXCEPT ![s] = "batch_set"]
                          \/ x.kind = "encoder" /\ pc' = [pc EXCEPT ![s] = "encoder_lock"]
                       /\ UNCHANGED <<lazy_commit, encoder_scope_active, lazy0, then>>
  <2>1. CASE BatchEnter(t)
    <3> DEFINE x == [kind |-> "batch", encoder |-> FALSE, lazy |-> lazy_commit]
    <3>1. x \in Scope /\ x.kind = "batch" /\ x.lazy = lazy_commit
      BY <1>0 DEF Scope
    <3>2. /\ scopes' = [scopes EXCEPT ![s] = <<x>> \o @] /\ pc' = [pc EXCEPT ![s] = "batch_set"]
          /\ UNCHANGED <<lazy_commit, encoder_scope_active, lazy0, then>>
      BY <1>1, <2>1 DEF BatchEnter, Go, encVars
    <3> HIDE DEF x
    <3> QED BY <3>1, <3>2
  <2>2. CASE EncoderEnter(t)
    <3> DEFINE x == [kind |-> "encoder", encoder |-> encoder_scope_active, lazy |-> lazy_commit]
    <3>1. /\ x \in Scope /\ x.kind = "encoder" /\ x.lazy = lazy_commit
          /\ x.encoder = encoder_scope_active
      BY <1>0 DEF Scope
    <3>2. /\ scopes' = [scopes EXCEPT ![s] = <<x>> \o @] /\ pc' = [pc EXCEPT ![s] = "encoder_lock"]
          /\ UNCHANGED <<lazy_commit, encoder_scope_active, lazy0, then>>
      BY <1>1, <2>2 DEF EncoderEnter, Go, encVars
    <3> HIDE DEF x
    <3> QED BY <3>1, <3>2
  <2> QED BY <2>1, <2>2
<1> DEFINE q == scopes[s]
           p == <<x>> \o q
<1>2. /\ p \in Seq(Scope) /\ p # <<>> /\ Len(p) = Len(q) + 1 /\ p[1] = x /\ Len(q) \in Nat
      /\ \A i \in DOMAIN p : i = 1 \/ (i - 1 \in DOMAIN q /\ p[i] = q[i - 1])
      /\ \A i \in DOMAIN q : i + 1 \in DOMAIN p /\ p[i + 1] = q[i]
      /\ DOMAIN q \subseteq Nat \ {0} /\ DOMAIN p \subseteq Nat \ {0}
  BY <1>0, PushFacts
<1>3. scopes'[s] = p /\ \A u \in Threads \ {s} : scopes'[u] = scopes[u] /\ pc'[u] = pc[u]
  BY <1>0
<1>4. /\ Entering(s)' /\ ~Leaving(s)' /\ ~Entering(s) /\ ~Leaving(s)
      /\ \A u \in Threads \ {s} : (Entering(u)' <=> Entering(u)) /\ (Leaving(u)' <=> Leaving(u))
  BY <1>0, <1>1, <1>3 DEF Entering, Leaving
<1> HIDE DEF p, q
<1>5. OnlyUser(s)'
  BY <1>0, <1>2, <1>3, <1>4 DEF OnlyUser
<1>6. \A i \in Nat : EncoderBeyond(i + 1, p) <=> EncoderBeyond(i, q)
  BY <1>0, BeyondPush DEF p, q
<1>7. /\ lazy_commit <=> lazy0 \/ Len(q) > 0
      /\ encoder_scope_active <=> EncoderBeyond(0, q)
  BY <1>0, <1>4, EmptySeq DEF Modes, q
<1>8. EncoderBeyond(1, p) <=> EncoderBeyond(0, q)
  BY <1>6
<1>9. Saved(s)'
  <2> SUFFICES ASSUME NEW i \in DOMAIN p
               PROVE  /\ p[i].lazy <=> lazy0 \/ i < Len(p)
                      /\ p[i].kind = "encoder" => (p[i].encoder <=> EncoderBeyond(i, p))
    BY <1>3, ZenonT(60) DEF Saved, EncoderBeyond
  <2>1. CASE i = 1
    BY <2>1, <1>2, <1>7, <1>8
  <2>2. CASE i # 1
    <3>1. /\ i - 1 \in DOMAIN q /\ p[i] = q[i - 1] /\ i - 1 \in Nat
          /\ q[i - 1].lazy <=> lazy0 \/ i - 1 < Len(q)
          /\ q[i - 1].kind = "encoder" => (q[i - 1].encoder <=> EncoderBeyond(i - 1, q))
      BY <1>2, <2>2 DEF Saved, q
    <3>2. EncoderBeyond((i - 1) + 1, p) <=> EncoderBeyond(i - 1, q)
      BY <1>6, <3>1
    <3>3. (i - 1) + 1 = i
      BY <1>2
    <3> QED BY <3>1, <3>2, <3>3, <1>2
  <2> QED BY <2>1, <2>2
<1>10. Modes(s)'
  <2>1. lazy_commit' <=> lazy0' \/ (p # <<>> /\ Len(p) > 1)
    BY <1>2, <1>7
  <2>2. encoder_scope_active' <=> EncoderBeyond(1, p)
    BY <1>7, <1>8
  <2> QED BY <2>1, <2>2, <1>3, <1>4 DEF Modes, EncoderBeyond
<1> QED BY <1>5, <1>9, <1>10

(* A batch scope on top leaves the encoder scopes as they are.             *)
LEMMA BeyondFirst ==
  ASSUME NEW q \in Seq(Scope), q # <<>>
  PROVE  /\ q[1].kind = "batch" => (EncoderBeyond(0, q) <=> EncoderBeyond(1, q))
         /\ q[1].kind = "encoder" => EncoderBeyond(0, q)
<1>1. 1 \in DOMAIN q /\ DOMAIN q \subseteq Nat \ {0}
  BY PopFacts
<1> QED BY <1>1 DEF EncoderBeyond

(* The constructors set the modes, the destructors set the encoder's back. *)
LEMMA SetKeeps ==
  ASSUME TypeOK, NEW s, ScopeUser(s), OnlyUser(s), Saved(s), Modes(s), NEW t \in Threads,
         BatchSet(t) \/ EncoderOpen(t) \/ BatchExit(t) \/ EncoderExit(t)
  PROVE  OnlyUser(s)' /\ Saved(s)' /\ Modes(s)'
<1>0. /\ s \in Threads /\ pc \in [Threads -> PC] /\ then \in [Threads -> Continuation]
      /\ scopes[s] \in Seq(Scope)
  BY DEF TypeOK, PlaceTypes, ModeTypes, ScopeUser
<1>1. t = s /\ scopes[s] # <<>>
  BY DEF OnlyUser, BatchSet, EncoderOpen, BatchExit, EncoderExit, At, Entering
<1>2. scopes' = scopes /\ lazy0' = lazy0
  BY DEF BatchSet, EncoderOpen, BatchExit, EncoderExit, encVars, ctlVars
<1>3. 1 \in DOMAIN scopes[s] /\ Head(scopes[s]) = scopes[s][1]
  BY <1>0, <1>1, PopFacts
<1>4. Saved(s)'
  BY <1>2 DEF Saved, EncoderBeyond
<1>5. \A u \in Threads \ {s} : (Entering(u)' <=> Entering(u)) /\ (Leaving(u)' <=> Leaving(u))
  BY <1>0, <1>1 DEF BatchSet, EncoderOpen, BatchExit, EncoderExit, ctlVars, Go, Entering, Leaving
<1>6. CASE BatchSet(t) \/ EncoderOpen(t)
  <2>1. pc'[s] = "idle" /\ lazy_commit' = TRUE /\ ~Entering(s)' /\ ~Leaving(s)'
    BY <1>0, <1>1, <1>6 DEF BatchSet, EncoderOpen, Go, Entering, Leaving
  <2>2. encoder_scope_active' <=> EncoderBeyond(0, scopes[s])
    <3>1. CASE BatchSet(t)
      BY <1>0, <1>1, <3>1, BeyondFirst DEF BatchSet, At, Entering, OnlyUser, Modes, encVars
    <3>2. CASE EncoderOpen(t)
      BY <1>0, <1>1, <3>2, BeyondFirst DEF EncoderOpen, At, OnlyUser
    <3> QED BY <1>6, <3>1, <3>2
  <2> QED BY <1>1, <1>2, <1>4, <1>5, <2>1, <2>2 DEF OnlyUser, Modes, EncoderBeyond
<1>7. CASE BatchExit(t) \/ EncoderExit(t)
  <2>1. /\ pc[s] = "idle" /\ pc'[s] \in {"flush_lock", "restore"} /\ then'[s] = "restore"
        /\ ~Entering(s) /\ ~Leaving(s) /\ ~Entering(s)' /\ Leaving(s)'
        /\ lazy_commit' = lazy_commit
    BY <1>0, <1>1, <1>7 DEF BatchExit, EncoderExit, At, Go, Entering, Leaving
  <2>2. encoder_scope_active' <=> EncoderBeyond(1, scopes[s])
    <3>1. CASE BatchExit(t)
      <4>1. encoder_scope_active' = encoder_scope_active /\ scopes[s][1].kind = "batch"
        BY <1>1, <1>3, <3>1 DEF BatchExit, encVars
      <4> QED BY <1>0, <1>1, <2>1, <4>1, BeyondFirst DEF Modes
    <3>2. CASE EncoderExit(t)
      <4>1. encoder_scope_active' = scopes[s][1].encoder /\ scopes[s][1].kind = "encoder"
        BY <1>1, <1>3, <3>2 DEF EncoderExit
      <4> QED BY <1>3, <4>1 DEF Saved
    <3> QED BY <1>7, <3>1, <3>2
  <2> QED BY <1>1, <1>2, <1>4, <1>5, <2>1, <2>2 DEF OnlyUser, Modes, EncoderBeyond
<1> QED BY <1>6, <1>7

(* A destructor ends with the modes of the scope around it.                *)
LEMMA RestoreKeeps ==
  ASSUME TypeOK, NEW s, ScopeUser(s), OnlyUser(s), Saved(s), Modes(s), NEW t \in Threads,
         Restore(t)
  PROVE  OnlyUser(s)' /\ Saved(s)' /\ Modes(s)'
<1>0. /\ s \in Threads /\ pc \in [Threads -> PC] /\ scopes \in [Threads -> Seq(Scope)]
      /\ scopes[s] \in Seq(Scope)
  BY DEF TypeOK, PlaceTypes, ModeTypes, ScopeUser
<1>1. t = s /\ scopes[s] # <<>> /\ Leaving(s) /\ ~Entering(s)
  BY DEF OnlyUser, Restore, At, Leaving, Entering
<1> DEFINE q == scopes[s]
           p == Tail(q)
<1>2. /\ p \in Seq(Scope) /\ Len(p) = Len(q) - 1 /\ Head(q) = q[1] /\ 1 \in DOMAIN q
      /\ \A i \in DOMAIN p : i + 1 \in DOMAIN q /\ p[i] = q[i + 1]
      /\ \A i \in DOMAIN q : i = 1 \/ (i - 1 \in DOMAIN p /\ p[i - 1] = q[i])
  BY <1>0, <1>1, PopFacts
<1>2a. q \in Seq(Scope) /\ p \in Seq(Scope)
  BY <1>0, <1>2
<1> HIDE DEF p, q
<1>2b. /\ Len(q) \in Nat /\ Len(p) \in Nat /\ (p = <<>> <=> Len(p) = 0)
       /\ DOMAIN q \subseteq Nat \ {0} /\ DOMAIN p \subseteq Nat \ {0}
  BY <1>2a, EmptySeq
<1> USE DEF p, q
<1>3. /\ scopes'[s] = p /\ pc'[s] = "idle" /\ lazy_commit' = q[1].lazy
      /\ UNCHANGED <<encoder_scope_active, lazy0, then>>
      /\ \A u \in Threads \ {s} : scopes'[u] = scopes[u] /\ pc'[u] = pc[u]
  BY <1>0, <1>1, <1>2 DEF Restore, Go, encVars
<1>4. /\ ~Entering(s)' /\ ~Leaving(s)'
      /\ \A u \in Threads \ {s} : (Entering(u)' <=> Entering(u)) /\ (Leaving(u)' <=> Leaving(u))
  BY <1>3 DEF Entering, Leaving
<1> HIDE DEF p, q
<1>5. OnlyUser(s)'
  BY <1>3, <1>4 DEF OnlyUser
<1>6. \A i \in Nat : EncoderBeyond(i, p) <=> EncoderBeyond(i + 1, q)
  BY <1>0, <1>1, BeyondPop DEF p, q
<1>7. Saved(s)'
  <2> SUFFICES ASSUME NEW i \in DOMAIN p
               PROVE  /\ p[i].lazy <=> lazy0 \/ i < Len(p)
                      /\ p[i].kind = "encoder" => (p[i].encoder <=> EncoderBeyond(i, p))
    BY <1>3 DEF Saved, EncoderBeyond
  <2>1. /\ i + 1 \in DOMAIN q /\ p[i] = q[i + 1] /\ i \in Nat
        /\ q[i + 1].lazy <=> lazy0 \/ i + 1 < Len(q)
        /\ q[i + 1].kind = "encoder" => (q[i + 1].encoder <=> EncoderBeyond(i + 1, q))
    BY <1>2, <1>2b DEF Saved, q
  <2>2. EncoderBeyond(i, p) <=> EncoderBeyond(i + 1, q)
    BY <1>6, <2>1
  <2> QED BY <1>2, <1>2b, <2>1, <2>2
<1>8. Modes(s)'
  <2>1. lazy_commit' <=> lazy0' \/ p # <<>>
    <3>1. q[1].lazy <=> lazy0 \/ 1 < Len(q)
      BY <1>2 DEF Saved, q
    <3> QED BY <1>2, <1>2b, <1>3, <3>1
  <2>2. encoder_scope_active' <=> EncoderBeyond(0, p)
    <3>1. encoder_scope_active <=> EncoderBeyond(0 + 1, q)
      BY <1>1 DEF Modes, q
    <3>2. EncoderBeyond(0, p) <=> EncoderBeyond(0 + 1, q)
      BY <1>6
    <3> QED BY <1>3, <3>1, <3>2
  <2> QED BY <1>3, <1>4, <2>1, <2>2 DEF Modes, EncoderBeyond
<1> QED BY <1>5, <1>7, <1>8

LEMMA ModesStep ==
  ASSUME TypeOK, NEW s, ScopeUser(s), OnlyUser(s), Saved(s), Modes(s),
         NEW t \in Threads, Client(t) \/ Step(t)
  PROVE  OnlyUser(s)' /\ Saved(s)' /\ Modes(s)'
<1>1. CASE PlainStep(t)
  BY <1>1, PlainFrame, FrameKeeps DEF ScopeUser
<1>2. CASE BatchEnter(t) \/ EncoderEnter(t)
  BY <1>2, EnterKeeps
<1>3. CASE BatchSet(t) \/ EncoderOpen(t) \/ BatchExit(t) \/ EncoderExit(t)
  BY <1>3, SetKeeps
<1>4. CASE Restore(t)
  BY <1>4, RestoreKeeps
<1> QED BY <1>1, <1>2, <1>3, <1>4 DEF Client, Step, PlainStep

(* The shared encoder is open, or being rotated, in an encoder scope only. *)
LEMMA EncoderStep ==
  ASSUME TypeOK, MuHolder, EncoderInScope, NEW t \in Threads, Client(t) \/ Step(t)
  PROVE  EncoderInScope'
<1> USE DEF slotVars, bufVars, encVars, cntVars, opVars, ctlVars, At, Go
<1>0. pc \in [Threads -> PC] /\ then \in [Threads -> Continuation]
  BY DEF TypeOK, PlaceTypes
<1>1. CASE EncoderOpen(t)
  BY <1>1 DEF EncoderOpen, EncoderInScope
<1>2. CASE EncoderExit(t)
  <2>1. \A u \in Threads : pc'[u] # "rotate"
    BY <1>0, <1>2, PipelineAssumption DEF EncoderExit, Free, MuHolder
  <2>2. active_encoder' # 0 => encoder_scope_active'
    BY <1>2 DEF EncoderExit
  <2> QED BY <2>1, <2>2 DEF EncoderInScope
<1>3. CASE Encode(t)
  BY <1>3 DEF Encode, EncoderInScope
<1>4. CASE Rotate(t)
  BY <1>4 DEF Rotate, EncoderInScope
<1>5. ASSUME UNCHANGED <<active_encoder, encoder_scope_active>>,
             \A u \in Threads : pc'[u] = "rotate" => pc[u] = "rotate"
      PROVE  EncoderInScope'
  BY <1>5 DEF EncoderInScope
<1>6. CASE \/ OpBegin(t) \/ CommitCall(t) \/ FlushCall(t) \/ RecordCall(t) \/ SyncCall(t)
           \/ BatchEnter(t) \/ BatchExit(t) \/ EncoderEnter(t) \/ ReadbackCall(t)
  BY <1>0, <1>5, <1>6 DEF OpBegin, CommitCall, FlushCall, RecordCall, SyncCall, BatchEnter,
     BatchExit, EncoderEnter, ReadbackCall, Call
<1>7. CASE \/ OpOpen(t) \/ OpClose(t) \/ ContCount(t) \/ ContDecide(t) \/ ContReset(t)
           \/ AcquireFirst(t) \/ NothingToCommit(t) \/ ContCommit(t) \/ Commit(t)
  BY <1>0, <1>5, <1>7 DEF OpOpen, OpClose, ContCount, ContDecide, ContReset, AcquireFirst,
     NothingToCommit, ContCommit, Commit
<1>8. CASE \/ FlushLock(t) \/ FlushCommit(t) \/ RecordDecide(t) \/ SyncLock(t) \/ SyncCommit(t)
  BY <1>0, <1>5, <1>8 DEF FlushLock, FlushCommit, RecordDecide, SyncLock, SyncCommit, Resume
<1>9. CASE \/ Collect(t) \/ Release(t) \/ BatchSet(t) \/ Restore(t) \/ ReadbackWait(t)
           \/ ReadbackCopy(t)
  BY <1>0, <1>5, <1>9 DEF Collect, Release, BatchSet, Restore, ReadbackWait, ReadbackCopy
<1> QED BY <1>1, <1>2, <1>3, <1>4, <1>6, <1>7, <1>8, <1>9 DEF Client, Step

(* No step leaves the counter at the threshold with nobody to act on it.   *)
LEMMA CommitsStep ==
  ASSUME TypeOK, Threshold > 0, EncoderInScope, lazy0 => lazy_commit, SomebodyCommits,
         NEW t \in Threads, Client(t) \/ Step(t)
  PROVE  SomebodyCommits'
<1> USE DEF slotVars, bufVars, encVars, cntVars, opVars, ctlVars, At, Go
<1>0. /\ pc \in [Threads -> PC] /\ then \in [Threads -> Continuation] /\ count \in [Threads -> Nat]
      /\ op_count \in Nat /\ Threshold \in Nat
  BY PipelineAssumption DEF TypeOK, PlaceTypes, ModeTypes
<1>1. ASSUME \/ pc'[t] \in Committing
             \/ pc'[t] \in {"decide", "recorded"} /\ count'[t] = op_count'
             \/ op_count' = 0 \/ active' = 0 \/ encoder_scope_active'
      PROVE  SomebodyCommits'
  BY <1>0, <1>1 DEF SomebodyCommits
<1>2. ASSUME UNCHANGED <<lazy0, op_count, count, active, encoder_scope_active>>,
             \A u \in Threads \ {t} : pc'[u] = pc[u],
             \/ pc[t] \notin Committing \cup {"decide", "recorded"}
             \/ pc[t] \in {"decide", "recorded"} /\ (count[t] # op_count \/ op_count < Threshold)
      PROVE  SomebodyCommits'
  BY <1>0, <1>2 DEF SomebodyCommits, Committing
<1>3. CASE \/ OpBegin(t) \/ CommitCall(t) \/ FlushCall(t) \/ RecordCall(t) \/ BatchExit(t)
           \/ EncoderExit(t) \/ Encode(t)
  BY <1>0, <1>1, <1>3 DEF OpBegin, CommitCall, FlushCall, RecordCall, BatchExit, EncoderExit,
     Encode, Committing
<1>4. CASE SyncCall(t) \/ BatchEnter(t) \/ EncoderEnter(t) \/ ReadbackCall(t)
  BY <1>0, <1>2, <1>4 DEF SyncCall, BatchEnter, EncoderEnter, ReadbackCall, Call, Committing
<1>5. CASE OpOpen(t) \/ OpClose(t) \/ ContCount(t) \/ ContReset(t) \/ AcquireFirst(t)
  BY <1>0, <1>1, <1>5 DEF OpOpen, OpClose, ContCount, ContReset, AcquireFirst, Committing
<1>6. CASE NothingToCommit(t) \/ ContCommit(t) \/ Commit(t) \/ FlushLock(t) \/ FlushCommit(t)
  BY <1>0, <1>1, <1>6 DEF NothingToCommit, ContCommit, Commit, FlushLock, FlushCommit, Committing
<1>7. CASE ContDecide(t)
  <2>1. CASE lazy_commit /\ ~encoder_scope_active /\ count[t] < Threshold
    BY <1>0, <1>2, <1>7, <2>1 DEF ContDecide
  <2>2. CASE ~(lazy_commit /\ ~encoder_scope_active /\ count[t] < Threshold)
    BY <1>0, <1>1, <1>7, <2>2 DEF ContDecide, Committing
  <2> QED BY <2>1, <2>2
<1>8. CASE RecordDecide(t)
  <2>1. CASE lazy_commit /\ ~encoder_scope_active /\ count[t] >= Threshold /\ op_count = count[t]
    BY <1>1, <1>8, <2>1 DEF RecordDecide
  <2>2. CASE ~(lazy_commit /\ ~encoder_scope_active /\ count[t] >= Threshold /\ op_count = count[t])
    <3>0. /\ pc[t] = "recorded" /\ pc' = [pc EXCEPT ![t] = "idle"]
          /\ UNCHANGED <<lazy0, op_count, count, active, encoder_scope_active>>
      BY <1>8, <2>2 DEF RecordDecide
    <3>1. CASE encoder_scope_active
      BY <1>1, <3>0, <3>1
    <3>2. CASE ~lazy0
      BY <3>0, <3>2 DEF SomebodyCommits
    <3>3. CASE lazy0 /\ ~encoder_scope_active
      BY <1>0, <1>2, <2>2, <3>0, <3>3
    <3> QED BY <3>1, <3>2, <3>3
  <2> QED BY <2>1, <2>2
<1>9. CASE SyncCommit(t) \/ EncoderOpen(t)
  BY <1>1, <1>9 DEF SyncCommit, EncoderOpen
<1>10. CASE Rotate(t)
  BY <1>1, <1>10 DEF Rotate, EncoderInScope
<1>11. CASE \/ SyncLock(t) \/ Collect(t) \/ Release(t) \/ BatchSet(t) \/ Restore(t)
            \/ ReadbackWait(t) \/ ReadbackCopy(t)
  BY <1>0, <1>2, <1>11 DEF SyncLock, Collect, Release, BatchSet, Restore, ReadbackWait,
     ReadbackCopy, Committing
<1> QED BY <1>3, <1>4, <1>5, <1>6, <1>7, <1>8, <1>9, <1>10, <1>11 DEF Client, Step

LEMMA ScopesInit == ASSUME NEW s, ScopeUser(s), Init PROVE ScopesInv(s)
<1>1. /\ s \in Threads /\ lazy_commit = lazy0 /\ ~encoder_scope_active /\ active_encoder = 0
      /\ \A t \in Threads : pc[t] = "idle" /\ scopes[t] = <<>>
  BY DEF Init, ScopeUser
<1>2. OnlyUser(s) /\ EncoderInScope
  BY <1>1 DEF OnlyUser, Entering, Leaving, EncoderInScope
<1>3. DOMAIN scopes[s] = {} /\ scopes[s] = <<>>
  BY <1>1
<1>4. Saved(s)
  BY <1>3 DEF Saved
<1>5. Modes(s)
  BY <1>1, <1>3 DEF Modes, EncoderBeyond
<1> QED BY <1>2, <1>4, <1>5 DEF ScopesInv

(* The invariant about the scopes of the thread that opens them.           *)
LEMMA ScopesInvariance == ASSUME NEW s, ScopeUser(s) PROVE Spec => []ScopesInv(s)
<1>1. Init => ScopesInv(s)
  BY ScopesInit
<1>2. IInv /\ ScopesInv(s) /\ [Next]_vars => ScopesInv(s)'
  <2> SUFFICES ASSUME IInv, ScopesInv(s), [Next]_vars PROVE ScopesInv(s)'
    OBVIOUS
  <2>1. CASE \E t \in Threads : Client(t) \/ Step(t)
    BY <2>1, ModesStep, EncoderStep DEF ScopesInv, IInv
  <2>2. CASE GpuComplete \/ UNCHANGED vars
    <3>1. UNCHANGED <<lazy_commit, encoder_scope_active, lazy0, scopes, pc, then, active_encoder>>
      BY <2>2 DEF GpuComplete, vars, encVars, ctlVars
    <3>2. s \in Threads /\ \A u \in Threads : Leaving(u)' <=> Leaving(u)
      BY <3>1 DEF Leaving, ScopeUser
    <3>3. OnlyUser(s)' /\ Saved(s)' /\ Modes(s)'
      BY <3>1, <3>2, FrameKeeps DEF ScopesInv, ScopeVars
    <3> QED BY <3>1, <3>3 DEF ScopesInv, EncoderInScope
  <2> QED BY <2>1, <2>2 DEF Next
<1> QED BY <1>1, <1>2, Invariance, PTL DEF Spec

(* BatchScope and EncoderScope set lazy_commit and the encoder's flag and  *)
(* their destructors put back what they found, however the scopes nest and *)
(* whatever the other threads do meanwhile, as long as the others open no  *)
(* scope (command_pipeline.mm:298-308, 410-444).  Two threads that leave   *)
(* their scopes in another order would restore each other's flags.         *)
THEOREM ScopesAreRestored == ASSUME NEW s, ScopeUser(s) PROVE Spec => []ScopesRestore
<1>1. ScopesInv(s) /\ IInv => ScopesRestore
  <2> SUFFICES ASSUME ScopesInv(s), IInv, \A t \in Threads : pc[t] = "idle" PROVE ScopesRestore
    BY DEF ScopesRestore
  <2>1. /\ s \in Threads /\ ~Entering(s) /\ ~Leaving(s) /\ lazy_commit \in BOOLEAN /\ lazy0 \in BOOLEAN
        /\ scopes[s] \in Seq(Scope)
    BY DEF Entering, Leaving, ScopeUser, IInv, TypeOK, ModeTypes
  <2>2. CASE scopes[s] = <<>>
    <3>1. /\ \A t \in Threads : scopes[t] = <<>>
          /\ ~EncoderBeyond(0, scopes[s])
      BY <2>2 DEF ScopesInv, OnlyUser, EncoderBeyond
    <3> QED BY <2>1, <2>2, <3>1 DEF ScopesInv, Modes, EncoderInScope, ScopesRestore
  <2>3. CASE scopes[s] # <<>>
    BY <2>1, <2>3 DEF ScopesInv, Modes, ScopesRestore
  <2> QED BY <2>2, <2>3
<1> QED BY <1>1, Invariance, ScopesInvariance, PTL

(* A counter that has reached the threshold always has somebody who will   *)
(* commit the buffer.                                                      *)
LEMMA CommitsInvariance ==
  ASSUME NEW s, ScopeUser(s), Threshold > 0 PROVE Spec => []SomebodyCommits
<1>1. Init => SomebodyCommits
  BY DEF Init, SomebodyCommits
<1>2. IInv /\ ScopesInv(s) /\ SomebodyCommits /\ [Next]_vars => SomebodyCommits'
  <2> SUFFICES ASSUME IInv, ScopesInv(s), SomebodyCommits, [Next]_vars PROVE SomebodyCommits'
    OBVIOUS
  <2>1. CASE \E t \in Threads : Client(t) \/ Step(t)
    BY <2>1, CommitsStep DEF ScopesInv, IInv, Modes
  <2>2. CASE GpuComplete \/ UNCHANGED vars
    BY <2>2 DEF GpuComplete, vars, encVars, cntVars, bufVars, SomebodyCommits
  <2> QED BY <2>1, <2>2 DEF Next
<1> QED BY <1>1, <1>2, Invariance, ScopesInvariance, PTL DEF Spec

(* record_op() and commit_and_continue() keep the counter of a lazy client *)
(* below the threshold whenever no call is under way and no scope is open: *)
(* whoever counts to the threshold, or a flush it lost the race to, resets *)
(* it, under any interleaving of the unlocked increments, comparisons and  *)
(* resets (command_pipeline.mm:124-137, 192-210, 272-284).                 *)
THEOREM CounterStaysBelow ==
  ASSUME NEW s, ScopeUser(s), Threshold > 0 PROVE Spec => []CounterBelowThreshold
<1>1. IInv /\ ScopesInv(s) /\ SomebodyCommits => CounterBelowThreshold
  <2> SUFFICES ASSUME IInv, ScopesInv(s), SomebodyCommits, lazy_commit, active # 0,
                      \A t \in Threads : pc[t] = "idle" /\ scopes[t] = <<>>
               PROVE  op_count < Threshold
    BY DEF CounterBelowThreshold
  <2>1. s \in Threads /\ op_count \in Nat /\ Threshold \in Nat
    BY PipelineAssumption DEF ScopeUser, IInv, TypeOK, ModeTypes
  <2>2. ~EncoderBeyond(0, scopes[s]) /\ ~Entering(s) /\ ~Leaving(s) /\ scopes[s] = <<>>
    BY <2>1 DEF EncoderBeyond, Entering, Leaving
  <2>3. lazy0 /\ ~encoder_scope_active
    BY <2>2 DEF ScopesInv, Modes
  <2>4. \A t \in Threads : pc[t] \notin Committing \cup {"decide", "recorded"}
    BY DEF Committing
  <2> QED BY <2>1, <2>3, <2>4 DEF SomebodyCommits
<1> QED BY <1>1, Invariance, ScopesInvariance, CommitsInvariance, PTL

-------------------------------------------------------------------------------
(* A single thread.                                                        *)

\* The thread, and what it does inside an EncoderScope: nothing that commits the buffer
\* under the shared encoder, as the end of a BatchScope does.
SoleUser(s) ==
  Threads = {s} /\ CallsInEncoder \subseteq {"op", "encoder", "encode", "record", "readback"}

\* No batch scope is inside an encoder scope.
NoBatchInside(s) ==
  \A i \in DOMAIN scopes[s] : scopes[s][i].kind = "batch" => ~EncoderBeyond(i, scopes[s])

\* In an encoder scope the shared encoder is open on the active buffer, but for the moment
\* of a rotation; an operation there has an encoder of its own and leaves the buffer alone.
ScopeHasEncoder(s) ==
  encoder_scope_active =>
    /\ pc[s] \in {"idle", "recorded", "encoder_lock", "restore", "barrier", "read", "rotate",
                  "got", "encoding", "count", "decide"}
    /\ pc[s] \in {"got", "encoding"} => then[s] = "continue"
    /\ active # 0
    /\ active_encoder = IF pc[s] = "rotate" THEN 0 ELSE active

\* An operation encodes into the active buffer, with an encoder that it closes.
OwnEncoder(s) ==
  /\ pc[s] \in {"got", "encoding"} => buf[s] = active /\ active # 0
  /\ open \subseteq {<<s, buf[s]>>}
  /\ open # {} => pc[s] = "encoding"

\* What the thread left in the active buffer is submitted by the call under way, by the end
\* of a scope, or is left to the client of lazy mode.
WillSubmit(s) ==
  (\E d \in dirty : d[2] = active) =>
    \/ lazy0
    \/ pc[s] \in (Committing \cup {"decide"}) \ {"got", "encoding", "reset"}
    \/ scopes[s] # <<>> /\ (pc[s] = "restore" => Len(scopes[s]) > 1)

\* Work lies in buffers that were committed, or in the active one.
DirtyCreated == \A d \in dirty : d[2] \in 1 .. created /\ d[2] \in gpu \cup {active}

SoleInv(s) ==
  NoBatchInside(s) /\ ScopeHasEncoder(s) /\ OwnEncoder(s) /\ WillSubmit(s) /\ DirtyCreated


(* Between calls the encoder scope's flag says whether the thread is in    *)
(* such a scope.                                                           *)
LEMMA IdleFlag ==
  ASSUME TypeOK, NEW s \in Threads, Modes(s), pc[s] = "idle"
  PROVE  /\ encoder_scope_active <=> EncoderBeyond(0, scopes[s])
         /\ encoder_scope_active <=> InScope(s, "encoder")
<1>1. scopes[s] \in Seq(Scope)
  BY DEF TypeOK, ModeTypes
<1> DEFINE q == scopes[s]
<1>2. DOMAIN q \subseteq Nat \ {0}
  BY <1>1, EmptySeq
<1>3. encoder_scope_active <=> EncoderBeyond(0, q)
  BY DEF Modes, Entering, Leaving
<1> QED BY <1>2, <1>3 DEF EncoderBeyond, InScope

(* So a call the thread does not make inside a scope finds it inactive.    *)
LEMMA OutsideFlag ==
  ASSUME TypeOK, NEW s, SoleUser(s), Modes(s), NEW c, Call(s, c), c \notin CallsInEncoder
  PROVE  ~encoder_scope_active
BY IdleFlag DEF Call, At, SoleUser

(* Batch scopes are entered outside the encoder scopes only.               *)
LEMMA NoBatchStep ==
  ASSUME TypeOK, NEW s, SoleUser(s), Modes(s), NoBatchInside(s), OnlyUser(s),
         NEW t \in Threads, Client(t) \/ Step(t)
  PROVE  NoBatchInside(s)'
<1>0. /\ t = s /\ s \in Threads /\ scopes[s] \in Seq(Scope) /\ scopes \in [Threads -> Seq(Scope)]
      /\ encoder_scope_active \in BOOLEAN /\ lazy_commit \in BOOLEAN
  BY DEF SoleUser, TypeOK, ModeTypes
<1>1. CASE UNCHANGED scopes
  BY <1>1 DEF NoBatchInside, EncoderBeyond
<1>2. CASE BatchEnter(t) \/ EncoderEnter(t)
  <2>1. PICK x \in Scope : /\ scopes' = [scopes EXCEPT ![s] = <<x>> \o @]
                           /\ x.kind = "batch" => ~EncoderBeyond(0, scopes[s])
    <3>1. CASE BatchEnter(t)
      <4> DEFINE x == [kind |-> "batch", encoder |-> FALSE, lazy |-> lazy_commit]
      <4>1. x \in Scope
        BY <1>0 DEF Scope
      <4>2. Call(s, "batch") /\ scopes' = [scopes EXCEPT ![s] = <<x>> \o @]
        BY <1>0, <3>1 DEF BatchEnter
      <4>3. ~EncoderBeyond(0, scopes[s])
        BY <1>0, <4>2, OutsideFlag, IdleFlag DEF SoleUser, Call, At
      <4> QED BY <4>1, <4>2, <4>3
    <3>2. CASE EncoderEnter(t)
      <4> DEFINE x == [kind |-> "encoder", encoder |-> encoder_scope_active, lazy |-> lazy_commit]
      <4>1. x \in Scope /\ x.kind # "batch"
        BY <1>0 DEF Scope
      <4>2. scopes' = [scopes EXCEPT ![s] = <<x>> \o @]
        BY <1>0, <3>2 DEF EncoderEnter
      <4> HIDE DEF x
      <4> QED BY <4>1, <4>2
    <3> QED BY <1>2, <3>1, <3>2
  <2> DEFINE q == scopes[s]
             p == <<x>> \o q
  <2>2. /\ scopes'[s] = p /\ p[1] = x
        /\ \A i \in DOMAIN p : i = 1 \/ (i - 1 \in DOMAIN q /\ p[i] = q[i - 1])
        /\ DOMAIN q \subseteq Nat \ {0} /\ DOMAIN p \subseteq Nat \ {0}
        /\ \A i \in Nat : EncoderBeyond(i + 1, p) <=> EncoderBeyond(i, q)
    <3>1. scopes'[s] = p
      BY <1>0, <2>1
    <3>2. /\ p[1] = x /\ DOMAIN q \subseteq Nat \ {0} /\ DOMAIN p \subseteq Nat \ {0}
          /\ \A i \in DOMAIN p : i = 1 \/ (i - 1 \in DOMAIN q /\ p[i] = q[i - 1])
      BY <1>0, PushFacts
    <3>3. \A i \in Nat : EncoderBeyond(i + 1, p) <=> EncoderBeyond(i, q)
      BY <1>0, BeyondPush
    <3> HIDE DEF p, q
    <3> QED BY <3>1, <3>2, <3>3
  <2> HIDE DEF p, q
  <2> SUFFICES ASSUME NEW i \in DOMAIN p, p[i].kind = "batch" PROVE ~EncoderBeyond(i, p)
    BY <2>2 DEF NoBatchInside, EncoderBeyond
  <2>3. CASE i = 1
    <3>1. EncoderBeyond(0 + 1, p) <=> EncoderBeyond(0, q)
      BY <2>2
    <3> QED BY <2>1, <2>2, <2>3, <3>1, SMTT(30) DEF q
  <2>4. CASE i # 1
    <3>1. /\ i - 1 \in DOMAIN q /\ p[i] = q[i - 1] /\ i - 1 \in Nat /\ (i - 1) + 1 = i
      BY <2>2, <2>4
    <3>2. EncoderBeyond((i - 1) + 1, p) <=> EncoderBeyond(i - 1, q)
      BY <2>2, <3>1
    <3>3. ~EncoderBeyond(i - 1, q)
      BY <3>1 DEF NoBatchInside, q
    <3> QED BY <3>1, <3>2, <3>3
  <2> QED BY <2>3, <2>4
<1>3. CASE Restore(t)
  <2>1. scopes[s] # <<>>
    BY <1>0, <1>3 DEF Restore, At, OnlyUser, Leaving
  <2> DEFINE q == scopes[s]
             p == Tail(q)
  <2>2. /\ scopes'[s] = p /\ DOMAIN q \subseteq Nat \ {0} /\ DOMAIN p \subseteq Nat
        /\ \A i \in DOMAIN p : i + 1 \in DOMAIN q /\ p[i] = q[i + 1]
        /\ \A i \in Nat : EncoderBeyond(i, p) <=> EncoderBeyond(i + 1, q)
    <3>1. scopes'[s] = p
      BY <1>0, <1>3 DEF Restore
    <3>2. p \in Seq(Scope) /\ \A i \in DOMAIN p : i + 1 \in DOMAIN q /\ p[i] = q[i + 1]
      BY <1>0, <2>1, PopFacts
    <3>3. \A i \in Nat : EncoderBeyond(i, p) <=> EncoderBeyond(i + 1, q)
      BY <1>0, <2>1, BeyondPop
    <3> HIDE DEF p
    <3>4. DOMAIN q \subseteq Nat \ {0} /\ DOMAIN p \subseteq Nat
      BY <1>0, <3>2, EmptySeq
    <3> QED BY <3>1, <3>2, <3>3, <3>4
  <2> HIDE DEF p, q
  <2>3. \A i \in DOMAIN q : q[i].kind = "batch" => ~EncoderBeyond(i, q)
    BY DEF NoBatchInside, q
  <2> QED BY <2>2, <2>3 DEF NoBatchInside, EncoderBeyond
<1>4. CASE PlainStep(t) \/ BatchSet(t) \/ EncoderOpen(t) \/ BatchExit(t) \/ EncoderExit(t)
  BY <1>1, <1>4, PlainFrame DEF ScopeVars, BatchSet, EncoderOpen, BatchExit, EncoderExit, ctlVars
<1> QED BY <1>2, <1>3, <1>4 DEF Client, Step, PlainStep

(* The shared encoder stays open on the active buffer.                     *)
LEMMA ScopeEncoderStep ==
  ASSUME TypeOK, NEW s, SoleUser(s), OnlyUser(s), Modes(s), Saved(s), EncoderInScope,
         NoBatchInside(s), ScopeHasEncoder(s), NEW t \in Threads, Client(t) \/ Step(t)
  PROVE  ScopeHasEncoder(s)'
<1> USE DEF bufVars, encVars, At, Go
<1>0. /\ t = s /\ s \in Threads /\ pc \in [Threads -> PC] /\ scopes[s] \in Seq(Scope)
      /\ active \in {0, created} /\ created \in Nat
  BY DEF SoleUser, TypeOK, ModeTypes, BufferTypes, PlaceTypes
<1>1. CASE ~encoder_scope_active'
  BY <1>1 DEF ScopeHasEncoder
<1>2. CASE CommitCall(t) \/ FlushCall(t) \/ SyncCall(t) \/ BatchEnter(t)
  <2>1. \E c \in CallName \ CallsInEncoder : Call(s, c)
    BY <1>0, <1>2 DEF CommitCall, FlushCall, SyncCall, BatchEnter, SoleUser, CallName
  <2>2. ~encoder_scope_active
    BY <2>1, OutsideFlag
  <2> QED BY <1>1, <1>2, <2>2 DEF CommitCall, FlushCall, SyncCall, BatchEnter
<1>3. CASE \/ ContReset(t)
           \/ AcquireFirst(t) \/ NothingToCommit(t) \/ ContCommit(t) \/ Commit(t)
           \/ FlushLock(t) \/ FlushCommit(t) \/ SyncLock(t) \/ SyncCommit(t) \/ Collect(t)
           \/ Release(t) \/ BatchSet(t)
  <2>1. encoder_scope_active' = encoder_scope_active
    BY <1>3 DEF ContReset, AcquireFirst,
       NothingToCommit, ContCommit, Commit, FlushLock, FlushCommit, SyncLock, SyncCommit,
       Collect, Release, BatchSet
  <2>2. pc[s] \in {"reset", "cont_acquire", "commit_acquire",
                  "cont_lock", "commit_lock", "flush_lock", "flush_acquire", "sync_lock",
                  "sync_acquire", "collect", "release", "batch_set"}
    BY <1>0, <1>3 DEF ContReset, AcquireFirst,
       NothingToCommit, ContCommit, Commit, FlushLock, FlushCommit, SyncLock, SyncCommit,
       Collect, Release, BatchSet
  <2>3. ~encoder_scope_active
    BY <2>2 DEF ScopeHasEncoder
  <2> QED BY <1>1, <2>1, <2>3
<1>4. CASE \/ RecordCall(t) \/ EncoderEnter(t) \/ ReadbackCall(t) \/ RecordDecide(t)
           \/ ReadbackWait(t) \/ ReadbackCopy(t) \/ Restore(t)
  <2>1. /\ UNCHANGED <<encoder_scope_active, active_encoder, active>>
        /\ pc[s] # "rotate" /\ pc'[s] \in PC /\ pc'[s] # "rotate"
        /\ \/ pc'[s] \in {"idle", "recorded", "encoder_lock", "barrier", "read"}
           \/ ~encoder_scope_active
    BY <1>0, <1>4 DEF RecordCall, EncoderEnter, ReadbackCall, RecordDecide, ReadbackWait,
       ReadbackCopy, Restore, Call, PC
  <2> QED BY <1>1, <2>1 DEF ScopeHasEncoder
<1>5. CASE BatchExit(t)
  <2>1. /\ pc[s] = "idle" /\ scopes[s] # <<>> /\ Head(scopes[s]).kind = "batch"
        /\ encoder_scope_active' = encoder_scope_active
    BY <1>0, <1>5 DEF BatchExit
  <2>2. 1 \in DOMAIN scopes[s] /\ scopes[s][1].kind = "batch"
    BY <1>0, <2>1, PopFacts
  <2>3. ~EncoderBeyond(0, scopes[s])
    BY <1>0, <2>1, <2>2, BeyondFirst DEF NoBatchInside
  <2> QED BY <1>0, <1>1, <2>1, <2>3, IdleFlag
<1>6. CASE EncoderExit(t) /\ encoder_scope_active'
  <2>1. /\ pc[s] = "idle" /\ scopes[s] # <<>> /\ Head(scopes[s]).kind = "encoder"
        /\ pc'[s] = "restore" /\ active_encoder' = active' /\ active' = active
    BY <1>0, <1>6 DEF EncoderExit
  <2>2. encoder_scope_active
    BY <1>0, <2>1, PopFacts, BeyondFirst, IdleFlag
  <2> QED BY <2>1, <2>2 DEF ScopeHasEncoder
<1>7. CASE Encode(t)
  BY <1>0, <1>7 DEF Encode, Call, ScopeHasEncoder
<1>8. CASE Rotate(t)
  BY <1>0, <1>8 DEF Rotate, NewBuffer, ScopeHasEncoder
<1>9. CASE EncoderOpen(t)
  <2>1. pc'[s] = "idle" /\ pc[s] = "encoder_lock"
    BY <1>0, <1>9 DEF EncoderOpen
  <2>2. CASE active_encoder = 0
    BY <1>0, <1>9, <2>1, <2>2 DEF EncoderOpen, EnsureBuffer, NewBuffer, ScopeHasEncoder
  <2>3. CASE active_encoder # 0
    <3>1. active_encoder = active /\ active # 0
      BY <2>1, <2>3 DEF EncoderInScope, ScopeHasEncoder
    <3> QED BY <1>9, <2>1, <2>3, <3>1 DEF EncoderOpen, ScopeHasEncoder
  <2> QED BY <2>2, <2>3
(* An operation in a scope finds a buffer and does not commit it. *)
<1>10. CASE encoder_scope_active /\ OpBegin(t)
  <2>1. ~(encoder_scope_active /\ Call(s, "opcommit"))
    BY OutsideFlag DEF SoleUser
  <2>2. /\ active # 0 /\ active_encoder = active /\ pc[s] = "idle"
    BY <1>0, <1>10 DEF OpBegin, Call, ScopeHasEncoder
  <2>3. /\ pc'[s] = "got" /\ UNCHANGED <<active, active_encoder>> /\ then'[s] = "continue"
    <3>1. then \in [Threads -> Continuation]
      BY DEF TypeOK, PlaceTypes
    <3> QED BY <1>0, <1>10, <2>1, <2>2, <3>1 DEF OpBegin, EnsureBuffer, Call
  <2> QED BY <2>2, <2>3 DEF ScopeHasEncoder
<1>11. CASE encoder_scope_active /\ (OpOpen(t) \/ OpClose(t) \/ ContCount(t))
  BY <1>0, <1>11 DEF OpOpen, OpClose, ContCount, ctlVars, ScopeHasEncoder
<1>12. CASE encoder_scope_active /\ ContDecide(t)
  <2>1. pc[s] = "decide" /\ active # 0 /\ active_encoder = active
    BY <1>0, <1>12 DEF ContDecide, ScopeHasEncoder
  <2>2. lazy_commit
    BY <1>12, <2>1 DEF Modes, EncoderBeyond, Entering, Leaving
  <2>3. pc'[s] = "idle" /\ UNCHANGED <<active, active_encoder>>
    BY <1>0, <1>12, <2>2 DEF ContDecide
  <2> QED BY <2>1, <2>3 DEF ScopeHasEncoder
<1>13. CASE ~encoder_scope_active
            /\ (OpBegin(t) \/ OpOpen(t) \/ OpClose(t) \/ ContCount(t) \/ ContDecide(t))
  BY <1>1, <1>13 DEF OpBegin, OpOpen, OpClose, ContCount, ContDecide
<1> QED BY <1>1, <1>2, <1>3, <1>4, <1>5, <1>6, <1>7, <1>8, <1>9, <1>10, <1>11, <1>12, <1>13
        DEF Client, Step

(* An operation's buffer stays the active one until it has encoded.        *)
LEMMA OwnEncoderStep ==
  ASSUME TypeOK, NEW s, SoleUser(s), OwnEncoder(s), NEW t \in Threads, Client(t) \/ Step(t)
  PROVE  OwnEncoder(s)'
<1> USE DEF bufVars, opVars, At, Go
<1>0. /\ t = s /\ s \in Threads /\ pc \in [Threads -> PC] /\ buf \in [Threads -> Nat]
      /\ active \in {0, created} /\ created \in Nat
  BY DEF SoleUser, TypeOK, BufferTypes, PlaceTypes
<1>1. ASSUME UNCHANGED <<buf, open>>, pc'[s] \notin {"got", "encoding"},
             pc[s] \notin {"got", "encoding"}
      PROVE  OwnEncoder(s)'
  BY <1>1 DEF OwnEncoder
<1>2. CASE OpBegin(t)
  BY <1>0, <1>2 DEF OpBegin, Call, EnsureBuffer, NewBuffer, OwnEncoder
<1>3. CASE OpOpen(t)
  BY <1>0, <1>3 DEF OpOpen, OwnEncoder
<1>4. CASE OpClose(t)
  BY <1>0, <1>4 DEF OpClose, OwnEncoder
<1>5. CASE \/ CommitCall(t) \/ FlushCall(t) \/ RecordCall(t) \/ SyncCall(t) \/ BatchEnter(t)
           \/ BatchExit(t) \/ EncoderEnter(t) \/ EncoderExit(t) \/ Encode(t) \/ ReadbackCall(t)
  BY <1>0, <1>1, <1>5 DEF CommitCall, FlushCall, RecordCall, SyncCall, BatchEnter, BatchExit,
     EncoderEnter, EncoderExit, Encode, ReadbackCall, Call
<1>6. CASE \/ ContCount(t) \/ ContDecide(t) \/ ContReset(t) \/ AcquireFirst(t)
           \/ NothingToCommit(t) \/ ContCommit(t) \/ Commit(t) \/ FlushLock(t) \/ FlushCommit(t)
           \/ RecordDecide(t)
  BY <1>0, <1>1, <1>6 DEF ContCount, ContDecide, ContReset, AcquireFirst, NothingToCommit,
     ContCommit, Commit, FlushLock, FlushCommit, RecordDecide, Resume
<1>7. CASE \/ SyncLock(t) \/ SyncCommit(t) \/ Collect(t) \/ Release(t) \/ BatchSet(t)
           \/ Restore(t) \/ EncoderOpen(t) \/ Rotate(t) \/ ReadbackWait(t) \/ ReadbackCopy(t)
  BY <1>0, <1>1, <1>7 DEF SyncLock, SyncCommit, Collect, Release, BatchSet, Restore,
     EncoderOpen, Rotate, ReadbackWait, ReadbackCopy
<1> QED BY <1>2, <1>3, <1>4, <1>5, <1>6, <1>7 DEF Client, Step

(* Only buffers that have been created are encoded into.                   *)
LEMMA DirtyStep ==
  ASSUME TypeOK, MuHolder, NEW s, SoleUser(s), OwnEncoder(s), ScopeHasEncoder(s), DirtyCreated,
         NEW t \in Threads, Client(t) \/ Step(t)
  PROVE  DirtyCreated'
<1> USE DEF bufVars, At
<1>0. t = s /\ active \in {0, created} /\ created \in Nat /\ gpu \subseteq 1 .. created
  BY DEF SoleUser, TypeOK, BufferTypes
(* The buffer that is given up was committed, or there was none. *)
<1>1. ASSUME UNCHANGED dirty, created' \in {created, created + 1},
             gpu \cup ({active} \ {0}) \subseteq gpu' \cup {active'}
      PROVE  DirtyCreated'
  BY <1>0, <1>1 DEF DirtyCreated
<1>2. CASE OpClose(t)
  <2>1. /\ dirty' = dirty \cup {<<s, active, calls>>} /\ active \in 1 .. created
        /\ UNCHANGED <<created, active, gpu>>
    BY <1>0, <1>2 DEF OpClose, OwnEncoder
  <2> QED BY <2>1 DEF DirtyCreated
<1>3. CASE Encode(t)
  <2>1. active_encoder = active /\ active \in 1 .. created
    BY <1>0, <1>3 DEF Encode, Call, ScopeHasEncoder
  <2>2. /\ dirty' \subseteq dirty \cup {<<s, active_encoder, calls'>>}
        /\ UNCHANGED <<created, active, gpu>>
    BY <1>0, <1>3 DEF Encode
  <2> QED BY <2>1, <2>2 DEF DirtyCreated
<1>4. CASE Rotate(t)
  <2>1. /\ dirty' = dirty \cup {<<s, created + 1, calls>>} /\ created' = created + 1
        /\ active' = created + 1 /\ gpu \cup ({active} \ {0}) \subseteq gpu'
    BY <1>0, <1>4 DEF Rotate, NewBuffer, CommitActive
  <2> QED BY <1>0, <2>1 DEF DirtyCreated
<1>5. CASE \/ CommitCall(t) \/ FlushCall(t) \/ RecordCall(t) \/ SyncCall(t)
           \/ BatchEnter(t) \/ BatchExit(t) \/ EncoderEnter(t) \/ EncoderExit(t)
           \/ ReadbackCall(t) \/ OpOpen(t) \/ ContCount(t) \/ ContDecide(t) \/ ContReset(t)
           \/ AcquireFirst(t) \/ NothingToCommit(t) \/ FlushLock(t) \/ RecordDecide(t)
           \/ SyncLock(t) \/ Collect(t) \/ Release(t) \/ BatchSet(t) \/ Restore(t)
           \/ ReadbackWait(t) \/ ReadbackCopy(t)
  <2>1. UNCHANGED <<dirty, created, active, gpu>>
    BY <1>5 DEF CommitCall, FlushCall, RecordCall, SyncCall, BatchEnter, BatchExit,
       EncoderEnter, EncoderExit, ReadbackCall, OpOpen, ContCount, ContDecide, ContReset,
       AcquireFirst, NothingToCommit, FlushLock, RecordDecide, SyncLock, Collect, Release,
       BatchSet, Restore, ReadbackWait, ReadbackCopy
  <2> QED BY <1>1, <2>1
<1>6. CASE \/ OpBegin(t) \/ EncoderOpen(t) \/ ContCommit(t) \/ Commit(t) \/ FlushCommit(t)
           \/ SyncCommit(t)
  <2>1. UNCHANGED dirty /\ created' \in {created, created + 1}
    BY <1>6 DEF OpBegin, EncoderOpen, ContCommit, Commit, FlushCommit, SyncCommit, EnsureBuffer,
       NewBuffer
  <2>2. gpu \cup ({active} \ {0}) \subseteq gpu' \cup {active'}
    BY <1>6 DEF OpBegin, EncoderOpen, ContCommit, Commit, FlushCommit, SyncCommit, EnsureBuffer,
       NewBuffer, CommitActive
  <2> QED BY <1>1, <2>1, <2>2
<1> QED BY <1>2, <1>3, <1>4, <1>5, <1>6 DEF Client, Step

(* Work is not left in the active buffer with nobody to submit it.         *)
LEMMA SubmitStep ==
  ASSUME TypeOK, NEW s, SoleUser(s), OnlyUser(s), Saved(s), Modes(s), EncoderInScope, OwnEncoder(s),
         ScopeHasEncoder(s), DirtyCreated, WillSubmit(s), Destructing,
         NEW t \in Threads, Client(t) \/ Step(t)
  PROVE  WillSubmit(s)'
<1> USE DEF bufVars, encVars, ctlVars, At, Go
<1> DEFINE OnItsWay == (Committing \cup {"decide"}) \ {"got", "encoding", "reset"}
<1>0. /\ t = s /\ s \in Threads /\ pc \in [Threads -> PC] /\ scopes[s] \in Seq(Scope)
      /\ scopes \in [Threads -> Seq(Scope)]
      /\ active \in {0, created} /\ created \in Nat /\ lazy_commit \in BOOLEAN
  BY DEF SoleUser, TypeOK, ModeTypes, BufferTypes, PlaceTypes
<1>1. CASE pc'[s] \in OnItsWay
  BY <1>1 DEF WillSubmit
(* A buffer that has just been created holds nothing. *)
<1>2. CASE dirty' \subseteq dirty /\ active' \in {0, created + 1}
  BY <1>0, <1>2 DEF WillSubmit, DirtyCreated
<1>3. ASSUME UNCHANGED <<active, dirty, lazy0, scopes>>, pc[s] \notin OnItsWay, pc'[s] # "restore"
      PROVE  WillSubmit(s)'
  BY <1>3 DEF WillSubmit
<1>4. CASE OpBegin(t)
  <2>1. /\ UNCHANGED <<dirty, lazy0, scopes>> /\ active' \in {active, created + 1}
        /\ pc[s] = "idle" /\ pc'[s] = "got"
    BY <1>0, <1>4 DEF OpBegin, Call, EnsureBuffer, NewBuffer
  <2> QED BY <1>2, <1>3, <2>1 DEF Committing
<1>5. CASE CommitCall(t) \/ FlushCall(t) \/ BatchExit(t) \/ OpClose(t) \/ ContCount(t)
  BY <1>0, <1>1, <1>5 DEF CommitCall, FlushCall, BatchExit, OpClose, ContCount, Committing
<1>6. CASE RecordCall(t) \/ SyncCall(t) \/ ReadbackCall(t) \/ OpOpen(t) \/ ContReset(t)
  BY <1>0, <1>3, <1>6 DEF RecordCall, SyncCall, ReadbackCall, OpOpen, ContReset, Call, Committing
<1>7. CASE BatchEnter(t) \/ EncoderEnter(t)
  <2>1. scopes'[s] # <<>> /\ pc'[s] # "restore"
    <3>1. CASE BatchEnter(t)
      <4> DEFINE x == [kind |-> "batch", encoder |-> FALSE, lazy |-> lazy_commit]
      <4>1. x \in Scope /\ scopes'[s] = <<x>> \o scopes[s] /\ pc'[s] # "restore"
        BY <1>0, <3>1 DEF BatchEnter, Scope
      <4> HIDE DEF x
      <4> QED BY <1>0, <4>1, StackFacts
    <3>2. CASE EncoderEnter(t)
      <4> DEFINE x == [kind |-> "encoder", encoder |-> encoder_scope_active, lazy |-> lazy_commit]
      <4>0. encoder_scope_active \in BOOLEAN
        BY DEF TypeOK, ModeTypes
      <4>1. x \in Scope /\ scopes'[s] = <<x>> \o scopes[s] /\ pc'[s] # "restore"
        BY <1>0, <3>2, <4>0 DEF EncoderEnter, Scope
      <4> HIDE DEF x
      <4> QED BY <1>0, <4>1, StackFacts
    <3> QED BY <1>7, <3>1, <3>2
  <2> QED BY <2>1 DEF WillSubmit
<1>8. CASE EncoderExit(t)
  <2>1. /\ pc[s] = "idle" /\ scopes[s] # <<>> /\ Head(scopes[s]).kind = "encoder"
        /\ scopes' = scopes /\ active' = active /\ dirty' = dirty
        /\ encoder_scope_active' = Head(scopes[s]).encoder
        /\ pc'[s] = IF encoder_scope_active' THEN "restore" ELSE "flush_lock"
    BY <1>0, <1>8 DEF EncoderExit
  <2>2. CASE ~encoder_scope_active'
    BY <1>1, <2>1, <2>2 DEF Committing
  <2>3. CASE encoder_scope_active'
    <3>1. encoder_scope_active' <=> EncoderBeyond(1, scopes[s])
      BY <1>0, <2>1, PopFacts DEF Saved
    <3> QED BY <2>1, <2>3, <3>1 DEF EncoderBeyond, WillSubmit
  <2> QED BY <2>2, <2>3
<1>9. CASE Encode(t) \/ Rotate(t)
  <2>1. encoder_scope_active /\ scopes' = scopes /\ pc'[s] # "restore"
    BY <1>0, <1>9 DEF Encode, Rotate, Call, EncoderInScope
  <2>2. scopes[s] # <<>>
    BY <2>1 DEF Modes, EncoderBeyond
  <2> QED BY <2>1, <2>2 DEF WillSubmit
<1>10. CASE ContDecide(t)
  <2>1. \/ pc'[s] \in OnItsWay
        \/ /\ pc[s] = "decide" /\ pc'[s] = "idle" /\ lazy_commit
           /\ UNCHANGED <<lazy0, scopes>>
    BY <1>0, <1>10 DEF ContDecide, Committing
  <2>2. lazy_commit => lazy0 \/ scopes[s] # <<>>
    BY DEF Modes
  <2> QED BY <1>1, <2>1, <2>2 DEF WillSubmit
<1>11. CASE AcquireFirst(t)
  BY <1>0, <1>1, <1>11 DEF AcquireFirst, Committing
<1>12. CASE NothingToCommit(t) \/ ContCommit(t) \/ Commit(t) \/ FlushCommit(t) \/ SyncCommit(t)
  BY <1>2, <1>12 DEF NothingToCommit, ContCommit, Commit, FlushCommit, SyncCommit, NewBuffer
<1>13. CASE FlushLock(t)
  <2>1. CASE active = 0
    BY <1>2, <1>13, <2>1 DEF FlushLock
  <2>2. CASE active # 0
    BY <1>0, <1>1, <1>13, <2>2 DEF FlushLock, Committing
  <2> QED BY <2>1, <2>2
<1>14. CASE RecordDecide(t)
  <2>1. /\ pc'[s] \in {"idle", "flush_lock"} /\ pc[s] = "recorded"
        /\ UNCHANGED <<active, dirty, lazy0, scopes>>
    BY <1>0, <1>14 DEF RecordDecide
  <2> QED BY <1>3, <2>1 DEF Committing
<1>15. CASE \/ SyncLock(t) \/ Collect(t) \/ Release(t) \/ BatchSet(t) \/ ReadbackWait(t)
            \/ ReadbackCopy(t)
  BY <1>0, <1>3, <1>15 DEF SyncLock, Collect, Release, BatchSet, ReadbackWait, ReadbackCopy,
     Committing
<1>16. CASE Restore(t)
  <2>1. /\ pc[s] = "restore" /\ pc'[s] = "idle" /\ scopes'[s] = Tail(scopes[s])
        /\ UNCHANGED <<active, dirty, lazy0>> /\ scopes[s] # <<>>
    BY <1>0, <1>16 DEF Restore, Destructing
  <2>2. Len(scopes[s]) > 1 => Tail(scopes[s]) # <<>>
    <3> DEFINE p == Tail(scopes[s])
    <3>1. p \in Seq(Scope) /\ Len(p) = Len(scopes[s]) - 1 /\ Len(scopes[s]) \in Nat
      BY <1>0, <2>1, PopFacts
    <3> HIDE DEF p
    <3>2. p = <<>> => Len(p) = 0
      BY <3>1, EmptySeq
    <3>3. Len(scopes[s]) > 1 => p # <<>>
      BY <3>1, <3>2
    <3> QED BY <3>3 DEF p
  <2> QED BY <2>1, <2>2 DEF WillSubmit, Committing
<1>17. CASE EncoderOpen(t)
  <2>1. scopes[s] # <<>> /\ scopes' = scopes /\ pc'[s] = "idle"
    BY <1>0, <1>17 DEF EncoderOpen, OnlyUser, Entering
  <2> QED BY <2>1 DEF WillSubmit
<1> QED BY <1>4, <1>5, <1>6, <1>7, <1>8, <1>9, <1>10, <1>11, <1>12, <1>13, <1>14, <1>15,
           <1>16, <1>17 DEF Client, Step

LEMMA SoleInit == ASSUME NEW s, SoleUser(s), Init PROVE SoleInv(s)
<1>1. /\ s \in Threads /\ pc[s] = "idle" /\ scopes[s] = <<>> /\ ~encoder_scope_active
      /\ open = {} /\ dirty = {}
  BY DEF Init, SoleUser
<1> QED BY <1>1 DEF SoleInv, NoBatchInside, ScopeHasEncoder, OwnEncoder, WillSubmit, DirtyCreated

(* The invariant about a single thread.                                    *)
LEMMA SoleInvariance == ASSUME NEW s, SoleUser(s) PROVE Spec => []SoleInv(s)
<1>0. ScopeUser(s)
  BY DEF SoleUser, ScopeUser
<1>1. Init => SoleInv(s)
  BY SoleInit
<1>2. IInv /\ ScopesInv(s) /\ SoleInv(s) /\ [Next]_vars => SoleInv(s)'
  <2> SUFFICES ASSUME IInv, ScopesInv(s), SoleInv(s), [Next]_vars PROVE SoleInv(s)'
    OBVIOUS
  <2>1. CASE \E t \in Threads : Client(t) \/ Step(t)
    <3>1. /\ TypeOK /\ MuHolder /\ Destructing /\ OnlyUser(s) /\ Saved(s) /\ Modes(s) /\ EncoderInScope
          /\ NoBatchInside(s) /\ ScopeHasEncoder(s) /\ OwnEncoder(s) /\ WillSubmit(s)
          /\ DirtyCreated
      BY DEF IInv, ScopesInv, SoleInv
    <3>2. PICK t \in Threads : Client(t) \/ Step(t)
      BY <2>1
    <3>3. NoBatchInside(s)' /\ ScopeHasEncoder(s)'
      BY <3>1, <3>2, NoBatchStep, ScopeEncoderStep
    <3>4. OwnEncoder(s)' /\ WillSubmit(s)' /\ DirtyCreated'
      BY <3>1, <3>2, OwnEncoderStep, SubmitStep, DirtyStep
    <3> QED BY <3>3, <3>4 DEF SoleInv
  <2>2. CASE GpuComplete \/ UNCHANGED vars
    <3>1. /\ UNCHANGED <<scopes, encoder_scope_active, active_encoder, lazy0, pc, active, created,
                         buf, open, then>>
          /\ dirty' \subseteq dirty
          /\ \A d \in dirty' : d[2] \in gpu => d[2] \in gpu'
      BY <2>2 DEF GpuComplete, vars, encVars, ctlVars, bufVars, opVars
    <3>2. NoBatchInside(s)' /\ ScopeHasEncoder(s)' /\ OwnEncoder(s)'
      BY <3>1 DEF SoleInv, NoBatchInside, EncoderBeyond, ScopeHasEncoder, OwnEncoder
    <3>3. WillSubmit(s)' /\ DirtyCreated'
      BY <3>1 DEF SoleInv, WillSubmit, DirtyCreated
    <3> QED BY <3>2, <3>3 DEF SoleInv
  <2> QED BY <2>1, <2>2 DEF Next
<1> QED BY <1>0, <1>1, <1>2, Invariance, ScopesInvariance, PTL DEF Spec

(* Wherever a thread is between two calls inside an EncoderScope, at any   *)
(* depth and after any operations in it, the shared encoder is open on a   *)
(* buffer that has not been committed: the rotation and the ends of the    *)
(* inner scopes have reopened it, and the auto-flush has left the buffer   *)
(* alone (command_pipeline.mm:124-137, 272-284, 318-357, 410-444).         *)
THEOREM OuterEncoderStays == ASSUME NEW s, SoleUser(s) PROVE Spec => []OuterScopeKeepsEncoder
<1>0. ScopeUser(s)
  BY DEF SoleUser, ScopeUser
<1>1. IInv /\ ScopesInv(s) /\ SoleInv(s) => OuterScopeKeepsEncoder
  <2> SUFFICES ASSUME IInv, ScopesInv(s), SoleInv(s), pc[s] = "idle", InScope(s, "encoder")
               PROVE  encoder_scope_active /\ active_encoder = active /\ active # 0
    BY DEF OuterScopeKeepsEncoder, SoleUser
  <2>1. encoder_scope_active
    BY <1>0, IdleFlag DEF IInv, ScopesInv, ScopeUser
  <2> QED BY <2>1 DEF SoleInv, ScopeHasEncoder
<1> QED BY <1>0, <1>1, Invariance, ScopesInvariance, SoleInvariance, PTL

(* Outside lazy mode no command is forgotten: between two calls, with all  *)
(* scopes ended, everything the thread encoded is in a buffer that was     *)
(* committed, whether an operation encoded it by itself, inside a scope or *)
(* outside, or into the encoder of a scope                                 *)
(* (command_pipeline.mm:139-162, 305-307, 437-440).                        *)
THEOREM EagerWorkSubmitted == ASSUME NEW s, SoleUser(s) PROVE Spec => []WorkSubmitted
<1>0. ScopeUser(s)
  BY DEF SoleUser, ScopeUser
<1>1. ScopesInv(s) /\ SoleInv(s) => WorkSubmitted
  <2> SUFFICES ASSUME ScopesInv(s), SoleInv(s), pc[s] = "idle", scopes[s] = <<>>, ~lazy_commit,
                      NEW d \in dirty
               PROVE  d[2] \in gpu
    BY DEF WorkSubmitted, SoleUser
  <2>1. ~lazy0
    BY DEF ScopesInv, Modes
  <2>2. d[2] # active
    BY <2>1 DEF SoleInv, WillSubmit, Committing
  <2> QED BY <2>2 DEF SoleInv, DirtyCreated
<1> QED BY <1>0, <1>1, ScopesInvariance, SoleInvariance, PTL
================================================================================
