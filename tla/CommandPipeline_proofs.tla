------------------------ MODULE CommandPipeline_proofs ------------------------
(***************************************************************************)
(* Proofs about the command pipeline, for any number of threads, slots and *)
(* nested scopes and any mix of calls.  The invariant IInv is shown        *)
(* inductive conjunct by conjunct: first the types and the facts tied to   *)
(* the threads' places in the code, then the account of the slots, then    *)
(* what synchronize() waits for.                                           *)
(***************************************************************************)
EXTENDS CommandPipeline, FiniteSetTheorems, SequenceTheorems, TLAPS

(* What entering and leaving a scope does to the stack of scopes.          *)
LEMMA StackFacts ==
  ASSUME NEW S, NEW s \in Seq(S)
  PROVE  /\ \A x \in S : <<x>> \o s \in Seq(S) /\ <<x>> \o s # <<>>
         /\ s # <<>> => Head(s) \in S /\ Tail(s) \in Seq(S)
BY ConcatProperties, HeadTailProperties

-------------------------------------------------------------------------------
(* Types and places.                                                       *)

(* Every step leaves the thread at a place of the code, mu with a thread.   *)
LEMMA PlaceStep ==
  ASSUME TypeOK,
         NEW t \in Threads, Client(t) \/ Step(t)
  PROVE  PlaceTypes'
<1> USE PipelineAssumption DEF TypeOK, PlaceTypes, PC, Continuation, slotVars,
        bufVars, encVars, cntVars, opVars, ctlVars
<1>1. ASSUME OpBegin(t) PROVE PlaceTypes'
  BY <1>1 DEF OpBegin, Call, EnsureBuffer, NewBuffer, Free, At, Go
<1>2. ASSUME CommitCall(t) PROVE PlaceTypes'
  BY <1>2 DEF CommitCall, Call, At, Go
<1>3. ASSUME FlushCall(t) PROVE PlaceTypes'
  BY <1>3 DEF FlushCall, Call, At, Go
<1>4. ASSUME RecordCall(t) PROVE PlaceTypes'
  BY <1>4 DEF RecordCall, Call, At, Go
<1>5. ASSUME SyncCall(t) PROVE PlaceTypes'
  BY <1>5 DEF SyncCall, Call, At, Go
<1>6. ASSUME BatchEnter(t) PROVE PlaceTypes'
  BY <1>6 DEF BatchEnter, Scope, Call, At, Go
<1>7. ASSUME BatchExit(t) PROVE PlaceTypes'
  BY <1>7 DEF BatchExit, At, Go
<1>8. ASSUME EncoderEnter(t) PROVE PlaceTypes'
  BY <1>8 DEF EncoderEnter, Scope, Call, At, Go
<1>9. ASSUME EncoderExit(t) PROVE PlaceTypes'
  BY <1>9 DEF EncoderExit, At, Go, Free
<1>10. ASSUME Encode(t) PROVE PlaceTypes'
  BY <1>10 DEF Encode, Call, At, Go, Free
<1>11. ASSUME ReadbackCall(t) PROVE PlaceTypes'
  BY <1>11 DEF ReadbackCall, Call, At, Go
<1>12. ASSUME OpOpen(t) PROVE PlaceTypes'
  BY <1>12 DEF OpOpen, At, Go
<1>13. ASSUME OpClose(t) PROVE PlaceTypes'
  BY <1>13 DEF OpClose, At, Go
<1>14. ASSUME ContCount(t) PROVE PlaceTypes'
  BY <1>14 DEF ContCount, At, Go
<1>15. ASSUME ContDecide(t) PROVE PlaceTypes'
  BY <1>15 DEF ContDecide, At, Go
<1>16. ASSUME ContReset(t) PROVE PlaceTypes'
  BY <1>16 DEF ContReset, At, Go
<1>17. ASSUME AcquireFirst(t) PROVE PlaceTypes'
  BY <1>17 DEF AcquireFirst, At, Go, TakeSlot, HasSlot
<1>18. ASSUME NothingToCommit(t) PROVE PlaceTypes'
  BY <1>18 DEF NothingToCommit, LoseSlot, Free, At, Go
<1>19. ASSUME ContCommit(t) PROVE PlaceTypes'
  BY <1>19 DEF ContCommit, At, Go, Free, CommitActive, PassSlot, NewBuffer
<1>20. ASSUME Commit(t) PROVE PlaceTypes'
  BY <1>20 DEF Commit, At, Go, Free, CommitActive, PassSlot
<1>21. ASSUME FlushLock(t) PROVE PlaceTypes'
  BY <1>21 DEF FlushLock, At, Go, Free, Resume
<1>22. ASSUME FlushCommit(t) PROVE PlaceTypes'
  BY <1>22 DEF FlushCommit, At, Go, Resume, TakeSlotForBuffer, HasSlot,
      CommitActive, NewBuffer
<1>23. ASSUME RecordDecide(t) PROVE PlaceTypes'
  BY <1>23 DEF RecordDecide, At, Go
<1>24. ASSUME SyncLock(t) PROVE PlaceTypes'
  BY <1>24 DEF SyncLock, At, Go, Free
<1>25. ASSUME SyncCommit(t) PROVE PlaceTypes'
  BY <1>25 DEF SyncCommit, At, Go, TakeSlotForBuffer, HasSlot, CommitActive
<1>26. ASSUME Collect(t) PROVE PlaceTypes'
  BY <1>26 DEF Collect, At, Go, TakeSlot, HasSlot
<1>27. ASSUME Release(t) PROVE PlaceTypes'
  BY <1>27 DEF Release, At, Go
<1>28. ASSUME BatchSet(t) PROVE PlaceTypes'
  BY <1>28 DEF BatchSet, At, Go
<1>29. ASSUME Restore(t) PROVE PlaceTypes'
  BY <1>29 DEF Restore, Scope, Call, At, Go
<1>30. ASSUME EncoderOpen(t) PROVE PlaceTypes'
  BY <1>30 DEF EncoderOpen, At, Go, Free, EnsureBuffer, NewBuffer
<1>31. ASSUME Rotate(t) PROVE PlaceTypes'
  BY <1>31 DEF Rotate, At, Go, TakeSlotForBuffer, HasSlot, CommitActive,
      NewBuffer
<1>32. ASSUME ReadbackWait(t) PROVE PlaceTypes'
  BY <1>32 DEF ReadbackWait, At, Go
<1>33. ASSUME ReadbackCopy(t) PROVE PlaceTypes'
  BY <1>33 DEF ReadbackCopy, At, Go
<1> QED BY <1>1, <1>2, <1>3, <1>4, <1>5, <1>6, <1>7, <1>8, <1>9, <1>10, <1>11,
    <1>12, <1>13, <1>14, <1>15, <1>16, <1>17, <1>18, <1>19, <1>20, <1>21,
    <1>22, <1>23, <1>24, <1>25, <1>26, <1>27, <1>28, <1>29, <1>30, <1>31,
    <1>32, <1>33 DEF Client, Step

(* The slots a thread holds fit the place it is at.                         *)
LEMMA HeldStep ==
  ASSUME TypeOK, HeldByPC,
         NEW t \in Threads, Client(t) \/ Step(t)
  PROVE  HeldByPC'
<1> USE PipelineAssumption DEF TypeOK, SlotTypes, PlaceTypes, HeldByPC,
        slotVars, bufVars, encVars, cntVars, opVars, ctlVars
<1>1. ASSUME OpBegin(t) PROVE HeldByPC'
  BY <1>1 DEF OpBegin, Call, EnsureBuffer, NewBuffer, Free, At, Go
<1>2. ASSUME CommitCall(t) PROVE HeldByPC'
  BY <1>2 DEF CommitCall, Call, At, Go
<1>3. ASSUME FlushCall(t) PROVE HeldByPC'
  BY <1>3 DEF FlushCall, Call, At, Go
<1>4. ASSUME RecordCall(t) PROVE HeldByPC'
  BY <1>4 DEF RecordCall, Call, At, Go
<1>5. ASSUME SyncCall(t) PROVE HeldByPC'
  BY <1>5 DEF SyncCall, Call, At, Go
<1>6. ASSUME BatchEnter(t) PROVE HeldByPC'
  BY <1>6 DEF BatchEnter, Scope, Call, At, Go
<1>7. ASSUME BatchExit(t) PROVE HeldByPC'
  BY <1>7 DEF BatchExit, At, Go
<1>8. ASSUME EncoderEnter(t) PROVE HeldByPC'
  BY <1>8 DEF EncoderEnter, Scope, Call, At, Go
<1>9. ASSUME EncoderExit(t) PROVE HeldByPC'
  BY <1>9 DEF EncoderExit, At, Go, Free
<1>10. ASSUME Encode(t) PROVE HeldByPC'
  BY <1>10 DEF Encode, Call, At, Go, Free
<1>11. ASSUME ReadbackCall(t) PROVE HeldByPC'
  BY <1>11 DEF ReadbackCall, Call, At, Go
<1>12. ASSUME OpOpen(t) PROVE HeldByPC'
  BY <1>12 DEF OpOpen, At, Go
<1>13. ASSUME OpClose(t) PROVE HeldByPC'
  BY <1>13 DEF OpClose, At, Go
<1>14. ASSUME ContCount(t) PROVE HeldByPC'
  BY <1>14 DEF ContCount, At, Go
<1>15. ASSUME ContDecide(t) PROVE HeldByPC'
  BY <1>15 DEF ContDecide, At, Go
<1>16. ASSUME ContReset(t) PROVE HeldByPC'
  BY <1>16 DEF ContReset, At, Go
<1>17. ASSUME AcquireFirst(t) PROVE HeldByPC'
  BY <1>17 DEF AcquireFirst, At, Go, TakeSlot, HasSlot
<1>18. ASSUME NothingToCommit(t) PROVE HeldByPC'
  BY <1>18 DEF NothingToCommit, LoseSlot, Free, At, Go
<1>19. ASSUME ContCommit(t) PROVE HeldByPC'
  BY <1>19 DEF ContCommit, At, Go, Free, CommitActive, PassSlot, NewBuffer
<1>20. ASSUME Commit(t) PROVE HeldByPC'
  BY <1>20 DEF Commit, At, Go, Free, CommitActive, PassSlot
<1>21. ASSUME FlushLock(t) PROVE HeldByPC'
  BY <1>21 DEF FlushLock, At, Go, Free, Resume
<1>22. ASSUME FlushCommit(t) PROVE HeldByPC'
  BY <1>22 DEF FlushCommit, At, Go, Resume, TakeSlotForBuffer, HasSlot,
      CommitActive, NewBuffer
<1>23. ASSUME RecordDecide(t) PROVE HeldByPC'
  BY <1>23 DEF RecordDecide, At, Go
<1>24. ASSUME SyncLock(t) PROVE HeldByPC'
  BY <1>24 DEF SyncLock, At, Go, Free
<1>25. ASSUME SyncCommit(t) PROVE HeldByPC'
  BY <1>25 DEF SyncCommit, At, Go, TakeSlotForBuffer, HasSlot, CommitActive
<1>26. ASSUME Collect(t) PROVE HeldByPC'
  BY <1>26 DEF Collect, At, Go, TakeSlot, HasSlot
<1>27. ASSUME Release(t) PROVE HeldByPC'
  BY <1>27 DEF Release, At, Go
<1>28. ASSUME BatchSet(t) PROVE HeldByPC'
  BY <1>28 DEF BatchSet, At, Go
<1>29. ASSUME Restore(t) PROVE HeldByPC'
  BY <1>29 DEF Restore, Scope, Call, At, Go
<1>30. ASSUME EncoderOpen(t) PROVE HeldByPC'
  BY <1>30 DEF EncoderOpen, At, Go, Free, EnsureBuffer, NewBuffer
<1>31. ASSUME Rotate(t) PROVE HeldByPC'
  BY <1>31 DEF Rotate, At, Go, TakeSlotForBuffer, HasSlot, CommitActive,
      NewBuffer
<1>32. ASSUME ReadbackWait(t) PROVE HeldByPC'
  BY <1>32 DEF ReadbackWait, At, Go
<1>33. ASSUME ReadbackCopy(t) PROVE HeldByPC'
  BY <1>33 DEF ReadbackCopy, At, Go
<1> QED BY <1>1, <1>2, <1>3, <1>4, <1>5, <1>6, <1>7, <1>8, <1>9, <1>10, <1>11,
    <1>12, <1>13, <1>14, <1>15, <1>16, <1>17, <1>18, <1>19, <1>20, <1>21,
    <1>22, <1>23, <1>24, <1>25, <1>26, <1>27, <1>28, <1>29, <1>30, <1>31,
    <1>32, <1>33 DEF Client, Step

(* mu is held across the blocking acquires, by one thread at a time, and    *)
(* nobody takes the active buffer away meanwhile.                           *)
LEMMA MuStep ==
  ASSUME TypeOK, MuHolder,
         NEW t \in Threads, Client(t) \/ Step(t)
  PROVE  MuHolder'
<1> USE PipelineAssumption DEF TypeOK, BufferTypes, PlaceTypes, MuHolder,
        slotVars, bufVars, encVars, cntVars, opVars, ctlVars
<1>1. ASSUME OpBegin(t) PROVE MuHolder'
  BY <1>1 DEF OpBegin, Call, EnsureBuffer, NewBuffer, Free, At, Go
<1>2. ASSUME CommitCall(t) PROVE MuHolder'
  BY <1>2 DEF CommitCall, Call, At, Go
<1>3. ASSUME FlushCall(t) PROVE MuHolder'
  BY <1>3 DEF FlushCall, Call, At, Go
<1>4. ASSUME RecordCall(t) PROVE MuHolder'
  BY <1>4 DEF RecordCall, Call, At, Go
<1>5. ASSUME SyncCall(t) PROVE MuHolder'
  BY <1>5 DEF SyncCall, Call, At, Go
<1>6. ASSUME BatchEnter(t) PROVE MuHolder'
  BY <1>6 DEF BatchEnter, Scope, Call, At, Go
<1>7. ASSUME BatchExit(t) PROVE MuHolder'
  BY <1>7 DEF BatchExit, At, Go
<1>8. ASSUME EncoderEnter(t) PROVE MuHolder'
  BY <1>8 DEF EncoderEnter, Scope, Call, At, Go
<1>9. ASSUME EncoderExit(t) PROVE MuHolder'
  BY <1>9 DEF EncoderExit, At, Go, Free
<1>10. ASSUME Encode(t) PROVE MuHolder'
  BY <1>10 DEF Encode, Call, At, Go, Free
<1>11. ASSUME ReadbackCall(t) PROVE MuHolder'
  BY <1>11 DEF ReadbackCall, Call, At, Go
<1>12. ASSUME OpOpen(t) PROVE MuHolder'
  BY <1>12 DEF OpOpen, At, Go
<1>13. ASSUME OpClose(t) PROVE MuHolder'
  BY <1>13 DEF OpClose, At, Go
<1>14. ASSUME ContCount(t) PROVE MuHolder'
  BY <1>14 DEF ContCount, At, Go
<1>15. ASSUME ContDecide(t) PROVE MuHolder'
  BY <1>15 DEF ContDecide, At, Go
<1>16. ASSUME ContReset(t) PROVE MuHolder'
  BY <1>16 DEF ContReset, At, Go
<1>17. ASSUME AcquireFirst(t) PROVE MuHolder'
  BY <1>17 DEF AcquireFirst, At, Go, TakeSlot, HasSlot
<1>18. ASSUME NothingToCommit(t) PROVE MuHolder'
  BY <1>18 DEF NothingToCommit, LoseSlot, Free, At, Go
<1>19. ASSUME ContCommit(t) PROVE MuHolder'
  BY <1>19 DEF ContCommit, At, Go, Free, CommitActive, PassSlot, NewBuffer
<1>20. ASSUME Commit(t) PROVE MuHolder'
  BY <1>20 DEF Commit, At, Go, Free, CommitActive, PassSlot
<1>21. ASSUME FlushLock(t) PROVE MuHolder'
  BY <1>21 DEF FlushLock, At, Go, Free, Resume
<1>22. ASSUME FlushCommit(t) PROVE MuHolder'
  BY <1>22 DEF FlushCommit, At, Go, Resume, TakeSlotForBuffer, HasSlot,
      CommitActive, NewBuffer
<1>23. ASSUME RecordDecide(t) PROVE MuHolder'
  BY <1>23 DEF RecordDecide, At, Go
<1>24. ASSUME SyncLock(t) PROVE MuHolder'
  BY <1>24 DEF SyncLock, At, Go, Free
<1>25. ASSUME SyncCommit(t) PROVE MuHolder'
  BY <1>25 DEF SyncCommit, At, Go, TakeSlotForBuffer, HasSlot, CommitActive
<1>26. ASSUME Collect(t) PROVE MuHolder'
  BY <1>26 DEF Collect, At, Go, TakeSlot, HasSlot
<1>27. ASSUME Release(t) PROVE MuHolder'
  BY <1>27 DEF Release, At, Go
<1>28. ASSUME BatchSet(t) PROVE MuHolder'
  BY <1>28 DEF BatchSet, At, Go
<1>29. ASSUME Restore(t) PROVE MuHolder'
  BY <1>29 DEF Restore, Scope, Call, At, Go
<1>30. ASSUME EncoderOpen(t) PROVE MuHolder'
  BY <1>30 DEF EncoderOpen, At, Go, Free, EnsureBuffer, NewBuffer
<1>31. ASSUME Rotate(t) PROVE MuHolder'
  BY <1>31 DEF Rotate, At, Go, TakeSlotForBuffer, HasSlot, CommitActive,
      NewBuffer
<1>32. ASSUME ReadbackWait(t) PROVE MuHolder'
  BY <1>32 DEF ReadbackWait, At, Go
<1>33. ASSUME ReadbackCopy(t) PROVE MuHolder'
  BY <1>33 DEF ReadbackCopy, At, Go
<1> QED BY <1>1, <1>2, <1>3, <1>4, <1>5, <1>6, <1>7, <1>8, <1>9, <1>10, <1>11,
    <1>12, <1>13, <1>14, <1>15, <1>16, <1>17, <1>18, <1>19, <1>20, <1>21,
    <1>22, <1>23, <1>24, <1>25, <1>26, <1>27, <1>28, <1>29, <1>30, <1>31,
    <1>32, <1>33 DEF Client, Step

(* A destructor under way still has its scope on the stack.                 *)
LEMMA DestructStep ==
  ASSUME TypeOK, Destructing,
         NEW t \in Threads, Client(t) \/ Step(t)
  PROVE  Destructing'
<1> USE PipelineAssumption DEF TypeOK, ModeTypes, PlaceTypes, Destructing,
        slotVars, bufVars, encVars, cntVars, opVars, ctlVars
<1>1. ASSUME OpBegin(t) PROVE Destructing'
  BY <1>1 DEF OpBegin, Call, EnsureBuffer, NewBuffer, Free, At, Go
<1>2. ASSUME CommitCall(t) PROVE Destructing'
  BY <1>2 DEF CommitCall, Call, At, Go
<1>3. ASSUME FlushCall(t) PROVE Destructing'
  BY <1>3 DEF FlushCall, Call, At, Go
<1>4. ASSUME RecordCall(t) PROVE Destructing'
  BY <1>4 DEF RecordCall, Call, At, Go
<1>5. ASSUME SyncCall(t) PROVE Destructing'
  BY <1>5 DEF SyncCall, Call, At, Go
<1>6. ASSUME BatchEnter(t) PROVE Destructing'
  BY <1>6, StackFacts DEF BatchEnter, Scope, Call, At, Go
<1>7. ASSUME BatchExit(t) PROVE Destructing'
  BY <1>7 DEF BatchExit, At, Go
<1>8. ASSUME EncoderEnter(t) PROVE Destructing'
  BY <1>8, StackFacts DEF EncoderEnter, Scope, Call, At, Go
<1>9. ASSUME EncoderExit(t) PROVE Destructing'
  BY <1>9 DEF EncoderExit, At, Go, Free
<1>10. ASSUME Encode(t) PROVE Destructing'
  BY <1>10 DEF Encode, Call, At, Go, Free
<1>11. ASSUME ReadbackCall(t) PROVE Destructing'
  BY <1>11 DEF ReadbackCall, Call, At, Go
<1>12. ASSUME OpOpen(t) PROVE Destructing'
  BY <1>12 DEF OpOpen, At, Go
<1>13. ASSUME OpClose(t) PROVE Destructing'
  BY <1>13 DEF OpClose, At, Go
<1>14. ASSUME ContCount(t) PROVE Destructing'
  BY <1>14 DEF ContCount, At, Go
<1>15. ASSUME ContDecide(t) PROVE Destructing'
  BY <1>15 DEF ContDecide, At, Go
<1>16. ASSUME ContReset(t) PROVE Destructing'
  BY <1>16 DEF ContReset, At, Go
<1>17. ASSUME AcquireFirst(t) PROVE Destructing'
  BY <1>17 DEF AcquireFirst, At, Go, TakeSlot, HasSlot
<1>18. ASSUME NothingToCommit(t) PROVE Destructing'
  BY <1>18 DEF NothingToCommit, LoseSlot, Free, At, Go
<1>19. ASSUME ContCommit(t) PROVE Destructing'
  BY <1>19 DEF ContCommit, At, Go, Free, CommitActive, PassSlot, NewBuffer
<1>20. ASSUME Commit(t) PROVE Destructing'
  BY <1>20 DEF Commit, At, Go, Free, CommitActive, PassSlot
<1>21. ASSUME FlushLock(t) PROVE Destructing'
  BY <1>21 DEF FlushLock, At, Go, Free, Resume
<1>22. ASSUME FlushCommit(t) PROVE Destructing'
  BY <1>22 DEF FlushCommit, At, Go, Resume, TakeSlotForBuffer, HasSlot,
      CommitActive, NewBuffer
<1>23. ASSUME RecordDecide(t) PROVE Destructing'
  BY <1>23 DEF RecordDecide, At, Go
<1>24. ASSUME SyncLock(t) PROVE Destructing'
  BY <1>24 DEF SyncLock, At, Go, Free
<1>25. ASSUME SyncCommit(t) PROVE Destructing'
  BY <1>25 DEF SyncCommit, At, Go, TakeSlotForBuffer, HasSlot, CommitActive
<1>26. ASSUME Collect(t) PROVE Destructing'
  BY <1>26 DEF Collect, At, Go, TakeSlot, HasSlot
<1>27. ASSUME Release(t) PROVE Destructing'
  BY <1>27 DEF Release, At, Go
<1>28. ASSUME BatchSet(t) PROVE Destructing'
  BY <1>28 DEF BatchSet, At, Go
<1>29. ASSUME Restore(t) PROVE Destructing'
  BY <1>29, StackFacts DEF Restore, Scope, Call, At, Go
<1>30. ASSUME EncoderOpen(t) PROVE Destructing'
  BY <1>30 DEF EncoderOpen, At, Go, Free, EnsureBuffer, NewBuffer
<1>31. ASSUME Rotate(t) PROVE Destructing'
  BY <1>31 DEF Rotate, At, Go, TakeSlotForBuffer, HasSlot, CommitActive,
      NewBuffer
<1>32. ASSUME ReadbackWait(t) PROVE Destructing'
  BY <1>32 DEF ReadbackWait, At, Go
<1>33. ASSUME ReadbackCopy(t) PROVE Destructing'
  BY <1>33 DEF ReadbackCopy, At, Go
<1> QED BY <1>1, <1>2, <1>3, <1>4, <1>5, <1>6, <1>7, <1>8, <1>9, <1>10, <1>11,
    <1>12, <1>13, <1>14, <1>15, <1>16, <1>17, <1>18, <1>19, <1>20, <1>21,
    <1>22, <1>23, <1>24, <1>25, <1>26, <1>27, <1>28, <1>29, <1>30, <1>31,
    <1>32, <1>33 DEF Client, Step

(* No thread's count of slots leaves 0 .. Slots if the controller's does not. *)
LEMMA SlotStep ==
  ASSUME TypeOK, HeldByPC, in_flight' \in 0 .. Slots,
         NEW t \in Threads, Client(t) \/ Step(t)
  PROVE  SlotTypes'
<1> USE PipelineAssumption DEF TypeOK, SlotTypes, PlaceTypes, HeldByPC,
        slotVars, bufVars, encVars, cntVars, opVars, ctlVars
<1>1. ASSUME OpBegin(t) \/ CommitCall(t) \/ FlushCall(t) \/ RecordCall(t) \/
              SyncCall(t) \/ BatchEnter(t) \/ BatchExit(t) \/
              EncoderEnter(t) \/ EncoderExit(t) \/ Encode(t) \/
              ReadbackCall(t) \/ OpOpen(t) \/ OpClose(t) \/ ContCount(t) \/
              ContDecide(t) \/ ContReset(t) \/ FlushLock(t) \/
              RecordDecide(t) \/ SyncLock(t) \/ BatchSet(t) \/ Restore(t) \/
              EncoderOpen(t) \/ ReadbackWait(t) \/ ReadbackCopy(t)
      PROVE  SlotTypes'
  <2>1. UNCHANGED slotVars
    BY <1>1 DEF OpBegin, Call, EnsureBuffer, NewBuffer, CommitCall, FlushCall,
          RecordCall, SyncCall, BatchEnter, BatchExit, EncoderEnter,
          EncoderExit, Encode, ReadbackCall, OpOpen, OpClose, ContCount,
          ContDecide, ContReset, FlushLock, Resume, RecordDecide, SyncLock,
          BatchSet, Restore, EncoderOpen, ReadbackWait, ReadbackCopy
  <2> QED BY <2>1
<1>2. ASSUME AcquireFirst(t) PROVE SlotTypes'
  BY <1>2 DEF AcquireFirst, At, Go, TakeSlot, HasSlot
<1>3. ASSUME NothingToCommit(t) PROVE SlotTypes'
  BY <1>3 DEF NothingToCommit, LoseSlot, Free, At, Go
<1>4. ASSUME ContCommit(t) PROVE SlotTypes'
  BY <1>4 DEF ContCommit, At, Go, Free, CommitActive, PassSlot, NewBuffer
<1>5. ASSUME Commit(t) PROVE SlotTypes'
  BY <1>5 DEF Commit, At, Go, Free, CommitActive, PassSlot
<1>6. ASSUME FlushCommit(t) PROVE SlotTypes'
  BY <1>6 DEF FlushCommit, At, Go, Resume, TakeSlotForBuffer, HasSlot,
      CommitActive, NewBuffer
<1>7. ASSUME SyncCommit(t) PROVE SlotTypes'
  BY <1>7 DEF SyncCommit, At, Go, TakeSlotForBuffer, HasSlot, CommitActive
<1>8. ASSUME Collect(t) PROVE SlotTypes'
  BY <1>8 DEF Collect, At, Go, TakeSlot, HasSlot
<1>9. ASSUME Release(t) PROVE SlotTypes'
  BY <1>9 DEF Release, At, Go
<1>10. ASSUME Rotate(t) PROVE SlotTypes'
  BY <1>10 DEF Rotate, At, Go, TakeSlotForBuffer, HasSlot, CommitActive,
      NewBuffer
<1> QED BY <1>1, <1>2, <1>3, <1>4, <1>5, <1>6, <1>7, <1>8, <1>9, <1>10 DEF Client, Step

(* Only the active buffer, which is the last one created, is ever committed. *)
LEMMA BufferStep ==
  ASSUME TypeOK, MuHolder,
         NEW t \in Threads, Client(t) \/ Step(t)
  PROVE  BufferTypes'
<1> USE PipelineAssumption DEF TypeOK, BufferTypes, PlaceTypes, MuHolder,
        slotVars, bufVars, encVars, cntVars, opVars, ctlVars
<1>1. ASSUME CommitCall(t) \/ FlushCall(t) \/ RecordCall(t) \/ BatchEnter(t) \/
              BatchExit(t) \/ EncoderEnter(t) \/ EncoderExit(t) \/
              ContCount(t) \/ ContDecide(t) \/ ContReset(t) \/
              AcquireFirst(t) \/ NothingToCommit(t) \/ FlushLock(t) \/
              RecordDecide(t) \/ SyncLock(t) \/ Collect(t) \/ Release(t) \/
              BatchSet(t) \/ Restore(t) \/ ReadbackWait(t) \/ ReadbackCopy(t)
      PROVE  BufferTypes'
  <2>1. UNCHANGED <<bufVars, opVars, mark, wait>>
    BY <1>1 DEF CommitCall, Call, FlushCall, RecordCall, BatchEnter, BatchExit,
          EncoderEnter, EncoderExit, ContCount, ContDecide, ContReset,
          AcquireFirst, TakeSlot, NothingToCommit, LoseSlot, FlushLock, Resume,
          RecordDecide, SyncLock, Collect, Release, BatchSet, Restore,
          ReadbackWait, ReadbackCopy
  <2> QED BY <2>1
<1>2. ASSUME OpBegin(t) PROVE BufferTypes'
  BY <1>2 DEF OpBegin, Call, EnsureBuffer, NewBuffer, Free, At, Go
<1>3. ASSUME SyncCall(t) PROVE BufferTypes'
  BY <1>3 DEF SyncCall, Call, At, Go
<1>4. ASSUME Encode(t) PROVE BufferTypes'
  <2>1. dirty' \subseteq dirty \cup {<<t, active_encoder, calls + 1>>}
    BY <1>4 DEF Encode, Call
  <2>2. dirty' \subseteq Threads \X Nat \X Nat
    BY <2>1 DEF ModeTypes
  <2>3. UNCHANGED <<active, created, gpu, buf, open, mark, wait>>
    BY <1>4 DEF Encode
  <2> QED BY <2>2, <2>3
<1>5. ASSUME ReadbackCall(t) PROVE BufferTypes'
  BY <1>5 DEF ReadbackCall, Call, At, Go
<1>6. ASSUME OpOpen(t) PROVE BufferTypes'
  BY <1>6 DEF OpOpen, At, Go
<1>7. ASSUME OpClose(t) PROVE BufferTypes'
  BY <1>7 DEF OpClose, At, Go, ModeTypes
<1>8. ASSUME ContCommit(t) PROVE BufferTypes'
  BY <1>8 DEF ContCommit, At, Go, Free, CommitActive, PassSlot, NewBuffer
<1>9. ASSUME Commit(t) PROVE BufferTypes'
  BY <1>9 DEF Commit, At, Go, Free, CommitActive, PassSlot
<1>10. ASSUME FlushCommit(t) PROVE BufferTypes'
  BY <1>10 DEF FlushCommit, At, Go, Resume, TakeSlotForBuffer, HasSlot,
      CommitActive, NewBuffer
<1>11. ASSUME SyncCommit(t) PROVE BufferTypes'
  BY <1>11 DEF SyncCommit, At, Go, TakeSlotForBuffer, HasSlot, CommitActive
<1>12. ASSUME EncoderOpen(t) PROVE BufferTypes'
  BY <1>12 DEF EncoderOpen, At, Go, Free, EnsureBuffer, NewBuffer
<1>13. ASSUME Rotate(t) PROVE BufferTypes'
  <2>1. created' \in Nat /\ active' = created' /\ created' = created + 1
    BY <1>13 DEF Rotate, NewBuffer
  <2>2. gpu' \subseteq gpu \cup {active} /\ (active = 0 => gpu' = gpu)
    BY <1>13 DEF Rotate, CommitActive
  <2>3. gpu' \subseteq 1 .. created' /\ active' \notin gpu'
    BY <2>1, <2>2
  <2>4. dirty' \subseteq Threads \X Nat \X Nat
    BY <2>1, <1>13 DEF Rotate, ModeTypes
  <2>5. UNCHANGED <<buf, open, mark, wait>>
    BY <1>13 DEF Rotate
  <2> QED BY <2>1, <2>3, <2>4, <2>5
<1> QED BY <1>1, <1>2, <1>3, <1>4, <1>5, <1>6, <1>7, <1>8, <1>9, <1>10, <1>11,
    <1>12, <1>13 DEF Client, Step

(* The flags and counters; what a scope saved is what was read.             *)
LEMMA ModeStep ==
  ASSUME TypeOK, Destructing,
         NEW t \in Threads, Client(t) \/ Step(t)
  PROVE  ModeTypes'
<1> USE PipelineAssumption DEF TypeOK, BufferTypes, ModeTypes, PlaceTypes,
        Destructing, slotVars, bufVars, encVars, cntVars, opVars, ctlVars
<1>1. ASSUME OpBegin(t) PROVE ModeTypes'
  BY <1>1 DEF OpBegin, Call, EnsureBuffer, NewBuffer, Free, At, Go
<1>2. ASSUME CommitCall(t) PROVE ModeTypes'
  BY <1>2 DEF CommitCall, Call, At, Go
<1>3. ASSUME FlushCall(t) PROVE ModeTypes'
  BY <1>3 DEF FlushCall, Call, At, Go
<1>4. ASSUME RecordCall(t) PROVE ModeTypes'
  BY <1>4 DEF RecordCall, Call, At, Go
<1>5. ASSUME SyncCall(t) PROVE ModeTypes'
  BY <1>5 DEF SyncCall, Call, At, Go
<1>6. ASSUME BatchEnter(t) PROVE ModeTypes'
  BY <1>6, StackFacts DEF BatchEnter, Scope, Call, At, Go
<1>7. ASSUME BatchExit(t) PROVE ModeTypes'
  BY <1>7 DEF BatchExit, At, Go
<1>8. ASSUME EncoderEnter(t) PROVE ModeTypes'
  BY <1>8, StackFacts DEF EncoderEnter, Scope, Call, At, Go
<1>9. ASSUME EncoderExit(t) PROVE ModeTypes'
  <2>1. Head(scopes[t]) \in Scope
    BY <1>9, StackFacts DEF EncoderExit
  <2>2. encoder_scope_active' \in BOOLEAN
    BY <2>1, <1>9 DEF EncoderExit, Scope
  <2>3. active_encoder' \in Nat /\ encoder_op_count' \in Nat
    BY <1>9 DEF EncoderExit
  <2>4. UNCHANGED <<lazy0, lazy_commit, op_count, count, calls, scopes>>
    BY <1>9 DEF EncoderExit
  <2> QED BY <2>2, <2>3, <2>4
<1>10. ASSUME Encode(t) PROVE ModeTypes'
  BY <1>10 DEF Encode, Call, At, Go, Free
<1>11. ASSUME ReadbackCall(t) PROVE ModeTypes'
  BY <1>11 DEF ReadbackCall, Call, At, Go
<1>12. ASSUME OpOpen(t) PROVE ModeTypes'
  BY <1>12 DEF OpOpen, At, Go
<1>13. ASSUME OpClose(t) PROVE ModeTypes'
  BY <1>13 DEF OpClose, At, Go
<1>14. ASSUME ContCount(t) PROVE ModeTypes'
  BY <1>14 DEF ContCount, At, Go
<1>15. ASSUME ContDecide(t) PROVE ModeTypes'
  BY <1>15 DEF ContDecide, At, Go
<1>16. ASSUME ContReset(t) PROVE ModeTypes'
  BY <1>16 DEF ContReset, At, Go
<1>17. ASSUME AcquireFirst(t) PROVE ModeTypes'
  BY <1>17 DEF AcquireFirst, At, Go, TakeSlot, HasSlot
<1>18. ASSUME NothingToCommit(t) PROVE ModeTypes'
  BY <1>18 DEF NothingToCommit, LoseSlot, Free, At, Go
<1>19. ASSUME ContCommit(t) PROVE ModeTypes'
  BY <1>19 DEF ContCommit, At, Go, Free, CommitActive, PassSlot, NewBuffer
<1>20. ASSUME Commit(t) PROVE ModeTypes'
  BY <1>20 DEF Commit, At, Go, Free, CommitActive, PassSlot
<1>21. ASSUME FlushLock(t) PROVE ModeTypes'
  BY <1>21 DEF FlushLock, At, Go, Free, Resume
<1>22. ASSUME FlushCommit(t) PROVE ModeTypes'
  BY <1>22 DEF FlushCommit, At, Go, Resume, TakeSlotForBuffer, HasSlot,
      CommitActive, NewBuffer
<1>23. ASSUME RecordDecide(t) PROVE ModeTypes'
  BY <1>23 DEF RecordDecide, At, Go
<1>24. ASSUME SyncLock(t) PROVE ModeTypes'
  BY <1>24 DEF SyncLock, At, Go, Free
<1>25. ASSUME SyncCommit(t) PROVE ModeTypes'
  BY <1>25 DEF SyncCommit, At, Go, TakeSlotForBuffer, HasSlot, CommitActive
<1>26. ASSUME Collect(t) PROVE ModeTypes'
  BY <1>26 DEF Collect, At, Go, TakeSlot, HasSlot
<1>27. ASSUME Release(t) PROVE ModeTypes'
  BY <1>27 DEF Release, At, Go
<1>28. ASSUME BatchSet(t) PROVE ModeTypes'
  BY <1>28 DEF BatchSet, At, Go
<1>29. ASSUME Restore(t) PROVE ModeTypes'
  <2>1. scopes[t] # <<>> /\ scopes[t] \in Seq(Scope)
    BY <1>29 DEF Restore, At
  <2>2. Head(scopes[t]) \in Scope /\ Tail(scopes[t]) \in Seq(Scope)
    BY <2>1, StackFacts
  <2>3. lazy_commit' \in BOOLEAN
    BY <2>2, <1>29 DEF Restore, Scope
  <2>4. scopes' \in [Threads -> Seq(Scope)]
    BY <2>2, <1>29 DEF Restore
  <2>5. UNCHANGED <<encVars, cntVars, calls>>
    BY <1>29 DEF Restore
  <2> QED BY <2>3, <2>4, <2>5
<1>30. ASSUME EncoderOpen(t) PROVE ModeTypes'
  BY <1>30 DEF EncoderOpen, At, Go, Free, EnsureBuffer, NewBuffer
<1>31. ASSUME Rotate(t) PROVE ModeTypes'
  BY <1>31 DEF Rotate, At, Go, TakeSlotForBuffer, HasSlot, CommitActive,
      NewBuffer
<1>32. ASSUME ReadbackWait(t) PROVE ModeTypes'
  BY <1>32 DEF ReadbackWait, At, Go
<1>33. ASSUME ReadbackCopy(t) PROVE ModeTypes'
  BY <1>33 DEF ReadbackCopy, At, Go
<1> QED BY <1>1, <1>2, <1>3, <1>4, <1>5, <1>6, <1>7, <1>8, <1>9, <1>10, <1>11,
    <1>12, <1>13, <1>14, <1>15, <1>16, <1>17, <1>18, <1>19, <1>20, <1>21,
    <1>22, <1>23, <1>24, <1>25, <1>26, <1>27, <1>28, <1>29, <1>30, <1>31,
    <1>32, <1>33 DEF Client, Step

-------------------------------------------------------------------------------
(* The account of the slots.                                               *)

Conserved == IsFiniteSet(SlotHolders) /\ SlotsConserved

LEMMA AddHolder ==
  ASSUME Conserved, NEW h, h \notin SlotHolders, SlotHolders' = SlotHolders \cup {h},
         in_flight' = in_flight + 1
  PROVE  Conserved'
BY FS_AddElement DEF Conserved, SlotsConserved

LEMMA RemoveHolder ==
  ASSUME Conserved, NEW h \in SlotHolders, SlotHolders' = SlotHolders \ {h},
         in_flight' = in_flight - 1
  PROVE  Conserved'
BY FS_RemoveElement DEF Conserved, SlotsConserved

LEMMA ReplaceHolder ==
  ASSUME Conserved, NEW g \in SlotHolders, NEW h, h \notin SlotHolders,
         SlotHolders' = (SlotHolders \ {g}) \cup {h}, in_flight' = in_flight
  PROVE  Conserved'
<1>1. IsFiniteSet(SlotHolders \ {g})
      /\ Cardinality(SlotHolders \ {g}) = Cardinality(SlotHolders) - 1
  BY FS_RemoveElement DEF Conserved
<1>2. IsFiniteSet(SlotHolders')
      /\ Cardinality(SlotHolders') = Cardinality(SlotHolders \ {g}) + 1
  BY <1>1, FS_AddElement
<1>3. Cardinality(SlotHolders) \in Nat
  BY FS_CardinalityType DEF Conserved
<1> QED BY <1>1, <1>2, <1>3 DEF Conserved, SlotsConserved

(* A slot that has a holder is counted. *)
LEMMA Counted ==
  ASSUME Conserved, NEW h \in SlotHolders
  PROVE  in_flight \in Nat \ {0}
BY FS_CardinalityType, FS_EmptySet DEF Conserved, SlotsConserved

(* acquire() by a thread, with or without mu. *)
LEMMA TakeSlotConserves ==
  ASSUME TypeOK, Conserved, NEW t \in Threads, held[t] < Slots, TakeSlot(t), gpu' = gpu
  PROVE  Conserved' /\ in_flight' \in 0 .. Slots
<1>1. SlotHolders' = SlotHolders \cup {<<"thread", t, held[t] + 1>>}
  BY PipelineAssumption DEF TypeOK, SlotTypes, SlotHolders, TakeSlot
<1>2. <<"thread", t, held[t] + 1>> \notin SlotHolders
  BY DEF TypeOK, SlotTypes, SlotHolders
<1>3. in_flight' = in_flight + 1 /\ in_flight' \in 0 .. Slots
  BY PipelineAssumption DEF TakeSlot, HasSlot, TypeOK, SlotTypes
<1> QED BY <1>1, <1>2, <1>3, AddHolder

(* The commit of the active buffer takes a slot, or is passed one. *)
LEMMA CommitConserves ==
  ASSUME TypeOK, Conserved, active # 0, CommitActive
  PROVE  /\ TakeSlotForBuffer => Conserved' /\ in_flight' \in 0 .. Slots
         /\ \A t \in Threads : held[t] > 0 /\ PassSlot(t)
              => Conserved' /\ in_flight' \in 0 .. Slots
<1> DEFINE h == <<"buffer", active, 0>>
<1>1. h \notin SlotHolders
  BY DEF TypeOK, BufferTypes, SlotHolders
<1>2. ASSUME TakeSlotForBuffer PROVE Conserved' /\ in_flight' \in 0 .. Slots
  <2>1. SlotHolders' = SlotHolders \cup {h}
    BY <1>2 DEF SlotHolders, TakeSlotForBuffer, CommitActive
  <2>2. in_flight' = in_flight + 1 /\ in_flight' \in 0 .. Slots
    BY <1>2, PipelineAssumption DEF TakeSlotForBuffer, HasSlot, TypeOK, SlotTypes
  <2> HIDE DEF h
  <2> QED BY <1>1, <2>1, <2>2, AddHolder
<1>3. ASSUME NEW t \in Threads, held[t] > 0, PassSlot(t)
      PROVE  Conserved' /\ in_flight' \in 0 .. Slots
  <2> DEFINE g == <<"thread", t, held[t]>>
  <2>1. g \in SlotHolders
    BY <1>3 DEF TypeOK, SlotTypes, SlotHolders
  <2>2. SlotHolders' = (SlotHolders \ {g}) \cup {h}
    BY <1>3 DEF TypeOK, SlotTypes, SlotHolders, PassSlot, CommitActive
  <2>3. in_flight' = in_flight /\ in_flight' \in 0 .. Slots
    BY <1>3 DEF PassSlot, TypeOK, SlotTypes
  <2> HIDE DEF g, h
  <2> QED BY <1>1, <2>1, <2>2, <2>3, ReplaceHolder
<1> QED BY <1>2, <1>3

(* The steps that lose a slot keep it on the account. *)
LEMMA LossConserves ==
  ASSUME TypeOK, Conserved, gpu' = gpu
  PROVE  /\ \A t \in Threads : held[t] > 0 /\ LoseSlot(t)
              => Conserved' /\ in_flight' \in 0 .. Slots
         /\ HasSlot /\ in_flight' = in_flight + 1 /\ leaked' = leaked + 1 /\ held' = held
              => Conserved' /\ in_flight' \in 0 .. Slots
<1> DEFINE h == <<"lost", leaked + 1, 0>>
<1>1. h \notin SlotHolders
  BY DEF TypeOK, SlotTypes, SlotHolders
<1>2. ASSUME NEW t \in Threads, held[t] > 0, LoseSlot(t)
      PROVE  Conserved' /\ in_flight' \in 0 .. Slots
  <2> DEFINE g == <<"thread", t, held[t]>>
  <2>1. g \in SlotHolders
    BY <1>2 DEF TypeOK, SlotTypes, SlotHolders
  <2>2. SlotHolders' = (SlotHolders \ {g}) \cup {h}
    BY <1>2 DEF TypeOK, SlotTypes, SlotHolders, LoseSlot
  <2>3. in_flight' = in_flight /\ in_flight' \in 0 .. Slots
    BY <1>2 DEF LoseSlot, TypeOK, SlotTypes
  <2> HIDE DEF g, h
  <2> QED BY <1>1, <2>1, <2>2, <2>3, ReplaceHolder
<1>3. ASSUME HasSlot, in_flight' = in_flight + 1, leaked' = leaked + 1, held' = held
      PROVE  Conserved' /\ in_flight' \in 0 .. Slots
  <2>1. SlotHolders' = SlotHolders \cup {h}
    BY <1>3 DEF TypeOK, SlotTypes, SlotHolders
  <2>2. in_flight' \in 0 .. Slots
    BY <1>3, PipelineAssumption DEF HasSlot, TypeOK, SlotTypes
  <2> HIDE DEF h
  <2> QED BY <1>1, <1>3, <2>1, <2>2, AddHolder
<1> QED BY <1>2, <1>3

(* release() by synchronize() and by the completion handler. *)
LEMMA ReleaseConserves ==
  ASSUME TypeOK, HeldByPC, Conserved, NEW t \in Threads, Release(t)
  PROVE  Conserved' /\ in_flight' \in 0 .. Slots
<1> DEFINE g == <<"thread", t, held[t]>>
<1>1. held[t] > 0
  BY DEF Release, At, HeldByPC
<1>2. g \in SlotHolders
  BY <1>1 DEF TypeOK, SlotTypes, SlotHolders
<1>3. SlotHolders' = SlotHolders \ {g}
  BY <1>1 DEF TypeOK, SlotTypes, SlotHolders, Release, bufVars
<1>4. in_flight' = in_flight - 1
  BY DEF Release
<1> HIDE DEF g
<1>5. in_flight' \in 0 .. Slots
  BY <1>2, <1>4, Counted, PipelineAssumption DEF TypeOK, SlotTypes
<1> QED BY <1>2, <1>3, <1>4, <1>5, RemoveHolder

LEMMA CompleteConserves ==
  ASSUME TypeOK, Conserved, GpuComplete
  PROVE  Conserved' /\ in_flight' \in 0 .. Slots
<1>1. PICK b \in gpu : gpu' = gpu \ {b} /\ in_flight' = in_flight - 1
                       /\ UNCHANGED <<held, leaked>>
  BY DEF GpuComplete
<1> DEFINE g == <<"buffer", b, 0>>
<1>2. g \in SlotHolders /\ SlotHolders' = SlotHolders \ {g}
  BY <1>1 DEF SlotHolders
<1> HIDE DEF g
<1>3. in_flight' \in 0 .. Slots
  BY <1>1, <1>2, Counted, PipelineAssumption DEF TypeOK, SlotTypes
<1> QED BY <1>1, <1>2, <1>3, RemoveHolder

LEMMA AccountStep ==
  ASSUME TypeOK, HeldByPC, MuHolder, Conserved,
         NEW t \in Threads, Client(t) \/ Step(t)
  PROVE  Conserved' /\ in_flight' \in 0 .. Slots
<1>1. ASSUME UNCHANGED <<slotVars, gpu>> PROVE Conserved' /\ in_flight' \in 0 .. Slots
  BY <1>1 DEF slotVars, Conserved, SlotsConserved, SlotHolders, TypeOK, SlotTypes
<1>2. CASE AcquireFirst(t) \/ Collect(t)
  <2>1. held[t] < Slots /\ TakeSlot(t) /\ gpu' = gpu
    BY <1>2, PipelineAssumption DEF AcquireFirst, Collect, At, HeldByPC, bufVars
  <2> QED BY <2>1, TakeSlotConserves
<1>3. CASE ContCommit(t) \/ Commit(t)
  <2>1. active # 0 /\ CommitActive /\ held[t] > 0 /\ PassSlot(t)
    BY <1>3 DEF ContCommit, Commit, At, HeldByPC
  <2> QED BY <2>1, CommitConserves
<1>4. CASE FlushCommit(t) \/ SyncCommit(t)
  <2>1. active # 0 /\ CommitActive /\ TakeSlotForBuffer
    BY <1>4 DEF FlushCommit, SyncCommit, At, MuHolder
  <2> QED BY <2>1, CommitConserves
<1>5. CASE NothingToCommit(t)
  <2>1. held[t] > 0 /\ LoseSlot(t) /\ gpu' = gpu
    BY <1>5 DEF NothingToCommit, HeldByPC, bufVars
  <2> QED BY <2>1, LossConserves
<1>6. CASE Rotate(t)
  BY <1>6, CommitConserves, LossConserves DEF Rotate
<1>7. CASE Release(t)
  BY <1>7, ReleaseConserves
<1>8. CASE OpBegin(t) \/ CommitCall(t) \/ FlushCall(t) \/ RecordCall(t) \/ SyncCall(t)
           \/ BatchEnter(t) \/ BatchExit(t) \/ EncoderEnter(t) \/ EncoderExit(t)
           \/ Encode(t) \/ ReadbackCall(t) \/ OpOpen(t) \/ OpClose(t) \/ ContCount(t)
           \/ ContDecide(t) \/ ContReset(t) \/ FlushLock(t) \/ RecordDecide(t)
           \/ SyncLock(t) \/ BatchSet(t) \/ Restore(t) \/ EncoderOpen(t)
           \/ ReadbackWait(t) \/ ReadbackCopy(t)
  <2>1. UNCHANGED <<slotVars, gpu>>
    BY <1>8 DEF OpBegin, CommitCall, FlushCall, RecordCall, SyncCall, BatchEnter,
       BatchExit, EncoderEnter, EncoderExit, Encode, ReadbackCall, OpOpen, OpClose,
       ContCount, ContDecide, ContReset, FlushLock, RecordDecide, SyncLock, BatchSet,
       Restore, EncoderOpen, ReadbackWait, ReadbackCopy, bufVars, slotVars
  <2> QED BY <1>1, <2>1
<1> QED BY <1>2, <1>3, <1>4, <1>5, <1>6, <1>7, <1>8 DEF Client, Step

-------------------------------------------------------------------------------
(* What synchronize() waits for.                                           *)

(* Whoever holds all the slots is alone: the GPU has no buffer. *)
LEMMA AllSlots ==
  ASSUME SlotTypes', Conserved', NEW t \in Threads, held'[t] = Slots
  PROVE  gpu' = {}
<1> SUFFICES ASSUME NEW b \in gpu' PROVE FALSE
  OBVIOUS
<1> DEFINE T == 1 .. (Slots + 1)
           f == [k \in T |-> IF k <= Slots THEN <<"thread", t, k>> ELSE <<"buffer", b, 0>>]
<1>1. f \in [T -> SlotHolders']
  BY PipelineAssumption DEF SlotHolders
<1>2. \A j, k \in T : f[j] = f[k] => j = k
  BY PipelineAssumption
<1>3. f \in Injection(T, SlotHolders')
  BY <1>1, <1>2 DEF Injection, IsInjective
<1>4. Cardinality(T) = Slots + 1
  BY FS_Interval, PipelineAssumption
<1> HIDE DEF T, f
<1>5. Cardinality(T) <= Cardinality(SlotHolders')
  BY <1>3, FS_Injection DEF Conserved
<1> QED BY <1>4, <1>5, PipelineAssumption DEF Conserved, SlotsConserved, SlotTypes

LEMMA SyncStep ==
  ASSUME TypeOK, TypeOK', Conserved', MuHolder, SyncProgress, SyncComplete,
         NEW t \in Threads, Client(t) \/ Step(t)
  PROVE  SyncProgress' /\ SyncComplete'
<1> USE DEF SyncProgress, SyncComplete
<1>0. /\ created \in Nat /\ active \in {0, created}
      /\ mark \in [Threads -> Nat] /\ pc \in [Threads -> PC] /\ gpu \subseteq Nat
  BY DEF TypeOK, BufferTypes, PlaceTypes
(* The active buffer and the buffers on the GPU change only so. *)
<1>1. /\ active' \in {0, active} \/ active' = created + 1
      /\ created' \in {created, created + 1} /\ (active' = created + 1 => created' = active')
      /\ gpu' \subseteq gpu \cup {active}
  BY <1>0 DEF Client, Step, OpBegin, CommitCall, FlushCall, RecordCall, SyncCall,
       BatchEnter, BatchExit, EncoderEnter, EncoderExit, Encode, ReadbackCall, OpOpen,
       OpClose, ContCount, ContDecide, ContReset, AcquireFirst, NothingToCommit,
       ContCommit, Commit, FlushLock, FlushCommit, RecordDecide, SyncLock, SyncCommit,
       Collect, Release, BatchSet, Restore, EncoderOpen, Rotate, ReadbackWait,
       ReadbackCopy, bufVars, EnsureBuffer, NewBuffer, CommitActive
(* Only its own synchronize() moves a thread's mark, and gets it to collect. *)
<1>2. CASE SyncCall(t)
  <2>1. \A u \in Threads : /\ mark'[u] \in {mark[u], created}
                           /\ pc'[u] \in {"collect", "release"} => pc'[u] = pc[u] /\ mark'[u] = mark[u]
    BY <1>0, <1>2 DEF SyncCall, Go
  <2>2. UNCHANGED <<active, created, gpu>>
    BY <1>2 DEF SyncCall, bufVars
  <2> QED BY <1>0, <2>1, <2>2
<1>3. CASE ~SyncCall(t)
  <2>1. mark' = mark
    BY <1>3 DEF Client, Step, OpBegin, CommitCall, FlushCall, RecordCall,
       BatchEnter, BatchExit, EncoderEnter, EncoderExit, Encode, ReadbackCall, OpOpen,
       OpClose, ContCount, ContDecide, ContReset, AcquireFirst, NothingToCommit,
       ContCommit, Commit, FlushLock, FlushCommit, RecordDecide, SyncLock, SyncCommit,
       Collect, Release, BatchSet, Restore, EncoderOpen, Rotate, ReadbackWait,
       ReadbackCopy, ctlVars
  <2>2. \A u \in Threads : pc'[u] \in {"collect", "release"}
                             => pc[u] \in {"collect", "release"} \/ active' = 0
    <3>1. CASE SyncLock(t) \/ SyncCommit(t)
      BY <1>0, <3>1 DEF SyncLock, SyncCommit, Go, bufVars
    <3>2. CASE Collect(t) \/ Release(t)
      BY <1>0, <3>2 DEF Collect, Release, Go, At
    <3>3. CASE ~(SyncLock(t) \/ SyncCommit(t) \/ Collect(t) \/ Release(t))
      BY <1>0, <1>3, <3>3 DEF Client, Step, OpBegin, CommitCall, FlushCall, RecordCall,
         BatchEnter, BatchExit, EncoderEnter, EncoderExit, Encode, ReadbackCall, OpOpen,
         OpClose, ContCount, ContDecide, ContReset, AcquireFirst, NothingToCommit,
         ContCommit, Commit, FlushLock, FlushCommit, RecordDecide, BatchSet, Restore,
         EncoderOpen, Rotate, ReadbackWait, ReadbackCopy, Go, Resume
    <3> QED BY <3>1, <3>2, <3>3
  <2>3. \A u \in Threads : pc'[u] = "release" => pc[u] = "release" \/ held'[u] = Slots
    <3>1. CASE Collect(t)
      BY <1>0, <3>1 DEF Collect, Go
    <3>2. CASE ~Collect(t)
      BY <1>0, <1>3, <3>2 DEF Client, Step, OpBegin, CommitCall, FlushCall, RecordCall,
         BatchEnter, BatchExit, EncoderEnter, EncoderExit, Encode, ReadbackCall, OpOpen,
         OpClose, ContCount, ContDecide, ContReset, AcquireFirst, NothingToCommit,
         ContCommit, Commit, FlushLock, FlushCommit, RecordDecide, SyncLock, SyncCommit,
         Release, BatchSet, Restore, EncoderOpen, Rotate, ReadbackWait, ReadbackCopy,
         Go, Resume, At
    <3> QED BY <3>1, <3>2
  <2>4. SyncProgress'
    BY <1>0, <1>1, <2>1, <2>2
  <2>5. SlotTypes'
    BY DEF TypeOK
  <2>6. \A u \in Threads : pc'[u] = "release" => pc[u] = "release" \/ gpu' = {}
    BY <2>3, <2>5, AllSlots
  <2> QED BY <1>0, <1>1, <2>1, <2>4, <2>6
<1> QED BY <1>2, <1>3

-------------------------------------------------------------------------------
(* The invariant, and what follows from it.                                *)

LEMMA InitInvariant == Init => IInv
<1> SUFFICES ASSUME Init PROVE IInv
  OBVIOUS
<1>1. TypeOK
  <2>1. SlotTypes
    BY PipelineAssumption DEF Init, SlotTypes
  <2>2. BufferTypes
    BY DEF Init, BufferTypes
  <2>3. ModeTypes
    <3>1. <<>> \in Seq(Scope)
      BY EmptySeq
    <3> QED BY <3>1, PipelineAssumption DEF Init, ModeTypes
  <2>4. PlaceTypes
    BY DEF Init, PlaceTypes, PC, Continuation
  <2> QED BY <2>1, <2>2, <2>3, <2>4 DEF TypeOK
<1>2. /\ mu \notin Threads /\ created = 0 /\ active = 0 /\ gpu = {}
      /\ \A t \in Threads : pc[t] = "idle" /\ held[t] = 0 /\ mark[t] = 0
  BY PipelineAssumption DEF Init
<1>2a. HeldByPC /\ MuHolder /\ Destructing
  BY <1>2 DEF HeldByPC, MuHolder, Destructing
<1>2b. SyncProgress /\ SyncComplete
  BY <1>2 DEF SyncProgress, SyncComplete
<1>3. SlotHolders = {}
  BY DEF Init, SlotHolders
<1>4. IsFiniteSet(SlotHolders) /\ SlotsConserved
  BY <1>3, FS_EmptySet DEF SlotsConserved, Init
<1> QED BY <1>1, <1>2a, <1>2b, <1>4 DEF IInv

LEMMA StepInvariant ==
  ASSUME IInv, NEW t \in Threads, Client(t) \/ Step(t)
  PROVE  IInv'
<1> USE DEF IInv
<1>1. Conserved' /\ in_flight' \in 0 .. Slots
  BY AccountStep DEF Conserved
<1>2. TypeOK'
  <2>1. SlotTypes' BY <1>1, SlotStep
  <2>2. PlaceTypes' BY PlaceStep
  <2>3. BufferTypes' BY BufferStep
  <2>4. ModeTypes' BY ModeStep
  <2> QED BY <2>1, <2>2, <2>3, <2>4 DEF TypeOK
<1>3. HeldByPC' BY HeldStep
<1>4. MuHolder' BY MuStep
<1>5. Destructing' BY DestructStep
<1>6. SyncProgress' /\ SyncComplete'
  BY <1>1, <1>2, SyncStep
<1> QED BY <1>1, <1>2, <1>3, <1>4, <1>5, <1>6 DEF Conserved

LEMMA CompleteInvariant ==
  ASSUME IInv, GpuComplete
  PROVE  IInv'
<1>1. Conserved' /\ in_flight' \in 0 .. Slots
  BY CompleteConserves DEF IInv, Conserved
<1>2. TypeOK'
  BY <1>1 DEF IInv, TypeOK, SlotTypes, BufferTypes, ModeTypes, PlaceTypes, GpuComplete,
       encVars, cntVars, opVars, ctlVars
<1>3. gpu' \subseteq gpu /\ UNCHANGED <<held, mu, active, created, pc, ctlVars>>
  BY DEF GpuComplete
<1>4. HeldByPC' /\ MuHolder' /\ Destructing' /\ SyncProgress' /\ SyncComplete'
  BY <1>3 DEF IInv, HeldByPC, MuHolder, Destructing, SyncProgress, SyncComplete, ctlVars
<1> QED BY <1>1, <1>2, <1>4 DEF IInv, Conserved

(* IInv holds in every reachable state.                                    *)
THEOREM Invariance == Spec => []IInv
<1>1. Init => IInv
  BY InitInvariant
<1>2. IInv /\ [Next]_vars => IInv'
  <2>1. ASSUME IInv, UNCHANGED vars PROVE IInv'
    BY <2>1 DEF IInv, vars, slotVars, bufVars, encVars, cntVars, opVars, ctlVars, TypeOK,
         SlotTypes, BufferTypes, ModeTypes, PlaceTypes, HeldByPC, MuHolder, Destructing,
         SlotHolders, SlotsConserved, SyncProgress, SyncComplete
  <2> QED BY <2>1, StepInvariant, CompleteInvariant DEF Next
<1> QED BY <1>1, <1>2, PTL DEF Spec

(* Types: in_flight_ never passes buffer_count, a buffer is committed once. *)
THEOREM TypeCorrect == Spec => []TypeOK
<1>1. IInv => TypeOK
  BY DEF IInv
<1> QED BY <1>1, Invariance, PTL

(* Every slot the controller counts has exactly one holder: a buffer on the *)
(* GPU, a thread between acquire() and the commit or release() it is for,  *)
(* or the account of those lost when there was no buffer to commit.        *)
THEOREM SlotsAccounted == Spec => []SlotsConserved
<1>1. IInv => SlotsConserved
  BY DEF IInv
<1> QED BY <1>1, Invariance, PTL

(* When synchronize() has collected its slots, every buffer created before *)
(* it was called has completed, and none of them is still the active one.  *)
THEOREM SynchronizeWaits == Spec => []SyncComplete
<1>1. IInv => SyncComplete
  BY DEF IInv
<1> QED BY <1>1, Invariance, PTL

(* The GPU is never behind by more than buffer_count command buffers,      *)
(* however many threads submit ("default: 3 buffers").                     *)
GpuBounded == Cardinality(gpu) <= Slots

THEOREM ThrottleHolds == Spec => []GpuBounded
<1>1. IInv => GpuBounded
  <2> SUFFICES ASSUME IInv PROVE GpuBounded
    OBVIOUS
  <2> DEFINE f == [b \in gpu |-> <<"buffer", b, 0>>]
  <2>1. f \in [gpu -> SlotHolders] /\ \A b, c \in gpu : f[b] = f[c] => b = c
    BY DEF SlotHolders
  <2>2. f \in Injection(gpu, SlotHolders)
    BY <2>1 DEF Injection, IsInjective
  <2> HIDE DEF f
  <2>3. Cardinality(gpu) <= Cardinality(SlotHolders) /\ IsFiniteSet(gpu)
    BY <2>2, FS_Injection DEF IInv
  <2>4. Cardinality(gpu) \in Nat
    BY <2>3, FS_CardinalityType
  <2> QED BY <2>3, <2>4, PipelineAssumption DEF GpuBounded, IInv, SlotsConserved, TypeOK, SlotTypes
<1> QED BY <1>1, Invariance, PTL
===============================================================================
