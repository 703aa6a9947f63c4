--------------------------- MODULE MCCommandPipeline ---------------------------
(***************************************************************************)
(* Instances of CommandPipeline: which thread performs which calls.        *)
(***************************************************************************)
EXTENDS CommandPipeline

CONSTANTS t1, t2

TwoThreads == {t1, t2}
OneThread == {t1}

\* One thread synchronizes and reads back, both submit, one uses scopes of both kinds.
ThreadCalls == [t \in Threads |-> IF t = t1 THEN {"op", "record", "sync", "readback"}
                                  ELSE {"op", "opcommit", "commit", "flush", "batch", "encoder",
                                        "encode"}]
\* Operations, work for a shared encoder and scopes of both kinds.
ScopeCalls == [t \in Threads |-> {"op", "batch", "encoder", "encode", "record", "readback"}]

\* What an EncoderScope may hold: anything, or no BatchScope, which ends with a flush().
AnythingInside == CallName
NoBatchInside == {"op", "encoder", "encode", "record", "readback"}

\* Instances on which the code departs from its documentation.
LazyThreads == [t \in Threads |-> {"op"}]
TwoSyncs == [t \in Threads |-> {"op", "sync"}]
LazyReadback == [t \in Threads |-> {"op", "readback"}]
================================================================================
