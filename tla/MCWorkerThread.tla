---- MODULE MCWorkerThread ----
(* Two submitters race each other, drainers and an owner that stops and    *)
(* restarts the worker.                                                    *)
EXTENDS WorkerThread
================================
