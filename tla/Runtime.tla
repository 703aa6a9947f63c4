-------------------------------- MODULE Runtime --------------------------------
(***************************************************************************)
(* The wrappers around the extension _C: device.py, utils.py, profiling.py *)
(* and the Accelerate plugin of python/metal_native, in a program that     *)
(* uses them inside with-statements and handles exceptions.                *)
(*                                                                         *)
(* An exception that _C itself throws is a MetalNativeError, which is      *)
(* neither an ImportError nor a RuntimeError (bindings/bind_core.cpp:347). *)
(* The GPU finishes work in order.  In lazy mode an operation may stay in  *)
(* the open command buffer; when the threshold of module CommandPipeline   *)
(* is reached is left open here.                                           *)
(***************************************************************************)
EXTENDS Integers, Sequences

CONSTANTS MaxWork,        \* bound: operations given to the GPU
          MaxDepth,       \* bound: nested with-statements
          CommitModes     \* what the program gives _C.set_lazy_commit()

ASSUME RuntimeAssumption == MaxWork \in Nat /\ MaxDepth \in Nat /\ CommitModes \subseteq BOOLEAN

VARIABLES
  loaded,        \* whether _C can be imported
  device,        \* whether MNDevice::instance() finds a GPU
  lazy_commit,   \* the mode of the command pipeline
  issued,        \* operations the program has asked for,
  submitted,     \* of these, the first ones, in a committed command buffer
  done,          \* and finished by the GPU
  contexts,      \* the with-statements the program is in, the innermost last
  raised,        \* the exception on its way up, or "none"
  answered,      \* history: the last call, and what became of it
  promised       \* history: is_available() has returned True

bufferedVars == <<lazy_commit, issued, submitted>>
workVars == <<bufferedVars, done, contexts>>
runVars == <<loaded, device, workVars, raised, answered, promised>>

RunInit ==
  /\ loaded \in BOOLEAN /\ device \in BOOLEAN
  /\ lazy_commit = FALSE /\ issued = 0 /\ submitted = 0 /\ done = 0 /\ contexts = <<>> /\ raised = "none"
  /\ answered = <<"none", "none">> /\ promised = FALSE

Steady == UNCHANGED <<loaded, device>>
Works == loaded /\ device

-------------------------------------------------------------------------------
(* What a call comes to                                                        *)

\* Bindings that catch what MNDevice::instance() throws, or do not need it.
NoDevice == {"is_available", "device_name", "supports_bfloat16", "set_seed"}

\* There is no binding at all for the profiler, nor _C.memory_snapshot.
NoBinding == {"profiling_begin_capture", "profiling_end_capture",
              "profiling_sample_counters", "memory_snapshot"}

Binding(c) == IF ~loaded \/ c \in NoBinding THEN "missing"
              ELSE IF device \/ c \in NoDevice THEN "value" ELSE "MetalNativeError"

\* "except (ImportError, AttributeError)" and a RuntimeError, or a default.
Strict(c) == IF Binding(c) = "missing" THEN "RuntimeError" ELSE Binding(c)
Lenient(c) == IF Binding(c) = "missing" THEN "default" ELSE Binding(c)

\* Mutant of is_available: the default is that of the other wrappers, to go on.
IsAvailableByDefault == device \/ ~loaded

\* is_available(), of the package and of the plugin.
is_available == Works

\* begin_trace(), end_trace() and memory_snapshot() turn every exception into a
\* RuntimeError; memory_report() raises that of memory_snapshot(), and TraceContext()
\* that of begin_trace(), which comes before its try.
Rethrown(c) == IF Binding(c) = "value" THEN "value" ELSE "RuntimeError"

gpu_counters == IF Binding("profiling_sample_counters") = "value" THEN "value" ELSE "default"

get_device_info == IF is_available THEN Strict("device_properties") ELSE "default"

\* get_memory_info() of utils catches RuntimeError only.
get_memory_info == IF Strict("memory_allocated") = "RuntimeError" THEN "default"
                   ELSE Strict("memory_allocated")

\* MetalNativeAccelerator()
Accelerator == IF is_available THEN "value" ELSE "RuntimeError"

memory_report == Rethrown("memory_snapshot")

DeviceAnswers ==
  [device_name |-> Strict("device_name"), device_properties |-> Strict("device_properties"),
   supports_bfloat16 |-> Strict("supports_bfloat16"), get_device_info |-> get_device_info]

UtilsAnswers ==
  [memory_allocated |-> Strict("memory_allocated"),
   max_memory_allocated |-> Strict("max_memory_allocated"),
   empty_cache |-> Lenient("empty_cache"), reset_peak_stats |-> Lenient("reset_peak_stats"),
   get_memory_info |-> get_memory_info]

PluginAnswers ==
  [accelerator |-> Accelerator, plugin_memory_info |-> Lenient("memory_allocated")]

ProfilingAnswers ==
  [begin_trace |-> Rethrown("profiling_begin_capture"),
   end_trace |-> Rethrown("profiling_end_capture"), gpu_counters |-> gpu_counters,
   memory_report |-> memory_report]

Errors == {"RuntimeError", "MetalNativeError", "ValueError"}

\* A call ends with an outcome, an exception among them.
Ends(call, outcome) ==
  /\ raised = "none"
  /\ answered' = <<call, outcome>>
  /\ raised' = IF outcome \in Errors THEN outcome ELSE "none"

-------------------------------------------------------------------------------
(* Calls                                                                       *)

Ask(c, outcome) == Ends(c, outcome) /\ Steady /\ UNCHANGED <<workVars, promised>>

AskAvailable ==
  /\ Ends("is_available", "value")
  /\ promised' = (promised \/ is_available)
  /\ Steady /\ UNCHANGED workVars

\* MNDevice::synchronize() ends the command buffers that have been committed.
Finish(outcome) == done' = IF outcome = "value" THEN submitted ELSE done

\* synchronize(), and that of the plugin, which does not mind a missing extension.
synchronize(lenient) ==
  LET outcome == IF lenient THEN Lenient("synchronize") ELSE Strict("synchronize") IN
  /\ Ends("synchronize", outcome) /\ Finish(outcome)
  /\ Steady /\ UNCHANGED <<bufferedVars, contexts, promised>>

\* set_seed() and manual_seed(): a negative seed is refused before _C is looked for.
set_seed(seed) ==
  /\ Ends("set_seed", IF seed < 0 THEN "ValueError" ELSE Strict("set_seed"))
  /\ Steady /\ UNCHANGED <<workVars, promised>>

-------------------------------------------------------------------------------
(* The program and the GPU                                                     *)

Operate ==
  /\ Works /\ raised = "none" /\ issued < MaxWork
  /\ issued' = issued + 1
  /\ submitted' = issued' \/ (lazy_commit /\ submitted' = submitted)
  /\ Steady /\ UNCHANGED <<lazy_commit, done, contexts, raised, answered, promised>>

SetLazyCommit(enable) ==
  /\ Works /\ raised = "none" /\ lazy_commit' = enable
  /\ Steady /\ UNCHANGED <<issued, submitted, done, contexts, raised, answered, promised>>

FinishOne ==
  /\ done < submitted /\ done' = done + 1
  /\ Steady /\ UNCHANGED <<bufferedVars, contexts, raised, answered, promised>>

\* Something else in the program fails, or handles what came up.
Fail ==
  /\ raised = "none" /\ raised' = "Other"
  /\ Steady /\ UNCHANGED <<workVars, answered, promised>>

HandleException ==
  /\ raised # "none" /\ raised' = "none"
  /\ Steady /\ UNCHANGED <<workVars, answered, promised>>

-------------------------------------------------------------------------------
(* with-statements                                                             *)

Entered(kind) == /\ Len(contexts) < MaxDepth
                 /\ contexts' = Append(contexts, kind)

EnterSynchronize ==
  /\ raised = "none" /\ Entered("synchronize")
  /\ Steady /\ UNCHANGED <<bufferedVars, done, raised, answered, promised>>

\* Device(name) checks the name; to be in it means nothing.
EnterDevice(name) ==
  /\ IF name \in {"None", "metal"} THEN Ends("Device", "value") /\ Entered("device")
     ELSE Ends("Device", "ValueError") /\ UNCHANGED contexts
  /\ Steady /\ UNCHANGED <<bufferedVars, done, promised>>

Innermost == contexts[Len(contexts)]

\* The block ends, or an exception leaves it: SynchronizeContext synchronizes either
\* way, and an exception of its own takes the place of the other.
Leave ==
  LET outcome == IF Innermost = "synchronize" THEN Strict("synchronize") ELSE "none" IN
  /\ contexts # <<>> /\ contexts' = SubSeq(contexts, 1, Len(contexts) - 1)
  /\ Finish(outcome)
  /\ raised' = IF outcome \in Errors THEN outcome ELSE raised
  /\ Steady /\ UNCHANGED <<bufferedVars, answered, promised>>

RunNext ==
  \/ \E c \in DOMAIN DeviceAnswers : Ask(c, DeviceAnswers[c])
  \/ \E c \in DOMAIN UtilsAnswers : Ask(c, UtilsAnswers[c])
  \/ \E c \in DOMAIN PluginAnswers : Ask(c, PluginAnswers[c])
  \/ \E c \in DOMAIN ProfilingAnswers : Ask(c, ProfilingAnswers[c])
  \/ AskAvailable
  \/ \E lenient \in BOOLEAN : synchronize(lenient)
  \/ \E seed \in {-1, 1} : set_seed(seed)
  \/ Operate \/ \E enable \in CommitModes : SetLazyCommit(enable)
  \/ FinishOne \/ Fail \/ HandleException
  \/ EnterSynchronize \/ Leave
  \/ \E name \in {"None", "cuda"} : EnterDevice(name)

RunSpec == RunInit /\ [][RunNext]_runVars

-------------------------------------------------------------------------------
(* Properties                                                                  *)

RunTypeOK ==
  /\ loaded \in BOOLEAN /\ device \in BOOLEAN /\ promised \in BOOLEAN
  /\ issued \in 0 .. MaxWork /\ submitted \in 0 .. issued /\ done \in 0 .. submitted
  /\ lazy_commit \in BOOLEAN
  /\ contexts \in Seq({"synchronize", "device"})
  /\ raised \in Errors \cup {"none", "Other"}

\* Once is_available() has returned True no wrapper raises that the program needs no
\* profiler for: the check need not be repeated (device.py:34-107, utils.py:20-142,
\* accelerate_plugin.py:16-26, 42-48, 121-160).
AvailableMeansAnswers ==
  promised /\ answered[2] \in {"RuntimeError", "MetalNativeError"}
    => answered[1] \in {"begin_trace", "end_trace", "memory_report"}
===============================================================================
