---------------------------- MODULE Python_proofs ----------------------------
(***************************************************************************)
(* Theorems about the Python package around the runtime: the names of the  *)
(* package, the wrappers, the configurations and the optimizers, for any   *)
(* number of objects, edits, optimizers, parameters and calls, and about   *)
(* the two examples with state, for any window, prompt, number of layers,  *)
(* of samples and of batches.                                              *)
(***************************************************************************)
EXTENDS Package, Runtime, Config, Optimizers, TextGeneration, TrainingLoop, FiniteSetTheorems, TLAPS

-------------------------------------------------------------------------------
(* Package: __getattr__() never takes a name back.                            *)

\* "tensor" is the one submodule with the name of a value, and is a value only once it has
\* been loaded.
TensorLoaded ==
  /\ imported \subseteq Submodules /\ bound \in [Names -> {"unset", "module", "value"}]
  /\ \A n \in Submodules : bound[n] = "value" => n \in imported

(* Importing a submodule leaves the names alone that are values.           *)
LEMMA AttachedKeeps ==
  ASSUME TensorLoaded, NEW m \in Submodules
  PROVE  /\ Fresh(m) \subseteq Submodules
         /\ Attached(m) \in [Names -> {"unset", "module", "value"}]
         /\ \A n \in Names : bound[n] = "value" <=> Attached(m)[n] = "value"
<1>1. Fresh(m) \subseteq Submodules
  BY DEF Fresh, Needs, Submodules, Listed
<1>2. \A n \in Fresh(m) : n \notin imported
  BY DEF Fresh
<1> QED BY <1>1, <1>2 DEF Attached, TensorLoaded

(* What is a value stays one, and no submodule becomes one unloaded.       *)
LEMMA ResolvedStep ==
  ASSUME TensorLoaded, PackageNext
  PROVE  TensorLoaded' /\ \A n \in Names : bound[n] = "value" => bound'[n] = "value"
<1>1. ASSUME NEW m \in Submodules, Import(m)
      PROVE  TensorLoaded' /\ \A n \in Names : bound[n] = "value" => bound'[n] = "value"
  BY <1>1, AttachedKeeps DEF Import, TensorLoaded, Names
<1>2. CASE CheckInstallation \/ \E m \in Submodules : ImportModule(m)
  BY <1>1, <1>2 DEF CheckInstallation, ImportModule, Submodules
<1>3. ASSUME NEW n \in Names, GetSubmodule(n)
      PROVE  TensorLoaded' /\ \A k \in Names : bound[k] = "value" => bound'[k] = "value"
  BY <1>1, <1>3 DEF GetSubmodule, Submodules
<1>4. ASSUME NEW n \in Names, NEW m \in DOMAIN Group, GetGroup(m, n)
      PROVE  TensorLoaded' /\ \A k \in Names : bound[k] = "value" => bound'[k] = "value"
  <2>1. /\ m \in Submodules /\ m \in imported'
        /\ \A k \in Group[m] : k \in Submodules => k = m
    BY <1>4 DEF GetGroup, Group, Submodules, Listed, Fresh
  <2>2. /\ imported' = imported \cup Fresh(m)
        /\ bound' = [k \in Names |-> IF k \in Group[m] THEN "value" ELSE Attached(m)[k]]
    BY <1>4 DEF GetGroup
  <2> QED BY <2>1, <2>2, AttachedKeeps DEF TensorLoaded, Names
<1>5. ASSUME NEW n \in Names, GetDType(n)
      PROVE  TensorLoaded' /\ \A k \in Names : bound[k] = "value" => bound'[k] = "value"
  <2>1. "dtypes" \in Submodules /\ n \notin Submodules
    BY <1>5 DEF GetDType, DTypes, Submodules, Listed
  <2> QED BY <1>5, <2>1, AttachedKeeps DEF GetDType, TensorLoaded, Names
<1> QED BY <1>2, <1>3, <1>4, <1>5 DEF PackageNext

\* The attributes __getattr__() has resolved, the factory "tensor" included, survive the
\* binding of submodules by later imports (__init__.py:78-139).
THEOREM ResolvedNamesStay == PackageSpec => ResolvedStays
<1> DEFINE Stays == \A n \in Names : bound[n] = "value" => bound'[n] = "value"
<1>1. PackageInit => TensorLoaded
  <2> SUFFICES ASSUME PackageInit PROVE TensorLoaded
    OBVIOUS
  <2>1. imported \in {{"_version"}, {"_version", "_metallib"}}
    BY DEF PackageInit, InitializeWith
  <2>2. bound = [n \in Names |-> IF n \in imported THEN "module" ELSE "unset"]
    BY DEF PackageInit
  <2> QED BY <2>1, <2>2 DEF TensorLoaded, Submodules, Listed, Names
<1>2. TensorLoaded /\ [PackageNext]_packageVars => TensorLoaded' /\ [Stays]_packageVars
  <2>1. CASE UNCHANGED packageVars
    BY <2>1 DEF packageVars, TensorLoaded
  <2> QED BY <2>1, ResolvedStep
<1> QED BY <1>1, <1>2, PTL DEF PackageSpec, ResolvedStays

\* The names are unset, modules or values, and the library one of the places searched
\* (__init__.py:78-139, 179-198, _metallib.py:8-35).
THEOREM NamesTyped == PackageSpec => []PackageTypeOK
<1>1. PackageInit => PackageTypeOK /\ TensorLoaded
  <2> SUFFICES ASSUME PackageInit PROVE PackageTypeOK /\ TensorLoaded
    OBVIOUS
  <2>1. /\ imported \subseteq {"_version", "_metallib"} /\ ext \in BOOLEAN /\ has_device \in BOOLEAN
        /\ bound = [n \in Names |-> IF n \in imported THEN "module" ELSE "unset"]
    BY DEF PackageInit, InitializeWith
  <2>2. library \in {"none"} \cup {Places[i] : i \in DOMAIN Places}
    <3>1. PICK found \in {{}, {"environment"}, {"wheel", "build"}}, loads \in BOOLEAN :
            InitializeWith(found, loads)
      BY DEF PackageInit
    <3>2. CASE library = "none"
      BY <3>2
    <3>3. CASE library = FindMetallib(found) /\ library # "none"
      <4>1. \E i \in DOMAIN Places : Places[i] \in found
        BY <3>3 DEF FindMetallib
      <4>2. \E i \in DOMAIN Places : Places[i] \in found /\ \A j \in 1 .. i - 1 : Places[j] \notin found
        BY <4>1 DEF Places
      <4>3. \E i \in DOMAIN Places : library = Places[i]
        BY <3>3, <4>1, <4>2 DEF FindMetallib
      <4> QED BY <4>3
    <3> QED BY <3>1, <3>2, <3>3 DEF InitializeWith
  <2>3. imported \subseteq Submodules /\ bound \in [Names -> {"unset", "module", "value"}]
    BY <2>1 DEF Submodules, Listed
  <2>4. \A n \in Submodules : bound[n] # "value"
    BY <2>1 DEF Names
  <2> QED BY <2>1, <2>2, <2>3, <2>4 DEF PackageTypeOK, TensorLoaded
<1>2. ASSUME PackageTypeOK /\ TensorLoaded, [PackageNext]_packageVars
      PROVE  PackageTypeOK' /\ TensorLoaded'
  <2>1. CASE UNCHANGED packageVars
    BY <1>2, <2>1 DEF packageVars, PackageTypeOK, TensorLoaded
  <2>2. CASE PackageNext
    <3>1. ext' = ext /\ has_device' = has_device /\ library' = library
      BY <2>2 DEF PackageNext, ImportModule, GetSubmodule, GetGroup, GetDType, CheckInstallation
    <3>2. TensorLoaded'
      BY <1>2, <2>2, ResolvedStep
    <3> QED BY <1>2, <3>1, <3>2 DEF PackageTypeOK, TensorLoaded
  <2> QED BY <1>2, <2>1, <2>2
<1>3. PackageTypeOK /\ TensorLoaded /\ [PackageNext]_packageVars => (PackageTypeOK /\ TensorLoaded)'
  BY <1>2
<1> QED BY <1>1, <1>3, PTL DEF PackageSpec

-------------------------------------------------------------------------------
(* Runtime: what is_available() said stays true.                               *)

USE RuntimeAssumption

\* What a program has issued needs a device, and what is_available() said stays true.
Grounded == /\ ~Works => issued = 0
            /\ promised => Works

\* The wrappers that a program with a device can rely on.
NeedsProfiler == {"begin_trace", "end_trace", "memory_report"}
Answering == Works /\ answered[2] \in {"RuntimeError", "MetalNativeError"}
               => answered[1] \in NeedsProfiler

\* With a device, a binding that exists answers with a value.
LEMMA BindingsWork ==
  ASSUME Works, NEW c, c \notin NoBinding
  PROVE  Strict(c) = "value" /\ Lenient(c) = "value"
BY DEF Works, Strict, Lenient, Binding

\* So do the wrappers of the device, of the utilities and of the plugin.
LEMMA WrappersWork ==
  ASSUME Works
  PROVE  /\ \A c \in DOMAIN DeviceAnswers : DeviceAnswers[c] = "value"
         /\ \A c \in DOMAIN UtilsAnswers : UtilsAnswers[c] = "value"
         /\ \A c \in DOMAIN PluginAnswers : PluginAnswers[c] = "value"
<1>1. /\ Strict("device_name") = "value" /\ Strict("device_properties") = "value"
      /\ Strict("supports_bfloat16") = "value" /\ Strict("memory_allocated") = "value"
      /\ Strict("max_memory_allocated") = "value" /\ Lenient("empty_cache") = "value"
      /\ Lenient("reset_peak_stats") = "value" /\ Lenient("memory_allocated") = "value"
  BY BindingsWork DEF NoBinding
<1>2. get_device_info = "value" /\ get_memory_info = "value" /\ Accelerator = "value"
  BY <1>1 DEF get_device_info, get_memory_info, Accelerator, is_available
<1> QED BY <1>1, <1>2 DEF DeviceAnswers, UtilsAnswers, PluginAnswers

\* Of the profiler's wrappers, the counters have a default.
LEMMA CountersAnswer ==
  ASSUME NEW c \in DOMAIN ProfilingAnswers, c \notin NeedsProfiler
  PROVE  ProfilingAnswers[c] \in {"value", "default"}
BY DEF ProfilingAnswers, NeedsProfiler, gpu_counters

-------------------------------------------------------------------------------

\* What a call that only answers does to the claims about the state.
LEMMA AnswersKeep ==
  ASSUME RunTypeOK, Grounded, NEW c, NEW outcome, Ask(c, outcome)
  PROVE  RunTypeOK' /\ Grounded'
BY DEF Ask, Ends, RunTypeOK, Grounded, Works, Steady, workVars, bufferedVars, Errors

\* The claims are inductive together.
LEMMA StateInductive ==
  ASSUME RunTypeOK, Grounded, [RunNext]_runVars
  PROVE  RunTypeOK' /\ Grounded'
<1>1. ASSUME NEW c, NEW outcome, Ask(c, outcome) PROVE RunTypeOK' /\ Grounded'
  BY <1>1, AnswersKeep
<1>2. CASE AskAvailable
  BY <1>2 DEF AskAvailable, is_available, Ends, Steady, Works, RunTypeOK, Grounded, workVars, bufferedVars, Errors
<1>3. ASSUME NEW lenient \in BOOLEAN, synchronize(lenient)
      PROVE  RunTypeOK' /\ Grounded'
  BY <1>3 DEF synchronize, Ends, Finish, Steady, Works, RunTypeOK, Grounded, bufferedVars, Errors
<1>4. ASSUME NEW seed, set_seed(seed) PROVE RunTypeOK' /\ Grounded'
  BY <1>4 DEF set_seed, Ends, Steady, Works, RunTypeOK, Grounded, workVars, bufferedVars, Errors
<1>10. ASSUME NEW enable \in CommitModes, SetLazyCommit(enable) PROVE RunTypeOK' /\ Grounded'
  BY <1>10 DEF SetLazyCommit, Steady, Works, RunTypeOK, Grounded
<1>5. CASE Operate \/ FinishOne \/ Fail \/ HandleException
  BY <1>5 DEF Operate, FinishOne, Fail, HandleException, Steady, Works, RunTypeOK, Grounded, workVars, bufferedVars
<1>6. CASE EnterSynchronize
  BY <1>6 DEF EnterSynchronize, Entered, Steady, Works, RunTypeOK, Grounded, bufferedVars
<1>7. ASSUME NEW name, EnterDevice(name) PROVE RunTypeOK' /\ Grounded'
  BY <1>7 DEF EnterDevice, Entered, Ends, Steady, Works, RunTypeOK, Grounded, bufferedVars, Errors
<1>8. CASE Leave
  <2> DEFINE outcome == IF Innermost = "synchronize" THEN Strict("synchronize") ELSE "none"
  <2>1. /\ done' = IF outcome = "value" THEN submitted ELSE done
        /\ raised' = IF outcome \in Errors THEN outcome ELSE raised
        /\ contexts' = SubSeq(contexts, 1, Len(contexts) - 1) /\ contexts # <<>>
        /\ UNCHANGED <<loaded, device, lazy_commit, issued, submitted, answered, promised>>
    BY <1>8 DEF Leave, Finish, Steady, bufferedVars
  <2>2. contexts' \in Seq({"synchronize", "device"})
    BY <2>1 DEF RunTypeOK
  <2>3. done' \in 0 .. submitted'
    BY <2>1 DEF RunTypeOK
  <2> QED BY <2>1, <2>2, <2>3 DEF RunTypeOK, Grounded, Works
<1>9. CASE UNCHANGED runVars
  BY <1>9 DEF runVars, workVars, bufferedVars, RunTypeOK, Grounded, Works
<1> QED BY <1>1, <1>2, <1>3, <1>4, <1>5, <1>6, <1>7, <1>8, <1>9, <1>10 DEF RunNext

\* The program begins with nothing done.
LEMMA RuntimeInitially == RunInit => RunTypeOK /\ Grounded /\ Answering
<1> SUFFICES ASSUME RunInit PROVE RunTypeOK /\ Grounded /\ Answering
  OBVIOUS
<1>1. contexts \in Seq({"synchronize", "device"})
  BY DEF RunInit
<1>2. RunTypeOK
  <2>1. loaded \in BOOLEAN /\ device \in BOOLEAN /\ promised \in BOOLEAN /\ lazy_commit \in BOOLEAN
    BY Zenon DEF RunInit
  <2>2. /\ issued \in 0 .. MaxWork /\ submitted \in 0 .. issued /\ done \in 0 .. submitted
    <3>1. issued = 0 /\ submitted = 0 /\ done = 0
      BY Zenon DEF RunInit
    <3> QED BY <3>1, RuntimeAssumption
  <2> QED BY <1>1, <2>1, <2>2 DEF RunInit, RunTypeOK
<1>3. Grounded
  BY DEF RunInit, Grounded
<1>4. Answering
  BY DEF RunInit, Answering
<1> QED BY <1>2, <1>3, <1>4

\* What is done was submitted, what was submitted was issued, and the answers are answers
\* (utils.py, device.py, profiling.py).
THEOREM RuntimeTyped == RunSpec => []RunTypeOK
<1> DEFINE RuntimeInv == RunTypeOK /\ Grounded
<1>1. RunInit => RuntimeInv
  BY RuntimeInitially
<1>2. RuntimeInv /\ [RunNext]_runVars => RuntimeInv'
  BY StateInductive
<1> QED BY <1>1, <1>2, PTL DEF RunSpec

-------------------------------------------------------------------------------

\* A call leaves an answer that a program with a device can rely on.
LEMMA AnsweringInductive == Answering /\ [RunNext]_runVars => Answering'
<1> SUFFICES ASSUME Answering, [RunNext]_runVars PROVE Answering'
  OBVIOUS
<1> USE DEF Answering
<1>1. ASSUME NEW c \in DOMAIN DeviceAnswers, Ask(c, DeviceAnswers[c]) PROVE Answering'
  BY <1>1, WrappersWork DEF Ask, Ends, Steady, Works
<1>2. ASSUME NEW c \in DOMAIN UtilsAnswers, Ask(c, UtilsAnswers[c]) PROVE Answering'
  BY <1>2, WrappersWork DEF Ask, Ends, Steady, Works
<1>3. ASSUME NEW c \in DOMAIN PluginAnswers, Ask(c, PluginAnswers[c]) PROVE Answering'
  BY <1>3, WrappersWork DEF Ask, Ends, Steady, Works
<1>4. ASSUME NEW c \in DOMAIN ProfilingAnswers, Ask(c, ProfilingAnswers[c]) PROVE Answering'
  BY <1>4, CountersAnswer DEF Ask, Ends, Steady, Works
<1>5. CASE AskAvailable
  BY <1>5 DEF AskAvailable, Ends
<1>6. ASSUME NEW lenient \in BOOLEAN, synchronize(lenient) PROVE Answering'
  <2>1. Works => Strict("synchronize") = "value" /\ Lenient("synchronize") = "value"
    BY BindingsWork DEF NoBinding
  <2> QED BY <1>6, <2>1 DEF synchronize, Ends, Steady, Works
<1>7. ASSUME NEW seed, set_seed(seed) PROVE Answering'
  <2>1. Works => Strict("set_seed") = "value"
    BY BindingsWork DEF NoBinding
  <2> QED BY <1>7, <2>1 DEF set_seed, Ends, Steady, Works
<1>8. CASE Operate \/ FinishOne \/ Fail \/ HandleException \/ EnterSynchronize \/ Leave
  BY <1>8 DEF Operate, FinishOne, Fail, HandleException, EnterSynchronize, Leave, Steady, Works
<1>9. ASSUME NEW name, EnterDevice(name) PROVE Answering'
  BY <1>9 DEF EnterDevice, Ends, Steady, Works
<1>10. CASE UNCHANGED runVars
  BY <1>10 DEF runVars, Works
<1>11. ASSUME NEW enable, SetLazyCommit(enable) PROVE Answering'
  BY <1>11 DEF SetLazyCommit, Steady, Works
<1> QED BY <1>1, <1>2, <1>3, <1>4, <1>5, <1>6, <1>7, <1>8, <1>9, <1>10, <1>11 DEF RunNext

\* Once is_available() has returned True, no wrapper raises that needs no profiler
\* (device.py:34-107, utils.py:20-142).
THEOREM AvailableAnswers == RunSpec => []AvailableMeansAnswers
<1> DEFINE RuntimeInv == RunTypeOK /\ Grounded /\ Answering
<1>1. RunInit => RuntimeInv
  BY RuntimeInitially
<1>2. RuntimeInv /\ [RunNext]_runVars => RuntimeInv'
  BY StateInductive, AnsweringInductive
<1>3. RuntimeInv => AvailableMeansAnswers
  BY DEF AvailableMeansAnswers, Answering, Grounded, NeedsProfiler
<1> QED BY <1>1, <1>2, <1>3, PTL DEF RunSpec

-------------------------------------------------------------------------------
(* Config: a list is shared only by a dictionary and the configurations       *)
(* from_dict() made from it, and so is what is changed through one of them.   *)

USE ConfigAssumption

\* What from_dict() was given is a dictionary, which has a list of its own.
Sourced ==
  \A i \in DOMAIN objects :
    /\ objects[i].kind = "dict" => objects[i].source = 0
    /\ objects[i].source # 0 => /\ objects[i].source \in DOMAIN objects
                                /\ objects[objects[i].source].kind = "dict"

\* Objects that hold the same list come from the same dictionary.
Sharing ==
  \A i, j \in DOMAIN objects : objects[i].list = objects[j].list => Origin(i) = Origin(j)

ConfigInv == ConfigTypeOK /\ Sourced /\ Sharing

-------------------------------------------------------------------------------
(* Making an object                                                            *)

\* A new object comes last, and takes nothing from the others.
LEMMA Appended ==
  ASSUME ConfigTypeOK, NEW kind \in {"config", "dict"}, NEW values \in [Attrs -> Values],
         NEW list \in Nat, NEW source \in Nat, Make(kind, values, list, source)
  PROVE  /\ objects' \in Seq(ConfigObject) /\ Len(objects') = Len(objects) + 1
         /\ DOMAIN objects' = DOMAIN objects \cup {Len(objects) + 1}
         /\ \A i \in DOMAIN objects : objects'[i] = objects[i]
         /\ objects'[Len(objects) + 1] = [kind |-> kind, values |-> values, list |-> list,
                                          source |-> source]
<1> DEFINE new == [kind |-> kind, values |-> values, list |-> list, source |-> source]
<1>1. new \in ConfigObject
  BY DEF ConfigObject
<1>2. objects' = Append(objects, new) /\ objects \in Seq(ConfigObject)
  BY DEF Make, ConfigTypeOK
<1> QED BY <1>1, <1>2

\* The old objects say and share what they did before.
LEMMA OldStay ==
  ASSUME ConfigTypeOK, NEW kind \in {"config", "dict"}, NEW values \in [Attrs -> Values],
         NEW list \in Nat, NEW source \in Nat, Make(kind, values, list, source),
         \A l \in DOMAIN buckets : buckets'[l] = buckets[l],
         NEW i \in DOMAIN objects
  PROVE  Contents(i)' = Contents(i) /\ Origin(i)' = Origin(i)
<1>1. objects'[i] = objects[i] /\ objects[i].list \in DOMAIN buckets
  BY Appended DEF ConfigTypeOK
<1> QED BY <1>1 DEF Contents, Origin

\* A list of its own is nobody else's.
LEMMA OwningInductive ==
  ASSUME ConfigInv, NEW kind \in {"config", "dict"}, NEW values \in [Attrs -> Values],
         NEW entries \in Nat, MakeOwning(kind, values, entries), UNCHANGED edits,
         global_config' \in {global_config} \cup {Len(objects) + 1},
         global_config' = Len(objects) + 1 => kind = "config"
  PROVE  ConfigInv' /\ \A i \in DOMAIN objects : Contents(i)' = Contents(i)
<1> PICK n \in Nat : n = Len(objects) + 1
  BY DEF ConfigInv, ConfigTypeOK
<1> PICK l \in Nat : l = Len(buckets) + 1
  BY DEF ConfigInv, ConfigTypeOK
<1>0. /\ objects \in Seq(ConfigObject) /\ buckets \in Seq(Nat) /\ edits \in 0 .. MaxEdits
      /\ \A i \in DOMAIN objects : objects[i].list \in DOMAIN buckets /\ objects[i].source < i
  BY DEF ConfigInv, ConfigTypeOK
<1>1. Make(kind, values, l, 0) /\ buckets' = Append(buckets, entries)
  BY DEF MakeOwning
<1>2. /\ buckets' \in Seq(Nat) /\ DOMAIN buckets' = DOMAIN buckets \cup {l}
      /\ \A k \in DOMAIN buckets : buckets'[k] = buckets[k]
      /\ l \in Nat /\ l \notin DOMAIN buckets
  BY <1>0, <1>1
<1>3. /\ objects' \in Seq(ConfigObject) /\ DOMAIN objects' = DOMAIN objects \cup {n}
      /\ \A i \in DOMAIN objects : objects'[i] = objects[i]
      /\ objects'[n] = [kind |-> kind, values |-> values, list |-> l, source |-> 0]
  <2> DEFINE new == [kind |-> kind, values |-> values, list |-> l, source |-> 0]
  <2>1. new \in ConfigObject /\ objects' = Append(objects, new)
    BY <1>1 DEF Make, ConfigObject
  <2> HIDE DEF new
  <2>2. /\ objects' \in Seq(ConfigObject) /\ DOMAIN objects' = DOMAIN objects \cup {n}
        /\ \A i \in DOMAIN objects : objects'[i] = objects[i]
        /\ objects'[n] = new
    BY <1>0, <2>1
  <2> QED BY <2>2 DEF new
<1>4. \A i \in DOMAIN objects : Contents(i)' = Contents(i) /\ Origin(i)' = Origin(i)
  BY <1>1, <1>2, OldStay DEF ConfigInv
<1>5. n \notin DOMAIN objects /\ n \in Nat /\ n > 0
  BY <1>0
<1>6. ConfigTypeOK'
  <2>1. \A i \in DOMAIN objects' : objects'[i].list \in DOMAIN buckets' /\ objects'[i].source < i
    BY <1>0, <1>2, <1>3, <1>5
  <2>2. global_config' \in {0} \cup {i \in DOMAIN objects' : objects'[i].kind = "config"}
    BY <1>3 DEF ConfigInv, ConfigTypeOK, ObjectsOf
  <2> QED BY <1>0, <1>2, <1>3, <2>1, <2>2 DEF ConfigTypeOK, ObjectsOf
<1>7. Sourced'
  BY <1>3 DEF Sourced, ConfigInv
<1>8. Sharing'
  <2> SUFFICES ASSUME NEW i \in DOMAIN objects', NEW j \in DOMAIN objects',
                      objects'[i].list = objects'[j].list
               PROVE  Origin(i)' = Origin(j)'
    BY DEF Sharing
  <2>1. CASE i \in DOMAIN objects /\ j \in DOMAIN objects
    BY <2>1, <1>3, <1>4 DEF ConfigInv, Sharing
  <2>2. CASE i = n \/ j = n
    <3>1. i = n /\ j = n
      BY <2>2, <1>0, <1>2, <1>3
    <3> QED BY <3>1
  <2> QED BY <2>1, <2>2, <1>3
<1> QED BY <1>4, <1>6, <1>7, <1>8 DEF ConfigInv

\* A configuration that takes a dictionary's list shares it with those that did before.
LEMMA FromDictInductive ==
  ASSUME ConfigInv, NEW d \in ObjectsOf("dict"), from_dict(d)
  PROVE  ConfigInv' /\ \A i \in DOMAIN objects : Contents(i)' = Contents(i)
<1> PICK n \in Nat : n = Len(objects) + 1
  BY DEF ConfigInv, ConfigTypeOK
<1>0. /\ objects \in Seq(ConfigObject) /\ buckets \in Seq(Nat) /\ edits \in 0 .. MaxEdits
      /\ \A i \in DOMAIN objects : objects[i].list \in DOMAIN buckets /\ objects[i].source < i
      /\ d \in DOMAIN objects /\ objects[d].kind = "dict" /\ objects[d].source = 0
      /\ d \in Nat \ {0} /\ d < n
      /\ objects[d].values \in [Attrs -> Values] /\ objects[d].list \in Nat
  <2>1. /\ objects \in Seq(ConfigObject) /\ buckets \in Seq(Nat) /\ edits \in 0 .. MaxEdits
        /\ \A i \in DOMAIN objects : objects[i].list \in DOMAIN buckets /\ objects[i].source < i
        /\ d \in DOMAIN objects /\ objects[d].kind = "dict"
    BY DEF ConfigInv, ConfigTypeOK, ObjectsOf
  <2>2. objects[d] \in ConfigObject
    BY <2>1
  <2> QED BY <2>1, <2>2, SMTT(30) DEF ConfigInv, Sourced, ConfigObject
<1>1. /\ Make("config", objects[d].values, objects[d].list, d)
      /\ UNCHANGED <<buckets, global_config, edits>>
  BY DEF from_dict
<1>3. /\ objects' \in Seq(ConfigObject) /\ DOMAIN objects' = DOMAIN objects \cup {n}
      /\ \A i \in DOMAIN objects : objects'[i] = objects[i]
      /\ objects'[n] = [kind |-> "config", values |-> objects[d].values,
                        list |-> objects[d].list, source |-> d]
  <2> DEFINE new == [kind |-> "config", values |-> objects[d].values,
                     list |-> objects[d].list, source |-> d]
  <2>1. new \in ConfigObject /\ objects' = Append(objects, new)
    BY <1>0, <1>1 DEF Make, ConfigObject
  <2> HIDE DEF new
  <2>2. /\ objects' \in Seq(ConfigObject) /\ DOMAIN objects' = DOMAIN objects \cup {n}
        /\ \A i \in DOMAIN objects : objects'[i] = objects[i]
        /\ objects'[n] = new
    BY <1>0, <2>1
  <2> QED BY <2>2 DEF new
<1>4. \A i \in DOMAIN objects : Contents(i)' = Contents(i) /\ Origin(i)' = Origin(i)
  BY <1>0, <1>1, OldStay DEF ConfigInv
<1>5. Origin(n)' = d /\ Origin(d) = d
  BY <1>0, <1>3 DEF Origin
<1>6. ConfigTypeOK'
  <2>1. \A i \in DOMAIN objects' : objects'[i].list \in DOMAIN buckets' /\ objects'[i].source < i
    BY <1>0, <1>1, <1>3, SMTT(30)
  <2>2. global_config' \in {0} \cup {i \in DOMAIN objects' : objects'[i].kind = "config"}
    BY <1>1, <1>3 DEF ConfigInv, ConfigTypeOK, ObjectsOf
  <2> QED BY <1>0, <1>1, <1>3, <2>1, <2>2 DEF ConfigTypeOK, ObjectsOf
<1>7. Sourced'
  <2> SUFFICES ASSUME NEW i \in DOMAIN objects'
               PROVE  /\ objects'[i].kind = "dict" => objects'[i].source = 0
                      /\ objects'[i].source # 0 =>
                           /\ objects'[i].source \in DOMAIN objects'
                           /\ objects'[objects'[i].source].kind = "dict"
    BY DEF Sourced
  <2>1. CASE i \in DOMAIN objects
    BY <2>1, <1>3 DEF Sourced, ConfigInv
  <2>2. CASE i = n
    <3>1. objects'[i].kind = "config" /\ objects'[i].source = d
      BY <2>2, <1>3
    <3>2. d \in DOMAIN objects' /\ objects'[d].kind = "dict"
      BY <1>0, <1>3
    <3> QED BY <3>1, <3>2
  <2> QED BY <2>1, <2>2, <1>3
<1>8. Sharing'
  <2> SUFFICES ASSUME NEW i \in DOMAIN objects', NEW j \in DOMAIN objects',
                      objects'[i].list = objects'[j].list
               PROVE  Origin(i)' = Origin(j)'
    BY DEF Sharing
  <2>1. \A k \in DOMAIN objects : objects[k].list = objects[d].list => Origin(k)' = d
    BY <1>0, <1>4, <1>5 DEF ConfigInv, Sharing
  <2>2. CASE i \in DOMAIN objects /\ j \in DOMAIN objects
    BY <2>2, <1>3, <1>4 DEF ConfigInv, Sharing
  <2>3. CASE i = n /\ j \in DOMAIN objects
    BY <2>1, <2>3, <1>3, <1>5
  <2>4. CASE i \in DOMAIN objects /\ j = n
    BY <2>1, <2>4, <1>3, <1>5
  <2>5. CASE i = n /\ j = n
    BY <2>5
  <2> QED BY <2>2, <2>3, <2>4, <2>5, <1>3
<1> QED BY <1>4, <1>6, <1>7, <1>8 DEF ConfigInv
-------------------------------------------------------------------------------
(* Changing one                                                                *)

\* An attribute is that of one object.
LEMMA SetAttributeInductive ==
  ASSUME ConfigInv, NEW i \in DOMAIN objects, NEW a \in Attrs, SetAttribute(i, a)
  PROVE  /\ ConfigInv'
         /\ \A j \in DOMAIN objects : Contents(j)' # Contents(j) => Origin(j) = Origin(i)
<1>0. /\ objects \in Seq(ConfigObject) /\ edits \in 0 .. MaxEdits /\ edits' = edits + 1
      /\ edits < MaxEdits /\ UNCHANGED <<buckets, global_config>>
  BY DEF ConfigInv, ConfigTypeOK, SetAttribute
<1>1. /\ DOMAIN objects' = DOMAIN objects
      /\ \A j \in DOMAIN objects : /\ j # i => objects'[j] = objects[j]
                                   /\ objects'[j].kind = objects[j].kind
                                   /\ objects'[j].list = objects[j].list
                                   /\ objects'[j].source = objects[j].source
  <2>1. /\ objects' = [objects EXCEPT ![i] = [objects[i] EXCEPT !.values[a] = "set"]]
        /\ objects[i] \in ConfigObject
    BY <1>0 DEF SetAttribute
  <2> QED BY <2>1 DEF ConfigObject
<1>2. objects' \in Seq(ConfigObject)
  <2>1. objects[i] \in ConfigObject
    BY <1>0
  <2>2. [objects[i] EXCEPT !.values[a] = "set"] \in ConfigObject
    BY <2>1 DEF ConfigObject, Values
  <2>3. objects' = [objects EXCEPT ![i] = [objects[i] EXCEPT !.values[a] = "set"]]
    BY DEF SetAttribute
  <2> QED BY <1>0, <2>2, <2>3
<1>3. \A j \in DOMAIN objects : Origin(j)' = Origin(j)
  BY <1>1 DEF Origin
<1>4. \A j \in DOMAIN objects : Contents(j)' # Contents(j) => Origin(j) = Origin(i)
  BY <1>0, <1>1 DEF Contents
<1>5. ConfigTypeOK'
  <2>1. \A j \in DOMAIN objects' : objects'[j].list \in DOMAIN buckets' /\ objects'[j].source < j
    BY <1>0, <1>1 DEF ConfigInv, ConfigTypeOK
  <2>2. global_config' \in {0} \cup {j \in DOMAIN objects' : objects'[j].kind = "config"}
    BY <1>0, <1>1 DEF ConfigInv, ConfigTypeOK, ObjectsOf
  <2>3. edits' \in 0 .. MaxEdits /\ buckets' \in Seq(Nat)
    BY <1>0 DEF ConfigInv, ConfigTypeOK
  <2> QED BY <1>2, <2>1, <2>2, <2>3 DEF ConfigTypeOK, ObjectsOf
<1>6. Sourced'
  BY <1>1 DEF Sourced, ConfigInv
<1>7. Sharing'
  BY <1>1, <1>3 DEF Sharing, ConfigInv
<1> QED BY <1>4, <1>5, <1>6, <1>7 DEF ConfigInv

\* A list is that of the objects of one dictionary.
LEMMA AppendBucketInductive ==
  ASSUME ConfigInv, NEW i \in DOMAIN objects, AppendBucket(i)
  PROVE  /\ ConfigInv'
         /\ \A j \in DOMAIN objects : Contents(j)' # Contents(j) => Origin(j) = Origin(i)
<1>0. /\ buckets \in Seq(Nat) /\ edits \in 0 .. MaxEdits /\ edits' = edits + 1
      /\ edits < MaxEdits /\ UNCHANGED <<objects, global_config>>
      /\ buckets' = [buckets EXCEPT ![objects[i].list] = @ + 1]
      /\ \A j \in DOMAIN objects : objects[j].list \in DOMAIN buckets
  BY DEF ConfigInv, ConfigTypeOK, AppendBucket
<1>1. /\ buckets' \in Seq(Nat) /\ DOMAIN buckets' = DOMAIN buckets
      /\ \A l \in DOMAIN buckets : l # objects[i].list => buckets'[l] = buckets[l]
  BY <1>0
<1>2. \A j \in DOMAIN objects : Contents(j)' # Contents(j) => Origin(j) = Origin(i)
  <2> SUFFICES ASSUME NEW j \in DOMAIN objects, Contents(j)' # Contents(j)
               PROVE  objects[j].list = objects[i].list
    BY DEF ConfigInv, Sharing
  <2> QED BY <1>0, <1>1 DEF Contents
<1>3. ConfigTypeOK'
  BY <1>0, <1>1 DEF ConfigInv, ConfigTypeOK, ObjectsOf
<1>4. Sourced' /\ Sharing'
  BY <1>0 DEF ConfigInv, Sourced, Sharing, Origin
<1> QED BY <1>2, <1>3, <1>4 DEF ConfigInv

-------------------------------------------------------------------------------
(* The module                                                                  *)

\* No step gives a list away, and none changes objects of two origins.
LEMMA StepInductive ==
  ASSUME ConfigInv, ConfigNext
  PROVE  /\ ConfigInv'
         /\ \A i, j \in DOMAIN objects :
              Contents(i)' # Contents(i) /\ Contents(j)' # Contents(j) => Origin(i) = Origin(j)
<1>0. /\ \A i \in DOMAIN objects : /\ objects[i].values \in [Attrs -> Values]
                                   /\ buckets[objects[i].list] \in Nat
      /\ 0 \in Nat /\ Defaults \in [Attrs -> Values]
  <2>1. /\ \A i \in DOMAIN objects : objects[i] \in ConfigObject
        /\ \A i \in DOMAIN objects : objects[i].list \in DOMAIN buckets
        /\ buckets \in Seq(Nat)
    BY DEF ConfigInv, ConfigTypeOK
  <2> QED BY <2>1 DEF ConfigObject, Defaults, Values
<1>1. global_config # Len(objects) + 1 /\ Len(objects) \in Nat
  BY DEF ConfigInv, ConfigTypeOK, ObjectsOf
<1>2. CASE NewConfig
  BY <1>0, <1>1, <1>2, OwningInductive DEF NewConfig
<1>3. CASE get_config
  <2>1. MakeOwning("config", Defaults, 0) /\ global_config' = Len(objects') /\ UNCHANGED edits
    BY <1>3 DEF get_config
  <2>2. Len(objects') = Len(objects) + 1
    BY <2>1 DEF MakeOwning, Make, ConfigInv, ConfigTypeOK
  <2> QED BY <1>0, <2>1, <2>2, OwningInductive
<1>4. CASE \E d \in ObjectsOf("dict") : from_dict(d)
  BY <1>4, FromDictInductive
<1>5. CASE \E d \in ObjectsOf("dict") : FromFile(d)
  BY <1>0, <1>1, <1>5, OwningInductive DEF FromFile, ObjectsOf
<1>6. CASE \E env \in SUBSET Setting : from_env(env)
  <2> PICK env \in SUBSET Setting : from_env(env)
    BY <1>6
  <2> DEFINE values == [a \in Attrs |-> IF Recognised(a) /\ \E s \in env : s.attr = a
                                         THEN "set" ELSE "default"]
  <2>1. values \in [Attrs -> Values]
    BY DEF Values
  <2>2. MakeOwning("config", values, 0) /\ UNCHANGED <<global_config, edits>>
    BY DEF from_env
  <2> HIDE DEF values
  <2> QED BY <1>0, <1>1, <2>1, <2>2, OwningInductive
<1>7. CASE \E c \in ObjectsOf("config") : to_dict(c)
  BY <1>0, <1>1, <1>7, OwningInductive DEF to_dict, ObjectsOf
<1>8. CASE \E c \in ObjectsOf("config") : set_config(c)
  BY <1>8 DEF set_config, ConfigInv, ConfigTypeOK, Sourced, Sharing, Origin, ObjectsOf, Contents
<1>9. CASE \E i \in DOMAIN objects : AppendBucket(i)
  BY <1>9, AppendBucketInductive
<1>10. CASE \E i \in DOMAIN objects : \E a \in Attrs : SetAttribute(i, a)
  BY <1>10, SetAttributeInductive
<1> QED BY <1>2, <1>3, <1>4, <1>5, <1>6, <1>7, <1>8, <1>9, <1>10 DEF ConfigNext

LEMMA ConfigInitially == ConfigInit => ConfigInv
BY DEF ConfigInit, ConfigInv, ConfigTypeOK, Sourced, Sharing

\* An object is a configuration or a dictionary, with a list that exists, and the global
\* configuration is one of them (config.py:119-201, 249-264).
THEOREM ConfigTyped == ConfigSpec => []ConfigTypeOK
<1>1. ConfigInv /\ [ConfigNext]_configVars => ConfigInv'
  <2>1. CASE UNCHANGED configVars
    BY <2>1 DEF configVars, ConfigInv, ConfigTypeOK, Sourced, Sharing, Origin, ObjectsOf
  <2>2. CASE ConfigNext
    BY <2>2, StepInductive
  <2> QED BY <2>1, <2>2
<1>2. ConfigInit => ConfigInv
  BY ConfigInitially
<1>3. ConfigInv => ConfigTypeOK
  BY DEF ConfigInv
<1> QED BY <1>1, <1>2, <1>3, PTL DEF ConfigSpec

\* A change of one configuration or dictionary is seen only in those that from_dict()
\* made from the same dictionary, the global configuration included, however many
\* objects there are (config.py:138-164, 176-201, 249-258).
THEOREM EditsSeenAtHome == ConfigSpec => EditsStayHome
<1> DEFINE Home == \A i, j \in DOMAIN objects :
                     Contents(i)' # Contents(i) /\ Contents(j)' # Contents(j) => Origin(i) = Origin(j)
<1>1. ConfigInv /\ [ConfigNext]_configVars => ConfigInv' /\ [Home]_configVars
  <2>1. CASE UNCHANGED configVars
    BY <2>1 DEF configVars, ConfigInv, ConfigTypeOK, Sourced, Sharing, Origin, ObjectsOf
  <2>2. CASE ConfigNext
    BY <2>2, StepInductive
  <2> QED BY <2>1, <2>2
<1>2. ConfigInit => ConfigInv
  BY ConfigInitially
<1> QED BY <1>1, <1>2, PTL DEF ConfigSpec, EditsStayHome

-------------------------------------------------------------------------------
(* Optimizers: each claim is inductive together with the types and the same   *)
(* claim for the checkpoints.  What carries them is that a step which moves   *)
(* averages ends the claim of everybody else who has them, checkpoints        *)
(* included, and that loading copies count and dictionary of a checkpoint.    *)

USE OptimizersAssumption

\* Whatever becomes of a step, the types hold.
LEMMA TypeInductive == OptimTypeOK /\ [OptimNext]_optimVars => OptimTypeOK'
<1> SUFFICES ASSUME OptimTypeOK, [OptimNext]_optimVars PROVE OptimTypeOK'
  OBVIOUS
<1> USE DEF OptimTypeOK
<1>1. ASSUME NEW some \in SUBSET Params, Backward(some) PROVE OptimTypeOK'
  BY <1>1 DEF Backward, claimVars
<1>2. CASE zero_grad
  BY <1>2 DEF zero_grad, claimVars
<1>3. ASSUME NEW o \in Optimizers, step(o) PROVE OptimTypeOK'
  <2> DEFINE moved == [p \in Params |-> seen[state[o]][p] + IF Averaged(o, p) THEN 1 ELSE 0]
  <2>1. moved \in [Params -> Nat]
    OBVIOUS
  <2>2. seen' \in [Optimizers -> [Params -> Nat]]
    BY <1>3, <2>1 DEF step
  <2>3. step_count' \in [Optimizers -> Nat] /\ steps' \in Nat
    BY <1>3 DEF step, Counted
  <2>4. updates' \in [Params -> Nat]
    BY <1>3 DEF step
  <2>5. alone' \in [Optimizers -> BOOLEAN] /\ steady' \in [Optimizers -> BOOLEAN]
    BY <1>3, Zenon DEF step, Outlives
  <2>6. \A c \in Checkpoint : Aged(o, c) \in Checkpoint
    BY DEF Aged, Checkpoint
  <2>7. checkpoints' \subseteq Checkpoint
    BY <1>3, <2>6 DEF step
  <2> QED BY <1>3, <2>2, <2>3, <2>4, <2>5, <2>7 DEF step
<1>4. ASSUME NEW o \in Optimizers, state_dict(o) PROVE OptimTypeOK'
  <2>1. [state |-> state[o], step_count |-> step_count[o], sgd |-> Kind[o] = "sgd",
         alone |-> alone[o], steady |-> steady[o]] \in Checkpoint
    BY Zenon DEF Checkpoint
  <2>2. checkpoints' \subseteq Checkpoint
    BY <1>4, <2>1 DEF state_dict
  <2> QED BY <1>4, <2>2 DEF state_dict, claimVars
<1>5. ASSUME NEW o \in Optimizers, NEW c \in checkpoints, load_state_dict(o, c)
      PROVE OptimTypeOK'
  BY <1>5 DEF load_state_dict, Checkpoint
<1>6. CASE UNCHANGED optimVars
  BY <1>6 DEF optimVars, claimVars
<1> QED BY <1>1, <1>2, <1>3, <1>4, <1>5, <1>6 DEF OptimNext

\* The state has its types (the dictionaries and counts of adam.py and sgd.py).
THEOREM TypeCorrect == OptimSpec => []OptimTypeOK
<1>1. OptimInit => OptimTypeOK
  BY DEF OptimInit, OptimTypeOK
<1> QED BY <1>1, TypeInductive, PTL DEF OptimSpec

\* A step leaves the dictionaries nobody shares with it alone, and moves the one it
\* works on by at most one gradient for each parameter.
LEMMA StepMoves ==
  ASSUME OptimTypeOK, NEW o \in Optimizers, step(o), NEW q \in Optimizers, NEW p \in Params
  PROVE  /\ state'[q] = state[q]
         /\ state[q] # state[o] => seen'[state[q]][p] = seen[state[q]][p]
         /\ seen'[state[o]][p] = seen[state[o]][p] + IF Averaged(o, p) THEN 1 ELSE 0
         /\ q # o => step_count'[q] = step_count[q]
         /\ Kind[o] # "sgd" => step_count'[o] = step_count[o] + 1
<1>1. seen' = [seen EXCEPT ![state[o]] =
                [r \in Params |-> seen[state[o]][r] + IF Averaged(o, r) THEN 1 ELSE 0]]
  BY DEF step
<1> QED BY <1>1 DEF step, OptimTypeOK, Counted

\* Whoever else has the dictionary of the optimizer that steps loses the claim to its count.
LEMMA SharersLose ==
  ASSUME OptimTypeOK, NEW o \in Optimizers, step(o), NEW q \in Optimizers
  PROVE  /\ alone'[q] => alone[q] /\ (q # o => state[q] # state[o])
         /\ steady'[q] => steady[q] /\ (q # o => state[q] # state[o])
         /\ steady'[o] => \A p \in Params : Averaged(o, p)
BY DEF step, OptimTypeOK, Outlives, MovesAll

\* So does every checkpoint of it.
LEMMA CheckpointsAge ==
  ASSUME OptimTypeOK, NEW o \in Optimizers, step(o), NEW d \in checkpoints'
  PROVE  \E c \in checkpoints :
           /\ d.state = c.state /\ d.step_count = c.step_count /\ d.sgd = c.sgd
           /\ d.alone => c.alone /\ c.state # state[o]
           /\ d.steady => c.steady /\ c.state # state[o]
<1>1. PICK c \in checkpoints : d = Aged(o, c)
  BY DEF step
<1>2. c \in Checkpoint
  BY DEF OptimTypeOK
<1> QED BY <1>1, <1>2 DEF Aged, Checkpoint

\* A dictionary as a checkpoint has it, with the claim of that checkpoint.
SavedCovers == \A c \in checkpoints :
  c.alone /\ ~c.sgd => \A p \in Params : seen[c.state][p] <= c.step_count
SavedExact == \A c \in checkpoints :
  c.steady /\ ~c.sgd => \A p \in Params : seen[c.state][p] = c.step_count

\* What state_dict() saves is what the optimizer has.
LEMMA SavedIs ==
  ASSUME NEW o \in Optimizers, state_dict(o), NEW c \in checkpoints'
  PROVE  \/ c \in checkpoints
         \/ /\ c.state = state[o] /\ c.step_count = step_count[o] /\ c.sgd = (Kind[o] = "sgd")
            /\ c.alone = alone[o] /\ c.steady = steady[o]
BY DEF state_dict

\* What load_state_dict() leaves is what the checkpoint has.
LEMMA LoadedIs ==
  ASSUME OptimTypeOK, NEW o \in Optimizers, NEW c \in checkpoints, load_state_dict(o, c),
         NEW q \in Adams
  PROVE  /\ seen' = seen /\ checkpoints' = checkpoints
         /\ q = o => /\ ~c.sgd /\ state'[q] = c.state /\ step_count'[q] = c.step_count
                     /\ alone'[q] = c.alone /\ steady'[q] = c.steady
         /\ q # o => /\ state'[q] = state[q] /\ step_count'[q] = step_count[q]
                     /\ alone'[q] = alone[q] /\ steady'[q] = steady[q]
BY DEF load_state_dict, Loadable, OptimTypeOK, Adams, Checkpoint

\* The averages a step does not work on are as they were.
LEMMA OthersStill ==
  ASSUME OptimTypeOK, NEW o \in Optimizers, step(o), NEW d \in Optimizers, d # state[o]
  PROVE  \A p \in Params : seen'[d][p] = seen[d][p]
BY DEF step, OptimTypeOK

\* The bias correction is never made for fewer gradients than are in the averages of an
\* optimizer, as long as every step on its dictionary is its own or went before the
\* checkpoint that it loaded (adam.py:101-149, 168-188).
THEOREM CountsCover == OptimSpec => []CountCovers
<1> DEFINE Claims == CountCovers /\ SavedCovers
<1>1. OptimInit => Claims
  BY DEF OptimInit, CountCovers, SavedCovers, Adams
<1>2. OptimTypeOK /\ Claims /\ [OptimNext]_optimVars => Claims'
  <2> SUFFICES ASSUME OptimTypeOK, CountCovers, SavedCovers, [OptimNext]_optimVars
               PROVE  CountCovers' /\ SavedCovers'
    OBVIOUS
  <2>0. \A q \in Adams : q \in Optimizers /\ Kind[q] # "sgd"
    BY DEF Adams
  <2>1. CASE UNCHANGED <<state, seen, step_count, checkpoints, claimVars>>
    BY <2>1 DEF claimVars, CountCovers, SavedCovers
  <2>2. ASSUME NEW o \in Optimizers, step(o) PROVE CountCovers' /\ SavedCovers'
    <3>1. ASSUME NEW q \in Adams, alone'[q], NEW p \in Params
          PROVE  seen'[state'[q]][p] <= step_count'[q]
      <4>1. alone[q] /\ (q # o => state[q] # state[o])
        BY <2>0, <2>2, <3>1, SharersLose
      <4>2. seen[state[q]][p] <= step_count[q]
        BY <4>1 DEF CountCovers
      <4>3. seen[state[q]][p] \in Nat /\ step_count[q] \in Nat /\ q \in Optimizers
        BY <2>0 DEF OptimTypeOK
      <4>4. CASE q = o
        <5>1. step_count'[q] = step_count[q] + 1
          BY <2>0, <2>2, <4>4, StepMoves
        <5>2. seen'[state'[q]][p] = seen[state[q]][p] + IF Averaged(o, p) THEN 1 ELSE 0
          BY <2>2, <4>3, <4>4, StepMoves
        <5>3. seen'[state'[q]][p] <= seen[state[q]][p] + 1 /\ seen'[state'[q]][p] \in Nat
          BY <4>3, <5>2
        <5> QED BY <4>2, <4>3, <5>1, <5>3
      <4>5. CASE q # o
        BY <2>0, <2>2, <4>1, <4>2, <4>5, StepMoves
      <4> QED BY <4>4, <4>5
    <3>2. ASSUME NEW d \in checkpoints', d.alone, ~d.sgd, NEW p \in Params
          PROVE  seen'[d.state][p] <= d.step_count
      <4>1. PICK c \in checkpoints :
              /\ d.state = c.state /\ d.step_count = c.step_count /\ d.sgd = c.sgd
              /\ d.alone => c.alone /\ c.state # state[o]
        BY <2>2, CheckpointsAge
      <4>2. c.state \in Optimizers
        BY DEF OptimTypeOK, Checkpoint
      <4>3. seen'[c.state][p] = seen[c.state][p]
        BY <2>2, <3>2, <4>1, <4>2, OthersStill
      <4> QED BY <3>2, <4>1, <4>3 DEF SavedCovers
    <3> QED BY <3>1, <3>2 DEF CountCovers, SavedCovers
  <2>3. ASSUME NEW o \in Optimizers, state_dict(o) PROVE CountCovers' /\ SavedCovers'
    <3>1. UNCHANGED <<state, seen, step_count, alone, steady>>
      BY <2>3 DEF state_dict, claimVars
    <3>2. ASSUME NEW c \in checkpoints', c.alone, ~c.sgd, NEW p \in Params
          PROVE  seen[c.state][p] <= c.step_count
      <4>1. CASE c \in checkpoints
        BY <3>2, <4>1 DEF SavedCovers
      <4>2. CASE c \notin checkpoints
        <5>1. /\ c.state = state[o] /\ c.step_count = step_count[o]
              /\ c.sgd = (Kind[o] = "sgd") /\ c.alone = alone[o]
          BY <2>3, <4>2, SavedIs
        <5> QED BY <3>2, <5>1 DEF CountCovers, Adams
      <4> QED BY <4>1, <4>2
    <3> QED BY <3>1, <3>2 DEF CountCovers, SavedCovers
  <2>4. ASSUME NEW o \in Optimizers, NEW c \in checkpoints, load_state_dict(o, c)
        PROVE  CountCovers' /\ SavedCovers'
    <3>1. seen' = seen /\ checkpoints' = checkpoints
      BY <2>4 DEF load_state_dict
    <3>2. ASSUME NEW q \in Adams, alone'[q], NEW p \in Params
          PROVE  seen'[state'[q]][p] <= step_count'[q]
      <4>1. CASE q = o
        <5>1. ~c.sgd /\ c.alone /\ state'[q] = c.state /\ step_count'[q] = c.step_count
          BY <2>4, <3>2, <4>1, LoadedIs
        <5> QED BY <3>1, <5>1 DEF SavedCovers
      <4>2. CASE q # o
        <5>1. alone[q] /\ state'[q] = state[q] /\ step_count'[q] = step_count[q]
          BY <2>4, <3>2, <4>2, LoadedIs
        <5> QED BY <3>1, <5>1 DEF CountCovers
      <4> QED BY <4>1, <4>2
    <3> QED BY <3>1, <3>2 DEF CountCovers, SavedCovers
  <2> QED BY <2>1, <2>2, <2>3, <2>4 DEF OptimNext, Backward, zero_grad, optimVars
<1> QED BY <1>1, <1>2, TypeCorrect, PTL DEF OptimSpec

\* The correction is exact where every such step has moved the averages of all parameters,
\* over checkpoints too (adam.py:141-149, 168-188, 255-261).
THEOREM CountsExact == OptimSpec => []CountExact
<1> DEFINE Claims == CountExact /\ SavedExact
<1>1. OptimInit => Claims
  BY DEF OptimInit, CountExact, SavedExact, Adams
<1>2. OptimTypeOK /\ Claims /\ [OptimNext]_optimVars => Claims'
  <2> SUFFICES ASSUME OptimTypeOK, CountExact, SavedExact, [OptimNext]_optimVars
               PROVE  CountExact' /\ SavedExact'
    OBVIOUS
  <2>0. \A q \in Adams : q \in Optimizers /\ Kind[q] # "sgd"
    BY DEF Adams
  <2>1. CASE UNCHANGED <<state, seen, step_count, checkpoints, claimVars>>
    BY <2>1 DEF claimVars, CountExact, SavedExact
  <2>2. ASSUME NEW o \in Optimizers, step(o) PROVE CountExact' /\ SavedExact'
    <3>1. ASSUME NEW q \in Adams, steady'[q], NEW p \in Params
          PROVE  seen'[state'[q]][p] = step_count'[q]
      <4>1. steady[q] /\ (q # o => state[q] # state[o])
        BY <2>0, <2>2, <3>1, SharersLose
      <4>2. seen[state[q]][p] = step_count[q]
        BY <4>1 DEF CountExact
      <4>3. seen[state[q]][p] \in Nat /\ step_count[q] \in Nat /\ q \in Optimizers
        BY <2>0 DEF OptimTypeOK
      <4>4. CASE q = o
        <5>1. Averaged(o, p)
          BY <2>2, <3>1, <4>4, SharersLose
        <5>2. step_count'[q] = step_count[q] + 1
          BY <2>0, <2>2, <4>4, StepMoves
        <5>3. seen'[state'[q]][p] = seen[state[q]][p] + 1
          BY <2>2, <4>3, <4>4, <5>1, StepMoves
        <5> QED BY <4>2, <5>2, <5>3
      <4>5. CASE q # o
        BY <2>0, <2>2, <4>1, <4>2, <4>5, StepMoves
      <4> QED BY <4>4, <4>5
    <3>2. ASSUME NEW d \in checkpoints', d.steady, ~d.sgd, NEW p \in Params
          PROVE  seen'[d.state][p] = d.step_count
      <4>1. PICK c \in checkpoints :
              /\ d.state = c.state /\ d.step_count = c.step_count /\ d.sgd = c.sgd
              /\ d.steady => c.steady /\ c.state # state[o]
        BY <2>2, CheckpointsAge
      <4>2. c.state \in Optimizers
        BY DEF OptimTypeOK, Checkpoint
      <4>3. seen'[c.state][p] = seen[c.state][p]
        BY <2>2, <3>2, <4>1, <4>2, OthersStill
      <4> QED BY <3>2, <4>1, <4>3 DEF SavedExact
    <3> QED BY <3>1, <3>2 DEF CountExact, SavedExact
  <2>3. ASSUME NEW o \in Optimizers, state_dict(o) PROVE CountExact' /\ SavedExact'
    <3>1. UNCHANGED <<state, seen, step_count, alone, steady>>
      BY <2>3 DEF state_dict, claimVars
    <3>2. ASSUME NEW c \in checkpoints', c.steady, ~c.sgd, NEW p \in Params
          PROVE  seen[c.state][p] = c.step_count
      <4>1. CASE c \in checkpoints
        BY <3>2, <4>1 DEF SavedExact
      <4>2. CASE c \notin checkpoints
        <5>1. /\ c.state = state[o] /\ c.step_count = step_count[o]
              /\ c.sgd = (Kind[o] = "sgd") /\ c.steady = steady[o]
          BY <2>3, <4>2, SavedIs
        <5> QED BY <3>2, <5>1 DEF CountExact, Adams
      <4> QED BY <4>1, <4>2
    <3> QED BY <3>1, <3>2 DEF CountExact, SavedExact
  <2>4. ASSUME NEW o \in Optimizers, NEW c \in checkpoints, load_state_dict(o, c)
        PROVE  CountExact' /\ SavedExact'
    <3>1. seen' = seen /\ checkpoints' = checkpoints
      BY <2>4 DEF load_state_dict
    <3>2. ASSUME NEW q \in Adams, steady'[q], NEW p \in Params
          PROVE  seen'[state'[q]][p] = step_count'[q]
      <4>1. CASE q = o
        <5>1. ~c.sgd /\ c.steady /\ state'[q] = c.state /\ step_count'[q] = c.step_count
          BY <2>4, <3>2, <4>1, LoadedIs
        <5> QED BY <3>1, <5>1 DEF SavedExact
      <4>2. CASE q # o
        <5>1. steady[q] /\ state'[q] = state[q] /\ step_count'[q] = step_count[q]
          BY <2>4, <3>2, <4>2, LoadedIs
        <5> QED BY <3>1, <5>1 DEF CountExact
      <4> QED BY <4>1, <4>2
    <3> QED BY <3>1, <3>2 DEF CountExact, SavedExact
  <2> QED BY <2>1, <2>2, <2>3, <2>4 DEF OptimNext, Backward, zero_grad, optimVars
<1> QED BY <1>1, <1>2, TypeCorrect, PTL DEF OptimSpec

\* The bias correction is made for no fewer gradients than the averages hold, and for
\* exactly those while every step moves all of them, through steps that raise half-way,
\* whichever checkpoints are saved and loaded, as long as nobody steps on the dictionary
\* whose steps the count does not have (adam.py:101-149, 168-188, 223-261).
THEOREM CountsStayRight == OptimSpec => []CountsRight
<1>1. CountCovers /\ CountExact => CountsRight
  BY DEF CountsRight
<1> QED BY <1>1, CountsCover, CountsExact, PTL

-------------------------------------------------------------------------------
(* TextGeneration: inside the model, a place knows of the places up to its own,*)
(* and of nothing else.                                                       *)

\* Inside the model the window holds the places of the last tokens.
LastWindow ==
  gen_pc \in {"embed", "blocks", "feed_forward", "sample"} => window = LastTokens(model.max_seq_len)

\* A place knows of the places up to its own, of itself first, and of all of them once a
\* block has been applied.
Upto(i) == {window[j] : j \in 1 .. i}
Known ==
  /\ gen_pc \in {"loop", "embed", "returned"} => x = <<>>
  /\ \A i \in DOMAIN x : window[i] \in x[i] /\ x[i] \subseteq Upto(i)
  /\ gen_pc \in {"blocks", "feed_forward", "sample"} =>
       /\ x \in Seq(SUBSET Nat) /\ Len(x) = Len(window)
       /\ gen_pc = "feed_forward" \/ layer > 0 => \A i \in DOMAIN x : x[i] = Upto(i)

GenShape ==
  /\ generated_ids \in Seq(Nat) /\ layer \in Nat /\ window \in Seq(Nat \ {0})
  /\ model \in Model /\ request \in Request
  /\ gen_pc \in {"loop", "embed", "blocks", "feed_forward", "sample", "returned", "raised"}
  /\ gen_pc = "sample" => layer = model.n_layers /\ window # <<>>

GenInv == GenShape /\ LastWindow /\ Known

(* generated_ids[-n:] holds the last n places, or all of them.             *)
LEMMA LastFacts ==
  ASSUME generated_ids \in Seq(Nat), NEW n \in Nat \ {0}
  PROVE  LET w == LastTokens(n) IN
         /\ w \in Seq(Nat \ {0})
         /\ {w[j] : j \in 1 .. Len(w)} = {p \in DOMAIN generated_ids : p > Len(generated_ids) - n}
<1> DEFINE L == Len(generated_ids)
           skip == IF L > n THEN L - n ELSE 0
           w == LastTokens(n)
<1>1. L \in Nat /\ skip \in Nat /\ skip <= L
  OBVIOUS
<1>2. w = [i \in 1 .. L - skip |-> skip + i]
  BY DEF LastTokens
<1>3. w \in Seq(Nat \ {0}) /\ Len(w) = L - skip
  BY <1>1, <1>2
<1>4. \A p : p \in {w[j] : j \in 1 .. Len(w)} <=> p \in 1 .. L /\ p > L - n
  <2>1. \A j \in 1 .. Len(w) : w[j] \in 1 .. L /\ w[j] > L - n
    BY <1>1, <1>2, <1>3
  <2>2. ASSUME NEW p \in 1 .. L, p > L - n PROVE p \in {w[j] : j \in 1 .. Len(w)}
    <3>1. p - skip \in 1 .. Len(w) /\ w[p - skip] = p
      BY <1>1, <1>2, <1>3, <2>2
    <3> QED BY <3>1
  <2> QED BY <2>1, <2>2
<1>5. DOMAIN generated_ids = 1 .. L
  OBVIOUS
<1> QED BY <1>3, <1>4, <1>5

\* A function on 1 .. n is a list of that length.
LEMMA ListByLength ==
  ASSUME NEW S, NEW n \in Nat, NEW f \in [1 .. n -> S]
  PROVE  f \in Seq(S) /\ Len(f) = n
  OBVIOUS

LEMMA GenInitial == GenInit => GenInv
<1> SUFFICES ASSUME GenInit PROVE GenInv
  OBVIOUS
<1>1. generated_ids \in Seq(Nat)
  <2>1. request.prompt \in Nat
    BY DEF GenInit, Request
  <2>2. \A f \in [1 .. request.prompt -> Nat] : f \in Seq(Nat)
    BY <2>1
  <2>3. generated_ids \in [1 .. request.prompt -> Nat]
    BY GenerationAssumption DEF GenInit
  <2> QED BY <2>2, <2>3
<1> QED BY <1>1 DEF GenInit, GenInv, GenShape, LastWindow, Known

(* Each step of generate_text(), of the model and of sample_token().       *)
LEMMA GenStep == GenInv /\ [GenNext]_genVars => GenInv'
<1> SUFFICES ASSUME GenInv, [GenNext]_genVars PROVE GenInv'
  OBVIOUS
<1> USE DEF GenInv, GenShape, Stay, GenGo
<1>0. model.max_seq_len \in Nat \ {0} /\ model.n_layers \in Nat
  BY DEF Model
<1>1. CASE BeginToken
  <2>1. window' = LastTokens(model.max_seq_len) /\ window' \in Seq(Nat \ {0})
    BY <1>0, <1>1, LastFacts DEF BeginToken
  <2> QED BY <1>1, <2>1 DEF BeginToken, LastWindow, LastTokens, Known
<1>2. CASE Finished
  BY <1>2 DEF Finished, LastWindow, Known, Upto
<1>3. ASSUME NEW from \in {"embed", "blocks", "sample"}, Raises(from) PROVE GenInv'
  BY <1>3 DEF Raises, LastWindow, Known, Upto
<1>4. CASE Embed
  <2>1. CASE \E i \in DOMAIN window : generated_ids[window[i]] \notin Tokens
    BY <1>3, <1>4, <2>1 DEF Embed
  <2>2. CASE ~\E i \in DOMAIN window : generated_ids[window[i]] \notin Tokens
    <3>1. /\ x' = [i \in DOMAIN window |-> {window[i]}] /\ layer' = 0
          /\ gen_pc = "embed" /\ gen_pc' = "blocks" /\ UNCHANGED <<generated_ids, window, model, request>>
      BY <1>4, <2>2 DEF Embed
    <3>2. x' \in Seq(SUBSET Nat) /\ Len(x') = Len(window) /\ DOMAIN x' = 1 .. Len(window)
      <4>1. window \in Seq(Nat)
        OBVIOUS
      <4>2. \A i \in DOMAIN window : {window[i]} \in SUBSET Nat
        BY <4>1
      <4>3. Len(window) \in Nat /\ DOMAIN window = 1 .. Len(window)
        BY <4>1
      <4>4. x' \in [1 .. Len(window) -> SUBSET Nat] /\ DOMAIN x' = 1 .. Len(window)
        BY <3>1, <4>2, <4>3
      <4> QED BY <4>3, <4>4, ListByLength
    <3>3. \A i \in DOMAIN x' : window[i] \in x'[i] /\ x'[i] \subseteq Upto(i)
      BY <3>1, <3>2 DEF Upto
    <3>4. LastWindow'
      BY <3>1 DEF LastWindow, LastTokens
    <3>5. \A i \in DOMAIN x' : window'[i] \in x'[i] /\ x'[i] \subseteq Upto(i)'
      BY <3>1, <3>3 DEF Upto
    <3>6. Known'
      BY <3>1, <3>2, <3>5 DEF Known
    <3> QED BY <3>1, <3>4, <3>6
  <2> QED BY <2>1, <2>2
<1>5. CASE Attention
  <2>1. CASE ~model.divides \/ window = <<>>
    BY <1>3, <1>5, <2>1 DEF Attention
  <2>2. CASE ~(~model.divides \/ window = <<>>)
    <3>1. /\ x' = [i \in DOMAIN window |-> x[i] \cup UNION {x[j] : j \in Sees(i)}]
          /\ gen_pc = "blocks" /\ gen_pc' = "feed_forward"
          /\ UNCHANGED <<generated_ids, window, layer, model, request>>
      BY <1>5, <2>2 DEF Attention
    <3>2. x \in Seq(SUBSET Nat) /\ DOMAIN x = 1 .. Len(window) /\ DOMAIN window = 1 .. Len(window)
          /\ Len(window) \in Nat
      BY <3>1 DEF Known
    <3>3. \A i \in DOMAIN x : window[i] \in x[i] /\ x[i] \subseteq Upto(i)
      BY DEF Known
    <3>4. ASSUME NEW i \in 1 .. Len(window) PROVE x'[i] = Upto(i)
      <4>1. Sees(i) = 1 .. i /\ i \in 1 .. i /\ 1 .. i \subseteq DOMAIN x
        BY <3>2 DEF Sees
      <4>2. x'[i] = x[i] \cup UNION {x[j] : j \in 1 .. i}
        BY <3>1, <3>2, <4>1
      <4>3. \A j \in 1 .. i : x[j] \subseteq Upto(i)
        <5>1. \A j \in 1 .. i : 1 .. j \subseteq 1 .. i
          BY <4>1
        <5>2. \A j \in 1 .. i : Upto(j) \subseteq Upto(i)
          BY <5>1 DEF Upto
        <5> QED BY <3>3, <4>1, <5>2
      <4>4. \A j \in 1 .. i : window[j] \in x[j]
        BY <3>3, <4>1
      <4>5. x'[i] \subseteq Upto(i)
        BY <4>1, <4>2, <4>3
      <4>6. Upto(i) \subseteq x'[i]
        <5>1. \A j \in 1 .. i : x[j] \subseteq x'[i]
          BY <4>2
        <5> QED BY <4>4, <5>1 DEF Upto
      <4> QED BY <4>5, <4>6
    <3>5. x' \in Seq(SUBSET Nat) /\ Len(x') = Len(window) /\ DOMAIN x' = 1 .. Len(window)
      <4>1. \A i \in 1 .. Len(window) : Upto(i) \in SUBSET Nat
        BY <3>2 DEF Upto
      <4>2. x' = [i \in 1 .. Len(window) |-> Upto(i)]
        BY <3>1, <3>2, <3>4
      <4> QED BY <3>2, <4>1, <4>2
    <3>6. \A i \in DOMAIN x' : window[i] \in x'[i]
      BY <3>4, <3>5 DEF Upto
    <3>7. LastWindow'
      BY <3>1 DEF LastWindow, LastTokens
    <3>8. \A i \in DOMAIN x' : window'[i] \in x'[i] /\ x'[i] = Upto(i)'
      <4>1. \A i : Upto(i)' = Upto(i)
        BY <3>1 DEF Upto
      <4>2. window' = window /\ \A i \in DOMAIN x' : x'[i] = Upto(i)
        BY <3>1, <3>4, <3>5
      <4> QED BY <3>6, <4>1, <4>2
    <3>9. Known'
      BY <3>1, <3>5, <3>8 DEF Known
    <3> QED BY <3>1, <3>7, <3>9
  <2> QED BY <2>1, <2>2
<1>6. CASE FeedForward
  BY <1>6 DEF FeedForward, LastWindow, LastTokens, Known, Upto
<1>7. CASE Head_
  <2>1. CASE window = <<>>
    BY <1>3, <1>7, <2>1 DEF Head_
  <2>2. CASE window # <<>>
    BY <1>7, <2>2 DEF Head_, LastWindow, LastTokens, Known, Upto
  <2> QED BY <2>1, <2>2
<1>8. CASE SampleFails
  BY <1>3, <1>8 DEF SampleFails
<1>9. ASSUME NEW logits \in [Tokens -> 0 .. 1], NEW t \in Tokens, Sample(logits, t) PROVE GenInv'
  <2>1. generated_ids' \in Seq(Nat)
    BY <1>9, GenerationAssumption DEF Sample, Tokens
  <2> QED BY <1>9, <2>1 DEF Sample, LastWindow, Known
<1>10. CASE UNCHANGED genVars
  BY <1>10 DEF genVars, LastWindow, LastTokens, Known, Upto
<1> QED BY <1>1, <1>2, <1>4, <1>5, <1>6, <1>7, <1>8, <1>9, <1>10 DEF GenNext

\* The token that is appended is drawn from logits that depend on the last max_seq_len
\* tokens of the text, whatever their number and that of the blocks, and the causal mask
\* lets no place see a later one (llm_generation.py:94-108, 176-186, 199-209, 267-276).
THEOREM ContextIsWindow == GenSpec => []ContextExact
<1>1. GenInv => ContextExact
  <2> SUFFICES ASSUME GenInv PROVE ContextExact
    OBVIOUS
  <2>1. \A i \in DOMAIN x : x[i] \subseteq {window[j] : j \in 1 .. i}
    BY DEF GenInv, Known, Upto
  <2>2. ASSUME gen_pc = "sample", model.n_layers > 0
        PROVE  x[Len(x)] = {p \in DOMAIN generated_ids : p > Len(generated_ids) - model.max_seq_len}
    <3>1. /\ layer > 0 /\ x \in Seq(SUBSET Nat) /\ Len(x) = Len(window) /\ window # <<>>
          /\ window \in Seq(Nat \ {0}) /\ window = LastTokens(model.max_seq_len)
          /\ \A i \in DOMAIN x : x[i] = Upto(i)
      BY <2>2 DEF GenInv, GenShape, LastWindow, Known
    <3>2. Len(x) \in DOMAIN x
      BY <3>1
    <3>3. x[Len(x)] = {window[j] : j \in 1 .. Len(window)}
      BY <3>1, <3>2 DEF Upto
    <3>4. generated_ids \in Seq(Nat) /\ model.max_seq_len \in Nat \ {0}
      BY DEF GenInv, GenShape, Model
    <3> QED BY <3>1, <3>3, <3>4, LastFacts, ZenonT(60)
  <2> QED BY <2>1, <2>2 DEF ContextExact
<1> QED BY <1>1, GenInitial, GenStep, PTL DEF GenSpec

\* What the types need: a text that is being worked on may still grow, and a block is
\* applied only where there is one.
Grows == /\ gen_pc \in {"embed", "blocks", "feed_forward", "sample"} => New < request.max_new_tokens
         /\ gen_pc = "feed_forward" => layer < model.n_layers

\* A text has at most max_new_tokens new tokens, and the model no more blocks than it has
\* (llm_generation.py:188-219, 251-288).
THEOREM GenTyped == GenSpec => []GenTypeOK
<1> USE DEF GenTypeOK, Grows, New, GenGo, Stay
<1>1. GenInit => GenTypeOK /\ Grows
  <2> SUFFICES ASSUME GenInit PROVE GenTypeOK /\ Grows
    OBVIOUS
  <2>1. /\ model \in Model /\ request \in Request /\ x = <<>> /\ layer = 0 /\ gen_pc = "loop"
        /\ generated_ids \in [1 .. request.prompt -> Tokens \cup {Vocabulary}]
    BY GenerationAssumption DEF GenInit, Tokens
  <2>2. request.prompt \in Nat /\ request.max_new_tokens \in Nat /\ model.n_layers \in Nat
    BY <2>1 DEF Request, Model
  <2>3. generated_ids \in Seq(Tokens \cup {Vocabulary}) /\ Len(generated_ids) = request.prompt
    BY <2>1, <2>2, ListByLength
  <2> QED BY <2>1, <2>2, <2>3
<1>2. GenInv /\ GenTypeOK /\ Grows /\ [GenNext]_genVars => (GenTypeOK /\ Grows)'
  <2> SUFFICES ASSUME GenInv, GenTypeOK, Grows, [GenNext]_genVars PROVE (GenTypeOK /\ Grows)'
    OBVIOUS
  <2>1. /\ model.n_layers \in Nat /\ request.max_new_tokens \in Nat /\ request.prompt \in Nat
        /\ layer \in Nat /\ Len(generated_ids) \in Nat
        /\ gen_pc \in {"loop", "embed", "returned"} => x = <<>>
    BY DEF Model, Request, GenInv, Known
  <2>2. CASE BeginToken
    BY <2>1, <2>2 DEF BeginToken
  <2>3. CASE Finished
    BY <2>1, <2>3 DEF Finished
  <2>4. ASSUME NEW from, Raises(from) PROVE (GenTypeOK /\ Grows)'
    BY <2>1, <2>4 DEF Raises
  <2>5. CASE Embed
    BY <2>1, <2>4, <2>5 DEF Embed
  <2>6. CASE Attention
    BY <2>1, <2>4, <2>6 DEF Attention
  <2>7. CASE FeedForward
    BY <2>1, <2>7 DEF FeedForward
  <2>8. CASE Head_
    BY <2>1, <2>4, <2>8 DEF Head_
  <2>9. CASE SampleFails
    BY <2>4, <2>9 DEF SampleFails
  <2>10. ASSUME NEW logits, NEW t \in Tokens, Sample(logits, t) PROVE (GenTypeOK /\ Grows)'
    <3>1. /\ generated_ids' \in Seq(Tokens \cup {Vocabulary})
          /\ Len(generated_ids') = Len(generated_ids) + 1
      BY <2>10 DEF Sample
    <3> QED BY <2>1, <2>10, <3>1 DEF Sample
  <2>11. CASE UNCHANGED genVars
    BY <2>11 DEF genVars
  <2> QED BY <2>2, <2>3, <2>5, <2>6, <2>7, <2>8, <2>9, <2>10, <2>11 DEF GenNext
<1> QED BY <1>1, <1>2, GenInitial, GenStep, PTL DEF GenSpec

-------------------------------------------------------------------------------
(* TrainingLoop: a sum over the batches seen is the sum over their samples, and*)
(* the batches of an epoch are cut from its samples once.                     *)

(* Whole batches: what multiplication and division make of their number.   *)
LEMMA Within ==
  ASSUME NEW q \in Nat, NEW b \in Nat \ {0}, NEW a \in Nat, a < q
  PROVE  /\ (a + 1) * b = a * b + b /\ a * b \in Nat /\ q * b \in Nat
         /\ a * b + b <= q * b
OBVIOUS

LEMMA Division ==
  ASSUME NEW n \in Nat, NEW b \in Nat \ {0}
  PROVE  /\ n \div b \in Nat /\ (n \div b) * b <= n
         /\ n % b = 0 => (n \div b) * b = n
         /\ n % b = 0 => (n + b - 1) \div b = n \div b
<1> DEFINE q == n \div b
           m == n + b - 1
           p == m \div b
<1>1. ASSUME NEW k \in Nat
      PROVE  k \div b \in Nat /\ k % b \in 0 .. b - 1 /\ k = b * (k \div b) + (k % b)
  OBVIOUS
<1>2. /\ q \in Nat /\ n % b \in 0 .. b - 1 /\ n = b * q + (n % b)
  BY <1>1
<1>3. /\ m \in Nat /\ p \in Nat /\ m % b \in 0 .. b - 1 /\ m = b * p + (m % b)
  BY <1>1
<1>4. ASSUME n % b = 0 PROVE p = q
  <2>1. b * q + b - 1 = b * p + (m % b) /\ m % b \in 0 .. b - 1
    BY <1>2, <1>3, <1>4
  <2> HIDE DEF p, q, m
  <2>2. ASSUME q < p PROVE FALSE
    <3>1. q * b + b <= p * b
      BY <1>2, <1>3, <2>2, Within
    <3> QED BY <1>2, <1>3, <2>1, <3>1
  <2>3. ASSUME p < q PROVE FALSE
    <3>1. p * b + b <= q * b
      BY <1>2, <1>3, <2>3, Within
    <3> QED BY <1>2, <1>3, <2>1, <3>1
  <2> QED BY <1>2, <1>3, <2>2, <2>3
<1> QED BY <1>2, <1>4

LEMMA Shares ==
  ASSUME NEW m \in Nat, NEW b \in Nat \ {0}, m % b = 0, NEW c \in Nat, NEW d \in Nat, NEW e \in Nat, 
         d * b = m * e
  PROVE  (d + c * (m \div b)) * b = m * (e + c)
<1>1. (m \div b) * b = m
  BY Division
<1> DEFINE k == m \div b
<1>2. k \in Nat
  BY Division
<1> HIDE DEF k
<1> QED BY <1>1, <1>2 DEF k

-------------------------------------------------------------------------------

\* The batches come out even: in training what does not fill one is left out.
Even == training \/ n_samples % batch_size = 0

\* Of the first k samples in the order of the epoch, the places of those that are right.
RightUpto(k) == {i \in 1 .. k : right[order[i]]}

\* What has been added up is the share of the samples taken so far.
Weighed == /\ total_acc \in Nat
           /\ total_acc * batch_size = Scale * Cardinality(RightUpto(batch_idx * batch_size))

EpochShape ==
  /\ training \in BOOLEAN /\ batch_size \in 1 .. MaxBatch /\ batch_idx \in 0 .. n_batches
  /\ n_samples \in Nat /\ right \in [1 .. n_samples -> BOOLEAN]
  /\ order \in [1 .. n_samples -> 1 .. n_samples]
  /\ \A i, j \in 1 .. n_samples : order[i] = order[j] => i = j
  /\ epoch_pc = "returned" => batch_idx = n_batches

EpochInv == EpochShape /\ (Even => Weighed)

(* The number of samples at some places of the order is that of the places. *)
LEMMA Taken ==
  ASSUME EpochShape, NEW T \in SUBSET (1 .. n_samples)
  PROVE  /\ IsFiniteSet(T) /\ IsFiniteSet({order[i] : i \in T})
         /\ Cardinality({order[i] : i \in T}) = Cardinality(T)
<1> DEFINE S == {order[i] : i \in T}
           f == [i \in T |-> order[i]]
<1>1. IsFiniteSet(T)
  <2>1. IsFiniteSet(1 .. n_samples)
    BY FS_Interval DEF EpochShape
  <2> QED BY <2>1, FS_Subset
<1>2. f \in Surjection(T, S)
  BY DEF Surjection
<1>3. f \in Injection(T, S)
  BY DEF Injection, IsInjective, EpochShape
<1> HIDE DEF f, S
<1>4. IsFiniteSet(S) /\ Cardinality(S) = Cardinality(T)
  BY <1>1, <1>2, <1>3, FS_Surjection
<1> QED BY <1>1, <1>4 DEF S

(* In an epoch that comes out even every batch is full.                    *)
LEMMA FullBatch ==
  ASSUME EpochShape, Even
  PROVE  /\ n_batches = n_samples \div batch_size /\ n_batches \in Nat
         /\ n_batches * batch_size <= n_samples
         /\ n_samples % batch_size = 0 => n_batches * batch_size = n_samples
         /\ batch_idx < n_batches =>
              /\ (batch_idx + 1) * batch_size = BatchStart + batch_size
              /\ BatchStart \in Nat /\ BatchEnd = BatchStart + batch_size
              /\ BatchEnd <= n_samples
<1>1. n_samples \in Nat /\ batch_size \in Nat \ {0} /\ batch_idx \in Nat
  BY TrainingAssumption DEF EpochShape
<1>2. n_batches = n_samples \div batch_size
  BY <1>1, Division DEF Even, n_batches, FullBatches, AllBatches
<1>3. /\ n_batches \in Nat /\ n_batches * batch_size <= n_samples
      /\ n_samples % batch_size = 0 => n_batches * batch_size = n_samples
  BY <1>1, <1>2, Division
<1>4. ASSUME batch_idx < n_batches
      PROVE  /\ (batch_idx + 1) * batch_size = BatchStart + batch_size
             /\ BatchStart \in Nat /\ BatchStart + batch_size <= n_batches * batch_size
             /\ n_batches * batch_size \in Nat
  BY <1>1, <1>3, <1>4, Within DEF BatchStart
<1>5. ASSUME batch_idx < n_batches
      PROVE  BatchEnd = BatchStart + batch_size /\ BatchEnd <= n_samples
  BY <1>1, <1>3, <1>4, <1>5 DEF BatchEnd
<1> QED BY <1>2, <1>3, <1>4, <1>5

LEMMA EpochStep == EpochInv /\ [EpochNext]_epochVars => EpochInv'
<1> SUFFICES ASSUME EpochInv, [EpochNext]_epochVars PROVE EpochInv'
  OBVIOUS
<1>1. CASE RunBatch
  <2>1. UNCHANGED <<training, right, order, batch_size, epoch_pc, n_samples, n_batches>>
        /\ batch_idx' = batch_idx + 1 /\ batch_idx < n_batches /\ epoch_pc = "batches"
    BY <1>1 DEF RunBatch, n_samples, n_batches, FullBatches, AllBatches
  <2>2. EpochShape'
    BY <2>1, TrainingAssumption, SMTT(30) DEF EpochInv, EpochShape, n_batches, FullBatches, AllBatches
  <2>3. ASSUME Even PROVE Weighed'
    <3> DEFINE lo == BatchStart
               hi == BatchEnd
               T == {i \in lo + 1 .. hi : right[order[i]]}
               e == Cardinality(RightUpto(lo))
               c == Cardinality(T)
    <3>1. /\ lo \in Nat /\ hi = lo + batch_size /\ hi <= n_samples /\ n_samples \in Nat
          /\ batch_size \in Nat \ {0} /\ (batch_idx + 1) * batch_size = hi
      BY <2>1, <2>3, FullBatch, TrainingAssumption DEF EpochInv, EpochShape
    <3>2. Cardinality(Batch) = batch_size
      <4>1. lo + 1 .. hi \in SUBSET (1 .. n_samples) /\ Cardinality(lo + 1 .. hi) = batch_size
        BY <3>1, FS_Interval
      <4> QED BY <4>1, Taken DEF Batch, EpochInv
    <3>3. Cardinality({s \in Batch : right[s]}) = c /\ IsFiniteSet(T)
      <4>1. {s \in Batch : right[s]} = {order[i] : i \in T}
        BY DEF Batch
      <4>2. T \in SUBSET (1 .. n_samples)
        BY <3>1
      <4> QED BY <4>1, <4>2, Taken DEF EpochInv
    <3>4. /\ RightUpto(hi) = RightUpto(lo) \cup T /\ RightUpto(lo) \cap T = {}
          /\ IsFiniteSet(RightUpto(lo))
      <4>1. RightUpto(hi) = RightUpto(lo) \cup T /\ RightUpto(lo) \cap T = {}
        BY <3>1 DEF RightUpto
      <4>2. RightUpto(lo) \in SUBSET (1 .. n_samples)
        BY <3>1 DEF RightUpto
      <4> QED BY <4>1, <4>2, Taken DEF EpochInv
    <3>5. /\ Cardinality(RightUpto(hi)) = e + c /\ e \in Nat /\ c \in Nat
      <4> DEFINE U == RightUpto(lo)
      <4> HIDE DEF U, T
      <4>1. IsFiniteSet(U) /\ IsFiniteSet(T) /\ U \cap T = {} /\ RightUpto(hi) = U \cup T
        BY <3>3, <3>4 DEF U
      <4>2. Cardinality(U \cup T) = Cardinality(U) + Cardinality(T) - Cardinality(U \cap T)
        BY <4>1, FS_Union
      <4>3. Cardinality(U) \in Nat /\ Cardinality(T) \in Nat /\ Cardinality(U \cap T) = 0
        BY <4>1, FS_CardinalityType, FS_EmptySet
      <4> QED BY <4>1, <4>2, <4>3 DEF U
    <3>6. Weighed /\ lo = batch_idx * batch_size
      BY <2>3 DEF EpochInv, BatchStart
    <3>7. total_acc \in Nat /\ total_acc * batch_size = Scale * e
      BY <3>6 DEF Weighed
    <3>8. total_acc' = total_acc + c * (Scale \div batch_size)
      BY <1>1, <3>2, <3>3 DEF RunBatch
    <3>9. Scale \in Nat /\ Scale % batch_size = 0
      BY TrainingAssumption DEF EpochInv, EpochShape
    <3> HIDE DEF lo, hi, T, e, c
    <3>10. total_acc' * batch_size = Scale * (e + c) /\ total_acc' \in Nat
      <4>1. Scale \div batch_size \in Nat
        BY <3>1, <3>9, Division
      <4>2. (total_acc + c * (Scale \div batch_size)) * batch_size = Scale * (e + c)
        <5>1. /\ Scale \in Nat /\ batch_size \in Nat \ {0} /\ Scale % batch_size = 0
              /\ c \in Nat /\ total_acc \in Nat /\ e \in Nat /\ total_acc * batch_size = Scale * e
          BY <3>1, <3>5, <3>7, <3>9
        <5> QED BY <5>1, Shares
      <4>3. c * (Scale \div batch_size) \in Nat
        BY <3>5, <4>1
      <4> QED BY <3>7, <3>8, <4>2, <4>3
    <3>11. RightUpto(batch_idx * batch_size)' = RightUpto(hi)
      BY <2>1, <3>1 DEF RightUpto
    <3> QED BY <2>1, <3>5, <3>10, <3>11 DEF Weighed
  <2>4. Even' <=> Even
    BY <2>1 DEF Even
  <2> QED BY <2>2, <2>3, <2>4 DEF EpochInv
<1>2. CASE Average
  <2>1. UNCHANGED <<training, right, order, batch_size, batch_idx, total_acc, n_samples, n_batches>>
        /\ batch_idx = n_batches
    BY <1>2 DEF Average, n_samples, n_batches, FullBatches, AllBatches
  <2> QED BY <2>1 DEF EpochInv, EpochShape, Even, Weighed, RightUpto
<1>3. CASE UNCHANGED epochVars
  <2>1. UNCHANGED <<training, right, order, batch_size, batch_idx, total_acc, n_samples, n_batches, epoch_pc>>
    BY <1>3 DEF epochVars, n_samples, n_batches, FullBatches, AllBatches
  <2> QED BY <2>1 DEF EpochInv, EpochShape, Even, Weighed, RightUpto
<1> QED BY <1>1, <1>2, <1>3 DEF EpochNext

LEMMA EpochInitial == EpochInit => EpochInv
<1> SUFFICES ASSUME EpochInit PROVE EpochInv
  OBVIOUS
<1>1. PICK n \in 0 .. MaxSamples : right \in [1 .. n -> BOOLEAN]
  BY DEF EpochInit
<1>2. n_samples = n /\ n \in Nat
  BY <1>1, TrainingAssumption DEF n_samples
<1>3. batch_size \in 1 .. MaxBatch /\ training \in BOOLEAN
      /\ batch_idx = 0 /\ total_acc = 0 /\ epoch_pc = "batches"
  BY DEF EpochInit
<1>4. /\ order \in [1 .. n -> 1 .. n] /\ \A i, j \in 1 .. n : order[i] = order[j] => i = j
  <2>1. Cardinality(1 .. n) = n
    BY <1>2, FS_Interval
  <2>2. order \in IF training THEN SetToSeqs(1 .. n) ELSE {[i \in 1 .. n |-> i]}
    BY <1>2 DEF EpochInit, n_samples
  <2> QED BY <1>2, <2>1, <2>2 DEF SetToSeqs
<1>5. n_batches \in Nat
  BY <1>2, <1>3, TrainingAssumption, Division DEF n_batches, FullBatches, AllBatches
<1>6. RightUpto(batch_idx * batch_size) = {}
  BY <1>3, TrainingAssumption DEF RightUpto
<1>7. Weighed
  <2>1. Cardinality(RightUpto(batch_idx * batch_size)) = 0 /\ Scale \in Nat /\ batch_size \in Nat
    BY <1>3, <1>6, FS_EmptySet, TrainingAssumption
  <2> QED BY <1>3, <2>1, SMTT(30) DEF Weighed
<1> QED BY <1>1, <1>2, <1>3, <1>4, <1>5, <1>7 DEF EpochInv, EpochShape

\* The accuracy an epoch returns is that of the samples it used, each counted once, for
\* any number of samples and any batch size, when all the batches are full; the last one
\* of an evaluation that is not has the weight of a full one (mnist_training.py:171-212,
\* 228-257).
THEOREM AveragesAreExact == EpochSpec => []AverageExact
<1>1. EpochInv => AverageExact
  <2> SUFFICES ASSUME EpochInv, epoch_pc = "returned", Even
               PROVE  total_acc * Cardinality(Used)
                        = Scale * n_batches * Cardinality({s \in Used : right[s]})
    BY DEF AverageExact, Even
  <2> DEFINE k == n_batches * batch_size
             T == RightUpto(k)
  <2>1. /\ n_batches = n_samples \div batch_size /\ n_batches \in Nat /\ k <= n_samples
        /\ n_samples % batch_size = 0 => k = n_samples
        /\ batch_size \in Nat \ {0} /\ n_samples \in Nat
    BY FullBatch, TrainingAssumption DEF EpochInv, EpochShape
  <2>2. k \in Nat /\ k = batch_size * n_batches
    BY <2>1
  <2>3. 1 .. k = 1 .. (IF training THEN batch_size * (n_samples \div batch_size) ELSE n_samples)
    BY <2>1, <2>2 DEF Even
  <2> HIDE DEF k
  <2>4. Used = {order[i] : i \in 1 .. k}
    BY <2>3 DEF Used, FullBatches
  <2>5. 1 .. k \in SUBSET (1 .. n_samples) /\ T \in SUBSET (1 .. n_samples)
    BY <2>1, <2>2 DEF RightUpto
  <2>6. Cardinality(Used) = k
    <3>1. Cardinality(1 .. k) = k
      BY <2>2, FS_Interval
    <3>2. Cardinality({order[i] : i \in 1 .. k}) = Cardinality(1 .. k)
      BY <2>5, Taken DEF EpochInv
    <3> QED BY <2>4, <3>1, <3>2
  <2>7. {s \in Used : right[s]} = {order[i] : i \in T}
    BY <2>4 DEF RightUpto
  <2>8. Cardinality({s \in Used : right[s]}) = Cardinality(T) /\ Cardinality(T) \in Nat
    BY <2>5, <2>7, Taken, FS_CardinalityType DEF EpochInv
  <2>9. Weighed /\ batch_idx * batch_size = k
    BY DEF EpochInv, EpochShape, k
  <2>10. total_acc \in Nat /\ total_acc * batch_size = Scale * Cardinality(T)
    BY <2>9 DEF Weighed
  <2> DEFINE c == Cardinality(T)
  <2> HIDE DEF c, T
  <2>11. total_acc * (batch_size * n_batches) = Scale * n_batches * c
    <3>1. total_acc * (batch_size * n_batches) = (total_acc * batch_size) * n_batches
      BY <2>1, <2>10
    <3>2. c \in Nat /\ Scale \in Nat /\ total_acc * batch_size = Scale * c
      BY <2>8, <2>10, TrainingAssumption DEF c
    <3> QED BY <2>1, <3>1, <3>2
  <2> QED BY <2>2, <2>6, <2>8, <2>11 DEF c
<1> QED BY <1>1, EpochInitial, EpochStep, PTL DEF EpochSpec

\* Every batch there is has a sample, the last one of an evaluation too.
LEMMA SomeSample ==
  ASSUME EpochShape, batch_idx < n_batches
  PROVE  BatchStart \in Nat /\ BatchEnd \in Nat /\ BatchStart < BatchEnd /\ BatchEnd <= n_samples
<1>1. n_samples \in Nat /\ batch_size \in Nat \ {0} /\ batch_idx \in Nat
  BY TrainingAssumption DEF EpochShape
<1>2. n_batches \in Nat /\ n_batches * batch_size <= n_samples + batch_size - 1
  <2>1. /\ n_samples \div batch_size \in Nat
        /\ (n_samples \div batch_size) * batch_size <= n_samples
    BY <1>1, Division
  <2>2. n_samples + batch_size - 1 \in Nat
    BY <1>1
  <2>3. /\ (n_samples + batch_size - 1) \div batch_size \in Nat
        /\ ((n_samples + batch_size - 1) \div batch_size) * batch_size <= n_samples + batch_size - 1
    BY <1>1, <2>2, Division
  <2>4. CASE training
    BY <1>1, <2>1, <2>4 DEF n_batches, FullBatches, AllBatches
  <2>5. CASE ~training
    BY <2>3, <2>5 DEF n_batches, FullBatches, AllBatches
  <2> QED BY <2>4, <2>5
<1>3. BatchStart \in Nat /\ BatchStart + batch_size <= n_batches * batch_size
  BY <1>1, <1>2, Within DEF BatchStart
<1> QED BY <1>1, <1>2, <1>3 DEF BatchEnd

\* A share of a whole is no more than the whole.
LEMMA ShareFits ==
  ASSUME NEW m \in Nat, NEW b \in Nat \ {0}, NEW c \in 0 .. b
  PROVE  c * (m \div b) \in 0 .. m
<1>1. m \div b \in Nat /\ (m \div b) * b <= m
  BY Division
<1> DEFINE k == m \div b
<1> HIDE DEF k
<1>2. c * k \in Nat /\ c * k <= k * b
  BY <1>1 DEF k
<1> QED BY <1>1, <1>2 DEF k

Bounded == /\ total_acc \in Nat /\ total_acc <= Scale * batch_idx
           /\ epoch_pc \in {"batches", "returned", "raised"}

\* What an epoch adds up is at most one for each batch, so that the accuracy it returns is
\* never above one, the short last batch of an evaluation included
\* (mnist_training.py:171-212, 228-257).
THEOREM EpochTyped == EpochSpec => []EpochTypeOK
<1>1. EpochInit => Bounded
  BY TrainingAssumption DEF EpochInit, Bounded
<1>2. EpochInv /\ Bounded /\ [EpochNext]_epochVars => Bounded'
  <2> SUFFICES ASSUME EpochInv, Bounded, [EpochNext]_epochVars PROVE Bounded'
    OBVIOUS
  <2>1. CASE RunBatch
    <3> DEFINE T == {i \in BatchStart + 1 .. BatchEnd : right[order[i]]}
               m == Cardinality(Batch)
               c == Cardinality({s \in Batch : right[s]})
    <3>1. EpochShape /\ batch_idx < n_batches
      BY <2>1 DEF RunBatch, EpochInv
    <3>2. BatchStart + 1 .. BatchEnd \in SUBSET (1 .. n_samples) /\ T \in SUBSET (1 .. n_samples)
          /\ Cardinality(BatchStart + 1 .. BatchEnd) \in Nat \ {0}
      <4>1. /\ BatchStart \in Nat /\ BatchEnd \in Nat /\ BatchStart < BatchEnd /\ BatchEnd <= n_samples
            /\ n_samples \in Nat
        BY <3>1, SomeSample DEF EpochShape
      <4>2. Cardinality(BatchStart + 1 .. BatchEnd) = BatchEnd - BatchStart
        BY <4>1, FS_Interval
      <4> QED BY <4>1, <4>2
    <3>3. m \in Nat \ {0} /\ IsFiniteSet(Batch)
      BY <3>1, <3>2, Taken DEF Batch
    <3>4. c \in 0 .. m
      <4>1. {s \in Batch : right[s]} \in SUBSET Batch
        OBVIOUS
      <4> QED BY <3>3, <4>1, FS_Subset, FS_CardinalityType
    <3> HIDE DEF m, c
    <3>5. c * (Scale \div m) \in 0 .. Scale
      BY <3>3, <3>4, ShareFits, TrainingAssumption
    <3>6. total_acc' = total_acc + c * (Scale \div m) /\ batch_idx' = batch_idx + 1
      BY <2>1 DEF RunBatch, m, c
    <3>7. batch_idx \in Nat /\ Scale \in Nat
      BY <3>1, TrainingAssumption DEF EpochShape
    <3>8. Scale * (batch_idx + 1) = Scale * batch_idx + Scale /\ Scale * batch_idx \in Nat
      BY <3>7
    <3> DEFINE share == c * (Scale \div m)
               sum == Scale * batch_idx
    <3> HIDE DEF share, sum
    <3>9. total_acc + share \in Nat /\ total_acc + share <= sum + Scale
      BY <3>5, <3>7, <3>8 DEF Bounded, share, sum
    <3>10. epoch_pc' = epoch_pc
      BY <2>1 DEF RunBatch
    <3> QED BY <3>6, <3>8, <3>9, <3>10 DEF Bounded, share, sum
  <2>2. CASE Average \/ UNCHANGED epochVars
    BY <2>2 DEF Average, epochVars, Bounded
  <2> QED BY <2>1, <2>2 DEF EpochNext
<1>3. EpochInv /\ Bounded => EpochTypeOK
  <2> SUFFICES ASSUME EpochInv, Bounded PROVE total_acc \in 0 .. Scale * n_batches
    BY DEF EpochInv, EpochShape, EpochTypeOK, Bounded
  <2>1. batch_idx \in Nat /\ Scale \in Nat /\ n_batches \in Nat /\ batch_idx <= n_batches
    <3>1. batch_size \in Nat \ {0} /\ n_samples \in Nat
      BY TrainingAssumption DEF EpochInv, EpochShape
    <3>2. n_batches \in Nat
      <4>1. n_samples \div batch_size \in Nat /\ (n_samples + batch_size - 1) \div batch_size \in Nat
        <5>1. n_samples + batch_size - 1 \in Nat
          BY <3>1
        <5> QED BY <3>1, <5>1, Division
      <4> QED BY <4>1 DEF n_batches, FullBatches, AllBatches
    <3> QED BY <3>2, TrainingAssumption DEF EpochInv, EpochShape
  <2>2. Scale * batch_idx <= Scale * n_batches /\ Scale * n_batches \in Nat
    BY <2>1
  <2> QED BY <2>1, <2>2 DEF Bounded
<1> QED BY <1>1, <1>2, <1>3, EpochInitial, EpochStep, PTL DEF EpochSpec
===============================================================================
