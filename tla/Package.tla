-------------------------------- MODULE Package --------------------------------
(***************************************************************************)
(* The package metal_native as a namespace (python/metal_native/__init__): *)
(* its attributes are bound as they are asked for, by __getattr__(), and   *)
(* also by Python itself, which binds a submodule in its package the       *)
(* moment it has been loaded, whoever imported it.  The name "tensor" is   *)
(* both a submodule and a factory function.                                *)
(*                                                                         *)
(* A session is one interpreter.  What _initialize() finds (the extension, *)
(* a device, the shader library) is chosen with the initial state.         *)
(***************************************************************************)
EXTENDS Integers

\* The names each import statement of __getattr__() takes from a submodule; two or
\* three stand for all of a group, and the submodules that no other one needs are alike.
Group == [tensor |-> {"Tensor", "zeros", "tensor"},
          device |-> {"device_name", "is_available"},
          utils  |-> {"synchronize", "manual_seed"},
          config |-> {"get_config", "set_config"}]

DTypes == {"float32"}
Listed == {"nn", "optim", "dtypes", "config", "_version"}
Submodules == Listed \cup {"tensor", "device", "utils", "_metallib"}
Names == Submodules \cup DTypes \cup UNION {Group[m] : m \in DOMAIN Group}

\* The places a library may be, in the order of the search.
Places == <<"environment", "wheel", "build", "build/Release", "build/Debug">>

VARIABLES
  ext,          \* whether the extension _C was imported
  has_device,   \* whether _C.initialize() found a device
  library,      \* the place the shader library was loaded from, or "none"
  imported,     \* the submodules in sys.modules
  bound         \* by name: "module" or "value", or "unset" when __getattr__() is asked

packageVars == <<ext, has_device, library, imported, bound>>

-------------------------------------------------------------------------------
(* Importing a submodule                                                       *)

Needs == [m \in Submodules |->
            CASE m = "tensor" -> {"dtypes"}
              [] m = "nn" -> {"tensor", "dtypes"}
              [] OTHER -> {}]

\* The modules that importing m executes: those in sys.modules are not run again.
Fresh(m) == ({m} \cup Needs[m]) \ imported

\* Mutant of Attached: an import binds its module even when it was loaded before.
AttachedAlways(m) == [n \in Names |-> IF n \in {m} \cup Needs[m] THEN "module" ELSE bound[n]]

\* The attributes of the package once m is imported.
Attached(m) == [n \in Names |-> IF n \in Fresh(m) THEN "module" ELSE bound[n]]

Import(m) == imported' = imported \cup Fresh(m) /\ bound' = Attached(m)

\* "import metal_native.<m>", or the same import inside a function of the package:
\* optim's step(), interop and dlpack_bridge import the submodule tensor when called.
ImportModule(m) ==
  /\ Import(m)
  /\ UNCHANGED <<ext, has_device, library>>

-------------------------------------------------------------------------------
(* __getattr__()                                                               *)

\* Python calls it for an attribute that is not there.
Missing(n) == bound[n] = "unset"

\* "import_module", and the binding that makes no difference.
GetSubmodule(n) ==
  /\ Missing(n) /\ n \in Listed
  /\ Import(n)
  /\ UNCHANGED <<ext, has_device, library>>

\* _ensure_initialized(), the import, and globals().update() with all of the group.
GetGroup(m, n) ==
  /\ Missing(n) /\ n \in Group[m] /\ ext
  /\ imported' = imported \cup Fresh(m)
  /\ bound' = [k \in Names |-> IF k \in Group[m] THEN "value" ELSE Attached(m)[k]]
  /\ UNCHANGED <<ext, has_device, library>>

GetDType(n) ==
  /\ Missing(n) /\ n \in DTypes /\ ext
  /\ imported' = imported \cup Fresh("dtypes")
  /\ bound' = [Attached("dtypes") EXCEPT ![n] = "value"]
  /\ UNCHANGED <<ext, has_device, library>>

-------------------------------------------------------------------------------
(* Importing the package                                                       *)

\* find_metallib(), where `found` are the places that hold a file.
FindMetallib(found) ==
  IF \A i \in DOMAIN Places : Places[i] \notin found THEN "none"
  ELSE Places[CHOOSE i \in DOMAIN Places :
                Places[i] \in found /\ \A j \in 1 .. i - 1 : Places[j] \notin found]

\* _initialize(): an exception is printed, and the import goes on.
InitializeWith(found, loads) ==
  IF ~ext THEN has_device = FALSE /\ library = "none" /\ imported = {"_version"}
  ELSE IF ~has_device THEN library = "none" /\ imported = {"_version"}
  ELSE /\ library = IF loads THEN FindMetallib(found) ELSE "none"
       /\ imported = {"_version", "_metallib"}

PackageInit ==
  /\ ext \in BOOLEAN /\ has_device \in BOOLEAN
  /\ \E found \in {{}, {"environment"}, {"wheel", "build"}}, loads \in BOOLEAN :
       InitializeWith(found, loads)
  /\ bound = [n \in Names |-> IF n \in imported THEN "module" ELSE "unset"]

\* _check_installation() imports the wrappers of the device to ask for it.
CheckInstallation ==
  /\ ext
  /\ Import("device")
  /\ UNCHANGED <<ext, has_device, library>>

PackageNext ==
  \/ \E m \in Submodules : ImportModule(m)
  \/ \E n \in Names : \/ GetSubmodule(n)
                      \/ \E m \in DOMAIN Group : GetGroup(m, n)
                      \/ GetDType(n)
  \/ CheckInstallation

PackageSpec == PackageInit /\ [][PackageNext]_packageVars

-------------------------------------------------------------------------------
(* Properties                                                                  *)

PackageTypeOK ==
  /\ ext \in BOOLEAN /\ has_device \in BOOLEAN /\ imported \subseteq Submodules
  /\ library \in {"none"} \cup {Places[i] : i \in DOMAIN Places}
  /\ bound \in [Names -> {"unset", "module", "value"}]

\* What a name of the package has been resolved to it stays, in whatever order the
\* submodules are imported afterwards (__init__.py:78-139, the lazy imports of
\* adam.py:160, sgd.py:137 and interop.py:47).
ResolvedStays == [][\A n \in Names : bound[n] = "value" => bound'[n] = "value"]_packageVars
===============================================================================
