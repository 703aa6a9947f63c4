-------------------------------- MODULE Config --------------------------------
(***************************************************************************)
(* The configuration objects of python/metal_native/config.py.  They are   *)
(* mutable and hold one list (bucket_sizes) by reference, so what matters  *)
(* is who shares it: a dictionary given to from_dict() hands its list to   *)
(* the configuration, to_dict() copies.  Two attributes stand for those    *)
(* of a section whose name is one word, one for those of kernel_cache.     *)
(***************************************************************************)
EXTENDS Integers, Sequences

CONSTANTS MaxObjects,     \* bound: configurations and dictionaries
          MaxEdits        \* bound: changes of an attribute or of a list

ASSUME ConfigAssumption == MaxObjects \in Nat /\ MaxEdits \in Nat

Attrs == {"allocator.max_heap_size", "allocator.enable_pooling", "kernel_cache.max_cache_size"}

\* The values that matter: the default, and what somebody else has set.
Values == {"default", "set"}

VARIABLES
  objects,         \* configurations and dictionaries in the order they were made; the
                   \* source of one is the dictionary from_dict() was given, or 0
  buckets,         \* the bucket lists, by number: the entries appended to each
  global_config,   \* _global_config, 0 for None
  edits

configVars == <<objects, buckets, global_config, edits>>

ConfigObject == [kind : {"config", "dict"}, values : [Attrs -> Values], list : Nat, source : Nat]

ConfigInit == objects = <<>> /\ buckets = <<>> /\ global_config = 0 /\ edits = 0

ObjectsOf(kind) == {i \in DOMAIN objects : objects[i].kind = kind}
Defaults == [a \in Attrs |-> "default"]

Make(kind, values, list, source) ==
  /\ Len(objects) < MaxObjects
  /\ objects' = Append(objects, [kind |-> kind, values |-> values, list |-> list,
                                 source |-> source])

\* The same with a list of its own.
MakeOwning(kind, values, entries) ==
  /\ buckets' = Append(buckets, entries)
  /\ Make(kind, values, Len(buckets) + 1, 0)

-------------------------------------------------------------------------------
(* Making a configuration                                                      *)

NewConfig == MakeOwning("config", Defaults, 0) /\ UNCHANGED <<global_config, edits>>

\* KernelCacheConfig(**data['kernel_cache']) keeps the list of the dictionary.
from_dict(d) ==
  /\ Make("config", objects[d].values, objects[d].list, d)
  /\ UNCHANGED <<buckets, global_config, edits>>

\* from_json() and from_yaml() of a file with the contents of the dictionary: the
\* parser's own dictionary is held by nobody else.
FromFile(d) ==
  /\ MakeOwning("config", objects[d].values, buckets[objects[d].list])
  /\ UNCHANGED <<global_config, edits>>

\* An environment variable: the attribute it names, and whether its value parses.
Setting == [attr : Attrs, parses : BOOLEAN]

\* split('_', 1) ends the section at its first word: "kernel" is none.
Recognised(attr) == attr # "kernel_cache.max_cache_size"

\* int() and float() raise; every text is a boolean.
Aborts(env) ==
  \E s \in env : Recognised(s.attr) /\ s.attr # "allocator.enable_pooling" /\ ~s.parses

from_env(env) ==
  /\ ~Aborts(env)
  /\ MakeOwning("config", [a \in Attrs |-> IF Recognised(a) /\ \E s \in env : s.attr = a
                                           THEN "set" ELSE "default"], 0)
  /\ UNCHANGED <<global_config, edits>>

-------------------------------------------------------------------------------
(* Reading and changing one                                                    *)

\* Mutant of to_dict: vars() in place of asdict().
ToDictShallow(c) ==
  /\ Make("dict", objects[c].values, objects[c].list, 0)
  /\ UNCHANGED <<buckets, global_config, edits>>

\* asdict() copies the list too.
to_dict(c) ==
  /\ MakeOwning("dict", objects[c].values, buckets[objects[c].list])
  /\ UNCHANGED <<global_config, edits>>

SetAttribute(i, a) ==
  /\ edits < MaxEdits /\ edits' = edits + 1
  /\ objects' = [objects EXCEPT ![i].values[a] = "set"]
  /\ UNCHANGED <<buckets, global_config>>

AppendBucket(i) ==
  /\ edits < MaxEdits /\ edits' = edits + 1
  /\ buckets' = [buckets EXCEPT ![objects[i].list] = @ + 1]
  /\ UNCHANGED <<objects, global_config>>

\* The first call makes the instance; the later ones return it.
get_config ==
  /\ global_config = 0
  /\ MakeOwning("config", Defaults, 0)
  /\ global_config' = Len(objects')
  /\ UNCHANGED edits

set_config(c) == global_config' = c /\ UNCHANGED <<objects, buckets, edits>>

ConfigNext ==
  \/ NewConfig \/ get_config
  \/ \E d \in ObjectsOf("dict") : from_dict(d) \/ FromFile(d)
  \/ \E env \in SUBSET Setting : from_env(env)
  \/ \E c \in ObjectsOf("config") : to_dict(c) \/ set_config(c)
  \/ \E i \in DOMAIN objects : AppendBucket(i) \/ \E a \in Attrs : SetAttribute(i, a)

ConfigSpec == ConfigInit /\ [][ConfigNext]_configVars

-------------------------------------------------------------------------------
(* Properties                                                                  *)

ConfigTypeOK ==
  /\ objects \in Seq(ConfigObject) /\ buckets \in Seq(Nat) /\ edits \in 0 .. MaxEdits
  /\ \A i \in DOMAIN objects : objects[i].list \in DOMAIN buckets /\ objects[i].source < i
  /\ global_config \in {0} \cup ObjectsOf("config")

\* What an object says, and the dictionary it may share it with.
Contents(i) == <<objects[i].values, buckets[objects[i].list]>>
Origin(i) == IF objects[i].source = 0 THEN i ELSE objects[i].source

\* A change of one object is seen in another only where from_dict() made the one from
\* the other, or both from the same dictionary: a dictionary of to_dict(), a file and
\* the environment give nothing away, the global configuration included
\* (config.py:138-164, 176-201, 249-258).
EditsStayHome ==
  [][\A i, j \in DOMAIN objects :
       Contents(i)' # Contents(i) /\ Contents(j)' # Contents(j) => Origin(i) = Origin(j)]_configVars
===============================================================================
