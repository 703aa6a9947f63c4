---------------------------- MODULE RegionAllocator ----------------------------
(***************************************************************************)
(* What MetalSmartAllocator promises its clients: allocate() returns       *)
(* memory of at least the size asked for in which nobody else has a byte,  *)
(* under an identity that was never given before, and the memory stays     *)
(* where it is until it is given back.  Where it comes from and what       *)
(* becomes of it afterwards is left open.                                  *)
(***************************************************************************)
EXTENDS Integers

VARIABLES held,      \* by identity: what was asked for and the region that was given
          given,     \* the identities given so far
          trusted    \* the promise stands: see stale in SmartAllocator

regionVars == <<held, given, trusted>>

RegionInit == held = <<>> /\ given = {} /\ trusted = TRUE

Separate(r, s) ==
  r.heap = s.heap => (r.offset .. r.offset + r.size - 1) \cap (s.offset .. s.offset + s.size - 1) = {}

\* The region can be any: it is found in the state that follows.
Grant ==
  /\ \E id \in DOMAIN held' \ given :
       /\ given' = given \cup {id} /\ DOMAIN held' = DOMAIN held \cup {id}
       /\ \A i \in DOMAIN held : held'[i] = held[i]
       /\ trusted => /\ held'[id].size >= held'[id].asked
                     /\ \A i \in DOMAIN held : Separate(held[i], held'[id])
  /\ UNCHANGED trusted

TakenBack(id) ==
  /\ held' = [i \in DOMAIN held \ {id} |-> held[i]]
  /\ UNCHANGED <<given, trusted>>

\* From here on regions may overlap, but none moves.
Distrust == trusted' = FALSE /\ UNCHANGED <<held, given>>

RegionNext == Grant \/ Distrust \/ \E id \in DOMAIN held : TakenBack(id)

RegionSpec == RegionInit /\ [][RegionNext]_regionVars
===============================================================================
