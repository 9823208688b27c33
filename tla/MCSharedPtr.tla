---------------------------- MODULE MCSharedPtr ----------------------------
(* SharedPtr for TLC: objects are interchangeable.                         *)
EXTENDS SharedPtr, TLC

Symmetry == Permutations(Objs)

(* Either all objects and one busy global, or two objects and all globals: *)
(* what is beyond is not explored further.                                 *)
Bound ==
  \/ Cardinality({o \in Objs : obj[o] # "free"}) <= 2
  \/ Cardinality({g \in Globals : sp[g] # Null \/ wp[g] # Null}) <= 1
=============================================================================
