------------------------ MODULE MCLocalModelManager ------------------------
(***************************************************************************)
(* Two artifacts of the same length and a longer one.  The third unit, or  *)
(* the third and fourth, may be missing from a file that passes isValid,   *)
(* and a part of the longer one may be as long as the whole of another.    *)
(***************************************************************************)
EXTENDS LocalModelManager

CONSTANTS gpu, cpu, cpuLarge

MCModels   == {gpu, cpu, cpuLarge}
MCLengthOf == [m \in MCModels |-> IF m = cpuLarge THEN 4 ELSE 3]
============================================================================
