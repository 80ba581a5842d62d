---------------------------- MODULE MCScheduler ----------------------------
(* Instances of Scheduler for TLC.                                         *)
EXTENDS Scheduler

CONSTANTS
  MaxCreation,  \* creation quantums are 0 .. MaxCreation
  MaxWork       \* workloads are 0 .. MaxWork

(* Longer processes have the higher priority, equal ones the same: what    *)
(* priority() prefers is what sjf() avoids.                                *)
AllSpecs ==
  {[creation_quantum |-> c, workload |-> w, priority |-> [i \in Procs |-> w[i] + 1]] :
     c \in [Procs -> 0 .. MaxCreation], w \in [Procs -> 0 .. MaxWork]}

(* The files on which no algorithm idles. *)
DenseSpecs == {sp \in AllSpecs : Dense(sp)}

(* Files that start with an idle quantum, and both kinds together. *)
LateSpecs == {sp \in AllSpecs : \A i \in Procs : sp.creation_quantum[i] > 0}
EitherSpecs == DenseSpecs \cup LateSpecs
=============================================================================
