------------------------------ MODULE MCCheckpoint ------------------------------
(* One step is run with two inputs, the others with one.                   *)
EXTENDS Checkpoint

CONSTANTS s1, s2, v, i1, i2

MCTextSteps == {s1, s2}
MCVoidSteps == {v}
MCInputsOf == [s \in {s1, s2, v} |-> IF s = s1 THEN {i1, i2} ELSE {i1}]
=============================================================================
