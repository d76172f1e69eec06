---------------------------- MODULE MCCatalogSync ----------------------------
(* Sources for the instances of CatalogSync: package `a` with and without  *)
(* a version pin, and `b`, which `a` may declare as its companion.         *)
EXTENDS CatalogSync, TLC

CONSTANTS a, b, v1, v2

Plain  == [key |-> a, pin |-> None]
Pinned == [key |-> a, pin |-> v2]
Helper == [key |-> b, pin |-> None]

(* One package, two versions. *)
OneSources == {Plain, Pinned}
OneAddArgs == {<<a, Plain>>, <<a, Pinned>>}
OneScope   == {Plain}

(* Two packages, one the companion of the other. *)
TwoSources == {Plain, Helper}
TwoAddArgs == {<<a, Plain>>, <<b, Helper>>}
TwoScope   == {Helper}

NoCompanions  == [s \in Sources |-> {}]
HasCompanions == [s \in Sources |-> IF s = Plain THEN {Helper} ELSE {}]

(* Machines are interchangeable, and so are gist ids.                      *)
AnyOrder == Permutations(Machines) \cup Permutations(Gists)
==============================================================================
