---- MODULE MCRich ----
EXTENDS RichRecord, TLC
MCBlobs == {[size |-> 1, sha |-> 1], [size |-> 1, sha |-> 2], [size |-> 2, sha |-> 3]}
MCSymmetry == Permutations(Mutables)
====
