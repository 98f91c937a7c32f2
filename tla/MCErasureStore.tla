--------------------------- MODULE MCErasureStore ---------------------------
EXTENDS ErasureStore, TLC

CONSTANTS t1, t2, w1, w2, w3

OneThread  == {t1}
TwoThreads == {t1, t2}
OneWire    == {w1}
TwoWires   == {w1, w2}
ThreeWires == {w1, w2, w3}
Big        == {w2}
NoWire     == {}

Symmetry == Permutations(Thread) \cup Permutations(Wire \ Uncodable)
=============================================================================
