------------------------------- MODULE MCChat -------------------------------
EXTENDS Chat, TLC

CONSTANTS c1, c2, t1, t2, t3, v1

TwoSlots   == {c1, c2}
ThreeTexts == {t1, t2, t3}
OneVideo   == {v1}
Symmetric  == Permutations(TwoSlots) \cup Permutations(ThreeTexts)
=============================================================================
