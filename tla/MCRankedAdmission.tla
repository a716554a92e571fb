-------------------------- MODULE MCRankedAdmission --------------------------
(* Two requests and two workers of one model, with and without a preferred    *)
(* worker and fallback; or four workers of two models, all of them idle.      *)
EXTENDS RankedAdmission

CONSTANTS w1, w2, w3, w4, m1, m2

One == <<w1, w2>>
Two == <<w1, w2, w3, w4>>
Models == [w \in Workers |-> IF w \in {w1, w2} THEN m1 ELSE m2]
OneSlotEach == [w \in Workers |-> 1]

Ask(m, prefer, fallback) == [model |-> m, prefer |-> prefer, fallback |-> fallback]
Every == {Ask(m1, None, TRUE), Ask(m1, None, FALSE), Ask(m1, w2, TRUE), Ask(m1, w1, FALSE)}
OneCold == {Ask(m1, None, TRUE)}
BothCold == {Ask(m1, None, TRUE), Ask(m2, None, TRUE)}
=============================================================================
