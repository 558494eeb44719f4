------------------------ MODULE MCInferenceServer ------------------------
(* Instances of InferenceServer for TLC.                                   *)
EXTENDS InferenceServer

CONSTANTS s1, s2, g1, g2, m1

MCSessions == {s1, s2}
MCGens == {g1, g2}
MCModels == {m1}
MCModelOf == [s \in MCSessions |-> m1]
MCInterrupted == {s1}

\* One session that both generations are on.
OneSession == {s1}
OneModelOf == [s \in OneSession |-> m1]
=============================================================================
