------------------------ MODULE MCCollectionPipeline ------------------------
EXTENDS CollectionPipeline

CONSTANTS r1, w1, gw1, m1, m2, m3

OneReference == {r1}

(* One window; it is polled at time 0, and at every time until it ends.    *)
OneWindow == {w1}
EventOfOne == [w \in {w1} |-> gw1]
EndsAtOne == [w \in {w1} |-> 1]
=============================================================================
