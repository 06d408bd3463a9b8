------------------------- MODULE MCDodbCoordinator -------------------------
(* Instances of DodbCoordinator for TLC. *)
EXTENDS DodbCoordinator, TLC

CONSTANTS c1, c2, k1, k2

Clients == {c1, c2}
Keys    == {k1, k2}
Whole   == {Keys}

Shape(kind, R, W, n) == [kind |-> kind, reads |-> R, writes |-> W, size |-> n]
\* Cross-key checks (each writes one of the two keys it checks), a blind write of
\* both keys, a condition-only transaction and the in-order operations.
AllShapes ==
  {Shape("mutation", Keys, {k}, 1) : k \in Keys}
    \cup {Shape("mutation", {}, Keys, 2), Shape("mutation", Keys, {}, 1),
          Shape("read", Keys, {}, 1), Shape("checkpoint", {}, {}, 1)}
\* Conditional and blind writes only.
WriteShapes ==
  {Shape("mutation", Keys, {k}, 1) : k \in Keys} \cup {Shape("mutation", {}, Keys, 1)}

\* One key, for the liveness run.
OneKey    == {k1}
OneKeySet == {OneKey}
OneKeyShapes ==
  {Shape("mutation", OneKey, OneKey, 1), Shape("checkpoint", {}, {}, 1)}

Symmetry == Permutations(Clients) \cup Permutations(Keys)
=============================================================================
