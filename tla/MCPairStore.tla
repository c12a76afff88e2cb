----------------------------- MODULE MCPairStore -----------------------------
(* A small instance of PairStore: two attempts whose peers' labels come to one alias *)
(* and one whose peer's label has no usable character; a product and a sum that     *)
(* wrap around and a lifetime without end.                                        *)
EXTENDS PairStore, TLC

CONSTANTS w1, w2, w3

Slugs == (w1 :> 2) @@ (w2 :> 2) @@ (w3 :> NoSlug)
ShortIds == (w1 :> 3) @@ (w2 :> 3) @@ (w3 :> 1)
Of(number, unit) == [number |-> number, unit |-> unit]
Lifetimes == (w1 :> Of(3, 3)) @@ (w2 :> Of(1, 2)) @@ (w3 :> Of(0, 1))
Clocks == (w1 :> 7) @@ (w2 :> 3) @@ (w3 :> 5)
=============================================================================
