---------------------------- MODULE MCNonceLedger ----------------------------
(* Small instances of NonceLedger.  Requests and nonces are interchangeable.    *)
EXTENDS NonceLedger, TLC

Symmetry == Permutations(Request) \union Permutations(Nonce)
=============================================================================
