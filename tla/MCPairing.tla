------------------------------ MODULE MCPairing ------------------------------
(* Small instances of Pairing.  Two attempts by two devices are enough for an id   *)
(* to be used again and for two nonces to clash.                                *)
EXTENDS Pairing

CONSTANTS r1, r2, a, b

AskerOf == [r \in Request |-> IF r = r2 THEN b ELSE a]
NoFile == [lines |-> <<>>, ended |-> TRUE]
OneRoot == [lines |-> <<<<b>>>>, ended |-> TRUE]
Unended == [lines |-> <<<<b>>>>, ended |-> FALSE]
Ended == {NoFile, OneRoot}
Empty == {NoFile}
EditedByHand == {Unended}
=============================================================================
