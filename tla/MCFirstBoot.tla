---------------------------- MODULE MCFirstBoot ----------------------------
(* Small instances of FirstBoot, one for each kind of enroll.env. *)
EXTENDS FirstBoot

Good == [url |-> TRUE, secret |-> "good", token |-> FALSE]
NoUrl == [url |-> FALSE, secret |-> "good", token |-> FALSE]
WrongSecret == [url |-> TRUE, secret |-> "bad", token |-> FALSE]
NoSecret == [url |-> TRUE, secret |-> "none", token |-> FALSE]
Token == [url |-> TRUE, secret |-> "good", token |-> TRUE]
TokenAlone == [url |-> TRUE, secret |-> "none", token |-> TRUE]

OfEachKind == {Good, WrongSecret, NoSecret, NoUrl, Token, TokenAlone}
TokenOnly == {Token}
=============================================================================
