---------------------------- MODULE MCTokenStore ----------------------------
(* Small instances of TokenStore. *)
EXTENDS TokenStore

NoChange == [name |-> None, enabled |-> None, expires |-> None]

\* Disable, rename.
MCChanges == {[NoChange EXCEPT !.enabled = FALSE], [NoChange EXCEPT !.name = "n2"]}

MCSettings == {[name |-> "n1", enabled |-> TRUE, expires |-> TRUE]}

Token(h, n) == [hash |-> h, name |-> n, enabled |-> TRUE, expires |-> FALSE]
MCOneToken == <<Token("c1", "n1")>>
=============================================================================
