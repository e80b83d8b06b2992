---------------------------- MODULE MCBackground ----------------------------
(* A small instance of Background. *)
EXTENDS Background

\* Two endpoints to balance between.
MCTwo == <<"u1", "u2">>

\* Two app endpoints, one node and no archival node.
MCBackends == <<"celestia-app-rpc", "celestia-node-rpc", "celestia-node-archival-rpc">>
MCTotal == [b \in Range(MCBackends) |->
              CASE b = "celestia-app-rpc" -> 2
                [] b = "celestia-node-rpc" -> 1
                [] OTHER -> 0]
=============================================================================
