--------------------------- MODULE MCPipeEndpoint ---------------------------
(***************************************************************************)
(* A connection and one operation on it, the ledger and the drain loop cut *)
(* short so that both limits are met.                                      *)
(***************************************************************************)
EXTENDS PipeEndpoint

MCPlans == [kind : {"CONNECT"}, request : {1}, cleanup : {2}]
           \cup [kind : {"READ"}, request : {2}, cleanup : {3}]
=============================================================================
