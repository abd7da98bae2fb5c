---------------------------- MODULE MCMcpServers ----------------------------
(* Successive clients of one server, their connections, and its callers. *)
EXTENDS McpServers

CONSTANT t1
=============================================================================
