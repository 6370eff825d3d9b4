----------------------------- MODULE MCClients -----------------------------
(* All the programs of Clients. *)
EXTENDS Clients
AllPrograms == ToolSet \cup DOMAIN Scripts
=============================================================================
