---------------------------- MODULE MCMCPManager ----------------------------
(***************************************************************************)
(* One server name, a few admin requests, and as many attempts as the bound*)
(* on generations allows, retries included.                                *)
(***************************************************************************)
EXTENDS MCPManager
=============================================================================
