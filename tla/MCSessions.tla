----------------------------- MODULE MCSessions -----------------------------
(* Instance of Plugin and its sessions for TLC. *)
EXTENDS Plugin

CONSTANT s1

MCAccounts == <<1, 2, 3>>
=============================================================================
