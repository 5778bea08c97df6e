--------------------------- MODULE MCBlockStorage ---------------------------
(* Instance of BlockStorage for TLC: slots 1 - 2, and 3 on a fork of 1.  In slot 3 *)
(* the account is written twice, and its bank may be dumped and created again.      *)
EXTENDS BlockStorage, TLC

MCSlots == 1..3
MCParent == (1 :> 0) @@ (2 :> 1) @@ (3 :> 1)
MCMaxWriteVersion == (1 :> 0) @@ (2 :> 0) @@ (3 :> 2)
MCMaxBanks == (1 :> 1) @@ (2 :> 1) @@ (3 :> 2)
=============================================================================
