-------------------------- MODULE MCDexIncentives --------------------------
(* Small instances of DexIncentives. *)
EXTENDS DexIncentives, TLC

CONSTANTS ann, ben, cat

\* Two active validators of different weights and a standby one.
MCBftWeight == ann :> 2 @@ ben :> 1 @@ cat :> 0
=============================================================================
