---------------------------- MODULE MCSettlement ----------------------------
(* Small instances of the settlement contract.                             *)
EXTENDS SettlementProps, TLC

CONSTANT bob

NoPause    == {Unpaused}
TradePause == {Unpaused, [paused |-> TRUE, modules |-> {"trades"}]}
AllPause   == {Unpaused, [paused |-> TRUE, modules |-> {"all"}]}
NoBlock    == {{}}
OneBlock   == {{}, {bob}}
Symmetric  == Permutations(NFT)
=============================================================================
