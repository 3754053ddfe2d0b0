----------------------------- MODULE MCAuction -----------------------------
(* Small instances of the auction engine.                                  *)
EXTENDS AuctionProps

CONSTANT bob

NoPause   == {Unpaused}
NoBlock   == {{}}
Symmetric == Permutations(NFT)
=============================================================================
