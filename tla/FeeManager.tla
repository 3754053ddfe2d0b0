----------------------------- MODULE FeeManager -----------------------------
(***************************************************************************)
(* The fee manager of the marketplace_settlement contract: which           *)
(* configuration is in force, what it quotes, and the volume that moves an *)
(* account through the discount tiers.                                     *)
(*                                                                         *)
(* collect_platform_fee and the VIP and volume-reset helpers have no       *)
(* caller, so the withdrawable balance stays zero and the exemptions are   *)
(* the ones of the configuration.                                          *)
(***************************************************************************)
EXTENDS FeeMath

CONSTANTS
    User,       \* accounts that trade
    Configs,    \* the fee configurations an admin may submit
    Amounts,    \* prices
    RoyaltyBps, \* the royalties in force on the tokens traded
    MaxVolume   \* bound: volume explored

FeeConfig ==
    [bps : Nat, minimum : Int, maximum : Int, dynamic : BOOLEAN,
     tiers : Seq([min_volume : Int, fee_discount_bps : Nat]), vip_exemptions : SUBSET User]

FeeConstants ==
    /\ Configs \subseteq FeeConfig /\ Amounts \subseteq Nat
    /\ RoyaltyBps \subseteq 0..MaxRoyaltyBps
    /\ MaxVolume \in Nat

VARIABLES
    fee_config,  \* FEE_CONFIG
    volume       \* FeeKey::UserVolume, per user

vars == <<fee_config, volume>>

TypeOK ==
    /\ fee_config \in Configs /\ ValidFeeConfig(fee_config)
    /\ volume \in [User -> 0..MaxVolume]

Init ==
    /\ fee_config \in {c \in Configs : ValidFeeConfig(c)}
    /\ volume = [u \in User |-> 0]

Quote(u, amount) ==
    PlatformFee(fee_config, amount, volume[u], u \in fee_config.vip_exemptions)

UpdateFeeConfig(c) ==
    /\ ValidFeeConfig(c)
    /\ fee_config' = c
    /\ UNCHANGED volume

(* A settlement quotes the fee for the seller and counts what the platform *)
(* was paid as volume of the buyer.                                        *)
Settle(seller, buyer, price, bps) ==
    LET royalty == CalculatePercentage(price, bps)
        paid    == Split(price, royalty, Quote(seller, price)).platform
    IN  /\ volume[buyer] + paid <= MaxVolume
        /\ volume' = [volume EXCEPT ![buyer] = @ + paid]
        /\ UNCHANGED fee_config

Next ==
    \/ \E c \in Configs : UpdateFeeConfig(c)
    \/ \E seller, buyer \in User, price \in Amounts, bps \in RoyaltyBps :
          Settle(seller, buyer, price, bps)

Spec == Init /\ [][Next]_vars

-----------------------------------------------------------------------------
(* Trading more never makes a trade dearer: of two accounts without an     *)
(* exemption, the one with more volume is not charged more.                *)
VolumeNeverCosts ==
    \A u, v \in User \ fee_config.vip_exemptions, amount \in Amounts :
        volume[u] >= volume[v] => Quote(u, amount) <= Quote(v, amount)

-----------------------------------------------------------------------------
(* "High-volume traders get discounts", tier by tier: an account that has  *)
(* reached a tier is charged at most what that tier's discount leaves.     *)
ReachedTierApplies ==
    \A u \in User, amount \in Amounts, i \in DOMAIN fee_config.tiers :
        fee_config.dynamic /\ volume[u] >= fee_config.tiers[i].min_volume =>
            Quote(u, amount) <=
                CalculateFee(amount,
                    SaturatingSub(fee_config.bps, fee_config.tiers[i].fee_discount_bps),
                    fee_config.minimum, fee_config.maximum)
=============================================================================
