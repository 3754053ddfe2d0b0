------------------------------ MODULE FeeMath ------------------------------
(***************************************************************************)
(* The integer arithmetic of fees and royalties: basis-point percentages   *)
(* rounded half up, the bounded platform fee, the volume discount and the  *)
(* split of a price between creator, seller and platform.  Amounts are in  *)
(* the token's smallest unit.  The checked i128 operations refuse a call   *)
(* on overflow, so within a call that succeeds they are exact.             *)
(***************************************************************************)
EXTENDS Integers, Sequences, FiniteSetsExt

Basis         == 10000   \* basis points in the whole
MaxRoyaltyBps == 5000

(* Rust's / truncates towards zero and half the basis is moved away from   *)
(* zero first, so a negative amount rounds like its opposite.              *)
CalculatePercentage(amount, bps) ==
    IF amount >= 0 THEN (amount * bps + Basis \div 2) \div Basis
                   ELSE -((-amount * bps + Basis \div 2) \div Basis)

(* math_utils::calculate_fee: the minimum first, then the cap; a cap of    *)
(* zero is no cap.                                                         *)
CalculateFee(amount, bps, minFee, maxFee) ==
    LET raw     == CalculatePercentage(amount, bps)
        withMin == IF raw < minFee THEN minFee ELSE raw
    IN  IF maxFee > 0 /\ withMin > maxFee THEN maxFee ELSE withMin

(* Mutant: the comparison is turned around.                                *)
DiscountBelow(volume, tiers) ==
    LET reached == {i \in DOMAIN tiers : volume < tiers[i].min_volume}
    IN  IF reached = {} THEN 0 ELSE tiers[Min(reached)].fee_discount_bps

(* The first tier in the list whose threshold the volume reaches.          *)
VolumeDiscount(volume, tiers) ==
    LET reached == {i \in DOMAIN tiers : volume >= tiers[i].min_volume}
    IN  IF reached = {} THEN 0 ELSE tiers[Min(reached)].fee_discount_bps

SaturatingSub(a, b) == IF a > b THEN a - b ELSE 0

(* FeeManager::calculate_fee for one configuration and one user.           *)
PlatformFee(cfg, amount, volume, vip) ==
    IF ~cfg.dynamic
    THEN CalculateFee(amount, cfg.bps, cfg.minimum, cfg.maximum)
    ELSE IF vip THEN 0
    ELSE CalculateFee(amount,
                      SaturatingSub(cfg.bps, VolumeDiscount(volume, cfg.tiers)),
                      cfg.minimum, cfg.maximum)

(* validate_fee_config                                                     *)
ValidFeeConfig(cfg) ==
    /\ cfg.bps <= Basis
    /\ cfg.maximum > 0 => cfg.minimum < cfg.maximum
    /\ \A i \in DOMAIN cfg.tiers :
          /\ cfg.tiers[i].min_volume >
                (IF i = 1 THEN 0 ELSE cfg.tiers[i - 1].min_volume)
          /\ cfg.tiers[i].fee_discount_bps <= cfg.bps

-----------------------------------------------------------------------------
(* Mutant: the seller is paid the royalty as well.                         *)
SplitOnTop(price, royalty, fee) ==
    LET platform == IF fee > price - royalty THEN price - royalty ELSE fee
    IN  [creator |-> royalty, platform |-> platform, seller |-> price - platform]

Clamp(fee, remainder) ==
    IF fee < 0 THEN 0 ELSE IF fee > remainder THEN remainder ELSE fee

(* The three shares of a price once the royalty is known.                  *)
Split(price, royalty, fee) ==
    LET remainder == price - royalty
        platform  == Clamp(fee, remainder)
    IN  [creator |-> royalty, platform |-> platform,
         seller  |-> remainder - platform]

(* A bundle values every item at an equal integer share of the price.      *)
ItemShare(price, count) == price \div count
=============================================================================
