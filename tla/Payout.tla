------------------------------- MODULE Payout -------------------------------
(***************************************************************************)
(* How the settlement contract pays out a price, and the terms that decide *)
(* who gets what: the royalty of each NFT, the platform's fee recipient    *)
(* and the volume each account has traded.                                 *)
(***************************************************************************)
EXTENDS Ledger, FeeMath

CONSTANTS
    None,         \* an Option<Address> that is None
    Fees,         \* the platform fees FeeManager may quote
    RoyaltyBps,   \* the royalties creators may set, in basis points
    Recipients    \* the accounts the admin may name as fee recipient

ASSUME PayoutAssumption ==
    /\ None \notin User \cup {Market}
    /\ Fees \subseteq Int
    /\ RoyaltyBps \subseteq 0..MaxRoyaltyBps
    /\ Recipients \subseteq User /\ Recipients # {}

VARIABLES
    royalty,    \* RoyaltyInfo of each NFT
    recipient,  \* fee_config.fee_recipient
    volume      \* FeeKey::UserVolume, per user

termVars == <<royalty, recipient>>

SomeUser == User \cup {None}
Shares   == [User -> Nat]
Royalty  == [creator : SomeUser, bps : 0..MaxRoyaltyBps]

PayoutTypeOK ==
    /\ royalty \in [NFT -> Royalty]
    /\ recipient \in User
    /\ volume \in [User -> Int]

PayoutInit ==
    /\ royalty = [n \in NFT |-> [creator |-> None, bps |-> 0]]
    /\ recipient \in Recipients
    /\ volume = [u \in User |-> 0]

-----------------------------------------------------------------------------
(* Splitting a payment.  An account with several roles collects the sum of *)
(* its shares.                                                             *)

Creator(n, seller) ==
    IF royalty[n].creator = None THEN seller ELSE royalty[n].creator

Credit(u, account, amount) == IF u = account THEN amount ELSE 0

(* Mutant: a second share of the same account replaces the first.          *)
LastShareWins(n, price, seller, fee) ==
    LET cut == Split(price, CalculatePercentage(price, royalty[n].bps), fee)
    IN  [u \in User |-> IF u = recipient THEN cut.platform
                        ELSE IF u = seller THEN cut.seller
                        ELSE Credit(u, Creator(n, seller), cut.creator)]

SaleShares(n, price, seller, fee) ==
    LET cut == Split(price, CalculatePercentage(price, royalty[n].bps), fee)
    IN  [u \in User |-> Credit(u, Creator(n, seller), cut.creator)
                        + Credit(u, seller, cut.seller)
                        + Credit(u, recipient, cut.platform)]

(* The royalty of each item is taken on its equal share of the price; the  *)
(* seller absorbs what the divisions leave over.                           *)
BundleShares(items, price, seller, fee) ==
    LET due == [n \in items |-> CalculatePercentage(
                                   ItemShare(price, Cardinality(items)),
                                   royalty[n].bps)]
        cut == Split(price, SumFunction(due), fee)
    IN  [u \in User |->
            SumFunctionOnSet(due, {n \in items : Creator(n, seller) = u})
            + Credit(u, seller, cut.seller) + Credit(u, recipient, cut.platform)]

(* Mutant: the platform's share stays in the contract.                     *)
FeeKept(b, shares, total) ==
    [a \in Account |-> IF a = Market THEN b[a] - total + shares[recipient]
                       ELSE IF a = recipient THEN b[a] ELSE b[a] + shares[a]]

(* validate_royalty_distribution, then one transfer per recipient out of   *)
(* the contract's balance; the token refuses a negative amount.            *)
CanDistribute(b, shares, total) ==
    /\ shares \in Shares
    /\ SumFunction(shares) = total
    /\ CanPay(b, Market, total)
Distribute(b, shares, total) ==
    [a \in Account |-> IF a = Market THEN b[a] - total ELSE b[a] + shares[a]]

RecordVolume(u, fee) == volume' = [volume EXCEPT ![u] = @ + fee]

-----------------------------------------------------------------------------
(* Terms that change under the deals already made.                         *)

(* By the admin or the current owner of the token, for any creator.        *)
SetRoyaltyInfo(n, creator, bps) ==
    /\ royalty' = [royalty EXCEPT ![n] = [creator |-> creator, bps |-> bps]]
    /\ UNCHANGED <<ledgerVars, recipient, volume>>

SetFeeRecipient(u) ==
    /\ recipient' = u
    /\ UNCHANGED <<ledgerVars, royalty, volume>>

TermsNext ==
    \/ \E n \in NFT, u \in User, bps \in RoyaltyBps : SetRoyaltyInfo(n, u, bps)
    \/ \E u \in Recipients : SetFeeRecipient(u)
=============================================================================
