------------------------------ MODULE MCParts ------------------------------
(* Parts that share no state with the deals or with each other: the fee    *)
(* manager by itself, the transaction contract, the collection factory     *)
(* with its collections, the NFT contract, the wallets that sign in, the   *)
(* web client's session, the stored assets, the search index.  In a        *)
(* behaviour only one of them, the unit, moves.                            *)
EXTENDS Naturals, Sequences

CONSTANTS alice, bob,
          User, Configs, Amounts, RoyaltyBps, MaxVolume,
          Operations, Ceilings, DefaultGasCeiling, Initial, MaxOperations, MaxTx,
          Account, None, Token, Limits, Fees, Supplies, MaxCollections, Funds,
          Deployer, Role, HardCap, MaxBatch, MaxId, MaxOld,
          WithEmail, Wallet, WalletRequest, MaxCalls, WebCall,
          File, Large, Uploader, Request, Attempts, MaxUploadFaults,
          MaxWrites, MaxSearchFaults

VARIABLES unit,
          fee_config, volume,
          txs,
          admin, limit, fee, purse, made, money, colls,
          tokenOwner, dataOwner, layout, tokenApproved, operators, balance, totalSupply,
          nextTokenId, maxSupply, roles, isPaused, upgradeAdmin, storageVersion, migrated,
          approver,
          address, current, link, req, overlapped, calls,
          stored, refresh, call, signed, crossing, late,
          asset, refs, upload, pinned, arweave, retryQueue, given, uploadFaults,
          nft, document, write, settings, tainted, revived, searchFaults

F == INSTANCE FeeManager
T == INSTANCE Transactions
C == INSTANCE Collections
K == INSTANCE NftContract
W == INSTANCE Wallets WITH Nobody <- None
S == INSTANCE Session WITH Member <- Account, Anonymous <- None
U == INSTANCE Uploads
N == INSTANCE SearchSync

ASSUME Constants == /\ F!FeeConstants /\ T!TransactionConstants /\ C!CollectionConstants
                    /\ K!NftConstants /\ W!WalletConstants /\ S!SessionConstants
                    /\ U!UploadConstants /\ N!SearchConstants

-----------------------------------------------------------------------------
(* A flat fee, a tiered one with an exemption, a floor above small prices, *)
(* and configurations that must be refused.                                *)
Config(bps, min, max, dynamic, tiers, vips) ==
    [bps |-> bps, minimum |-> min, maximum |-> max, dynamic |-> dynamic,
     tiers |-> tiers, vip_exemptions |-> vips]

Tier(volume_, bps) == [min_volume |-> volume_, fee_discount_bps |-> bps]

SomeConfigs ==
    {Config(250, 0, 0, FALSE, <<>>, {}),
     Config(1000, 1, 8, FALSE, <<Tier(5, 500)>>, {bob}),
     Config(5000, 0, 0, TRUE, <<Tier(3, 1000), Tier(9, 5000)>>, {}),
     Config(3000, 2, 9, TRUE, <<Tier(4, 3000)>>, {bob}),
     Config(2000, 7, 7, TRUE, <<Tier(4, 500)>>, {}),
     Config(2000, 0, 0, TRUE, <<Tier(0, 500), Tier(4, 1500)>>, {})}

(* Operations that wait for each other, for one that is missing, in a      *)
(* circle, or that have no id.                                             *)
Op(id, deps, gas) == [id |-> id, deps |-> deps, gas |-> gas]

SomeOperations == {Op(1, {}, 1), Op(1, {2}, 1), Op(2, {1}, 2), Op(3, {1, 2}, 1),
                   Op(0, {}, 1)}
SomeInitial == {<<>>, <<Op(0, {}, 1)>>, <<Op(3, {1, 2}, 1), Op(1, {}, 1)>>}

-----------------------------------------------------------------------------
ofFees        == <<fee_config, volume>>
ofCollections == <<admin, limit, fee, purse, made, money, colls>>
ofNfts        == <<tokenOwner, dataOwner, layout, tokenApproved, operators, balance,
                   totalSupply, nextTokenId, maxSupply, roles, isPaused, upgradeAdmin,
                   storageVersion, migrated, approver>>
ofWallets     == <<address, current, link, req, overlapped, calls>>
ofSession     == <<stored, refresh, call, signed, crossing, late>>
ofUploads     == <<asset, refs, upload, pinned, arweave, retryQueue, given, uploadFaults>>
ofSearch      == <<nft, document, write, settings, tainted, revived, searchFaults>>
vars == <<unit, ofFees, txs, ofCollections, ofNfts, ofWallets, ofSession, ofUploads,
          ofSearch>>

(* Only the unit that moves starts from each of its initial states.        *)
Init ==
    /\ unit \in {"fees", "transactions", "collections", "nfts", "wallets", "session",
                "uploads", "search"}
    /\ F!Init /\ T!Init /\ C!Init /\ K!Init /\ W!Init /\ S!Init /\ U!Init /\ N!Init
    /\ unit # "fees" => fee_config = CHOOSE c \in Configs : F!ValidFeeConfig(c)
    /\ unit # "collections" =>
          <<admin, limit>> = CHOOSE s \in Account \X Limits : TRUE
    /\ unit # "nfts" => nextTokenId = 1 /\ storageVersion = K!Current /\ maxSupply = None

Next ==
    \/ /\ unit = "fees" /\ F!Next
       /\ UNCHANGED <<unit, txs, ofCollections, ofNfts, ofWallets, ofSession, ofUploads,
                      ofSearch>>
    \/ /\ unit = "transactions" /\ T!Next
       /\ UNCHANGED <<unit, ofFees, ofCollections, ofNfts, ofWallets, ofSession, ofUploads,
                      ofSearch>>
    \/ /\ unit = "collections" /\ C!Next
       /\ UNCHANGED <<unit, ofFees, txs, ofNfts, ofWallets, ofSession, ofUploads, ofSearch>>
    \/ /\ unit = "nfts" /\ K!Next
       /\ UNCHANGED <<unit, ofFees, txs, ofCollections, ofWallets, ofSession, ofUploads,
                      ofSearch>>
    \/ /\ unit = "wallets" /\ W!Next
       /\ UNCHANGED <<unit, ofFees, txs, ofCollections, ofNfts, ofSession, ofUploads,
                      ofSearch>>
    \/ /\ unit = "session" /\ S!Next
       /\ UNCHANGED <<unit, ofFees, txs, ofCollections, ofNfts, ofWallets, ofUploads,
                      ofSearch>>
    \/ /\ unit = "uploads" /\ U!Next
       /\ UNCHANGED <<unit, ofFees, txs, ofCollections, ofNfts, ofWallets, ofSession,
                      ofSearch>>
    \/ /\ unit = "search" /\ N!Next
       /\ UNCHANGED <<unit, ofFees, txs, ofCollections, ofNfts, ofWallets, ofSession,
                      ofUploads>>

Spec == Init /\ [][Next]_vars

(* Of two accounts the one that traded more is not charged more.           *)
VolumeNeverCosts == unit = "fees" => F!VolumeNeverCosts
(* A transaction runs once, each operation after those it depends on.      *)
RunsOnceInOrder == T!RunsOnceInOrder
(* A transaction is executed when an order of its operations exists.       *)
AcyclicCanRun == unit = "transactions" => T!AcyclicCanRun
(* Owners, balances, metadata and supply agree, of a factory's collection  *)
(* and of the NFT contract.                                                *)
CollectionsAgree == C!TablesAgree
NftsAgree        == K!NftTablesAgree
TablesAgree      == CollectionsAgree /\ NftsAgree
(* An approval is its owner's: none outlives a transfer or a burn.         *)
ApprovalIsOwners == K!ApprovalIsOwners
(* After the migration of the layout every token can be read.              *)
UpgradeLeavesNone == K!UpgradeLeavesNone

(* Unlinking never takes the last wallet of a wallet-only account, unless  *)
(* two unlinks of it overlapped.                                           *)
OneWalletStays == W!OneWalletStays
(* The tokens in the browser are those of whoever signed in last.          *)
TokensAreTheMembers == S!TokensAreTheMembers
(* All who stored the same bytes were told of the same copy.               *)
AnswersAgree == U!AnswersAgree
(* A quiet index is stale only by a failure, an overlap or a revival.      *)
StaleHasCause == N!StaleHasCause

(* Not kept by the code: a tier reached is a tier applied; the trail of a  *)
(* transaction ends with its state; a finalised transaction stays so; a    *)
(* linked wallet signs in, and an unlinked one does not; only a refused    *)
(* refresh signs the member out; bytes are stored once; the index shows    *)
(* the row in the end; a burned NFT stays burned; a paused contract of the  *)
(* old layout can be upgraded.                                             *)
ReachedTierApplies  == F!ReachedTierApplies
TrailIsComplete     == T!TrailIsComplete
FinalIsFinal        == T!FinalIsFinal
LinkedSignsIn       == W!LinkedSignsIn
UnlinkedIsOut       == W!UnlinkedIsOut
OnlyRefusalSignsOut == S!OnlyRefusalSignsOut
StoredOnce          == U!StoredOnce
IndexCatchesUp      == N!IndexCatchesUp
BurnedIsFinal       == N!BurnedIsFinal
UpgradeGoesThrough  == K!UpgradeGoesThrough
=============================================================================
