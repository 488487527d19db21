------------------------------- MODULE Vaults -------------------------------
(***************************************************************************)
(* Share vaults.  A strategy vault trades as a trader of its own: its      *)
(* strategist places orders in its name, depositors own shares of its      *)
(* collateral and enter and leave only while it is flat, and a performance *)
(* fee is taken in shares above a high-water mark.  A copy vault keeps its *)
(* assets in a token account of its own.                                   *)
(*                                                                         *)
(* What trading does to the vault's collateral (matching, settlement,      *)
(* funding, margin attestation) is in Settlement, Ledger and Reservation;  *)
(* here an order of the vault is matched, opens a position, and closes it  *)
(* with some profit or loss.                                               *)
(***************************************************************************)
EXTENDS Integers, FiniteSets, FiniteSetsExt, Functions

CONSTANTS
    Depositors, Strategist,
    VaultAmounts,    \* deposits, in quote lots
    Pnls,            \* profit or loss of a closed position
    UsdUnit,         \* USD_UNIT, the scale of the high-water mark
    FeeDenom,        \* BPS_DENOM
    PerfFees,        \* perf_fee_bps a vault may be created with
    OrderMargin,     \* initial margin of the strategist's order
    MaxVaultDeposits, MaxTrades, MaxDonated

Holders == Depositors \cup {Strategist}

ASSUME VaultAssumption ==
    /\ IsFiniteSet(Depositors) /\ Strategist \notin Depositors
    /\ VaultAmounts \subseteq Nat \ {0} /\ Pnls \subseteq Int
    /\ UsdUnit \in Nat \ {0} /\ FeeDenom \in Nat \ {0}
    /\ \A bps \in PerfFees : bps \in Nat /\ bps * 2 <= FeeDenom
    /\ OrderMargin \in Nat

VARIABLES
    vault,      \* the strategy vault and the trader state of its PDA
    vaultPos,   \* holder -> shares of the strategy vault
    copy,       \* the copy vault and the balance of its token account
    copyPos,    \* depositor -> shares of the copy vault
    vaultSpent  \* history: deposits, trades and donations, for the bounds

vaultVars == <<vault, vaultPos, copy, copyPos, vaultSpent>>

(* Deposits mint and withdrawals pay rounded down, at the pool's price.    *)
Minted(amount, shares, assets) ==
    IF shares = 0 THEN amount ELSE (amount * shares) \div assets

(* Deliberately wrong: priced by the token balance.                        *)
SharesOnDepositBalance(amount, shares, assets) == Minted(amount, shares, copy.tokens)

(* shares_on_deposit *)
SharesOnDeposit(amount, shares, assets) == Minted(amount, shares, assets)

(* assets_on_withdraw *)
AssetsOnWithdraw(burned, shares, assets) == (burned * assets) \div shares

VaultInit ==
    /\ vault = [created |-> FALSE, opened |-> FALSE, fee |-> 0, shares |-> 0, hwm |-> 0,
                collateral |-> 0, open |-> FALSE, er |-> FALSE, resting |-> FALSE]
    /\ vaultPos = [h \in Holders |-> 0]
    /\ copy = [created |-> FALSE, shares |-> 0, assets |-> 0, tokens |-> 0]
    /\ copyPos = [d \in Depositors |-> 0]
    /\ vaultSpent = [deposits |-> 0, trades |-> 0, donated |-> 0]

(* create_vault *)
CreateVault(bps) ==
    /\ ~vault.created
    /\ vault' = [vault EXCEPT !.created = TRUE, !.fee = bps]
    /\ UNCHANGED <<vaultPos, copy, copyPos, vaultSpent>>

(* vault_open_trader_state *)
VaultOpenTraderState ==
    /\ vault.created /\ ~vault.opened
    /\ vault' = [vault EXCEPT !.opened = TRUE]
    /\ UNCHANGED <<vaultPos, copy, copyPos, vaultSpent>>

(* vault_deposit: only while flat, and not into a drained vault.           *)
FlatForEntry == ~vault.open

(* A drained vault has shares and no collateral to price them by.          *)
Drained == vault.shares > 0 /\ vault.collateral = 0

VaultDeposit(d, amount) ==
    LET minted == Minted(amount, vault.shares, vault.collateral)
    IN  /\ vault.opened /\ vaultSpent.deposits < MaxVaultDeposits
        /\ FlatForEntry
        /\ ~Drained
        /\ minted > 0
        /\ vault' = [vault EXCEPT !.collateral = @ + amount, !.shares = @ + minted]
        /\ vaultPos' = [vaultPos EXCEPT ![d] = @ + minted]
        /\ vaultSpent' = [vaultSpent EXCEPT !.deposits = @ + 1]
        /\ UNCHANGED <<copy, copyPos>>

(* vault_withdraw: flat, and no margin reserved on the rollup.             *)
FlatForExit == ~vault.open /\ ~vault.er

(* A share is worth its part of the collateral.                            *)
VaultAmount(burned) == (burned * vault.collateral) \div vault.shares

VaultWithdraw(h, burned) ==
    LET amount == VaultAmount(burned)
    IN  /\ burned \in 1 .. Min({vaultPos[h], vault.shares})
        /\ vault.collateral > 0
        /\ FlatForExit
        /\ amount > 0
        /\ vault' = [vault EXCEPT !.collateral = @ - amount, !.shares = @ - burned]
        /\ vaultPos' = [vaultPos EXCEPT ![h] = @ - burned]
        /\ UNCHANGED <<copy, copyPos, vaultSpent>>

-----------------------------------------------------------------------------
(* vault_place_order: an opening order must be covered by the collateral.  *)
(* On a delegated book the reservation is attested (er).                   *)
VaultPlaceOrder(delegated) ==
    /\ vault.opened /\ ~vault.resting
    /\ vaultSpent.trades < MaxTrades
    /\ vault.open \/ vault.collateral >= OrderMargin
    /\ vault' = [vault EXCEPT !.resting = TRUE, !.er = @ \/ delegated]
    /\ vaultSpent' = [vaultSpent EXCEPT !.trades = @ + 1]
    /\ UNCHANGED <<vaultPos, copy, copyPos>>

(* vault_cancel_order; the reservation is released with it.                *)
VaultCancelOrder ==
    /\ vault.resting
    /\ vault' = [vault EXCEPT !.resting = FALSE, !.er = FALSE]
    /\ UNCHANGED <<vaultPos, copy, copyPos, vaultSpent>>

(* The order fills and settles: it opens the vault's position, or closes   *)
(* it; a loss takes what collateral there is.                              *)
VaultOrderFills(pnl) ==
    /\ vault.resting
    /\ vault' = [vault EXCEPT !.resting = FALSE, !.er = FALSE, !.open = ~@,
                              !.collateral = IF vault.open THEN Max({@ + pnl, 0}) ELSE @]
    /\ UNCHANGED <<vaultPos, copy, copyPos, vaultSpent>>

(***************************************************************************)
(* The performance fee.                                                    *)
(***************************************************************************)
PerShare(collateral, shares) == (collateral * UsdUnit) \div shares

(* Deliberately wrong: the fee is taken on the whole NAV.                  *)
FeeSharesOfNav(mark) == (((vault.collateral * vault.fee) \div FeeDenom) * vault.shares) \div vault.collateral

(* Shares worth fee bps of the gain per share above the mark.              *)
FeeShares(mark) ==
    LET gain == ((PerShare(vault.collateral, vault.shares) - mark) * vault.shares) \div UsdUnit
        fee  == (gain * vault.fee) \div FeeDenom
    IN  (fee * vault.shares) \div vault.collateral

(* The strategist's shares and the mark after them.                        *)
FeeSettled(minted) ==
    [vault EXCEPT !.shares = @ + minted,
                  !.hwm = PerShare(vault.collateral, vault.shares + minted)]

(* settle_vault_perf_fee.  An empty vault starts over at one unit a share, *)
(* a vault without a mark takes the present value as its mark; otherwise   *)
(* the value must be above the mark.                                       *)
SettleVaultPerfFee ==
    LET now == PerShare(vault.collateral, vault.shares)
        minted == FeeShares(vault.hwm)
        first == vault.hwm = 0
    IN  /\ vault.opened
        /\ IF vault.shares = 0
           THEN vault' = [vault EXCEPT !.hwm = UsdUnit] /\ UNCHANGED vaultPos
           ELSE /\ ~vault.open /\ vault.collateral > 0
                /\ first \/ now > vault.hwm
                /\ IF first \/ minted = 0
                   THEN vault' = [vault EXCEPT !.hwm = now] /\ UNCHANGED vaultPos
                   ELSE /\ vaultPos' = [vaultPos EXCEPT ![Strategist] = @ + minted]
                        /\ vault' = FeeSettled(minted)
        /\ UNCHANGED <<copy, copyPos, vaultSpent>>

-----------------------------------------------------------------------------
(* create_copy_vault *)
CreateCopyVault ==
    /\ ~copy.created
    /\ copy' = [copy EXCEPT !.created = TRUE]
    /\ UNCHANGED <<vault, vaultPos, copyPos, vaultSpent>>

(* deposit_to_copy_vault *)
DepositToCopyVault(d, amount) ==
    LET minted == SharesOnDeposit(amount, copy.shares, copy.assets)
    IN  /\ copy.created /\ vaultSpent.deposits < MaxVaultDeposits
        /\ copy.shares > 0 => copy.assets > 0
        /\ minted > 0
        /\ copy' = [copy EXCEPT !.shares = @ + minted, !.assets = @ + amount, !.tokens = @ + amount]
        /\ copyPos' = [copyPos EXCEPT ![d] = @ + minted]
        /\ vaultSpent' = [vaultSpent EXCEPT !.deposits = @ + 1]
        /\ UNCHANGED <<vault, vaultPos>>

(* withdraw_from_copy_vault: assets are debited saturating, the vault's    *)
(* total of shares unchecked.                                              *)
CopyAfter(burned, assets) ==
    [copy EXCEPT !.shares = @ - burned, !.assets = Max({@ - assets, 0}), !.tokens = @ - assets]

WithdrawFromCopyVault(d, burned) ==
    LET assets == AssetsOnWithdraw(burned, copy.shares, copy.assets)
    IN  /\ burned \in 1 .. copyPos[d]
        /\ burned <= copy.shares
        /\ copy.tokens >= assets
        /\ copy' = CopyAfter(burned, assets)
        /\ copyPos' = [copyPos EXCEPT ![d] = @ - burned]
        /\ UNCHANGED <<vault, vaultPos, vaultSpent>>

(* Anyone may send tokens to the vault's token account.                    *)
DonateTokens ==
    /\ copy.created /\ vaultSpent.donated < MaxDonated
    /\ copy' = [copy EXCEPT !.tokens = @ + 1]
    /\ vaultSpent' = [vaultSpent EXCEPT !.donated = @ + 1]
    /\ UNCHANGED <<vault, vaultPos, copyPos>>

StrategyNext ==
    \/ \E bps \in PerfFees : CreateVault(bps)
    \/ VaultOpenTraderState
    \/ \E d \in Depositors, amount \in VaultAmounts : VaultDeposit(d, amount)
    \/ \E h \in Holders : \E burned \in 1 .. vaultPos[h] : VaultWithdraw(h, burned)
    \/ \E delegated \in BOOLEAN : VaultPlaceOrder(delegated)
    \/ VaultCancelOrder
    \/ \E pnl \in Pnls : VaultOrderFills(pnl)
    \/ SettleVaultPerfFee

CopyNext ==
    \/ CreateCopyVault
    \/ \E d \in Depositors, amount \in VaultAmounts : DepositToCopyVault(d, amount)
    \/ \E d \in Depositors : \E burned \in 1 .. copyPos[d] : WithdrawFromCopyVault(d, burned)
    \/ DonateTokens

VaultNext == StrategyNext \/ CopyNext

VaultSpec == VaultInit /\ [][VaultNext]_vaultVars

-----------------------------------------------------------------------------
(* The types; and no one's shares are outside the totals, which the copy   *)
(* vault's unchecked subtraction relies on.                                *)
VaultTypeOK ==
    /\ vault.shares \in Nat /\ vault.collateral \in Nat /\ vault.hwm \in Nat
    /\ copy.shares \in Nat /\ copy.assets \in Nat /\ copy.tokens \in Nat
    /\ vaultPos \in [Holders -> Nat] /\ copyPos \in [Depositors -> Nat]
    /\ vault.shares = SumFunctionOnSet(vaultPos, Holders)
    /\ copy.shares = SumFunctionOnSet(copyPos, Depositors)

(* Nobody is diluted: a deposit into, or a withdrawal from, either vault   *)
(* never lowers what a share of those who stay is worth, and happens only  *)
(* when a share's worth is known, with the strategy vault flat.            *)
VaultNoDilution ==
    [][/\ (/\ vault.shares > 0 /\ vault'.shares > 0 /\ vault'.collateral # vault.collateral
           /\ vault'.shares # vault.shares)
            => /\ vault'.collateral * vault.shares >= vault.collateral * vault'.shares
               /\ ~vault.open
       /\ (copy.shares > 0 /\ copy'.shares > 0)
            => copy'.assets * copy.shares >= copy.assets * copy'.shares]_vaultVars

(* No gain is charged twice: while anyone holds shares the high-water mark *)
(* never falls, and settling the fee never leaves a share worth less than  *)
(* the mark that the fee was measured from.                                *)
FeeOnlyOnNewGain ==
    [][(vault.shares > 0 /\ vault'.shares > 0) =>
         /\ vault'.hwm >= vault.hwm
         /\ (vault'.shares > vault.shares /\ vault'.collateral = vault.collateral)
              => PerShare(vault'.collateral, vault'.shares) >= vault.hwm]_vaultVars

(* Those who stay in a vault lose nothing to entries, exits and fees.      *)
VaultHoldersWhole == VaultNoDilution /\ FeeOnlyOnNewGain

(* The copy vault's token account covers what its shares are worth, and a  *)
(* share is always worth exactly the lot that bought it, whatever tokens   *)
(* are sent to the account and however often the vault empties and fills.  *)
CopyVaultWhole ==
    /\ copy.tokens >= copy.assets
    /\ copy.assets = copy.shares

(* Share totals are exact in both vaults, and the copy vault is whole.     *)
SharesSound == VaultTypeOK /\ CopyVaultWhole
=============================================================================
