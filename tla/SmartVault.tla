------------------------------- MODULE SmartVault -------------------------------
(***************************************************************************)
(* SmartVault.sol, one initialised clone: an ERC-4626 vault whose owner    *)
(* deposits and withdraws the asset and whose manager trades any token the *)
(* vault holds through a whitelisted router.                               *)
(*                                                                         *)
(* The owner and the manager are accounts that call the vault in           *)
(* transactions of their own, one step each.  executeTrade hands control   *)
(* to a router, so it is split at that call: between its start and its end *)
(* the router spends its allowance in as many transfers as it likes, and   *)
(* whoever the router calls may call the vault: executeTrade alone is      *)
(* nonReentrant, so the owner and the holders of shares do then what they  *)
(* do in a transaction of their own, and all of it is undone if the trade  *)
(* reverts.  The ERC-20 and ERC-4626 arithmetic is OpenZeppelin's          *)
(* (decimals offset 0).                                                    *)
(***************************************************************************)
EXTENDS Integers

CONSTANTS
    Tokens,     \* ERC-20 tokens the vault may hold
    Asset,      \* asset() of the vault
    Routers,    \* routers
    MaxBalance, \* bound on the vault's balance of a token
    MaxSupply   \* bound on the supply of shares

ASSUME VaultAssumption ==
    /\ Asset \in Tokens
    /\ MaxBalance \in Nat /\ MaxSupply \in Nat

VARIABLES
    bal,        \* balanceOf(vault) in every token
    allowance,  \* [Routers -> [Tokens -> what the router may pull]]
    own,        \* shares of the owner
    others,     \* shares of everybody else
    whitelist,  \* _whitelistedRouters
    trade       \* the running executeTrade; on = FALSE outside of one

vars == <<bal, allowance, own, others, whitelist, trade>>

supply == own + others   \* totalSupply()

\* router, tokenIn and amount are the call's; before is the state a revert goes
\* back to; listed says the router was on the whitelist when the call began;
\* pulled is history: what routers took of every token since.
Stored == [bal |-> bal, allowance |-> allowance, own |-> own, others |-> others,
           whitelist |-> whitelist]
NoTrade == [on |-> FALSE]

Zero == [t \in Tokens |-> 0]

NoAllowance == [r \in Routers |-> Zero]

\* Balances f with n more, or n less, of token t.
Plus(f, t, n) == [f EXCEPT ![t] = @ + n]
Minus(f, t, n) == [f EXCEPT ![t] = @ - n]

Init ==
    /\ bal = Zero
    /\ allowance = NoAllowance
    /\ own = 0 /\ others = 0
    /\ whitelist \in SUBSET Routers   \* initialize copies the factory's list
    /\ trade = NoTrade

--------------------------------------------------------------------------------
(* ERC-4626 conversions, with one virtual share and one virtual asset *)

TotalAssets == bal[Asset]

CeilDiv(n, d) == (n + d - 1) \div d

SharesDown(assets) == (assets * (supply + 1)) \div (TotalAssets + 1)
SharesUp(assets)   == CeilDiv(assets * (supply + 1), TotalAssets + 1)
AssetsDown(sh)     == (sh * (TotalAssets + 1)) \div (supply + 1)
AssetsUp(sh)       == CeilDiv(sh * (TotalAssets + 1), supply + 1)

--------------------------------------------------------------------------------
(* The owner's calls, in a transaction of their own or under a router's call *)

\* receiver is the owner or somebody else.
MoveIn(assets, sh, toOwner) ==
    /\ bal[Asset] + assets <= MaxBalance
    /\ supply + sh <= MaxSupply
    /\ bal' = Plus(bal, Asset, assets)
    /\ IF toOwner THEN own' = own + sh /\ UNCHANGED others
                  ELSE others' = others + sh /\ UNCHANGED own
    /\ UNCHANGED <<allowance, whitelist, trade>>

MoveOut(assets, sh) ==
    /\ bal' = Minus(bal, Asset, assets)
    /\ own' = own - sh
    /\ UNCHANGED <<others, allowance, whitelist, trade>>

Deposit(assets, toOwner) == MoveIn(assets, SharesDown(assets), toOwner)

\* Mutant of Mint: the caller pays the assets rounded down.
MintRoundsDown(sh, toOwner) == MoveIn(AssetsDown(sh), sh, toOwner)

Mint(sh, toOwner) == MoveIn(AssetsUp(sh), sh, toOwner)

Withdraw(assets) ==
    /\ assets <= AssetsDown(own)   \* maxWithdraw
    /\ MoveOut(assets, SharesUp(assets))

\* Mutant of Redeem: maxRedeem is not looked at.
RedeemUnchecked(sh) == MoveOut(AssetsDown(sh), sh)

Redeem(sh) ==
    /\ sh <= own                   \* maxRedeem
    /\ MoveOut(AssetsDown(sh), sh)

SetRouterWhitelisted(r, allowed) ==
    /\ whitelist' = IF allowed THEN whitelist \cup {r} ELSE whitelist \ {r}
    /\ UNCHANGED <<bal, allowance, own, others, trade>>

--------------------------------------------------------------------------------
(* What anybody may do *)

\* A transfer of shares from or to the owner, by their holder.
TransferShares(sh) ==
    /\ \/ sh <= own /\ own' = own - sh /\ others' = others + sh
       \/ sh <= others /\ own' = own + sh /\ others' = others - sh
    /\ UNCHANGED <<bal, allowance, whitelist, trade>>

\* Tokens reach the vault outside deposit: the output of a swap, a plain
\* transfer.
Receive(t, amount) ==
    /\ bal[t] + amount <= MaxBalance
    /\ bal' = Plus(bal, t, amount)
    /\ UNCHANGED <<allowance, own, others, whitelist, trade>>

\* transferFrom(vault, ...) by a router with an allowance.
Pull(r, t, amount) ==
    /\ amount <= allowance[r][t]
    /\ amount <= bal[t]
    /\ bal' = Minus(bal, t, amount)
    /\ allowance' = [allowance EXCEPT ![r] = Minus(allowance[r], t, amount)]
    /\ trade' = IF trade.on
                THEN [trade EXCEPT !.pulled = Plus(trade.pulled, t, amount)]
                ELSE trade
    /\ UNCHANGED <<own, others, whitelist>>

--------------------------------------------------------------------------------
(* executeTrade, by the manager *)

StartTrade(r, t, amount, allowed) ==
    /\ allowance' = [allowance EXCEPT ![r] = [@ EXCEPT ![t] = allowed]]
    /\ trade' = [on |-> TRUE, router |-> r, tokenIn |-> t, amount |-> amount,
                 listed |-> r \in whitelist,
                 before |-> Stored, pulled |-> Zero]
    /\ UNCHANGED <<bal, own, others, whitelist>>

\* Mutant of ExecuteTrade: the router is approved for all the vault holds.
ExecuteTradeApprovesAll(r, t, amount) ==
    /\ ~trade.on
    /\ r \in whitelist
    /\ amount # 0
    /\ amount <= bal[t]
    /\ StartTrade(r, t, amount, bal[t])

\* Mutant of ExecuteTrade: a router may call back into executeTrade.
ExecuteTradeReenters(r, t, amount) ==
    /\ r \in whitelist
    /\ amount # 0
    /\ amount <= bal[t]
    /\ StartTrade(r, t, amount, amount)

\* From the entry to the router's call: nonReentrant, whitelist, amount and
\* balance checks, forceApprove(router, amount).
ExecuteTrade(r, t, amount) ==
    /\ ~trade.on
    /\ r \in whitelist
    /\ amount # 0
    /\ amount <= bal[t]
    /\ StartTrade(r, t, amount, amount)

\* Mutant of TradeReturns: the allowance is left as the router left it.
TradeReturnsKeepingAllowance ==
    /\ trade.on
    /\ trade' = NoTrade
    /\ UNCHANGED <<allowance, bal, own, others, whitelist>>

\* The router's call succeeded: forceApprove(router, 0).
TradeReturns ==
    /\ trade.on
    /\ allowance' = [allowance EXCEPT
                        ![trade.router] = [@ EXCEPT ![trade.tokenIn] = 0]]
    /\ trade' = NoTrade
    /\ UNCHANGED <<bal, own, others, whitelist>>

\* The router's call failed and its error is raised again: the whole
\* transaction is undone, with every call that came in under it.
TradeReverts ==
    /\ trade.on
    /\ bal' = trade.before.bal
    /\ allowance' = trade.before.allowance
    /\ own' = trade.before.own /\ others' = trade.before.others
    /\ whitelist' = trade.before.whitelist
    /\ trade' = NoTrade

--------------------------------------------------------------------------------

OwnerStep ==
    \/ \E n \in 1..MaxBalance :
          \/ \E toOwner \in BOOLEAN : Deposit(n, toOwner)
          \/ Withdraw(n)
    \/ \E n \in 1..MaxSupply :
          \/ \E toOwner \in BOOLEAN : Mint(n, toOwner)
          \/ Redeem(n)
    \/ \E r \in Routers, b \in BOOLEAN : SetRouterWhitelisted(r, b)

Next ==
    \/ OwnerStep
    \/ \E n \in 1..MaxSupply : TransferShares(n)
    \/ \E t \in Tokens, n \in 1..MaxBalance :
          \/ Receive(t, n)
          \/ \E r \in Routers : Pull(r, t, n) \/ ExecuteTrade(r, t, n)
    \/ TradeReturns
    \/ TradeReverts

Spec == Init /\ [][Next]_vars

--------------------------------------------------------------------------------
(* Properties *)

Balances == [Tokens -> Nat]
Allowances == [Routers -> [Tokens -> Nat]]

Trade == [on : {TRUE}, router : Routers, tokenIn : Tokens, amount : Nat,
          listed : BOOLEAN,
          before : [bal : Balances, allowance : Allowances, own : Nat, others : Nat,
                    whitelist : SUBSET Routers],
          pulled : Balances]

\* Balances, allowances and shares are what a uint256 can hold: nothing is
\* ever taken below zero.
TypeOK ==
    /\ bal \in Balances
    /\ allowance \in Allowances
    /\ own \in Nat /\ others \in Nat
    /\ whitelist \subseteq Routers
    /\ trade \in Trade \cup {NoTrade}

\* No allowance outlives its trade: between transactions no router may pull
\* anything, and during executeTrade only its router may, only the token the
\* trade sells, and only if the whitelist had it when the trade began.
NoStandingAllowance ==
    \A r \in Routers, t \in Tokens : allowance[r][t] # 0 =>
        /\ trade.on
        /\ r = trade.router /\ t = trade.tokenIn
        /\ trade.listed

\* In however many transfers it pulls, a router takes from a trade no more than
\* the amount the manager asked for, and nothing of any other token.
TradeBounded ==
    trade.on =>
        /\ trade.pulled[trade.tokenIn] <= trade.amount
        /\ \A t \in Tokens \ {trade.tokenIn} : trade.pulled[t] = 0

\* The worth of a share, in asset, falls only when a router takes of its
\* allowance or a trade is undone: no deposit, mint, withdrawal, redemption or
\* transfer dilutes the shares that are out, whichever way its rounding goes,
\* and not when it comes in under a router's call either.
SharePriceHolds ==
    [][(bal'[Asset] + 1) * (supply + 1) < (bal[Asset] + 1) * (supply' + 1)
         => trade.on /\ (trade'.on => trade'.pulled # trade.pulled)]_vars

\* What the vault would hold if the routers had taken nothing of the running
\* trade, and the order it runs with what the order goes back to if it fails.
PendingFunds == IF trade.on THEN [t \in Tokens |-> bal[t] + trade.pulled[t]] ELSE bal
OpenOrder ==
    IF trade.on
    THEN [open |-> TRUE, router |-> trade.router, token |-> trade.tokenIn, amount |-> trade.amount,
          saved |-> [funds |-> trade.before.bal, own |-> trade.before.own,
                     others |-> trade.before.others, whitelist |-> trade.before.whitelist]]
    ELSE [open |-> FALSE]

Ledger == INSTANCE AtomicVault WITH funds <- PendingFunds, order <- OpenOrder

\* With a router's takings accounted for when the trade ends, the vault is an
\* AtomicVault: in whatever way a router splits and interleaves what it takes
\* with what comes in and with calls back into the vault, a trade takes once,
\* within its order; one that reverts leaves funds, shares and whitelist as they
\* were; no second trade starts inside; and no other step takes funds that no
\* shares paid for, at their worth, which under a router's call may be short of
\* as much as the order.
ImplementsAtomicVault == Ledger!VaultSpec
================================================================================
