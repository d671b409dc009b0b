---------------------------- MODULE Contracts_proofs -----------------------------
(***************************************************************************)
(* What the two contracts and the amounts sent to them guarantee for any   *)
(* tokens, accounts, routers and amounts.  SmartVault: its type, the life  *)
(* of allowances, the bound on what a trade takes, the rounding of the     *)
(* ERC-4626 conversions.  VaultFactory: its array of routers is its        *)
(* mapping, and its two registers of vaults agree.  TradeSizing: a         *)
(* proposal fits its vault, and what a confirmation shows or reads is what *)
(* the keeper trades, for any number of decimals.                          *)
(***************************************************************************)
EXTENDS SmartVault, VaultFactory, TradeSizing, FiniteSetTheorems, SequenceTheorems,
        WellFoundedInduction, TLAPS

--------------------------------------------------------------------------------
(* Arithmetic *)

\* A product orders its factors: used to compare quotients with what they were
\* divided from.
LEMMA Cancel ==
    ASSUME NEW x \in Int, NEW y \in Int, NEW d \in Nat \ {0}, x * d < y * d
    PROVE  x < y
<1>1. CASE x >= y
    <2>1. x - y \in Nat BY <1>1
    <2>2. (x - y) * d >= 0 BY <2>1
    <2>3. (x - y) * d = x * d - y * d OBVIOUS
    <2>4. x * d \in Int /\ y * d \in Int OBVIOUS
    <2> QED BY <2>2, <2>3, <2>4
<1> QED BY <1>1

\* Integer division rounds down, by less than one.
LEMMA Floor ==
    ASSUME NEW n \in Nat, NEW d \in Nat \ {0}
    PROVE  /\ n \div d \in Nat
           /\ (n \div d) * d <= n
           /\ n < (n \div d + 1) * d
OBVIOUS

\* CeilDiv rounds up, by less than one.
LEMMA Ceil ==
    ASSUME NEW n \in Nat, NEW d \in Nat \ {0}
    PROVE  /\ CeilDiv(n, d) \in Nat
           /\ n <= CeilDiv(n, d) * d
           /\ CeilDiv(n, d) * d < n + d
<1> DEFINE m == n + d - 1
<1> DEFINE q == m \div d
<1>1. m \in Nat OBVIOUS
<1>2. q \in Nat /\ q * d <= m /\ m < (q + 1) * d
    <2> HIDE DEF m
    <2> QED BY <1>1, Floor
<1>3. (q + 1) * d = q * d + d /\ q * d \in Nat
    <2> HIDE DEF q
    <2> QED BY <1>2
<1> QED BY <1>2, <1>3 DEF CeilDiv

\* What the owner gets for assets, or pays for shares, is a natural number that
\* rounds against the owner.
LEMMA Conversions ==
    ASSUME TypeOK, NEW n \in Nat
    PROVE  /\ SharesDown(n) \in Nat
           /\ SharesDown(n) * (bal[Asset] + 1) <= n * (supply + 1)
           /\ AssetsUp(n) \in Nat
           /\ n * (bal[Asset] + 1) <= AssetsUp(n) * (supply + 1)
           /\ SharesUp(n) \in Nat
           /\ n * (supply + 1) <= SharesUp(n) * (bal[Asset] + 1)
           /\ SharesUp(n) * (bal[Asset] + 1) < n * (supply + 1) + (bal[Asset] + 1)
           /\ AssetsDown(n) \in Nat
           /\ AssetsDown(n) * (supply + 1) <= n * (bal[Asset] + 1)
<1>1. bal[Asset] \in Nat /\ supply \in Nat
    BY VaultAssumption DEF TypeOK, Balances, supply
<1>2. bal[Asset] + 1 \in Nat \ {0} /\ supply + 1 \in Nat \ {0}
    BY <1>1
<1>3. n * (supply + 1) \in Nat /\ n * (bal[Asset] + 1) \in Nat
    BY <1>1
<1>4. SharesDown(n) \in Nat /\ SharesDown(n) * (bal[Asset] + 1) <= n * (supply + 1)
    BY <1>2, <1>3, Floor DEF SharesDown, TotalAssets
<1>5. AssetsDown(n) \in Nat /\ AssetsDown(n) * (supply + 1) <= n * (bal[Asset] + 1)
    BY <1>2, <1>3, Floor DEF AssetsDown, TotalAssets
<1>6. /\ SharesUp(n) \in Nat
      /\ n * (supply + 1) <= SharesUp(n) * (bal[Asset] + 1)
      /\ SharesUp(n) * (bal[Asset] + 1) < n * (supply + 1) + (bal[Asset] + 1)
    BY <1>2, <1>3, Ceil DEF SharesUp, TotalAssets
<1>7. AssetsUp(n) \in Nat /\ n * (bal[Asset] + 1) <= AssetsUp(n) * (supply + 1)
    BY <1>2, <1>3, Ceil DEF AssetsUp, TotalAssets
<1> QED BY <1>4, <1>5, <1>6, <1>7

\* A redemption the owner is allowed never asks for more than the vault holds.
LEMMA RedeemCovered ==
    ASSUME TypeOK, NEW sh \in Nat, sh <= own
    PROVE  AssetsDown(sh) <= bal[Asset]
<1> DEFINE T == bal[Asset]
<1> DEFINE a == AssetsDown(sh)
<1>1. T \in Nat /\ supply \in Nat /\ sh <= supply
    BY VaultAssumption DEF TypeOK, Balances, supply
<1>2. a \in Nat /\ a * (supply + 1) <= sh * (T + 1)
    BY Conversions
<1> HIDE DEF T, a
<1>3. sh * (T + 1) <= supply * (T + 1)
    <2>1. supply - sh \in Nat BY <1>1
    <2>2. (supply - sh) * (T + 1) >= 0 BY <2>1, <1>1
    <2>3. (supply - sh) * (T + 1) = supply * (T + 1) - sh * (T + 1) BY <1>1
    <2>4. sh * (T + 1) \in Int /\ supply * (T + 1) \in Int BY <1>1
    <2> QED BY <2>2, <2>3, <2>4
<1>4. supply * (T + 1) < (T + 1) * (supply + 1)
    BY <1>1
<1>5. a * (supply + 1) < (T + 1) * (supply + 1)
    <2>1. /\ a * (supply + 1) \in Int /\ sh * (T + 1) \in Int
          /\ supply * (T + 1) \in Int /\ (T + 1) * (supply + 1) \in Int
        BY <1>1, <1>2
    <2> QED BY <2>1, <1>2, <1>3, <1>4
<1>6. a < T + 1
    BY <1>1, <1>2, <1>5, Cancel
<1> QED BY <1>1, <1>2, <1>6 DEF T, a

\* A withdrawal the owner is allowed never burns more than the owner's shares.
LEMMA WithdrawCovered ==
    ASSUME TypeOK, NEW a \in Nat, a <= AssetsDown(own)
    PROVE  SharesUp(a) <= own
<1> DEFINE T == bal[Asset]
<1> DEFINE S == supply
<1> DEFINE top == AssetsDown(own)
<1> DEFINE q == SharesUp(a)
<1>1. T \in Nat /\ S \in Nat /\ own \in Nat
    BY VaultAssumption DEF TypeOK, Balances, supply
<1>2. top \in Nat /\ top * (S + 1) <= own * (T + 1)
    BY <1>1, Conversions
<1>3. q \in Nat /\ q * (T + 1) < a * (S + 1) + (T + 1)
    BY Conversions
<1>4. a <= top OBVIOUS
<1> HIDE DEF T, S, top, q
<1>5. a * (S + 1) <= top * (S + 1)
    <2>1. top - a \in Nat BY <1>2, <1>4
    <2>2. (top - a) * (S + 1) >= 0 BY <2>1, <1>1
    <2>3. (top - a) * (S + 1) = top * (S + 1) - a * (S + 1) BY <1>1, <1>2
    <2>4. top * (S + 1) \in Int /\ a * (S + 1) \in Int BY <1>1, <1>2
    <2> QED BY <2>2, <2>3, <2>4
<1>6. q * (T + 1) < (own + 1) * (T + 1)
    <2>1. (own + 1) * (T + 1) = own * (T + 1) + (T + 1) BY <1>1
    <2>2. /\ q * (T + 1) \in Int /\ a * (S + 1) \in Int /\ top * (S + 1) \in Int
          /\ own * (T + 1) \in Int
        BY <1>1, <1>2, <1>3
    <2> QED BY <2>1, <2>2, <1>1, <1>2, <1>3, <1>5
<1>7. q < own + 1
    BY <1>1, <1>3, <1>6, Cancel
<1> QED BY <1>1, <1>3, <1>7 DEF q

--------------------------------------------------------------------------------
(* Types *)

LEMMA InitTyped == Init => TypeOK
<1> SUFFICES ASSUME Init PROVE TypeOK OBVIOUS
<1>1. Zero \in Balances BY DEF Zero, Balances
<1>2. NoAllowance \in Allowances
    BY <1>1 DEF NoAllowance, Allowances, Balances
<1> QED BY <1>1, <1>2 DEF Init, TypeOK

LEMMA MoveInTyped ==
    ASSUME TypeOK, NEW a \in Nat, NEW sh \in Nat, NEW toOwner \in BOOLEAN,
           MoveIn(a, sh, toOwner)
    PROVE  TypeOK'
<1>1. bal' \in Balances BY VaultAssumption DEF MoveIn, Plus, TypeOK, Balances
<1>2. own' \in Nat /\ others' \in Nat
    <2>1. CASE toOwner BY <2>1 DEF MoveIn, TypeOK
    <2>2. CASE ~toOwner BY <2>2 DEF MoveIn, TypeOK
    <2> QED BY <2>1, <2>2
<1> QED BY <1>1, <1>2 DEF MoveIn, TypeOK

LEMMA MoveOutTyped ==
    ASSUME TypeOK, NEW a \in Nat, NEW sh \in Nat, a <= bal[Asset], sh <= own,
           MoveOut(a, sh)
    PROVE  TypeOK'
<1>1. bal[Asset] - a \in Nat BY VaultAssumption DEF TypeOK, Balances
<1>2. bal' \in Balances BY <1>1 DEF MoveOut, Minus, TypeOK, Balances
<1>3. own' \in Nat BY DEF MoveOut, TypeOK
<1> QED BY <1>2, <1>3 DEF MoveOut, TypeOK

LEMMA NextTyped == TypeOK /\ [Next]_vars => TypeOK'
<1> SUFFICES ASSUME TypeOK, [Next]_vars PROVE TypeOK' OBVIOUS
<1> USE VaultAssumption
<1>1. ASSUME NEW n \in Nat, NEW toOwner \in BOOLEAN, Deposit(n, toOwner)
      PROVE  TypeOK'
    BY <1>1, Conversions, MoveInTyped DEF Deposit
<1>2. ASSUME NEW n \in Nat, NEW toOwner \in BOOLEAN, Mint(n, toOwner)
      PROVE  TypeOK'
    BY <1>2, Conversions, MoveInTyped DEF Mint
<1>3. ASSUME NEW n \in Nat, Withdraw(n) PROVE TypeOK'
    <2>1. own \in Nat BY DEF TypeOK
    <2>2. bal[Asset] \in Nat BY DEF TypeOK, Balances
    <2>3. AssetsDown(own) \in Nat /\ AssetsDown(own) <= bal[Asset]
        BY <2>1, Conversions, RedeemCovered
    <2>4. n <= AssetsDown(own) /\ MoveOut(n, SharesUp(n)) BY <1>3 DEF Withdraw
    <2>5. n <= bal[Asset] BY <2>2, <2>3, <2>4
    <2>6. SharesUp(n) \in Nat BY Conversions
    <2>7. SharesUp(n) <= own BY <2>4, WithdrawCovered
    <2> QED BY <2>4, <2>5, <2>6, <2>7, MoveOutTyped
<1>4. ASSUME NEW n \in Nat, Redeem(n) PROVE TypeOK'
    <2>1. n <= own /\ MoveOut(AssetsDown(n), n) BY <1>4 DEF Redeem
    <2>2. AssetsDown(n) \in Nat BY Conversions
    <2>3. AssetsDown(n) <= bal[Asset] BY <2>1, RedeemCovered
    <2> QED BY <2>1, <2>2, <2>3, MoveOutTyped
<1>5. ASSUME NEW r \in Routers, NEW b \in BOOLEAN, SetRouterWhitelisted(r, b)
      PROVE  TypeOK'
    <2>1. CASE b BY <1>5, <2>1 DEF SetRouterWhitelisted, TypeOK
    <2>2. CASE ~b BY <1>5, <2>2 DEF SetRouterWhitelisted, TypeOK
    <2> QED BY <2>1, <2>2
<1>6. ASSUME NEW n \in Nat, TransferShares(n) PROVE TypeOK'
    <2>1. own' \in Nat /\ others' \in Nat BY <1>6 DEF TransferShares, TypeOK
    <2> QED BY <1>6, <2>1 DEF TransferShares, TypeOK
<1>7. ASSUME NEW t \in Tokens, NEW n \in Nat, Receive(t, n) PROVE TypeOK'
    BY <1>7 DEF Receive, Plus, TypeOK, Balances
<1>8. ASSUME NEW r \in Routers, NEW t \in Tokens, NEW n \in Nat, Pull(r, t, n)
      PROVE  TypeOK'
    <2>1. bal[t] - n \in Nat BY <1>8 DEF Pull, TypeOK, Balances
    <2>2. allowance[r] \in [Tokens -> Nat] BY DEF TypeOK, Allowances
    <2>3. allowance[r][t] - n \in Nat BY <1>8, <2>2 DEF Pull
    <2>4. bal' \in Balances BY <1>8, <2>1 DEF Pull, Minus, TypeOK, Balances
    <2>5. Minus(allowance[r], t, n) \in [Tokens -> Nat]
        BY <2>2, <2>3 DEF Minus
    <2>6. allowance' \in Allowances
        BY <1>8, <2>5 DEF Pull, TypeOK, Allowances
    <2>7. trade' \in Trade \cup {NoTrade}
        <3>1. CASE trade.on
            <4>1. trade \in Trade BY <3>1 DEF TypeOK, NoTrade
            <4>2. Plus(trade.pulled, t, n) \in Balances
                BY <4>1 DEF Trade, Plus, Balances
            <4>3. trade' = [trade EXCEPT !.pulled = Plus(trade.pulled, t, n)]
                BY <1>8, <3>1 DEF Pull
            <4> QED BY <4>1, <4>2, <4>3 DEF Trade
        <3>2. CASE ~trade.on BY <1>8, <3>2 DEF Pull, TypeOK
        <3> QED BY <3>1, <3>2
    <2> QED BY <1>8, <2>4, <2>6, <2>7 DEF Pull, TypeOK
<1>9. ASSUME NEW r \in Routers, NEW t \in Tokens, NEW n \in Nat,
             ExecuteTrade(r, t, n)
      PROVE  TypeOK'
    <2>1. allowance[r] \in [Tokens -> Nat] BY DEF TypeOK, Allowances
    <2>2. allowance' \in Allowances
        BY <1>9, <2>1 DEF ExecuteTrade, StartTrade, TypeOK, Allowances
    <2>3. Zero \in Balances BY DEF Zero, Balances
    <2>4. trade' \in Trade
        BY <1>9, <2>3 DEF ExecuteTrade, StartTrade, Stored, TypeOK, Trade
    <2> QED BY <1>9, <2>2, <2>4 DEF ExecuteTrade, StartTrade, TypeOK
<1>10. ASSUME TradeReturns PROVE TypeOK'
    <2>1. trade \in Trade BY <1>10 DEF TradeReturns, TypeOK, NoTrade
    <2>2. allowance[trade.router] \in [Tokens -> Nat]
        BY <2>1 DEF TypeOK, Allowances, Trade
    <2>3. allowance' \in Allowances
        BY <1>10, <2>1, <2>2 DEF TradeReturns, TypeOK, Allowances, Trade
    <2> QED BY <1>10, <2>3 DEF TradeReturns, TypeOK
<1>11. ASSUME TradeReverts PROVE TypeOK'
    <2>1. trade \in Trade BY <1>11 DEF TradeReverts, TypeOK, NoTrade
    <2> QED BY <1>11, <2>1 DEF TradeReverts, TypeOK, Trade
<1>12. CASE UNCHANGED vars
    BY <1>12 DEF vars, TypeOK
<1>13. 1..MaxBalance \subseteq Nat /\ 1..MaxSupply \subseteq Nat
    OBVIOUS
<1>14. CASE OwnerStep
    BY <1>1, <1>2, <1>3, <1>4, <1>5, <1>13, <1>14 DEF OwnerStep
<1>15. CASE Next
    BY <1>6, <1>7, <1>8, <1>9, <1>10, <1>11, <1>13, <1>14, <1>15 DEF Next
<1> QED BY <1>12, <1>15

\* Nothing is ever taken below zero: neither a withdrawal, nor a redemption, nor
\* a router, whatever the rounding of the conversions does.
THEOREM VaultTyped == Spec => []TypeOK
<1> QED BY InitTyped, NextTyped, PTL DEF Spec

--------------------------------------------------------------------------------
(* Allowances and what a trade takes *)

\* A running trade found no allowance and a listed router, and splits its amount
\* between what its router took and what it may still take; what any router may
\* pull of anything else is nothing.  NoStandingAllowance alone is not
\* inductive: a revert restores trade.before, of which it says nothing.
TradeInv ==
    /\ ~trade.on => allowance = NoAllowance
    /\ trade.on =>
         /\ trade.listed
         /\ trade.before.allowance = NoAllowance
         /\ trade.pulled[trade.tokenIn] + allowance[trade.router][trade.tokenIn]
              = trade.amount
         /\ \A t \in Tokens \ {trade.tokenIn} : trade.pulled[t] = 0
         /\ \A r \in Routers, t \in Tokens :
               allowance[r][t] # 0 => r = trade.router /\ t = trade.tokenIn

LEMMA InitTradeInv == Init => TradeInv
BY DEF Init, TradeInv, NoTrade

LEMMA PullTradeInv ==
    ASSUME TypeOK, TradeInv, NEW r \in Routers, NEW t \in Tokens,
           NEW n \in Nat \ {0}, Pull(r, t, n)
    PROVE  TradeInv'
<1>1. allowance[r] \in [Tokens -> Nat] BY DEF TypeOK, Allowances
<1>2. allowance[r][t] # 0
    BY <1>1 DEF Pull
<1>3. trade.on BY <1>2 DEF TradeInv, NoAllowance, Zero
<1>4. trade \in Trade BY <1>3 DEF TypeOK, NoTrade
<1>5. r = trade.router /\ t = trade.tokenIn BY <1>2, <1>3 DEF TradeInv
<1>6. trade' = [trade EXCEPT !.pulled = Plus(trade.pulled, t, n)]
    BY <1>3 DEF Pull
<1>7. /\ trade'.on /\ trade'.listed = trade.listed
      /\ trade'.before = trade.before /\ trade'.amount = trade.amount
      /\ trade'.router = trade.router /\ trade'.tokenIn = trade.tokenIn
      /\ trade'.pulled = Plus(trade.pulled, t, n)
    BY <1>3, <1>4, <1>6 DEF Trade
<1>8. trade.pulled \in [Tokens -> Nat] /\ trade.amount \in Nat
    BY <1>4 DEF Trade, Balances
<1>9. /\ trade'.pulled[t] = trade.pulled[t] + n
      /\ \A u \in Tokens \ {t} : trade'.pulled[u] = trade.pulled[u]
    BY <1>7, <1>8 DEF Plus
<1>10. allowance' = [allowance EXCEPT ![r] = Minus(allowance[r], t, n)]
    BY DEF Pull
<1>11. /\ allowance'[r] = Minus(allowance[r], t, n)
       /\ \A q \in Routers \ {r} : allowance'[q] = allowance[q]
    BY <1>10 DEF TypeOK, Allowances
<1>12. /\ allowance'[r][t] = allowance[r][t] - n
       /\ \A u \in Tokens \ {t} : allowance'[r][u] = allowance[r][u]
    BY <1>1, <1>11 DEF Minus
<1>13. trade'.pulled[t] + allowance'[r][t] = trade.pulled[t] + allowance[r][t]
    BY <1>1, <1>8, <1>9, <1>12
<1>14. \A q \in Routers, u \in Tokens :
          allowance'[q][u] # 0 => q = trade.router /\ u = trade.tokenIn
    BY <1>3, <1>5, <1>11, <1>12 DEF TradeInv
<1> QED BY <1>3, <1>5, <1>7, <1>9, <1>13, <1>14 DEF TradeInv

LEMMA StartTradeInv ==
    ASSUME TypeOK, TradeInv, NEW r \in Routers, NEW t \in Tokens,
           NEW n \in Nat, ExecuteTrade(r, t, n)
    PROVE  TradeInv'
<1>1. allowance = NoAllowance BY DEF ExecuteTrade, TradeInv
<1>2. /\ trade'.on /\ trade'.listed
      /\ trade'.before.allowance = NoAllowance /\ trade'.amount = n
      /\ trade'.router = r /\ trade'.tokenIn = t
      /\ trade'.pulled = Zero
    BY <1>1 DEF ExecuteTrade, StartTrade, Stored
<1>3. allowance' = [NoAllowance EXCEPT ![r] = [NoAllowance[r] EXCEPT ![t] = n]]
    BY <1>1 DEF ExecuteTrade, StartTrade
<1>4. /\ allowance'[r] = [Zero EXCEPT ![t] = n]
      /\ \A q \in Routers \ {r} : allowance'[q] = Zero
    BY <1>3 DEF NoAllowance
<1>5. /\ allowance'[r][t] = n
      /\ \A u \in Tokens \ {t} : allowance'[r][u] = 0
      /\ \A q \in Routers \ {r}, u \in Tokens : allowance'[q][u] = 0
    BY <1>4 DEF Zero
<1>6. \A u \in Tokens : Zero[u] = 0 BY DEF Zero
<1> QED BY <1>2, <1>5, <1>6 DEF TradeInv

LEMMA NextTradeInv == TypeOK /\ TradeInv /\ [Next]_vars => TradeInv'
<1> SUFFICES ASSUME TypeOK, TradeInv, [Next]_vars PROVE TradeInv' OBVIOUS
<1>1. ASSUME UNCHANGED <<allowance, trade>> PROVE TradeInv'
    BY <1>1 DEF TradeInv
<1>2. CASE OwnerStep
    BY <1>1, <1>2 DEF OwnerStep, Deposit, Mint, Withdraw, Redeem, MoveIn,
                      MoveOut, SetRouterWhitelisted
<1>3. ASSUME NEW n \in 1..MaxSupply, TransferShares(n) PROVE TradeInv'
    BY <1>1, <1>3 DEF TransferShares
<1>4. ASSUME NEW t \in Tokens, NEW n \in 1..MaxBalance, Receive(t, n)
      PROVE  TradeInv'
    BY <1>1, <1>4 DEF Receive
<1>5. ASSUME NEW r \in Routers, NEW t \in Tokens, NEW n \in 1..MaxBalance,
             Pull(r, t, n)
      PROVE  TradeInv'
    <2>1. n \in Nat \ {0} BY VaultAssumption
    <2> QED BY <1>5, <2>1, PullTradeInv
<1>6. ASSUME NEW r \in Routers, NEW t \in Tokens, NEW n \in 1..MaxBalance,
             ExecuteTrade(r, t, n)
      PROVE  TradeInv'
    <2>1. n \in Nat BY VaultAssumption
    <2> QED BY <1>6, <2>1, StartTradeInv
<1>7. CASE TradeReturns
    <2>1. trade \in Trade BY <1>7 DEF TradeReturns, TypeOK, NoTrade
    <2>2. trade.router \in Routers /\ trade.tokenIn \in Tokens
        BY <2>1 DEF Trade
    <2>3. ~trade'.on BY <1>7 DEF TradeReturns, NoTrade
    <2>4. \A r \in Routers : allowance'[r] \in [Tokens -> Nat]
        BY <1>7, <2>2 DEF TradeReturns, TypeOK, Allowances
    <2>5. \A r \in Routers, t \in Tokens : allowance'[r][t] = 0
        BY <1>7, <2>2 DEF TradeReturns, TypeOK, TradeInv, Allowances
    <2>6. \A r \in Routers : allowance'[r] = Zero
        BY <2>4, <2>5 DEF Zero
    <2>7. allowance' \in [Routers -> [Tokens -> Nat]]
        BY <1>7, <2>2 DEF TradeReturns, TypeOK, Allowances
    <2>8. allowance' = NoAllowance
        BY <2>6, <2>7 DEF NoAllowance
    <2> QED BY <2>3, <2>8 DEF TradeInv
<1>8. CASE TradeReverts
    BY <1>8 DEF TradeReverts, TradeInv, NoTrade
<1>9. CASE UNCHANGED vars
    BY <1>1, <1>9 DEF vars
<1> QED BY <1>2, <1>3, <1>4, <1>5, <1>6, <1>7, <1>8, <1>9 DEF Next

LEMMA TradeInvHolds == Spec => [](TypeOK /\ TradeInv)
<1> QED BY InitTyped, NextTyped, InitTradeInv, NextTradeInv, PTL DEF Spec

\* executeTrade's "reset allowance" works on every path: no router can pull
\* anything once the trade it was called for is over.
THEOREM AllowanceEndsWithTrade == Spec => []NoStandingAllowance
<1>1. TypeOK /\ TradeInv => NoStandingAllowance
    BY DEF TypeOK, TradeInv, NoStandingAllowance, NoAllowance, Zero
<1> QED BY <1>1, TradeInvHolds, PTL

\* A trade takes at most its amount, for any sequence of transfers a router
\* splits it into.
THEOREM TradeTakesAtMostAmount == Spec => []TradeBounded
<1>1. TypeOK /\ TradeInv => TradeBounded
    <2> SUFFICES ASSUME TypeOK, TradeInv, trade.on PROVE TradeBounded
        BY DEF TradeBounded
    <2>1. trade \in Trade BY DEF TypeOK, NoTrade
    <2>2. /\ trade.router \in Routers /\ trade.tokenIn \in Tokens
          /\ trade.pulled \in [Tokens -> Nat] /\ trade.amount \in Nat
        BY <2>1 DEF Trade, Balances
    <2>3. allowance[trade.router][trade.tokenIn] \in Nat
        BY <2>2 DEF TypeOK, Allowances
    <2> QED BY <2>2, <2>3 DEF TradeInv, TradeBounded
<1> QED BY <1>1, TradeInvHolds, PTL

--------------------------------------------------------------------------------
(* The worth of a share *)

\* Shares issued for no more than their worth leave the worth of the others as
\* it was, or better: the cross product of balances and supplies says so.
LEMMA IssueAtWorth ==
    ASSUME NEW T \in Nat, NEW S \in Nat, NEW a \in Nat, NEW sh \in Nat,
           sh * (T + 1) <= a * (S + 1)
    PROVE  (T + 1) * (S + sh + 1) <= (T + a + 1) * (S + 1)
<1>1. (T + 1) * (S + sh + 1) = (T + 1) * (S + 1) + sh * (T + 1) OBVIOUS
<1>2. (T + a + 1) * (S + 1) = (T + 1) * (S + 1) + a * (S + 1) OBVIOUS
<1>3. /\ (T + 1) * (S + 1) \in Int
      /\ sh * (T + 1) \in Int /\ a * (S + 1) \in Int
    OBVIOUS
<1> QED BY <1>1, <1>2, <1>3

\* The same for shares burned for no less than their worth.
LEMMA BurnAtWorth ==
    ASSUME NEW T \in Nat, NEW S \in Nat, NEW a \in Nat, NEW sh \in Nat,
           a * (S + 1) <= sh * (T + 1)
    PROVE  (T + 1) * (S - sh + 1) <= (T - a + 1) * (S + 1)
<1>1. (T + 1) * (S - sh + 1) = (T + 1) * (S + 1) - sh * (T + 1) OBVIOUS
<1>2. (T - a + 1) * (S + 1) = (T + 1) * (S + 1) - a * (S + 1) OBVIOUS
<1>3. /\ (T + 1) * (S + 1) \in Int
      /\ sh * (T + 1) \in Int /\ a * (S + 1) \in Int
    OBVIOUS
<1> QED BY <1>1, <1>2, <1>3

\* The worth of a share does not fall: what SharePriceHolds forbids, negated.
PriceKept == (bal[Asset] + 1) * (supply' + 1) <= (bal'[Asset] + 1) * (supply + 1)

LEMMA MoveInKeepsPrice ==
    ASSUME TypeOK, NEW a \in Nat, NEW sh \in Nat, NEW toOwner \in BOOLEAN,
           sh * (bal[Asset] + 1) <= a * (supply + 1), MoveIn(a, sh, toOwner)
    PROVE  PriceKept
<1>1. bal[Asset] \in Nat /\ supply \in Nat
    BY VaultAssumption DEF TypeOK, Balances, supply
<1>2. bal'[Asset] = bal[Asset] + a
    BY VaultAssumption DEF MoveIn, Plus, TypeOK, Balances
<1>3. supply' = supply + sh
    <2>1. CASE toOwner BY <2>1 DEF MoveIn, TypeOK, supply
    <2>2. CASE ~toOwner BY <2>2 DEF MoveIn, TypeOK, supply
    <2> QED BY <2>1, <2>2
<1> QED BY <1>1, <1>2, <1>3, IssueAtWorth DEF PriceKept

LEMMA MoveOutKeepsPrice ==
    ASSUME TypeOK, NEW a \in Nat, NEW sh \in Nat,
           a * (supply + 1) <= sh * (bal[Asset] + 1), MoveOut(a, sh)
    PROVE  PriceKept
<1>1. bal[Asset] \in Nat /\ supply \in Nat
    BY VaultAssumption DEF TypeOK, Balances, supply
<1>2. bal'[Asset] = bal[Asset] - a
    BY VaultAssumption DEF MoveOut, Minus, TypeOK, Balances
<1>3. supply' = supply - sh
    BY DEF MoveOut, TypeOK, supply
<1> QED BY <1>1, <1>2, <1>3, BurnAtWorth DEF PriceKept

\* A step that costs the shares is a router's, or the end of a trade.
LEMMA OnlyTradesCost ==
    ASSUME TypeOK, TradeInv, [Next]_vars
    PROVE  PriceKept \/ (trade.on /\ (trade'.on => trade'.pulled # trade.pulled))
<1>1. bal[Asset] \in Nat /\ supply \in Nat
    BY VaultAssumption DEF TypeOK, Balances, supply
<1>2. ASSUME bal'[Asset] = bal[Asset], supply' = supply PROVE PriceKept
    <2>1. (bal[Asset] + 1) * (supply + 1) \in Int BY <1>1
    <2> QED BY <1>2, <2>1 DEF PriceKept
<1>3. 1..MaxBalance \subseteq Nat /\ 1..MaxSupply \subseteq Nat
    OBVIOUS
<1>4. ASSUME NEW n \in Nat, NEW toOwner \in BOOLEAN, Deposit(n, toOwner)
      PROVE  PriceKept
    BY <1>4, Conversions, MoveInKeepsPrice DEF Deposit
<1>5. ASSUME NEW n \in Nat, NEW toOwner \in BOOLEAN, Mint(n, toOwner)
      PROVE  PriceKept
    BY <1>5, Conversions, MoveInKeepsPrice DEF Mint
<1>6. ASSUME NEW n \in Nat, Withdraw(n) PROVE PriceKept
    BY <1>6, Conversions, MoveOutKeepsPrice DEF Withdraw
<1>7. ASSUME NEW n \in Nat, Redeem(n) PROVE PriceKept
    BY <1>7, Conversions, MoveOutKeepsPrice DEF Redeem
<1>8. ASSUME NEW r \in Routers, NEW b \in BOOLEAN, SetRouterWhitelisted(r, b)
      PROVE  PriceKept
    BY <1>2, <1>8 DEF SetRouterWhitelisted, supply
<1>9. ASSUME NEW n \in Nat, TransferShares(n) PROVE PriceKept
    BY <1>2, <1>9 DEF TransferShares, TypeOK, supply
<1>10. ASSUME NEW t \in Tokens, NEW n \in Nat, Receive(t, n) PROVE PriceKept
    <2>1. supply' = supply BY <1>10 DEF Receive, supply
    <2>2. CASE t # Asset
        BY <1>2, <1>10, <2>1, <2>2, VaultAssumption
        DEF Receive, Plus, TypeOK, Balances
    <2>3. CASE t = Asset
        <3>1. bal'[Asset] = bal[Asset] + n
            BY <1>10, <2>3, VaultAssumption DEF Receive, Plus, TypeOK, Balances
        <3>2. (bal[Asset] + n + 1) * (supply + 1)
                = (bal[Asset] + 1) * (supply + 1) + n * (supply + 1)
            BY <1>1
        <3>3. n * (supply + 1) >= 0 /\ (bal[Asset] + 1) * (supply + 1) \in Int
            BY <1>1
        <3> QED BY <1>1, <2>1, <3>1, <3>2, <3>3 DEF PriceKept
    <2> QED BY <2>2, <2>3
<1>11. ASSUME NEW r \in Routers, NEW t \in Tokens, NEW n \in 1..MaxBalance,
              Pull(r, t, n)
       PROVE  trade.on /\ trade'.pulled # trade.pulled
    <2>1. n \in Nat /\ n >= 1 BY VaultAssumption
    <2>2. trade.on
        BY <1>11, <2>1 DEF Pull, TradeInv, NoAllowance, Zero
    <2>3. trade \in Trade BY <2>2 DEF TypeOK, NoTrade
    <2>4. trade.pulled \in [Tokens -> Nat] BY <2>3 DEF Trade, Balances
    <2>5. trade'.pulled = Plus(trade.pulled, t, n)
        BY <1>11, <2>2, <2>3 DEF Pull, Trade
    <2>6. Plus(trade.pulled, t, n)[t] = trade.pulled[t] + n
        BY <2>4 DEF Plus
    <2>7. trade.pulled[t] \in Nat BY <2>4
    <2> QED BY <2>1, <2>2, <2>5, <2>6, <2>7
<1>12. ASSUME NEW r \in Routers, NEW t \in Tokens, NEW n \in Nat,
              ExecuteTrade(r, t, n)
       PROVE  PriceKept
    BY <1>2, <1>12 DEF ExecuteTrade, StartTrade, supply
<1>13. ASSUME TradeReturns \/ TradeReverts PROVE trade.on /\ ~trade'.on
    BY <1>13 DEF TradeReturns, TradeReverts, NoTrade
<1>14. CASE UNCHANGED vars
    BY <1>2, <1>14 DEF vars, supply
<1>15. CASE OwnerStep
    BY <1>3, <1>4, <1>5, <1>6, <1>7, <1>8, <1>15 DEF OwnerStep
<1>16. CASE Next
    BY <1>3, <1>9, <1>10, <1>11, <1>12, <1>13, <1>15, <1>16 DEF Next
<1> QED BY <1>14, <1>16

\* Only a router's takings and the undoing of a trade cost the shareholders
\* anything: every other call, with any amounts and also under a router's call,
\* leaves a share worth at least what it was.
THEOREM OnlyTradesCostShareholders == Spec => SharePriceHolds
<1>1. ASSUME TypeOK, TypeOK'
      PROVE  /\ (bal'[Asset] + 1) * (supply + 1) \in Int
             /\ (bal[Asset] + 1) * (supply' + 1) \in Int
    <2>1. bal[Asset] \in Nat /\ bal'[Asset] \in Nat
        BY <1>1, VaultAssumption DEF TypeOK, Balances
    <2>2. own' \in Nat /\ others' \in Nat
        BY <1>1 DEF TypeOK
    <2>3. supply \in Nat
        BY <1>1 DEF TypeOK, supply
    <2>4. ASSUME NEW x \in Nat, NEW y \in Nat PROVE x + y \in Nat
        OBVIOUS
    <2>5. supply' \in Nat
        BY <2>2, <2>4, Zenon DEF supply
    <2> QED BY <2>1, <2>3, <2>5
<1>2. ASSUME TypeOK, TradeInv, [Next]_vars
      PROVE  [(bal'[Asset] + 1) * (supply + 1) < (bal[Asset] + 1) * (supply' + 1)
                => trade.on /\ (trade'.on => trade'.pulled # trade.pulled)]_vars
    <2>1. TypeOK' BY <1>2, NextTyped
    <2>2. PriceKept \/ (trade.on /\ (trade'.on => trade'.pulled # trade.pulled))
        BY <1>2, OnlyTradesCost
    <2>3. PriceKept => ~((bal'[Asset] + 1) * (supply + 1) < (bal[Asset] + 1) * (supply' + 1))
        BY <1>1, <1>2, <2>1 DEF PriceKept
    <2> QED BY <2>2, <2>3
<1> QED BY <1>2, TradeInvHolds, PTL DEF Spec, SharePriceHolds

--------------------------------------------------------------------------------
(* The vault with its trades in one step *)

LEMMA RunningTrade ==
    ASSUME TypeOK, trade.on
    PROVE  /\ trade \in Trade
           /\ trade.router \in Routers /\ trade.tokenIn \in Tokens /\ trade.amount \in Nat
           /\ trade.before.bal \in Balances /\ trade.pulled \in Balances
<1>1. trade \in Trade BY DEF TypeOK, NoTrade
<1> QED BY <1>1 DEF Trade

LEMMA VaultStarts == Init => Ledger!VaultInit
<1> SUFFICES ASSUME Init PROVE Ledger!VaultInit OBVIOUS
<1>1. ~trade.on BY DEF Init, NoTrade
<1>2. PendingFunds = [t \in Tokens |-> 0] BY <1>1 DEF PendingFunds, Init, Zero
<1>3. OpenOrder = Ledger!NoOrder BY <1>1 DEF OpenOrder, Ledger!NoOrder
<1> QED BY <1>2, <1>3 DEF Init, Ledger!VaultInit

\* What routers took of token t in the running trade: what TradeInv leaves to
\* the order.
Missing(t) == IF trade.on THEN trade.pulled[t] ELSE 0

LEMMA MissingIs ==
    ASSUME TypeOK, TradeInv, NEW t \in Tokens
    PROVE  /\ Missing(t) \in Nat /\ bal[t] \in Nat
           /\ Ledger!Taking(t) \in Nat /\ Missing(t) <= Ledger!Taking(t)
           /\ PendingFunds[t] = bal[t] + Missing(t)
<1>1. bal[t] \in Nat BY DEF TypeOK, Balances
<1>2. CASE ~trade.on
    BY <1>1, <1>2 DEF Missing, PendingFunds, OpenOrder, Ledger!Taking
<1>3. CASE trade.on
    <2>1. /\ trade.router \in Routers /\ trade.tokenIn \in Tokens /\ trade.amount \in Nat
          /\ trade.pulled \in Balances
        BY <1>3, RunningTrade
    <2>2. trade.pulled[t] \in Nat BY <2>1 DEF Balances
    <2>3. PendingFunds[t] = bal[t] + trade.pulled[t] BY <1>3 DEF PendingFunds
    <2>4. Ledger!Taking(t) = IF t = trade.tokenIn THEN trade.amount ELSE 0
        BY <1>3 DEF OpenOrder, Ledger!Taking
    <2>5. trade.pulled[t] <= IF t = trade.tokenIn THEN trade.amount ELSE 0
        <3>1. CASE t = trade.tokenIn
            <4>1. trade.pulled[t] + allowance[trade.router][t] = trade.amount
                BY <1>3, <3>1 DEF TradeInv
            <4>2. allowance[trade.router][t] \in Nat BY <2>1 DEF TypeOK, Allowances
            <4> QED BY <2>1, <2>2, <3>1, <4>1, <4>2
        <3>2. CASE t # trade.tokenIn BY <1>3, <3>2 DEF TradeInv
        <3> QED BY <3>1, <3>2
    <2>6. Ledger!Taking(t) \in Nat BY <2>1, <2>4
    <2> QED BY <1>1, <1>3, <2>2, <2>3, <2>4, <2>5, <2>6 DEF Missing
<1> QED BY <1>2, <1>3

\* A call that leaves the trade alone leaves the order alone, and moves the
\* pending funds as it moves the balances.
LEMMA CallIsSeen ==
    ASSUME TypeOK, TypeOK', trade' = trade
    PROVE  /\ OpenOrder' = OpenOrder
           /\ \A t \in Tokens : PendingFunds'[t] = bal'[t] + Missing(t)
<1>1. OpenOrder' = OpenOrder
    <2>1. CASE trade.on BY <2>1 DEF OpenOrder
    <2>2. CASE ~trade.on BY <2>2 DEF OpenOrder
    <2> QED BY <2>1, <2>2
<1>2. ASSUME NEW t \in Tokens PROVE PendingFunds'[t] = bal'[t] + Missing(t)
    <2>1. bal'[t] \in Nat BY DEF TypeOK, Balances
    <2>2. CASE trade.on BY <2>2 DEF PendingFunds, Missing
    <2>3. CASE ~trade.on BY <2>1, <2>3 DEF PendingFunds, Missing
    <2> QED BY <2>2, <2>3
<1> QED BY <1>1, <1>2

LEMMA PendingIsFunction == TypeOK => DOMAIN PendingFunds = Tokens /\ PendingFunds = [t \in Tokens |-> PendingFunds[t]]
BY DEF TypeOK, Balances, PendingFunds

LEMMA PendingMovesIn ==
    ASSUME TypeOK, TypeOK', TradeInv, trade' = trade,
           \A t \in Tokens \ {Asset} : bal'[t] = bal[t]
    PROVE  PendingFunds' = [PendingFunds EXCEPT ![Asset] = PendingFunds'[Asset]]
<1>1. \A t \in Tokens \ {Asset} : PendingFunds'[t] = PendingFunds[t]
    BY MissingIs, CallIsSeen
<1>2. PendingFunds = [t \in Tokens |-> PendingFunds[t]] BY PendingIsFunction
<1>3. PendingFunds' = [t \in Tokens |-> PendingFunds'[t]] BY DEF TypeOK, Balances, PendingFunds
<1>4. PICK x : x = PendingFunds'[Asset] OBVIOUS
<1>5. [PendingFunds EXCEPT ![Asset] = x] = [t \in Tokens |-> PendingFunds'[t]]
    BY <1>1, <1>2, <1>4
<1> QED BY <1>3, <1>4, <1>5

\* An exchange at the worth of a share is one in the ledger, with what the
\* routers took missing from the worth.
LEMMA KeptPriceIsExchange ==
    ASSUME TypeOK, TypeOK', TradeInv, PriceKept, trade' = trade, whitelist' = whitelist,
           \A t \in Tokens \ {Asset} : bal'[t] = bal[t], others' >= others
    PROVE  Ledger!Exchange
<1>1. PendingFunds' = [PendingFunds EXCEPT ![Asset] = PendingFunds'[Asset]]
    BY PendingMovesIn
<1>2. own' >= 0 BY DEF TypeOK
<1> DEFINE m == Missing(Asset)
<1>3. /\ m \in Nat /\ bal[Asset] \in Nat /\ Ledger!Taking(Asset) \in Nat
      /\ m <= Ledger!Taking(Asset) /\ PendingFunds[Asset] = bal[Asset] + m
    BY MissingIs, VaultAssumption
<1>4. bal'[Asset] \in Nat /\ PendingFunds'[Asset] = bal'[Asset] + m /\ OpenOrder' = OpenOrder
    BY CallIsSeen, VaultAssumption DEF TypeOK, Balances
<1>5. m \in 0..Ledger!Taking(Asset) BY <1>3
<1>6. PendingFunds[Asset] - m = bal[Asset] /\ PendingFunds'[Asset] - m = bal'[Asset]
    BY <1>3, <1>4
<1>7. m <= PendingFunds[Asset] /\ m <= PendingFunds'[Asset]
    BY <1>3, <1>4
<1>8. (PendingFunds[Asset] - m + 1) * (own' + others' + 1)
        <= (PendingFunds'[Asset] - m + 1) * (own + others + 1)
    BY <1>6 DEF PriceKept, supply
<1> HIDE DEF m
<1>9. \E missing \in 0..Ledger!Taking(Asset) :
         /\ missing <= PendingFunds[Asset] /\ missing <= PendingFunds'[Asset]
         /\ (PendingFunds[Asset] - missing + 1) * (own' + others' + 1)
              <= (PendingFunds'[Asset] - missing + 1) * (own + others + 1)
    BY <1>5, <1>7, <1>8
<1> QED BY <1>1, <1>2, <1>4, <1>9 DEF Ledger!Exchange

LEMMA MoveInIsExchange ==
    ASSUME TypeOK, TradeInv, NEW a \in Nat, NEW sh \in Nat, NEW toOwner \in BOOLEAN,
           sh * (bal[Asset] + 1) <= a * (supply + 1), MoveIn(a, sh, toOwner)
    PROVE  Ledger!Exchange
<1>1. PriceKept /\ TypeOK' BY MoveInKeepsPrice, MoveInTyped
<1>2. trade' = trade /\ whitelist' = whitelist BY DEF MoveIn
<1>3. \A t \in Tokens \ {Asset} : bal'[t] = bal[t]
    BY DEF TypeOK, Balances, MoveIn, Plus
<1>4. others' >= others
    <2>1. CASE toOwner BY <2>1 DEF MoveIn, TypeOK
    <2>2. CASE ~toOwner BY <2>2 DEF MoveIn, TypeOK
    <2> QED BY <2>1, <2>2
<1> QED BY <1>1, <1>2, <1>3, <1>4, KeptPriceIsExchange

LEMMA MoveOutIsExchange ==
    ASSUME TypeOK, TradeInv, NEW a \in Nat, NEW sh \in Nat, a <= bal[Asset], sh <= own,
           a * (supply + 1) <= sh * (bal[Asset] + 1), MoveOut(a, sh)
    PROVE  Ledger!Exchange
<1>1. PriceKept /\ TypeOK' BY MoveOutKeepsPrice, MoveOutTyped
<1>2. trade' = trade /\ whitelist' = whitelist BY DEF MoveOut
<1>3. \A t \in Tokens \ {Asset} : bal'[t] = bal[t]
    BY DEF TypeOK, Balances, MoveOut, Minus
<1>4. others' >= others BY DEF MoveOut, TypeOK
<1> QED BY <1>1, <1>2, <1>3, <1>4, KeptPriceIsExchange

LEMMA OwnerStepIsSeen == TypeOK /\ TradeInv /\ OwnerStep => Ledger!VaultNext
<1> SUFFICES ASSUME TypeOK, TradeInv, OwnerStep PROVE Ledger!VaultNext OBVIOUS
<1>1. 1..MaxBalance \subseteq Nat /\ 1..MaxSupply \subseteq Nat
    OBVIOUS
<1>2. ASSUME NEW n \in Nat, NEW toOwner \in BOOLEAN, Deposit(n, toOwner)
      PROVE  Ledger!Exchange
    BY <1>2, Conversions, MoveInIsExchange DEF Deposit
<1>3. ASSUME NEW n \in Nat, NEW toOwner \in BOOLEAN, Mint(n, toOwner)
      PROVE  Ledger!Exchange
    BY <1>3, Conversions, MoveInIsExchange DEF Mint
<1>4. ASSUME NEW n \in Nat, Withdraw(n) PROVE Ledger!Exchange
    <2>1. own \in Nat /\ bal[Asset] \in Nat BY VaultAssumption DEF TypeOK, Balances
    <2>2. AssetsDown(own) \in Nat /\ AssetsDown(own) <= bal[Asset]
        BY <2>1, Conversions, RedeemCovered
    <2>3. n <= AssetsDown(own) /\ MoveOut(n, SharesUp(n)) BY <1>4 DEF Withdraw
    <2>4. n <= bal[Asset] BY <2>1, <2>2, <2>3
    <2>5. SharesUp(n) \in Nat /\ n * (supply + 1) <= SharesUp(n) * (bal[Asset] + 1)
        BY Conversions
    <2>6. SharesUp(n) <= own BY <2>3, WithdrawCovered
    <2> QED BY <2>3, <2>4, <2>5, <2>6, MoveOutIsExchange
<1>5. ASSUME NEW n \in Nat, Redeem(n) PROVE Ledger!Exchange
    <2>1. n <= own /\ MoveOut(AssetsDown(n), n) BY <1>5 DEF Redeem
    <2>2. AssetsDown(n) \in Nat /\ AssetsDown(n) * (supply + 1) <= n * (bal[Asset] + 1)
        BY Conversions
    <2>3. AssetsDown(n) <= bal[Asset] BY <2>1, RedeemCovered
    <2> QED BY <2>1, <2>2, <2>3, MoveOutIsExchange
<1>6. ASSUME NEW r \in Routers, NEW b \in BOOLEAN, SetRouterWhitelisted(r, b)
      PROVE  Ledger!Choose
    <2>1. trade' = trade /\ bal' = bal /\ UNCHANGED <<own, others>>
        BY <1>6 DEF SetRouterWhitelisted
    <2>2. whitelist' \in SUBSET Routers
        <3>1. CASE b BY <1>6, <3>1 DEF SetRouterWhitelisted, TypeOK
        <3>2. CASE ~b BY <1>6, <3>2 DEF SetRouterWhitelisted, TypeOK
        <3> QED BY <3>1, <3>2
    <2>3. PendingFunds' = PendingFunds /\ OpenOrder' = OpenOrder
        BY <2>1 DEF PendingFunds, OpenOrder
    <2> QED BY <2>1, <2>2, <2>3 DEF Ledger!Choose
<1> QED BY <1>1, <1>2, <1>3, <1>4, <1>5, <1>6 DEF OwnerStep, Ledger!VaultNext

LEMMA VaultSteps ==
    TypeOK /\ TypeOK' /\ TradeInv /\ [Next]_vars => [Ledger!VaultNext]_Ledger!vaultVars
<1> SUFFICES ASSUME TypeOK, TypeOK', TradeInv, [Next]_vars
             PROVE  Ledger!VaultNext \/ UNCHANGED Ledger!vaultVars
    OBVIOUS
<1>1. CASE OwnerStep BY <1>1, OwnerStepIsSeen
<1>2. ASSUME NEW n \in 1..MaxSupply, TransferShares(n) PROVE Ledger!PassOn
    <2>1. trade' = trade /\ bal' = bal /\ whitelist' = whitelist
        BY <1>2 DEF TransferShares
    <2>2. own' >= 0 /\ others' >= 0 /\ own' + others' = own + others
        <3>1. n \in Nat BY VaultAssumption
        <3>2. own \in Nat /\ others \in Nat BY DEF TypeOK
        <3>3. \/ n <= own /\ own' = own - n /\ others' = others + n
              \/ n <= others /\ own' = own + n /\ others' = others - n
            BY <1>2 DEF TransferShares
        <3> QED BY <3>1, <3>2, <3>3
    <2>3. PendingFunds' = PendingFunds /\ OpenOrder' = OpenOrder
        BY <2>1 DEF PendingFunds, OpenOrder
    <2> QED BY <2>1, <2>2, <2>3 DEF Ledger!PassOn
<1>3. ASSUME NEW t \in Tokens, NEW n \in 1..MaxBalance, Receive(t, n)
      PROVE  Ledger!Gift
    <2>1. trade' = trade /\ UNCHANGED <<own, others, whitelist>>
        BY <1>3 DEF Receive
    <2>2. n \in Nat BY VaultAssumption
    <2>3. \A u \in Tokens : bal'[u] = IF u = t THEN bal[u] + n ELSE bal[u]
        BY <1>3 DEF Receive, Plus, TypeOK, Balances
    <2>4. ASSUME NEW u \in Tokens PROVE PendingFunds'[u] >= PendingFunds[u]
        <3>1. /\ bal[u] \in Nat /\ Missing(u) \in Nat
              /\ PendingFunds[u] = bal[u] + Missing(u)
            BY MissingIs
        <3>2. PendingFunds'[u] = bal'[u] + Missing(u) BY <2>1, CallIsSeen
        <3>3. bal'[u] >= bal[u] /\ bal'[u] \in Nat BY <2>2, <2>3, <3>1
        <3> QED BY <3>1, <3>2, <3>3
    <2>5. OpenOrder' = OpenOrder BY <2>1, CallIsSeen
    <2> QED BY <2>1, <2>4, <2>5 DEF Ledger!Gift
<1>4. ASSUME NEW r \in Routers, NEW t \in Tokens, NEW n \in 1..MaxBalance,
             Pull(r, t, n)
      PROVE  UNCHANGED Ledger!vaultVars
    <2>1. n \in Nat /\ n >= 1 BY VaultAssumption
    <2>2. trade.on
        BY <1>4, <2>1 DEF Pull, TradeInv, NoAllowance, Zero
    <2>3. trade \in Trade /\ trade.pulled \in Balances BY <2>2, RunningTrade
    <2>4. trade' = [trade EXCEPT !.pulled = Plus(trade.pulled, t, n)]
        BY <1>4, <2>2 DEF Pull
    <2>5. /\ trade'.on /\ trade'.before = trade.before /\ trade'.router = trade.router
          /\ trade'.tokenIn = trade.tokenIn /\ trade'.amount = trade.amount
          /\ trade'.pulled = Plus(trade.pulled, t, n)
        BY <2>2, <2>3, <2>4 DEF Trade
    <2>6. OpenOrder' = OpenOrder BY <2>2, <2>5 DEF OpenOrder
    <2>7. ASSUME NEW u \in Tokens
          PROVE  bal'[u] + trade'.pulled[u] = bal[u] + trade.pulled[u]
        <3>1. bal[u] \in Nat /\ trade.pulled[u] \in Nat
            BY <2>3 DEF TypeOK, Balances
        <3>2. /\ bal'[u] = IF u = t THEN bal[u] - n ELSE bal[u]
              /\ trade'.pulled[u] = IF u = t THEN trade.pulled[u] + n ELSE trade.pulled[u]
            BY <1>4, <2>3, <2>5 DEF Pull, Plus, Minus, TypeOK, Balances
        <3> QED BY <2>1, <3>1, <3>2
    <2>8. PendingFunds' = PendingFunds BY <2>2, <2>5, <2>7 DEF PendingFunds
    <2> QED BY <1>4, <2>6, <2>8 DEF Pull, Ledger!vaultVars
<1>5. ASSUME NEW r \in Routers, NEW t \in Tokens, NEW n \in 1..MaxBalance,
             ExecuteTrade(r, t, n)
      PROVE  Ledger!Order
    <2>1. /\ ~trade.on /\ r \in whitelist /\ n <= bal[t]
          /\ UNCHANGED <<bal, own, others, whitelist>>
        BY <1>5 DEF ExecuteTrade, StartTrade
    <2>2. /\ trade'.on /\ trade'.router = r /\ trade'.tokenIn = t
          /\ trade'.amount = n /\ trade'.before = Stored /\ trade'.pulled = Zero
        BY <1>5 DEF ExecuteTrade, StartTrade
    <2>3. PendingFunds = bal /\ ~OpenOrder.open
        BY <2>1 DEF PendingFunds, OpenOrder
    <2>4. PendingFunds' = bal
        <3>1. \A u \in Tokens : bal[u] + Zero[u] = bal[u]
            BY DEF TypeOK, Balances, Zero
        <3>2. PendingFunds' = [u \in Tokens |-> bal[u] + Zero[u]]
            BY <2>1, <2>2 DEF PendingFunds
        <3> QED BY <3>1, <3>2 DEF TypeOK, Balances
    <2>5. OpenOrder' = [open |-> TRUE, router |-> r, token |-> t, amount |-> n,
                        saved |-> [funds |-> bal, own |-> own, others |-> others,
                                   whitelist |-> whitelist]]
        BY <2>2 DEF OpenOrder, Stored
    <2>6. 0 < n BY VaultAssumption
    <2> QED BY <2>1, <2>3, <2>4, <2>5, <2>6 DEF Ledger!Order, Ledger!Saved
<1>6. ASSUME TradeReturns PROVE Ledger!Settle
    <2>1. trade.on /\ trade' = NoTrade /\ UNCHANGED <<bal, own, others, whitelist>>
        BY <1>6 DEF TradeReturns
    <2>2. OpenOrder.open BY <2>1 DEF OpenOrder
    <2>3. OpenOrder' = [open |-> FALSE] /\ PendingFunds' = bal
        BY <2>1 DEF OpenOrder, PendingFunds, NoTrade
    <2>4. ASSUME NEW t \in Tokens
          PROVE  bal[t] <= PendingFunds[t] /\ bal[t] >= PendingFunds[t] - Ledger!Taking(t)
        BY MissingIs
    <2> QED BY <2>1, <2>2, <2>3, <2>4 DEF Ledger!Settle, Ledger!NoOrder
<1>7. ASSUME TradeReverts PROVE Ledger!Fail
    <2>1. /\ trade.on /\ trade' = NoTrade /\ bal' = trade.before.bal
          /\ own' = trade.before.own /\ others' = trade.before.others
          /\ whitelist' = trade.before.whitelist
        BY <1>7 DEF TradeReverts
    <2>2. /\ OpenOrder.open
          /\ OpenOrder.saved = [funds |-> trade.before.bal, own |-> trade.before.own,
                                others |-> trade.before.others, whitelist |-> trade.before.whitelist]
        BY <2>1 DEF OpenOrder
    <2>3. OpenOrder' = [open |-> FALSE] /\ PendingFunds' = bal'
        BY <2>1 DEF OpenOrder, PendingFunds, NoTrade
    <2> QED BY <2>1, <2>2, <2>3 DEF Ledger!Fail, Ledger!NoOrder
<1>8. CASE UNCHANGED vars
    BY <1>8 DEF vars, PendingFunds, OpenOrder, Ledger!vaultVars
<1> QED BY <1>1, <1>2, <1>3, <1>4, <1>5, <1>6, <1>7, <1>8 DEF Next, Ledger!VaultNext

\* For every amount, router and order of transfers and of calls back into the
\* vault: a trade takes what it takes as if in one step and within its order, or
\* is undone with all that was done under it, and the funds belong to the shares.
THEOREM VaultIsAtomic == Spec => ImplementsAtomicVault
<1>1. TypeOK /\ TradeInv /\ TypeOK' /\ [Next]_vars => [Ledger!VaultNext]_Ledger!vaultVars
    BY VaultSteps
<1> QED BY <1>1, VaultStarts, TradeInvHolds, PTL
        DEF Spec, ImplementsAtomicVault, Ledger!VaultSpec

--------------------------------------------------------------------------------
(* The factory: types *)

LEMMA FactoryInitTyped == FactoryInit => FactoryTypeOK
<1> SUFFICES ASSUME FactoryInit PROVE FactoryTypeOK OBVIOUS
<1>1. boot \in Seq(Dexes)
    <2>1. PICK n \in 0..MaxRouters : boot \in [1..n -> Dexes] BY DEF FactoryInit
    <2>2. n \in Nat BY FactoryAssumption
    <2> QED BY <2>1, <2>2, IsASeq
<1>2. /\ globalRouters \in Seq(Dexes) /\ allVaults \in Seq(Nat)
      /\ vaultOwner \in Seq(Accounts) /\ whitelisted \in Seq(SUBSET Dexes)
    BY DEF FactoryInit
<1>3. vaultOf \in [Accounts -> Nat] BY DEF FactoryInit, NoVault
<1> QED BY <1>1, <1>2, <1>3 DEF FactoryInit, FactoryTypeOK

LEMMA AppendTyped ==
    ASSUME NEW S, NEW s \in Seq(S), NEW e \in S
    PROVE  /\ Append(s, e) \in Seq(S)
           /\ Len(Append(s, e)) = Len(s) + 1
           /\ \A i \in 1..Len(s) : Append(s, e)[i] = s[i]
           /\ Append(s, e)[Len(s) + 1] = e
OBVIOUS

\* The array a removal leaves: one element shorter, the removed place filled by
\* the last element.
LEMMA SwapPopTyped ==
    ASSUME NEW S, NEW s \in Seq(S), NEW i \in 1..Len(s)
    PROVE  /\ SwapPop(s, i) \in Seq(S)
           /\ Len(SwapPop(s, i)) = Len(s) - 1
           /\ \A j \in 1..(Len(s) - 1) :
                 SwapPop(s, i)[j] = IF j = i THEN s[Len(s)] ELSE s[j]
<1>1. Len(s) \in Nat /\ Len(s) - 1 \in Nat OBVIOUS
<1>2. \A j \in 1..(Len(s) - 1) :
          (IF j = i THEN s[Len(s)] ELSE s[j]) \in S
    OBVIOUS
<1>3. SwapPop(s, i) \in [1..(Len(s) - 1) -> S]
    BY <1>2 DEF SwapPop
<1>4. SwapPop(s, i) \in Seq(S)
    BY <1>1, <1>3, IsASeq
<1>5. DOMAIN SwapPop(s, i) = 1..(Len(s) - 1) BY DEF SwapPop
<1>6. Len(SwapPop(s, i)) = Len(s) - 1
    BY <1>1, <1>4, <1>5, LenProperties
<1> QED BY <1>4, <1>6 DEF SwapPop

LEMMA FactoryNextTyped == FactoryTypeOK /\ [FactoryNext]_factoryVars => FactoryTypeOK'
<1> SUFFICES ASSUME FactoryTypeOK, [FactoryNext]_factoryVars PROVE FactoryTypeOK' OBVIOUS
<1>1. CASE BootstrapGlobalRouter
    <2>1. boot' \in Seq(Dexes)
        BY <1>1, HeadTailProperties DEF BootstrapGlobalRouter, FactoryTypeOK
    <2>2. PICK r \in Dexes : r = Head(boot)
        BY <1>1, HeadTailProperties DEF BootstrapGlobalRouter, FactoryTypeOK
    <2>3. CASE r \in isGlobalRouter
        BY <1>1, <2>1, <2>2, <2>3 DEF BootstrapGlobalRouter, FactoryTypeOK, vaultVars
    <2>4. CASE r \notin isGlobalRouter
        <3>1. /\ globalRouters' = Append(globalRouters, r)
              /\ isGlobalRouter' = isGlobalRouter \cup {r}
            BY <1>1, <2>2, <2>4 DEF BootstrapGlobalRouter
        <3>2. globalRouters' \in Seq(Dexes) /\ isGlobalRouter' \subseteq Dexes
            BY <3>1, AppendTyped DEF FactoryTypeOK
        <3> QED BY <1>1, <2>1, <3>2 DEF BootstrapGlobalRouter, FactoryTypeOK, vaultVars
    <2> QED BY <2>3, <2>4
<1>2. ASSUME NEW a \in Accounts, CreateVault(a) PROVE FactoryTypeOK'
    <2>1. PICK n \in Nat : n = Len(vaultOwner) + 1 BY DEF FactoryTypeOK
    <2>2. Listed \in SUBSET Dexes BY DEF FactoryTypeOK, Listed
    <2>3. vaultOwner' \in Seq(Accounts) /\ Len(vaultOwner') = n
        BY <1>2, <2>1, AppendTyped DEF CreateVault, FactoryTypeOK
    <2>4. allVaults' \in Seq(Nat) /\ Len(allVaults') = n
        BY <1>2, <2>1, AppendTyped DEF CreateVault, FactoryTypeOK
    <2>5. whitelisted' \in Seq(SUBSET Dexes) /\ Len(whitelisted') = n
        BY <1>2, <2>1, <2>2, AppendTyped DEF CreateVault, FactoryTypeOK
    <2>6. vaultOf' \in [Accounts -> Nat]
        BY <1>2, <2>1 DEF CreateVault, FactoryTypeOK
    <2> QED BY <1>2, <2>3, <2>4, <2>5, <2>6 DEF CreateVault, FactoryTypeOK
<1>3. ASSUME NEW a \in Accounts, NEW r \in Dexes, AddGlobalRouter(a, r)
      PROVE  FactoryTypeOK'
    BY <1>3 DEF AddGlobalRouter, FactoryTypeOK, vaultVars
<1>4. ASSUME NEW a \in Accounts, NEW r \in Dexes, RemoveGlobalRouter(a, r)
      PROVE  FactoryTypeOK'
    <2>1. globalRouters' \in Seq(Dexes)
        <3>1. CASE \E i \in 1..Len(globalRouters) : FirstIndex(r, i)
            BY <1>4, <3>1, SwapPopTyped DEF RemoveGlobalRouter, FactoryTypeOK
        <3>2. CASE ~\E i \in 1..Len(globalRouters) : FirstIndex(r, i)
            BY <1>4, <3>2 DEF RemoveGlobalRouter, FactoryTypeOK
        <3> QED BY <3>1, <3>2
    <2> QED BY <1>4, <2>1 DEF RemoveGlobalRouter, FactoryTypeOK, vaultVars
<1>5. ASSUME NEW a \in Accounts, NEW v \in 1..Len(vaultOwner), NEW r \in Dexes,
             NEW b \in BOOLEAN, SetWhitelistedOn(a, v, r, b)
      PROVE  FactoryTypeOK'
    <2>1. v \in 1..Len(whitelisted) /\ whitelisted[v] \in SUBSET Dexes
        BY DEF FactoryTypeOK
    <2>2. PICK w \in SUBSET Dexes : whitelisted' = [whitelisted EXCEPT ![v] = w]
        <3>1. CASE b BY <1>5, <2>1, <3>1 DEF SetWhitelistedOn
        <3>2. CASE ~b BY <1>5, <2>1, <3>2 DEF SetWhitelistedOn
        <3> QED BY <3>1, <3>2
    <2>3. whitelisted' \in Seq(SUBSET Dexes) /\ Len(whitelisted') = Len(whitelisted)
        BY <2>1, <2>2, ExceptSeq DEF FactoryTypeOK
    <2> QED BY <1>5, <2>3 DEF SetWhitelistedOn, FactoryTypeOK
<1>6. ASSUME NEW a \in Accounts, NEW v \in 1..Len(vaultOwner),
             NEW x \in Accounts, TransferVault(a, v, x)
      PROVE  FactoryTypeOK'
    BY <1>6, ExceptSeq DEF TransferVault, FactoryTypeOK
<1>7. CASE UNCHANGED factoryVars
    BY <1>7 DEF factoryVars, FactoryTypeOK
<1> QED BY <1>1, <1>2, <1>3, <1>4, <1>5, <1>6, <1>7 DEF FactoryNext

\* Arrays, mappings and registers keep their types.
THEOREM FactoryTyped == FactorySpec => []FactoryTypeOK
<1> QED BY FactoryInitTyped, FactoryNextTyped, PTL DEF FactorySpec

--------------------------------------------------------------------------------
(* The array of routers and the mapping *)

LEMMA AppendMirrors ==
    ASSUME FactoryTypeOK, ListMirrorsMapping, NEW r \in Dexes, r \notin isGlobalRouter,
           globalRouters' = Append(globalRouters, r),
           isGlobalRouter' = isGlobalRouter \cup {r}
    PROVE  ListMirrorsMapping'
<1> DEFINE n == Len(globalRouters)
<1>1. /\ n \in Nat /\ Len(globalRouters') = n + 1
      /\ \A i \in 1..n : globalRouters'[i] = globalRouters[i]
      /\ globalRouters'[n + 1] = r
    BY AppendTyped DEF FactoryTypeOK
<1>2. \A i \in 1..n : globalRouters[i] # r
    BY DEF ListMirrorsMapping, Listed
<1>3. NoDuplicates(globalRouters')
    BY <1>1, <1>2 DEF ListMirrorsMapping, NoDuplicates
<1>4. Listed' = Listed \cup {r}
    BY <1>1 DEF Listed
<1> QED BY <1>3, <1>4 DEF ListMirrorsMapping

\* The swap-and-pop of removeGlobalRouter takes the router out of the array and
\* nothing else.
LEMMA RemoveMirrors ==
    ASSUME FactoryTypeOK, ListMirrorsMapping, NEW a \in Accounts, NEW r \in Dexes,
           RemoveGlobalRouter(a, r)
    PROVE  ListMirrorsMapping'
<1> DEFINE n == Len(globalRouters)
<1>1. n \in Nat BY DEF FactoryTypeOK
<1>2. PICK i \in 1..n : globalRouters[i] = r
    BY DEF RemoveGlobalRouter, ListMirrorsMapping, Listed
<1>3. FirstIndex(r, i)
    BY <1>1, <1>2 DEF FirstIndex, ListMirrorsMapping, NoDuplicates
<1>4. PICK k \in 1..n : FirstIndex(r, k) /\ globalRouters' = SwapPop(globalRouters, k)
    BY <1>3 DEF RemoveGlobalRouter
<1>5. globalRouters[k] = r BY <1>4 DEF FirstIndex
<1>6. /\ Len(globalRouters') = n - 1
      /\ \A j \in 1..(n - 1) : globalRouters'[j] =
            IF j = k THEN globalRouters[n] ELSE globalRouters[j]
    BY <1>4, SwapPopTyped DEF FactoryTypeOK
<1>7. NoDuplicates(globalRouters')
    BY <1>1, <1>4, <1>6 DEF ListMirrorsMapping, NoDuplicates
<1>8. \A j \in 1..n : j # k => globalRouters[j] # r
    BY <1>4, <1>5 DEF ListMirrorsMapping, NoDuplicates
<1>9. Listed' = Listed \ {r}
    <2>1. ASSUME NEW x \in Listed' PROVE x \in Listed \ {r}
        <3>1. PICK j \in 1..(n - 1) : x = globalRouters'[j]
            BY <1>6, <2>1 DEF Listed
        <3>2. CASE j = k
            <4>1. x = globalRouters[n] BY <1>6, <3>1, <3>2
            <4>2. n # k /\ n \in 1..n BY <1>1, <3>1, <3>2
            <4> QED BY <1>8, <4>1, <4>2 DEF Listed
        <3>3. CASE j # k
            <4>1. x = globalRouters[j] /\ j \in 1..n BY <1>1, <1>6, <3>1, <3>3
            <4> QED BY <1>8, <3>3, <4>1 DEF Listed
        <3> QED BY <3>2, <3>3
    <2>2. ASSUME NEW x \in Listed, x # r PROVE x \in Listed'
        <3>1. PICK j \in 1..n : x = globalRouters[j] BY <2>2 DEF Listed
        <3>2. j # k BY <1>5, <2>2, <3>1
        <3>3. CASE j = n
            <4>1. k \in 1..(n - 1) BY <1>1, <1>4, <3>2, <3>3
            <4>2. globalRouters'[k] = x BY <1>6, <3>1, <3>3, <4>1
            <4> QED BY <1>6, <4>1, <4>2 DEF Listed
        <3>4. CASE j # n
            <4>1. j \in 1..(n - 1) BY <1>1, <3>1, <3>4
            <4>2. globalRouters'[j] = x BY <1>6, <3>1, <3>2, <4>1
            <4> QED BY <1>6, <4>1, <4>2 DEF Listed
        <3> QED BY <3>3, <3>4
    <2>3. r \notin Listed' BY <2>1
    <2> QED BY <2>1, <2>2, <2>3
<1> QED BY <1>7, <1>9 DEF ListMirrorsMapping, RemoveGlobalRouter

LEMMA NextMirrors == FactoryTypeOK /\ ListMirrorsMapping /\ [FactoryNext]_factoryVars => ListMirrorsMapping'
<1> SUFFICES ASSUME FactoryTypeOK, ListMirrorsMapping, [FactoryNext]_factoryVars
             PROVE  ListMirrorsMapping'
    OBVIOUS
<1>1. ASSUME UNCHANGED <<globalRouters, isGlobalRouter>>
      PROVE  ListMirrorsMapping'
    BY <1>1 DEF ListMirrorsMapping, Listed, NoDuplicates
<1>2. CASE BootstrapGlobalRouter
    <2>1. PICK r \in Dexes : r = Head(boot)
        BY <1>2, HeadTailProperties DEF BootstrapGlobalRouter, FactoryTypeOK
    <2>2. CASE r \in isGlobalRouter
        BY <1>1, <1>2, <2>1, <2>2 DEF BootstrapGlobalRouter
    <2>3. CASE r \notin isGlobalRouter
        BY <1>2, <2>1, <2>3, AppendMirrors DEF BootstrapGlobalRouter
    <2> QED BY <2>2, <2>3
<1>3. ASSUME NEW a \in Accounts, NEW r \in Dexes, AddGlobalRouter(a, r)
      PROVE  ListMirrorsMapping'
    BY <1>3, AppendMirrors DEF AddGlobalRouter
<1>4. ASSUME NEW a \in Accounts, NEW r \in Dexes, RemoveGlobalRouter(a, r)
      PROVE  ListMirrorsMapping'
    BY <1>4, RemoveMirrors
<1>5. CASE FactoryNext
    BY <1>1, <1>2, <1>3, <1>4, <1>5
    DEF FactoryNext, CreateVault, SetWhitelistedOn, TransferVault
<1> QED BY <1>1, <1>5 DEF factoryVars

\* The array createVault copies from and the mapping addGlobalRouter and
\* removeGlobalRouter consult never drift apart.
THEOREM ListMirrors == FactorySpec => []ListMirrorsMapping
<1>1. FactoryInit => ListMirrorsMapping
    BY DEF FactoryInit, ListMirrorsMapping, Listed, NoDuplicates
<1> QED BY <1>1, FactoryInitTyped, FactoryNextTyped, NextMirrors, PTL DEF FactorySpec

--------------------------------------------------------------------------------
(* The two registers of vaults *)

\* The i-th vault is the i-th clone, and the mapping numbers its owners' vaults
\* one to one.  RegistersAgree alone does not say that the next clone is new.
RegisterInv ==
    /\ \A i \in 1..Len(allVaults) : allVaults[i] = i
    /\ \A a \in Accounts : vaultOf[a] \in 0..Len(vaultOwner)
    /\ \A v \in 1..Len(vaultOwner) : \E a \in Accounts : vaultOf[a] = v
    /\ \A a, b \in Accounts :
          vaultOf[a] = vaultOf[b] /\ vaultOf[a] # NoVault => a = b

LEMMA CreateRegisters ==
    ASSUME FactoryTypeOK, RegisterInv, NEW c \in Accounts, CreateVault(c)
    PROVE  RegisterInv'
<1>1. PICK n \in Nat : n = Len(vaultOwner) BY DEF FactoryTypeOK
<1>2. Len(allVaults) = n BY <1>1 DEF FactoryTypeOK
<1>3. vaultOf[c] = 0 BY DEF CreateVault, NoVault
<1>4. Len(vaultOwner') = n + 1
    BY <1>1, AppendTyped DEF CreateVault, FactoryTypeOK
<1>5. allVaults' = Append(allVaults, n + 1)
    BY <1>1 DEF CreateVault
<1>6. /\ Len(allVaults') = n + 1
      /\ \A i \in 1..n : allVaults'[i] = allVaults[i]
      /\ allVaults'[n + 1] = n + 1
    BY <1>2, <1>5, AppendTyped DEF FactoryTypeOK
<1>7. \A i \in 1..Len(allVaults') : allVaults'[i] = i
    BY <1>1, <1>2, <1>6 DEF RegisterInv
<1>8. /\ vaultOf'[c] = n + 1
      /\ \A a \in Accounts \ {c} : vaultOf'[a] = vaultOf[a]
    BY <1>1 DEF CreateVault, FactoryTypeOK
<1>9. \A a \in Accounts : vaultOf[a] \in 0..n
    BY <1>1 DEF RegisterInv
<1>10. \A a \in Accounts : vaultOf'[a] \in 0..(n + 1)
    BY <1>1, <1>8, <1>9
<1>11. \A v \in 1..(n + 1) : \E a \in Accounts : vaultOf'[a] = v
    <2> SUFFICES ASSUME NEW v \in 1..(n + 1)
                 PROVE  \E a \in Accounts : vaultOf'[a] = v
        OBVIOUS
    <2>1. CASE v = n + 1 BY <1>8, <2>1
    <2>2. CASE v \in 1..n
        <3>1. PICK a \in Accounts : vaultOf[a] = v
            BY <1>1, <2>2 DEF RegisterInv
        <3>2. a # c BY <1>3, <2>2, <3>1
        <3> QED BY <1>8, <3>1, <3>2
    <2> QED BY <1>1, <2>1, <2>2
<1>12. ASSUME NEW a \in Accounts, NEW b \in Accounts,
              vaultOf'[a] = vaultOf'[b], vaultOf'[a] # NoVault
       PROVE  a = b
    <2>1. CASE a = c \/ b = c
        BY <1>1, <1>8, <1>9, <1>12, <2>1
    <2>2. CASE a # c /\ b # c
        BY <1>8, <1>12, <2>2 DEF RegisterInv
    <2> QED BY <2>1, <2>2
<1> QED BY <1>4, <1>7, <1>10, <1>11, <1>12 DEF RegisterInv

LEMMA NextRegisters == FactoryTypeOK /\ RegisterInv /\ [FactoryNext]_factoryVars => RegisterInv'
<1> SUFFICES ASSUME FactoryTypeOK, RegisterInv, [FactoryNext]_factoryVars PROVE RegisterInv' OBVIOUS
<1>1. ASSUME UNCHANGED <<vaultOf, allVaults>>, Len(vaultOwner') = Len(vaultOwner)
      PROVE  RegisterInv'
    BY <1>1 DEF RegisterInv
<1>2. ASSUME NEW a \in Accounts, NEW v \in 1..Len(vaultOwner), NEW x \in Accounts,
             TransferVault(a, v, x)
      PROVE  RegisterInv'
    <2>1. Len(vaultOwner') = Len(vaultOwner)
        BY <1>2, ExceptSeq DEF TransferVault, FactoryTypeOK
    <2> QED BY <1>1, <1>2, <2>1 DEF TransferVault
<1>3. CASE FactoryNext
    BY <1>1, <1>2, <1>3, CreateRegisters
    DEF FactoryNext, BootstrapGlobalRouter, AddGlobalRouter, RemoveGlobalRouter,
        SetWhitelistedOn, vaultVars
<1> QED BY <1>1, <1>3 DEF factoryVars

\* vaultOf and allVaults list the same clones, each once and for one account,
\* whatever the order of creations, transfers and changes of the router list.
THEOREM RegistersStayInAgreement == FactorySpec => []RegistersAgree
<1>1. FactoryInit => RegisterInv
    <2> SUFFICES ASSUME FactoryInit PROVE RegisterInv OBVIOUS
    <2>1. Len(allVaults) = 0 /\ Len(vaultOwner) = 0 BY DEF FactoryInit
    <2>2. \A a \in Accounts : vaultOf[a] = 0 BY DEF FactoryInit, NoVault
    <2> QED BY <2>1, <2>2 DEF RegisterInv, NoVault
<1>2. FactoryTypeOK /\ RegisterInv => RegistersAgree
    <2> SUFFICES ASSUME FactoryTypeOK, RegisterInv PROVE RegistersAgree OBVIOUS
    <2>1. Len(allVaults) = Len(vaultOwner) /\ Len(vaultOwner) \in Nat BY DEF FactoryTypeOK
    <2>2. NoDuplicates(allVaults) BY DEF RegisterInv, NoDuplicates
    <2>3. \A v \in 1..Len(vaultOwner) : allVaults[v] = v
        BY <2>1 DEF RegisterInv
    <2>4. \A a \in Accounts : vaultOf[a] # NoVault =>
              vaultOf[a] \in 1..Len(allVaults)
        BY <2>1 DEF RegisterInv, NoVault
    <2> QED BY <2>1, <2>2, <2>3, <2>4 DEF RegisterInv, RegistersAgree
<1> QED BY <1>1, <1>2, FactoryInitTyped, FactoryNextTyped, NextRegisters, PTL DEF FactorySpec

--------------------------------------------------------------------------------
(* Sizing: texts, proposals and confirmations *)

\* Among the subsets of a finite set, some one is smallest.
LEMMA SmallestSet ==
    ASSUME NEW S, IsFiniteSet(S), NEW T, T \subseteq SUBSET S, T # {}
    PROVE  \E x \in T : \A y \in T : ~(y \subseteq x /\ y # x)
<1>1. T \subseteq FiniteSubsetsOf(S)
  BY FS_Subset DEF FiniteSubsetsOf
<1>2. \E x \in T : \A y \in T : ~ (<<y, x>> \in StrictSubsetOrdering(S))
  BY <1>1, FS_StrictSubsetOrderingWellFounded, WFMin
<1>3. \A x, y \in T : y \subseteq x /\ y # x => <<y, x>> \in StrictSubsetOrdering(S)
  BY DEF StrictSubsetOrdering
<1> QED BY <1>2, <1>3

LEMMA LeastNat == ASSUME NEW T, T \subseteq Nat, T # {} PROVE \E n \in T : \A m \in T : n <= m
<1>1. PICK n \in T : TRUE
  OBVIOUS
<1> DEFINE N == 0..n
           U == {0..m : m \in {k \in T : k <= n}}
<1>2. U \subseteq SUBSET N /\ U # {}
  BY <1>1
<1>8. IsFiniteSet(N)
  BY FS_Interval
<1>3. \A x \in U : \E m \in T : m <= n /\ x = 0..m
  OBVIOUS
<1>4. \A k \in T : k <= n => 0..k \in U
  OBVIOUS
<1> HIDE DEF U, N
<1>5. PICK x \in U : \A y \in U : ~ (y \subseteq x /\ y # x)
  BY <1>2, <1>8, SmallestSet
<1>6. PICK m \in T : m <= n /\ x = 0..m
  BY <1>3
<1>7. \A k \in T : m <= k
  <2> SUFFICES ASSUME NEW k \in T, k < m PROVE FALSE
    OBVIOUS
  <2>1. 0..k \in U /\ 0..k \subseteq 0..m /\ m \notin 0..k /\ m \in 0..m
    BY <1>4, <1>6
  <2> QED BY <1>5, <1>6, <2>1
<1> QED BY <1>7

LEMMA Ordered ==
    ASSUME NEW x \in Int, NEW y \in Int, NEW d \in Nat, x <= y
    PROVE  x * d <= y * d
<1>1. (y - x) * d >= 0
  BY y - x \in Nat
<1>2. (y - x) * d = y * d - x * d /\ x * d \in Int /\ y * d \in Int
  OBVIOUS
<1> QED BY <1>1, <1>2

--------------------------------------------------------------------------------
(* Sizing: texts *)

LEMMA Places ==
    /\ Decimals \in Nat \ {0} /\ Unit \in Nat \ {0} /\ Place[0] = Unit /\ Place[Decimals] = 1
    /\ \A i \in 0..Decimals : Place[i] \in Nat \ {0}
    /\ \A i \in 1..Decimals : Place[i - 1] = 10 * Place[i]
<1>1. /\ Decimals \in Nat \ {0} /\ Place[0] = Unit /\ Place[Decimals] = 1
      /\ \A i \in 0..Decimals : Place[i] \in Nat \ {0}
      /\ \A i \in 1..Decimals : Place[i - 1] = 10 * Place[i]
  BY SizingAssumption
<1>2. 0 \in 0..Decimals
  BY <1>1
<1> QED BY <1>1, <1>2

LEMMA Ends ==
    /\ 0 \in 0..Decimals /\ Decimals \in 0..Decimals
    /\ \A i \in 1..Decimals : i \in Nat \ {0} /\ i \in 0..Decimals /\ i - 1 \in 0..Decimals
    /\ \A i \in 0..Decimals : i # 0 => i \in 1..Decimals
<1>1. PICK n \in Nat : n = Decimals
  BY Places
<1>2. /\ 0 \in 0..n /\ n \in 0..n
      /\ \A i \in 1..n : i \in Nat \ {0} /\ i \in 0..n /\ i - 1 \in 0..n
      /\ \A i \in 0..n : i # 0 => i \in 1..n
  OBVIOUS
<1> QED BY <1>1, <1>2

LEMMA TenParts == \A q \in Nat : q = 10 * (q \div 10) + (q % 10) /\ q % 10 \in Nat /\ q \div 10 \in Nat
OBVIOUS

\* The digits of n left of a place: the next digit extends them.
LEMMA NextDigit ==
    ASSUME NEW n \in Nat, NEW i \in 1..Decimals
    PROVE  /\ Digit(n, i) \in Nat
           /\ (n \div Place[i]) * Place[i] = (n \div Place[i - 1]) * Place[i - 1] + Digit(n, i) * Place[i]
<1>1. PICK p \in Nat \ {0} : p = Place[i] /\ Place[i - 1] = 10 * p
  BY Places
<1>2. PICK q \in Nat : q = n \div p
  BY <1>1, Floor
<1>3. n \div (10 * p) = q \div 10
  <2>1. q * p <= n /\ n < (q + 1) * p
    BY <1>1, <1>2, Floor
  <2>2. PICK r \in Nat : r = q \div 10 /\ r * 10 <= q /\ q + 1 <= (r + 1) * 10
    BY <1>2, Floor
  <2>3. (r * 10) * p <= q * p /\ (q + 1) * p <= ((r + 1) * 10) * p
    BY <1>1, <1>2, <2>2, Ordered
  <2>4. r * (10 * p) <= n /\ n < (r + 1) * (10 * p)
    BY <1>1, <1>2, <2>1, <2>2, <2>3
  <2>5. PICK k \in Nat : k = n \div (10 * p) /\ k * (10 * p) <= n /\ n < (k + 1) * (10 * p)
    <3>1. 10 * p \in Nat \ {0}
      BY <1>1
    <3> QED BY <3>1, Floor
  <2>6. k = r
    <3>1. PICK t \in Nat \ {0} : t = 10 * p
      BY <1>1
    <3>2. r * t < (k + 1) * t /\ k * t < (r + 1) * t
      BY <2>4, <2>5, <3>1
    <3>3. r < k + 1 /\ k < r + 1
      BY <2>2, <2>5, <3>1, <3>2, Cancel
    <3> QED BY <2>2, <2>5, <3>3
  <2> QED BY <2>2, <2>5, <2>6
<1>4. q = 10 * (q \div 10) + (q % 10) /\ q % 10 \in Nat /\ q \div 10 \in Nat
  BY TenParts
<1>5. q * p = (q \div 10) * (10 * p) + (q % 10) * p
  <2>1. PICK x, y \in Nat : x = q \div 10 /\ y = q % 10 /\ q = 10 * x + y
    BY <1>4
  <2>2. (10 * x + y) * p = x * (10 * p) + y * p
    BY <1>1, <2>1
  <2> QED BY <2>1, <2>2
<1> QED BY <1>1, <1>2, <1>3, <1>4, <1>5 DEF Digit

LEMMA GreatestNat ==
    ASSUME NEW T, NEW top \in Nat, T \subseteq 1..top, T # {}
    PROVE  \E n \in T : \A m \in T : m <= n
<1> DEFINE U == {top - m : m \in T}
<1>1. U \subseteq Nat /\ U # {}
  <2>1. \A m \in T : m \in Nat /\ m <= top
    OBVIOUS
  <2>2. \A m \in T : top - m \in Nat
    BY <2>1
  <2> QED BY <2>2
<1>2. PICK least \in U : \A k \in U : least <= k
  <2> HIDE DEF U
  <2> QED BY <1>1, LeastNat
<1>3. PICK n \in T : least = top - n
  OBVIOUS
<1>4. ASSUME NEW m \in T PROVE m <= n
  <2>1. top - m \in U
    OBVIOUS
  <2>2. top - n <= top - m
    BY <1>2, <1>3, <2>1
  <2> QED BY <2>2
<1> QED BY <1>4

\* The zeros at the end of a decimal part count for nothing.
LEMMA Stripped ==
    ASSUME NEW digits \in [1..Decimals -> Nat], NEW text, text.decimals = StripZeros(digits)
    PROVE  Len(text.decimals) <= Decimals /\ \A i \in 1..Decimals : DecimalAt(text, i) = digits[i]
<1>1. PICK n \in Nat : n = Decimals
  BY Places
<1>2. digits \in Seq(Nat) /\ Len(digits) = n
  BY <1>1
<1> DEFINE used == {i \in 1..Len(digits) : digits[i] # 0}
           last == CHOOSE i \in used : \A j \in used : j <= i
<1>3. CASE used = {}
  <2>1. text.decimals = <<>>
    BY <1>3 DEF StripZeros
  <2>2. Len(text.decimals) = 0
    BY <2>1
  <2>3. \A i \in 1..Decimals : digits[i] = 0
    BY <1>1, <1>2, <1>3
  <2> QED BY <1>1, <2>2, <2>3 DEF DecimalAt
<1>4. CASE used # {}
  <2>1. text.decimals = SubSeq(digits, 1, last)
    BY <1>4 DEF StripZeros
  <2>2. last \in used /\ \A j \in used : j <= last
    <3>1. used \subseteq 1..n
      BY <1>2
    <3> HIDE DEF used
    <3>2. \E i \in used : \A j \in used : j <= i
      BY <1>1, <1>4, <3>1, GreatestNat
    <3> QED BY <3>2
  <2>3. last \in 1..n
    BY <1>2, <2>2
  <2>4. \A i \in 1..n : i > last => digits[i] = 0
    <3> SUFFICES ASSUME NEW i \in 1..n, i > last, digits[i] # 0 PROVE FALSE
      BY <1>1, <1>2
    <3>1. i \in used
      BY <1>2
    <3> HIDE DEF last, used
    <3>2. i <= last
      BY <2>2, <3>1
    <3> QED BY <2>3, <3>2
  <2> HIDE DEF last, used
  <2>5. Len(text.decimals) = last /\ \A i \in 1..last : text.decimals[i] = digits[i]
    BY <1>2, <2>1, <2>3
  <2> QED BY <1>1, <2>3, <2>4, <2>5 DEF DecimalAt
<1> QED BY <1>3, <1>4

\* The running value of the decimals is the one function its recursion allows.
LEMMA DecimalsAddUp ==
    ASSUME NEW text, NEW h \in [0..Decimals -> Int], h[0] = 0, text.whole \in Int,
           \A i \in 1..Decimals : h[i] = h[i - 1] + DecimalAt(text, i) * Place[i]
    PROVE  Value(text) = text.whole * Unit + h[Decimals]
<1> DEFINE Is(part) == part = [i \in 0..Decimals |->
                           IF i = 0 THEN 0 ELSE part[i - 1] + DecimalAt(text, i) * Place[i]]
           sum == CHOOSE part : Is(part)
<1>1. Value(text) = text.whole * Unit + sum[Decimals]
  BY DEF Value
<1>2. Is(h)
  <2>1. \A i \in 0..Decimals : h[i] = IF i = 0 THEN 0 ELSE h[i - 1] + DecimalAt(text, i) * Place[i]
    BY Ends
  <2> QED BY <2>1
<1>3. Is(sum)
  BY <1>2
<1>4. /\ sum[0] = 0
      /\ \A i \in 1..Decimals : sum[i] = sum[i - 1] + DecimalAt(text, i) * Place[i]
  <2>1. \A i \in 0..Decimals : sum[i] = IF i = 0 THEN 0 ELSE sum[i - 1] + DecimalAt(text, i) * Place[i]
    BY <1>3
  <2> HIDE DEF sum
  <2> QED BY <2>1, Ends
<1> HIDE DEF sum
<1>5. sum[Decimals] = h[Decimals]
  <2> DEFINE Off == {i \in 0..Decimals : sum[i] # h[i]}
  <2>1. CASE Off = {}
    <3>1. Decimals \notin Off
      BY <2>1
    <3> QED BY <3>1, Ends
  <2>2. CASE Off # {}
    <3>1. Off \subseteq Nat
      BY Places
    <3>2. PICK i \in Off : \A j \in Off : i <= j
      <4> HIDE DEF Off
      <4> QED BY <2>2, <3>1, LeastNat
    <3>3. i \in 1..Decimals /\ i - 1 \in 0..Decimals /\ i - 1 \notin Off
      <4>1. i # 0
        BY <1>4, <3>2
      <4>2. i \in Nat \ {0} /\ i \in 1..Decimals /\ i - 1 \in 0..Decimals
        BY <3>2, <4>1, Ends
      <4>3. ~(i <= i - 1)
        BY <4>2
      <4> HIDE DEF Off
      <4> QED BY <3>2, <4>2, <4>3
    <3>4. sum[i - 1] = h[i - 1]
      BY <3>3
    <3> QED BY <1>4, <3>2, <3>3, <3>4
  <2> QED BY <2>1, <2>2
<1> QED BY <1>1, <1>5

\* rawUsdcToDisplay writes what displayUsdcToRaw reads, for every amount.
LEMMA RoundTripOfTexts ==
    ASSUME NEW raw \in Nat
    PROVE  /\ Value(RawToDisplay(raw)) = raw
           /\ Len(RawToDisplay(raw).decimals) <= Decimals
<1>1. PICK unit \in Nat \ {0} : unit = Unit
  BY Places
<1>2. PICK whole, rest \in Nat : whole = raw \div unit /\ rest = raw % unit /\ raw = whole * unit + rest /\ rest < unit
  BY <1>1
<1> DEFINE digits == [i \in 1..Decimals |-> Digit(rest, i)]
           h == [i \in 0..Decimals |-> (rest \div Place[i]) * Place[i]]
<1>3. PICK text : text = RawToDisplay(raw)
  OBVIOUS
<1>4. text.whole = whole /\ text.decimals = StripZeros(digits)
  BY <1>1, <1>2, <1>3 DEF RawToDisplay
<1>5. digits \in [1..Decimals -> Nat]
  BY NextDigit
<1>6. Len(text.decimals) <= Decimals /\ \A i \in 1..Decimals : DecimalAt(text, i) = Digit(rest, i)
  <2>1. \A i \in 1..Decimals : digits[i] = Digit(rest, i)
    OBVIOUS
  <2> HIDE DEF digits
  <2> QED BY <1>4, <1>5, <2>1, Stripped
<1>7. h \in [0..Decimals -> Int] /\ \A i \in 0..Decimals : h[i] = (rest \div Place[i]) * Place[i]
  <2>1. ASSUME NEW i \in 0..Decimals PROVE (rest \div Place[i]) * Place[i] \in Int
    <3>1. PICK p \in Nat \ {0} : p = Place[i]
      BY Places
    <3>2. (rest \div p) \in Nat
      BY <3>1, Floor
    <3> QED BY <3>1, <3>2
  <2> QED BY <2>1
<1> HIDE DEF h, digits
<1>8. h[0] = 0
  <2>1. h[0] = (rest \div unit) * unit
    BY <1>1, <1>7, Ends, Places
  <2>2. rest \div unit = 0
    BY <1>2
  <2> QED BY <2>1, <2>2
<1>9. h[Decimals] = rest
  <2>1. h[Decimals] = (rest \div 1) * 1
    BY <1>7, Ends, Places
  <2> QED BY <2>1
<1>10. ASSUME NEW i \in 1..Decimals PROVE h[i] = h[i - 1] + DecimalAt(text, i) * Place[i]
  <2>1. i \in 0..Decimals /\ i - 1 \in 0..Decimals
    BY Ends
  <2>2. h[i] = (rest \div Place[i]) * Place[i] /\ h[i - 1] = (rest \div Place[i - 1]) * Place[i - 1]
    BY <1>7, <2>1
  <2>3. (rest \div Place[i]) * Place[i] = (rest \div Place[i - 1]) * Place[i - 1] + Digit(rest, i) * Place[i]
    BY NextDigit
  <2> QED BY <1>6, <2>2, <2>3
<1>11. Value(text) = whole * unit + h[Decimals]
  <2>1. text.whole \in Int /\ h \in [0..Decimals -> Int] /\ h[0] = 0
    BY <1>4, <1>7, <1>8
  <2>2. \A i \in 1..Decimals : h[i] = h[i - 1] + DecimalAt(text, i) * Place[i]
    BY <1>10
  <2>3. Value(text) = text.whole * Unit + h[Decimals]
    BY <2>1, <2>2, DecimalsAddUp
  <2> QED BY <1>1, <1>4, <2>3
<1> QED BY <1>2, <1>3, <1>6, <1>9, <1>11

(* Sizing: proposals *)

LEMMA SizesAreNumbers ==
    /\ ReferenceNav \in Nat /\ Unit \in Nat \ {0}
    /\ \A f \in Funds : f \in Int
    /\ \A s \in Strategies : s.trades \in Int
BY SizingAssumption, Places

LEMMA AtLeastUnitIs == \A x \in Int : AtLeastUnit(x) \in Nat \ {0}
<1> SUFFICES ASSUME NEW x \in Int PROVE AtLeastUnit(x) \in Nat \ {0}
  OBVIOUS
<1>1. PICK u \in Nat \ {0} : u = Unit
  BY Places
<1>2. (IF x < u THEN u ELSE x) \in Nat \ {0}
  OBVIOUS
<1> QED BY <1>1, <1>2 DEF AtLeastUnit

LEMMA SliceIs == ASSUME NEW s, NEW f \in Int PROVE (f * SliceBps(s)) \div 10000 \in Int
<1>1. PICK b \in Int : b = SliceBps(s)
  BY DEF SliceBps
<1>2. (f * b) \div 10000 \in Int
  OBVIOUS
<1> QED BY <1>1, <1>2

\* What is proposed is more than nothing and at most what the vault has.
LEMMA AmountFits ==
    ASSUME NEW s \in Strategies, funds \in Funds
    PROVE  DeriveAmount(s) \in Nat \ {0} /\ (funds > 0 => DeriveAmount(s) <= funds)
<1>1. PICK f \in Int : f = funds
  BY SizesAreNumbers
<1>2. PICK slice \in Nat \ {0} : slice = AtLeastUnit((f * SliceBps(s)) \div 10000)
  BY SliceIs, AtLeastUnitIs
<1>3. PICK nav \in Nat \ {0} : nav = AtLeastUnit((ReferenceNav * SliceBps(s)) \div 10000)
  <2>1. ReferenceNav \in Int
    BY SizesAreNumbers
  <2> QED BY <2>1, SliceIs, AtLeastUnitIs
<1>4. PICK t \in Int : t = s.trades
  BY SizesAreNumbers
<1>5. DeriveAmount(s) = IF f > 0 THEN IF slice > f THEN f ELSE slice ELSE IF t > 0 THEN t ELSE nav
  BY <1>1, <1>2, <1>3, <1>4 DEF DeriveAmount
<1> QED BY <1>1, <1>5

\* A sizing that was computed names its market.
Sizings == [amount : Nat \ {0}, mode : Routings, confirmed : BOOLEAN, out : {"WETH"} \cup {s.symbol : s \in Strategies},
            kind : {"primary_mint", "uniswap_v3"}, fee : {0, 3000}]
OnItsMarket(sizing) == sizing.kind = "uniswap_v3" => sizing.mode \notin Primary

LEMMA SizingIs ==
    ASSUME NEW s \in Strategies, NEW routing \in Routings, funds \in Funds,
           NEW sizing, sizing = ComputeSizing(s, routing), sizing # Nil
    PROVE  /\ sizing \in Sizings /\ OnItsMarket(sizing)
           /\ funds > 0 => sizing.amount <= funds
           /\ sizing.kind = "primary_mint" => UsePrimary(s, routing)
<1>1. PICK x \in Nat \ {0} : x = DeriveAmount(s) /\ (funds > 0 => x <= funds)
  BY AmountFits
<1>2. CASE UsePrimary(s, routing)
  <2>1. sizing = [amount |-> x, mode |-> routing, confirmed |-> FALSE,
                  out |-> s.symbol, kind |-> "primary_mint", fee |-> 0]
    BY <1>1, <1>2 DEF ComputeSizing
  <2> QED BY <1>1, <1>2, <2>1 DEF Sizings, OnItsMarket
<1>3. CASE ~UsePrimary(s, routing)
  <2>1. sizing = [amount |-> x, mode |-> routing, confirmed |-> FALSE,
                  out |-> "WETH", kind |-> "uniswap_v3", fee |-> 3000]
    BY <1>1, <1>3 DEF ComputeSizing
  <2>2. routing \notin Primary
    BY <1>3 DEF UsePrimary
  <2> QED BY <1>1, <2>1, <2>2 DEF Sizings, OnItsMarket
<1> QED BY <1>2, <1>3

IsRow(r) == r = [status |-> r.status, sizing |-> r.sizing, proposed |-> r.proposed]
Written(r, m) == [r EXCEPT !.status = "SUBMITTED", !.sizing = m]
Told(r, status) == [r EXCEPT !.status = status]
RowMoved(r, q, status, m) ==
    IsRow(q) /\ q.status = status /\ q.sizing = m /\ q.proposed = r.proposed

LEMMA RowMoves ==
    ASSUME NEW r, IsRow(r), NEW m, NEW status
    PROVE  /\ RowMoved(r, Written(r, m), "SUBMITTED", m)
           /\ RowMoved(r, Told(r, status), status, r.sizing)
<1>1. PICK A, B, C : /\ {r.status, "SUBMITTED", status} = A /\ {r.sizing, m} = B
                     /\ {r.proposed} = C
  OBVIOUS
<1> DEFINE Rows == [status : A, sizing : B, proposed : C]
<1>2. r \in Rows /\ m \in B /\ "SUBMITTED" \in A /\ status \in A
  BY <1>1 DEF IsRow
<1>3. \A q \in Rows : IsRow(q)
  BY DEF IsRow
<1> QED BY <1>2, <1>3 DEF RowMoved, Written, Told

ProposalInv ==
    /\ funds \in Funds /\ IsRow(row)
    /\ row.status # "none" =>
        /\ row.proposed.sizing \in Sizings /\ OnItsMarket(row.proposed.sizing)
        /\ row.proposed.funds > 0 => row.proposed.sizing.amount <= row.proposed.funds
        /\ row.proposed.intent = "HIGH_FREQUENCY_SCALPING"
             => row.proposed.sizing.kind = "uniswap_v3"

LEMMA ProposalStarts == SizingInit => ProposalInv
BY DEF SizingInit, ProposalInv, IsRow

(* Sizing: from the widget to the keeper *)

IsWidget(w) == w = [open |-> w.open, meta |-> w.meta, text |-> w.text, typed |-> w.typed,
                    busy |-> w.busy, get |-> w.get]

\* What a widget shows of a row that is still a draft is the proposal, except a
\* text the user typed.
WidgetFits(w, p) ==
    /\ IsWidget(w) /\ w.get \in {<<>>, <<Nil>>, <<p>>}
    /\ w.meta # Nil => w.meta = p /\ (~w.typed => w.text = RawToDisplay(p.amount))
\* What a confirmation asks for of a proposal, as the user edited it or not.
AskFits(asks, p) == ~asks.typed => asks.amount = p.amount
\* A confirmation that may still be taken carries the text that was on screen.
PostFits(q, p) ==
    /\ q.amount = Plain(q.asks.amount) /\ q.asks.amount > 0
    /\ q.out = p.out /\ q.fee = p.fee
    /\ AskFits(q.asks, p)
\* A confirmed sizing is the proposal with the amount that was asked for.
SizingFits(sizing, asks, p) ==
    /\ sizing.amount = asks.amount /\ AskFits(asks, p)
    /\ sizing.out = p.out /\ sizing.kind = p.kind /\ sizing.mode = p.mode
CallFits(call, sizing) ==
    /\ call.amount = sizing.amount /\ call.out = sizing.out
    /\ call.router = IF sizing.kind = "primary_mint" \/ sizing.mode \in Primary THEN "primary" ELSE "dex"
SentFits(call, by, p) ==
    call # Nil =>
        /\ call.amount = by.amount /\ AskFits(by, p) /\ call.out = p.out
        /\ call.router = IF p.kind = "primary_mint" \/ p.mode \in Primary THEN "primary" ELSE "dex"

\* The confirmations on their way, each with what it made of the proposal.
FlightFits(f, p) == \A c \in Confirmers : f[c] # Nil => SizingFits(f[c].sizing, f[c].asks, p)
NoFlight(f) == \A c \in Confirmers : f[c] = Nil
OneFlight(f) == \A c, d \in Confirmers : f[c] # Nil /\ f[d] # Nil => c = d

NoneInv == widget = Closed /\ post = Nil /\ sent = Nil /\ firstAsked = Nil /\ NoFlight(flight)
DraftInv ==
    /\ sent = Nil /\ firstAsked = Nil /\ row.sizing = row.proposed.sizing
    /\ WidgetFits(widget, row.proposed.sizing)
    /\ post # Nil => PostFits(post, row.proposed.sizing)
    /\ FlightFits(flight, row.proposed.sizing)
    /\ contested \/ OneFlight(flight)
TakenInv ==
    /\ SizingFits(row.sizing, lastAsked, row.proposed.sizing)
    /\ FlightFits(flight, row.proposed.sizing)
    /\ sent # Nil => /\ SizingFits(sent.sizing, sent.by, row.proposed.sizing)
                     /\ SentFits(sent.call, sent.by, row.proposed.sizing)
    /\ contested \/ /\ NoFlight(flight) /\ lastAsked = firstAsked
                    /\ sent # Nil => sent.by = firstAsked
ConfirmInv ==
    /\ contested \in BOOLEAN /\ flight = [c \in Confirmers |-> flight[c]]
    /\ row.status \in {"none", "DRAFT", "SUBMITTED", "CONFIRMED", "FAILED"}
    /\ row.status = "none" => NoneInv
    /\ row.status = "DRAFT" => DraftInv
    /\ row.status \in {"SUBMITTED", "CONFIRMED", "FAILED"} => TakenInv

LEMMA ConfirmStarts == SizingInit => ConfirmInv
<1> SUFFICES ASSUME SizingInit PROVE ConfirmInv
  OBVIOUS
<1>1. flight = [c \in Confirmers |-> Nil]
  BY DEF SizingInit
<1>2. NoFlight(flight) /\ flight = [c \in Confirmers |-> flight[c]]
  BY <1>1 DEF NoFlight
<1>3. NoneInv /\ row.status = "none" /\ contested \in BOOLEAN
  BY <1>2 DEF SizingInit, NoneInv
<1> QED BY <1>2, <1>3 DEF ConfirmInv

\* Every other step leaves the proposal as it was made.
KeepsProposal ==
    /\ IsRow(row') /\ row'.proposed = row.proposed /\ funds' \in Funds
    /\ row'.status # "none" => row.status # "none"

LEMMA ProposalGoesOn == ProposalInv /\ ConfirmInv /\ [SizingNext]_sizingVars => ProposalInv'
<1> SUFFICES ASSUME ProposalInv, ConfirmInv, [SizingNext]_sizingVars PROVE ProposalInv'
  OBVIOUS
<1>1. ASSUME NEW s \in Strategies, NEW routing \in Routings, ProposeExecution(s, routing) PROVE ProposalInv'
  <2>1. PICK sizing : sizing = ComputeSizing(s, routing)
    OBVIOUS
  <2>2. /\ GuardAccepts(s, routing) /\ sizing # Nil /\ funds' = funds
        /\ row' = [status |-> "DRAFT", sizing |-> sizing,
                   proposed |-> [intent |-> s.intent, sizing |-> sizing, funds |-> funds]]
    BY <1>1, <2>1 DEF ProposeExecution
  <2>3. /\ sizing \in Sizings /\ OnItsMarket(sizing)
        /\ funds > 0 => sizing.amount <= funds
        /\ sizing.kind = "primary_mint" => UsePrimary(s, routing)
    BY <2>1, <2>2, SizingIs DEF ProposalInv
  <2>4. s.intent = "HIGH_FREQUENCY_SCALPING" => sizing.kind = "uniswap_v3"
    <3> SUFFICES ASSUME s.intent = "HIGH_FREQUENCY_SCALPING", sizing.kind = "primary_mint" PROVE FALSE
      BY <2>3 DEF Sizings
    <3>1. routing = "SECONDARY_AMM"
      BY <2>2 DEF GuardAccepts, HftAccepts
    <3> QED BY <2>3, <3>1 DEF UsePrimary, Primary
  <2> QED BY <2>2, <2>3, <2>4 DEF ProposalInv, IsRow
<1>2. ASSUME KeepsProposal PROVE ProposalInv'
  BY <1>2 DEF KeepsProposal, ProposalInv
<1>3. CASE UNCHANGED sizingVars
  BY <1>2, <1>3 DEF sizingVars, KeepsProposal, ProposalInv
<1>4. CASE FundsMove
  BY <1>2, <1>4 DEF FundsMove, KeepsProposal, ProposalInv
<1>5. CASE UNCHANGED <<row, funds>>
  BY <1>2, <1>5 DEF KeepsProposal, ProposalInv
<1>6. ASSUME NEW c \in Confirmers, ConfirmationWrites(c) PROVE ProposalInv'
  <2>1. PICK m : funds' = funds /\ flight[c] # Nil /\ row' = Written(row, m)
    BY <1>6 DEF ConfirmationWrites, Written
  <2>2. row.status # "none"
    BY <2>1 DEF ConfirmInv, NoneInv, NoFlight
  <2>3. IsRow(row') /\ row'.proposed = row.proposed
    BY <2>1, RowMoves DEF ProposalInv, RowMoved
  <2> QED BY <1>2, <2>1, <2>2, <2>3 DEF KeepsProposal, ProposalInv
<1>7. CASE Settle
  <2>1. PICK status : funds' = funds /\ sent # Nil /\ row' = Told(row, status)
    BY <1>7 DEF Settle, Told
  <2>2. row.status # "none"
    BY <2>1 DEF ConfirmInv, NoneInv
  <2>3. IsRow(row') /\ row'.proposed = row.proposed
    BY <2>1, RowMoves DEF ProposalInv, RowMoved
  <2> QED BY <1>2, <2>1, <2>2, <2>3 DEF KeepsProposal, ProposalInv
<1>8. ASSUME NEW c \in Confirmers, OtherRouteReads(c) \/ ToolReads(c) \/ ConfirmationFails(c)
      PROVE  ProposalInv'
  BY <1>5, <1>8 DEF OtherRouteReads, ToolReads, Finds, ConfirmationFails
<1>9. CASE \/ (\E text \in Texts : Type(text)) \/ ShowProposal \/ OpenReport \/ FetchAnswered
           \/ FetchArrives \/ Confirm \/ RouteReads \/ SweepReads \/ Sweep
  BY <1>5, <1>9
  DEF Type, ShowProposal, OpenReport, FetchAnswered, FetchArrives, Confirm, RouteReads, Finds,
      SweepReads, Sweep
<1> QED BY <1>1, <1>3, <1>4, <1>6, <1>7, <1>8, <1>9 DEF SizingNext, Confirmers

LEMMA BuiltIs == ASSUME NEW sizing, NEW call \in Built(sizing) PROVE CallFits(call, sizing)
BY DEF Built, Quoted, Call, CallFits

\* What a confirmation sends of a proposal's text, or of one typed over it.
LEMMA BodyFits ==
    ASSUME NEW p, p.amount \in Nat \ {0}, NEW text, NEW typed, DisplayToRaw(text) > 0,
           ~typed => text = RawToDisplay(p.amount)
    PROVE  PostFits(Body(text, typed, p), p)
<1>1. PICK v : v = DisplayToRaw(text) /\ v > 0
  OBVIOUS
<1>2. v = Value(text)
  <2>1. v \in {0, Value(text)}
    BY <1>1 DEF DisplayToRaw
  <2>2. v # 0
    BY <1>1
  <2> QED BY <2>1, <2>2
<1>3. ~typed => Value(text) = p.amount
  <2>1. PICK raw \in Nat : raw = p.amount
    OBVIOUS
  <2>2. Value(RawToDisplay(raw)) = raw
    BY RoundTripOfTexts
  <2> QED BY <2>1, <2>2
<1>4. PICK q : q = Body(text, typed, p)
  OBVIOUS
<1>5. /\ q.amount = Plain(v) /\ q.out = p.out /\ q.fee = p.fee
      /\ q.asks.amount = v
  BY <1>1, <1>2, <1>4 DEF Body
<1>6. AskFits(q.asks, p)
  BY <1>3, <1>4 DEF Body, AskFits
<1> QED BY <1>1, <1>4, <1>5, <1>6 DEF PostFits

\* The amount the route reads is the one the widget wrote, or nothing.
LEMMA MergedIs ==
    ASSUME NEW v, v > 0, NEW amount, amount = MergedAmount(Plain(v)), amount > 0
    PROVE  amount = v
<1>1. Plain(v).whole = v /\ Plain(v).point = FALSE
  BY DEF Plain
<1>2. CASE Plain(v) = Garbage
  <2>1. amount = 0
    BY <1>2 DEF MergedAmount, DisplayToRaw
  <2> QED BY <2>1
<1>3. CASE Plain(v) # Garbage
  BY <1>1, <1>3 DEF MergedAmount
<1> QED BY <1>2, <1>3

LEMMA MergeFits ==
    ASSUME NEW p \in Sizings, NEW q, PostFits(q, p), NEW merged, merged = MergeSizing(p, q), merged.amount > 0
    PROVE  SizingFits(merged, q.asks, p)
<1>1. PICK amount : amount = MergedAmount(q.amount)
  OBVIOUS
<1>2. /\ merged.amount = amount /\ merged.out = q.out /\ merged.kind = p.kind /\ merged.mode = p.mode
  BY <1>1 DEF MergeSizing, Sizings
<1>3. amount = q.asks.amount
  BY <1>1, <1>2, MergedIs DEF PostFits
<1> QED BY <1>2, <1>3 DEF SizingFits, PostFits

\* A tool call carries the amount of the draft or one of its own.
LEMMA ToolFits ==
    ASSUME NEW p \in Sizings, NEW amount
    PROVE  SizingFits([p EXCEPT !.amount = amount], [amount |-> amount, typed |-> amount # p.amount], p)
<1>1. PICK edited \in BOOLEAN : edited = (amount # p.amount)
  OBVIOUS
<1>2. PICK asks : asks = [amount |-> amount, typed |-> edited]
  OBVIOUS
<1>3. AskFits(asks, p) /\ asks.amount = amount
  BY <1>1, <1>2 DEF AskFits
<1>4. PICK m : m = [p EXCEPT !.amount = amount]
  OBVIOUS
<1>5. m.amount = amount /\ m.out = p.out /\ m.kind = p.kind /\ m.mode = p.mode
  BY <1>4 DEF Sizings
<1>6. SizingFits(m, asks, p)
  BY <1>3, <1>5 DEF SizingFits
<1> QED BY <1>1, <1>2, <1>4, <1>6

\* The steps of the widget.
WidgetShows(w, m, x) == [w EXCEPT !.open = TRUE, !.meta = m, !.text = x, !.typed = FALSE]
WidgetGets(w, g) == [w EXCEPT !.get = g]
WidgetTypes(w, x) == [w EXCEPT !.text = x, !.typed = TRUE]
WidgetBusy(w, b) == [w EXCEPT !.busy = b]

\* v is a widget with these fields.
WidgetMoved(v, meta, text, typed, get) ==
    IsWidget(v) /\ v.meta = meta /\ v.text = text /\ v.typed = typed /\ v.get = get

LEMMA ShowMoves ==
    ASSUME NEW w, IsWidget(w), NEW m, NEW x
    PROVE  WidgetMoved(WidgetShows(w, m, x), m, x, FALSE, w.get)
<1>1. PICK A, B, C, D, E, F : A = {w.open, TRUE} /\ B = {w.meta, m} /\ C = {w.text, x} /\ D = {w.typed, FALSE} /\ E = {w.busy} /\ F = {w.get}
  OBVIOUS
<1> DEFINE Widgets == [open : A, meta : B, text : C, typed : D, busy : E, get : F]
<1>2. w \in Widgets
  BY <1>1 DEF IsWidget
<1>3. \A v \in Widgets : IsWidget(v)
  BY DEF IsWidget
<1>4. WidgetShows(w, m, x) \in Widgets
  BY <1>1, <1>2 DEF WidgetShows
<1> QED BY <1>2, <1>3, <1>4 DEF WidgetMoved, WidgetShows

LEMMA GetMoves ==
    ASSUME NEW w, IsWidget(w), NEW g
    PROVE  WidgetMoved(WidgetGets(w, g), w.meta, w.text, w.typed, g)
<1>1. PICK A, B, C, D, E, F : A = {w.open} /\ B = {w.meta} /\ C = {w.text} /\ D = {w.typed} /\ E = {w.busy} /\ F = {w.get, g}
  OBVIOUS
<1> DEFINE Widgets == [open : A, meta : B, text : C, typed : D, busy : E, get : F]
<1>2. w \in Widgets
  BY <1>1 DEF IsWidget
<1>3. \A v \in Widgets : IsWidget(v)
  BY DEF IsWidget
<1>4. WidgetGets(w, g) \in Widgets
  BY <1>1, <1>2 DEF WidgetGets
<1> QED BY <1>2, <1>3, <1>4 DEF WidgetMoved, WidgetGets

LEMMA TypeMoves ==
    ASSUME NEW w, IsWidget(w), NEW x
    PROVE  WidgetMoved(WidgetTypes(w, x), w.meta, x, TRUE, w.get)
<1>1. PICK A, B, C, D, E, F : A = {w.open} /\ B = {w.meta} /\ C = {w.text, x} /\ D = {w.typed, TRUE} /\ E = {w.busy} /\ F = {w.get}
  OBVIOUS
<1> DEFINE Widgets == [open : A, meta : B, text : C, typed : D, busy : E, get : F]
<1>2. w \in Widgets
  BY <1>1 DEF IsWidget
<1>3. \A v \in Widgets : IsWidget(v)
  BY DEF IsWidget
<1>4. WidgetTypes(w, x) \in Widgets
  BY <1>1, <1>2 DEF WidgetTypes
<1> QED BY <1>2, <1>3, <1>4 DEF WidgetMoved, WidgetTypes

LEMMA BusyMoves ==
    ASSUME NEW w, IsWidget(w), NEW b
    PROVE  WidgetMoved(WidgetBusy(w, b), w.meta, w.text, w.typed, w.get)
<1>1. PICK A, B, C, D, E, F : A = {w.open} /\ B = {w.meta} /\ C = {w.text} /\ D = {w.typed} /\ E = {w.busy, b} /\ F = {w.get}
  OBVIOUS
<1> DEFINE Widgets == [open : A, meta : B, text : C, typed : D, busy : E, get : F]
<1>2. w \in Widgets
  BY <1>1 DEF IsWidget
<1>3. \A v \in Widgets : IsWidget(v)
  BY DEF IsWidget
<1>4. WidgetBusy(w, b) \in Widgets
  BY <1>1, <1>2 DEF WidgetBusy
<1> QED BY <1>2, <1>3, <1>4 DEF WidgetMoved, WidgetBusy

LEMMA ClosedFits ==
    ASSUME NEW p PROVE WidgetFits(Closed, p) /\ WidgetFits([Closed EXCEPT !.open = TRUE, !.get = <<Nil>>], p)
<1>1. PICK v : v = [Closed EXCEPT !.open = TRUE, !.get = <<Nil>>]
  OBVIOUS
<1>2. v = [open |-> TRUE, meta |-> Nil, text |-> Plain(0), typed |-> FALSE, busy |-> FALSE, get |-> <<Nil>>]
  BY <1>1 DEF Closed
<1>3. IsWidget(v) /\ v.meta = Nil /\ v.get = <<Nil>>
  BY <1>2 DEF IsWidget
<1>4. IsWidget(Closed) /\ Closed.meta = Nil /\ Closed.get = <<>>
  BY DEF IsWidget, Closed
<1> QED BY <1>1, <1>3, <1>4 DEF WidgetFits

LEMMA ShowsFits ==
    ASSUME NEW p, WidgetFits(widget, p)
    PROVE  /\ WidgetFits(Shows(p), p)
           /\ WidgetFits([Shows(p) EXCEPT !.get = <<>>], p)
<1>1. PICK v : v = Shows(p)
  OBVIOUS
<1>2. v = WidgetShows(widget, p, RawToDisplay(p.amount))
  BY <1>1 DEF Shows, WidgetShows
<1>3. WidgetMoved(v, p, RawToDisplay(p.amount), FALSE, widget.get)
  BY <1>2, ShowMoves DEF WidgetFits
<1>4. PICK u : u = WidgetGets(v, <<>>)
  OBVIOUS
<1>5. WidgetMoved(u, v.meta, v.text, v.typed, <<>>)
  BY <1>3, <1>4, GetMoves DEF WidgetMoved
<1>6. WidgetFits(v, p) /\ WidgetFits(u, p)
  BY <1>3, <1>5 DEF WidgetFits, WidgetMoved
<1> QED BY <1>1, <1>4, <1>6 DEF WidgetGets

LEMMA GetFits ==
    ASSUME NEW p, WidgetFits(widget, p)
    PROVE  WidgetFits([widget EXCEPT !.get = <<p>>], p)
<1>1. PICK v : v = WidgetGets(widget, <<p>>)
  OBVIOUS
<1>2. WidgetMoved(v, widget.meta, widget.text, widget.typed, <<p>>)
  BY <1>1, GetMoves DEF WidgetFits
<1>3. WidgetFits(v, p)
  BY <1>2 DEF WidgetFits, WidgetMoved
<1> QED BY <1>1, <1>3 DEF WidgetGets

LEMMA TypeFits ==
    ASSUME NEW p, NEW text, WidgetFits(widget, p)
    PROVE  WidgetFits([widget EXCEPT !.text = text, !.typed = TRUE], p)
<1>1. PICK v : v = WidgetTypes(widget, text)
  OBVIOUS
<1>2. WidgetMoved(v, widget.meta, text, TRUE, widget.get)
  BY <1>1, TypeMoves DEF WidgetFits
<1>3. WidgetFits(v, p)
  BY <1>2 DEF WidgetFits, WidgetMoved
<1> QED BY <1>1, <1>3 DEF WidgetTypes

LEMMA BusyFits ==
    ASSUME NEW p, NEW b, WidgetFits(widget, p)
    PROVE  WidgetFits([widget EXCEPT !.busy = b], p)
<1>1. PICK v : v = WidgetBusy(widget, b)
  OBVIOUS
<1>2. WidgetMoved(v, widget.meta, widget.text, widget.typed, widget.get)
  BY <1>1, BusyMoves DEF WidgetFits
<1>3. WidgetFits(v, p)
  BY <1>2 DEF WidgetFits, WidgetMoved
<1> QED BY <1>1, <1>3 DEF WidgetBusy

\* Steps that leave the row, what was sent and the flights as they are.
LEMMA DraftGoesOn ==
    ASSUME ProposalInv, ConfirmInv, UNCHANGED <<row, sent, flight, history>>,
           row.status = "none" => widget' = widget /\ post' = post,
           row.status = "DRAFT" =>
               /\ WidgetFits(widget', row.proposed.sizing)
               /\ post' # Nil => PostFits(post', row.proposed.sizing)
    PROVE  ConfirmInv'
<1>1. /\ row' = row /\ sent' = sent /\ flight' = flight
      /\ firstAsked' = firstAsked /\ lastAsked' = lastAsked /\ contested' = contested
  BY DEF history
<1>2. CASE row.status = "none"
  BY <1>1, <1>2 DEF ConfirmInv, NoneInv
<1>3. CASE row.status = "DRAFT"
  BY <1>1, <1>3 DEF ConfirmInv, DraftInv
<1>4. CASE row.status \in {"SUBMITTED", "CONFIRMED", "FAILED"}
  BY <1>1, <1>4 DEF ConfirmInv, TakenInv
<1> QED BY <1>2, <1>3, <1>4 DEF ConfirmInv

\* A flight that starts or ends leaves the others.
LEMMA FlightMoves ==
    ASSUME NEW f, f = [c \in Confirmers |-> f[c]], NEW k \in Confirmers, NEW x, NEW g,
           g = [f EXCEPT ![k] = x]
    PROVE  /\ g = [c \in Confirmers |-> g[c]] /\ g[k] = x
           /\ \A c \in Confirmers : c # k => g[c] = f[c]
OBVIOUS

\* A confirmation that finds the draft.
LEMMA FlightStarts ==
    ASSUME ConfirmInv, row.status = "DRAFT", NEW k \in Confirmers, NEW sizing, NEW asks,
           Finds(k, sizing, asks), SizingFits(sizing, asks, row.proposed.sizing), widget' = widget,
           post' # Nil => PostFits(post', row.proposed.sizing)
    PROVE  ConfirmInv'
<1>1. PICK x : x = [sizing |-> sizing, asks |-> asks]
  OBVIOUS
<1>2. x.sizing = sizing /\ x.asks = asks
  BY <1>1
<1>3. /\ flight' = [flight EXCEPT ![k] = x]
      /\ contested' = (contested \/ \E d \in Confirmers : flight[d] # Nil)
      /\ row' = row /\ sent' = sent /\ firstAsked' = firstAsked
  BY <1>1 DEF Finds
<1>4. /\ flight' = [c \in Confirmers |-> flight'[c]] /\ flight'[k] = x
      /\ \A c \in Confirmers : c # k => flight'[c] = flight[c]
  BY <1>3, FlightMoves DEF ConfirmInv
<1>5. FlightFits(flight', row.proposed.sizing)
  BY <1>2, <1>4 DEF FlightFits, ConfirmInv, DraftInv
<1>6. contested' \/ OneFlight(flight')
  <2>1. CASE \E d \in Confirmers : flight[d] # Nil
    BY <1>3, <2>1
  <2>2. CASE \A d \in Confirmers : flight[d] = Nil
    BY <1>4, <2>2 DEF OneFlight
  <2> QED BY <2>1, <2>2
<1>7. contested' \in BOOLEAN
  BY <1>3
<1>8. DraftInv'
  BY <1>3, <1>5, <1>6 DEF ConfirmInv, DraftInv
<1> QED BY <1>3, <1>4, <1>7, <1>8 DEF ConfirmInv

\* A confirmation that ends without writing.
LEMMA FlightEnds ==
    ASSUME ConfirmInv, NEW k \in Confirmers, flight[k] # Nil, flight' = [flight EXCEPT ![k] = Nil],
           UNCHANGED <<row, sent, post, history>>,
           row.status = "DRAFT" => WidgetFits(widget', row.proposed.sizing)
    PROVE  ConfirmInv'
<1>1. /\ row' = row /\ sent' = sent /\ post' = post
      /\ firstAsked' = firstAsked /\ lastAsked' = lastAsked /\ contested' = contested
  BY DEF history
<1>2. /\ flight' = [c \in Confirmers |-> flight'[c]] /\ flight'[k] = Nil
      /\ \A c \in Confirmers : c # k => flight'[c] = flight[c]
  BY FlightMoves DEF ConfirmInv
<1>3. \A q : FlightFits(flight, q) => FlightFits(flight', q)
  BY <1>2 DEF FlightFits
<1>4. (OneFlight(flight) => OneFlight(flight')) /\ ~NoFlight(flight)
  BY <1>2 DEF OneFlight, NoFlight
<1>5. row.status # "none"
  BY <1>4 DEF ConfirmInv, NoneInv
<1>6. CASE row.status = "DRAFT"
  <2>1. DraftInv'
    BY <1>1, <1>3, <1>4, <1>6 DEF ConfirmInv, DraftInv
  <2> QED BY <1>1, <1>2, <1>6, <2>1 DEF ConfirmInv
<1>7. CASE row.status \in {"SUBMITTED", "CONFIRMED", "FAILED"}
  <2>1. TakenInv'
    BY <1>1, <1>3, <1>4, <1>7 DEF ConfirmInv, TakenInv
  <2> QED BY <1>1, <1>2, <1>7, <2>1 DEF ConfirmInv
<1> QED BY <1>5, <1>6, <1>7 DEF ConfirmInv

\* A confirmation that writes, over a draft or over what another one wrote.
LEMMA FlightWrites ==
    ASSUME ProposalInv, ConfirmInv, NEW k \in Confirmers, ConfirmationWrites(k)
    PROVE  ConfirmInv'
<1> DEFINE p == row.proposed.sizing
<1>1. /\ flight[k] # Nil /\ row' = Written(row, flight[k].sizing) /\ lastAsked' = flight[k].asks
      /\ firstAsked' = IF firstAsked = Nil THEN flight[k].asks ELSE firstAsked
      /\ flight' = [flight EXCEPT ![k] = Nil] /\ sent' = sent /\ contested' = contested
  BY DEF ConfirmationWrites, Written
<1>2. /\ flight' = [c \in Confirmers |-> flight'[c]] /\ flight'[k] = Nil
      /\ \A c \in Confirmers : c # k => flight'[c] = flight[c]
  BY <1>1, FlightMoves DEF ConfirmInv
<1>3. /\ row'.status = "SUBMITTED" /\ row'.sizing = flight[k].sizing /\ row'.proposed = row.proposed
  BY <1>1, RowMoves DEF ProposalInv, RowMoved
<1>4. row.status # "none" /\ ~NoFlight(flight)
  BY <1>1 DEF ConfirmInv, NoneInv, NoFlight
<1>5. FlightFits(flight, p) /\ (contested \/ (OneFlight(flight) /\ sent = Nil /\ firstAsked = Nil))
  BY <1>4 DEF ConfirmInv, DraftInv, TakenInv
<1>6. SizingFits(row'.sizing, lastAsked', p) /\ FlightFits(flight', p)
  BY <1>1, <1>2, <1>3, <1>5 DEF FlightFits
<1>7. sent # Nil => SizingFits(sent.sizing, sent.by, p) /\ SentFits(sent.call, sent.by, p)
  BY <1>4 DEF ConfirmInv, DraftInv, TakenInv
<1>8. contested' \/ (NoFlight(flight') /\ lastAsked' = firstAsked' /\ sent' = Nil)
  <2>1. OneFlight(flight) => NoFlight(flight')
    BY <1>1, <1>2 DEF OneFlight, NoFlight
  <2> QED BY <1>1, <1>5, <2>1
<1>9. TakenInv'
  BY <1>1, <1>3, <1>6, <1>7, <1>8 DEF TakenInv
<1> QED BY <1>1, <1>2, <1>3, <1>9 DEF ConfirmInv

LEMMA ConfirmGoesOn == ProposalInv /\ ConfirmInv /\ [SizingNext]_sizingVars => ConfirmInv'
<1> SUFFICES ASSUME ProposalInv, ConfirmInv, [SizingNext]_sizingVars PROVE ConfirmInv'
  OBVIOUS
<1> DEFINE p == row.proposed.sizing
<1>1. row.status = "DRAFT" =>
        /\ sent = Nil /\ row.sizing = p /\ WidgetFits(widget, p)
        /\ post # Nil => PostFits(post, p)
  BY DEF ConfirmInv, DraftInv
<1>2. row.status = "none" => widget = Closed /\ post = Nil /\ sent = Nil /\ NoFlight(flight)
  BY DEF ConfirmInv, NoneInv
<1>3. row.status # "none" => p \in Sizings /\ OnItsMarket(p) /\ p.amount \in Nat \ {0}
  BY DEF ProposalInv, Sizings
<1>4. IsRow(row)
  BY DEF ProposalInv
<1> HIDE DEF p
<1>5. ASSUME NEW s \in Strategies, NEW routing \in Routings, ProposeExecution(s, routing) PROVE ConfirmInv'
  <2>1. PICK sizing : sizing = ComputeSizing(s, routing)
    OBVIOUS
  <2>2. /\ row' = [status |-> "DRAFT", sizing |-> sizing,
                   proposed |-> [intent |-> s.intent, sizing |-> sizing, funds |-> funds]]
        /\ row.status = "none"
    BY <1>5, <2>1 DEF ProposeExecution
  <2>3. /\ widget' = widget /\ post' = post /\ sent' = sent /\ flight' = flight
        /\ firstAsked' = firstAsked /\ contested' = contested
    BY <1>5 DEF ProposeExecution, history
  <2>4. /\ row'.status = "DRAFT" /\ row'.sizing = sizing
        /\ row'.proposed.sizing = sizing
    BY <2>2
  <2>5. WidgetFits(widget', sizing) /\ post' = Nil /\ sent' = Nil
    BY <1>2, <2>2, <2>3, ClosedFits
  <2>6. FlightFits(flight', sizing) /\ OneFlight(flight')
    BY <1>2, <2>2, <2>3 DEF NoFlight, FlightFits, OneFlight
  <2>7. firstAsked' = Nil
    BY <2>2, <2>3 DEF ConfirmInv, NoneInv
  <2>8. DraftInv'
    BY <2>4, <2>5, <2>6, <2>7 DEF DraftInv
  <2> QED BY <2>3, <2>4, <2>8 DEF ConfirmInv
<1>6. CASE UNCHANGED sizingVars
  <2>1. UNCHANGED <<row, sent, flight, history, widget, post>>
    BY <1>6 DEF sizingVars, history
  <2> QED BY <1>1, <1>2, <2>1, DraftGoesOn DEF p
<1>7. CASE FundsMove
  <2>1. UNCHANGED <<row, sent, flight, history, widget, post>>
    BY <1>7 DEF FundsMove
  <2> QED BY <1>1, <1>2, <2>1, DraftGoesOn DEF p
<1>8. CASE ShowProposal
  <2>1. row.status # "none" /\ widget' = Shows(p) /\ UNCHANGED <<row, post, sent, flight, history>>
    BY <1>8 DEF ShowProposal, p
  <2>2. row.status = "DRAFT" => WidgetFits(widget', p)
    BY <1>1, <2>1, ShowsFits
  <2> QED BY <1>1, <2>1, <2>2, DraftGoesOn DEF p
<1>9. CASE OpenReport
  <2>1. /\ row.status # "none" /\ widget' = [Closed EXCEPT !.open = TRUE, !.get = <<Nil>>]
        /\ UNCHANGED <<row, post, sent, flight, history>>
    BY <1>9 DEF OpenReport
  <2>2. WidgetFits(widget', p)
    BY <2>1, ClosedFits
  <2> QED BY <1>1, <2>1, <2>2, DraftGoesOn DEF p
<1>10. CASE FetchAnswered
  <2>1. /\ widget.get = <<Nil>> /\ widget' = [widget EXCEPT !.get = <<row.sizing>>]
        /\ UNCHANGED <<row, post, sent, flight, history>>
    BY <1>10 DEF FetchAnswered
  <2>2. row.status # "none"
    BY <1>2, <2>1 DEF Closed
  <2>3. row.status = "DRAFT" => WidgetFits(widget', p)
    <3> SUFFICES ASSUME row.status = "DRAFT" PROVE WidgetFits(widget', p)
      OBVIOUS
    <3>1. widget' = [widget EXCEPT !.get = <<p>>] /\ WidgetFits(widget, p)
      BY <1>1, <2>1
    <3> QED BY <3>1, GetFits
  <2> QED BY <1>1, <2>1, <2>2, <2>3, DraftGoesOn DEF p
<1>11. CASE FetchArrives
  <2>1. /\ widget.get \notin {<<>>, <<Nil>>} /\ widget' = [Shows(widget.get[1]) EXCEPT !.get = <<>>]
        /\ UNCHANGED <<row, post, sent, flight, history>>
    BY <1>11 DEF FetchArrives
  <2>2. row.status # "none"
    BY <1>2, <2>1 DEF Closed
  <2>3. row.status = "DRAFT" => WidgetFits(widget', p)
    <3> SUFFICES ASSUME row.status = "DRAFT" PROVE WidgetFits(widget', p)
      OBVIOUS
    <3>1. WidgetFits(widget, p) /\ widget.get = <<p>>
      BY <1>1, <2>1 DEF WidgetFits
    <3>2. widget.get[1] = p
      BY <3>1
    <3>3. widget' = [Shows(p) EXCEPT !.get = <<>>]
      BY <2>1, <3>2
    <3> QED BY <3>1, <3>3, ShowsFits
  <2> QED BY <1>1, <2>1, <2>2, <2>3, DraftGoesOn DEF p
<1>12. ASSUME NEW text \in Texts, Type(text) PROVE ConfirmInv'
  <2>1. /\ widget.open /\ widget' = [widget EXCEPT !.text = text, !.typed = TRUE]
        /\ UNCHANGED <<row, post, sent, flight, history>>
    BY <1>12 DEF Type
  <2>2. row.status # "none"
    BY <1>2, <2>1 DEF Closed
  <2>3. row.status = "DRAFT" => WidgetFits(widget', p)
    BY <1>1, <2>1, TypeFits
  <2> QED BY <1>1, <2>1, <2>2, <2>3, DraftGoesOn DEF p
<1>13. CASE Confirm
  <2>1. /\ widget.open /\ widget.meta # Nil /\ DisplayToRaw(widget.text) > 0
        /\ post' = Body(widget.text, widget.typed, widget.meta)
        /\ widget' = [widget EXCEPT !.busy = TRUE] /\ UNCHANGED <<row, sent, flight, history>>
    BY <1>13 DEF Confirm
  <2>2. row.status # "none"
    BY <1>2, <2>1 DEF Closed
  <2>3. row.status = "DRAFT" => WidgetFits(widget', p) /\ PostFits(post', p)
    <3> SUFFICES ASSUME row.status = "DRAFT" PROVE WidgetFits(widget', p) /\ PostFits(post', p)
      OBVIOUS
    <3>1. WidgetFits(widget, p)
      BY <1>1
    <3>2. WidgetFits(widget', p)
      BY <2>1, <3>1, BusyFits
    <3>3. widget.meta = p /\ (~widget.typed => widget.text = RawToDisplay(p.amount))
      BY <2>1, <3>1 DEF WidgetFits
    <3>4. PostFits(Body(widget.text, widget.typed, p), p)
      BY <1>3, <2>1, <2>2, <3>3, BodyFits
    <3> QED BY <2>1, <3>2, <3>3, <3>4
  <2> QED BY <2>1, <2>2, <2>3, DraftGoesOn DEF p
<1>14. CASE RouteReads
  <2>1. PICK merged : merged = MergeSizing(row.sizing, post)
    OBVIOUS
  <2>2. /\ post # Nil /\ post' = Nil
        /\ \/ /\ row.status = "DRAFT" /\ merged.amount > 0
              /\ Finds("here", merged, post.asks) /\ widget' = widget
           \/ /\ widget' = [widget EXCEPT !.busy = FALSE]
              /\ UNCHANGED <<row, sent, flight, history>>
    BY <1>14, <2>1 DEF RouteReads, Answers
  <2>3. row.status # "none"
    BY <1>2, <2>2
  <2>4. CASE row.status = "DRAFT" /\ merged.amount > 0 /\ Finds("here", merged, post.asks) /\ widget' = widget
    <3>1. row.sizing = p /\ PostFits(post, p) /\ p \in Sizings
      BY <1>1, <1>3, <2>2, <2>4
    <3>2. SizingFits(merged, post.asks, p)
      BY <2>1, <2>4, <3>1, MergeFits
    <3>3. "here" \in Confirmers
      BY DEF Confirmers
    <3> QED BY <2>2, <2>4, <3>2, <3>3, FlightStarts DEF p
  <2>5. CASE widget' = [widget EXCEPT !.busy = FALSE] /\ UNCHANGED <<row, sent, flight, history>>
    <3>1. row.status = "DRAFT" => WidgetFits(widget', p)
      BY <1>1, <2>5, BusyFits
    <3> QED BY <2>2, <2>3, <2>5, <3>1, DraftGoesOn DEF p
  <2> QED BY <2>2, <2>4, <2>5
<1>15. ASSUME NEW k \in Elsewhere, OtherRouteReads(k) PROVE ConfirmInv'
  <2>1. /\ row.status = "DRAFT" /\ widget' = widget /\ post' = post /\ k \in Confirmers
        /\ row.sizing = p /\ p \in Sizings /\ p.amount \in Nat \ {0}
    BY <1>1, <1>3, <1>15 DEF OtherRouteReads, Confirmers
  <2>2. PICK typed, text :
          /\ ~typed => text = RawToDisplay(p.amount)
          /\ DisplayToRaw(text) > 0
          /\ MergeSizing(p, Body(text, typed, p)).amount > 0
          /\ Finds(k, MergeSizing(p, Body(text, typed, p)), Body(text, typed, p).asks)
    BY <1>15, <2>1 DEF OtherRouteReads, p
  <2>3. PICK body : body = Body(text, typed, p)
    OBVIOUS
  <2>4. PICK merged : merged = MergeSizing(p, body)
    OBVIOUS
  <2>5. PostFits(body, p)
    BY <2>1, <2>2, <2>3, BodyFits
  <2>6. SizingFits(merged, body.asks, p)
    BY <2>1, <2>2, <2>3, <2>4, <2>5, MergeFits
  <2>7. post' # Nil => PostFits(post', p)
    BY <1>1, <2>1
  <2>8. Finds(k, merged, body.asks)
    BY <2>2, <2>3, <2>4
  <2> QED BY <2>1, <2>6, <2>7, <2>8, FlightStarts DEF p
<1>16. ASSUME NEW k \in Elsewhere, ToolReads(k) PROVE ConfirmInv'
  <2>1. /\ row.status = "DRAFT" /\ widget' = widget /\ post' = post /\ k \in Confirmers
        /\ row.sizing = p /\ p \in Sizings
    BY <1>1, <1>3, <1>16 DEF ToolReads, Confirmers
  <2>2. PICK amount : Finds(k, [p EXCEPT !.amount = amount],
                            [amount |-> amount, typed |-> amount # p.amount])
    BY <1>16, <2>1 DEF ToolReads
  <2>3. SizingFits([p EXCEPT !.amount = amount], [amount |-> amount, typed |-> amount # p.amount], p)
    BY <2>1, ToolFits
  <2>4. post' # Nil => PostFits(post', p)
    BY <1>1, <2>1
  <2> QED BY <2>1, <2>2, <2>3, <2>4, FlightStarts DEF p
<1>17. ASSUME NEW k \in Confirmers, ConfirmationWrites(k) PROVE ConfirmInv'
  BY <1>17, FlightWrites
<1>18. ASSUME NEW k \in Confirmers, ConfirmationFails(k) PROVE ConfirmInv'
  <2>1. /\ flight[k] # Nil /\ flight' = [flight EXCEPT ![k] = Nil]
        /\ UNCHANGED <<row, sent, post, history>>
        /\ widget' = [widget EXCEPT !.busy = FALSE] \/ widget' = widget
    BY <1>18 DEF ConfirmationFails, Answers
  <2>2. row.status = "DRAFT" => WidgetFits(widget', p)
    BY <1>1, <2>1, BusyFits
  <2> QED BY <2>1, <2>2, FlightEnds DEF p
<1>19. CASE SweepReads
  <2>1. /\ row.status = "SUBMITTED"
        /\ sent' = [built |-> FALSE, sizing |-> row.sizing, by |-> lastAsked, call |-> Nil]
    BY <1>19 DEF SweepReads
  <2>2. /\ row' = row /\ flight' = flight /\ contested' = contested
        /\ firstAsked' = firstAsked /\ lastAsked' = lastAsked
    BY <1>19 DEF SweepReads, history
  <2>3. TakenInv /\ sent'.sizing = row.sizing /\ sent'.by = lastAsked /\ sent'.call = Nil
    BY <2>1 DEF ConfirmInv
  <2>4. TakenInv'
    BY <2>2, <2>3 DEF TakenInv, SentFits
  <2> QED BY <2>1, <2>2, <2>4 DEF ConfirmInv
<1>20. CASE Sweep
  <2>1. PICK call : /\ sent # Nil /\ (call = Nil \/ call \in Built(sent.sizing))
                    /\ sent' = [built |-> TRUE, sizing |-> sent.sizing, by |-> sent.by, call |-> call]
    BY <1>20 DEF Sweep
  <2>2. /\ row' = row /\ flight' = flight /\ contested' = contested
        /\ firstAsked' = firstAsked /\ lastAsked' = lastAsked
    BY <1>20 DEF Sweep, history
  <2>3. TakenInv /\ row.status \in {"SUBMITTED", "CONFIRMED", "FAILED"} /\ SizingFits(sent.sizing, sent.by, p)
    BY <2>1 DEF ConfirmInv, NoneInv, DraftInv, TakenInv, p
  <2>4. sent'.sizing = sent.sizing /\ sent'.by = sent.by /\ sent'.call = call
    BY <2>1
  <2>5. SentFits(call, sent.by, p)
    <3>1. call # Nil => CallFits(call, sent.sizing)
      BY <2>1, BuiltIs
    <3> QED BY <2>3, <3>1 DEF SentFits, CallFits, SizingFits
  <2>6. TakenInv'
    BY <2>1, <2>2, <2>3, <2>4, <2>5 DEF TakenInv, p
  <2> QED BY <2>2, <2>3, <2>6 DEF ConfirmInv
<1>21. CASE Settle
  <2>1. PICK status \in {"CONFIRMED", "FAILED"} : sent # Nil /\ sent' = Nil /\ row' = Told(row, status)
    BY <1>21 DEF Settle, Told
  <2>2. /\ flight' = flight /\ contested' = contested
        /\ firstAsked' = firstAsked /\ lastAsked' = lastAsked
    BY <1>21 DEF Settle, history
  <2>3. TakenInv
    BY <2>1 DEF ConfirmInv, NoneInv, DraftInv
  <2>4. row'.status = status /\ row'.sizing = row.sizing /\ row'.proposed = row.proposed
    BY <1>4, <2>1, RowMoves DEF RowMoved
  <2>5. TakenInv'
    BY <2>1, <2>2, <2>3, <2>4 DEF TakenInv
  <2> QED BY <2>1, <2>2, <2>4, <2>5 DEF ConfirmInv
<1> QED BY <1>5, <1>6, <1>7, <1>8, <1>9, <1>10, <1>11, <1>12, <1>13, <1>14, <1>15, <1>16,
           <1>17, <1>18, <1>19, <1>20, <1>21 DEF SizingNext

LEMMA SizingAlways == SizingSpec => [](ProposalInv /\ ConfirmInv)
<1>1. SizingInit => ProposalInv /\ ConfirmInv
  BY ProposalStarts, ConfirmStarts
<1>2. ProposalInv /\ ConfirmInv /\ [SizingNext]_sizingVars => (ProposalInv /\ ConfirmInv)'
  BY ProposalGoesOn, ConfirmGoesOn
<1> QED BY <1>1, <1>2, PTL DEF SizingSpec

\* What proposeExecution suggests can be paid by the vault it was sized on, and
\* a scalping strategy is never sized for a primary market (validateHFTExecution,
\* computeExecutionSizing, deriveAmountInFromStrategy).
THEOREM ProposalsFit == SizingSpec => []ProposalFits
<1>1. ProposalInv => ProposalFits
  <2> SUFFICES ASSUME ProposalInv, row.status # "none" PROVE ProposalFits
    BY DEF ProposalFits
  <2>1. row.proposed.sizing.amount \in Nat \ {0}
    BY DEF ProposalInv, Sizings
  <2> QED BY <2>1 DEF ProposalInv, ProposalFits
<1> QED BY <1>1, SizingAlways, PTL

\* For every amount, any number of decimals and any number of confirmations
\* that read the draft before another has written, the keeper trades what the
\* last one written asked for, and that is the first one unless two held the
\* draft at once (rawUsdcToDisplay, displayUsdcToRaw, mergeExecutionSizing, the
\* execute route, executeTradeInternal, buildWeb3SubmissionPayload).
THEOREM ConfirmedAmountsAreTraded == SizingSpec => []ConfirmedIsTraded
<1>1. ProposalInv /\ ConfirmInv => ConfirmedIsTraded
  <2> SUFFICES ASSUME ProposalInv, ConfirmInv, sent # Nil, sent.call # Nil PROVE ConfirmedIsTraded
    BY DEF ConfirmedIsTraded
  <2>1. row.status # "none" /\ TakenInv
    BY DEF ConfirmInv, NoneInv, DraftInv
  <2>2. SentFits(sent.call, sent.by, row.proposed.sizing)
    BY <2>1 DEF TakenInv
  <2>3. row.proposed.sizing \in Sizings /\ OnItsMarket(row.proposed.sizing)
    BY <2>1 DEF ProposalInv
  <2>4. sent.call.router = IF row.proposed.sizing.kind = "primary_mint" THEN "primary" ELSE "dex"
    BY <2>2, <2>3 DEF SentFits, Sizings, OnItsMarket
  <2>5. ~contested => sent.by = firstAsked
    BY <2>1 DEF TakenInv
  <2>6. ~sent.by.typed => sent.call.amount = row.proposed.sizing.amount
    BY <2>2 DEF SentFits, AskFits
  <2> QED BY <2>2, <2>4, <2>5, <2>6 DEF SentFits, ConfirmedIsTraded
<1> QED BY <1>1, SizingAlways, PTL
================================================================================
