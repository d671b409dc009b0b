------------------------------ MODULE AtomicVault ------------------------------
(* What SmartVault promises its shareholders: the funds belong to the shares,  *)
(* an order of the manager is settled in one step or undone with all that was *)
(* done under it, and a step that is no settlement costs the shares nothing.  *)
(* There are no allowances here and no transfers of a router: what the order  *)
(* takes is taken when it is settled.                                         *)
EXTENDS Integers

CONSTANTS Tokens, Asset, Routers

VARIABLES
    funds,        \* what the vault holds of every token
    own, others,  \* shares of the owner and of everybody else
    whitelist,    \* the routers an order may name
    order         \* the order that is with a router, and the vault as it was

vaultVars == <<funds, own, others, whitelist, order>>

NoOrder == [open |-> FALSE]
Saved == [funds |-> funds, own |-> own, others |-> others, whitelist |-> whitelist]

\* The most an open order takes of token t.
Taking(t) == IF order.open /\ t = order.token THEN order.amount ELSE 0

VaultInit ==
    /\ funds = [t \in Tokens |-> 0]
    /\ own = 0 /\ others = 0
    /\ whitelist \in SUBSET Routers
    /\ order = NoOrder

\* Asset against shares of the owner's, or into shares for somebody: never below
\* their worth, and never at the cost of the shares of the others.  While an
\* order is open, some of what it takes may be missing from that worth already.
Exchange ==
    /\ funds' = [funds EXCEPT ![Asset] = funds'[Asset]]
    /\ own' >= 0 /\ others' >= others
    /\ \E missing \in 0..Taking(Asset) :
          /\ missing <= funds[Asset] /\ missing <= funds'[Asset]
          /\ (funds[Asset] - missing + 1) * (own' + others' + 1)
                <= (funds'[Asset] - missing + 1) * (own + others + 1)
    /\ UNCHANGED <<whitelist, order>>

PassOn ==
    /\ own' >= 0 /\ others' >= 0 /\ own' + others' = own + others
    /\ UNCHANGED <<funds, whitelist, order>>

Gift ==
    /\ \A t \in Tokens : funds'[t] >= funds[t]
    /\ UNCHANGED <<own, others, whitelist, order>>

Choose ==
    /\ whitelist' \in SUBSET Routers
    /\ UNCHANGED <<funds, own, others, order>>

\* The manager orders a router of the list to sell something the vault holds.
Order ==
    /\ ~order.open
    /\ order'.open
    /\ order'.router \in whitelist /\ order'.token \in Tokens
    /\ 0 < order'.amount /\ order'.amount <= funds[order'.token]
    /\ order'.saved = Saved
    /\ UNCHANGED <<funds, own, others, whitelist>>

\* All that the order takes it takes now: at most its amount, of its token.
Settle ==
    /\ order.open
    /\ \A t \in Tokens : funds'[t] <= funds[t] /\ funds'[t] >= funds[t] - Taking(t)
    /\ order' = NoOrder
    /\ UNCHANGED <<own, others, whitelist>>

\* The order fails: whatever was done since it was given was not done.
Fail ==
    /\ order.open
    /\ <<funds, own, others, whitelist>>'
          = <<order.saved.funds, order.saved.own, order.saved.others, order.saved.whitelist>>
    /\ order' = NoOrder

VaultNext == Exchange \/ PassOn \/ Gift \/ Choose \/ Order \/ Settle \/ Fail

VaultSpec == VaultInit /\ [][VaultNext]_vaultVars
================================================================================
