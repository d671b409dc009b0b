------------------------------ MODULE VaultFactory ------------------------------
(***************************************************************************)
(* VaultFactory.sol: the list of global routers kept twice (an array to    *)
(* copy into new vaults, a mapping to look up), the register of vaults     *)
(* kept twice (vaultOf by owner, allVaults by index), and the router       *)
(* whitelisted of every vault, which starts as a copy of the list.           *)
(*                                                                         *)
(* A transaction is one step.  The constructor's loop over its routers is  *)
(* one step per iteration: nobody can call the contract meanwhile.         *)
(***************************************************************************)
EXTENDS Naturals, Sequences

CONSTANTS
    Accounts,   \* callers
    Admin,      \* owner of the factory
    Dexes,    \* DEX routers
    MaxVaults,  \* bound on the number of vaults
    MaxRouters  \* bound on the length of the constructor's list

ASSUME FactoryAssumption ==
    /\ Admin \in Accounts
    /\ MaxVaults \in Nat /\ MaxRouters \in Nat

NoVault == 0     \* address(0); the n-th clone has address n

VARIABLES
    boot,            \* routers the constructor has not looked at yet
    globalRouters,   \* address[] globalRouters
    isGlobalRouter,  \* mapping isGlobalRouter, as the set of routers set to true
    vaultOf,         \* mapping vaultOf
    allVaults,       \* address[] allVaults
    vaultOwner,      \* owner() of every clone, by address
    whitelisted        \* _whitelistedRouters of every clone, by address

factoryVars == <<boot, globalRouters, isGlobalRouter, vaultOf, allVaults, vaultOwner,
          whitelisted>>

vaultVars == <<vaultOf, allVaults, vaultOwner, whitelisted>>

Listed == {globalRouters[i] : i \in 1..Len(globalRouters)}

Live == boot = <<>>   \* the constructor has returned

FactoryInit ==
    /\ \E n \in 0..MaxRouters : boot \in [1..n -> Dexes]
    /\ globalRouters = <<>> /\ isGlobalRouter = {}
    /\ vaultOf = [a \in Accounts |-> NoVault]
    /\ allVaults = <<>> /\ vaultOwner = <<>> /\ whitelisted = <<>>

\* One iteration of _bootstrapGlobalRouters.
BootstrapGlobalRouter ==
    LET r == Head(boot) IN
    /\ boot # <<>>
    /\ boot' = Tail(boot)
    /\ IF r \in isGlobalRouter
       THEN UNCHANGED <<globalRouters, isGlobalRouter>>
       ELSE /\ isGlobalRouter' = isGlobalRouter \cup {r}
            /\ globalRouters' = Append(globalRouters, r)
    /\ UNCHANGED vaultVars

\* Mutant of CreateVault: the VaultAlreadyExists check is gone.
CreateVaultAgain(caller) ==
    LET vault == Len(vaultOwner) + 1 IN
    /\ Live
    /\ Len(vaultOwner) < MaxVaults
    /\ vaultOwner' = Append(vaultOwner, caller)
    /\ whitelisted' = Append(whitelisted, Listed)
    /\ vaultOf' = [vaultOf EXCEPT ![caller] = vault]
    /\ allVaults' = Append(allVaults, vault)
    /\ UNCHANGED <<boot, globalRouters, isGlobalRouter>>

\* createVault: the clone is initialised with the caller as owner and a copy of
\* the list, then registered.
CreateVault(caller) ==
    LET vault == Len(vaultOwner) + 1 IN
    /\ Live
    /\ vaultOf[caller] = NoVault
    /\ Len(vaultOwner) < MaxVaults
    /\ vaultOwner' = Append(vaultOwner, caller)
    /\ whitelisted' = Append(whitelisted, Listed)
    /\ vaultOf' = [vaultOf EXCEPT ![caller] = vault]
    /\ allVaults' = Append(allVaults, vault)
    /\ UNCHANGED <<boot, globalRouters, isGlobalRouter>>

\* addGlobalRouter, onlyOwner.
AddGlobalRouter(caller, r) ==
    /\ Live
    /\ caller = Admin
    /\ r \notin isGlobalRouter
    /\ isGlobalRouter' = isGlobalRouter \cup {r}
    /\ globalRouters' = Append(globalRouters, r)
    /\ UNCHANGED <<boot, vaultVars>>

\* The place of r the loop of removeGlobalRouter stops at.
FirstIndex(r, i) ==
    /\ i \in 1..Len(globalRouters)
    /\ globalRouters[i] = r
    /\ \A j \in 1..(i - 1) : globalRouters[j] # r

\* Mutant of SwapPop: the last element is popped, the hole is left as it was.
PopLast(s, i) == SubSeq(s, 1, Len(s) - 1)

\* The last element takes the place of the i-th, and the array is popped.
SwapPop(s, i) ==
    [j \in 1..(Len(s) - 1) |-> IF j = i THEN s[Len(s)] ELSE s[j]]

\* removeGlobalRouter, onlyOwner.  Vaults already deployed keep the router.
RemoveGlobalRouter(caller, r) ==
    /\ Live
    /\ caller = Admin
    /\ r \in isGlobalRouter
    /\ isGlobalRouter' = isGlobalRouter \ {r}
    /\ IF \E i \in 1..Len(globalRouters) : FirstIndex(r, i)
       THEN \E i \in 1..Len(globalRouters) :
               FirstIndex(r, i) /\ globalRouters' = SwapPop(globalRouters, i)
       ELSE UNCHANGED globalRouters
    /\ UNCHANGED <<boot, vaultVars>>

\* SmartVault.setRouterWhitelisted, by the vault's owner.
SetWhitelistedOn(caller, vault, r, allowed) ==
    /\ Live
    /\ caller = vaultOwner[vault]
    /\ whitelisted' = [whitelisted EXCEPT ![vault] = IF allowed THEN @ \cup {r}
                                                            ELSE @ \ {r}]
    /\ UNCHANGED <<boot, globalRouters, isGlobalRouter, vaultOf, allVaults,
                   vaultOwner>>

\* OwnableUpgradeable.transferOwnership, which every SmartVault inherits; the
\* factory does not hear of it.
TransferVault(caller, vault, newOwner) ==
    /\ Live
    /\ caller = vaultOwner[vault]
    /\ vaultOwner' = [vaultOwner EXCEPT ![vault] = newOwner]
    /\ UNCHANGED <<boot, globalRouters, isGlobalRouter, vaultOf, allVaults,
                   whitelisted>>

FactoryNext ==
    \/ BootstrapGlobalRouter
    \/ \E a \in Accounts :
          \/ CreateVault(a)
          \/ \E r \in Dexes :
                \/ AddGlobalRouter(a, r)
                \/ RemoveGlobalRouter(a, r)
                \/ \E v \in 1..Len(vaultOwner), b \in BOOLEAN :
                      SetWhitelistedOn(a, v, r, b)
          \/ \E v \in 1..Len(vaultOwner), x \in Accounts : TransferVault(a, v, x)

FactorySpec == FactoryInit /\ [][FactoryNext]_factoryVars

--------------------------------------------------------------------------------

\* Arrays and mappings have the contract's types, and every clone has one
\* entry in each of the sequences indexed by vault.
FactoryTypeOK ==
    /\ boot \in Seq(Dexes)
    /\ globalRouters \in Seq(Dexes)
    /\ isGlobalRouter \subseteq Dexes
    /\ vaultOf \in [Accounts -> Nat]
    /\ allVaults \in Seq(Nat)
    /\ vaultOwner \in Seq(Accounts)
    /\ whitelisted \in Seq(SUBSET Dexes)
    /\ Len(allVaults) = Len(vaultOwner) /\ Len(whitelisted) = Len(vaultOwner)

NoDuplicates(s) == \A i, j \in 1..Len(s) : s[i] = s[j] => i = j

\* The array and the mapping of global routers say the same, and no router is
\* in the array twice: one removal really removes it, and a new vault never
\* inherits a router the factory no longer lists.
ListMirrorsMapping ==
    /\ NoDuplicates(globalRouters)
    /\ Listed = isGlobalRouter

\* The two registers of vaults agree: every clone is in allVaults once, and is
\* the vaultOf exactly one account; vaultOf names no vault that is not there.
RegistersAgree ==
    /\ NoDuplicates(allVaults)
    /\ \A v \in 1..Len(vaultOwner) :
          \E i \in 1..Len(allVaults) : allVaults[i] = v
    /\ \A i \in 1..Len(allVaults) :
          \E a \in Accounts : vaultOf[a] = allVaults[i]
    /\ \A a, b \in Accounts :
          vaultOf[a] = vaultOf[b] /\ vaultOf[a] # NoVault => a = b
    /\ \A a \in Accounts : vaultOf[a] # NoVault =>
          \E i \in 1..Len(allVaults) : allVaults[i] = vaultOf[a]
================================================================================
