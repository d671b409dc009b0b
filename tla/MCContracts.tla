---- MODULE MCContracts ----
\* The factory with its clones' registers, the inside of one vault, and the
\* sizing of the trades sent to it.  They share no state that is modelled: each
\* behaviour is one of the three.
EXTENDS SmartVault, VaultFactory, MCSizing
VARIABLE lane
AnySite == CHOOSE s \in Sites : TRUE
ContractsInit ==
    /\ lane \in {"vault", "factory", "sizing"}
    /\ Init /\ FactoryInit /\ SizingInit
    /\ lane # "factory" => boot = <<>>
    /\ lane # "vault" => whitelist = {}
    /\ lane # "sizing" => site = AnySite /\ funds = -1
Vault == lane = "vault" /\ Next /\ UNCHANGED <<lane, factoryVars, sizingVars>>
Factory == lane = "factory" /\ FactoryNext /\ UNCHANGED <<lane, vars, sizingVars>>
Sizing == lane = "sizing" /\ SizingNext /\ UNCHANGED <<lane, vars, factoryVars>>
ContractsNext == Vault \/ Factory \/ Sizing
ContractsSpec == ContractsInit /\ [][ContractsNext]_<<lane, vars, factoryVars, sizingVars>>
Symmetry == Permutations(Routers)
====
