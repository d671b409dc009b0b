SPECIFICATION ContractsSpec
CONSTANTS
    Tokens = {usdc, qqq}
    Asset = usdc
    Routers = {dex, primary}
    MaxBalance = 2
    MaxSupply = 5
    Accounts = {admin, alice, bob}
    Admin = admin
    Dexes = {x, y, z}
    MaxVaults = 2
    MaxRouters = 3
    Sites <- MCSites
    Crypto = {"BTC"}
    Strategies <- MCStrategies
    Funds <- MCFunds
    Quotes = {0, 300}
    Texts <- MCTexts
    Garbage = Garbage
    Decimals = 2
    ReferenceNav = 5000
    DrawdownLimit = 35
    MakerFee = 1
    TakerFee = 5
    Elsewhere = {other}
    Nil = Nil
SYMMETRY Symmetry
INVARIANTS TypeOK NoStandingAllowance TradeBounded ListMirrorsMapping RegistersAgree
    ProposalFits 
PROPERTIES SharePriceHolds ImplementsAtomicVault
CHECK_DEADLOCK FALSE
