CONSTANTS
    Char = {"f", "F", "x", "/"}
    Slash = "/"
    FactoryPrefix <- MCFactoryPrefix
    AsciiLower <- MCAsciiLower
    Resolves <- MCResolves
    FullDenom <- MCFullDenom
    Addr <- MCAddr
    ValidAddr <- MCValidAddr
    ContractAddr <- MCContractAddr
    Denoms <- MCDenoms
    Subdenoms <- MCSubdenoms
    MaxAmount = 1
    ContractVersion = "0.1.0"
    NoValue = NoValue
SPECIFICATION Spec
INVARIANT
    AcceptedDenomsCanonical
