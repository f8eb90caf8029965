CONSTANTS
    Char = {"f", "F", "x", "/"}
    Slash = "/"
    FactoryPrefix <- MCFactoryPrefix
    AsciiLower <- MCAsciiLower
    Resolves <- MCResolves
    MaxDenomLen <- MCMaxDenomLen
SPECIFICATION DriverSpec
INVARIANTS
    ValidateDenomCorrect
    ValidatorUnitTests
