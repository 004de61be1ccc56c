SPECIFICATION MixtureSpec
CONSTANTS
    Keys <- MCKeys
    Upper <- MCUpper
    Entries <- MCEntries
    Baseline <- MCBaseline
    Listings <- MCListings
    Components = {1, 2, 3}
    Functions = {"f", "g", "h"}
    DefaultPairs <- MCDefaultPairs
    DefaultFunctions <- MCDefaultFunctions
    DefaultKij <- MCDefaultKij
    PairListings <- MCPairListings
    FunctionListings <- MCFunctionListings
    Betas = {7}
    LooksFirst = TRUE
    MaxCalls = 4
    MixtureCalls = 6
    None = None
CHECK_DEADLOCK FALSE
INVARIANTS KeysLead ListedIsFound ParametersAreAsTold
PROPERTIES KeepsWhatItHad ExistingIsRefused
