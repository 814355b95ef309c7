CONSTANTS
    Accounts <- MCAccounts
    External <- MCExternal
    Opening <- MCOpening
    Keys <- MCKeys
    Journal <- MCJournal
    Workers = {w1}
    None = None
SPECIFICATION RaceSpec
INVARIANTS
    BalanceIsSumOfLines
    NonNegative
PROPERTY ImplementsLedger
