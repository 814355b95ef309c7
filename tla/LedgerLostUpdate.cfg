CONSTANTS
    Accounts <- MCAccounts
    External <- MCExternal
    Opening <- MCOpening
    Keys <- MCHoldKeys
    Journal <- MCHoldJournal
    Workers = {w1, w2}
    None = None
SPECIFICATION RaceSpec
INVARIANT BalanceIsSumOfLines
