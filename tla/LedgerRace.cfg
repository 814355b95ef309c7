CONSTANTS
    Accounts <- MCAccounts
    External <- MCExternal
    Opening <- MCOpening
    Keys <- MCRaceKeys
    Journal <- MCRaceJournal
    Workers = {w1, w2}
    None = None
SPECIFICATION FairRaceSpec
INVARIANTS
    TypeOK
    OneJournalPerKey
    WholeJournals
    BalanceIsLastLine
    RightUnlessSpoiled
PROPERTIES
    EveryCallEnds
    ImplementsSharedLedger
