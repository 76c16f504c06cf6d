SPECIFICATION FairSpec
CONSTANTS
    shell = shell
    vm = vm
    x = x
    y = y
    Savers <- OneSaver
    Configs <- MCConfigs
    NoConfig = NoConfig
    Sector = 15
    DstLen <- MCDstLen
    Length <- MCLength
    PowerFails = TRUE
INVARIANTS TypeOK LoadedIsIntact
PROPERTIES EraseTakesItsSector StaysInSector AppendKeepsSaved SavedIsLoaded SaveReturns
