SPECIFICATION Spec
CONSTANTS
    shell = shell
    vm = vm
    x = x
    y = y
    Savers <- OneSaver
    Configs <- MCConfigs
    NoConfig = NoConfig
    Sector = 10
    DstLen <- MCDstLen
    Length <- MCLength
    PowerFails = FALSE
INVARIANT NeverPastEnd
