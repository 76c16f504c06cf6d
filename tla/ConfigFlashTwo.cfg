SPECIFICATION Spec
CONSTANTS
    shell = shell
    vm = vm
    x = x
    y = y
    Savers <- TwoSavers
    Configs <- MCConfigs
    NoConfig = NoConfig
    Sector = 14
    DstLen <- MCDstLen
    Length <- MCLength
    PowerFails = FALSE
INVARIANT AlwaysIntact
