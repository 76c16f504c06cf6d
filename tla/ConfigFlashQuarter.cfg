SPECIFICATION Spec
CONSTANTS
    shell = shell
    vm = vm
    x = x
    y = y
    Savers <- TwoSavers
    Configs <- OneConfig
    NoConfig = NoConfig
    Sector = 28
    DstLen <- QuarterDstLen
    Length <- MCLength
    PowerFails = FALSE
INVARIANT NeverPastEnd
