CONSTANTS
    ReportDataValues <- MCReportDataValues
    VmplInputs <- MCVmplInputs
    NoVmpl = NoVmpl
    CurrentVmpl <- MCCurrentVmpl
    FwVersions = {2, 3}
    FlipOffsets <- MCFlipOffsets
    WireLengths <- MCWireLengths
    ChainKeys <- MCChainKeys
    Backend = "crypto_nossl"

SPECIFICATION Spec

INVARIANT
    DebugShowsReservedBits
