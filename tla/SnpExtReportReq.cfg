CONSTANTS
    ReportDataValues = {17, 18}
    VmplInputs = {0, 3, 4}
    NoVmpl = NoVmpl
    NoExt = NoExt

SPECIFICATION Spec

INVARIANT
    NoBufferIsSentinel
