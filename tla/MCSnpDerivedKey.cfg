CONSTANTS
    g1 = g1
    g2 = g2
    Guests <- MCGuests
    Measurement <- MCMeasurement
    GuestPolicyOf <- MCGuestPolicyOf
    VmplInputs <- MCVmplInputs
    SvnInputs <- MCSvnInputs
    TcbInputs <- MCTcbInputs
    SelectFields <- MCSelectFields
    SelectValues <- MCSelectValues
    CurrentVmpl = 1
    LaunchSvn = 1
    CommittedTcb = 150
    MaxSetCalls = 2
    MaxRequests = 2

SPECIFICATION Spec

INVARIANT
    DerivedKeyBindsSelection
