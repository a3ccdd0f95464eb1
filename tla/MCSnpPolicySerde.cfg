CONSTANTS
    SetValues <- MCSetValues
    DecodedPolicies <- MCDecodedPolicies
    MaxSetCalls <- MCMaxSetCalls

SPECIFICATION Spec

INVARIANT
    SerializedPolicyHasBit17
