------------------------- MODULE MCSnpAttestation -------------------------
(* Model-checking instance of SnpAttestation.                              *)
EXTENDS SnpAttestation

\* Two nonces; VMPL arguments at the boundaries (0 below the guest's VMPL,
\* 3 = MAX_VMPL, 4 just above it).
MCReportDataValues == {17, 18}
MCVmplInputs == {0, 3, 4}
MCCurrentVmpl == 1

\* Offsets: the version discriminant, PLATFORM_INFO, KEY_INFO,
\* MEASUREMENT, the CPUID bytes (reserved in V2), LAUNCH_TCB, a signed
\* reserved byte (_reserved_4), the last signed byte, the first signature
\* byte (r[0]) and the last byte of the report.
MCFlipOffsets == {0, 64, 72, 144, 392, 496, 600, 671, 672, 1183}

\* Lengths: too short for the discriminant, exactly the discriminant, the
\* signed prefix only, one byte short.
MCWireLengths == {3, 4, 672, 1183}

MCChainKeys == {"vcek", "vlek", "foreign_vcek", "bad_key", "chain_error"}
=============================================================================
