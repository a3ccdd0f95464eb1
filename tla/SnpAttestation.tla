--------------------------- MODULE SnpAttestation ---------------------------
(***************************************************************************)
(* One attestation round, end to end:                                      *)
(*   guest       ReportReq::new (linux/guest/types.rs, SnpReportReq)       *)
(*   firmware    writes and signs the report into ReportRsp.report         *)
(*   transit     the bytes reach the relying party, maybe altered          *)
(*   decode      TryFrom<&[u8]> for AttestationReport (snp.rs)             *)
(*   verify      Verifiable for (&Chain, &T) (snp.rs, openssl or           *)
(*               crypto_nossl), against the key the certificate chain     *)
(*               yields                                                    *)
(* then the relying party reads the report through its accessors.  Each   *)
(* step is one synchronous call of the library or one move of its          *)
(* environment; nothing runs concurrently.                                 *)
(***************************************************************************)
EXTENDS SnpReport, SnpFirmware, SnpReportReq, TLC

CONSTANTS
    ReportDataValues, \* report_data byte values a guest may ask for
    VmplInputs,       \* vmpl arguments passed as Some(v) to ReportReq::new
    CurrentVmpl,      \* the VMPL the guest runs at
    FwVersions,       \* report versions the platform's firmware emits
    FlipOffsets,      \* byte offsets an altered transfer may flip
    WireLengths,      \* lengths an altered transfer may cut the bytes to
    ChainKeys,        \* what Chain::verify may yield: a key name, "bad_key"
                      \* for a certificate whose key is not a P-384 key,
                      \* or "chain_error"
    Backend           \* "openssl" or "crypto_nossl"

ASSUME Backend \in {"openssl", "crypto_nossl"}

\* const REPORT_SIZE: the size of ReportRsp.report.
REPORT_SIZE == 1184

VARIABLES
    pc,       \* which step of the round is next
    req,      \* the ReportReq the guest built
    fw,       \* the report the firmware issued (abstract)
    sigLog,   \* what the platform's keys have signed
    wire,     \* the bytes handed to the decoder
    decoded,  \* the result of TryFrom<&[u8]> for AttestationReport
    vek,      \* what Chain::verify yielded
    outcome   \* the caller-visible result of the round

vars == <<pc, req, fw, sigLog, wire, decoded, vek, outcome>>

Phases == {"request", "firmware", "transit", "decode", "verify", "done"}

\* The bytes of ReportRsp.report: REPORT_SIZE bytes, of which the firmware
\* fills the first AbiReportLen.
ReportRspReport(bytes) ==
    [i \in 1..REPORT_SIZE |-> IF i <= Len(bytes) THEN bytes[i] ELSE 0]

NoFirmwareReport ==
    [version |-> 0, vmpl |-> 0, report_data |-> 0, signing |-> "none",
     alias_check_complete |-> 0]

\* EcdsaSig::try_from / p384::ecdsa::Signature::try_from: openssl builds
\* any (r, s) pair; p384 refuses a zero scalar.
SigConvertible(sig) ==
    \/ Backend = "openssl"
    \/ /\ SigR(sig) # Fill(72, 0)
       /\ SigS(sig) # Fill(72, 0)

\* A plausible bug: the boolean sig.verify returns is not checked.
VerifyReportIgnoringResult(chain, report) ==
    LET sig == SignatureOf(report)
    IN  CASE chain = "chain_error"   -> "ChainError"
          [] ~SigConvertible(sig)    -> "MalformedSignature"
          [] chain = "bad_key"       -> "MalformedKey"
          [] OTHER                   -> "Verified"

\* Verifiable::verify for (&Chain, &AttestationReport), the failures in
\* the order the code meets them: chain, signature conversion, measurable
\* bytes and digest, public key, signature check.
VerifyReport(chain, report) ==
    LET sig    == SignatureOf(report)
        digest == Sha384(MeasurableBytes(report))
    IN  CASE chain = "chain_error"   -> "ChainError"
          [] ~SigConvertible(sig)    -> "MalformedSignature"
          [] chain = "bad_key"       -> "MalformedKey"
          [] EcdsaVerify(sigLog, digest, sig, chain) -> "Verified"
          [] OTHER                   -> "SignatureInvalid"

-----------------------------------------------------------------------------

Init ==
    /\ pc = "request"
    /\ req = ReportReqDefault
    /\ fw = NoFirmwareReport
    /\ sigLog = {}
    /\ wire = <<>>
    /\ decoded = [tag |-> "None"]
    /\ vek = "none"
    /\ outcome = "none"

\* The guest builds its request; an out-of-range VMPL ends the round.
GuestRequest ==
    /\ pc = "request"
    /\ \E data \in ReportDataValues, v \in VmplInputs \cup {NoVmpl} :
         LET r == ReportReqNew(data, v) IN
         /\ req' = r.req
         /\ pc' = IF r.ok THEN "firmware" ELSE "done"
         /\ outcome' = IF r.ok THEN outcome ELSE "VmplError"
    /\ UNCHANGED <<fw, sigLog, wire, decoded, vek>>

\* The firmware refuses a VMPL below the guest's own (status 0x16).
FirmwareReject ==
    /\ pc = "firmware"
    /\ req.vmpl < CurrentVmpl
    /\ pc' = "done"
    /\ outcome' = "FirmwareError"
    /\ UNCHANGED <<req, fw, sigLog, wire, decoded, vek>>

\* The firmware writes the report into ReportRsp.report and signs it,
\* unless MaskChipKey is set, in which case the signature is zeros.
FirmwareRespond ==
    /\ pc = "firmware"
    /\ req.vmpl >= CurrentVmpl
    /\ \E version \in FwVersions, signing \in {"vcek", "vlek", "none"},
          alias \in {0, 1} :
         LET f == [version |-> version, vmpl |-> req.vmpl,
                   report_data |-> req.report_data, signing |-> signing,
                   alias_check_complete |-> alias]
         IN  /\ version = 2 => alias = 0
             /\ fw' = f
             /\ wire' = ReportRspReport(HwReport(f))
             /\ sigLog' = IF signing = "none" THEN sigLog ELSE sigLog \cup {SignEvent(f)}
    /\ pc' = "transit"
    /\ UNCHANGED <<req, decoded, vek, outcome>>

\* The bytes reach the decoder unchanged,
Deliver ==
    /\ pc = "transit"
    /\ pc' = "decode"
    /\ UNCHANGED <<req, fw, sigLog, wire, decoded, vek, outcome>>

\* with one bit of one byte flipped,
Corrupt ==
    /\ pc = "transit"
    /\ \E o \in FlipOffsets :
         /\ o < Len(wire)
         /\ wire' = [wire EXCEPT ![o + 1] = IF @ % 2 = 0 THEN @ + 1 ELSE @ - 1]
    /\ pc' = "decode"
    /\ UNCHANGED <<req, fw, sigLog, decoded, vek, outcome>>

\* cut short,
Truncate ==
    /\ pc = "transit"
    /\ \E n \in WireLengths :
         /\ n < Len(wire)
         /\ wire' = SubSeq(wire, 1, n)
    /\ pc' = "decode"
    /\ UNCHANGED <<req, fw, sigLog, decoded, vek, outcome>>

\* or with a byte appended.
Extend ==
    /\ pc = "transit"
    /\ wire' = Append(wire, 0)
    /\ pc' = "decode"
    /\ UNCHANGED <<req, fw, sigLog, decoded, vek, outcome>>

\* The relying party decodes the bytes; a decode error ends the round.
Decode ==
    /\ pc = "decode"
    /\ LET d == TryFromBytes(wire) IN
         /\ decoded' = d
         /\ pc' = IF d.tag = "Ok" THEN "verify" ELSE "done"
         /\ outcome' = IF d.tag = "Ok" THEN outcome ELSE d.tag
    /\ UNCHANGED <<req, fw, sigLog, wire, vek>>

\* The relying party verifies the decoded report against the chain.
Verify ==
    /\ pc = "verify"
    /\ \E chain \in ChainKeys :
         /\ vek' = chain
         /\ outcome' = VerifyReport(chain, decoded.report)
    /\ pc' = "done"
    /\ UNCHANGED <<req, fw, sigLog, wire, decoded>>

\* The round is over: the caller holds its result.  Every other state has
\* a step, so with deadlock checking TLC shows that no round gets stuck
\* short of "done" (the state graph has no cycles: a round ends).
Terminated ==
    /\ pc = "done"
    /\ UNCHANGED vars

Next ==
    \/ GuestRequest
    \/ FirmwareReject
    \/ FirmwareRespond
    \/ Deliver
    \/ Corrupt
    \/ Truncate
    \/ Extend
    \/ Decode
    \/ Verify
    \/ Terminated

Spec == Init /\ [][Next]_vars

-----------------------------------------------------------------------------

TypeOK ==
    /\ pc \in Phases
    /\ req \in [report_data : ReportDataValues \cup {0}, vmpl : 0..MAX_VMPL]
    /\ fw.version \in FwVersions \cup {0}
    /\ fw.signing \in {"vcek", "vlek", "none"}
    /\ decoded.tag \in {"None", "Ok", "Panic", "BincodeError", "UnsupportedReportVersion"}
    /\ vek \in ChainKeys \cup {"none"}
    /\ outcome \in {"none", "VmplError", "FirmwareError", "Panic", "BincodeError",
                    "UnsupportedReportVersion", "ChainError", "MalformedSignature",
                    "MalformedKey", "SignatureInvalid", "Verified"}

\* What the firmware attests, as the accessors of impl AttestationReport
\* should return it: the launch context, the request's fields, and the
\* version-specific results (cpuid and alias_check_complete unsupported on
\* a version 2 report).
FirmwareView(f) ==
    LET c == LaunchContext IN
    [version           |-> f.version,
     guest_svn         |-> c.guest_svn,
     policy            |-> [abi_minor |-> c.abi_minor, abi_major |-> c.abi_major,
                            smt_allowed |-> c.smt_allowed, migrate_ma_allowed |-> 0,
                            debug_allowed |-> c.debug_allowed,
                            single_socket_required |-> 0, cxl_allowed |-> 0,
                            mem_aes_256_xts |-> 0, rapl_dis |-> 0,
                            ciphertext_hiding |-> 0],
     family_id         |-> Fill(16, c.family_id),
     image_id          |-> Fill(16, c.image_id),
     vmpl              |-> f.vmpl,
     sig_algo          |-> SigAlgoEcdsaP384,
     current_tcb       |-> c.current_tcb,
     plat_info         |-> [shared |-> [smt_enabled |-> c.smt_enabled,
                                        tsme_enabled |-> c.tsme_enabled,
                                        ecc_enabled |-> c.ecc_enabled,
                                        rapl_disabled |-> 0,
                                        ciphertext_hiding_enabled |-> 0],
                            alias_check_complete |->
                                IF f.version = 2 THEN [ok |-> FALSE, val |-> 0]
                                ELSE [ok |-> TRUE, val |-> f.alias_check_complete]],
     key_info          |-> [author_key_en |-> TRUE,
                            mask_chip_key |-> IF f.signing = "none" THEN 1 ELSE 0,
                            signing_key |-> SigningKeyCode[f.signing]],
     report_data       |-> Fill(64, f.report_data),
     measurement       |-> Fill(48, c.measurement),
     host_data         |-> Fill(32, c.host_data),
     id_key_digest     |-> Fill(48, c.id_key_digest),
     author_key_digest |-> Fill(48, c.author_key_digest),
     report_id         |-> Fill(32, c.report_id),
     report_id_ma      |-> Fill(32, c.report_id_ma),
     reported_tcb      |-> c.reported_tcb,
     cpuid             |-> IF f.version = 2 THEN [ok |-> FALSE, val |-> <<>>]
                           ELSE [ok |-> TRUE, val |-> c.cpuid],
     chip_id           |-> Fill(64, c.chip_id),
     committed_tcb     |-> c.committed_tcb,
     current_version   |-> c.current_version,
     commited_version  |-> c.committed_version,
     launch_tcb        |-> c.launch_tcb]

\* The bytes reached the decoder exactly as the firmware left them.
Unaltered == wire = ReportRspReport(HwReport(fw))

\* A report that reaches the decoder unaltered decodes, whatever its
\* version, and every accessor of the decoded AttestationReport returns
\* what the firmware put in the report: the Rust field lists, the version
\* dispatch, the bit-field getters and the V2/V3 accessors agree with the
\* firmware's byte layout.
GenuineReportDecodes ==
    (decoded.tag # "None" /\ Unaltered)
        => /\ decoded.tag = "Ok"
           /\ View(decoded.report) = FirmwareView(fw)

\* A report signed by the platform, delivered unaltered and checked
\* against the key that signed it, is accepted by Verifiable::verify:
\* the measurable bytes the code hashes are exactly the bytes the firmware
\* signed.
GenuineReportVerifies ==
    (pc = "done" /\ decoded.tag = "Ok" /\ vek = fw.signing /\ Unaltered)
        => outcome = "Verified"

\* Whatever happened to the bytes on the way, a report that
\* Verifiable::verify accepts shows, through every accessor, exactly what
\* the firmware attested: no alteration the signature does not cover can
\* change what a caller reads.
VerifiedReportIsAuthentic ==
    outcome = "Verified" => View(decoded.report) = FirmwareView(fw)

\* Decoding bytes never panics: any input, however short, yields a report
\* or an AttestationReportError (spec: a Truncated error, nothing aborts).
DecodeNeverPanics ==
    decoded.tag # "Panic"

\* The round trip the dispatcher owns (spec: serialize(decode(bytes)) ==
\* bytes[..fixed_size]): a report decoded from a whole ReportRsp.report
\* buffer serializes, with the Serialize AttestationReport derives, back
\* to exactly those bytes.
DecodedReportRoundTrips ==
    (decoded.tag = "Ok" /\ Len(wire) = REPORT_SIZE)
        => SerializeEnum(decoded.report) = wire

-----------------------------------------------------------------------------
(* Formatting a decoded report with {:?}.                                  *)

\* The two build profiles: with overflow checks (debug) and without.
Builds == {"debug", "release"}

\* A decoded report can be formatted with {:?} in every build, and the
\* `reserved` entries of its PlatformInfo and KeyInfo show the reserved
\* bits of those words (5..63 of PlatformInfoV1, 6..63 of PlatformInfoV2,
\* 5..31 of KeyInfo): the bitfield! Debug impls call the private getters
\* `reserved, _: 5, 63`, `6, 63` and `5, 31`, whose ranges are written
\* lsb first (spec: bit-field operations are total, nothing aborts).
DebugShowsReservedBits ==
    decoded.tag = "Ok" =>
        \A b \in Builds :
            LET f == decoded.report.fields
                d == ReportDebug(decoded.report, b)
                lo == IF decoded.report.variant = "V2" THEN 5 ELSE 6
            IN  /\ d.ok
                /\ d.plat_info.reserved = BitRange(f["plat_info"], 63, lo)
                /\ d.key_info.reserved = BitRange(f["key_info"], 31, 5)

=============================================================================
