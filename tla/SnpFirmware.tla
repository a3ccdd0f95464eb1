---------------------------- MODULE SnpFirmware ----------------------------
(***************************************************************************)
(* The AMD Secure Processor's side of an attestation request: the report   *)
(* it writes, at the offsets fixed by the SEV-SNP firmware ABI, and its    *)
(* signature over bytes 0x0..0x29F.  This is hardware, not code of the     *)
(* repository; it is modelled from the ABI table the structures' comments  *)
(* and the natural-language spec give, independently of the Rust field     *)
(* lists, so that the decoder can be checked against it.                   *)
(*                                                                         *)
(* A firmware report is abstract: fw = [version, vmpl, report_data,        *)
(* signing, alias_check_complete], every other field being fixed by the    *)
(* guest's launch (LaunchContext).  Byte-array fields are filled with one  *)
(* byte value per field, distinct between fields, so that any misplaced    *)
(* read is visible.                                                        *)
(***************************************************************************)
EXTENDS SnpBitfield, TLC

\* The launch context of the guest and the platform (fixed in a run).  Every
\* TCB, version and small-integer field has a value of its own, so a field
\* decoded from, or written at, another field's offset is told apart.
LaunchContext ==
    [guest_svn |-> 5, abi_major |-> 1, abi_minor |-> 55, smt_allowed |-> 1,
     debug_allowed |-> 0, family_id |-> 241, image_id |-> 242,
     measurement |-> 243, host_data |-> 244, id_key_digest |-> 245,
     author_key_digest |-> 246, report_id |-> 247, report_id_ma |-> 248,
     chip_id |-> 249, smt_enabled |-> 1, tsme_enabled |-> 0,
     ecc_enabled |-> 1, current_tcb |-> <<3, 0, 0, 0, 0, 0, 8, 115>>,
     reported_tcb |-> <<3, 0, 0, 0, 0, 0, 8, 114>>,
     committed_tcb |-> <<3, 0, 0, 0, 0, 0, 8, 113>>,
     launch_tcb |-> <<2, 0, 0, 0, 0, 0, 7, 110>>,
     current_version |-> <<1, 55, 21>>, committed_version |-> <<1, 55, 20>>,
     cpuid |-> <<25, 17, 1>>]

\* The signing key of the report: VCEK, VLEK, or none when MaskChipKey
\* is set; KEY_INFO.SIGNING_KEY encodes them as 0, 1 and 7.
SigningKeyCode == [vcek |-> 0, vlek |-> 1, none |-> 7]

\* SIG_ALGO 1: ECDSA P-384 with SHA-384.
SigAlgoEcdsaP384 == 1

PolicyU64(c) ==
    c.abi_minor + c.abi_major * 256 + c.smt_allowed * 2^16 + 2^17
      + c.debug_allowed * 2^19

PlatformInfoU64(fw, c) ==
    c.smt_enabled + 2 * c.tsme_enabled + 4 * c.ecc_enabled
      + 32 * fw.alias_check_complete

\* AUTHOR_KEY_EN (bit 0) is set: the author key digest is present.
KeyInfoU32(fw) ==
    1 + 2 * (IF fw.signing = "none" THEN 1 ELSE 0) + 4 * SigningKeyCode[fw.signing]

\* The defined fields of a report and their bytes; reserved bytes are 0.
HwFields(fw) ==
    LET c == LaunchContext
        common ==
          [version |-> LE(fw.version, 4), guest_svn |-> LE(c.guest_svn, 4),
           policy |-> LE(PolicyU64(c), 8), family_id |-> Fill(16, c.family_id),
           image_id |-> Fill(16, c.image_id), vmpl |-> LE(fw.vmpl, 4),
           sig_algo |-> LE(SigAlgoEcdsaP384, 4), current_tcb |-> c.current_tcb,
           plat_info |-> LE(PlatformInfoU64(fw, c), 8),
           key_info |-> LE(KeyInfoU32(fw), 4),
           report_data |-> Fill(64, fw.report_data),
           measurement |-> Fill(48, c.measurement),
           host_data |-> Fill(32, c.host_data),
           id_key_digest |-> Fill(48, c.id_key_digest),
           author_key_digest |-> Fill(48, c.author_key_digest),
           report_id |-> Fill(32, c.report_id),
           report_id_ma |-> Fill(32, c.report_id_ma),
           reported_tcb |-> c.reported_tcb, chip_id |-> Fill(64, c.chip_id),
           committed_tcb |-> c.committed_tcb,
           current_major |-> <<c.current_version[1]>>,
           current_minor |-> <<c.current_version[2]>>,
           current_build |-> <<c.current_version[3]>>,
           committed_major |-> <<c.committed_version[1]>>,
           committed_minor |-> <<c.committed_version[2]>>,
           committed_build |-> <<c.committed_version[3]>>,
           launch_tcb |-> c.launch_tcb]
        cpuid ==
          [cpuid_fam_id |-> <<c.cpuid[1]>>, cpuid_mod_id |-> <<c.cpuid[2]>>,
           cpuid_step |-> <<c.cpuid[3]>>]
    IN  IF fw.version = 3 THEN common @@ cpuid ELSE common

\* Offsets of the defined fields in the ABI's ATTESTATION_REPORT table.
AbiOffset ==
    [version |-> 0, guest_svn |-> 4, policy |-> 8, family_id |-> 16,
     image_id |-> 32, vmpl |-> 48, sig_algo |-> 52, current_tcb |-> 56,
     plat_info |-> 64, key_info |-> 72, report_data |-> 80,
     measurement |-> 144, host_data |-> 192, id_key_digest |-> 224,
     author_key_digest |-> 272, report_id |-> 320, report_id_ma |-> 352,
     reported_tcb |-> 384, cpuid_fam_id |-> 392, cpuid_mod_id |-> 393,
     cpuid_step |-> 394, chip_id |-> 416, committed_tcb |-> 480,
     current_build |-> 488, current_minor |-> 489, current_major |-> 490,
     committed_build |-> 492, committed_minor |-> 493,
     committed_major |-> 494, launch_tcb |-> 496]

\* The firmware signs bytes 0x0 to 0x29F inclusive; the signature starts
\* at 0x2A0 and the report is 0x4A0 bytes long.
AbiSignedLen == 672
AbiReportLen == 1184

\* Bytes 0x0..0x29F of the report the firmware writes.
HwSignedBytes(fw) ==
    LET v == HwFields(fw)
        at(i) == {n \in DOMAIN v : AbiOffset[n] < i /\ i <= AbiOffset[n] + Len(v[n])}
    IN  [i \in 1..AbiSignedLen |->
            IF at(i) = {} THEN 0
            ELSE LET n == CHOOSE m \in at(i) : TRUE IN v[n][i - AbiOffset[n]]]

\* SHA-384, as an ideal (collision-free) digest of its input.
Sha384(bytes) == [sha384 |-> bytes]

\* The signature field the firmware writes: an ECDSA signature, or zeros
\* when MaskChipKey is set.  An ECDSA signature is modelled by bytes that
\* name the signing key in r[0] and have s[0] = 1; whether it is valid is
\* decided by the log of what the key holder signed (EcdsaVerify).
KeyId == [vcek |-> 1, vlek |-> 2]
HwSignature(fw) ==
    IF fw.signing = "none"
    THEN Fill(512, 0)
    ELSE <<KeyId[fw.signing]>> \o Fill(71, 0) \o <<1>> \o Fill(71, 0) \o Fill(368, 0)

HwReport(fw) == HwSignedBytes(fw) \o HwSignature(fw)

\* The entry the firmware adds to the signing log when it signs.
SignEvent(fw) ==
    [key |-> fw.signing, digest |-> Sha384(HwSignedBytes(fw)), sig |-> HwSignature(fw)]

\* ECDSA-P384 verification with an unforgeable signature: valid exactly
\* when the holder of key signed this digest and produced these bytes.
EcdsaVerify(log, digest, sig, key) ==
    [key |-> key, digest |-> digest, sig |-> sig] \in log

=============================================================================
