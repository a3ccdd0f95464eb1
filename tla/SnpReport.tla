----------------------------- MODULE SnpReport -----------------------------
(***************************************************************************)
(* The attestation report of src/src/firmware/guest/types/snp.rs: the two  *)
(* versioned structures, their bincode wire form, the version dispatcher   *)
(* (TryFrom<&[u8]> for AttestationReport), the measurable bytes and the    *)
(* version-unifying accessors.                                             *)
(*                                                                         *)
(* A structure is modelled by its field list, in declaration order, each   *)
(* field with its serialized size.  bincode (fixed-int, little endian, no  *)
(* padding, no length prefix for fixed arrays) writes the fields one after *)
(* the other, so a field's offset is the sum of the sizes before it.  A    *)
(* report value is [variant, fields], fields mapping each field name to    *)
(* its bytes.                                                              *)
(***************************************************************************)
EXTENDS SnpBitfield, SequencesExt

\* Serialized sizes of the types defined outside the two source files:
\* TcbVersion (firmware::host) is 8 bytes, Signature (certs::snp::ecdsa)
\* is r[72] | s[72] | reserved[368].
TcbSize == 8
SignatureSize == 512

\* Fields shared by both versions up to reported_tcb.
ReportHead ==
    << <<"version", 4>>, <<"guest_svn", 4>>, <<"policy", 8>>,
       <<"family_id", 16>>, <<"image_id", 16>>, <<"vmpl", 4>>,
       <<"sig_algo", 4>>, <<"current_tcb", TcbSize>>, <<"plat_info", 8>>,
       <<"key_info", 4>>, <<"_reserved_0", 4>>, <<"report_data", 64>>,
       <<"measurement", 48>>, <<"host_data", 32>>, <<"id_key_digest", 48>>,
       <<"author_key_digest", 48>>, <<"report_id", 32>>,
       <<"report_id_ma", 32>>, <<"reported_tcb", TcbSize>> >>

\* Fields shared by both versions from chip_id to the end.
ReportTail ==
    << <<"chip_id", 64>>, <<"committed_tcb", TcbSize>>,
       <<"current_build", 1>>, <<"current_minor", 1>>, <<"current_major", 1>>,
       <<"_reserved_2", 1>>, <<"committed_build", 1>>,
       <<"committed_minor", 1>>, <<"committed_major", 1>>,
       <<"_reserved_3", 1>>, <<"launch_tcb", TcbSize>>,
       <<"_reserved_4", 168>>, <<"signature", SignatureSize>> >>

\* struct AttestationReportV2.
AttestationReportV2 == ReportHead \o << <<"_reserved_1", 24>> >> \o ReportTail

\* A plausible bug: V3's _reserved_1 one byte short (20 instead of 21).
AttestationReportV3Reserved20 ==
    ReportHead
      \o << <<"cpuid_fam_id", 1>>, <<"cpuid_mod_id", 1>>, <<"cpuid_step", 1>>,
            <<"_reserved_1", 20>> >>
      \o ReportTail

\* struct AttestationReportV3: the CPUID bytes take the first three bytes
\* of V2's _reserved_1.
AttestationReportV3 ==
    ReportHead
      \o << <<"cpuid_fam_id", 1>>, <<"cpuid_mod_id", 1>>, <<"cpuid_step", 1>>,
            <<"_reserved_1", 21>> >>
      \o ReportTail

Layout(variant) == IF variant = "V2" THEN AttestationReportV2 ELSE AttestationReportV3

\* Offset of each field: the sum of the sizes of the fields before it.
Offsets(layout) ==
    LET off[k \in 1..Len(layout)] ==
            IF k = 1 THEN 0 ELSE off[k - 1] + layout[k - 1][2]
    IN  off

LayoutSize(layout) == Offsets(layout)[Len(layout)] + layout[Len(layout)][2]

FieldNames(layout) == {layout[k][1] : k \in 1..Len(layout)}

-----------------------------------------------------------------------------
(* bincode.                                                                *)

\* bincode::serialize of a version structure: its fields in order.
Serialize(report) ==
    LET layout == Layout(report.variant)
    IN  FlattenSeq([k \in 1..Len(layout) |-> report.fields[layout[k][1]]])

\* bincode::serialize of the AttestationReport enum itself (derived
\* Serialize): the variant index as a u32, then the variant's structure.
SerializeEnum(report) ==
    LE(IF report.variant = "V2" THEN 0 ELSE 1, 4) \o Serialize(report)

\* bincode::deserialize into a version structure (TryFrom<&[u8]> for
\* AttestationReportV2 / V3): the fields are read in order; running out
\* of input is an error; bytes after the structure are ignored.
Deserialize(variant, bytes) ==
    LET layout == Layout(variant)
        off    == Offsets(layout)
    IN  IF Len(bytes) < LayoutSize(layout)
        THEN [tag |-> "BincodeError"]
        ELSE [tag    |-> "Ok",
              report |-> [variant |-> variant,
                           fields  |-> [f \in FieldNames(layout) |->
                               LET k == CHOOSE j \in 1..Len(layout) : layout[j][1] = f
                               IN  SubSeq(bytes, off[k] + 1, off[k] + layout[k][2])]]]

\* TryFrom<&[u8]> for AttestationReport: index the first four bytes (a
\* slice index past the end panics), read them as a little-endian u32 and
\* dispatch on it.
TryFromBytes(raw) ==
    IF Len(raw) < 4
    THEN [tag |-> "Panic"]
    ELSE LET version == FromLE(SubSeq(raw, 1, 4))
         IN  CASE version = 2 -> Deserialize("V2", raw)
               [] version = 3 -> Deserialize("V3", raw)
               [] OTHER       -> [tag |-> "UnsupportedReportVersion", version |-> version]

-----------------------------------------------------------------------------
(* Attestable.                                                             *)

\* Attestable::measurable_bytes, as AttestationReport overrides it: the
\* variant structure serialized and cut at 0x2a0.
MeasurableLen == 672

\* A plausible bug: AttestationReport without its own measurable_bytes,
\* so that the trait's default serializes the enum, variant tag included.
MeasurableBytesOfEnum(report) == SubSeq(SerializeEnum(report), 1, MeasurableLen)

MeasurableBytes(report) == SubSeq(Serialize(report), 1, MeasurableLen)

\* Attestable::signature, and the r and s arrays of the Signature.
SignatureOf(report) == report.fields["signature"]
SigR(sig) == SubSeq(sig, 1, 72)
SigS(sig) == SubSeq(sig, 73, 144)

-----------------------------------------------------------------------------
(* The version-unifying accessors of impl AttestationReport.               *)

\* (major, minor, build) of current_version / commited_version.
VersionTriple(f, prefix) ==
    << f[prefix \o "_major"][1], f[prefix \o "_minor"][1], f[prefix \o "_build"][1] >>

\* What a caller reads through the accessors of a decoded report.
\* cpuid() is Err(UnsupportedField) on V2; plat_info() wraps V2's field as
\* PlatformInfo::V1 and V3's as PlatformInfo::V2.
View(report) ==
    LET f == report.fields IN
    [version           |-> FromLE(f["version"]),
     guest_svn         |-> FromLE(f["guest_svn"]),
     policy            |-> GuestPolicyView(f["policy"]),
     family_id         |-> f["family_id"],
     image_id          |-> f["image_id"],
     vmpl              |-> FromLE(f["vmpl"]),
     sig_algo          |-> FromLE(f["sig_algo"]),
     current_tcb       |-> f["current_tcb"],
     plat_info         |-> PlatformInfoView(IF report.variant = "V2" THEN "V1" ELSE "V2",
                                            f["plat_info"]),
     key_info          |-> KeyInfoView(f["key_info"]),
     report_data       |-> f["report_data"],
     measurement       |-> f["measurement"],
     host_data         |-> f["host_data"],
     id_key_digest     |-> f["id_key_digest"],
     author_key_digest |-> f["author_key_digest"],
     report_id         |-> f["report_id"],
     report_id_ma      |-> f["report_id_ma"],
     reported_tcb      |-> f["reported_tcb"],
     cpuid             |-> IF report.variant = "V2"
                           THEN [ok |-> FALSE, val |-> <<>>]
                           ELSE [ok |-> TRUE,
                                 val |-> << f["cpuid_fam_id"][1], f["cpuid_mod_id"][1],
                                            f["cpuid_step"][1] >>],
     chip_id           |-> f["chip_id"],
     committed_tcb     |-> f["committed_tcb"],
     current_version   |-> VersionTriple(f, "current"),
     commited_version  |-> VersionTriple(f, "committed"),
     launch_tcb        |-> f["launch_tcb"]]

\* {:?} of an AttestationReport in a given build: the derived Debug of the
\* enum and of the variant's structure formats every field in turn; the
\* bit-field fields go through their bitfield! `impl Debug`.  Only
\* plat_info and key_info have a getter that can fail, so the result is
\* their two debug structs, or a panic.
ReportDebug(report, build) ==
    LET f == report.fields
        p == BitfieldDebug(f["plat_info"],
                           IF report.variant = "V2" THEN PlatformInfoV1Getters
                           ELSE PlatformInfoV2Getters, build)
        k == BitfieldDebug(f["key_info"], KeyInfoGetters, build)
    IN  IF p.ok /\ k.ok THEN [ok |-> TRUE, plat_info |-> p.val, key_info |-> k.val]
        ELSE [ok |-> FALSE]

=============================================================================
