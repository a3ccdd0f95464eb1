---------------------------- MODULE SnpReportReq ----------------------------
(***************************************************************************)
(* The request structures of src/src/firmware/linux/guest/types.rs that a  *)
(* guest hands to the attestation ioctls: ReportReq, and ExtReportReq,     *)
(* which wraps a ReportReq together with a certificate buffer.  A u64 is   *)
(* its little-endian bytes, as in SnpBitfield.                             *)
(***************************************************************************)
EXTENDS SnpBitfield

CONSTANT NoVmpl   \* the None argument of ReportReq::new (a model value)

\* const MAX_VMPL.
MAX_VMPL == 3

\* ReportReq::default().
ReportReqDefault == [report_data |-> 0, vmpl |-> 1]

\* A plausible bug: ReportReq::new without the MAX_VMPL check.
ReportReqNewNoBound(data, vmpl) ==
    [ok |-> TRUE,
     req |-> [report_data |-> data,
              vmpl |-> IF vmpl = NoVmpl THEN ReportReqDefault.vmpl ELSE vmpl]]

\* ReportReq::new(report_data, vmpl): Err(VmplError) when vmpl > MAX_VMPL,
\* otherwise the default request with the given fields replaced.
ReportReqNew(data, vmpl) ==
    IF vmpl # NoVmpl /\ vmpl > MAX_VMPL
    THEN [ok |-> FALSE, req |-> ReportReqDefault]
    ELSE [ok |-> TRUE,
          req |-> [report_data |-> data,
                   vmpl |-> IF vmpl = NoVmpl THEN ReportReqDefault.vmpl ELSE vmpl]]

\* u64::MAX.
U64Max == Fill(8, 255)

\* ExtReportReq::default(), derived: every field at its Default, so the
\* certificate buffer address is 0.
ExtReportReqDefault ==
    [data |-> ReportReqDefault, certs_address |-> LE(0, 8), certs_len |-> 0]

\* ExtReportReq::new(&data): a copy of the request, certs_address
\* u64::MAX and certs_len 0.
ExtReportReqNew(data) ==
    [data |-> data, certs_address |-> U64Max, certs_len |-> 0]

=============================================================================
