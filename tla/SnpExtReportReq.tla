--------------------------- MODULE SnpExtReportReq ---------------------------
(***************************************************************************)
(* A guest builds the request of an extended report (SNP_GET_EXT_REPORT)   *)
(* with one of the two constructors of ExtReportReq                        *)
(* (linux/guest/types.rs): ExtReportReq::new over a ReportReq from         *)
(* ReportReq::new, or the derived ExtReportReq::default().  The ioctl that *)
(* consumes the request is not in the repository's files.                  *)
(***************************************************************************)
EXTENDS SnpReportReq

CONSTANTS
    ReportDataValues, \* report_data byte values a guest may ask for
    VmplInputs,       \* vmpl arguments passed as Some(v) to ReportReq::new
    NoExt             \* no request built yet (a model value)

VARIABLE ext   \* the ExtReportReq the guest holds

Init == ext = NoExt

\* ReportReq::new(...)?, then ExtReportReq::new(&req).
New ==
    /\ ext = NoExt
    /\ \E data \in ReportDataValues, v \in VmplInputs \cup {NoVmpl} :
         LET r == ReportReqNew(data, v)
         IN  /\ r.ok
             /\ ext' = ExtReportReqNew(r.req)

\* ExtReportReq::default().
Default ==
    /\ ext = NoExt
    /\ ext' = ExtReportReqDefault

\* The request is built.
Terminated ==
    /\ ext # NoExt
    /\ UNCHANGED ext

Next == New \/ Default \/ Terminated

Spec == Init /\ [][Next]_ext

-----------------------------------------------------------------------------

\* The spec (linux guest request structures): an extended report request
\* defaults to "maximum address / zero length", the sentinel for "no
\* certificate buffer supplied".  Whichever constructor built it, a request
\* without a buffer (certs_len 0) carries certs_address u64::MAX.
NoBufferIsSentinel ==
    (ext # NoExt /\ ext.certs_len = 0) => ext.certs_address = U64Max

=============================================================================
