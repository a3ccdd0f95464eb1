---------------------------- MODULE SnpDerivedKey ----------------------------
(***************************************************************************)
(* Key derivation requests: the guest builds a DerivedKey (snp.rs) with    *)
(* DerivedKey::new and the GuestFieldSelect setters, converts it into the  *)
(* ioctl structure DerivedKeyReq (linux/guest/types.rs, From<DerivedKey>), *)
(* and the AMD Secure Processor answers with a DerivedKeyRsp.  A guest     *)
(* makes several requests, so that the keys of different requests can be  *)
(* compared.                                                               *)
(*                                                                         *)
(* The Secure Processor (MSG_KEY_REQ) is not code of the repository; it is *)
(* modelled from the field comments of DerivedKey and DerivedKeyReq: it    *)
(* refuses (status 0x16) a VMPL below the guest's own or above 3, a guest  *)
(* SVN above the launch SVN, a TCB above CommittedTcb, a root key select   *)
(* other than 0 or 1 and a set reserved bit of GUEST_FIELD_SELECT; it     *)
(* otherwise derives the key from the root key, the VMPL, the mitigation   *)
(* vector and the selected inputs, as an ideal key derivation function.    *)
(***************************************************************************)
EXTENDS SnpBitfield, Sequences, TLC

CONSTANTS
    Guests,        \* guests, each with its own launch measurement
    Measurement,   \* guest |-> its launch measurement
    GuestPolicyOf, \* guest |-> its policy word
    VmplInputs,    \* vmpl arguments of DerivedKey::new
    SvnInputs,     \* guest_svn arguments
    TcbInputs,     \* tcb_version arguments
    SelectFields,  \* GuestFieldSelect setters the guest calls
    SelectValues,  \* their u64 arguments
    CurrentVmpl,   \* the VMPL the guest runs at
    LaunchSvn,     \* the guest SVN of the ID block
    CommittedTcb,  \* the platform's CommittedTcb
    MaxSetCalls,   \* bound on setter calls per request
    MaxRequests    \* bound on the requests a run makes

\* const MAX_VMPL (linux/guest/types.rs).
MaxVmpl == 3

\* The getter/setter pairs of GuestFieldSelect: name |-> bit.
GuestFieldSelectBits ==
    [guest_policy |-> 0, image_id |-> 1, family_id |-> 2, measurement |-> 3,
     svn |-> 4, tcb_version |-> 5]

\* GuestFieldSelect::default(): the word 0.
GuestFieldSelectDefault == LE(0, 8)

\* DerivedKey::new: root_key_select is u32::from(bool); the reserved word
\* is zero; nothing is checked.
DerivedKeyNew(root, gfs, vmpl, svn, tcb) ==
    [root_key_select |-> IF root THEN 1 ELSE 0, guest_field_select |-> gfs,
     vmpl |-> vmpl, guest_svn |-> svn, tcb_version |-> tcb]

\* DerivedKey::get_root_key_select.
GetRootKeySelect(k) == k.root_key_select

\* A plausible bug: the conversion leaves guest_field_select at its
\* Default instead of copying value.guest_field_select.0.
DerivedKeyReqFromNoSelect(k) ==
    [root_key_select |-> GetRootKeySelect(k), reserved_0 |-> 0,
     guest_field_select |-> GuestFieldSelectDefault, vmpl |-> k.vmpl,
     guest_svn |-> k.guest_svn, tcb_version |-> k.tcb_version,
     launch_mit_vector |-> 0]

\* From<DerivedKey> for DerivedKeyReq.  The DerivedKey of snp.rs has no
\* launch_mit_vector, so value.launch_mit_vector.unwrap_or(0) is taken as
\* its unset case, 0.
DerivedKeyReqFrom(k) ==
    [root_key_select |-> GetRootKeySelect(k), reserved_0 |-> 0,
     guest_field_select |-> k.guest_field_select, vmpl |-> k.vmpl,
     guest_svn |-> k.guest_svn, tcb_version |-> k.tcb_version,
     launch_mit_vector |-> 0]

\* The zero-filled key of a refused request.
ZeroKey == [zero |-> TRUE]

\* The Secure Processor's answer to MSG_KEY_REQ from guest g.
FirmwareDeriveKey(g, req) ==
    LET gfs == req.guest_field_select
        mix(b, val) == IF Bit(gfs, b) = 1 THEN val ELSE 0
    IN  IF \/ req.vmpl < CurrentVmpl \/ req.vmpl > MaxVmpl
           \/ req.guest_svn > LaunchSvn \/ req.tcb_version > CommittedTcb
           \/ req.root_key_select > 1
           \/ \E i \in 6..63 : Bit(gfs, i) = 1
        THEN [status |-> 22, key |-> ZeroKey]
        ELSE [status |-> 0,
              key |-> [root |-> req.root_key_select, vmpl |-> req.vmpl,
                       mit |-> req.launch_mit_vector,
                       policy |-> mix(0, GuestPolicyOf[g]),
                       measurement |-> mix(3, Measurement[g]),
                       svn |-> mix(4, req.guest_svn),
                       tcb |-> mix(5, req.tcb_version)]]

VARIABLES
    pc,      \* "idle" or "build"
    guest,   \* the guest building the current request
    dk,      \* the DerivedKey being built
    calls,   \* setter calls on the current DerivedKey
    log      \* the requests made: guest, DerivedKey, DerivedKeyRsp

vars == <<pc, guest, dk, calls, log>>

Init ==
    /\ pc = "idle"
    /\ guest = CHOOSE g \in Guests : TRUE
    /\ dk = DerivedKeyNew(FALSE, GuestFieldSelectDefault, 0, 0, 0)
    /\ calls = 0
    /\ log = <<>>

\* A guest calls DerivedKey::new with a default GuestFieldSelect.
New ==
    /\ pc = "idle"
    /\ Len(log) < MaxRequests
    /\ \E g \in Guests, root \in BOOLEAN, v \in VmplInputs, s \in SvnInputs,
          t \in TcbInputs :
         /\ guest' = g
         /\ dk' = DerivedKeyNew(root, GuestFieldSelectDefault, v, s, t)
    /\ pc' = "build"
    /\ calls' = 0
    /\ UNCHANGED log

\* key.guest_field_select.set_<f>(v).
SetSelect ==
    /\ pc = "build"
    /\ calls < MaxSetCalls
    /\ \E f \in SelectFields, v \in SelectValues :
         LET b == GuestFieldSelectBits[f]
         IN  dk' = [dk EXCEPT !.guest_field_select = SetBitRange(@, b, b, v)]
    /\ calls' = calls + 1
    /\ UNCHANGED <<pc, guest, log>>

\* The request goes out as DerivedKeyReq::from(key) and the response comes
\* back in a DerivedKeyRsp.
Request ==
    /\ pc = "build"
    /\ LET rsp == FirmwareDeriveKey(guest, DerivedKeyReqFrom(dk))
       IN  log' = Append(log, [guest |-> guest, dk |-> dk, rsp |-> rsp])
    /\ pc' = "idle"
    /\ UNCHANGED <<guest, dk, calls>>

\* All requests made.
Terminated ==
    /\ pc = "idle"
    /\ Len(log) = MaxRequests
    /\ UNCHANGED vars

Next == New \/ SetSelect \/ Request \/ Terminated

Spec == Init /\ [][Next]_vars

-----------------------------------------------------------------------------

\* What the guest asked to be mixed into the key, read back through the
\* DerivedKey's getters: its root key, VMPL, and the inputs whose
\* GuestFieldSelect getter is set.
Intent(e) ==
    LET sel(f) == BitRange(e.dk.guest_field_select, GuestFieldSelectBits[f],
                           GuestFieldSelectBits[f]) = 1
    IN  [root        |-> GetRootKeySelect(e.dk),
         vmpl        |-> e.dk.vmpl,
         policy      |-> IF sel("guest_policy") THEN GuestPolicyOf[e.guest] ELSE 0,
         measurement |-> IF sel("measurement") THEN Measurement[e.guest] ELSE 0,
         svn         |-> IF sel("svn") THEN e.dk.guest_svn ELSE 0,
         tcb         |-> IF sel("tcb_version") THEN e.dk.tcb_version ELSE 0]

\* Two keys the Secure Processor derived are equal exactly when the two
\* DerivedKeys asked for the same inputs: a guest that selects its
\* measurement gets a key no other guest gets, and an input it did not
\* select does not change its key.  This relates the setters, the
\* getters and From<DerivedKey> for DerivedKeyReq across requests.
DerivedKeyBindsSelection ==
    \A i, j \in DOMAIN log :
        (log[i].rsp.status = 0 /\ log[j].rsp.status = 0)
            => (log[i].rsp.key = log[j].rsp.key <=> Intent(log[i]) = Intent(log[j]))

=============================================================================
