------------------------------ MODULE SnpPolicy ------------------------------
(***************************************************************************)
(* GuestPolicy as a request parameter object (snp.rs): built from          *)
(* GuestPolicy::default() by the setters the bitfield! macro generates,    *)
(* or taken from a decoded report, and then handed on either as its        *)
(* integer form (From<GuestPolicy> for u64) or in its derived serde form.  *)
(*                                                                         *)
(* A setter `name, set_name: msb, lsb` is the bitfield crate's             *)
(* set_bit_range(msb, lsb, value): the bits lsb..msb are cleared and the   *)
(* low msb-lsb+1 bits of value are written there; higher bits of value are *)
(* dropped.                                                                *)
(***************************************************************************)
EXTENDS SnpBitfield, TLC

CONSTANTS
    SetValues,       \* the u64 arguments the caller passes to a setter
    DecodedPolicies, \* policy words (below 2^31) a decoded report may carry
    MaxSetCalls      \* bound on the setter calls made on one policy

\* The getter/setter pairs of GuestPolicy: name |-> <<msb, lsb>>.
GuestPolicyFields ==
    [abi_minor |-> <<7, 0>>, abi_major |-> <<15, 8>>, smt_allowed |-> <<16, 16>>,
     migrate_ma_allowed |-> <<18, 18>>, debug_allowed |-> <<19, 19>>,
     single_socket_required |-> <<20, 20>>, cxl_allowed |-> <<21, 21>>,
     mem_aes_256_xts |-> <<22, 22>>, rapl_dis |-> <<23, 23>>,
     ciphertext_hiding |-> <<24, 24>>]

\* GuestPolicy::default(): the word 0.
GuestPolicyDefault == LE(0, 8)

\* The derived serde Serialize of the newtype GuestPolicy(u64): bincode
\* writes the stored word, little endian.
GuestPolicySerde(p) == p

VARIABLES
    policy,   \* the stored u64 of the GuestPolicy, as 8 bytes
    calls     \* setter calls made since the policy was created

vars == <<policy, calls>>

Init ==
    /\ policy = GuestPolicyDefault
    /\ calls = 0

\* p.set_<field>(v).
Set(f, v) ==
    /\ calls < MaxSetCalls
    /\ calls' = calls + 1
    /\ policy' = SetBitRange(policy, GuestPolicyFields[f][1], GuestPolicyFields[f][2], v)

\* report.policy(): the caller starts over from a decoded report's policy.
FromReport(w) ==
    /\ policy' = LE(w, 8)
    /\ calls' = 0

Next ==
    \/ \E f \in DOMAIN GuestPolicyFields, v \in SetValues : Set(f, v)
    \/ \E w \in DecodedPolicies : FromReport(w)

Spec == Init /\ [][Next]_vars

-----------------------------------------------------------------------------

\* The spec's BitField invariant: the reserved bit 17 is "forced to 1 on
\* serialization, independent of stored state".  This states it of the
\* serde form GuestPolicy derives (the form it has inside a report).
SerializedPolicyHasBit17 ==
    Bit(GuestPolicySerde(policy), 17) = 1

=============================================================================
