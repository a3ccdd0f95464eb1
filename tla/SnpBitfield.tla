---------------------------- MODULE SnpBitfield ----------------------------
(***************************************************************************)
(* Bit-field values of src/src/firmware/guest/types/snp.rs.                *)
(*                                                                         *)
(* Every bit-field type of the source is a `bitfield!` newtype over a u32  *)
(* or u64.  On the wire (bincode, little endian, fixed-int encoding) such  *)
(* a value is its little-endian bytes, so a value is modelled here as the  *)
(* sequence of its bytes: a u64 does not fit into a TLC integer, its bytes *)
(* do.  A getter `name, _: msb, lsb` of the bitfield crate reads bits      *)
(* lsb..msb (inclusive) as an unsigned integer.                            *)
(***************************************************************************)
EXTENDS Integers, Sequences, FiniteSetsExt

\* Little-endian bytes of the integer 0 <= n < 2^31 in a field of w bytes
\* (TLC integers are 32-bit; bytes 5..w of such an n are zero).
LE(n, w) == [i \in 1..w |-> IF i > 4 THEN 0 ELSE (n \div (256 ^ (i - 1))) % 256]

\* The unsigned integer encoded by a little-endian byte sequence
\* (u32::from_le_bytes for w = 4); defined for values below 2^31, which
\* the inputs of the models keep to.
FromLE(bytes) == MapThenSumSet(LAMBDA i : bytes[i] * (256 ^ (i - 1)), DOMAIN bytes)

\* A byte array of n bytes, each equal to b.
Fill(n, b) == [i \in 1..n |-> b]

\* Bit i (0 = least significant) of a little-endian byte sequence.
Bit(bytes, i) == (bytes[(i \div 8) + 1] \div (2 ^ (i % 8))) % 2

\* The bitfield crate's getter `name, _: msb, lsb`: bits lsb..msb as an
\* unsigned integer.  A getter written with a single bit (`name, _: b`)
\* is BitRange(bytes, b, b) read as a boolean.
BitRange(bytes, msb, lsb) ==
    MapThenSumSet(LAMBDA i : Bit(bytes, i) * (2 ^ (i - lsb)), lsb..msb)

\* What the getter `name, _: msb, lsb` returns in a given build.  It calls
\* the bitfield crate's BitRange::bit_range(msb, lsb) on the w-bit word:
\*   r = (x << (w - msb - 1)) >> (w - msb - 1 + lsb);
\*   r << (w - (msb - lsb + 1)) >> (w - (msb - lsb + 1))
\* in usize arithmetic.  For msb >= lsb that is BitRange.  For msb < lsb the
\* shift w - msb - 1 + lsb is w or more and msb - lsb + 1 underflows: a
\* build with overflow checks (the debug profile) panics; a release build
\* wraps the subtraction and takes every shift amount modulo w.
CrateBitRange(bytes, msb, lsb, build) ==
    LET w == 8 * Len(bytes)
        a == (w - msb - 1) % w
        b == (w - msb - 1 + lsb) % w
        t == (w - (msb - lsb + 1)) % w
        \* bit i of (x << a) >> b
        bitAt[i \in 0..(w - 1)] ==
            IF i + b < w /\ i + b - a >= 0 THEN Bit(bytes, i + b - a) ELSE 0
    IN  CASE msb >= lsb     -> [ok |-> TRUE, val |-> BitRange(bytes, msb, lsb)]
          [] build = "debug" -> [ok |-> FALSE]
          [] OTHER          -> [ok |-> TRUE,
                                val |-> MapThenSumSet(LAMBDA i : bitAt[i] * (2 ^ i),
                                                      0..(w - t - 1))]

\* `impl Debug;` in a bitfield! block (the crate's bitfield_debug): a
\* debug_struct of the word and of every field that has a getter, private
\* ones included, in declaration order.  A getter that panics panics the
\* formatting.  getters maps each getter's name to its <<msb, lsb>>.
BitfieldDebug(bytes, getters, build) ==
    LET r == [g \in DOMAIN getters |->
                 CrateBitRange(bytes, getters[g][1], getters[g][2], build)]
    IN  IF \E g \in DOMAIN getters : ~r[g].ok
        THEN [ok |-> FALSE]
        ELSE [ok |-> TRUE, val |-> [g \in DOMAIN getters |-> r[g].val]]

\* The setters the bitfield! macro generates, `name, set_name: msb, lsb`,
\* are the bitfield crate's set_bit_range(msb, lsb, value).

\* Bit i of the u64 value << lsb (zero once it is shifted out of 64 bits).
ShiftedBit(v, lsb, i) ==
    IF i < lsb \/ i - lsb > 30 THEN 0 ELSE (v \div (2 ^ (i - lsb))) % 2

\* bytes with bytes lo..hi rebuilt so that bit i is bitAt(i); the bits of
\* the other bytes are bitAt's anyway.
FromBits(bytes, lo, hi, bitAt) ==
    [k \in DOMAIN bytes |->
        IF k < lo \/ k > hi THEN bytes[k]
        ELSE MapThenSumSet(LAMBDA j : bitAt[8 * (k - 1) + j] * (2 ^ j), 0..7)]

\* set_bit_range(msb, lsb, value): *self &= !mask; *self |= (value << lsb) & mask.
SetBitRange(bytes, msb, lsb, v) ==
    LET bitAt[i \in 0..(8 * Len(bytes) - 1)] ==
            IF lsb <= i /\ i <= msb THEN ShiftedBit(v, lsb, i) ELSE Bit(bytes, i)
    IN  FromBits(bytes, lsb \div 8 + 1, msb \div 8 + 1, bitAt)

-----------------------------------------------------------------------------
(* GuestPolicy (u64).                                                      *)

\* Getters of GuestPolicy.
GuestPolicyView(p) ==
    [abi_minor              |-> BitRange(p, 7, 0),
     abi_major              |-> BitRange(p, 15, 8),
     smt_allowed            |-> BitRange(p, 16, 16),
     migrate_ma_allowed     |-> BitRange(p, 18, 18),
     debug_allowed          |-> BitRange(p, 19, 19),
     single_socket_required |-> BitRange(p, 20, 20),
     cxl_allowed            |-> BitRange(p, 21, 21),
     mem_aes_256_xts        |-> BitRange(p, 22, 22),
     rapl_dis               |-> BitRange(p, 23, 23),
     ciphertext_hiding      |-> BitRange(p, 24, 24)]

\* From<GuestPolicy> for u64: the stored value with the reserved bit 17
\* forced to one (value.0 | 1 << 17).  Bit 17 lives in byte 3, bit 1.
GuestPolicyToU64(p) ==
    [p EXCEPT ![3] = IF Bit(p, 17) = 1 THEN @ ELSE @ + 2]

-----------------------------------------------------------------------------
(* PlatformInfo (u64), two revisions, and the PlatformInfo enum.           *)

\* PlatformInfoV1 getters (bits 0..4).
PlatformInfoV1View(b) ==
    [smt_enabled               |-> BitRange(b, 0, 0),
     tsme_enabled              |-> BitRange(b, 1, 1),
     ecc_enabled               |-> BitRange(b, 2, 2),
     rapl_disabled             |-> BitRange(b, 3, 3),
     ciphertext_hiding_enabled |-> BitRange(b, 4, 4)]

\* The getters of PlatformInfoV1 and PlatformInfoV2, the private
\* `reserved` included, as their bitfield! blocks declare them.
PlatformInfoV1Getters ==
    [smt_enabled |-> <<0, 0>>, tsme_enabled |-> <<1, 1>>, ecc_enabled |-> <<2, 2>>,
     rapl_disabled |-> <<3, 3>>, ciphertext_hiding_enabled |-> <<4, 4>>,
     reserved |-> <<5, 63>>]

PlatformInfoV2Getters ==
    [smt_enabled |-> <<0, 0>>, tsme_enabled |-> <<1, 1>>, ecc_enabled |-> <<2, 2>>,
     rapl_disabled |-> <<3, 3>>, ciphertext_hiding_enabled |-> <<4, 4>>,
     alias_check_complete |-> <<5, 5>>, reserved |-> <<6, 63>>]

\* The PlatformInfo enum's accessors: the five shared bits, and
\* alias_check_complete, which is Err(UnsupportedField) on a V1 value
\* and bit 5 on a V2 value.  `ok` is the Result's discriminant.
PlatformInfoView(variant, b) ==
    [shared               |-> PlatformInfoV1View(b),
     alias_check_complete |->
        IF variant = "V1"
        THEN [ok |-> FALSE, val |-> 0]
        ELSE [ok |-> TRUE,  val |-> BitRange(b, 5, 5)]]

-----------------------------------------------------------------------------
(* KeyInfo (u32).                                                          *)

KeyInfoView(k) ==
    [author_key_en |-> BitRange(k, 0, 0) = 1,
     mask_chip_key |-> BitRange(k, 1, 1),
     signing_key   |-> BitRange(k, 4, 2)]

\* The range getters of KeyInfo (author_key_en is a single-bit getter).
KeyInfoGetters ==
    [mask_chip_key |-> <<1, 1>>, signing_key |-> <<4, 2>>, reserved |-> <<5, 31>>]

-----------------------------------------------------------------------------
(* GuestFieldSelect (u64).                                                 *)

GuestFieldSelectView(g) ==
    [get_guest_policy |-> BitRange(g, 0, 0),
     get_image_id     |-> BitRange(g, 1, 1),
     get_family_id    |-> BitRange(g, 2, 2),
     get_measurement  |-> BitRange(g, 3, 3),
     get_svn          |-> BitRange(g, 4, 4),
     get_tcb_version  |-> BitRange(g, 5, 5)]

=============================================================================
