# TLA+ models of the SEV-SNP guest attestation types

This directory holds TLA+ models of the attestation-report code of this
repository, together with the TLC configurations that check them. The code lives in two files:

- `src/src/firmware/guest/types/snp.rs` (snp.rs below) contains:
  - `AttestationReport` (the `V2` and `V3` variants);
  - their bincode layout;
  - the version dispatcher `TryFrom<&[u8]>`;
  - the `Attestable` trait (measurable bytes and signature);
  - `Verifiable` for `(&Chain, &T)`, with an openssl and a crypto_nossl backend;
  - the accessors that unify the two versions;
  - the bit-field types `GuestPolicy`, `PlatformInfo` (V1/V2), `KeyInfo` and `GuestFieldSelect`;
  - `DerivedKey`.
- `src/src/firmware/linux/guest/types.rs` (types.rs below) contains the guest ioctl structures:
  - `ReportReq` with its `MAX_VMPL` bound;
  - `ReportRsp` with its `REPORT_SIZE` report buffer;
  - `DerivedKeyReq`/`DerivedKeyRsp`;
  - `ExtReportReq`.

## How the parts interact

One attestation round goes through these steps:

1. The guest builds a `ReportReq` with `ReportReq::new`.
2. The AMD Secure Processor writes a report into `ReportRsp.report` and signs bytes 0x0..0x29F of it.
3. The bytes travel to a relying party.
4. The relying party decodes them with `AttestationReport::try_from`.
5. It verifies the result against the key the certificate chain yields (`(&chain, &report).verify()`).
6. It reads the fields through the accessors.

The library code runs sequentially. The hard part is not concurrency but agreement between four things:

- the Rust field lists;
- the firmware's byte layout;
- the window the code hashes;
- the version dispatch.

The question is whether they agree for every version, and whether an alteration in transit can change what a caller reads without the signature check noticing.

## Modules

| Module | Models | Source |
|---|---|---|
| `SnpBitfield` | little-endian byte values; the bitfield getters of GuestPolicy, PlatformInfo V1/V2, KeyInfo and GuestFieldSelect; the setters (the bitfield crate's masked `set_bit_range`); `From<GuestPolicy> for u64`; the generated `impl Debug`, including the private `reserved` getters it calls (`CrateBitRange`, `BitfieldDebug`) | snp.rs 72-100, 904-1177 |
| `SnpReport` | the V2/V3 field lists with sizes, bincode `Serialize`/`Deserialize`, `TryFromBytes` (the dispatcher), `MeasurableBytes`, `SignatureOf`, `View` (every accessor of `impl AttestationReport`), `SerializeEnum` (the enum's derived `Serialize`), `ReportDebug` (its derived `Debug`) | snp.rs 104-396, 407-697, 826-832 |
| `SnpFirmware` | the Secure Processor: the report it writes at the ABI offsets, its signature, the signing log, ideal SHA-384 and unforgeable ECDSA | not repository code; it is an independent layout to check the decoder against |
| `SnpReportReq` | the request structures: `MAX_VMPL`, `ReportReq::default`/`new`, and both `ExtReportReq` constructors | types.rs 9, 86-164 |
| `SnpAttestation` | the round as a state machine, composing `SnpReport`, `SnpFirmware` and `SnpReportReq` with `ReportRsp` and `Verifiable::verify` | types.rs 166-199, snp.rs 834-902 |
| `SnpExtReportReq` | a guest building an `ExtReportReq` with `ExtReportReq::new` over `ReportReq::new`, or with the derived `ExtReportReq::default()` | types.rs 86-114 |
| `SnpPolicy` | GuestPolicy as a request parameter: `default()`, the setters, a policy taken from `report.policy()`, its integer form and its serde form | snp.rs 205-211, 904-985 |
| `SnpDerivedKey` | key-derivation requests: `DerivedKey::new`, the GuestFieldSelect setters, `From<DerivedKey> for DerivedKeyReq`, and the firmware's `DerivedKeyRsp` (firmware part modelled from the field comments) | snp.rs 20-100, types.rs 9-84 |
| `MCSnpAttestation`, `MCSnpPolicy`, `MCSnpDerivedKey` | the constants for TLC | |

### Byte representation

A value is a sequence of bytes, because the u64 fields do not fit into TLC's integers. Byte-array fields of the firmware's report are filled with one byte value per field (241..249), and the TCB versions (current, reported, committed, launch), the two firmware versions and the small integers (guest_svn 5, vmpl, signature algorithm 1) differ from one another, so that any field read at a wrong offset, or two fields swapped, shows up in the accessor results.

### State of `SnpAttestation`

| Variable | Meaning |
|---|---|
| `pc` | the next step |
| `req` | the `ReportReq` |
| `fw` | the abstract report the firmware issued: version, vmpl, report_data, signing key (VCEK, VLEK or none under MaskChipKey), alias_check_complete |
| `sigLog` | what the platform keys signed |
| `wire` | the bytes handed to the decoder |
| `decoded` | the result of `try_from` |
| `vek` | what `Chain::verify` yielded: a key, a foreign key, a non-P-384 key, or an error |
| `outcome` | what the caller sees |

### Actions of `SnpAttestation`

| Action | What it models |
|---|---|
| `GuestRequest` | `ReportReq::new` with `Some(v)` or `None` |
| `FirmwareReject` | the firmware refuses a VMPL below the guest's own |
| `FirmwareRespond` | the firmware writes and signs the report |
| `Deliver`, `Corrupt`, `Truncate`, `Extend` | the environment: bytes delivered intact, with one bit flipped, cut short, or with a byte appended |
| `Decode` | `TryFrom<&[u8]> for AttestationReport` |
| `Verify` | `Verifiable::verify`; the failures are checked in the code's order: chain, signature conversion, measurable bytes, public key, ECDSA result |
| `Terminated` | the round is over; this stuttering step lets TLC check deadlock in every other state |

### `SnpPolicy`

`policy` holds the stored word. `calls` counts setter calls, bounded by `MaxSetCalls`.

| Action | What it models |
|---|---|
| `Set(f, v)` | `p.set_f(v)` |
| `FromReport(w)` | starting over from a decoded report's policy |

### `SnpDerivedKey`

A guest:

1. calls `DerivedKey::new` (`New`);
2. calls setters on `guest_field_select` (`SetSelect`);
3. sends `DerivedKeyReq::from(key)` (`Request`).

`FirmwareDeriveKey` refuses out-of-range requests with status 0x16. Otherwise it returns an ideal key made of the mixed inputs. `log` keeps every request with its response, so that keys of different requests can be compared.

## Runs

### Attestation runs

All attestation runs use `MCSnpAttestation` with these bounds:

| Constant | Values |
|---|---|
| report_data | 17, 18 |
| vmpl arguments | 0, 3, 4, None (4 is above MAX_VMPL) |
| current VMPL | 1, so 0 is refused by the firmware |
| firmware versions | 2, 3 |
| bit-flip offsets | 0 (version word), 64 (plat_info), 72 (key_info), 144 (measurement), 392 (cpuid / V2 reserved), 496 (launch_tcb), 600 (a signed reserved byte), 671 (last signed byte), 672 (first signature byte), 1183 (last byte) |
| truncation lengths | 3, 4, 672, 1183 |
| chain results | vcek, vlek, foreign_vcek, bad_key, chain_error |

These cover the following cases:

- each version;
- each signing key, including none;
- each verification failure;
- each decode outcome;
- flips on both sides of the 0x2a0 boundary.

### Policy runs

`MCSnpPolicy` passes these arguments to every setter:

- 0 and 1;
- 2, one bit too wide for a one-bit field;
- 255;
- 256, one bit too wide for an ABI byte.

It allows up to 3 setter calls per policy, plus two decoded policy words. The run `policy_serde` needs none of them: `GuestPolicy::default()` already has bit 17 clear in its serde form. The bounds show that no setter sequence is needed, or could repair it, since the setters never write bit 17.

### Derived-key run

`MCSnpDerivedKey` has these bounds:

- two guests with different measurements;
- VMPL 1 and 4;
- SVN and TCB inputs at and just above their limits;
- the measurement, svn and tcb_version setters with the arguments 0, 1 and 2;
- 2 setter calls per request and 2 requests.

Two requests are what a key comparison needs.

### Results

| Run | cfg | Expect | What it shows |
|---|---|---|---|
| `attest_nossl` | `MCSnpAttestation.cfg` | pass | With crypto_nossl, genuine reports decode and verify, and a verified report always shows what the firmware attested. |
| `attest_openssl` | `MCSnpAttestationOpenssl.cfg` | pass | `VerifiedReportIsAuthentic` with openssl. Zero signatures are converted and then rejected, instead of being refused at conversion; this run checks only the property whose outcome depends on the backend. |
| `decode_panic` | `MCSnpAttestationPanic.cfg` | violation | Three bytes make `try_from` panic at snp.rs:155. The spec promises a `Truncated` error and no aborts. |
| `policy_serde` | `MCSnpPolicySerde.cfg` | violation | The derived serde form of `GuestPolicy::default()` has reserved bit 17 clear. The spec says the bit is forced to 1 on serialization, but only `From<GuestPolicy> for u64` does that (snp.rs:929, 978-985). A policy built by a caller also compares unequal (derived `PartialEq`) to the same policy read from a report. |
| `derived_key` | `MCSnpDerivedKey.cfg` | pass | Key binding: two keys are equal exactly when the requests selected the same inputs. |
| `debug_reserved` | `MCSnpAttestationDebug.cfg` | violation | `{:?}` of a genuine decoded report fails. The bitfield `impl Debug` of PlatformInfoV1/V2 and KeyInfo calls the private getters `reserved, _: 5, 63`, `6, 63` and `5, 31`, whose msb is below their lsb. In a debug build the crate's shifts overflow and panic. In a release build they wrap, and `reserved` shows the low bits doubled: KeyInfo 0x1f shows 62. The spec says bit-field operations are total and nothing aborts (spec.md:48, :100). |
| `ext_report_sentinel` | `SnpExtReportReq.cfg` | violation | `ExtReportReq::default()` (derived) has `certs_address` 0 with `certs_len` 0. Only `ExtReportReq::new` writes the `u64::MAX` sentinel, which the spec names as the default meaning "no certificate buffer" (spec.md:85). The doc comment of `new` promises a one-page buffer that neither constructor sets up. |
| `report_roundtrip` | `MCSnpAttestationRoundTrip.cfg` | violation | A report decoded from the 1184-byte buffer does not serialize back to it. The enum's derived `Serialize` writes a u32 variant index (0 or 1) before the structure, and `TryFrom` reads that index as the version and rejects it. The spec says `serialize(decode(bytes)) == bytes[..fixed_size]` (spec.md:52, :105). Only the per-version structures round-trip. |

### Properties

- `GenuineReportDecodes`: unaltered bytes decode, and every accessor returns what the firmware wrote.
- `GenuineReportVerifies`: an unaltered report checked against its signing key is `Verified`. This ties the 0x2a0 window and the enum's `measurable_bytes` override to the signed range.
- `VerifiedReportIsAuthentic`: any report that verifies shows exactly the firmware's content.
- `TypeOK`: the type invariant of `SnpAttestation`. It also catches a request whose vmpl exceeds `MAX_VMPL`.
- `DerivedKeyBindsSelection`: two derived keys are equal iff the DerivedKeys asked, through their getters, for the same root key, VMPL and selected inputs.

The violation runs check one property each:

- `DecodeNeverPanics`: decoding never panics.
- `SerializedPolicyHasBit17`: the serde form of a policy has bit 17 set.
- `DebugShowsReservedBits`: `{:?}` of a decoded report succeeds in both builds and shows the reserved bits as `reserved`. `Builds` stands for the two outcomes of an integer overflow: a panic with overflow checks, and wrapping arithmetic without them.
- `DecodedReportRoundTrips`: the enum's serde form of a decoded report equals the bytes it came from.
- `NoBufferIsSentinel`: any `ExtReportReq` without a certificate buffer carries `certs_address` `u64::MAX`, whichever constructor built it.

`CrateBitRange` follows the bitfield crate's `bit_range` shift formula. For msb >= lsb it equals `BitRange`.

Each property of a passing run has a mutant, which TLC finds violated:

| Mutant | Property it violates |
|---|---|
| `_reserved_1` of 20 bytes | `GenuineReportDecodes` |
| enum-default measurable bytes | `GenuineReportVerifies` |
| ignored verification result | `VerifiedReportIsAuthentic` |
| missing VMPL bound | `TypeOK` |
| a conversion that drops `guest_field_select` | `DerivedKeyBindsSelection` |

### Fairness and deadlock

A round, and a bounded series of key requests, is a finite sequence of synchronous calls with no loops. The state graphs are acyclic: TLC reports a depth of 6 for an attestation round. Both `SnpAttestation` and `SnpDerivedKey` end in a `Terminated` stutter step, and deadlock checking is on. So TLC shows that every state short of the end has a next step, and that every behaviour reaches the end.

No `WF_` condition is stated. The library has no loops, no waiting and no retries. Every operation is one synchronous call that returns or panics, so the only liveness claim is "a started call returns", and the code justifies fairness only for the library's own calls (`Decode`, `Verify`). Under that fairness, "every round ends" follows from acyclicity and deadlock freedom, which the runs already establish. Asking TLC's liveness checker for it made the checker evaluate the 1184-byte reports under `ENABLED` without end.

## Not modelled, and the plan

Not modelled, and why:

- The `Display` impls are formatting only.
- Certificate-chain validation is outside these files. It is represented only by what `Chain::verify` yields.
- The SNP_GET_EXT_REPORT ioctl that consumes `ExtReportReq`, and its certificate-buffer protocol (a too-small buffer, then a retry), are not in these files. Only the constructors are modelled.
- The two source files disagree:
  - `DerivedKeyReq::from` (types.rs:53) and the test `test_derived_key_req_conversion` use `DerivedKey::launch_mit_vector` and a six-argument `DerivedKey::new`.
  - snp.rs declares neither.
  - The model follows snp.rs and takes the vector as unset (0).
- The `Default` impls of `AttestationReportV2/V3` build all-zero reports, with version 0. No operation of these files consumes them.
- `Display` of `GuestPolicy` omits the policy bits 21..24. This is formatting only.
- In types.rs, the test `test_new_error` is marked `should_panic`, but it calls `ReportReq::new(.., Some(0))`, which succeeds. It panics only in its own `assert_eq`, so the VMPL error path is tested by `test_report_req` alone.

Nothing more of the two files can be modelled faithfully. Every operation that changes state, and every conversion a property depends on, is an action or an operator of a module. The remaining lines fall into three groups:

- `Display`, which is formatting;
- the `Default` impls of the report structures, which nothing here consumes;
- the unit tests.

Two directions would need code outside these files:

- A freshness property, where a relying party compares `report_data` with its nonce, needs the relying party's code.
- A retry model for the extended report needs the ioctl wrapper.
