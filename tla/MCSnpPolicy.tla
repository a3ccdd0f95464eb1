---------------------------- MODULE MCSnpPolicy ----------------------------
(* Model-checking instance of SnpPolicy.                                   *)
EXTENDS SnpPolicy

\* Setter arguments: 0 and 1 for every field, 2 (one bit too wide for a
\* one-bit field), 255 (the largest ABI version) and 256 (one bit too wide
\* for an ABI byte): none of them may set reserved bit 17.
MCSetValues == {0, 1, 2, 255, 256}

\* Policy words of decoded reports: ABI 1.55 with SMT allowed and the
\* reserved bit 17 set, and the same with debugging allowed.
MCDecodedPolicies == {196919, 721207}

\* Three setter calls per policy, on top of default() or a decoded word.
MCMaxSetCalls == 3
=============================================================================
