--------------------------- MODULE MCSnpDerivedKey ---------------------------
(* Model-checking instance of SnpDerivedKey.                               *)
EXTENDS SnpDerivedKey

CONSTANTS g1, g2

\* Two guests with different measurements and the same policy, so that
\* only selecting the measurement tells their keys apart.
MCGuests == {g1, g2}
MCMeasurement == [g \in MCGuests |-> IF g = g1 THEN 243 ELSE 250]
MCGuestPolicyOf == [g \in MCGuests |-> 196919]

\* VMPL 1 (the guest's own) and 4 (above MAX_VMPL, which DerivedKey::new
\* does not check); SVNs at and above the launch SVN; TCBs at and above
\* CommittedTcb.
MCVmplInputs == {1, 4}
MCSvnInputs == {1, 2}
MCTcbInputs == {150, 151}

\* The inputs that tell two keys apart in this instance, plus the last
\* defined bit, whose setter with 2 would reach reserved bit 6.
MCSelectFields == {"measurement", "svn", "tcb_version"}
MCSelectValues == {0, 1, 2}
=============================================================================
