---------------------------- MODULE MCRecordSync ----------------------------
EXTENDS RecordSync, TLC

CONSTANTS c1, c2

Contents == {c1, c2}

\* Contents are only ever compared for equality.
ContentSymmetry == Permutations(Contents)
=============================================================================
