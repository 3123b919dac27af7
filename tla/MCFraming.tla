----------------------------- MODULE MCFraming -----------------------------
EXTENDS Framing

\* An SLP header of the signature and one more byte, a NetSync header of two.
HeaderLengths == [p \in Protocols |-> IF p = "slp" THEN 4 ELSE 2]
CrcLengths == [p \in Protocols |-> IF p = "slp" THEN 1 ELSE 0]
=============================================================================
