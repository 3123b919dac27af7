------------------------------- MODULE MCPadp -------------------------------
EXTENDS Padp

\* Requests of three, one and one pieces; replies of one, two and one.
ThreeCalls == [p \in Peers |-> IF p = "pc" THEN <<3, 1, 1>> ELSE <<1, 2, 1>>]
=============================================================================
