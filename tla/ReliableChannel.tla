-------------------------- MODULE ReliableChannel --------------------------
(***************************************************************************)
(* What PADP promises on top of SLP ("reliable, ordered delivery",         *)
(* docs/how-palm-os-hotsync-works.md): each side's messages arrive at the  *)
(* other whole, once and in order, and a write that reports success has    *)
(* been received, unless one side has gone down.                           *)
(***************************************************************************)
EXTENDS Naturals, Sequences

CONSTANTS Peers, Message(_, _)  \* Message(p, k): the k-th message of peer p

VARIABLES
    sent,       \* how many messages each peer has started to write
    received,   \* the messages of each peer that have arrived, in order
    confirmed,  \* how many of a peer's writes have reported success
    down        \* the peers whose stream has been destroyed

Init ==
    /\ sent = [p \in Peers |-> 0]
    /\ received = [p \in Peers |-> <<>>]
    /\ confirmed = [p \in Peers |-> 0]
    /\ down = {}

\* Something is written once what was written before has been confirmed.
Send(p) ==
    /\ p \notin down /\ sent[p] = confirmed[p]
    /\ sent' = [sent EXCEPT ![p] = @ + 1]
    /\ UNCHANGED <<received, confirmed, down>>

Receive(p) ==
    /\ Len(received[p]) < sent[p]
    /\ received' = [received EXCEPT
                      ![p] = Append(@, Message(p, Len(received[p]) + 1))]
    /\ UNCHANGED <<sent, confirmed, down>>

Confirm(p) ==
    /\ p \notin down /\ confirmed[p] < sent[p]
    /\ confirmed[p] < Len(received[p]) \/ down \ {p} # {}
    /\ confirmed' = [confirmed EXCEPT ![p] = @ + 1]
    /\ UNCHANGED <<sent, received, down>>

\* A stream that is given up is given up with a write still open.
GoDown(p) ==
    /\ confirmed[p] < sent[p]
    /\ down' = down \cup {p}
    /\ UNCHANGED <<sent, received, confirmed>>

Next == \E p \in Peers : Send(p) \/ Receive(p) \/ Confirm(p) \/ GoDown(p)

Spec == Init /\ [][Next]_<<sent, received, confirmed, down>>
=============================================================================
