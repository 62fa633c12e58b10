----------------------- MODULE MCRemoteSubnetWebhook -----------------------
(* Ranges and requests for checking RemoteSubnetWebhook with TLC.          *)
EXTENDS RemoteSubnetWebhook

CONSTANTS a, b

\* R1 and R2 overlap; R3 overlaps neither; L is the local subnet's range and
\* RL a remote range inside it.
R1 == [lo |-> 0, hi |-> 3]
R2 == [lo |-> 2, hi |-> 5]
R3 == [lo |-> 6, hi |-> 7]
L  == [lo |-> 8, hi |-> 9]
RL == [lo |-> 9, hi |-> 9]

MCRanges == {R1, R2, R3, L, RL}
MCLocalRanges == {L}

Create(n, rg) == [op |-> "create", name |-> n, range |-> rg]
Update(n, rg) == [op |-> "update", name |-> n, range |-> rg]
Delete(n)     == [op |-> "delete", name |-> n, range |-> R3]

\* Every kind of request: two overlapping creates, one into the local
\* subnet, an update to a free range and a delete.
MCReqsAll ==
    {Create(a, R1), Create(b, R2), Create(b, RL), Update(a, R3), Delete(b)}

=============================================================================
