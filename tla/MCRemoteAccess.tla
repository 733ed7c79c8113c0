--------------------------- MODULE MCRemoteAccess ---------------------------
EXTENDS RemoteAccess

Budget(c, s, r, d, f) == [codes |-> c, changes |-> s, removals |-> r, dials |-> d, faults |-> f]

\* Two codes and two phones; the switch changed twice over two phones, and a
\* removal; two removals; a phone paired, connected and removed; and a fault in
\* each of pairing, the switch and a removal.
MCBudgets == {
    Budget(2, 0, 0, 2, 0), Budget(0, 2, 1, 2, 0), Budget(0, 0, 2, 2, 0), Budget(1, 0, 1, 2, 0),
    Budget(1, 0, 0, 1, 1), Budget(0, 1, 0, 1, 1), Budget(0, 0, 1, 1, 1)}
MCEndpoints == {1, 2}
=============================================================================
