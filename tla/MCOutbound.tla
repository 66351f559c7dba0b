----------------------------- MODULE MCOutbound -----------------------------
(***************************************************************************)
(* Small instances of the outbound queue for TLC.                          *)
(***************************************************************************)
EXTENDS OutboundProperties, TLC

CONSTANTS m1, m2, a1, a2, c1, j1, j2, j3, j4, o1

\* Every message goes to the same recipient and prefers no account.
OneContact == [m \in Message |-> c1]
NoPreference == [m \in Message |-> None]
PreferA1 == [m \in Message |-> a1]
LimitOne == [a \in Account |-> 1]
LimitTwo == [a \in Account |-> 2]

\* Failures of the three groups.
Timeout == {{"timedOut"}}
Network == {{"network"}}
TimeoutOrNetwork == {{"timedOut"}, {"network"}}
AllGroups == {{"timedOut"}, {"network"}, {"blocked"}}

JobSymmetry == Permutations(JobId)
ContentionSymmetry == Permutations(JobId) \cup Permutations(Message)
=============================================================================
