-------------------------------- MODULE MCKV --------------------------------
EXTENDS KV, TLC

CONSTANTS n1, n2

MCServers == <<n1, n2>>

\* One Clerk for each caller, and one for them all.
OwnClerks   == [c \in Caller |-> c]
SharedClerk == [c \in Caller |-> "clerk"]

Symmetry == Permutations(Caller)
=============================================================================
