-------------------------- MODULE MCSanitizedMessage --------------------------
\* Instances of the message compiler: keys are interchangeable.
EXTENDS SanitizedMessage

CONSTANTS k1, k2, k3, k4, k5

MCPubkey == {k1, k2, k3, k4, k5}
Interchangeable == Permutations(MCPubkey)

=============================================================================
