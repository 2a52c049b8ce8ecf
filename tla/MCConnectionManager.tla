------------------------ MODULE MCConnectionManager ------------------------
EXTENDS ConnectionManager

CONSTANTS c1, c2

MCCallers == {c1, c2}

=============================================================================
