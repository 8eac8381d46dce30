------------------------------ MODULE MCConsole -----------------------------
EXTENDS Console

MCBounds == {<<4, 0, 3>>, <<1, 5, 0>>, <<1, 2, 1>>}

=============================================================================
