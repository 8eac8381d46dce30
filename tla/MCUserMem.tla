----------------------------- MODULE MCUserMem ------------------------------
EXTENDS UserMem

MCImages == {<<1>>, <<2, 3>>}

=============================================================================
