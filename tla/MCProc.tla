------------------------------- MODULE MCProc -------------------------------
EXTENDS Proc

=============================================================================
