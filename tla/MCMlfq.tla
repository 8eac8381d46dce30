------------------------------- MODULE MCMlfq -------------------------------
EXTENDS Mlfq, TLC

MCTicksAllowed == <<2, 4, 8, 16>> @@ (0 :> 1)

=============================================================================
