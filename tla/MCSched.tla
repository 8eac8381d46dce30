------------------------------- MODULE MCSched ------------------------------
EXTENDS Sched

MCTickets == {-1, 0, 2}
MCMaxCalls == [FCFS |-> 3, PBS |-> 3, LBS |-> 2]

=============================================================================
