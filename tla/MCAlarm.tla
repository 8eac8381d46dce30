------------------------------ MODULE MCAlarm -------------------------------
EXTENDS Alarm

=============================================================================
