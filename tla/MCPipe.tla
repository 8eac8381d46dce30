------------------------------- MODULE MCPipe -------------------------------
EXTENDS Pipe, TLC

=============================================================================
