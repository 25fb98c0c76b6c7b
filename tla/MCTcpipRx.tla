------------------------------ MODULE MCTcpipRx ------------------------------
\* Instances of TcpipRx for TLC.
EXTENDS TcpipRx
CONSTANTS w1, w2
==============================================================================
