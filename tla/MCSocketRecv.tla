---------------------------- MODULE MCSocketRecv ----------------------------
\* Instances of SocketRecv for TLC: one or two bytes in one pbuf, or a chain.
EXTENDS SocketRecv
SomeShapes == {<<1, 0>>, <<2, 0>>, <<1, 1>>}
SomeLengths == {0, 1, 3}
===========================================================================
