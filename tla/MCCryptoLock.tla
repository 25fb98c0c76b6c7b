--------------------------- MODULE MCCryptoLock ---------------------------
\* Instances of CryptoLock for TLC: the priorities of the tasks.
EXTENDS CryptoLock, TLC
CONSTANTS a1, a2, c1, c2, n1

\* Two AES tasks of one priority (and c2 of the same): nobody inherits through the private mutex.
PeerPriorities == [t \in Tasks |-> CASE t = c1 -> 7 [] t = n1 -> 9 [] OTHER -> 4]
\* Two AES tasks of different priorities.
MixedPriorities == [t \in Tasks |-> IF t = a1 THEN 4 ELSE 7]
===========================================================================
