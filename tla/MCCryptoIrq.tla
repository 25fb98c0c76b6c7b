---------------------------- MODULE MCCryptoIrq ----------------------------
\* Instances of CryptoIrq for TLC.
EXTENDS CryptoIrq

\* Every build and engine the code is right for.
SoundSetups == {s \in SetupType : Sound(s)}

\* Both backends on an engine whose initialisation may fail.
InitMayFail ==
  {[clients |-> {"aes", "chacha"}, deinitStops |-> TRUE, deinitFails |-> FALSE,
    initFails |-> TRUE]}
===========================================================================
