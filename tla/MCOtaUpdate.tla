---------------------------- MODULE MCOtaUpdate ----------------------------
EXTENDS OtaUpdate
=============================================================================
