----------------------------- MODULE MCActionOta -----------------------------
EXTENDS ActionOta

\* A host offers one version, in full, without a network or without a URL, to a
\* device that starts with any firmware in any slot.
Announcements ==
  {[version |-> "v2", ap |-> TRUE, url |-> "good"],
   [version |-> "v2", ap |-> TRUE, url |-> "none"],
   [version |-> "v2", ap |-> FALSE, url |-> "good"]}
=============================================================================
