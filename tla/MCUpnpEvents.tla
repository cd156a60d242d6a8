---------------------------- MODULE MCUpnpEvents ----------------------------
\* Small instances of UpnpEvents for TLC.
EXTENDS UpnpEvents, TLC

\* Addresses are interchangeable: no step prefers one to another.
AddressSymmetry == Permutations(SubAddrs) \cup Permutations(NotifyAddrs)
=============================================================================
