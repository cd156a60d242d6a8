----------------------------- MODULE MCRedirect -----------------------------
\* Port mappings of the netfilter build on small instances
EXTENDS Redirect, TLC

\* Internal addresses are interchangeable
Symmetry == Permutations(Iaddrs)
=============================================================================
