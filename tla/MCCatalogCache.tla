--------------------------- MODULE MCCatalogCache ---------------------------
EXTENDS CatalogCache, TLC

\* Connections behave alike and are never ordered; entries are picked by CHOOSE
\* and stay distinguishable.
Symmetry == Permutations(Connections)
=============================================================================
