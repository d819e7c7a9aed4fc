------------------------------ MODULE MCGateway ------------------------------
EXTENDS Gateway

\* Sound for safety: tools and refreshes are only compared.
Symmetry == Permutations(Tools) \cup Permutations(Refreshes)

=============================================================================
