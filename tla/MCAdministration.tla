---------------------------- MODULE MCAdministration ----------------------------
\* Administration on small sets: users are interchangeable, and so are calls.
\* Vault and Workflows share their vendors: no behaviour is about both.
EXTENDS Administration, TLC

Symmetric == Permutations(Users) \cup Permutations(Calls)
=============================================================================
