------------------------------ MODULE MCApiClients ------------------------------
\* ApiClients on small sets: sessions, fetches, uploads, mutations and keys are
\* interchangeable.  Sessions and keys, and fetches, uploads and mutations, share their
\* model values: no behaviour is about two of them.  There is a site and one below it.
EXTENDS ApiClients, TLC

MCSites == {<<"com", "vendor">>, <<"com", "vendor", "billing">>}

Symmetric ==
  Permutations(Sessions \cup Keys) \cup Permutations(Fetches \cup Uploads \cup Mutations)

=============================================================================
