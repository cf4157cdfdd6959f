\* A table of three offers over four hashes, two offers per author, three
\* authors: refusals, refreshes and evictions of every author's offers.
CONSTANTS
  Hashes = {h1, h2, h3, h4}
  Peers = {p1, p2, p3}
  Names = {n1, n2}
  MAX_OFFERS = 3
  MAX_OFFERS_PER_AUTHOR = 2
  MAX_ALIASES_PER_OFFER = 2
  MAX_KNOWN_PEERS = 1
SPECIFICATION Spec
INVARIANTS
  TypeOK
  TablesAgree
  OneAuthorCannotFlush
SYMMETRY Symmetry
