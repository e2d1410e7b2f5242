\* Three jobs of one book and two keys: at least two of them draw the same one.
SPECIFICATION Spec
CONSTANTS
  Puts = {p1, p2, p3}
  Keys = {k1, k2}
  NoPut = NoPut
  Redirects = FALSE
SYMMETRY Symmetry
INVARIANTS
  TypeOK
  UrlServesOwnPdf
  OrphanNeedsLostAnswer
PROPERTIES
  ImplementsPut
\* All uploads end.
CHECK_DEADLOCK FALSE
