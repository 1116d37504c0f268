\* Two lists share five items: every way to insert at the front, in the
\* middle or at the end of a list, and to detach from there.
CONSTANTS
  ListHead = {g, h}
  ListItem = {a, b, c, d, e}
  Null = Null
SPECIFICATION ListSpec
SYMMETRY Symmetry
INVARIANT PointersMatch
