SPECIFICATION Spec
CONSTANTS
  Names = {n1, n2, n3}
  Lens = {0, 15, 16, 17}
  Texts = {x, y}
  Addrs = {1, 2, 3, 254, 255, 256}
  Targets <- SharedTag
  Junk = junk
SYMMETRY Symmetry
INVARIANTS Faithful OwnedOnce
