SPECIFICATION Spec
CONSTANTS
  Clients = {c1, c2, c3}
  Terminals = {t1}
  Sizes = {s1, s2}
  MinSize = min
  NoClient = NoClient
  NoTerm = NoTerm
SYMMETRY Symmetry
INVARIANTS
  TypeOK OwnerIsAttached LockedIffOwned ForegroundIsLatest
  EffectiveSizeFollows DirectSizeKept LayoutSettled StreamsSettled NoClientAfterHandoff
PROPERTY NoSilentRemoval
