\* Two tags, two builds, and two changes to what is published.
SPECIFICATION Spec
CONSTANTS
  t1 = t1
  t2 = t2
  b1 = b1
  b2 = b2
  Tag = {t1, t2}
  Build = {b1, b2}
  Audited = Audited
  Other = Other
  MaxChanges = 2
  Nil = Nil
INVARIANTS HostRunsWhatWasSigned IdentityIsOfOneRelease
PROPERTY InstalledEventually
CHECK_DEADLOCK FALSE
