\* Saves, deletes and sends of one template that overlap, three at a time.
SPECIFICATION Spec
CONSTANTS
  ann = ann
  bob = bob
  c1 = c1
  c2 = c2
  t1 = t1
  r1 = r1
  r2 = r2
  r3 = r3
  r4 = r4
  None = None
  MaxOpen = 3
  User = {ann, bob}
  Contact = {c1, c2}
  Template = {t1}
  Request = {r1, r2, r3, r4}
INVARIANT RecipientsOwned
INVARIANT SmsFits
INVARIANT WritersNotMixed
INVARIANT SomeoneGoesOn
SYMMETRY Symmetry
CHECK_DEADLOCK FALSE
