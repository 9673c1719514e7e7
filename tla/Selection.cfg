SPECIFICATION SelectionSpec
CONSTANTS
  p1 = p1
  o1 = o1
  o2 = o2
  t1 = t1
  t2 = t2
  u1 = u1
  u2 = u2
  ca1 = ca1
  ca2 = ca2
  PlainCards = {p1}
  V1Cards = {o1, o2}
  V2Cards = {t1, t2, u1, u2}
  Trusted = {t1, t2}
  None = None
  Applet <- MCApplet
  CardStates <- MCCardStates
  CAs = {ca1}
  Whitelisted = {t2}
INVARIANTS
  TypeOK
  OpenOnlyToTrusted
  InitIsSealed
  InfoIsTrue
PROPERTY
  CommandSet
