CONSTANTS
  Sessions <- MCSessions
  aScopeOfLicense <- MCScopeOfLicense
  aVYHVAX4gukZ8Wv <- MCVYHV
  GARBAGE = GARBAGE
SPECIFICATION Spec
INVARIANTS
  TypeOK
  PaddingExact
  HandshakeAccepted
