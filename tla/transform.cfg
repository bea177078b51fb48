SPECIFICATION Spec
CONSTANTS
  Sources <- MCSources
  Invalid <- MCInvalid
  OwnSchemes <- MCOwnSchemes
  RelatedSchemes <- MCRelatedSchemes
  DroppedSchemes <- MCDroppedSchemes
  LanguageOf <- MCLanguageOf
  FunderOf <- MCFunderOf
  Awards <- MCAwards
  TermOf <- MCTermOf
  LicenseOf <- MCLicenseOf
CHECK_DEADLOCK FALSE
INVARIANTS
  IdentifiersOnce
  DoisAccounted
  SplitTypesDiffer
  NothingDropped
