SPECIFICATION Spec
CONSTANTS
  Segments <- MCSegments
  Definitions <- MCDefinitions
  Inductives <- MCInductives
  Fixpoints <- MCFixpoints
  Modules <- MCModules
  ExternalTypes <- MCExternalTypes
  ExternalInductives <- MCExternalInductives
  MaxFields = 3
  MaxDepth = 2
INVARIANT ReferencesAreQualified
