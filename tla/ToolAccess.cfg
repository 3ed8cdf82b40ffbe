SPECIFICATION Spec
CONSTANTS
  OfficeTools <- CatalogTools
  ManagementTools <- CatalogManagementTools
  OtherNames <- MCOtherNames
  Metadata <- MCMetadata
  Specs <- MCSpecs
  Enums <- MCEnums
  Examples <- MCExamples
  Resources <- MCResources
  Told <- ToldResources
  Advertised <- MCAdvertised
  Policies <- MCPolicies
  ArgumentsOf <- MCArgumentsOf
  Session <- MCSession
  NoObject <- MCNoObject
INVARIANTS
  PolicyRespected
  ListedIffCallable
  OnlyValidCallsAreInvoked
  ShownIsUsable
PROPERTIES
  WideningOnlyAdds
