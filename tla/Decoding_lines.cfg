\* Every command line of the families; records of one consumer each; copies.
CONSTANTS
  Topic = "t"
  Schemas <- MCSchemas
  SchemaIds <- MCSchemaIds
  Registrations <- MCRegistrations
  Undecodable <- MCUndecodable
  Lines <- MCLines
  Files <- MCFiles
  Texts <- MCTexts
  MaxDepth <- MCMaxDepth
  AvroSchemas <- MCAvroSchemas
  AvroData <- MCAvroData
  ByteStrings <- MCByteStrings
SPECIFICATION LinesSpec
INVARIANTS OptionsSuffice SettingsAreOptional OnlyUnhandledEndIt DecodableIsDecoded MetadataIsTrue CopiesAreTheSame
CHECK_DEADLOCK FALSE
