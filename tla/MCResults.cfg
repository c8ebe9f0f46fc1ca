SPECIFICATION Spec
CONSTANTS
  NoNumber = NoNumber
  Descriptions = {NoNumber, 7}
  TableItems <- MCTableItems
  EntityItems <- MCEntityItems
  PathItems <- MCPathItems
  AttrItems <- MCAttrItems
  SchemaReplies <- MCSchemaReplies
INVARIANTS FieldsComeFromTheirColumns PathsAreClosed ListsKeepTheirPlace TotalIsExact
