SPECIFICATION Spec
CONSTANTS
    Components <- MCComponents
    Lower <- MCLower
    Identifiers <- MCIdentifiers
    Types <- MCTypes
    NoType = NoType
    Columns <- MCColumns
    Catalogues <- MCCatalogues
    SchemaArgs <- MCSchemaArgs
    TableArgs <- MCTableArgs
    HiddenLists <- MCHiddenLists
    RowCap = 3
CHECK_DEADLOCK FALSE
INVARIANT
    TableIsOneIdentifier
