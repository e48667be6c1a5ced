SPECIFICATION Spec
CONSTANTS
    Chars <- MCChars
    Colon = ":"
    ContextNames <- MCContextNames
    AskedNames <- MCAskedNames
    IDs <- MCIDs
    NoClient = NoClient
    MaxMinted = 3
INVARIANTS TypeOK FindsItsContext ContextsCompare
