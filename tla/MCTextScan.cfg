CONSTANTS
    Chars <- MCChars
    Newline <- MCNewline
    AnyName = "~"
    ShownLimit = 1
    FirstNameChars <- MCFirstNameChars
    NameChars <- MCNameChars
    Quotes <- MCQuotes
    WhitespaceChars <- MCWhitespaceChars
    Printable <- MCPrintable
    Scanners <- MCScanners
    Texts <- MCTexts
    MaxLength = 4
    MaxTokens = 2
SPECIFICATION Spec
INVARIANTS
    TypeOK
    NoTokenIsMissed
    TokenRangeIsConsumedText
    LinesAreThoseOfTheText
    ErrorTextShowsThePlace
PROPERTIES
    ImplementsTextTokens
CHECK_DEADLOCK FALSE
