SPECIFICATION Spec
CONSTANTS
    Alphabet <- MCAlphabet
    MaxLength <- MCMaxLength
    MaxHeaders = 2
    Origins <- MCOrigins
INVARIANTS
    TextSurvives
    BufferFits
    PathIsClean
    BodyParsed
    HeadersParsed
    OriginsMatched
CHECK_DEADLOCK FALSE
