SPECIFICATION Spec
CONSTANTS
    FieldNames  <- MCFieldNames
    StopWords   <- MCStopWords
    Stem        <- MCStem
    Corpora     <- MCCorpora
    Queries     <- MCQueries
    NextQueries <- MCNextQueries
    LinkTerms   <- MCLinkTerms
    MinLength   = 2
    Meaning     <- MCMeaning
    Answer      <- SiteAnswer
    Keys        = 2
INVARIANTS
    AnswersRight
    TokenSetExact
    FoundByItsWords
    LatestShown
CHECK_DEADLOCK FALSE
