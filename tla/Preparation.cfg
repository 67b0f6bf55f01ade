SPECIFICATION Spec
CONSTANTS
    Prohibited = Prohibited
    Nfkc <- MCNfkc
    Texts <- MCTexts
    Spellings <- MCSpellings
INVARIANTS
    OutputClean
    ServerReadsSame
    SpellingsAgree
    BoundariesKept
    RefusedForCause
