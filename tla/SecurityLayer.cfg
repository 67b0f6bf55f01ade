SPECIFICATION Spec
CONSTANTS
    Radix = 16
    Offers <- MCOffers
    Sizes <- MCSizes
    Authzids <- MCAuthzids
INVARIANTS
    OfferUnderstood
    AnswerUnderstood
