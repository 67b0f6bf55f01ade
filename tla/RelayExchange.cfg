SPECIFICATION RelaySpec
CONSTANTS
    Prohibited = Prohibited
    NoAuthzid = NoAuthzid
    NoMessage = NoMessage
    Kinds <- MCKinds
    Materials <- MCMaterials
    SaslPrep = FALSE
    Prep <- MCPrep
    Sasls <- MCSasls
    Inputs = {}
    Names = {}
    MaxWrites = 0
    Legs = {1, 2}
    Radix = 8
    Offers <- MCOffers
    Sizes <- MCSizes
    Authzids <- MCAuthzids
    GrantedNames <- MCGrantedNames
    GrantedOctets <- MCGrantedOctets
    MaxExchanges = 2
INVARIANTS
    TokensInStep
    PeersAgree
PROPERTIES
    EventuallyDecided
    HonestSucceeds
