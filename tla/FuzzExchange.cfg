SPECIFICATION FuzzSpec
CONSTANTS
    Prohibited = Prohibited
    NoAuthzid = NoAuthzid
    NoMessage = NoMessage
    Kinds <- MCKinds
    Materials <- MCMaterials
    SaslPrep = TRUE
    Prep <- MCPrep
    Sasls <- MCSasls
    Inputs <- MCInputs
    Names = {}
    MaxWrites = 4
    Exchanges <- MCExchanges
    MaxChallenges = 3
INVARIANTS
    StrayRefused
