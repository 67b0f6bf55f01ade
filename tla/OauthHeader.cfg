SPECIFICATION Spec
CONSTANTS
    Prohibited = Prohibited
    NoAuthzid = NoAuthzid
    NoMessage = NoMessage
    Kinds <- MCKinds
    Materials <- MCMaterials
    SaslPrep = TRUE
    Prep <- MCPrep
    Sasls <- MCSasls
    Inputs <- MCInputs
    Names <- MCNames
    MaxWrites = 4
INVARIANT
    HeaderNamesUsername
