CONSTANTS
    Players = {1, 2, 3, 4, 5}
    Bots = {4, 5}
    Instances = {1}
    RolesOf <- SmallRoles
    MayGroup <- Everybody
    DamageSlots = 1
    BotFill = TRUE
    Timeout = 2
    MaxJoins = 2
    MaxMoves = 2
    NoPlayer = 0
SPECIFICATION Spec
INVARIANTS
    OffersAgree
    LogoutForgets
PROPERTIES
    PartiesStayTogether
    
    AcceptedFormGroup
CHECK_DEADLOCK FALSE
