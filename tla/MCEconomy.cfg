SPECIFICATION Spec
CONSTANTS
    ann = ann
    bob = bob
    cid = cid
    sword = sword
    Players <- Three
    Items <- Sword
    Nobody = Nobody
    Money = 3
    MaxMoney = 6
    MaxCalls = 3
    MaxPending = 1
    MaxRelogs = 2
    StartBid = 1
    Buyout = 3
    Deposit = 1
    CutPercent = 50
    Prices <- ThreePrices
    Fee = 1
    Parcels <- FullParcel
    Offers <- PricedOffer
SYMMETRY Symmetry
INVARIANTS SavesWhatMemoryHolds GoldConserved OneHolder
PROPERTIES RelogLoadsSave
CHECK_DEADLOCK FALSE
