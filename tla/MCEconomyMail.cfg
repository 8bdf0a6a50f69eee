SPECIFICATION Spec
CONSTANTS
    ann = ann
    bob = bob
    cid = cid
    sword = sword
    Players <- Two
    Items <- Sword
    Nobody = Nobody
    Money = 3
    MaxMoney = 6
    MaxCalls = 3
    MaxPending = 1
    MaxRelogs = 1
    StartBid = 1
    Buyout = 3
    Deposit = 1
    CutPercent = 50
    Prices <- ThreePrices
    Fee = 1
    Parcels <- TwoParcels
    Offers <- TwoOffers
SYMMETRY Symmetry
INVARIANTS TakenMoneyStaysTaken
CHECK_DEADLOCK FALSE
