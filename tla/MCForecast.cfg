SPECIFICATION Spec
CONSTANTS
    Start <- MCStart
    End <- MCEnd
    FrameStart <- MCStart
    FrameEnd <- MCEnd
    Granularities = {1, 3, 12}
    Outlook <- MCOutlook
    Facts <- MCFacts
    Intents <- MCIntents
    CardRate <- MCCardRate
    AutoRate <- MCAutoRate
    AutoTerm = 4
    Plans <- MCPlans
    OpeningTitles <- MCOpeningTitles
    MaxPlausibleRate <- MCMaxPlausibleRate
    MaxPlausibleTerm = 12
INVARIANTS
    AmortizesAlike
    OneCycleOwed
    ChargedAlike
    TenureCovered
    RecapturedOnce
    CardsClear
    OneCarAtATime
PROPERTIES
    SoldPropertyCostsNoMore
