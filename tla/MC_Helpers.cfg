CONSTANTS
    c1 = c1
    c2 = c2
    d1 = d1
    d2 = d2
    null = null
    nul = nul
    token = token
    t1 = t1
    t2 = t2
SPECIFICATION Spec
INVARIANTS
    HelpersTypeOK
    ConvertsAsDocumented
    AllocatesWholeArray
    WriteAdvancesOverCopied
    FaultInAsDocumented TouchesOnlyInsideRange
    CallbacksAsDocumented
    NoLeakedDevice
    ReadsEveryEntryOnce
    AdvertisingReadBack PartnerReadBack
    IdsOwnedOnce ReturnedInRange NoSpuriousEnospc
    FragmentAsOnWire AddressAsDocumented NlaRoundTrip
