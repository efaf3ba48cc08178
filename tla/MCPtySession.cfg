CONSTANTS
    i1 = i1
    i2 = i2
    a1 = a1
    a2 = a2
    Ids <- MCIds
    Attachments <- MCAttachments
    Sizes <- MCSizes
    AutoId <- MCAutoId
    MaxAuto = 2
SPECIFICATION Spec
INVARIANTS TypeOK EffectiveIsTightMinimum
PROPERTY DetachedKeepsSize
