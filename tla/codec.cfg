INIT CodecInit
NEXT CodecNext
CONSTANTS
    Messages <- MCMessages
    Samples <- MCSamples
INVARIANT FieldsSurvive AcceptedWhole
INVARIANT Float16Faithful IdentifiersAgree ErrorsDetected FiltersAsMeant RegistersAgree
INVARIANT TimingsExact DescriptorsClosed
PROPERTY NeighboursUntouched
CHECK_DEADLOCK FALSE
