SPECIFICATION Spec
CONSTANTS
    Sizes <- MCSizes
    Marshals <- MCMarshals
    Unmarshals <- MCUnmarshals
    Messages <- MCMessages
    Base <- MCBase
    NewFields <- MCNewFields
    Framed <- MCFramed
    Tags <- MCTags
INVARIANTS Delivered CutNoticed ComparisonExact
CHECK_DEADLOCK FALSE
