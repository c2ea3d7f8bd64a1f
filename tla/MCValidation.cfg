CONSTANTS
    Scalar = Scalar
    Nil = Nil
    Fields <- MCFields
    Schemas <- MCSchemas
    Documents <- MCDocuments
    Actions <- MCActions
SPECIFICATION Spec
INVARIANT TypeOK
INVARIANT AcceptsExactly
INVARIANT AcceptedIsClean
INVARIANT ArgumentsReady
INVARIANT PanicsOnlyTrapped
