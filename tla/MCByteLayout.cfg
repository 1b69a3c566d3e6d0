CONSTANT Bytes <- MCBytes
CONSTANT Types <- MCIntTypes
SPECIFICATION Spec
INVARIANT TypeOK
INVARIANT RoundTrip
