CONSTANT Bytes <- MCBytes
CONSTANT Types <- MCAllTypes
SPECIFICATION Spec
INVARIANT SpecPlan
