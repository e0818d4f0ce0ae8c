SPECIFICATION Spec
INVARIANTS
    PercentIsFloor
PROPERTIES
    PercentSmooth
