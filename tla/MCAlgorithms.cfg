SPECIFICATION Spec
INVARIANTS
    SourceIsBound
    
    EmissionIsExact
PROPERTIES
    
    
    AnalysisIsExact
CHECK_DEADLOCK FALSE
