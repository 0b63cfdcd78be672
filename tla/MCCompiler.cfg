SPECIFICATION Spec
CONSTANT NamesInOrder <- MCNames
CONSTANT Quoted <- MCQuoted
CONSTANT Exported <- MCExported
CONSTANT Programs <- MCPrograms
INVARIANT WiringSound
INVARIANT PoliciesEnforced
INVARIANT ModulesIsolated
INVARIANT AnnotationsExact
INVARIANT NoAnnotationIgnored
CHECK_DEADLOCK FALSE
