SPECIFICATION Spec
CONSTANTS
    Pinned = 2
    NameServers = {}
    Addrs = {}
    Domain <- MCDomain
    Issuer <- MCIssuer
    Registrar <- MCRegistrar
    Policy <- MCPolicy
    Similar <- MCSimilar
    Targets <- MCTargets
    Suspects <- MCSuspects
    brand = brand
    clone = clone
    other = other
    i1 = i1
    i2 = i2
    r1 = r1
    r2 = r2
    quarantine = quarantine
INVARIANTS
    ScoreIsExplained
    TargetTroubleNeverScores
    InconclusiveIsNeutral
    WorseEvidenceNeverHelps
    EndorsementNeverHurts
    LegitimateNeedsATie
    WithinScale
