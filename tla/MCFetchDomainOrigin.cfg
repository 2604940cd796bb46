SPECIFICATION Spec
CONSTANTS
    Pinned = 2
    NameServers = {}
    Addrs <- MCAddrs
    Domain <- MCDomain
    Issuer <- MCIssuer
    Registrar <- MCRegistrar
    Policy <- MCPolicy
    Similar = {}
    ASN <- MCASN
    Origins <- MCOrigins
    Fingerprint <- MCFingerprint
    Leaves <- MCLeaves
    RdapAnswers <- MCRdapAnswers
    Checks <- MCChecks
    Clocks <- MCClocks
    Under = {}
    brand = brand
    a1 = a1
    a2 = a2
    as1 = as1
    as2 = as2
    i1 = i1
    r1 = r1
    r2 = r2
    p1 = p1
    p2 = p2
    quarantine = quarantine
INVARIANT SharedOriginMatches
