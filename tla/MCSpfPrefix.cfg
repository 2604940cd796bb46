SPECIFICATION Spec
CONSTANTS
    Name <- MCName
    Addr <- MCAddr
    V6 <- MCV6
    Network <- MCNetwork
    Length = Length
    Blank = Blank
    Targets <- MCTargets
    Suspects <- MCSuspects
    Zones <- MCZones
    Limit = 4
    brand = brand
    mailer = mailer
    four = four
    six = six
    sixNear = sixNear
    sixFar = sixFar
INVARIANT NetworksAreHonoured
