SPECIFICATION Spec
CONSTANTS
    IPs = {ip1, ip2, ip3}
    MACs = {phone, tv}
    Profiles = {kids}
    Rules = {bedtime}
    None = None
    AddressReuse = FALSE
    MaxClients = 2
    MaxMinutes = 2
INVARIANTS TypeOK MacUnique FamilyPauseEnds MinutesConserved
SYMMETRY Symmetry
PROPERTY ProfilesStick
