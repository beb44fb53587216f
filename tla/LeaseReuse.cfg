SPECIFICATION Spec
CONSTANTS
    IPs = {ip1, ip2, ip3}
    MACs = {phone, tv}
    Profiles = {kids}
    Rules = {bedtime}
    None = None
    AddressReuse = TRUE
    MaxClients = 2
    MaxMinutes = 1

PROPERTY ProfilesStick
