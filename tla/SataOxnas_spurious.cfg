SPECIFICATION Spec
CONSTANTS
    Ports = {0, 1}
    HotPorts = {}
    Tags = {t1, t2}
    Internal = internal
PROPERTY SpuriousIgnored
