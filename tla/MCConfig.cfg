SPECIFICATION Spec
CONSTANTS
    a = a
    b = b
    Configs <- TwoConfigs
    Fields = {"Container", "MaxObjectSize", "RequestTimeout"}
    Keys = {"max_retries"}
    Values = {"v"}
    MaxMaps = 2
SYMMETRY ConfigSymmetry
INVARIANTS
    AcceptedIsUsable
PROPERTIES
    SharedOptionsUntouched
