\* Every configuration of a base and two fragments is adopted, rendered, lost and
\* adopted again, patched, and its profile imported elsewhere by either parser.
SPECIFICATION Spec
CONSTANTS
    Confs <- SomeConfs
    Patches <- SomePatches
    Features <- SomeFeatures
    MaxRounds = 2
    NoRow = NoRow
    NoConf = NoConf
    Unset = Unset
INVARIANTS TypeOK SaidIsKept OursControl ProfileFits
CHECK_DEADLOCK FALSE
