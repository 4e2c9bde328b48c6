\* What adopting and rendering lose: the direction of an adopted tls-auth key, the
\* roles of an instance with a static key, and what an import folded into the extra
\* directives shadows when it is set later.  Each is violated; -continue shows all.
SPECIFICATION Spec
CONSTANTS
    Confs <- SomeConfs
    Patches <- SomePatches
    Features <- SomeFeatures
    MaxRounds = 2
    NoRow = NoRow
    NoConf = NoConf
    Unset = Unset
INVARIANTS KeyDirectionKept StaticKeyStarts PatchCounts
CHECK_DEADLOCK FALSE
