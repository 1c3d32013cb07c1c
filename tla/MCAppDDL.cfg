SPECIFICATION Spec
CONSTANTS
    Tables = {t1}
    c1 = c1
    c2 = c2
    Columns <- MCColumns
    Bodies <- MCBodies
    Additions <- MCAdditions
    Reqs = {r1, r2}
    None = none
    MaxIds = 2
SYMMETRY ReqSymmetry
INVARIANT TypeOK
PROPERTY UnbackedIsARace UnsecuredIsAnAdoption SerialWritesAgree
