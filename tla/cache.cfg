CONSTANTS Key = {k1, k2, k3}  MaxBytes = 3  MaxVersions = 2  SizeOf <- Sizes  MaxCrashes = 1  MaxFailures = 1
SPECIFICATION Spec
SYMMETRY KeySymmetry
INVARIANTS TypeOK Accounted UnderCap MetaHasBody ServedTogether
