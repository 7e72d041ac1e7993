CONSTANTS Key = {k1, k2}  MaxBytes = 4  MaxVersions = 3  SizeOf <- Sizes  MaxCrashes = 1  MaxFailures = 0
SPECIFICATION Spec
SYMMETRY KeySymmetry
INVARIANT ServedWhole
