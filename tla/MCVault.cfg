CONSTANTS
    s1 = s1
    s2 = s2
    v1 = v1
    v2 = v2
    b1 = b1
    b2 = b2
    Shapes = {v2}
    Schemas = {s1, s2}
    Canonicalizers = {k1, k2}
    Families = {f1, f2}
    Candidates = {c1, c2}
    Buckets = {b1, b2}
    BucketOf <- MCBucketOf
    Rebuilders = {r1}
    Publishers = {p1}
SPECIFICATION Spec
INVARIANTS TypeOK VersionsAgree NothingDangles IndexComplete
PROPERTY AppendOnly
SYMMETRY Symmetry
