CONSTANTS
    r1 = r1
    r2 = r2
    c1 = c1
    c2 = c2
    c3 = c3
    f1 = f1
    f2 = f2
    b1 = b1
    b2 = b2
    Calls = {i1, i2}
    Refs = {r1, r2}
    Resolutions <- MCSame
    Files = {f1, f2}
    Etag <- MCEtag
    Size = 2
    Listed = {r1, r2}
    None = None
    Symlink = Symlink
SPECIFICATION Spec
INVARIANT BlobsComplete
