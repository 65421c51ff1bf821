--------------------------- MODULE MCBlobDownload ---------------------------
\* Two references: to a commit with two files of one content and another commit with that
\* content, to two commits without common contents, or to the same commit.
EXTENDS BlobDownload, TLC
CONSTANTS r1, r2, c1, c2, c3, f1, f2, b1, b2
MCEtag == (c1 :> (f1 :> b1 @@ f2 :> b1)) @@ (c2 :> (f1 :> b1)) @@ (c3 :> (f1 :> b2))
MCSame == {(r1 :> c2) @@ (r2 :> c2)}
MCResolutions == {(r1 :> c1) @@ (r2 :> c2), (r1 :> c2) @@ (r2 :> c3)} \cup MCSame
=============================================================================
