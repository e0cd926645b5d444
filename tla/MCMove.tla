------------------------------- MODULE MCMove -------------------------------
EXTENDS Move, TLC

CONSTANTS d, e, old, near, far, ext4, w1, w2, p

\* `near` shares the old directory's volume, `far` does not.
VolumeOf == (old :> "v1") @@ (near :> "v1") @@ (far :> "v2")
=============================================================================
