----------------------------- MODULE MCCompact -----------------------------
EXTENDS Compact, TLC

CONSTANTS d, e, dir, ext4, other, w1, w2, p, s

VolumeOf == dir :> "v1"

Either == Permutations({d, e})
=============================================================================
