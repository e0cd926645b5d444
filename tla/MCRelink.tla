------------------------------ MODULE MCRelink ------------------------------
EXTENDS Relink, TLC

CONSTANTS d, e, old, new, ext4, other, w1, p

VolumeOf == (old :> "v1") @@ (new :> "v2")
=============================================================================
