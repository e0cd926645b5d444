-------------------------- MODULE MCDiskCompaction --------------------------
EXTENDS DiskCompaction
=============================================================================
