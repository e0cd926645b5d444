------------------------------ MODULE MCWslRun ------------------------------
EXTENDS WslRun

CONSTANTS out, err
=============================================================================
