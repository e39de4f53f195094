-------------------------------- MODULE MCMm --------------------------------
EXTENDS Mm
=============================================================================
