------------------------------ MODULE MCIqBuffer ------------------------------
EXTENDS IqBuffer
=============================================================================
