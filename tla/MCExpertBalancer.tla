-------------------------- MODULE MCExpertBalancer --------------------------
EXTENDS ExpertBalancer
=============================================================================
