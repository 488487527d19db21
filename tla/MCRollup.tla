------------------------------ MODULE MCRollup ------------------------------
EXTENDS Rollup
=============================================================================
