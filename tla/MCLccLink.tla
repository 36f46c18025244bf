------------------------------ MODULE MCLccLink ------------------------------
EXTENDS LccLink
==============================================================================
