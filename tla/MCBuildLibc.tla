---------------------------- MODULE MCBuildLibc ----------------------------
EXTENDS BuildLibc
=============================================================================
