---------------------------- MODULE MCBuildPool ----------------------------
EXTENDS BuildPool
=============================================================================
