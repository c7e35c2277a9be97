---------------------------- MODULE MCInnerLink ----------------------------
EXTENDS InnerLink, TLC
=============================================================================
