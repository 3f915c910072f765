----------------------------- MODULE MCServerGui -----------------------------
\* The instance of ServerGui for TLC: every constant is given in the cfg.
EXTENDS ServerGui
=============================================================================
