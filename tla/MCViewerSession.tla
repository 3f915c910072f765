--------------------------- MODULE MCViewerSession ---------------------------
(* ViewerSession for TLC; an attempt is given any free object, so the objects *)
(* are not exchanged: Implements follows each of them.                        *)
EXTENDS ViewerSession
=============================================================================
