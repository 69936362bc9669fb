--------------------------- MODULE MCSessionLists ---------------------------
\* Both lists of one tab.
EXTENDS SessionLists
=============================================================================
