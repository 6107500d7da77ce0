-------------------------- MODULE MCExplorerClient --------------------------
EXTENDS ExplorerClient
=============================================================================
