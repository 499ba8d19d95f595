------------------------------- MODULE MCPmcp -------------------------------
EXTENDS PmcpProps, TLC

CONSTANTS p1, p2, p3

Tamanios == (p1 :> 1 @@ p2 :> 1 @@ p3 :> 2)
=============================================================================
