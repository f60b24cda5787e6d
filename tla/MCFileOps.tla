------------------------------ MODULE MCFileOps ------------------------------
EXTENDS FileOps, TLC

CONSTANTS c1, c2, a, b, x

MCCallers == {c1, c2}
MCPaths == {a, b, x}
\* a and b share a filesystem; x is on another one.
MCDevice == (a :> 1) @@ (b :> 1) @@ (x :> 2)
==============================================================================
