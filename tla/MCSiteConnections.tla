-------------------------- MODULE MCSiteConnections --------------------------
\* Two requests of one site, and one of another.
EXTENDS SiteConnections, TLC

CONSTANTS a, b, r1, r2, r3

MCSiteOf == (r1 :> a) @@ (r2 :> a) @@ (r3 :> b)
=============================================================================
