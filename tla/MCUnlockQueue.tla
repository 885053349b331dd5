---------------------------- MODULE MCUnlockQueue ----------------------------
\* Three requests, two of them from different pages with the same id; the third
\* asks for a PutBlob session.
EXTENDS UnlockQueue, TLC

CONSTANTS r1, r2, r3

MCIdOf == (r1 :> 1) @@ (r2 :> 1) @@ (r3 :> 2)
=============================================================================
