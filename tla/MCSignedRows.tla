------------------------------ MODULE MCSignedRows ------------------------------
EXTENDS SignedRows, TLC

CONSTANTS r1, r2, a, b, c

MCReview == a :> r1 @@ b :> r1 @@ c :> r2
================================================================================
