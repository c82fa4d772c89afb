------------------------------ MODULE MCScopes ------------------------------
EXTENDS Scopes, TLC
CONSTANTS a, b, p, q
MCHome == (a :> p) @@ (b :> q)
=============================================================================
