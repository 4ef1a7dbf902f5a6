-------------------------- MODULE MCServiceBinding --------------------------
EXTENDS ServiceBinding

CONSTANTS p1, p2, s1, s2

\* a service with one method and one with two
MCDefMethods == (s1 :> 1) @@ (s2 :> 2)

MCProviders == {p1, p2}
=============================================================================
