-------------------------- MODULE MCProviderFallback --------------------------
(* Instance of ProviderFallback for TLC.                                    *)
EXTENDS ProviderFallback

CONSTANTS p1, p2

\* Either provider first, with the other behind it or alone.
AllChains == {<<p1>>, <<p2>>, <<p1, p2>>, <<p2, p1>>}

=============================================================================
