------------------------- MODULE MCToolConfirmation -------------------------
EXTENDS ToolConfirmation, TLC

CONSTANTS alice1, alice2, bob1, alice, bob

MCSessions == {alice1, alice2, bob1}
MCUsers == {alice, bob}
MCUserOf == alice1 :> alice @@ alice2 :> alice @@ bob1 :> bob

\* The sessions of one user are interchangeable too: nothing else is said of them.
Interchangeable ==
    Permutations(Calls) \cup Permutations(Actions) \cup Permutations({alice1, alice2})

=============================================================================
