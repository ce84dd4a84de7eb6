------------------------- MODULE MCProviderResilience -------------------------
EXTENDS ProviderResilience

\* One call may fall back to a second identity, whose only user it is.
MCPlanOf ==
    [c \in Calls |-> IF c = "a" THEN <<"main", "spare">> ELSE <<"main">>]

=============================================================================
