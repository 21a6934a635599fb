----------------------------- MODULE MCResponse -----------------------------
(* Response for TLC: the directions FirewallManager is configured with.    *)
EXTENDS Response

InOnly == <<"in">>
Both == <<"in", "out">>
=============================================================================
