--------------------------- MODULE MCHostedSmoke ---------------------------
EXTENDS HostedSmoke

\* Between them one scenario of each kind.
MCMatrices == {<<"success", "sigkill">>, <<"wrong_sni", "uid_idle">>, <<"direct_bypass">>, <<"non_443">>}
MCTtls == {8}
MCJumps == {-2, 2}
=============================================================================
