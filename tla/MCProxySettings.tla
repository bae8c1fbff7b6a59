--------------------------- MODULE MCProxySettings ---------------------------
(* Two proxies, one of them listed twice in a PUT, and two requests.        *)
EXTENDS ProxySettings, TLC

Symmetry == Permutations(Admins)

MCEnvs == {Nil, <<"b">>}

MCLists == {<<>>, <<"b", "a", "b">>, <<"bad">>}
=============================================================================
