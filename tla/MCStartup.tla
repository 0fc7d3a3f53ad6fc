------------------------------ MODULE MCStartup ------------------------------
(* Two servers and an OAuth server that is not wired.  The second one's tool  *)
(* may repeat the first one's name, its own, or a built-in one, or have one   *)
(* that the permissions file cannot hold.                                     *)
EXTENDS Startup

CONSTANTS alpha, beta, oauth

MCServers  == <<alpha, oauth, beta>>
MCCatalogs == [s \in {alpha, beta, oauth} |->
                 CASE s = alpha -> {<<"a">>, <<"bad">>}
                   [] s = beta  -> {<<"b">>, <<"b", "b">>, <<"b", "a">>, <<"time">>, <<"accented">>}
                   [] OTHER     -> {<<>>}]
=============================================================================
