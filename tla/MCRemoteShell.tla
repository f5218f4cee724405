--------------------------- MODULE MCRemoteShell ---------------------------
(* An instance of RemoteShell. *)
EXTENDS RemoteShell

\* Nothing, keys that can be told apart, also around one that ends the session,
\* and as many as inflate() has no room for.
MCTyped == {<<>>, <<"a", "^D">>, <<"a", "CR", "^C">>, <<"CR", "a", "CR">>}

\* The bytes x and y are alike: the first of them that the shell writes can be
\* taken to be x.
XFirst == \A n \in DOMAIN written : written[n] = "y" => \E m \in 1 .. n - 1 : written[m] = "x"

MCNext == Client \/ Server \/ User \/ UserChoice \/ (Shell /\ XFirst') \/ ShellChoice \/ Ended

MCSpec == Init /\ [][MCNext]_vars /\ Fairness
=============================================================================
