--------------------------- MODULE MCAgentLaunch ---------------------------
(* An instance of AgentLaunch for TLC: consoles that differ in their label,  *)
(* in their domain and in their port only, local ones under several names,   *)
(* one that is no console, and names in the forms that are normalised.       *)
EXTENDS AgentLaunch

Eu == <<"console", "-", "eu", ".", "tokener", ".", "dev">>
OwnConsole == <<"console", ".", "dev">>
OwnPort == <<"console", ".", "dev", ":", "3000">>
Local == <<"http", "://", "localhost", ":", "3000">>
LocalShort == <<"127.0.0.1">>
LocalOther == <<"http", "://", "localhost", ":", "9000">>
NoConsole == <<"api", ".", "tokener", ".", "dev">>

MCFlags == {<<>>, OwnPort, Local}
MCHostEnvs == {<<>>, Blank, <<" ", "https", "://">> \o OwnConsole}
MCSelections == {<<>>, OwnPort, NoConsole}
MCHostnames ==
    (MCFlags \cup MCHostEnvs \cup MCSelections \cup {DefaultHost, Eu, LocalShort, LocalOther}) \ {<<>>, Blank}

Complete == [protocol |-> <<1, 2>>, harnesses |-> Harnesses]
MCOverrides ==
    {None, Unusable, Complete,
     [Complete EXCEPT !.protocol = <<2, 0>>], [Complete EXCEPT !.protocol = <<1, -1>>],
     [protocol |-> <<1, 0>>, harnesses |-> {"claude"}]}

MCEnvironments == {(-1 :> <<LowerCaseEnv, "other">>) @@ (0 :> <<CredentialEnv, "other">>)}

\* The hypothesis of the theorem on gateways.
ASSUME MCPlain == PlainNames
=============================================================================
