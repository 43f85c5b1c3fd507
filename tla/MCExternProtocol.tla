--------------------------- MODULE MCExternProtocol ---------------------------
(***************************************************************************)
(* Instances of ExternProtocol for TLC, by what the two sides export.      *)
(***************************************************************************)
EXTENDS ExternProtocol

\* A server of one interface, as in test/ipcom.c.
OneIface == {"Ping"}
ServerExports == [client |-> <<>>, server |-> <<"Ping">>]
ClientImports == [client |-> {"Ping"}, server |-> {}]
OneBegins == {<<"Ping", "Ping">>}

\* The other way around: objects of the client are used by the server.
ClientExports == [client |-> <<"Ping">>, server |-> <<>>]
ServerImports == [client |-> {}, server |-> {"Ping"}]

\* A server of two interfaces.
TwoIface == {"Ping", "Echo"}
TwoExports == [client |-> <<>>, server |-> <<"Ping", "Echo">>]
TwoImports == [client |-> {"Ping", "Echo"}, server |-> {}]
TwoBegins == {<<"Ping", "Ping">>, <<"Echo", "Echo">>}

\* The client uses and drops proxies and closes; the objects of the server
\* reply, end and fail, and the server exits.
Conducts == [client |-> {"drop", "close", "exit"}, server |-> {"reply", "die", "fail", "exit"}]
=============================================================================
