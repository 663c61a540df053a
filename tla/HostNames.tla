----------------------------- MODULE HostNames -----------------------------
(***************************************************************************)
(* The names of management hosts and what the CLI derives from them: the   *)
(* host a command means, the gateway next to it, the file of its binding.  *)
(*                                                                         *)
(* A name is a sequence of tokens, the punctuation that the code looks for *)
(* and the words between: <<"console", "-", "eu", ".", "dev">>.  The empty *)
(* sequence is the empty string, that is, a flag or variable not set.      *)
(***************************************************************************)
EXTENDS Integers, Sequences, SequencesExt

Space == " "
Blank == <<Space>>
DefaultHost == <<"console", ".", "tokener", ".", "dev">>   \* both constants of the code
LocalGateway == <<"http", "://", "localhost", ":", "8080", "/v1">>
Refused == <<>>    \* no gateway: an error

\* strings.TrimSpace.
TrimSpace(name) ==
    LET first == SelectInSeq(name, LAMBDA token : token # Space)
        last == SelectLastInSeq(name, LAMBDA token : token # Space)
    IN  IF first = 0 THEN <<>> ELSE SubSeq(name, first, last)

\* config.NormalizeHostname of lathe.  The caller's test for an empty result can
\* only be met by a name of blanks, so those are dropped; https is the default
\* scheme, and a name with http keeps it.
NormalizeHostname(name) ==
    LET trimmed == TrimSpace(name)
    IN  IF IsPrefix(<<"https", "://">>, trimmed) THEN SubSeq(trimmed, 3, Len(trimmed))
        ELSE trimmed

\* cmp.Or on strings.
FirstNonempty(names) ==
    LET i == SelectInSeq(names, LAMBDA name : name # <<>>)
    IN  IF i = 0 THEN <<>> ELSE names[i]

\* The management host of `agent` and its key commands.
ResolveManagementHostname(flag, environment, selected) ==
    NormalizeHostname(FirstNonempty(<<flag, environment, selected, DefaultHost>>))

\* The value of --hostname that configureAuthLogin leaves `auth login` with.
LoginHostname(flag, environment) ==
    FirstNonempty(<<flag, TrimSpace(environment), DefaultHost>>)

LocalConsoles ==
    {scheme \o address \o port : scheme \in {<<>>, <<"http", "://">>},
                                 address \in {<<"localhost">>, <<"127.0.0.1">>},
                                 port \in {<<>>, <<":", "3000">>}}

\* gatewayEndpointFor: console<suffix>.<rest> has its gateway at api<suffix>.<rest>.
GatewayEndpoint(hostname) ==
    LET name == NormalizeHostname(hostname)
        dot == SelectInSeq(name, LAMBDA token : token = ".")
        label == SubSeq(name, 1, dot - 1)
    IN  CASE name \in LocalConsoles -> LocalGateway
          [] /\ name \notin LocalConsoles
             /\ ~IsPrefix(<<"http", "://">>, name)
             /\ dot \in 1..(Len(name) - 1)
             /\ label = <<"console">> \/ IsPrefix(<<"console", "-">>, label) ->
               <<"https", "://", "api">> \o SubSeq(name, 2, Len(name)) \o <<"/v1">>
          [] OTHER -> Refused

\* Mutant: the file is named after the host without its port.
BindingFileNameNoPort(hostname) ==
    LET name == NormalizeHostname(hostname)
        colon == SelectInSeq(name, LAMBDA token : token = ":")
    IN  IF colon = 0 THEN name ELSE SubSeq(name, 1, colon - 1)

\* bindingFileName, without its extension.
BindingFileName(hostname) ==
    LET name == NormalizeHostname(hostname)
    IN  [i \in DOMAIN name |-> IF name[i] \in {"://", "/", ":"} THEN "_" ELSE name[i]]

\* The names that the code gets along with: as NormalizeHostname leaves them, with
\* no scheme but a leading http://, and with neither of the characters that a file
\* name confuses with a colon.
Plain(name) ==
    /\ NormalizeHostname(name) = name
    /\ \A i \in DOMAIN name :
         /\ name[i] \notin {"_", "/"}
         /\ name[i] = "://" => i = 2 /\ name[1] = "http"
=============================================================================
