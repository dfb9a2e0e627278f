------------------------------ MODULE MCServer ------------------------------
(***************************************************************************)
(* The process with three connections for two permits, started with each   *)
(* kind of command line; its start-up for every configuration that is one  *)
(* or two changes away from a working one; and two generations of a        *)
(* keyfile with two loads.                                                 *)
(***************************************************************************)
EXTENDS Server, Config, Keyfile

MCCommandLines ==
    {<< >>, <<"--plain-relay">>, <<"dbsec.toml">>, <<"--allow-core-dumps", "dbsec.toml">>,
     <<"dbsec.toml", "--help">>, <<"--help", "--unknown">>, <<"dbsec.toml", "other.toml">>}

-----------------------------------------------------------------------------
(* Connection strings, as segments *)

Shown(text) == [secret |-> FALSE, text |-> text]
Hidden(text) == [secret |-> TRUE, text |-> text]

Url(secret, after) ==
    <<Shown(<<"postgres", "://", "user", ":">>), Hidden(secret), Shown(<<"@", "host">> \o after)>>
Queried == <<Shown(<<"postgres", "://", "host", "/", "db", "?", "password", "=">>),
             Hidden(<<"pw">>), Shown(<<"&", "user", "=", "u">>)>>
Keyword(secret, after) ==
    <<Shown(<<"host", "=", "h", " ", "password", "=">>), Hidden(secret), Shown(after)>>

Quoted == {<<"'", "pw", " ", "pw", "'">>, <<"'", "pw", "\\", "'", "pw", "'">>, <<"'", "pw">>}

Strings ==
    {Url(secret, after) : secret \in {<<"pw">>, <<"pw", ":", "pw">>, <<"pw", "@", "pw">>},
                          after \in {<< >>, <<"/", "db">>, <<"/", "db", "?", "user", "=", "u">>}}
    \cup {Keyword(secret, after) : secret \in {<<"pw">>, <<"pw", "@", "pw">>, <<"pw", "/", "pw">>} \cup Quoted,
                                   after \in {<< >>, <<" ", "user", "=", "'", "a", " ", "b", "'">>}}
    \cup {Queried, <<Shown(<<"postgres", "://", "host", "/", "db">>)>>,
          <<Shown(<<"host", "=", "h", " ", "passfile", "=", "f">>)>>}

Unclosed == {d \in Strings : \E i \in 1..Len(d) : d[i].text = <<"'", "pw">> /\ d[i+1].text # << >>}

Dsn(segments, sslmode, parses) == [segments |-> segments, sslmode |-> sslmode, parses |-> parses]
PlainDsn == Dsn(<<Shown(<<"host", "=", "h">>)>>, "require", TRUE)

-----------------------------------------------------------------------------
(* Configurations *)

Vault(addr, insecure, token, path, timeout) ==
    [addr |-> addr, allow_insecure_addr |-> insecure, token |-> token, token_file |-> path,
     timeout_secs |-> timeout]

Address(host) == host \o <<":", "9", "9">>

Base ==
    [own |-> "private", broken |-> None, startup_timeout_secs |-> 1, max_sessions |-> 1,
     max_protected_value_bytes |-> 1, downstream |-> None, upstream_tls |-> None,
     upstream |-> Address(<<"h">>), vault |-> None, columns |-> TRUE, keys_file |-> "private",
     dsn |-> PlainDsn, policy_valid |-> TRUE]

Secured ==
    [Base EXCEPT !.upstream_tls = [ca |-> "good", hostname |-> None],
                 !.keys_file = None,
                 !.vault = Vault("https", FALSE, FALSE, "private", 1)]

Modes == {"private", "shared", "absent"}

Broken ==
    {b \in [lines : [1..3 -> {"secret", "plain", "rest"}], first : 1..3, last : 1..3,
            quotes : BOOLEAN, spanned : BOOLEAN] :
        /\ b.lines[1] # "rest" /\ b.first <= b.last
        /\ b.quotes => /\ b.spanned /\ b.lines[b.first] # "rest"
                       /\ \A i \in (b.first + 1)..b.last : b.lines[i] = "rest"}

Changes ==
    [own |-> Modes,
     startup_timeout_secs |-> {0}, max_sessions |-> {0}, max_protected_value_bytes |-> {0, 2},
     downstream |-> [cert : {"good", "empty", "absent"}, key : Modes, matches : BOOLEAN],
     upstream_tls |-> {None} \cup [ca : {"good", "empty", "absent"},
                                   hostname : {None, <<"n">>, <<"[">>}],
     upstream |-> {Address(<<"[", ":", ":", "1", "]">>), Address(<<":", ":", "1">>),
                   <<"h">>, <<"h", ":">>, <<"[", ":", ":", "1", "]">>, <<":", "9">>},
     vault |-> {None} \cup {Vault(a, i, t, f, n) : a \in {"https", "http", "other"},
                   i \in BOOLEAN, t \in BOOLEAN, f \in {None} \cup Modes, n \in 0..1},
     columns |-> BOOLEAN,
     keys_file |-> {None} \cup Modes,
     dsn |-> {None} \cup {Dsn(s, m, p) : s \in {PlainDsn.segments, Url(<<"pw">>, << >>)},
                              m \in {"disable", "prefer", "require"}, p \in BOOLEAN},
     policy_valid |-> {FALSE}]

Fields == DOMAIN Changes

MCConfigs ==
    {[Base EXCEPT !.dsn = Dsn(s, "require", TRUE)] : s \in Strings \ Unclosed}
    \cup {[Base EXCEPT !.broken = b] : b \in Broken}
    \cup UNION {UNION {{[base EXCEPT ![f] = x, ![g] = y] : x \in Changes[f], y \in Changes[g]} :
                       f \in Fields, g \in {"own", "upstream_tls", "columns", "keys_file", "dsn"}} :
                base \in {Base, Secured}}

-----------------------------------------------------------------------------
VARIABLE part

OneProcess == args = <<"dbsec.toml">> /\ world = [file |-> TRUE, columns |-> TRUE, vault |-> TRUE]

MCInit ==
    /\ part \in {"server", "config", "keyfile"}
    /\ IF part = "server" THEN TRUE ELSE OneProcess
    /\ IF part = "config" THEN ConfigInit ELSE ConfigStart({Base}) /\ provider = None
    /\ Init /\ KeyfileInit

MCNext ==
    \/ part = "server" /\ Next /\ UNCHANGED <<part, configVars, keyfileVars>>
    \/ part = "config" /\ ConfigNext /\ UNCHANGED <<part, vars, keyfileVars>>
    \/ part = "keyfile" /\ KeyfileNext /\ UNCHANGED <<part, vars, configVars>>

MCSpec == MCInit /\ [][MCNext]_<<part, vars, configVars, keyfileVars>> /\ Fairness

=============================================================================
