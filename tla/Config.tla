------------------------------- MODULE Config -------------------------------
(***************************************************************************)
(* From a configuration file to the two connections of the proxy: reading  *)
(* and validating it (crates/proxy/src/config.rs, crates/vault/src/lib.rs),*)
(* the TLS context (tls.rs), the key source and the control connection     *)
(* (resolve.rs), and what is printed on the way.                           *)
(*                                                                         *)
(* A file is "private", "shared" (readable beyond its owner) or "absent";  *)
(* files stay as they are while the process starts.  Texts are sequences   *)
(* of tokens; a connection string is given as segments, the secret ones    *)
(* marked.                                                                 *)
(***************************************************************************)
EXTENDS Naturals, Sequences, SequencesExt, FiniteSets

CONSTANTS
    None,
    Configs,        \* the configurations the process is started with
    MaxFrame        \* dbsec_pgwire::MAX_MESSAGE_LEN

VARIABLES
    conf,           \* the configuration file and the files it names
    provider,       \* the rustls provider installed before: None, "same", "foreign"
    boot,           \* the step of the start-up
    held,           \* the modes of the files credentials were read from
    name,           \* the server name the upstream certificate is checked for
    control,        \* how the control connection runs: None, "tls" or "plain"
    said            \* the text of the last message about the configuration

configVars == <<conf, provider, boot, held, name, control, said>>

ConfigStart(configs) ==
    /\ conf \in configs
    /\ provider \in {None, "same", "foreign"}
    /\ boot = "load"
    /\ held = {}
    /\ name = None /\ control = None
    /\ said = << >>

ConfigInit == ConfigStart(Configs)

-----------------------------------------------------------------------------
(* What is printed *)

Redacted == "<redacted>"
Text(dsn) == FlattenSeq([i \in 1..Len(dsn.segments) |-> dsn.segments[i].text])

\* The position of the first token of those at or after i, or past the end.
Find(tokens, i, s) == SelectInSubSeq(s, i, Len(s), LAMBDA t : t \in tokens)
Before(tokens, i, s) == IF Find(tokens, i, s) = 0 THEN Len(s) + 1 ELSE Find(tokens, i, s)

Delimiters == {" ", "&", "?", "/", "@"}

\* The end of a quoted value whose body starts at i: a backslash takes the next.
RECURSIVE QuotedEnd(_, _)
QuotedEnd(s, i) ==
    IF i > Len(s) THEN Len(s) + 1
    ELSE IF s[i] = "\\" THEN QuotedEnd(s, i + 2)
    ELSE IF s[i] = "'" THEN i + 1
    ELSE QuotedEnd(s, i + 1)

ValueEnd(s, i) ==
    IF i <= Len(s) /\ s[i] = "'" THEN QuotedEnd(s, i + 1) ELSE Before({" ", "&"}, i, s)

\* mask_password_parameters from i on.
RECURSIVE mask_password_parameters(_, _)
mask_password_parameters(s, i) ==
    IF i > Len(s) THEN << >>
    ELSE IF s[i] \in Delimiters THEN <<s[i]>> \o mask_password_parameters(s, i + 1)
    ELSE LET stop == Before(Delimiters \cup {"="}, i, s)
             key == SubSeq(s, i, stop - 1)
             end == ValueEnd(s, stop + 1)
             value == IF key = <<"password">> THEN <<Redacted>> ELSE SubSeq(s, stop + 1, end - 1)
         IN  IF stop > Len(s) \/ s[stop] # "="
             THEN key \o mask_password_parameters(s, stop)
             ELSE key \o <<"=">> \o value \o mask_password_parameters(s, end)

\* The part after "://" up to the `@` that ends the userinfo, its password masked.
Userinfo(s, at) ==
    LET colon == Before({":"}, 1, SubSeq(s, 1, at - 1))
    IN  IF colon < at THEN SubSeq(s, 1, colon) \o <<Redacted>> ELSE SubSeq(s, 1, at - 1)

redact_dsn(s) ==
    LET scheme == Before({"://"}, 1, s)
        rest == SubSeq(s, scheme + 1, Len(s))
        authority == SubSeq(rest, 1, Before({"/", "?"}, 1, rest) - 1)
        at == SelectLastInSeq(authority, LAMBDA t : t = "@")
    IN  IF scheme > Len(s) THEN mask_password_parameters(s, 1)
        ELSE SubSeq(s, 1, scheme)
             \o IF at = 0 THEN mask_password_parameters(rest, 1)
                ELSE Userinfo(rest, at) \o mask_password_parameters(rest, at)

\* Mutant of spans_a_secret_line: only the last line of the span is looked at.
spans_a_secret_end(broken) == broken.lines[broken.last] = "secret"

\* A line is "secret" (assigns a credential), "plain" (assigns another key) or
\* "rest" (goes on with the value above).
spans_a_secret_line(broken) == \E i \in broken.first..broken.last : broken.lines[i] = "secret"

\* The message of a type mismatch quotes the value, which may be a secret.
describe_parse_error(broken) ==
    IF broken.spanned /\ spans_a_secret_line(broken) THEN <<"position">>
    ELSE IF ~broken.quotes THEN <<"message">>
    ELSE <<"message", IF broken.lines[broken.first] = "secret" THEN "pw" ELSE "value">>

-----------------------------------------------------------------------------
(* Loading and validating *)

\* A file that cannot be looked at is left to the read that follows.
check_secret_file_mode(mode) == mode # "shared"
Readable(mode) == mode # "absent"

carries_password(dsn) == ~dsn.parses \/ \E i \in 1..Len(dsn.segments) : dsn.segments[i].secret

inline_secret(c) ==
    \/ c.vault # None /\ c.vault.token
    \/ c.dsn # None /\ carries_password(c.dsn)

validate_addr(vault) ==
    \/ vault.addr = "https"
    \/ vault.addr = "http" /\ vault.allow_insecure_addr

resolve_token(vault) ==
    \/ vault.token /\ vault.token_file = None
    \/ /\ ~vault.token /\ vault.token_file # None
       /\ check_secret_file_mode(vault.token_file) /\ Readable(vault.token_file)

resolve_vault(vault) == vault.timeout_secs # 0 /\ validate_addr(vault) /\ resolve_token(vault)

\* Mutant of check_control_dsn: only a plaintext mode is refused.
check_control_dsn_disabled(dsn) == dsn.parses /\ dsn.sslmode # "disable"

\* check_control_dsn_is_not_downgradeable
check_control_dsn(dsn) == dsn.parses /\ dsn.sslmode \notin {"disable", "prefer"}

\* The key source a configuration with columns names: exactly one.
KeySource(c) ==
    IF c.keys_file # None /\ c.vault = None THEN check_secret_file_mode(c.keys_file)
    ELSE c.keys_file = None /\ c.vault # None

validate(c) ==
    /\ c.startup_timeout_secs # 0
    /\ c.max_sessions # 0
    /\ c.max_protected_value_bytes \in 1..MaxFrame
    /\ c.downstream # None => check_secret_file_mode(c.downstream.key)
    /\ c.vault # None => resolve_vault(c.vault)
    /\ c.columns => /\ KeySource(c)
                    /\ c.dsn # None
                    /\ c.upstream_tls # None => check_control_dsn(c.dsn)
    /\ c.policy_valid

Parses(c) == c.broken = None

load(c) ==
    /\ Readable(c.own) /\ Parses(c)
    /\ inline_secret(c) => check_secret_file_mode(c.own)
    /\ validate(c)

\* The files load took a credential from.
TakenByLoad(c) ==
    (IF inline_secret(c) THEN {c.own} ELSE {})
    \cup (IF c.vault # None /\ ~c.vault.token THEN {c.vault.token_file} ELSE {})

Refused(text) ==
    /\ boot' = "refused"
    /\ said' = text
    /\ UNCHANGED <<conf, provider, held, name, control>>

LoadFile ==
    /\ boot = "load"
    /\ IF load(conf)
       THEN /\ boot' = "tls"
            /\ held' = TakenByLoad(conf)
            /\ said' = IF conf.dsn = None THEN << >> ELSE redact_dsn(Text(conf.dsn))
            /\ UNCHANGED <<conf, provider, name, control>>
       ELSE Refused(IF Readable(conf.own) /\ ~Parses(conf)
                    THEN describe_parse_error(conf.broken) ELSE << >>)

-----------------------------------------------------------------------------
(* The TLS context *)

\* install_crypto_provider: ours, or one that negotiates the same.
install_crypto_provider == provider # "foreign"

load_certs(certs) == certs = "good"

\* A trailing port is cut off, brackets are taken away.
upstream_host(addr) ==
    LET rest == Tail(addr)
        colon == SelectLastInSeq(addr, LAMBDA t : t = ":")
    IN  IF addr # << >> /\ addr[1] = "[" THEN SubSeq(rest, 1, Before({"]"}, 1, rest) - 1)
        ELSE IF colon # 0 /\ \A i \in (colon + 1)..Len(addr) : addr[i] = "9"
             THEN SubSeq(addr, 1, colon - 1)
        ELSE addr

\* rustls' ServerName: a DNS name or an IP address.
Colons(s) == Cardinality({i \in 1..Len(s) : s[i] = ":"})
ServerName(s) == s # << >> /\ Colons(s) # 1 /\ \A i \in 1..Len(s) : s[i] \notin {"[", "]"}

UpstreamName(c) ==
    IF c.upstream_tls.hostname # None THEN c.upstream_tls.hostname ELSE upstream_host(c.upstream)

\* TlsContext::from_config
from_config(c) ==
    /\ install_crypto_provider
    /\ c.downstream # None => /\ load_certs(c.downstream.cert)
                              /\ Readable(c.downstream.key) /\ c.downstream.matches
    /\ c.upstream_tls # None => load_certs(c.upstream_tls.ca) /\ ServerName(UpstreamName(c))

BuildContext ==
    /\ boot = "tls"
    /\ IF from_config(conf)
       THEN /\ boot' = IF conf.columns THEN "keys" ELSE "serving"
            /\ held' = held \cup IF conf.downstream = None THEN {} ELSE {conf.downstream.key}
            /\ name' = IF conf.upstream_tls = None THEN None ELSE UpstreamName(conf)
            /\ UNCHANGED <<conf, provider, control, said>>
       ELSE Refused(<< >>)

-----------------------------------------------------------------------------
(* The key source and the control connection *)

\* FileKeySource::load, or Vault, which may not answer.
OpenKeys ==
    /\ boot = "keys"
    /\ \/ /\ conf.keys_file # None => Readable(conf.keys_file)
          /\ boot' = "control"
          /\ held' = held \cup IF conf.keys_file = None THEN {} ELSE {conf.keys_file}
          /\ UNCHANGED <<conf, provider, name, control, said>>
       \/ Refused(<< >>)

\* tokio_postgres::connect: the hop it gets, None if it fails, when the server
\* answers the SSLRequest with S or N.
Connected(sslmode, tls, answer) ==
    IF sslmode = "disable" THEN "plain"
    ELSE IF tls /\ answer = "S" THEN "tls"
    ELSE IF sslmode = "prefer" THEN "plain" ELSE None

\* connect: with the data path's client configuration, if there is one.
connect(c, answer) ==
    IF ~c.dsn.parses THEN None ELSE Connected(c.dsn.sslmode, c.upstream_tls # None, answer)

\* connect_with: the deadline may pass first.  A failure names the hosts of the
\* connection string, or says that it has none (control_host).
control_host(dsn) == IF dsn.parses THEN <<"host">> ELSE <<"unparseable">>

ConnectControl ==
    /\ boot = "control"
    /\ \/ \E answer \in {"S", "N"} :
             /\ connect(conf, answer) # None
             /\ control' = connect(conf, answer)
             /\ boot' = "serving"
             /\ UNCHANGED <<conf, provider, held, name, said>>
       \/ Refused(control_host(conf.dsn))

ConfigNext == LoadFile \/ BuildContext \/ OpenKeys \/ ConnectControl

-----------------------------------------------------------------------------
\* What TcpStream::connect dials for an address, None if nothing: a bracketed
\* IPv6 address or a name, and a port.
Dialled(addr) ==
    LET colon == SelectLastInSeq(addr, LAMBDA t : t = ":")
        host == SubSeq(addr, 1, colon - 1)
        bare == SubSeq(host, 2, Len(host) - 1)
    IN  IF colon \in {0, 1, Len(addr)} \/ \E i \in (colon + 1)..Len(addr) : addr[i] # "9" THEN None
        ELSE IF host[1] = "[" /\ host[Len(host)] = "]" /\ Colons(bare) >= 2 THEN bare
        ELSE IF ServerName(host) THEN host ELSE None

(***************************************************************************)
(* A proxy that serves with [tls.upstream] has neither hop in plaintext,   *)
(* whatever the control server answered, checks the certificate for the    *)
(* configured name or for the host it dials, and negotiates what this      *)
(* build intends (config.rs, tls.rs and resolve.rs each do a part of it).  *)
(***************************************************************************)
HopsAsConfigured ==
    boot = "serving" /\ conf.upstream_tls # None =>
        /\ control # "plain"
        /\ provider # "foreign"
        /\ name \in IF conf.upstream_tls.hostname # None THEN {conf.upstream_tls.hostname}
                   ELSE IF Dialled(conf.upstream) # None THEN {Dialled(conf.upstream)}
                   ELSE {name}

Expected(dsn) ==
    FlattenSeq([i \in 1..Len(dsn.segments) |->
        IF dsn.segments[i].secret THEN <<Redacted>> ELSE dsn.segments[i].text])

(***************************************************************************)
(* Every credential the process holds came from a file only its owner can  *)
(* read, and no message shows one: a connection string is printed with its *)
(* passwords masked and nothing else changed, and a parse error never      *)
(* quotes the value of a credential.                                       *)
(***************************************************************************)
SecretsKept ==
    /\ "shared" \notin held
    /\ "pw" \notin ToSet(said)
    /\ boot = "tls" /\ conf.dsn # None => said = Expected(conf.dsn)

=============================================================================
