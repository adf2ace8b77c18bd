----------------------------- MODULE MCService -----------------------------
(***************************************************************************)
(* An instance of Service for TLC: two channels, of which "alpha" is varied*)
(* in one respect at a time around a good configuration, and calls that    *)
(* meet and miss every gate.                                               *)
(***************************************************************************)
EXTENDS Service

CONSTANTS tokenA, tokenB, tokenUi, stranger, hookSecret, signSecret, otherSecret

Sig(caps) == [name |-> "sig", caps |-> caps]
Out == [name |-> "out", caps |-> FALSE]
Trace == [name |-> "trace", caps |-> FALSE]
TwoWords == [name |-> "two words", caps |-> FALSE]
Template(parses, renders, value, form) ==
    [parses |-> parses, renders |-> renders, value |-> value, form |-> form]
V1 == Template(TRUE, TRUE, TRUE, "v1")
TwoLines == Template(TRUE, TRUE, FALSE, "v1")
Unrenderable == Template(TRUE, FALSE, FALSE, "v1")
Broken == Template(FALSE, FALSE, FALSE, "v1")
Templates == {None, V1, TwoLines, Unrenderable, Broken}
NoOverrides == [multiplier |-> None, max_seconds |-> None, jitter |-> None]
Net(addresses) == {[addresses |-> addresses, valid |-> TRUE]}
Typo == {[addresses |-> {}, valid |-> FALSE]}

Fwd == [url |-> [valid |-> TRUE], interval_seconds |-> 30, sign_header |-> Sig(TRUE), sign_secret |-> signSecret,
        sign_template |-> None, backoff |-> NoOverrides]
Alpha == [name |-> "alpha", api_read_token |-> tokenA, webhook_secret |-> hookSecret,
          secret_header |-> Sig(TRUE), secret_type |-> "hmac-sha256",
          secret_extract_template |-> V1, secret_sign_template |-> V1,
          forward |-> Fwd, max_body_size |-> 64, allowed_ips |-> None]
Beta == [Alpha EXCEPT !.name = "beta", !.api_read_token = tokenB,
            !.secret_type = "plain", !.forward = None, !.max_body_size = 400000]

Alphas ==
    {[Alpha EXCEPT !.webhook_secret = s, !.secret_header = h, !.secret_type = t] :
        s \in {None, hookSecret}, h \in {None, Sig(TRUE), TwoWords},
        t \in {"plain", "hmac-sha256"}}
    \cup {[Alpha EXCEPT !.secret_extract_template = t] : t \in Templates}
    \cup {[Alpha EXCEPT !.secret_sign_template = t] : t \in Templates}
    \cup {[Alpha EXCEPT !.max_body_size = n] : n \in {None, 63, 300000, 104857601}}
    \cup {[Alpha EXCEPT !.allowed_ips = ips] : ips \in {Net({1}), Net({2}), Typo}}
    \cup {[Alpha EXCEPT !.webhook_secret = s, !.secret_type = "plain",
               !.forward = [Fwd EXCEPT !.sign_header = h, !.sign_secret = k]] :
             s \in {None, hookSecret}, h \in {None, Sig(TRUE), Out, TwoWords}, k \in {None, signSecret}}
    \cup {[Alpha EXCEPT !.forward = [Fwd EXCEPT !.sign_template = t]] : t \in Templates}
    \cup {[Alpha EXCEPT !.forward.url.valid = FALSE]}
    \cup {[Alpha EXCEPT !.forward.interval_seconds = n] : n \in {0, 3600, 3601}}
    \cup {[Alpha EXCEPT !.forward.backoff =
               [multiplier |-> m, max_seconds |-> x, jitter |-> j]] :
             m \in {None, 50, NotFinite}, x \in {None, 0, 29, 7200}, j \in {None, -1, 101}}

Env == [DATABASE_URL |-> "file", channels |-> <<Alpha, Beta>>,
        DEFAULT_BODY_LIMIT |-> None, IGNORED_HEADERS |-> {[Trace EXCEPT !.caps = TRUE]},
        FORWARD_BACKOFF_MULTIPLIER |-> None, FORWARD_BACKOFF_MAX_SECONDS |-> None,
        FORWARD_BACKOFF_JITTER |-> Unparsable, TRUSTED_PROXIES |-> Net({9}),
        UI_ACCESS_TOKEN |-> tokenUi, API_ENABLED |-> "1", BIND_ADDRESS |-> "all"]
Envs ==
    {[Env EXCEPT !.channels = <<a, Beta>>] : a \in Alphas}
    \cup {[Env EXCEPT !.channels = <<Alpha>>, !.DEFAULT_BODY_LIMIT = n] :
             n \in {None, Unparsable, 63, 64}}
    \cup {[Env EXCEPT !.FORWARD_BACKOFF_MAX_SECONDS = n] : n \in {0, 20, 30}}
    \cup {[Env EXCEPT !.TRUSTED_PROXIES = p] : p \in {None, Typo}}
    \cup {[Env EXCEPT !.UI_ACCESS_TOKEN = None], [Env EXCEPT !.API_ENABLED = "0"],
          [Env EXCEPT !.DATABASE_URL = None], [Env EXCEPT !.IGNORED_HEADERS = None],
          [Env EXCEPT !.channels = None], [Env EXCEPT !.DATABASE_URL = "unusable"],
          [Env EXCEPT !.BIND_ADDRESS = "unusable"]}

Files == [table : {None, {}, {"forward_attempts"}, Added}, wal : BOOLEAN]

MCDeployments ==
    {[raw |-> env, table |-> Added, wal |-> TRUE] : env \in Envs}
    \cup {[raw |-> Env, table |-> f.table, wal |-> f.wal] :
             f \in {g \in Files : g.table # None => g.wal}}

Get == [route |-> "read", channel |-> "alpha", bearer |-> tokenA, storage |-> "ok",
        peer |-> 1, forwarded_for |-> <<>>, real_ip |-> None, headers |-> <<>>,
        body |-> "one", size |-> 50, content_type |-> "json", parses |-> TRUE, has_payload |-> TRUE,
        secret |-> None, reachable |-> TRUE]
Post == [Get EXCEPT !.route = "receive", !.bearer = None]

Proof(form, content) == [form |-> form, content |-> content]
Signed(p) == [h \in {Sig(FALSE), Trace} |->
                 IF h = Trace THEN Proof("plain", "id") ELSE p]
Proofs == {Proof("plain", hookSecret), Proof("bare", Mac(hookSecret, "one")),
           Proof("v1", Mac(hookSecret, "one")), Proof("v1", Mac(hookSecret, "two"))}
Right == [Post EXCEPT !.headers = Signed(Proof("v1", Mac(hookSecret, "one")))]

Posts ==
    {[Post EXCEPT !.headers = Signed(p), !.channel = c] :
        p \in Proofs, c \in {"alpha", "beta", "gamma"}}
    \cup {Post, [Right EXCEPT !.size = 100000], [Right EXCEPT !.size = 280000],
          [Right EXCEPT !.size = 500000], [Right EXCEPT !.content_type = "text"],
          [Right EXCEPT !.parses = FALSE], [Right EXCEPT !.storage = "busy"],
          [Right EXCEPT !.storage = "error"]}
    \cup {[Right EXCEPT !.peer = p, !.forwarded_for = f, !.real_ip = r] :
             p \in {1, 9}, f \in {<<>>, <<2, 3>>, <<None>>}, r \in {None, 2}}

Routes == {"read", "list", "delete", "sign", "test-send", "queue", "pause",
           "clear", "retry", "config"}
Gets ==
    {[Get EXCEPT !.route = r, !.bearer = b, !.channel = c] : r \in Routes,
        b \in {None, tokenA, tokenUi, stranger}, c \in {"alpha", "beta", "gamma"}}
    \cup {[Get EXCEPT !.route = r, !.storage = s] :
             r \in Routes, s \in {"busy", "error"}}
    \cup {[Get EXCEPT !.route = "test-send", !.secret = otherSecret],
          [Get EXCEPT !.route = "test-send", !.reachable = FALSE],
          [Get EXCEPT !.route = "test-send", !.parses = FALSE],
          [Get EXCEPT !.route = "test-send", !.has_payload = FALSE],
          [Get EXCEPT !.route = "test-send", !.content_type = "text"],
          [Get EXCEPT !.route = "test-send", !.content_type = "text", !.size = 500000],
          [Get EXCEPT !.route = "sign", !.size = 500000],
          [Get EXCEPT !.route = "retry", !.reachable = FALSE]}

MCCalls == Posts \cup Gets
=============================================================================
