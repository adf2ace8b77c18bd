--------------------------- MODULE ChannelConfig ---------------------------
(***************************************************************************)
(* The configuration of one kwp process: what the environment and          *)
(* config.yml say (raw), what load makes of it, what the startup checks    *)
(* admit, and what the rest of the program asks it.                        *)
(*                                                                         *)
(* An Option is the value or None.  A template is a record: whether it     *)
(* parses, whether it renders, whether HTTP lets a header have the text    *)
(* this gives, and the form of that text around the signature.  An entry   *)
(* of an IP list is the set of addresses it covers; one that does not      *)
(* parse covers none.  Percentages stand for the fractional backoff        *)
(* values, NotFinite for NaN and the infinities.                           *)
(***************************************************************************)
EXTENDS Integers, Sequences

CONSTANTS
    None,               \* an empty Option
    Unparsable,         \* the text of a variable that is not a number
    NotFinite,          \* a parsed number that is NaN or infinite
    GeneratedToken,     \* the UI token drawn when none is configured
    BadNames            \* header names a file may hold and HTTP does not allow

MIN_BODY_LIMIT == 64
MAX_BODY_LIMIT == 104857600
DEFAULT_BODY_LIMIT_BYTES == 262144
BACKOFF_DEFAULTS == [multiplier |-> 200, max_seconds |-> 3600, jitter |-> 20]

OrElse(option, default) == IF option = None THEN default ELSE option

\* A header as somebody spelled it; HTTP names are compared in lower case.
Lower(header) == [name |-> header.name, caps |-> FALSE]

IsHeaderName(header) == header.name \notin BadNames

-----------------------------------------------------------------------------
(* Loading. *)

ParsedOrDefault(raw, default) ==
    IF raw \in {None, Unparsable} THEN default ELSE raw

\* A missing variable or an unreadable file ends the start; a number that does
\* not parse falls back to its default.
CanLoad(raw) ==
    /\ raw.DATABASE_URL # None
    /\ raw.channels # None
    /\ raw.IGNORED_HEADERS # None

Load(raw) ==
    [channels |-> raw.channels,
     default_body_limit |->
        ParsedOrDefault(raw.DEFAULT_BODY_LIMIT, DEFAULT_BODY_LIMIT_BYTES),
     ignored_headers |-> {Lower(h) : h \in raw.IGNORED_HEADERS},
     trusted_proxies |-> OrElse(raw.TRUSTED_PROXIES, {}),
     ui_access_token |-> OrElse(raw.UI_ACCESS_TOKEN, GeneratedToken),
     api_enabled |-> raw.API_ENABLED # "0",
     forward_backoff |->
        [multiplier |-> ParsedOrDefault(raw.FORWARD_BACKOFF_MULTIPLIER,
                                        BACKOFF_DEFAULTS.multiplier),
         max_seconds |-> ParsedOrDefault(raw.FORWARD_BACKOFF_MAX_SECONDS,
                                         BACKOFF_DEFAULTS.max_seconds),
         jitter |-> ParsedOrDefault(raw.FORWARD_BACKOFF_JITTER,
                                    BACKOFF_DEFAULTS.jitter)]]

-----------------------------------------------------------------------------
(* Questions the program asks. *)

ChannelsOf(config) == {config.channels[k] : k \in DOMAIN config.channels}

FirstOf(config, places) ==
    IF places = {} THEN None
    ELSE config.channels[CHOOSE k \in places : \A j \in places : k <= j]

FindChannelByToken(config, bearer) ==
    FirstOf(config, {k \in DOMAIN config.channels :
                        config.channels[k].api_read_token = bearer})

FindChannelByName(config, name) ==
    FirstOf(config, {k \in DOMAIN config.channels :
                        config.channels[k].name = name})

IsUiToken(config, bearer) == bearer = config.ui_access_token

BodyLimit(config, ch) == OrElse(ch.max_body_size, config.default_body_limit)

\* Wrong on purpose: channels that allow more than the default are forgotten.
MaxBodyLimit_Default(config) == config.default_body_limit

MaxBodyLimit(config) ==
    LET limits == {config.default_body_limit}
                    \cup {BodyLimit(config, ch) : ch \in ChannelsOf(config)}
    IN  CHOOSE n \in limits : \A m \in limits : m <= n

ResolveBackoff(forward, defaults) ==
    [base |-> forward.interval_seconds,
     multiplier |-> OrElse(forward.backoff.multiplier, defaults.multiplier),
     max |-> OrElse(forward.backoff.max_seconds, defaults.max_seconds),
     jitter |-> OrElse(forward.backoff.jitter, defaults.jitter)]

Matches(entries, address) == \E entry \in entries : address \in entry.addresses

IsIpAllowed(ch, address) ==
    ch.allowed_ips = None \/ Matches(ch.allowed_ips, address)

\* Wrong on purpose: the signing secret itself is shown.
PublicChannel_ShowsSecret(config, ch) ==
    [name |-> ch.name, has_sign_secret |->
        IF ch.forward = None THEN FALSE ELSE ch.forward.sign_secret]

\* What GET /api/config tells: that there is a secret, never which.
PublicChannel(config, ch) ==
    [name |-> ch.name, secret_type |-> ch.secret_type,
     secret_header |-> ch.secret_header,
     has_secret |-> ch.webhook_secret # None,
     has_forward |-> ch.forward # None,
     sign_header |-> IF ch.forward = None THEN None ELSE ch.forward.sign_header,
     has_sign_secret |-> ch.forward # None /\ ch.forward.sign_secret # None,
     backoff |-> IF ch.forward = None THEN None
                 ELSE ResolveBackoff(ch.forward, config.forward_backoff),
     max_body_size |-> BodyLimit(config, ch),
     allowed_ips |-> ch.allowed_ips]

Public(config) ==
    [k \in DOMAIN config.channels |-> PublicChannel(config, config.channels[k])]

-----------------------------------------------------------------------------
(* The startup checks. *)

Parses(template) == template # None => template.parses

Renders(template) == template # None => template.renders

\* A signature in hexadecimal is a header value; around it the template may put
\* anything.
IsHeaderValue(template) == template # None => template.value

LimitInRange(limit) == MIN_BODY_LIMIT <= limit /\ limit <= MAX_BODY_LIMIT

ValidateBodyLimits(config) ==
    /\ LimitInRange(config.default_body_limit)
    /\ \A ch \in ChannelsOf(config) :
           ch.max_body_size # None => LimitInRange(ch.max_body_size)

ValidateAllowedIps(config) ==
    \A ch \in ChannelsOf(config) :
        ch.allowed_ips # None => \A entry \in ch.allowed_ips : entry.valid

ValidateChannelSecret(ch) ==
    ch.secret_type = "hmac-sha256" =>
        ch.webhook_secret # None /\ ch.secret_header # None

ValidateChannelTemplates(ch) ==
    Parses(ch.secret_extract_template) /\ Parses(ch.secret_sign_template)

\* Wrong on purpose: the templates are parsed and the secrets forgotten.
ValidateForwardSigning_NoSecret(ch, forward) == Parses(forward.sign_template)

ValidateForwardSigning(ch, forward) ==
    /\ forward.sign_header # None =>
           forward.sign_secret # None \/ ch.webhook_secret # None
    /\ forward.sign_secret # None => forward.sign_header # None
    /\ Parses(forward.sign_template)

ValidateTemplates(config) ==
    \A ch \in ChannelsOf(config) :
        /\ ValidateChannelSecret(ch)
        /\ ValidateChannelTemplates(ch)
        /\ ch.forward # None => ValidateForwardSigning(ch, ch.forward)

CheckBackoffValues(multiplier, max_seconds, jitter) ==
    /\ multiplier # NotFinite /\ multiplier >= 100
    /\ max_seconds # 0
    /\ jitter # NotFinite /\ 0 <= jitter /\ jitter <= 100

\* Wrong on purpose: only the values a channel spells out are compared.
ValidateForwardBackoff_Spelled(config) ==
    /\ CheckBackoffValues(config.forward_backoff.multiplier,
           config.forward_backoff.max_seconds, config.forward_backoff.jitter)
    /\ \A ch \in ChannelsOf(config) : ch.forward # None =>
        /\ ch.forward.interval_seconds # 0
        /\ ch.forward.backoff.max_seconds # None =>
               ch.forward.interval_seconds <= ch.forward.backoff.max_seconds

ValidateForwardBackoff(config) ==
    /\ CheckBackoffValues(config.forward_backoff.multiplier,
           config.forward_backoff.max_seconds, config.forward_backoff.jitter)
    /\ \A ch \in ChannelsOf(config) : ch.forward # None =>
        LET b == ResolveBackoff(ch.forward, config.forward_backoff) IN
            /\ ch.forward.interval_seconds # 0
            /\ CheckBackoffValues(b.multiplier, b.max, b.jitter)
            /\ ch.forward.interval_seconds <= b.max

ValidateConfig(config) ==
    /\ ValidateBodyLimits(config)
    /\ ValidateAllowedIps(config)
    /\ ValidateTemplates(config)
    /\ ValidateForwardBackoff(config)
=============================================================================
