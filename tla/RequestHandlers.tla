-------------------------- MODULE RequestHandlers --------------------------
(***************************************************************************)
(* What the HTTP handlers decide from the configuration and the call: who  *)
(* is asking, whether a webhook is admitted, how a request to the target   *)
(* is built and signed.  What they do to the table is in Service.          *)
(*                                                                         *)
(* A signature is the record of the key and the body it was computed from, *)
(* and a template puts it in some form; so two signatures agree exactly    *)
(* when key, body and form do.  A reply is its status, a reason for the    *)
(* properties to tell replies apart, and what it carries.                  *)
(***************************************************************************)
EXTENDS ChannelConfig, FiniteSets

Reply(status, why) == [status |-> status, why |-> why, carries |-> None]
Carrying(status, what) == [status |-> status, why |-> "ok", carries |-> what]
PassedGate == Reply(200, "ok")
Misconfigured(status) == Reply(status, "misconfigured")

\* A busy database is worth asking again, any other failure of it is not.
StorageReply(call, done) ==
    IF call.storage = "ok" THEN done
    ELSE IF call.storage = "busy" THEN Reply(503, "busy")
    ELSE Reply(500, "storage")

-----------------------------------------------------------------------------
(* The address of the client. *)

\* Wrong on purpose: proxy headers are believed whoever sends them.
ClientIp_TrustsAnyone(config, call) ==
    IF call.forwarded_for # <<>> /\ Head(call.forwarded_for) # None
    THEN Head(call.forwarded_for)
    ELSE OrElse(call.real_ip, call.peer)

\* Only a trusted proxy may name another address than its own; an entry that
\* is no address is None.
ClientIp(config, call) ==
    IF ~Matches(config.trusted_proxies, call.peer) THEN call.peer
    ELSE IF call.forwarded_for # <<>> /\ Head(call.forwarded_for) # None
    THEN Head(call.forwarded_for)
    ELSE OrElse(call.real_ip, call.peer)

-----------------------------------------------------------------------------
(* Signatures and templates. *)

Mac(key, body) == [key |-> key, body |-> body]

FormOf(template) == IF template = None THEN "bare" ELSE template.form

RenderSign(template, mac) == [form |-> FormOf(template), content |-> mac]

\* The template takes the signature out of its own form; out of any other text
\* it makes something that no computed signature equals.
RenderExtract(template, text) ==
    IF text.form = FormOf(template) THEN text.content ELSE None

Lookup(headers, name) ==
    IF Lower(name) \in DOMAIN headers THEN headers[Lower(name)] ELSE None

-----------------------------------------------------------------------------
(* Tokens: the same gate in front of every route but the receive route. *)

\* Wrong on purpose: the name is looked up before the token.
Authorize_NameFirst(config, call) ==
    LET own == FindChannelByToken(config, call.bearer) IN
    IF FindChannelByName(config, call.channel) = None THEN Reply(404, "channel")
    ELSE IF call.bearer = None THEN Reply(401, "token")
    ELSE IF own # None
    THEN IF own.name = call.channel THEN PassedGate ELSE Reply(403, "token")
    ELSE IF IsUiToken(config, call.bearer) THEN PassedGate ELSE Reply(401, "token")

Authorize(config, call) ==
    LET own == FindChannelByToken(config, call.bearer) IN
    IF call.bearer = None THEN Reply(401, "token")
    ELSE IF own # None
    THEN IF own.name = call.channel THEN PassedGate ELSE Reply(403, "token")
    ELSE IF ~IsUiToken(config, call.bearer) THEN Reply(401, "token")
    ELSE IF FindChannelByName(config, call.channel) = None THEN Reply(404, "channel")
    ELSE PassedGate

\* The channel a granted call works with: the token's, or the one it names.
GrantedChannel(config, call) ==
    LET own == FindChannelByToken(config, call.bearer)
    IN  IF own # None THEN own ELSE FindChannelByName(config, call.channel)

-----------------------------------------------------------------------------
(* Admission of a webhook. *)

VerifyHmacSecret(ch, call) ==
    LET text == Lookup(call.headers, ch.secret_header) IN
    IF text = None THEN Reply(401, "secret")
    ELSE IF ~Renders(ch.secret_extract_template) THEN Misconfigured(500)
    ELSE IF RenderExtract(ch.secret_extract_template, text)
              = Mac(ch.webhook_secret, call.body)
    THEN PassedGate ELSE Reply(401, "secret")

\* A channel without a secret, or without a header to read it from, is open.  A
\* header whose name cannot exist is never found.
VerifySecret(ch, call) ==
    IF ch.webhook_secret = None \/ ch.secret_header = None THEN PassedGate
    ELSE IF ~IsHeaderName(ch.secret_header) THEN Misconfigured(401)
    ELSE IF ch.secret_type = "hmac-sha256" THEN VerifyHmacSecret(ch, call)
    ELSE IF Lookup(call.headers, ch.secret_header)
              = [form |-> "plain", content |-> ch.webhook_secret]
    THEN PassedGate ELSE Reply(401, "secret")

ValidateBody(config, ch, call) ==
    IF call.size > BodyLimit(config, ch) THEN Reply(413, "limit")
    ELSE IF call.content_type # "json" THEN Reply(415, "content type")
    ELSE IF ~call.parses THEN Reply(422, "json")
    ELSE PassedGate

\* Wrong on purpose: the body is judged before the sender is known.
Admission_NoSecret(config, call) ==
    LET ch == FindChannelByName(config, call.channel) IN
    IF ch = None THEN Reply(404, "channel")
    ELSE IF ~IsIpAllowed(ch, ClientIp(config, call)) THEN Reply(403, "address")
    ELSE ValidateBody(config, ch, call)

Admission(config, call) ==
    LET ch == FindChannelByName(config, call.channel) IN
    IF ch = None THEN Reply(404, "channel")
    ELSE IF ~IsIpAllowed(ch, ClientIp(config, call)) THEN Reply(403, "address")
    ELSE LET secret == VerifySecret(ch, call)
         IN  IF secret # PassedGate THEN secret ELSE ValidateBody(config, ch, call)

\* Headers are stored in lower case, the ignored ones are not stored.
StoredHeaders(config, call) ==
    [h \in DOMAIN call.headers \ config.ignored_headers |-> call.headers[h]]

-----------------------------------------------------------------------------
(* The request to the target: the forwarder and the manual retry. *)

IsSignHeader(forward, header) ==
    forward.sign_header # None /\ Lower(header) = Lower(forward.sign_header)

\* Stored headers that travel on, as pairs of name and value.
CarriedHeaders(config, forward, webhook) ==
    {<<h, webhook.headers[h]>> :
        h \in {n \in DOMAIN webhook.headers \ config.ignored_headers :
                  ~IsSignHeader(forward, n)}}

\* A builder keeps the first error of its URL and its headers to itself, and
\* send returns it as if the target could not be reached.
CanSend(forward) ==
    /\ forward.url.valid
    /\ forward.sign_header # None =>
           IsHeaderName(forward.sign_header) /\ IsHeaderValue(forward.sign_template)

\* Wrong on purpose: names are compared as they are spelled, so the sender's
\* signature travels on beside the new one.
BuildRequest_Spelling(config, ch, webhook) ==
    LET forward == ch.forward
        secret == OrElse(forward.sign_secret, ch.webhook_secret)
        carried == {<<h, webhook.headers[h]>> :
            h \in {n \in DOMAIN webhook.headers \ config.ignored_headers :
                      n # forward.sign_header}}
    IN  IF forward.sign_header = None THEN {carried}
        ELSE IF secret = None \/ ~Renders(forward.sign_template) THEN {}
        ELSE {carried \cup {<<Lower(forward.sign_header),
                 RenderSign(forward.sign_template, Mac(secret, webhook.body))>>}}

\* build_request of the forwarder: the headers it hands to send; empty when it
\* returns None.
BuildRequest(config, ch, webhook) ==
    LET forward == ch.forward
        secret == OrElse(forward.sign_secret, ch.webhook_secret)
        carried == CarriedHeaders(config, forward, webhook)
    IN  IF forward.sign_header = None THEN {carried}
        ELSE IF secret = None \/ ~Renders(forward.sign_template) THEN {}
        ELSE {carried \cup {<<Lower(forward.sign_header),
                 RenderSign(forward.sign_template, Mac(secret, webhook.body))>>}}

\* Wrong on purpose: the channel's own secret is preferred.
RetrySign_WebhookSecret(ch, body) ==
    LET secret == OrElse(ch.webhook_secret, ch.forward.sign_secret) IN
    IF secret = None \/ ~Renders(ch.forward.sign_template) THEN Misconfigured(500)
    ELSE Carrying(200, RenderSign(ch.forward.sign_template, Mac(secret, body)))

\* sign of the manual retry: the header's value, or 500.
RetrySign(ch, body) ==
    LET secret == OrElse(ch.forward.sign_secret, ch.webhook_secret) IN
    IF secret = None \/ ~Renders(ch.forward.sign_template) THEN Misconfigured(500)
    ELSE Carrying(200, RenderSign(ch.forward.sign_template, Mac(secret, body)))

RetryRequest(config, ch, webhook) ==
    LET carried == CarriedHeaders(config, ch.forward, webhook)
        signed == RetrySign(ch, webhook.body)
    IN  IF ch.forward.sign_header = None THEN Carrying(200, carried)
        ELSE IF signed.status # 200 THEN signed
        ELSE Carrying(200, carried \cup
                 {<<Lower(ch.forward.sign_header), signed.carries>>})

\* Load the row, check its channel, build the request; the answer of the
\* target, or that there was none, is in the body of a 200.
RetryReply(config, call, webhook) ==
    LET gate == Authorize(config, call)
        ch == FindChannelByName(config, call.channel)
    IN  IF gate # PassedGate THEN gate
        ELSE IF ch = None THEN Reply(404, "channel")
        ELSE IF ch.forward = None THEN Reply(400, "no forward")
        ELSE IF call.storage # "ok" THEN StorageReply(call, PassedGate)
        ELSE IF webhook = None \/ webhook.channel # call.channel
        THEN Reply(404, "webhook")
        ELSE IF RetryRequest(config, ch, webhook).status = 200 /\ ~CanSend(ch.forward)
        THEN Misconfigured(200)
        ELSE RetryRequest(config, ch, webhook)

-----------------------------------------------------------------------------
(* The routes with which an operator tries out a channel. *)

\* Wrong on purpose: signed with the secret of the other direction.
SignReply_SignSecret(config, call) ==
    LET gate == Authorize(config, call)
        ch == GrantedChannel(config, call)
    IN  IF gate # PassedGate THEN gate
        ELSE IF ch.secret_type # "hmac-sha256" THEN Reply(400, "secret type")
        ELSE IF ~Renders(ch.secret_sign_template) THEN Misconfigured(500)
        ELSE Carrying(200, <<OrElse(ch.secret_header, "no header"),
            RenderSign(ch.secret_sign_template,
                Mac(IF ch.forward # None
                    THEN OrElse(ch.forward.sign_secret, ch.webhook_secret)
                    ELSE ch.webhook_secret, call.body))>>)

\* POST .../sign: the header a sender of this body would set.
SignReply(config, call) ==
    LET gate == Authorize(config, call)
        ch == GrantedChannel(config, call)
    IN  IF gate # PassedGate THEN gate
        ELSE IF ch.secret_type # "hmac-sha256" THEN Reply(400, "secret type")
        ELSE IF ~Renders(ch.secret_sign_template) THEN Misconfigured(500)
        ELSE Carrying(200, <<OrElse(ch.secret_header, "no header"),
            RenderSign(ch.secret_sign_template,
                Mac(OrElse(ch.webhook_secret, "empty"), call.body))>>)

\* The secret of the call wins over the configured ones.
SignTestPayload(ch, secret, body) ==
    LET key == OrElse(secret, OrElse(ch.forward.sign_secret, ch.webhook_secret)) IN
    IF key = None THEN Reply(400, "misconfigured")
    ELSE IF ~Renders(ch.forward.sign_template) THEN Misconfigured(500)
    ELSE Carrying(200, RenderSign(ch.forward.sign_template, Mac(key, body)))

\* The extractor judges the body before the handler sees the token.
TestSendReply(config, call) ==
    LET gate == Authorize(config, call)
        ch == GrantedChannel(config, call)
        signed == SignTestPayload(ch, call.secret, call.body)
    IN  IF call.content_type # "json" THEN Reply(415, "content type")
        ELSE IF ~call.parses THEN Reply(400, "json")
        ELSE IF ~call.has_payload THEN Reply(422, "json")
        ELSE IF gate # PassedGate THEN gate
        ELSE IF ch.forward = None THEN Reply(400, "no forward")
        ELSE IF ch.forward.sign_header # None /\ signed.status # 200 THEN signed
        ELSE IF ~CanSend(ch.forward) THEN Misconfigured(502)
        ELSE IF ~call.reachable THEN Reply(502, "target")
        ELSE Carrying(200, IF ch.forward.sign_header = None THEN {}
                           ELSE {<<Lower(ch.forward.sign_header), signed.carries>>})

\* spawn_forwarders registers a status for every channel that forwards.
HasStatus(config, name) ==
    \E ch \in ChannelsOf(config) : ch.name = name /\ ch.forward # None

\* pause and resume change the status, clear works without a forwarder.
QueueReply(config, call) ==
    LET gate == Authorize(config, call)
        ch == FindChannelByName(config, call.channel)
    IN  IF gate # PassedGate THEN gate
        ELSE IF \/ call.route = "queue" /\ ch.forward = None
                \/ call.route = "pause" /\ ~HasStatus(config, call.channel)
        THEN Reply(400, "no forward")
        ELSE IF call.route = "pause" THEN Reply(204, "ok")
        ELSE StorageReply(call, PassedGate)

ConfigReply(config, call) ==
    IF \/ call.bearer = None
       \/ /\ FindChannelByToken(config, call.bearer) = None
          /\ ~IsUiToken(config, call.bearer)
    THEN Reply(401, "token")
    ELSE Carrying(200, Public(config))
=============================================================================
