------------------------------ MODULE Service ------------------------------
(***************************************************************************)
(* Processes that have started (Startup) and what they answer: one action  *)
(* per route of the router and one for the forwarder's request, with one   *)
(* webhook in the table at a time.  A webhook keeps the headers that were  *)
(* stored with it, from which forwarder and manual retry build theirs.     *)
(* What the interleavings of these handlers do to the table is in          *)
(* WebhookQueue; here every handler is one step.                           *)
(***************************************************************************)
EXTENDS Startup, RequestHandlers

CONSTANT Calls      \* the requests clients send

\* A request has these parts, whatever is in them; the HTTP library hands
\* header names over in lower case.
ASSUME CallsAssumption ==
    \A call \in Calls :
        /\ {"route", "channel", "bearer", "storage", "peer", "forwarded_for", "real_ip",
            "headers", "body", "size", "content_type", "parses", "has_payload"}
               \subseteq DOMAIN call
        /\ call.size \in Nat
        /\ \A h \in DOMAIN call.headers : Lower(h) = h

\* A channel has the parts a file may give it, and None is no value: neither a
\* secret, nor a forward, nor the text of a header or a signature.
ASSUME ChannelsAssumption ==
    \A d \in Deployments : d.raw.channels # None =>
        \A ch \in ChannelsOf(d.raw) :
            /\ {"name", "api_read_token", "webhook_secret", "secret_type", "secret_header",
                "forward", "max_body_size", "allowed_ips"} \subseteq DOMAIN ch
            /\ "other" # None
            /\ ch.forward # None =>
                   /\ {"interval_seconds", "sign_header", "sign_secret", "backoff"}
                          \subseteq DOMAIN ch.forward
                   /\ \A s \in {None, "other"} :
                          [ch.forward EXCEPT !.sign_secret = s] # None
            /\ [form |-> "plain", content |-> ch.webhook_secret] # None
            /\ \A call \in Calls :
                   LET mac == Mac(ch.webhook_secret, call.body)
                   IN  mac # None /\ RenderSign(ch.secret_sign_template, mac) # None

VARIABLES
    stored,         \* the webhook in the table, None without one
    answer          \* the last call, its reply, and the webhook it sends on

vars == <<startupVars, stored, answer>>

Config == Load(raw)
BodyRoutes == {"receive", "sign", "test-send"}

\* Bound: clients wait until the deploy is over, and for each other's answer.
Serving ==
    /\ \A i \in Instances : phase[i] = "serve"
    /\ answer = None

\* Only JSON is read by the extractor of the test send.
BodyIsRead(call) ==
    /\ call.route \in BodyRoutes
    /\ call.route = "test-send" => call.content_type = "json"

\* The router, and the body limit where the body is read for the handler.
Routed(call, reply) ==
    IF ~Config.api_enabled THEN Reply(404, "disabled")
    ELSE IF BodyIsRead(call) /\ call.size > MaxBodyLimit(Config)
    THEN Reply(413, "layer")
    ELSE reply

Answer(call, reply) ==
    /\ Serving
    /\ answer' = [call |-> call, reply |-> Routed(call, reply),
                  webhook |-> IF call.route = "retry" THEN stored ELSE None]
    /\ UNCHANGED startupVars

\* The client has read the answer and may call again.
NextCall ==
    /\ answer # None
    /\ answer' = None
    /\ UNCHANGED <<startupVars, stored>>

Accepted == answer'.reply.status \in {200, 204}

\* The handler takes the webhook out of the table when it succeeds.
TakesIf(succeeded) == stored' = IF succeeded THEN None ELSE stored

BelongsTo(call) == stored # None /\ stored.channel = call.channel

-----------------------------------------------------------------------------
ReceiveReply(call) ==
    LET gate == Admission(Config, call) IN
    IF gate # PassedGate THEN gate ELSE StorageReply(call, Reply(200, "stored"))

ReceiveWebhook(call) ==
    /\ call.route = "receive"
    /\ stored = None
    /\ Answer(call, ReceiveReply(call))
    /\ stored' = IF Accepted
                 THEN [channel |-> call.channel, body |-> call.body,
                       headers |-> StoredHeaders(Config, call)]
                 ELSE stored

ReadReply(call) ==
    LET gate == Authorize(Config, call) IN
    IF gate # PassedGate THEN gate ELSE StorageReply(call, PassedGate)

ReadWebhooks(call) ==
    /\ call.route = "read"
    /\ Answer(call, ReadReply(call))
    /\ TakesIf(Accepted /\ BelongsTo(call))

ListWebhooks(call) ==
    /\ call.route = "list"
    /\ Answer(call, ReadReply(call))
    /\ UNCHANGED stored

\* The statement names the id alone.
DeleteWebhook(call) ==
    /\ call.route = "delete"
    /\ Answer(call, ReadReply(call))
    /\ TakesIf(Accepted)

SignWebhook(call) ==
    /\ call.route = "sign"
    /\ Answer(call, SignReply(Config, call))
    /\ UNCHANGED stored

TestSend(call) ==
    /\ call.route = "test-send"
    /\ Answer(call, TestSendReply(Config, call))
    /\ UNCHANGED stored

ControlQueue(call) ==
    /\ call.route \in {"queue", "pause"}
    /\ Answer(call, QueueReply(Config, call))
    /\ UNCHANGED stored

ClearQueue(call) ==
    /\ call.route = "clear"
    /\ Answer(call, QueueReply(Config, call))
    /\ TakesIf(Accepted /\ BelongsTo(call))

RetryWebhook(call) ==
    /\ call.route = "retry"
    /\ Answer(call, RetryReply(Config, call, stored))
    /\ TakesIf(answer'.reply.why = "ok" /\ call.reachable)

GetConfig(call) ==
    /\ call.route = "config"
    /\ Answer(call, ConfigReply(Config, call))
    /\ UNCHANGED stored

\* One pass of the forwarder of ch: the target may accept or refuse.
Forward(ch) ==
    /\ Serving
    /\ ch.forward # None
    /\ stored # None /\ stored.channel = ch.name
    /\ LET requests == BuildRequest(Config, ch, stored)
           sent == requests # {} /\ CanSend(ch.forward)
           reply == IF ~sent THEN Misconfigured(0)
                    ELSE Carrying(0, CHOOSE r \in requests : TRUE)
       IN /\ answer' = [call |-> [route |-> "forward", channel |-> ch.name, by |-> ch],
                        reply |-> reply, webhook |-> stored]
          /\ \/ sent /\ stored' = None
             \/ UNCHANGED stored
    /\ UNCHANGED startupVars

-----------------------------------------------------------------------------
Init ==
    /\ StartupInit
    /\ stored = None
    /\ answer = None

Handle(call) ==
    \/ ReceiveWebhook(call)
    \/ ReadWebhooks(call)
    \/ ListWebhooks(call)
    \/ DeleteWebhook(call)
    \/ SignWebhook(call)
    \/ TestSend(call)
    \/ ControlQueue(call)
    \/ ClearQueue(call)
    \/ RetryWebhook(call)
    \/ GetConfig(call)

\* Bound: nobody starts or dies after the first call was answered.
Deploy == stored = None /\ answer = None /\ UNCHANGED <<stored, answer>>

Next ==
    \/ StartupNext /\ Deploy
    \/ NextCall
    \/ Serving /\ \E call \in Calls : Handle(call)
    \/ Serving /\ \E ch \in ChannelsOf(Config) : Forward(ch)

Spec == Init /\ [][Next]_vars

\* A process that started goes on, and one that stopped is started again.
Fairness == \A i \in Instances : WF_vars(Deploy /\ Starting(i))

FairSpec == Spec /\ Fairness

-----------------------------------------------------------------------------
(* Properties. *)

TypeOK ==
    /\ StartupType
    /\ stored = None \/ DOMAIN stored = {"channel", "body", "headers"}
    /\ answer = None \/ DOMAIN answer = {"call", "reply", "webhook"}

Answered(route) == answer # None /\ answer.call.route = route
Call == answer.call
Channel == FindChannelByName(Config, Call.channel)

TemplatesOf(ch) ==
    {ch.secret_extract_template, ch.secret_sign_template}
        \cup IF ch.forward = None THEN {} ELSE {ch.forward.sign_template}

\* What no startup check looks at: whether a template renders, whether a name
\* and a value may stand in a header, whether the target's URL is one.
Unchecked(ch) ==
    \/ \E t \in TemplatesOf(ch) : Parses(t) /\ ~Renders(t)
    \/ ch.secret_header # None /\ ~IsHeaderName(ch.secret_header)
    \/ ch.forward # None /\ ~CanSend(ch.forward)

\* What validate_config is good for: no call and no forward ever fails for want
\* of a secret or a header, and a configuration that fails one later on does so
\* in one of the ways no check looks at.  The comment on validate_config claims
\* more ("misconfiguration must stop the process here rather than surface as a
\* failed webhook hours later"): those ways do surface there.
OnlyUncheckedSurfaces ==
    answer # None /\ answer.reply.why = "misconfigured" =>
        \E ch \in ChannelsOf(Config) : ch.name = Call.channel /\ Unchecked(ch)

\* Whatever a channel leaves to the defaults, the schedule its forwarder gets is
\* one the backoff is right for: what Backoff assumes of its constants.
ScheduleSound ==
    (\E i \in Instances : Forwarding(i)) =>
        \A ch \in ChannelsOf(Config) : ch.forward # None =>
            LET b == ResolveBackoff(ch.forward, Config.forward_backoff) IN
                /\ 1 <= b.base /\ b.base <= b.max
                /\ b.multiplier # NotFinite /\ 100 <= b.multiplier
                /\ b.jitter # NotFinite /\ 0 <= b.jitter /\ b.jitter <= 100

\* The body limit of the router never refuses what the channel would admit.
LayerLimitAgrees ==
    Answered("receive") /\ answer.reply.why = "layer" /\ Channel # None =>
        Call.size > BodyLimit(Config, Channel)

\* A client that is no trusted proxy gets the answer it would get without
\* X-Forwarded-For and X-Real-IP.
UntrustedHeadersIgnored ==
    Answered("receive") /\ ~Matches(Config.trusted_proxies, Call.peer) =>
        Admission(Config, Call) =
            Admission(Config, [Call EXCEPT !.forwarded_for = <<>>, !.real_ip = None])

\* Only webhooks that meet all conditions of their channel are stored, and what
\* a poll decodes later did parse when it was stored.
StoredMeansAdmitted ==
    Answered("receive") /\ answer.reply.why = "stored" =>
        /\ Call.parses /\ Call.size <= BodyLimit(Config, Channel)
        /\ Channel.allowed_ips # None =>
               Matches(Channel.allowed_ips, ClientIp(Config, Call))
        /\ Channel.webhook_secret # None /\ Channel.secret_header # None =>
               \E h \in DOMAIN Call.headers :
                   /\ h = Lower(Channel.secret_header)
                   /\ Call.headers[h].content \in
                          {Channel.webhook_secret, Mac(Channel.webhook_secret, Call.body)}

TokenRoutes ==
    {"read", "list", "delete", "sign", "test-send", "queue", "pause", "clear", "retry"}

\* On the routes that ask for a token, a caller without one learns nothing of
\* the channel names: the call ends at the router, at its own body or at the
\* token, which is judged before the name.  The receive route asks for no token;
\* it tells an unknown name (404) from a known one.
StrangerSeesNoChannel ==
    /\ answer # None
    /\ Call.route \in TokenRoutes
    /\ Call.bearer \notin
           {ch.api_read_token : ch \in ChannelsOf(Config)} \cup {Config.ui_access_token}
    => /\ answer.reply.why \in {"disabled", "layer", "content type", "json", "token"}
       /\ \A other \in Calls :
              Authorize(Config, Call) =
                  Authorize(Config, [Call EXCEPT !.channel = other.channel])

\* What /sign computes is what the receive route of the channel accepts, when
\* the channel's two templates undo each other and HTTP allows the header.
SignedIsAccepted ==
    Answered("sign") /\ answer.reply.status = 200 =>
        LET ch == GrantedChannel(Config, Call)
            header == answer.reply.carries[1]
            value == answer.reply.carries[2]
        IN  /\ IsHeaderName(header) /\ IsHeaderValue(ch.secret_sign_template)
            /\ Renders(ch.secret_extract_template)
            /\ FormOf(ch.secret_extract_template) = FormOf(ch.secret_sign_template)
            => VerifySecret(ch, [Call EXCEPT !.headers =
                   [h \in {Lower(header)} |-> value]]) = PassedGate

\* A manual retry rebuilds "the forward request the way the background
\* forwarder would" (RetryContext::build_request), and a test send without a
\* secret of its own signs as they do.
AgentsSignAlike ==
    /\ Answered("retry") /\ answer.reply.why = "ok" =>
           answer.reply.carries \in BuildRequest(Config, Channel, answer.webhook)
    /\ Answered("test-send") /\ answer.reply.status = 200 /\ Call.secret = None =>
           answer.reply.carries \in BuildRequest(Config, GrantedChannel(Config, Call),
               [channel |-> Call.channel, body |-> Call.body, headers |-> <<>>])

\* The target finds one signature, the channel's own for this body: the
\* sender's is not replayed beside it, however its header is spelled.
SignedOnce ==
    Answered("forward") /\ answer.reply.why = "ok" /\ Call.by.forward.sign_header # None =>
        LET forward == Call.by.forward
            mac == Mac(OrElse(forward.sign_secret, Call.by.webhook_secret),
                       answer.webhook.body)
        IN  {pair \in answer.reply.carries : pair[1] = Lower(forward.sign_header)} =
            {<<Lower(forward.sign_header), RenderSign(forward.sign_template, mac)>>}

WithSecrets(ch, other) ==
    LET Replaced(secret) == IF secret = None THEN None ELSE other
        forward == IF ch.forward = None THEN None
                   ELSE [ch.forward EXCEPT !.sign_secret = Replaced(ch.forward.sign_secret)]
    IN  [ch EXCEPT !.api_read_token = other,
                   !.webhook_secret = Replaced(ch.webhook_secret),
                   !.forward = forward]

\* GET /api/config answers the same whatever the secrets are ("Secrets never
\* appear here", ChannelConfigDto).
SecretsStayServerSide ==
    Answered("config") /\ answer.reply.status = 200 =>
        answer.reply.carries = Public([Config EXCEPT !.channels =
            [k \in DOMAIN Config.channels |-> WithSecrets(Config.channels[k], "other")]])

\* With a sound configuration, a database that can be opened and an address that
\* can be had, every process ends up serving, however the migrations, their
\* locks, a passing failure and a crash interleave; with an unsound one, no
\* process ever serves or forwards.
SoundOnesServe ==
    \A i \in Instances :
        /\ <>[](Sound /\ CanOpen /\ CanListen => phase[i] = "serve")
        /\ [](Forwarding(i) => Sound)
=============================================================================
