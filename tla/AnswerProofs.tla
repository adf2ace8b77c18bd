---------------------------- MODULE AnswerProofs ----------------------------
(***************************************************************************)
(* What the answers of a process that serves are worth, for every          *)
(* configuration that passed the startup checks and every call.  The       *)
(* replies are functions of configuration, call and webhook, so the work   *)
(* is in lemmas about them; the steps only have to be told apart.          *)
(***************************************************************************)
EXTENDS ServiceProofs, WellFoundedInduction

LEMMA LeastOf ==
    ASSUME NEW S, S \subseteq Nat, S # {}
    PROVE  \E k \in S : \A j \in S : k <= j
<1> DEFINE R == OpToRel(<, Nat)
<1>1. IsWellFoundedOn(R, Nat)
  BY NatLessThanWellFounded, Zenon
<1>2. \A i, j \in Nat : i < j => <<i, j>> \in R
  BY Zenon DEF OpToRel
<1> HIDE DEF R
<1>3. PICK k \in S : \A j \in S : ~(<<j, k>> \in R)
  BY <1>1, WFMin
<1>4. \A j \in S : ~(j < k)
  BY <1>2, <1>3
<1>5. k \in Nat
  OBVIOUS
<1> QED BY <1>4, <1>5

-----------------------------------------------------------------------------
(* The configuration behind the answers. *)

Checked == Sound /\ DOMAIN Config.channels \subseteq Nat

LEMMA ServingIsChecked ==
    ASSUME StartupInv, Serving
    PROVE  Checked
<1>1. Sound
  BY StartupAssumption DEF Serving, StartupInv, Knows
<1>2. PICK d \in Deployments : raw = d.raw
  BY DEF StartupInv, Found
<1>3. Config.channels = raw.channels
  BY DEF Config, Load
<1> QED BY <1>1, <1>2, <1>3, StartupAssumption DEF Checked, Sound, CanLoad

LEMMA FirstIsOne ==
    ASSUME Checked, NEW places, places \subseteq DOMAIN Config.channels,
           FirstOf(Config, places) # None
    PROVE  \E k \in places : FirstOf(Config, places) = Config.channels[k]
<1>1. places # {}
  BY DEF FirstOf
<1>2. \E k \in places : \A j \in places : k <= j
  BY <1>1, LeastOf DEF Checked
<1> QED BY <1>1, <1>2 DEF FirstOf

LEMMA FoundByName ==
    ASSUME Checked, NEW name, FindChannelByName(Config, name) # None
    PROVE  /\ FindChannelByName(Config, name) \in ChannelsOf(Config)
           /\ FindChannelByName(Config, name).name = name
<1> DEFINE places == {k \in DOMAIN Config.channels : Config.channels[k].name = name}
<1>1. FindChannelByName(Config, name) = FirstOf(Config, places)
  BY DEF FindChannelByName
<1>2. PICK k \in places : FirstOf(Config, places) = Config.channels[k]
  BY <1>1, FirstIsOne
<1> QED BY <1>1, <1>2 DEF ChannelsOf

LEMMA FoundByToken ==
    ASSUME Checked, NEW bearer, FindChannelByToken(Config, bearer) # None
    PROVE  FindChannelByToken(Config, bearer) \in ChannelsOf(Config)
<1> DEFINE places == {k \in DOMAIN Config.channels :
                          Config.channels[k].api_read_token = bearer}
<1>1. FindChannelByToken(Config, bearer) = FirstOf(Config, places)
  BY DEF FindChannelByToken
<1>2. PICK k \in places : FirstOf(Config, places) = Config.channels[k]
  BY <1>1, FirstIsOne
<1> QED BY <1>1, <1>2 DEF ChannelsOf

\* Whoever passes the gate works with a channel of the name in the path.
LEMMA GrantedHasName ==
    ASSUME Checked, NEW call, Authorize(Config, call) = PassedGate
    PROVE  /\ GrantedChannel(Config, call) \in ChannelsOf(Config)
           /\ GrantedChannel(Config, call).name = call.channel
<1> DEFINE own == FindChannelByToken(Config, call.bearer)
<1>1. CASE own # None
  BY <1>1, FoundByToken DEF Authorize, GrantedChannel, Reply, PassedGate
<1>2. CASE own = None
  <2>1. FindChannelByName(Config, call.channel) # None
    BY <1>2 DEF Authorize, Reply, PassedGate
  <2> QED BY <1>2, <2>1, FoundByName DEF GrantedChannel
<1> QED BY <1>1, <1>2

\* Every template of a checked configuration parses, and a channel that signs
\* has a secret to sign with.
LEMMA TemplatesParse ==
    ASSUME Checked, NEW ch \in ChannelsOf(Config)
    PROVE  /\ \A t \in TemplatesOf(ch) : Parses(t)
           /\ ch.forward # None /\ ch.forward.sign_header # None =>
                  OrElse(ch.forward.sign_secret, ch.webhook_secret) # None
<1>1. /\ ValidateChannelTemplates(ch)
      /\ ch.forward # None => ValidateForwardSigning(ch, ch.forward)
  BY DEF Checked, Sound, Config, ValidateConfig, ValidateTemplates
<1> QED BY <1>1 DEF ValidateChannelTemplates, ValidateForwardSigning, TemplatesOf, OrElse

-----------------------------------------------------------------------------
(* Misconfiguration. *)

\* A channel of this name has a flaw that no startup check looks at.
Flawed(name) ==
    \E ch \in ChannelsOf(Config) : ch.name = name /\ Unchecked(ch)

LEMMA ReceiveMisconfigured ==
    ASSUME Checked, NEW call, ReceiveReply(call).why = "misconfigured"
    PROVE  Flawed(call.channel)
<1> DEFINE ch == FindChannelByName(Config, call.channel)
<1> USE DEF Reply, PassedGate, Misconfigured
<1>1. Admission(Config, call).why = "misconfigured"
  BY DEF ReceiveReply, StorageReply
<1>2. ch # None
  BY <1>1 DEF Admission
<1>3. VerifySecret(ch, call).why = "misconfigured"
  BY <1>1, <1>2 DEF Admission, ValidateBody
<1>4. \/ ~Renders(ch.secret_extract_template)
      \/ ch.secret_header # None /\ ~IsHeaderName(ch.secret_header)
  BY <1>3 DEF VerifySecret, VerifyHmacSecret
<1>5. ch \in ChannelsOf(Config) /\ ch.name = call.channel
  BY <1>2, FoundByName
<1>6. ch.secret_extract_template \in TemplatesOf(ch)
  BY DEF TemplatesOf
<1>7. Parses(ch.secret_extract_template)
  BY <1>5, <1>6, TemplatesParse
<1> QED BY <1>4, <1>5, <1>6, <1>7 DEF Flawed, Unchecked

LEMMA GateNeverMisconfigured ==
    ASSUME NEW call
    PROVE  /\ Authorize(Config, call).why # "misconfigured"
           /\ Authorize(Config, call).status = 200 \/ Authorize(Config, call).why = "ok" =>
                  Authorize(Config, call) = PassedGate
BY DEF Authorize, Reply, PassedGate

LEMMA SignMisconfigured ==
    ASSUME Checked, NEW call, SignReply(Config, call).why = "misconfigured"
    PROVE  Flawed(call.channel)
<1> DEFINE ch == GrantedChannel(Config, call)
<1>1. Authorize(Config, call) = PassedGate
  BY GateNeverMisconfigured DEF SignReply
<1>2. ch \in ChannelsOf(Config) /\ ch.name = call.channel
  BY <1>1, GrantedHasName
<1>3. ~Renders(ch.secret_sign_template)
  BY <1>1 DEF SignReply, Reply, Carrying
<1>4. ch.secret_sign_template \in TemplatesOf(ch)
  BY DEF TemplatesOf
<1> QED BY <1>2, <1>3, <1>4, TemplatesParse DEF Flawed, Unchecked

\* A checked channel fails to sign a forward for want of rendering only.
LEMMA SigningMisconfigured ==
    ASSUME Checked, NEW ch \in ChannelsOf(Config), ch.forward # None,
           ch.forward.sign_header # None,
           \/ OrElse(ch.forward.sign_secret, ch.webhook_secret) = None
           \/ ~Renders(ch.forward.sign_template)
    PROVE  Flawed(ch.name)
<1>1. ~Renders(ch.forward.sign_template)
  BY TemplatesParse
<1>2. ch.forward.sign_template \in TemplatesOf(ch)
  BY DEF TemplatesOf
<1> QED BY <1>1, <1>2, TemplatesParse DEF Flawed, Unchecked

LEMMA TestSendMisconfigured ==
    ASSUME Checked, NEW call, TestSendReply(Config, call).why = "misconfigured"
    PROVE  Flawed(call.channel)
<1> DEFINE ch == GrantedChannel(Config, call)
           signed == SignTestPayload(ch, call.secret, call.body)
<1> USE DEF Reply, PassedGate, Misconfigured, Carrying
<1>1. Authorize(Config, call) = PassedGate
  BY GateNeverMisconfigured DEF TestSendReply
<1>2. /\ ch.forward # None
      /\ \/ ~CanSend(ch.forward)
         \/ ch.forward.sign_header # None /\ signed.why = "misconfigured"
  BY <1>1 DEF TestSendReply
<1>3. ch \in ChannelsOf(Config) /\ ch.name = call.channel
  BY <1>1, GrantedHasName
<1>4. CASE ~CanSend(ch.forward)
  BY <1>2, <1>3, <1>4 DEF Flawed, Unchecked
<1>5. CASE ch.forward.sign_header # None /\ signed.why = "misconfigured"
  <2>1. \/ OrElse(ch.forward.sign_secret, ch.webhook_secret) = None
        \/ ~Renders(ch.forward.sign_template)
    BY <1>5 DEF SignTestPayload, OrElse
  <2> QED BY <1>2, <1>3, <1>5, <2>1, SigningMisconfigured
<1> QED BY <1>2, <1>4, <1>5

LEMMA RetryMisconfigured ==
    ASSUME Checked, NEW call, NEW webhook,
           RetryReply(Config, call, webhook).why = "misconfigured"
    PROVE  Flawed(call.channel)
<1> DEFINE ch == FindChannelByName(Config, call.channel)
<1> USE DEF Reply, PassedGate, Misconfigured, Carrying
<1>1. Authorize(Config, call) = PassedGate
  BY GateNeverMisconfigured DEF RetryReply
<1>2. /\ ch # None /\ ch.forward # None
      /\ \/ ~CanSend(ch.forward)
         \/ RetryRequest(Config, ch, webhook).why = "misconfigured"
  BY <1>1 DEF RetryReply, StorageReply
<1>3. ch \in ChannelsOf(Config) /\ ch.name = call.channel
  BY <1>2, FoundByName
<1>4. CASE ~CanSend(ch.forward)
  BY <1>2, <1>3, <1>4 DEF Flawed, Unchecked
<1>5. CASE RetryRequest(Config, ch, webhook).why = "misconfigured"
  <2>1. ch.forward.sign_header # None
    BY <1>5 DEF RetryRequest
  <2>2. \/ OrElse(ch.forward.sign_secret, ch.webhook_secret) = None
        \/ ~Renders(ch.forward.sign_template)
    BY <1>5 DEF RetryRequest, RetrySign
  <2> QED BY <1>2, <1>3, <2>1, <2>2, SigningMisconfigured
<1> QED BY <1>2, <1>4, <1>5

LEMMA ForwardMisconfigured ==
    ASSUME Checked, NEW ch \in ChannelsOf(Config), ch.forward # None, NEW webhook,
           BuildRequest(Config, ch, webhook) = {} \/ ~CanSend(ch.forward)
    PROVE  Flawed(ch.name)
<1>1. CASE BuildRequest(Config, ch, webhook) = {}
  <2>1. ch.forward.sign_header # None
    BY <1>1 DEF BuildRequest
  <2>2. \/ OrElse(ch.forward.sign_secret, ch.webhook_secret) = None
        \/ ~Renders(ch.forward.sign_template)
    BY <1>1, <2>1 DEF BuildRequest
  <2> QED BY <2>1, <2>2, SigningMisconfigured
<1>2. CASE ~CanSend(ch.forward)
  BY <1>2 DEF Flawed, Unchecked
<1> QED BY <1>1, <1>2

\* The other routes decide by token and storage alone.
LEMMA OthersNeverMisconfigured ==
    ASSUME NEW call
    PROVE  /\ ReadReply(call).why # "misconfigured"
           /\ QueueReply(Config, call).why # "misconfigured"
           /\ ConfigReply(Config, call).why # "misconfigured"
BY GateNeverMisconfigured
   DEF ReadReply, QueueReply, ConfigReply, StorageReply, Reply, PassedGate, Carrying

-----------------------------------------------------------------------------
(* The steps. *)

\* A call gets the reply of its own route, behind the router.
LEMMA CallGetsReply ==
    ASSUME NEW call, Handle(call)
    PROVE  /\ Serving /\ raw' = raw
           /\ answer'.call = call
           /\ \/ /\ call.route = "receive"
                 /\ answer'.reply = Routed(call, ReceiveReply(call))
              \/ /\ call.route \in {"read", "list", "delete"}
                 /\ answer'.reply = Routed(call, ReadReply(call))
              \/ /\ call.route = "sign"
                 /\ answer'.reply = Routed(call, SignReply(Config, call))
              \/ /\ call.route = "test-send"
                 /\ answer'.reply = Routed(call, TestSendReply(Config, call))
              \/ /\ call.route \in {"queue", "pause", "clear"}
                 /\ answer'.reply = Routed(call, QueueReply(Config, call))
              \/ /\ call.route = "retry"
                 /\ answer'.reply = Routed(call, RetryReply(Config, call, stored))
                 /\ answer'.webhook = stored
              \/ /\ call.route = "config"
                 /\ answer'.reply = Routed(call, ConfigReply(Config, call))
<1> USE DEF Answer, startupVars
<1>1. CASE ReceiveWebhook(call)
  BY <1>1 DEF ReceiveWebhook
<1>2. CASE ReadWebhooks(call) \/ ListWebhooks(call) \/ DeleteWebhook(call)
  BY <1>2 DEF ReadWebhooks, ListWebhooks, DeleteWebhook
<1>3. CASE SignWebhook(call)
  BY <1>3 DEF SignWebhook
<1>4. CASE TestSend(call)
  BY <1>4 DEF TestSend
<1>5. CASE ControlQueue(call) \/ ClearQueue(call)
  BY <1>5 DEF ControlQueue, ClearQueue
<1>6. CASE RetryWebhook(call)
  BY <1>6 DEF RetryWebhook
<1>7. CASE GetConfig(call)
  BY <1>7 DEF GetConfig
<1> QED BY <1>1, <1>2, <1>3, <1>4, <1>5, <1>6, <1>7 DEF Handle

\* Steps that answer nothing leave no answer, or the one there was.
LEMMA QuietStep ==
    ASSUME \/ StartupNext /\ Deploy
           \/ NextCall
           \/ UNCHANGED vars
    PROVE  \/ answer' = None
           \/ answer' = answer /\ raw' = raw
BY DEF Deploy, NextCall, vars, startupVars

\* The router's own replies are about the switch and the size.
LEMMA RouterReplies ==
    ASSUME NEW call, NEW reply
    PROVE  /\ Routed(call, reply).why = "misconfigured" => reply.why = "misconfigured"
           /\ Routed(call, reply).why = "layer" =>
                  reply.why = "layer" \/ call.size > MaxBodyLimit(Config)
           /\ Routed(call, reply).status = 200 => Routed(call, reply) = reply
           /\ Routed(call, reply).why \notin {"disabled", "layer"} =>
                  Routed(call, reply) = reply
BY DEF Routed, Reply

\* What validate_config is good for, for every configuration: no call and no
\* forward fails for want of a secret or a header, and one that the
\* configuration fails meets a flaw no check looks at: a template that does not
\* render, a name or a value no header may have, a URL that is none.
THEOREM ChecksCoverTheRest == Spec => []OnlyUncheckedSurfaces
<1>1. Init => OnlyUncheckedSurfaces
  BY DEF Init, OnlyUncheckedSurfaces
<1>2. StartupInv /\ OnlyUncheckedSurfaces /\ [Next]_vars => OnlyUncheckedSurfaces'
  <2> SUFFICES ASSUME StartupInv, OnlyUncheckedSurfaces, [Next]_vars
               PROVE  OnlyUncheckedSurfaces'
    OBVIOUS
  <2>0. raw' = raw => Config' = Config
    BY DEF Config
  <2>1. CASE \/ StartupNext /\ Deploy
             \/ NextCall
             \/ UNCHANGED vars
    BY <2>0, <2>1, QuietStep DEF OnlyUncheckedSurfaces, Call
  <2>2. ASSUME NEW call \in Calls, Handle(call) PROVE OnlyUncheckedSurfaces'
    <3>1. Checked /\ raw' = raw /\ answer'.call = call
      BY <2>2, CallGetsReply, ServingIsChecked
    <3>2. answer'.reply.why = "misconfigured" => Flawed(call.channel)
      BY <2>2, <3>1, CallGetsReply, RouterReplies, ReceiveMisconfigured,
         OthersNeverMisconfigured, SignMisconfigured, TestSendMisconfigured,
         RetryMisconfigured
    <3> QED BY <2>0, <3>1, <3>2 DEF OnlyUncheckedSurfaces, Call, Flawed
  <2>3. ASSUME NEW ch \in ChannelsOf(Config), Serving, Forward(ch)
        PROVE  OnlyUncheckedSurfaces'
    <3>1. Checked /\ raw' = raw /\ ch.forward # None
      BY <2>3, ServingIsChecked DEF Forward, startupVars
    <3>2. answer'.call.channel = ch.name
      BY <2>3 DEF Forward
    <3>3. answer'.reply.why = "misconfigured" =>
              BuildRequest(Config, ch, stored) = {} \/ ~CanSend(ch.forward)
      BY <2>3 DEF Forward, Carrying
    <3>4. answer'.reply.why = "misconfigured" => Flawed(ch.name)
      BY <3>1, <3>3, ForwardMisconfigured
    <3> QED BY <2>0, <3>1, <3>2, <3>4 DEF OnlyUncheckedSurfaces, Call, Flawed
  <2> QED BY <2>1, <2>2, <2>3 DEF Next
<1> QED BY <1>1, <1>2, StartupInvHolds, PTL DEF Spec

-----------------------------------------------------------------------------
(* Signatures. *)

LEMMA OneSignature ==
    ASSUME NEW ch, NEW webhook, NEW request \in BuildRequest(Config, ch, webhook),
           ch.forward.sign_header # None
    PROVE  {pair \in request : pair[1] = Lower(ch.forward.sign_header)} =
               {<<Lower(ch.forward.sign_header),
                  RenderSign(ch.forward.sign_template,
                      Mac(OrElse(ch.forward.sign_secret, ch.webhook_secret),
                          webhook.body))>>}
<1> DEFINE name == Lower(ch.forward.sign_header)
           carried == CarriedHeaders(Config, ch.forward, webhook)
<1>a. Lower(name) = name
  BY DEF Lower
<1>b. \A pair \in carried : Lower(pair[1]) # name
  BY DEF CarriedHeaders, IsSignHeader
<1>1. \A pair \in carried : pair[1] # name
  BY <1>a, <1>b
<1>2. request = carried \cup
          {<<name, RenderSign(ch.forward.sign_template,
                Mac(OrElse(ch.forward.sign_secret, ch.webhook_secret), webhook.body))>>}
  BY DEF BuildRequest
<1> QED BY <1>1, <1>2

\* The target finds one signature, the channel's own: whatever the sender sent
\* and however header names are spelled.
THEOREM OneSignatureSent == Spec => []SignedOnce
<1>1. Init => SignedOnce
  BY DEF Init, SignedOnce, Answered
<1>2. SignedOnce /\ [Next]_vars => SignedOnce'
  <2> SUFFICES ASSUME SignedOnce, [Next]_vars PROVE SignedOnce'
    OBVIOUS
  <2>1. CASE \/ StartupNext /\ Deploy
             \/ NextCall
             \/ UNCHANGED vars
    BY <2>1, QuietStep DEF SignedOnce, Answered, Call
  <2>2. ASSUME NEW call \in Calls, Handle(call) PROVE SignedOnce'
    BY <2>2, CallGetsReply DEF SignedOnce, Answered
  <2>3. ASSUME NEW ch \in ChannelsOf(Config), Forward(ch) PROVE SignedOnce'
    <3>1. answer'.call.by = ch /\ answer'.webhook = stored
      BY <2>3 DEF Forward
    <3>2. answer'.reply.why = "ok" =>
              answer'.reply.carries \in BuildRequest(Config, ch, stored)
      BY <2>3 DEF Forward, Carrying, Misconfigured, Reply
    <3> QED BY <3>1, <3>2, OneSignature DEF SignedOnce, Answered, Call
  <2> QED BY <2>1, <2>2, <2>3 DEF Next
<1> QED BY <1>1, <1>2, PTL DEF Spec

\* The manual retry of a webhook builds what the forwarder would build.
LEMMA RetryBuildsForward ==
    ASSUME NEW call, NEW webhook, RetryReply(Config, call, webhook).why = "ok"
    PROVE  RetryReply(Config, call, webhook).carries \in
               BuildRequest(Config, FindChannelByName(Config, call.channel), webhook)
<1> DEFINE ch == FindChannelByName(Config, call.channel)
           carried == CarriedHeaders(Config, ch.forward, webhook)
           signed == RetrySign(ch, webhook.body)
<1> USE DEF Reply, PassedGate, Misconfigured, Carrying
<1>1. /\ RetryReply(Config, call, webhook) = RetryRequest(Config, ch, webhook)
      /\ RetryRequest(Config, ch, webhook).status = 200
  <2>1. Authorize(Config, call) = PassedGate
    BY GateNeverMisconfigured DEF RetryReply
  <2>2. call.storage = "ok"
    BY <2>1 DEF RetryReply, StorageReply
  <2>3. ch # None /\ ch.forward # None
    BY <2>1 DEF RetryReply
  <2>4. ~(webhook = None \/ webhook.channel # call.channel)
    BY <2>1, <2>2, <2>3 DEF RetryReply
  <2>5. RetryReply(Config, call, webhook) = RetryRequest(Config, ch, webhook)
    <3> DEFINE request == RetryRequest(Config, ch, webhook)
               unsent == Misconfigured(200)
    <3>1. RetryReply(Config, call, webhook) =
              IF request.status = 200 /\ ~CanSend(ch.forward) THEN unsent ELSE request
      BY <2>1, <2>2, <2>3, <2>4, Zenon DEF RetryReply
    <3>2. unsent.why # "ok"
      OBVIOUS
    <3> HIDE DEF request, unsent
    <3> QED BY <3>1, <3>2 DEF request
  <2>6. RetryRequest(Config, ch, webhook).why = "ok"
    BY <2>5
  <2>7. RetryRequest(Config, ch, webhook).status = 200
    BY <2>6 DEF RetryRequest, RetrySign
  <2> QED BY <2>5, <2>7
<1>2. CASE ch.forward.sign_header = None
  BY <1>1, <1>2 DEF RetryRequest, BuildRequest
<1>3. CASE ch.forward.sign_header # None
  <2>1. signed.status = 200
    BY <1>1, <1>3 DEF RetryRequest
  <2>2. RetryRequest(Config, ch, webhook).carries =
            carried \cup {<<Lower(ch.forward.sign_header), signed.carries>>}
    BY <1>3, <2>1 DEF RetryRequest
  <2> QED BY <1>1, <1>3, <2>1, <2>2 DEF RetrySign, BuildRequest
<1> QED BY <1>2, <1>3

\* So does a test send, for a webhook without headers of its own.
LEMMA TestSendBuildsForward ==
    ASSUME NEW call, TestSendReply(Config, call).status = 200, call.secret = None
    PROVE  TestSendReply(Config, call).carries \in
               BuildRequest(Config, GrantedChannel(Config, call),
                   [channel |-> call.channel, body |-> call.body, headers |-> <<>>])
<1> DEFINE ch == GrantedChannel(Config, call)
           signed == SignTestPayload(ch, call.secret, call.body)
           webhook == [channel |-> call.channel, body |-> call.body, headers |-> <<>>]
<1> USE DEF Reply, PassedGate, Misconfigured, Carrying
<1>1. CarriedHeaders(Config, ch.forward, webhook) = {}
  BY DEF CarriedHeaders
<1>2. /\ ch.forward.sign_header # None => signed.status = 200
      /\ TestSendReply(Config, call).carries =
             IF ch.forward.sign_header = None THEN {}
             ELSE {<<Lower(ch.forward.sign_header), signed.carries>>}
  BY GateNeverMisconfigured DEF TestSendReply
<1>3. CASE ch.forward.sign_header = None
  BY <1>1, <1>2, <1>3 DEF BuildRequest
<1>4. CASE ch.forward.sign_header # None
  BY <1>1, <1>2, <1>4 DEF SignTestPayload, BuildRequest, OrElse
<1> QED BY <1>3, <1>4

\* A manual retry and a test send reach the target with the request the
\* forwarder would send, for every configuration (RetryContext::build_request).
THEOREM AgentsAgree == Spec => []AgentsSignAlike
<1>1. Init => AgentsSignAlike
  BY DEF Init, AgentsSignAlike, Answered
<1>2. AgentsSignAlike /\ [Next]_vars => AgentsSignAlike'
  <2> SUFFICES ASSUME AgentsSignAlike, [Next]_vars PROVE AgentsSignAlike'
    OBVIOUS
  <2>0. raw' = raw => Config' = Config
    BY DEF Config
  <2>1. CASE \/ StartupNext /\ Deploy
             \/ NextCall
             \/ UNCHANGED vars
    BY <2>0, <2>1, QuietStep DEF AgentsSignAlike, Answered, Call, Channel
  <2>2. ASSUME NEW call \in Calls, Handle(call) PROVE AgentsSignAlike'
    <3>1. Config' = Config /\ answer'.call = call
      BY <2>0, <2>2, CallGetsReply
    <3>2. ASSUME call.route = "retry", answer'.reply.why = "ok"
          PROVE  answer'.reply.carries \in
                     BuildRequest(Config, FindChannelByName(Config, call.channel),
                                  answer'.webhook)
      BY <2>2, <3>2, CallGetsReply, RouterReplies, RetryBuildsForward
    <3>3. ASSUME call.route = "test-send", answer'.reply.status = 200, call.secret = None
          PROVE  answer'.reply.carries \in
                     BuildRequest(Config, GrantedChannel(Config, call),
                         [channel |-> call.channel, body |-> call.body, headers |-> <<>>])
      BY <2>2, <3>3, CallGetsReply, RouterReplies, TestSendBuildsForward
    <3> QED BY <3>1, <3>2, <3>3 DEF AgentsSignAlike, Answered, Call, Channel
  <2>3. ASSUME NEW ch \in ChannelsOf(Config), Forward(ch) PROVE AgentsSignAlike'
    <3>1. answer'.call.route = "forward"
      BY <2>3 DEF Forward
    <3> QED BY <3>1 DEF AgentsSignAlike, Answered
  <2> QED BY <2>1, <2>2, <2>3 DEF Next
<1> QED BY <1>1, <1>2, PTL DEF Spec

-----------------------------------------------------------------------------
(* Limits. *)

LEMMA GreatestOf ==
    ASSUME NEW n \in Nat, NEW S, S \subseteq 0..n, S # {}
    PROVE  \E k \in S : \A j \in S : j <= k
<1> DEFINE T == {n - k : k \in S}
<1>1. T \subseteq Nat /\ T # {}
  <2>1. \A k \in S : n - k \in Nat
    OBVIOUS
  <2>2. PICK k \in S : TRUE
    OBVIOUS
  <2>3. n - k \in T
    BY <2>2
  <2> QED BY <2>1, <2>3
<1>2. PICK t \in T : \A u \in T : t <= u
  BY <1>1, LeastOf
<1>3. PICK k \in S : t = n - k
  OBVIOUS
<1>4. \A j \in S : n - k <= n - j
  BY <1>2, <1>3
<1> QED BY <1>4

\* The limit of the router is no smaller than that of any channel.
LEMMA RouterAdmitsMost ==
    ASSUME StartupInv, Checked, NEW ch \in ChannelsOf(Config)
    PROVE  MaxBodyLimit(Config) \in Nat /\ BodyLimit(Config, ch) \in Nat
           /\ BodyLimit(Config, ch) <= MaxBodyLimit(Config)
<1> DEFINE limits == {Config.default_body_limit}
                        \cup {BodyLimit(Config, c) : c \in ChannelsOf(Config)}
<1>0. MAX_BODY_LIMIT \in Nat /\ DEFAULT_BODY_LIMIT_BYTES \in Nat
  BY SMT DEF MAX_BODY_LIMIT, DEFAULT_BODY_LIMIT_BYTES
<1>1. PICK d \in Deployments : raw = d.raw
  BY DEF StartupInv, Found
<1>2. /\ Config.default_body_limit
              = ParsedOrDefault(raw.DEFAULT_BODY_LIMIT, DEFAULT_BODY_LIMIT_BYTES)
      /\ Config.channels = raw.channels
  BY DEF Config, Load
<1>3. ValidateBodyLimits(Config)
  BY DEF Checked, Sound, Config, ValidateConfig
<1>4. Config.default_body_limit \in 0..MAX_BODY_LIMIT
  <2>1. Config.default_body_limit \in Nat
    BY <1>0, <1>1, <1>2, StartupAssumption DEF ParsedOrDefault
  <2> QED BY <1>0, <1>3, <2>1 DEF ValidateBodyLimits, LimitInRange
<1>5. ASSUME NEW c \in ChannelsOf(Config)
      PROVE  BodyLimit(Config, c) \in 0..MAX_BODY_LIMIT
  <2>1. c.max_body_size # None => c.max_body_size \in Nat
    <3>1. d.raw.channels # None
      BY <1>1 DEF Checked, Sound, CanLoad
    <3>2. c \in ChannelsOf(d.raw)
      BY <1>1, <1>2 DEF ChannelsOf
    <3> QED BY <3>1, <3>2, StartupAssumption
  <2>2. c.max_body_size # None => LimitInRange(c.max_body_size)
    BY <1>3 DEF ValidateBodyLimits
  <2> QED BY <1>0, <1>4, <2>1, <2>2 DEF BodyLimit, OrElse, LimitInRange
<1>6. \E n \in limits : \A m \in limits : m <= n
  <2>1. limits \subseteq 0..MAX_BODY_LIMIT /\ limits # {}
    BY <1>4, <1>5
  <2> HIDE DEF limits
  <2> QED BY <1>0, <2>1, GreatestOf
<1>7. MaxBodyLimit(Config) = CHOOSE n \in limits : \A m \in limits : m <= n
  BY DEF MaxBodyLimit
<1>8. MaxBodyLimit(Config) \in limits /\ \A m \in limits : m <= MaxBodyLimit(Config)
  BY <1>6, <1>7
<1> QED BY <1>4, <1>5, <1>8

\* No gate of the receive route gives the router's reason.
LEMMA GatesNeverSayLayer ==
    ASSUME NEW call
    PROVE  ReceiveReply(call).why # "layer"
<1> DEFINE ch == FindChannelByName(Config, call.channel)
<1> USE DEF Reply, PassedGate, Misconfigured
<1>1. VerifySecret(ch, call).why # "layer"
  BY DEF VerifySecret, VerifyHmacSecret
<1>2. ValidateBody(Config, ch, call).why # "layer"
  BY DEF ValidateBody
<1>3. Admission(Config, call).why # "layer"
  BY <1>1, <1>2 DEF Admission
<1> QED BY <1>3 DEF ReceiveReply, StorageReply

\* The body limit in front of all routes never refuses what the limit of the
\* channel admits, for every configuration (max_body_limit in run_server).
THEOREM LayerNeverStricter == Spec => []LayerLimitAgrees
<1>1. Init => LayerLimitAgrees
  BY DEF Init, LayerLimitAgrees, Answered
<1>2. StartupInv /\ LayerLimitAgrees /\ [Next]_vars => LayerLimitAgrees'
  <2> SUFFICES ASSUME StartupInv, LayerLimitAgrees, [Next]_vars
               PROVE  LayerLimitAgrees'
    OBVIOUS
  <2>0. raw' = raw => Config' = Config
    BY DEF Config
  <2>1. CASE \/ StartupNext /\ Deploy
             \/ NextCall
             \/ UNCHANGED vars
    BY <2>0, <2>1, QuietStep DEF LayerLimitAgrees, Answered, Call, Channel
  <2>2. ASSUME NEW call \in Calls, Handle(call) PROVE LayerLimitAgrees'
    <3>1. /\ Checked /\ Config' = Config /\ answer'.call = call
      BY <2>0, <2>2, CallGetsReply, ServingIsChecked
    <3> DEFINE ch == FindChannelByName(Config, call.channel)
    <3>2. ASSUME call.route = "receive", answer'.reply.why = "layer", ch # None
          PROVE  call.size > BodyLimit(Config, ch)
      <4>1. call.size > MaxBodyLimit(Config)
        BY <2>2, <3>2, CallGetsReply, RouterReplies, GatesNeverSayLayer
      <4>2. ch \in ChannelsOf(Config)
        BY <3>1, <3>2, FoundByName
      <4>3. call.size \in Nat
        BY <3>2, CallsAssumption
      <4> QED BY <3>1, <4>1, <4>2, <4>3, RouterAdmitsMost
    <3> QED BY <3>1, <3>2 DEF LayerLimitAgrees, Answered, Call, Channel
  <2>3. ASSUME NEW ch \in ChannelsOf(Config), Forward(ch) PROVE LayerLimitAgrees'
    <3>1. answer'.call.route = "forward"
      BY <2>3 DEF Forward
    <3> QED BY <3>1 DEF LayerLimitAgrees, Answered
  <2> QED BY <2>1, <2>2, <2>3 DEF Next
<1> QED BY <1>1, <1>2, StartupInvHolds, PTL DEF Spec

-----------------------------------------------------------------------------
(* The last answer.  What the remaining properties say of an answer follows *)
(* from the call and the reply alone, once it is known where it came from.  *)

AnsweredCall ==
    answer # None /\ Call.route # "forward" =>
        /\ Checked /\ Call \in Calls
        /\ Call.route = "receive" => answer.reply = Routed(Call, ReceiveReply(Call))
        /\ Call.route \in {"read", "list", "delete"} =>
               answer.reply = Routed(Call, ReadReply(Call))
        /\ Call.route = "test-send" =>
               answer.reply = Routed(Call, TestSendReply(Config, Call))
        /\ Call.route \in {"queue", "pause", "clear"} =>
               answer.reply = Routed(Call, QueueReply(Config, Call))
        /\ Call.route = "retry" =>
               answer.reply = Routed(Call, RetryReply(Config, Call, answer.webhook))
        /\ Call.route = "sign" => answer.reply = Routed(Call, SignReply(Config, Call))
        /\ Call.route = "config" => answer.reply = Routed(Call, ConfigReply(Config, Call))

\* Every answer is that of its handler, given by a configuration that was checked.
LEMMA AnsweredCallHolds == Spec => []AnsweredCall
<1> USE DEF Call
<1>1. Init => AnsweredCall
  BY DEF Init, AnsweredCall
<1>2. StartupInv /\ AnsweredCall /\ [Next]_vars => AnsweredCall'
  <2> SUFFICES ASSUME StartupInv, AnsweredCall, [Next]_vars PROVE AnsweredCall'
    OBVIOUS
  <2>0. raw' = raw => /\ Config' = Config /\ Checked' = Checked
                      /\ \A call, reply : Routed(call, reply)' = Routed(call, reply)
    BY DEF Config, Checked, Sound, Routed
  <2>1. CASE \/ StartupNext /\ Deploy
             \/ NextCall
             \/ UNCHANGED vars
    BY <2>0, <2>1, QuietStep
       DEF AnsweredCall, ReceiveReply, ReadReply, Routed, Config, Checked, Sound
  <2>2. ASSUME NEW call \in Calls, Handle(call) PROVE AnsweredCall'
    <3>1. Checked /\ raw' = raw /\ answer'.call = call
      BY <2>2, CallGetsReply, ServingIsChecked
    <3> QED BY <2>0, <2>2, <3>1, CallGetsReply
        DEF AnsweredCall, ReceiveReply, ReadReply, Routed
  <2>3. ASSUME NEW ch \in ChannelsOf(Config), Forward(ch) PROVE AnsweredCall'
    <3>1. answer'.call.route = "forward"
      BY <2>3 DEF Forward
    <3> QED BY <3>1 DEF AnsweredCall
  <2> QED BY <2>1, <2>2, <2>3 DEF Next
<1> QED BY <1>1, <1>2, StartupInvHolds, PTL DEF Spec

\* A channel of the running configuration is one of those that may be found.
LEMMA ChannelParts ==
    ASSUME StartupInv, Checked, NEW ch \in ChannelsOf(Config)
    PROVE  \E d \in Deployments : d.raw.channels # None /\ ch \in ChannelsOf(d.raw)
<1>1. PICK d \in Deployments : raw = d.raw
  BY DEF StartupInv, Found
<1>2. d.raw.channels # None
  BY <1>1 DEF Checked, Sound, CanLoad
<1>3. Config.channels = raw.channels
  BY DEF Config, Load
<1>4. ch \in ChannelsOf(d.raw)
  BY <1>1, <1>3 DEF ChannelsOf
<1> QED BY <1>2, <1>4

-----------------------------------------------------------------------------
(* Who is asking. *)

\* A call without its proxy headers keeps everything else.
LEMMA BareCall ==
    ASSUME NEW call \in Calls
    PROVE  LET bare == [call EXCEPT !.forwarded_for = <<>>, !.real_ip = None] IN
           /\ bare.peer = call.peer /\ bare.channel = call.channel
           /\ bare.headers = call.headers /\ bare.body = call.body
           /\ bare.size = call.size /\ bare.content_type = call.content_type
           /\ bare.parses = call.parses
BY CallsAssumption

\* Admission looks at the proxy headers through ClientIp only.
LEMMA SameAdmission ==
    ASSUME NEW one, NEW other,
           ClientIp(Config, one) = ClientIp(Config, other),
           one.channel = other.channel, one.headers = other.headers,
           one.body = other.body, one.size = other.size,
           one.content_type = other.content_type, one.parses = other.parses
    PROVE  Admission(Config, one) = Admission(Config, other)
<1> DEFINE ch == FindChannelByName(Config, one.channel)
<1>1. VerifySecret(ch, one) = VerifySecret(ch, other)
  BY DEF VerifySecret, VerifyHmacSecret
<1>2. ValidateBody(Config, ch, one) = ValidateBody(Config, ch, other)
  BY DEF ValidateBody
<1> QED BY <1>1, <1>2 DEF Admission

\* A client that is no trusted proxy cannot choose the address it is judged by,
\* for every configuration and every call (resolve of client_ip).
THEOREM AddressIsThePeers == Spec => []UntrustedHeadersIgnored
<1>1. AnsweredCall => UntrustedHeadersIgnored
  <2> SUFFICES ASSUME AnsweredCall, answer # None, Call.route = "receive",
                      ~Matches(Config.trusted_proxies, Call.peer)
               PROVE  Admission(Config, Call) = Admission(Config,
                          [Call EXCEPT !.forwarded_for = <<>>, !.real_ip = None])
    BY DEF UntrustedHeadersIgnored, Answered, Call
  <2> DEFINE bare == [Call EXCEPT !.forwarded_for = <<>>, !.real_ip = None]
  <2>1. Call \in Calls
    BY DEF AnsweredCall
  <2>2. /\ bare.peer = Call.peer /\ bare.channel = Call.channel
        /\ bare.headers = Call.headers /\ bare.body = Call.body
        /\ bare.size = Call.size /\ bare.content_type = Call.content_type
        /\ bare.parses = Call.parses
    BY <2>1, BareCall
  <2> HIDE DEF bare
  <2>3. ClientIp(Config, Call) = Call.peer /\ ClientIp(Config, bare) = Call.peer
    BY <2>2 DEF ClientIp
  <2>4. Admission(Config, Call) = Admission(Config, bare)
    BY <2>2, <2>3, SameAdmission
  <2> QED BY <2>4 DEF bare
<1> QED BY <1>1, AnsweredCallHolds, PTL

LEMMA UnknownTokenFindsNone ==
    ASSUME NEW bearer, \A ch \in ChannelsOf(Config) : ch.api_read_token # bearer
    PROVE  FindChannelByToken(Config, bearer) = None
BY DEF FindChannelByToken, FirstOf, ChannelsOf

\* Where a token is asked for, the call that shows none gets no further.
LEMMA StrangerIsTurnedAway ==
    ASSUME NEW call, NEW webhook, Authorize(Config, call) = Reply(401, "token")
    PROVE  /\ ReadReply(call).why = "token"
           /\ QueueReply(Config, call).why = "token"
           /\ SignReply(Config, call).why = "token"
           /\ RetryReply(Config, call, webhook).why = "token"
           /\ TestSendReply(Config, call).why \in {"content type", "json", "token"}
<1>1. Reply(401, "token") # PassedGate /\ Reply(401, "token").why = "token"
  BY DEF Reply, PassedGate
<1>2. ReadReply(call).why = "token" /\ QueueReply(Config, call).why = "token"
  BY <1>1 DEF ReadReply, QueueReply
<1>3. SignReply(Config, call).why = "token"
  BY <1>1 DEF SignReply
<1>4. RetryReply(Config, call, webhook).why = "token"
  BY <1>1 DEF RetryReply
<1>5. TestSendReply(Config, call).why \in {"content type", "json", "token"}
  BY <1>1 DEF TestSendReply, Reply
<1> QED BY <1>2, <1>3, <1>4, <1>5

\* On the routes that ask for a token, a caller without one is turned away before
\* the channel's name decides anything, for every configuration and every call.
THEOREM StrangersLearnNoName == Spec => []StrangerSeesNoChannel
<1>1. AnsweredCall => StrangerSeesNoChannel
  <2> SUFFICES ASSUME AnsweredCall, answer # None, Call.route \in TokenRoutes,
                      Call.bearer \notin {ch.api_read_token : ch \in ChannelsOf(Config)}
                                            \cup {Config.ui_access_token}
               PROVE  /\ answer.reply.why \in
                             {"disabled", "layer", "content type", "json", "token"}
                      /\ \A other \in Calls : Authorize(Config, Call) =
                             Authorize(Config, [Call EXCEPT !.channel = other.channel])
    BY DEF StrangerSeesNoChannel, Call
  <2>1. Call \in Calls
    BY DEF AnsweredCall, TokenRoutes
  <2>2. FindChannelByToken(Config, Call.bearer) = None
    BY UnknownTokenFindsNone
  <2>3. ~IsUiToken(Config, Call.bearer)
    BY DEF IsUiToken
  <2>4. ASSUME NEW call, call.bearer = Call.bearer
        PROVE  Authorize(Config, call) = Reply(401, "token")
    BY <2>2, <2>3, <2>4 DEF Authorize
  <2>5. ASSUME NEW other \in Calls
        PROVE  Authorize(Config, Call) =
                   Authorize(Config, [Call EXCEPT !.channel = other.channel])
    <3> DEFINE renamed == [Call EXCEPT !.channel = other.channel]
    <3>1. renamed.bearer = Call.bearer
      BY <2>1, CallsAssumption
    <3> HIDE DEF renamed
    <3>2. Authorize(Config, Call) = Authorize(Config, renamed)
      BY <2>4, <3>1
    <3> QED BY <3>2 DEF renamed
  <2>6. PICK reply : /\ answer.reply = Routed(Call, reply)
                     /\ reply.why \in {"content type", "json", "token"}
    <3>1. Authorize(Config, Call) = Reply(401, "token")
      BY <2>4
    <3> DEFINE webhook == answer.webhook
               Ends(r) == answer.reply = Routed(Call, r)
                              /\ r.why \in {"content type", "json", "token"}
    <3>2. CASE Call.route \in {"read", "list", "delete"}
      <4>1. Ends(ReadReply(Call))
        BY <3>1, <3>2, StrangerIsTurnedAway DEF AnsweredCall
      <4> QED BY <4>1
    <3>3. CASE Call.route \in {"queue", "pause", "clear"}
      <4>1. Ends(QueueReply(Config, Call))
        BY <3>1, <3>3, StrangerIsTurnedAway DEF AnsweredCall
      <4> QED BY <4>1
    <3>4. CASE Call.route = "sign"
      <4>1. Ends(SignReply(Config, Call))
        BY <3>1, <3>4, StrangerIsTurnedAway DEF AnsweredCall
      <4> QED BY <4>1
    <3>5. CASE Call.route = "test-send"
      <4>1. Ends(TestSendReply(Config, Call))
        BY <3>1, <3>5, StrangerIsTurnedAway DEF AnsweredCall
      <4> QED BY <4>1
    <3>6. CASE Call.route = "retry"
      <4>1. Ends(RetryReply(Config, Call, webhook))
        BY <3>1, <3>6, StrangerIsTurnedAway DEF AnsweredCall
      <4> QED BY <4>1
    <3> HIDE DEF Ends
    <3> QED BY <3>2, <3>3, <3>4, <3>5, <3>6 DEF TokenRoutes
  <2>7. answer.reply.why \in {"disabled", "layer", "content type", "json", "token"}
    <3>1. \/ answer.reply.why \in {"disabled", "layer"}
          \/ answer.reply = reply
      BY <2>6, RouterReplies
    <3> QED BY <2>6, <3>1
  <2> QED BY <2>5, <2>7
<1> QED BY <1>1, AnsweredCallHolds, PTL

-----------------------------------------------------------------------------
(* Admission. *)

\* What an assumption on the channels of every file says of the running ones.
LEMMA NoneIsNoText ==
    ASSUME StartupInv, Checked, NEW ch \in ChannelsOf(Config), NEW call \in Calls
    PROVE  /\ [form |-> "plain", content |-> ch.webhook_secret] # None
           /\ Mac(ch.webhook_secret, call.body) # None
           /\ RenderSign(ch.secret_sign_template, Mac(ch.webhook_secret, call.body)) # None
BY ChannelParts, ChannelsAssumption

\* A channel that has a secret lets no call pass without that secret, or its
\* signature of the body, in the header of the channel.
LEMMA SecretIsShown ==
    ASSUME StartupInv, Checked, NEW ch \in ChannelsOf(Config), NEW call \in Calls,
           ch.webhook_secret # None, ch.secret_header # None,
           VerifySecret(ch, call) = PassedGate
    PROVE  \E h \in DOMAIN call.headers :
               /\ h = Lower(ch.secret_header)
               /\ call.headers[h].content \in
                      {ch.webhook_secret, Mac(ch.webhook_secret, call.body)}
<1> DEFINE text == Lookup(call.headers, ch.secret_header)
           mac == Mac(ch.webhook_secret, call.body)
           plain == [form |-> "plain", content |-> ch.webhook_secret]
<1>0. plain # None /\ mac # None
  BY NoneIsNoText
<1> USE DEF Reply, PassedGate, Misconfigured
<1>1. CASE ch.secret_type = "hmac-sha256"
  <2>1. text # None /\ RenderExtract(ch.secret_extract_template, text) = mac
    BY <1>1 DEF VerifySecret, VerifyHmacSecret
  <2>2. text.content = mac
    BY <1>0, <2>1 DEF RenderExtract
  <2> QED BY <2>1, <2>2 DEF Lookup
<1>2. CASE ch.secret_type # "hmac-sha256"
  <2>1. text = plain
    BY <1>2 DEF VerifySecret
  <2>2. text.content = ch.webhook_secret
    BY <2>1
  <2> QED BY <1>0, <2>1, <2>2 DEF Lookup
<1> QED BY <1>1, <1>2

\* The body a channel takes is small enough and parses.
LEMMA BodyIsTaken ==
    ASSUME StartupInv, Checked, NEW ch \in ChannelsOf(Config), NEW call \in Calls,
           ValidateBody(Config, ch, call) = PassedGate
    PROVE  call.parses /\ call.size <= BodyLimit(Config, ch)
<1>1. ~(call.size > BodyLimit(Config, ch)) /\ call.parses
  BY DEF ValidateBody, Reply, PassedGate
<1>2. call.size \in Nat /\ BodyLimit(Config, ch) \in Nat
  BY CallsAssumption, RouterAdmitsMost
<1> QED BY <1>1, <1>2

\* Only what meets every condition of its channel is stored, for every
\* configuration and every call (receive_webhook).
THEOREM OnlyAdmittedIsStored == Spec => []StoredMeansAdmitted
<1>1. StartupInv /\ AnsweredCall => StoredMeansAdmitted
  <2> SUFFICES ASSUME StartupInv, AnsweredCall, answer # None,
                      Call.route = "receive", answer.reply.why = "stored"
               PROVE  StoredMeansAdmitted
    BY DEF StoredMeansAdmitted, Answered, Call
  <2> USE DEF Reply, PassedGate
  <2>1. Checked /\ Call \in Calls
    BY DEF AnsweredCall
  <2>2. answer.reply = Routed(Call, ReceiveReply(Call))
    BY DEF AnsweredCall
  <2>3. ReceiveReply(Call).why = "stored"
    BY <2>2 DEF Routed
  <2>4. Admission(Config, Call) = PassedGate
    <3>1. Admission(Config, Call).why # "stored"
      BY DEF Admission, VerifySecret, VerifyHmacSecret, ValidateBody, Misconfigured
    <3> QED BY <2>3, <3>1 DEF ReceiveReply
  <2>5. Channel # None /\ IsIpAllowed(Channel, ClientIp(Config, Call))
    BY <2>4 DEF Admission, Channel
  <2>6. /\ VerifySecret(Channel, Call) = PassedGate
        /\ ValidateBody(Config, Channel, Call) = PassedGate
    BY <2>4, <2>5 DEF Admission, Channel
  <2>7. Channel \in ChannelsOf(Config)
    BY <2>1, <2>5, FoundByName DEF Channel
  <2>8. Call.parses /\ Call.size <= BodyLimit(Config, Channel)
    BY <2>1, <2>6, <2>7, BodyIsTaken
  <2>9. Channel.allowed_ips # None =>
            Matches(Channel.allowed_ips, ClientIp(Config, Call))
    BY <2>5 DEF IsIpAllowed
  <2>10. Channel.webhook_secret # None /\ Channel.secret_header # None =>
             \E h \in DOMAIN Call.headers :
                 /\ h = Lower(Channel.secret_header)
                 /\ Call.headers[h].content \in
                        {Channel.webhook_secret, Mac(Channel.webhook_secret, Call.body)}
    BY <2>1, <2>6, <2>7, SecretIsShown
  <2> QED BY <2>8, <2>9, <2>10 DEF StoredMeansAdmitted
<1> QED BY <1>1, StartupInvHolds, AnsweredCallHolds, PTL

-----------------------------------------------------------------------------
(* What a sender would send. *)

\* A channel that verifies signatures has a secret and a header to read from.
LEMMA SignerIsComplete ==
    ASSUME Checked, NEW ch \in ChannelsOf(Config), ch.secret_type = "hmac-sha256"
    PROVE  ch.webhook_secret # None /\ ch.secret_header # None
<1>1. ValidateChannelSecret(ch)
  BY DEF Checked, Sound, Config, ValidateConfig, ValidateTemplates
<1> QED BY <1>1 DEF ValidateChannelSecret

\* A successful answer of /sign carries the header and the signature.
LEMMA SignCarries ==
    ASSUME Checked, NEW call, SignReply(Config, call).status = 200
    PROVE  /\ GrantedChannel(Config, call) \in ChannelsOf(Config)
           /\ GrantedChannel(Config, call).secret_type = "hmac-sha256"
           /\ SignReply(Config, call).carries =
                  <<GrantedChannel(Config, call).secret_header,
                    RenderSign(GrantedChannel(Config, call).secret_sign_template,
                        Mac(GrantedChannel(Config, call).webhook_secret, call.body))>>
<1> DEFINE ch == GrantedChannel(Config, call)
           mac == Mac(OrElse(ch.webhook_secret, "empty"), call.body)
           signed == <<OrElse(ch.secret_header, "no header"),
                       RenderSign(ch.secret_sign_template, mac)>>
<1>1. Authorize(Config, call) = PassedGate
  BY GateNeverMisconfigured DEF SignReply
<1>2. ch \in ChannelsOf(Config)
  BY <1>1, GrantedHasName
<1> DEFINE refused == Reply(400, "secret type")
           broken == Misconfigured(500)
           granted == Carrying(200, signed)
<1>3. SignReply(Config, call) =
          IF ch.secret_type # "hmac-sha256" THEN refused
          ELSE IF ~Renders(ch.secret_sign_template) THEN broken
          ELSE granted
  BY <1>1 DEF SignReply
<1>4. refused.status = 400 /\ broken.status = 500 /\ granted.carries = signed
  BY DEF Reply, Misconfigured, Carrying
<1> HIDE DEF signed, refused, broken, granted
<1>5. ch.secret_type = "hmac-sha256" /\ SignReply(Config, call).carries = signed
  BY <1>3, <1>4
<1> QED BY <1>2, <1>5, SignerIsComplete DEF OrElse, signed

\* What /sign computes, the receive route of the same channel accepts, for every
\* configuration whose two templates undo each other (sign_webhook).
THEOREM SignatureComesBack == Spec => []SignedIsAccepted
<1>1. StartupInv /\ AnsweredCall => SignedIsAccepted
  <2> DEFINE ch == GrantedChannel(Config, Call)
             header == answer.reply.carries[1]
             value == answer.reply.carries[2]
             sent == [Call EXCEPT !.headers = [h \in {Lower(header)} |-> value]]
             mac == Mac(ch.webhook_secret, Call.body)
  <2> SUFFICES ASSUME StartupInv, AnsweredCall, answer # None,
                      Call.route = "sign", answer.reply.status = 200,
                      IsHeaderName(header), IsHeaderValue(ch.secret_sign_template),
                      Renders(ch.secret_extract_template),
                      FormOf(ch.secret_extract_template) = FormOf(ch.secret_sign_template)
               PROVE  VerifySecret(ch, sent) = PassedGate
    BY DEF SignedIsAccepted, Answered, Call
  <2>1. Checked /\ Call \in Calls /\ answer.reply = Routed(Call, SignReply(Config, Call))
    BY DEF AnsweredCall
  <2>2. answer.reply = SignReply(Config, Call)
    BY <2>1, RouterReplies
  <2>3. /\ ch \in ChannelsOf(Config) /\ ch.secret_type = "hmac-sha256"
        /\ answer.reply.carries =
               <<ch.secret_header, RenderSign(ch.secret_sign_template, mac)>>
    BY <2>1, <2>2, SignCarries
  <2>6. ch.webhook_secret # None /\ ch.secret_header # None
    BY <2>1, <2>3, SignerIsComplete
  <2>7. header = ch.secret_header /\ value = RenderSign(ch.secret_sign_template, mac)
    BY <2>3
  <2>8. value # None
    BY <2>1, <2>3, <2>7, NoneIsNoText
  <2>9. sent.headers = [h \in {Lower(header)} |-> value] /\ sent.body = Call.body
    BY <2>1, CallsAssumption
  <2> HIDE DEF sent, header, value
  <2>10. Lookup(sent.headers, ch.secret_header) = value
    BY <2>7, <2>9 DEF Lookup
  <2>11. RenderExtract(ch.secret_extract_template, value) = mac
    BY <2>7 DEF RenderExtract, RenderSign
  <2>12. VerifyHmacSecret(ch, sent) = PassedGate
    BY <2>8, <2>9, <2>10, <2>11 DEF VerifyHmacSecret
  <2>13. IsHeaderName(ch.secret_header)
    BY <2>7
  <2> QED BY <2>3, <2>6, <2>12, <2>13 DEF VerifySecret
<1> QED BY <1>1, StartupInvHolds, AnsweredCallHolds, PTL

-----------------------------------------------------------------------------
(* What the configuration route shows. *)

\* A channel with other secrets has the same parts otherwise, and a secret where
\* it had one.
LEMMA OtherSecrets ==
    ASSUME StartupInv, Checked, NEW ch \in ChannelsOf(Config),
           NEW w, w = WithSecrets(ch, "other")
    PROVE  /\ w.name = ch.name /\ w.secret_type = ch.secret_type
           /\ w.secret_header = ch.secret_header /\ w.max_body_size = ch.max_body_size
           /\ w.allowed_ips = ch.allowed_ips
           /\ (w.webhook_secret # None) = (ch.webhook_secret # None)
           /\ (w.forward # None) = (ch.forward # None)
           /\ ch.forward # None =>
                  /\ w.forward.sign_header = ch.forward.sign_header
                  /\ w.forward.interval_seconds = ch.forward.interval_seconds
                  /\ w.forward.backoff = ch.forward.backoff
                  /\ (w.forward.sign_secret # None) = (ch.forward.sign_secret # None)
<1>1. PICK d \in Deployments : d.raw.channels # None /\ ch \in ChannelsOf(d.raw)
  BY ChannelParts
<1>2. {"name", "api_read_token", "webhook_secret", "secret_type", "secret_header",
       "forward", "max_body_size", "allowed_ips"} \subseteq DOMAIN ch
  BY <1>1, ChannelsAssumption
<1>3. "other" # None
  BY <1>1, ChannelsAssumption
<1> DEFINE Replaced(secret) == IF secret = None THEN None ELSE "other"
           forward == IF ch.forward = None THEN None
                      ELSE [ch.forward EXCEPT !.sign_secret = Replaced(ch.forward.sign_secret)]
<1>4. w = [ch EXCEPT !.api_read_token = "other",
                     !.webhook_secret = Replaced(ch.webhook_secret),
                     !.forward = forward]
  BY DEF WithSecrets
<1>5. CASE ch.forward # None
  <2>1. /\ {"interval_seconds", "sign_header", "sign_secret", "backoff"}
                \subseteq DOMAIN ch.forward
        /\ forward # None
    BY <1>1, <1>5, ChannelsAssumption
  <2>2. /\ forward.sign_header = ch.forward.sign_header
        /\ forward.interval_seconds = ch.forward.interval_seconds
        /\ forward.backoff = ch.forward.backoff
        /\ forward.sign_secret = Replaced(ch.forward.sign_secret)
    BY <1>5, <2>1
  <2> HIDE DEF forward
  <2>3. /\ w.name = ch.name /\ w.secret_type = ch.secret_type
        /\ w.secret_header = ch.secret_header /\ w.max_body_size = ch.max_body_size
        /\ w.allowed_ips = ch.allowed_ips
        /\ w.webhook_secret = Replaced(ch.webhook_secret)
        /\ w.forward = forward
    BY <1>2, <1>4
  <2> QED BY <1>3, <1>5, <2>1, <2>2, <2>3
<1>6. CASE ch.forward = None
  <2>1. forward = None
    BY <1>6
  <2> HIDE DEF forward
  <2>2. /\ w.name = ch.name /\ w.secret_type = ch.secret_type
        /\ w.secret_header = ch.secret_header /\ w.max_body_size = ch.max_body_size
        /\ w.allowed_ips = ch.allowed_ips
        /\ w.webhook_secret = Replaced(ch.webhook_secret)
        /\ w.forward = forward
    BY <1>2, <1>4
  <2> QED BY <1>3, <1>6, <2>1, <2>2
<1> QED BY <1>5, <1>6

\* So the page is told the same of it.
LEMMA SamePublicChannel ==
    ASSUME StartupInv, Checked, NEW ch \in ChannelsOf(Config),
           NEW other, other.default_body_limit = Config.default_body_limit,
           other.forward_backoff = Config.forward_backoff
    PROVE  PublicChannel(other, WithSecrets(ch, "other")) = PublicChannel(Config, ch)
<1> DEFINE w == WithSecrets(ch, "other")
<1>1. /\ w.name = ch.name /\ w.secret_type = ch.secret_type
      /\ w.secret_header = ch.secret_header /\ w.max_body_size = ch.max_body_size
      /\ w.allowed_ips = ch.allowed_ips
      /\ (w.webhook_secret # None) = (ch.webhook_secret # None)
      /\ (w.forward # None) = (ch.forward # None)
      /\ ch.forward # None =>
             /\ w.forward.sign_header = ch.forward.sign_header
             /\ w.forward.interval_seconds = ch.forward.interval_seconds
             /\ w.forward.backoff = ch.forward.backoff
             /\ (w.forward.sign_secret # None) = (ch.forward.sign_secret # None)
  BY OtherSecrets
<1> HIDE DEF w
<1>2. BodyLimit(other, w) = BodyLimit(Config, ch)
  BY <1>1 DEF BodyLimit
<1>3. ch.forward # None => ResolveBackoff(w.forward, other.forward_backoff)
                               = ResolveBackoff(ch.forward, Config.forward_backoff)
  BY <1>1 DEF ResolveBackoff
<1>4. PublicChannel(other, w) = PublicChannel(Config, ch)
  BY <1>1, <1>2, <1>3 DEF PublicChannel
<1> QED BY <1>4 DEF w

\* GET /api/config answers the same whatever the secrets are, for every
\* configuration ("Secrets never appear here", ChannelConfigDto).
THEOREM SecretsNeverShown == Spec => []SecretsStayServerSide
<1>1. StartupInv /\ AnsweredCall => SecretsStayServerSide
  <2> DEFINE replaced == [k \in DOMAIN Config.channels |->
                             WithSecrets(Config.channels[k], "other")]
             other == [Config EXCEPT !.channels = replaced]
  <2> SUFFICES ASSUME StartupInv, AnsweredCall, answer # None,
                      Call.route = "config", answer.reply.status = 200
               PROVE  answer.reply.carries = Public(other)
    BY DEF SecretsStayServerSide, Answered, Call
  <2>1. Checked /\ answer.reply = Routed(Call, ConfigReply(Config, Call))
    BY DEF AnsweredCall
  <2>2. answer.reply = ConfigReply(Config, Call)
    BY <2>1, RouterReplies
  <2>3. answer.reply.carries = Public(Config)
    BY <2>2 DEF ConfigReply, Reply, Carrying
  <2>4. /\ other.channels = replaced
        /\ other.default_body_limit = Config.default_body_limit
        /\ other.forward_backoff = Config.forward_backoff
    BY DEF Config, Load
  <2> HIDE DEF other
  <2>5. ASSUME NEW k \in DOMAIN Config.channels
        PROVE  PublicChannel(other, replaced[k])
                   = PublicChannel(Config, Config.channels[k])
    BY <2>1, <2>4, SamePublicChannel DEF ChannelsOf
  <2> QED BY <2>3, <2>4, <2>5 DEF Public
<1> QED BY <1>1, StartupInvHolds, AnsweredCallHolds, PTL
=============================================================================
