------------------------------ MODULE ChatDelivery ------------------------------
(***************************************************************************)
(* How one message gets to the chat services of a process: which services  *)
(* a deployment has, which of them have a destination, and what each one   *)
(* does with a destination that fails.  A local runtime posts by webhook   *)
(* or by its bot, and may have a Matrix room; the hub has the bot and the  *)
(* routes of a telescope.  Discord and the homeserver answer as they like, *)
(* and a post may arrive although its answer is an error or is lost.       *)
(***************************************************************************)
EXTENDS Naturals, Sequences, SequencesExt, FiniteSets

CONSTANTS
  BotChannels,      \* Discord channels
  MaxSendAttempts,  \* MAX_SEND_ATTEMPTS
  MaxTries,         \* THUMBNAIL_READY_MAX_ATTEMPTS
  Absent

ASSUME DeliveryAssumption ==
  /\ IsFiniteSet(BotChannels) /\ BotChannels \cap {"hook", "room"} = {}
  /\ MaxSendAttempts \in Nat \ {0} /\ MaxTries \in Nat \ {0}

\* What a webhook URL is like.
WebhookUrls == [host : {"discord.com", "canary.discord.com", "example.com"}, versioned : BOOLEAN]

\* is_valid_discord_webhook_url admits subdomains and versions of the API ...
IsValidUrl(url) == url.host # "example.com"

\* ... and DiscordWebhook::new two prefixes.
CanPost(url) == url.host = "discord.com" /\ ~url.versioned

\* A room may have been left, or its name may be none at all.
RoomIds == {"joined", "left", "malformed"}

\* PluginRuntimeBootstrap: a delivery and a room, or the hub's bot.
Bootstraps ==
  {b \in [hub : {FALSE}, hook : WebhookUrls \cup {Absent}, room : RoomIds \cup {Absent},
          channels : {<<>>} \cup {<<c>> : c \in BotChannels}] : b.hook = Absent \/ b.channels = <<>>}
HubDeployments ==
  [hub : {TRUE}, hook : {Absent}, room : {Absent},
   channels : {<<>>} \cup {<<c>> : c \in BotChannels} \cup {SetToSeq(BotChannels)}]

\* validate
Acceptable(d) ==
  d.hub \/ ((d.hook # Absent \/ d.channels # <<>> \/ d.room # Absent)
            /\ (d.hook # Absent => IsValidUrl(d.hook)))

\* build_shared_chat_manager: what is added to the manager, in this order.
ServicesOf(d) ==
  (IF d.hook # Absent THEN <<"webhook">> ELSE <<>>)
    \o (IF d.room # Absent THEN <<"matrix">> ELSE <<>>)
    \o (IF d.hub \/ d.channels # <<>> THEN <<"bot">> ELSE <<>>)

Destinations == {"hook", "room"} \cup BotChannels

VARIABLES
  deployment,
  services,   \* ChatServiceManager.services
  stage,      \* "down", "idle", "thumbnail", "services", "webhook", "matrix", "bot"
  aim,        \* the channels of the ChatTarget
  files,      \* attachments of the message
  tries,      \* attempts at the thumbnail, or at the webhook
  waiting,    \* services that are still to be asked
  remaining,  \* what the current service has left: channels, or parts for the room
  delivered,  \* the bot has reached a channel
  routed, successful,
  arrived,    \* history: what came of this message, [Destinations -> [text, file]]
  unsure,     \* history: how often it came although its sender was not told
  broken      \* history: the destinations that failed

messageVars == <<aim, files, tries, waiting, remaining, delivered, routed, successful>>
arrivalVars == <<arrived, unsure, broken>>
chatDeliveryVars == <<deployment, services, stage, messageVars, arrivalVars>>

Stages == {"down", "idle", "thumbnail", "services", "webhook", "matrix", "bot"}

ChatDeliveryTypeOK ==
  /\ deployment \in Bootstraps \cup HubDeployments
  /\ stage \in Stages /\ files \in 0..2 /\ tries \in 0..MaxTries \cup 0..MaxSendAttempts
  /\ arrived \in [Destinations -> [text : Nat, file : Nat]]
  /\ broken \subseteq Destinations

Fresh(channels) ==
  /\ aim' = channels /\ tries' = 1 /\ remaining' = <<>> /\ delivered' = FALSE
  /\ routed' = FALSE /\ successful' = TRUE
  /\ arrived' = [d \in Destinations |-> [text |-> 0, file |-> 0]]
  /\ unsure' = [d \in Destinations |-> 0] /\ broken' = {}

ChatDeliveryInit ==
  /\ deployment \in {d \in Bootstraps \cup HubDeployments : Acceptable(d)}
  /\ services = <<>> /\ stage = "down"
  /\ aim = <<>> /\ files = 0 /\ tries = 0 /\ waiting = <<>> /\ remaining = <<>>
  /\ delivered = FALSE /\ routed = FALSE /\ successful = TRUE
  /\ arrived = [d \in Destinations |-> [text |-> 0, file |-> 0]]
  /\ unsure = [d \in Destinations |-> 0] /\ broken = {}

\* run_cli_with_sources: a room that is none ends the runtime before it begins.
StartServices ==
  /\ stage = "down" /\ deployment.room # "malformed"
  /\ stage' = "idle" /\ services' = ServicesOf(deployment)
  /\ UNCHANGED <<deployment, messageVars, arrivalVars>>

\* The targets of an updater: everything, or for autofocus at the hub one channel.
Targets ==
  {deployment.channels}
    \cup (IF deployment.hub THEN {<<c>> : c \in Range(deployment.channels)} ELSE {})

\* send_message, send_message_with_attachments and the checked one.
SendMessage(channels, count) ==
  /\ stage = "idle" /\ stage' = "services"
  /\ Fresh(channels) /\ files' = count /\ waiting' = services
  /\ UNCHANGED <<deployment, services>>

\* send_message_with_image, with or without a chart.
SendMessageWithImage(channels, count) ==
  /\ stage = "idle" /\ stage' = "thumbnail"
  /\ Fresh(channels) /\ files' = count /\ waiting' = services
  /\ UNCHANGED <<deployment, services>>

\* The rig is still preparing the thumbnail: a bounded number of tries.
ThumbnailNotReady ==
  /\ stage = "thumbnail" /\ tries < MaxTries
  /\ tries' = tries + 1
  /\ UNCHANGED <<deployment, services, stage, aim, files, waiting, remaining, delivered, routed,
                 successful, arrivalVars>>

\* It is there; or it could not be had, and the rest goes out without it.
ThumbnailDone ==
  /\ stage = "thumbnail" /\ stage' = "services"
  /\ files' \in {files, files + 1} /\ tries' = 1
  /\ UNCHANGED <<deployment, services, aim, waiting, remaining, delivered, routed, successful,
                 arrivalVars>>

\* can_route
CanRoute(service, channels) ==
  CASE service = "webhook" -> channels = <<>> /\ deployment.hook # Absent
    [] service = "matrix" -> deployment.room # Absent
    [] service = "bot" -> channels # <<>> \/ (~deployment.hub /\ deployment.channels # <<>>)

\* resolve_channels; a local runtime's target is its default channel too.
BotDestinations(channels) == IF channels = <<>> THEN deployment.channels ELSE channels

SkipService ==
  /\ stage = "services" /\ waiting # <<>> /\ ~CanRoute(Head(waiting), aim)
  /\ waiting' = Tail(waiting)
  /\ UNCHANGED <<deployment, services, stage, aim, files, tries, remaining, delivered, routed,
                 successful, arrivalVars>>

\* build_webhook and get_room fail before anything is sent.
Unusable(service) ==
  \/ service = "webhook" /\ ~CanPost(deployment.hook)
  \/ service = "matrix" /\ deployment.room = "left"

RefuseAtOnce ==
  /\ stage = "services" /\ waiting # <<>>
  /\ CanRoute(Head(waiting), aim) /\ Unusable(Head(waiting))
  /\ waiting' = Tail(waiting) /\ routed' = TRUE /\ successful' = FALSE
  /\ broken' = broken \cup {IF Head(waiting) = "webhook" THEN "hook" ELSE "room"}
  /\ UNCHANGED <<deployment, services, stage, aim, files, tries, remaining, delivered, arrived, unsure>>

\* The room gets the text and then one attachment after the other.
RoomParts == <<"text">> \o [i \in 1..files |-> "file"]

AskService ==
  /\ stage = "services" /\ waiting # <<>>
  /\ CanRoute(Head(waiting), aim) /\ ~Unusable(Head(waiting))
  /\ stage' = Head(waiting) /\ routed' = TRUE /\ delivered' = FALSE /\ tries' = 1
  /\ remaining' = CASE Head(waiting) = "matrix" -> RoomParts
                    [] Head(waiting) = "bot" -> BotDestinations(aim)
                    [] OTHER -> <<>>
  /\ UNCHANGED <<deployment, services, aim, files, waiting, successful, arrivalVars>>

EndOfMessage ==
  /\ stage = "services" /\ waiting = <<>> /\ stage' = "idle"
  /\ UNCHANGED <<deployment, services, messageVars, arrivalVars>>

\* The manager goes on to the next service, whatever became of this one.
NextService(ok) ==
  /\ stage' = "services" /\ waiting' = Tail(waiting) /\ successful' = (successful /\ ok)
  /\ remaining' = <<>>

\* What is posted in one request comes as a whole.
Whole == [text |-> 1, file |-> files]
Part(part) == IF part = "text" THEN [text |-> 1, file |-> 0] ELSE [text |-> 0, file |-> 1]
Plus(a, b) == [text |-> a.text + b.text, file |-> a.file + b.file]
Arrives(d, what) == arrived' = [arrived EXCEPT ![d] = Plus(@, what)] /\ UNCHANGED unsure
ArrivesUnsaid(d, what) ==
  arrived' = [arrived EXCEPT ![d] = Plus(@, what)] /\ unsure' = [unsure EXCEPT ![d] = @ + 1]
MayArrive(d, what) == ArrivesUnsaid(d, what) \/ UNCHANGED <<arrived, unsure>>

\* send_with_retry
WebhookTakes ==
  /\ stage = "webhook" /\ Arrives("hook", Whole) /\ NextService(TRUE)
  /\ UNCHANGED <<deployment, services, aim, files, tries, delivered, routed, broken>>

WebhookBusy(again) ==
  /\ stage = "webhook" /\ tries < MaxSendAttempts /\ tries' = tries + 1
  /\ IF again THEN MayArrive("hook", Whole) ELSE UNCHANGED <<arrived, unsure>>
  /\ UNCHANGED <<deployment, services, stage, aim, files, waiting, remaining, delivered, routed,
                 successful, broken>>

\* Any other status, the last attempt, or no answer at all.
WebhookFails ==
  /\ stage = "webhook" /\ MayArrive("hook", Whole) /\ NextService(FALSE)
  /\ broken' = broken \cup {"hook"}
  /\ UNCHANGED <<deployment, services, aim, files, tries, delivered, routed>>

RoomTakes ==
  /\ stage = "matrix" /\ Arrives("room", Part(Head(remaining)))
  /\ IF Len(remaining) = 1 THEN NextService(TRUE)
     ELSE remaining' = Tail(remaining) /\ UNCHANGED <<stage, waiting, successful>>
  /\ UNCHANGED <<deployment, services, aim, files, tries, delivered, routed, broken>>

\* The rest of the message is not sent.
RoomFails ==
  /\ stage = "matrix" /\ MayArrive("room", Part(Head(remaining))) /\ NextService(FALSE)
  /\ broken' = broken \cup {"room"}
  /\ UNCHANGED <<deployment, services, aim, files, tries, delivered, routed>>

\* Mutant: the first channel that fails ends the fan-out.
StopsAtFailure(took) == took /\ Len(remaining) > 1

\* fan_out goes through all the channels.
GoesOn(took) == Len(remaining) > 1

\* It fails when no channel took the message.
FanOut(took) ==
  /\ delivered' = (delivered \/ took)
  /\ IF GoesOn(took) THEN remaining' = Tail(remaining) /\ UNCHANGED <<stage, waiting, successful>>
     ELSE NextService(delivered \/ took)

ChannelTakes ==
  /\ stage = "bot" /\ Arrives(Head(remaining), Whole) /\ FanOut(TRUE)
  /\ UNCHANGED <<deployment, services, aim, files, tries, routed, broken>>

ChannelFails ==
  /\ stage = "bot" /\ MayArrive(Head(remaining), Whole) /\ FanOut(FALSE)
  /\ broken' = broken \cup {Head(remaining)}
  /\ UNCHANGED <<deployment, services, aim, files, tries, routed>>

ChatDeliveryNext ==
  \/ StartServices
  \/ \E t \in Targets, count \in 0..1 : SendMessage(t, count) \/ SendMessageWithImage(t, count)
  \/ ThumbnailNotReady \/ ThumbnailDone
  \/ SkipService \/ RefuseAtOnce \/ AskService \/ EndOfMessage
  \/ WebhookTakes \/ WebhookFails
  \/ \E again \in BOOLEAN : WebhookBusy(again)
  \/ RoomTakes \/ RoomFails
  \/ ChannelTakes \/ ChannelFails

ChatDeliverySpec == ChatDeliveryInit /\ [][ChatDeliveryNext]_chatDeliveryVars

---------------------------------------------------------------------------
\* send_message_with_attachments_checked
Confirmed == routed /\ successful

HasAll(d) == arrived[d].text >= 1 /\ arrived[d].file >= files
Meant ==
  {d \in Destinations :
     \/ d = "hook" /\ aim = <<>> /\ deployment.hook # Absent
     \/ d = "room" /\ deployment.room # Absent
     \/ d \in Range(aim)}

\* Every destination of a message stands for itself: one that fails takes the
\* message from nobody else, none that took it is sent it again, and a channel
\* that is asked alone, as for a receipt, is confirmed only when it has the
\* message with all its files.
EachOnItsOwn ==
  /\ \A d \in Destinations : arrived[d].text <= 1 + unsure[d]
  /\ stage = "idle" /\ tries > 0 =>
       /\ \A d \in Meant : HasAll(d) \/ d \in broken
       /\ Confirmed => \A d \in Meant : HasAll(d) \/ (d \in BotChannels /\ Len(aim) > 1)

===========================================================================
