------------------------------- MODULE Tenancy -------------------------------
(***************************************************************************)
(* Who may receive a telescope's feed: the tables telescopes,              *)
(* telescope_attachments, telescope_channels and telescope_shares, and the *)
(* handlers of server.rs that change them.  A statement, or the statements *)
(* made under one lock of the database, is a step; a handler that asks     *)
(* Discord about a channel, or locks the database again, is several, and   *)
(* others run in between.  Rows are never reused, so a handler that checks *)
(* a row and removes it later by its id is one step.  Sessions, CSRF and   *)
(* Discord's answer on who manages a server are preconditions: a refusal   *)
(* changes nothing.                                                        *)
(***************************************************************************)
EXTENDS FiniteSets

CONSTANTS
  Telescopes, Guilds, Feeds, \* Feeds: Discord channels
  GuildOf,                   \* channel_in_guild, [Feeds -> Guilds]
  Codes,                     \* share codes
  Requests,                  \* requests of guild managers
  Nothing

ASSUME TenancyAssumption == Nothing \notin Requests /\ GuildOf \in [Feeds -> Guilds]

VARIABLES
  telescopes,   \* Telescopes -> "new", "owned", "deleted"
  attachments,  \* telescope_attachments: [telescope, guild, can_command]
  feeds,        \* telescope_channels: [telescope, guild, channel]
  codes,        \* telescope_shares: Codes -> [state, telescope, by]
  request       \* Requests -> [at, telescope, guild, channel, code]

tenancyVars == <<telescopes, attachments, feeds, codes, request>>

CodeStates == {"unissued", "outstanding", "consumed", "gone"}
RequestStages ==
  {"new", "authorized", "free", "consumed", "unattached", "attached", "done", "refused",
   "conflict"}

NoRequest ==
  [at |-> "new", telescope |-> Nothing, guild |-> Nothing, channel |-> Nothing, code |-> Nothing]

TenancyTypeOK ==
  /\ telescopes \in [Telescopes -> {"new", "owned", "deleted"}]
  /\ attachments \subseteq [telescope : Telescopes, guild : Guilds, can_command : BOOLEAN]
  /\ feeds \subseteq [telescope : Telescopes, guild : Guilds, channel : Feeds]
  /\ codes \in [Codes -> [state : CodeStates, telescope : Telescopes \cup {Nothing},
                          by : Requests \cup {Nothing}]]
  /\ \A q \in Requests : request[q].at \in RequestStages

TenancyInit ==
  /\ telescopes = [t \in Telescopes |-> "new"]
  /\ attachments = {} /\ feeds = {}
  /\ codes = [k \in Codes |-> [state |-> "unissued", telescope |-> Nothing, by |-> Nothing]]
  /\ request = [q \in Requests |-> NoRequest]

Attached(t, g) == \E a \in attachments : a.telescope = t /\ a.guild = g
Routed(c) == \E f \in feeds : f.channel = c

---------------------------------------------------------------------------
\* The owner.

CreateTelescope(t) ==
  /\ telescopes[t] = "new" /\ telescopes' = [telescopes EXCEPT ![t] = "owned"]
  /\ UNCHANGED <<attachments, feeds, codes, request>>

\* Everything that refers to the telescope is deleted with it.
DeleteTelescope(t) ==
  /\ telescopes[t] = "owned" /\ telescopes' = [telescopes EXCEPT ![t] = "deleted"]
  /\ attachments' = {a \in attachments : a.telescope # t}
  /\ feeds' = {f \in feeds : f.telescope # t}
  /\ codes' = [k \in Codes |-> IF codes[k].telescope = t THEN [codes[k] EXCEPT !.state = "gone"]
                               ELSE codes[k]]
  /\ UNCHANGED request

\* The telescope is a foreign key, and (telescope_id, guild_id) is UNIQUE.
CanAttach(t, g) == telescopes[t] = "owned" /\ ~Attached(t, g)

Attach(t, g, can_command) ==
  attachments' = attachments \cup {[telescope |-> t, guild |-> g, can_command |-> can_command]}

AttachTelescope(t, g) ==
  /\ CanAttach(t, g)
  /\ Attach(t, g, TRUE)
  /\ UNCHANGED <<telescopes, feeds, codes, request>>

\* One code is outstanding at a time.
CreateShareCode(t, k) ==
  /\ telescopes[t] = "owned" /\ codes[k].state = "unissued"
  /\ codes' = [j \in Codes |->
       IF j = k THEN [state |-> "outstanding", telescope |-> t, by |-> Nothing]
       ELSE IF codes[j].telescope = t /\ codes[j].state = "outstanding"
            THEN [codes[j] EXCEPT !.state = "gone"]
       ELSE codes[j]]
  /\ UNCHANGED <<telescopes, attachments, feeds, request>>

ShareCodeExpires(k) ==
  /\ codes[k].state = "outstanding" /\ codes' = [codes EXCEPT ![k].state = "gone"]
  /\ UNCHANGED <<telescopes, attachments, feeds, request>>

\* The owner, or a manager of the server.
DetachTelescope(a) ==
  /\ attachments' = attachments \ {a}
  /\ feeds' = {f \in feeds : f.telescope # a.telescope \/ f.guild # a.guild}
  /\ UNCHANGED <<telescopes, codes, request>>

\* A destination is named together with its attachment.
DeleteRoute(f) ==
  /\ Attached(f.telescope, f.guild)
  /\ feeds' = feeds \ {f}
  /\ UNCHANGED <<telescopes, attachments, codes, request>>

---------------------------------------------------------------------------
\* api_add_channel_route: the attachment is read, Discord is asked about the
\* channel, and the row is inserted.

AuthorizeAdd(q, a, c) ==
  /\ request[q] = NoRequest /\ GuildOf[c] = a.guild
  /\ request' = [request EXCEPT ![q] =
       [at |-> "authorized", telescope |-> a.telescope, guild |-> a.guild, channel |-> c,
        code |-> Nothing]]
  /\ UNCHANGED <<telescopes, attachments, feeds, codes>>

\* channel_id is UNIQUE and the telescope a foreign key.
CanInsert(r) == telescopes[r.telescope] = "owned" /\ ~Routed(r.channel)

InsertRoute(q) ==
  LET r == request[q] IN
  /\ r.at \in {"authorized", "attached"} /\ CanInsert(r)
  /\ feeds' = feeds \cup {[telescope |-> r.telescope, guild |-> r.guild, channel |-> r.channel]}
  /\ request' = [request EXCEPT ![q].at = "done"]
  /\ UNCHANGED <<telescopes, attachments, codes>>

InsertFails(q) ==
  LET r == request[q] IN
  /\ r.at \in {"authorized", "attached"} /\ ~CanInsert(r)
  /\ request' = [request EXCEPT ![q].at = IF Routed(r.channel) THEN "conflict" ELSE "refused"]
  /\ UNCHANGED <<telescopes, attachments, feeds, codes>>

---------------------------------------------------------------------------
\* api_subscribe_share

CheckChannelFree(q, k, c) ==
  /\ request[q] = NoRequest
  /\ request' = [request EXCEPT ![q] =
       [at |-> IF Routed(c) THEN "conflict" ELSE "free", telescope |-> Nothing,
        guild |-> GuildOf[c], channel |-> c, code |-> k]]
  /\ UNCHANGED <<telescopes, attachments, feeds, codes>>

\* Mutant: whether the code was consumed before is not looked at.
RedeemableTwice(k) == codes[k].state \in {"outstanding", "consumed"}

Redeemable(k) == codes[k].state = "outstanding"

\* consume_share_code
Consume(q) ==
  LET k == request[q].code
      t == codes[k].telescope IN
  /\ request[q].at = "free" /\ Redeemable(k)
  /\ codes' = [codes EXCEPT ![k] = [state |-> "consumed", telescope |-> t, by |-> q]]
  /\ request' = [request EXCEPT ![q] =
       [at |-> "consumed", telescope |-> t, guild |-> @.guild, channel |-> @.channel, code |-> k]]
  /\ UNCHANGED <<telescopes, attachments, feeds>>

ConsumeRefused(q) ==
  /\ request[q].at = "free" /\ ~Redeemable(request[q].code)
  /\ request' = [request EXCEPT ![q].at = "refused"]
  /\ UNCHANGED <<telescopes, attachments, feeds, codes>>

\* attachment_for: the server may have the telescope already.
LookUpAttachment(q) ==
  LET r == request[q] IN
  /\ r.at = "consumed" /\ telescopes[r.telescope] = "owned"
  /\ request' = [request EXCEPT ![q].at =
       IF Attached(r.telescope, r.guild) THEN "attached" ELSE "unattached"]
  /\ UNCHANGED <<telescopes, attachments, feeds, codes>>

\* A feed-only attachment.
AttachSubscriber(q) ==
  LET r == request[q] IN
  /\ r.at = "unattached" /\ CanAttach(r.telescope, r.guild)
  /\ Attach(r.telescope, r.guild, FALSE)
  /\ request' = [request EXCEPT ![q].at = "attached"]
  /\ UNCHANGED <<telescopes, feeds, codes>>

AttachFails(q) ==
  LET r == request[q] IN
  /\ r.at = "unattached" /\ ~CanAttach(r.telescope, r.guild)
  /\ request' = [request EXCEPT ![q].at = "refused"]
  /\ UNCHANGED <<telescopes, attachments, feeds, codes>>

SharedTelescopeGone(q) ==
  /\ request[q].at = "consumed" /\ telescopes[request[q].telescope] # "owned"
  /\ request' = [request EXCEPT ![q].at = "refused"]
  /\ UNCHANGED <<telescopes, attachments, feeds, codes>>

\* The caller goes away while Discord is asked: the handler is dropped.
Abandon(q) ==
  /\ request[q].at \in {"authorized", "attached"}
  /\ request' = [request EXCEPT ![q].at = "refused"]
  /\ UNCHANGED <<telescopes, attachments, feeds, codes>>

TenancyNext ==
  \/ \E t \in Telescopes : CreateTelescope(t) \/ DeleteTelescope(t)
  \/ \E t \in Telescopes, g \in Guilds : AttachTelescope(t, g)
  \/ \E t \in Telescopes, k \in Codes : CreateShareCode(t, k)
  \/ \E k \in Codes : ShareCodeExpires(k)
  \/ \E a \in attachments : DetachTelescope(a)
  \/ \E f \in feeds : DeleteRoute(f)
  \/ \E q \in Requests :
       \/ \E a \in attachments, c \in Feeds : AuthorizeAdd(q, a, c)
       \/ \E k \in Codes, c \in Feeds : CheckChannelFree(q, k, c)
       \/ InsertRoute(q) \/ InsertFails(q)
       \/ Consume(q) \/ ConsumeRefused(q)
       \/ LookUpAttachment(q) \/ SharedTelescopeGone(q)
       \/ AttachSubscriber(q) \/ AttachFails(q)
       \/ Abandon(q)

TenancySpec == TenancyInit /\ [][TenancyNext]_tenancyVars

---------------------------------------------------------------------------
\* A share code brings a telescope's feed into one server, that of the manager
\* who redeemed it, and nothing more: whatever requests run at the same time,
\* an attachment without the owner's hand is feed-only and was bought with a
\* code of that telescope redeemed for that server, a code serves one request,
\* and a subscription never changes what an existing attachment allows.
SharedFeedsArePaidFor ==
  /\ \A a \in attachments : ~a.can_command =>
       \E k \in Codes : /\ codes[k].state = "consumed" /\ codes[k].telescope = a.telescope
                        /\ request[codes[k].by].guild = a.guild
  /\ \A q \in Requests : request[q].at \in {"consumed", "unattached", "attached"} =>
       codes[request[q].code].by = q
  /\ \A a, b \in attachments : a.telescope = b.telescope /\ a.guild = b.guild => a = b

\* "One destination of a telescope's feed: a channel in an attached guild"
\* (tenants.rs): no destination outlives the attachment of its server.
FeedsAreAttached == \A f \in feeds : Attached(f.telescope, f.guild)

===========================================================================
