------------------------------ MODULE BotCommands ------------------------------
(***************************************************************************)
(* A write command of the Discord bot, from the slash command to the       *)
(* telescope it drives.  The telescope is found by its name in the server, *)
(* or by the channel; the server's attachment and its policy say whether   *)
(* the user may; the rig's connection is pinned.  A destructive command    *)
(* then waits up to 30 seconds for a click, during which everything may    *)
(* change: telescopes, attachments, policies, routes, connections and the  *)
(* roles of the user.  The command is resolved a second time, by name and  *)
(* for the user the click came from, and is sent if it leads to the pinned *)
(* connection.  Every read of the database or of the registry is a step of *)
(* its own.  Commands share nothing but the rig, so one is followed, in    *)
(* one server and one of its channels: a command from a direct message is  *)
(* refused at once, and the attachments of other servers are never read.   *)
(***************************************************************************)
EXTENDS Naturals

CONSTANTS
  Rows,            \* rows of telescopes; an id is not reused
  Names, NameOf,   \* [Rows -> Names]
  OwnerOf,         \* [Rows -> Nat]
  MaxOpened,       \* bound: connections opened
  NoRow, ByChannel

ASSUME NamesAssumption ==
  /\ NameOf \in [Rows -> Names] /\ OwnerOf \in [Rows -> Nat] /\ ByChannel \notin Names
  /\ MaxOpened \in Nat

VARIABLES
  rows,      \* Rows -> "new", "owned", "deleted"
  policy,    \* the server's attachments: "none", "feed" (not can_command) or write_policy
  routed,    \* telescope_channels: the row the channel belongs to
  live,      \* RigConnections: Rows -> [id, commands], id 0 when there is none
  opened,    \* connections opened so far
  command,   \* the command being run
  steady,    \* history: nothing but the command has changed since it was invoked
  entitled   \* history: connections the user could command at some moment since the last click

botCommandVars == <<rows, policy, routed, live, opened, command, steady, entitled>>
tenantVars == <<rows, policy, routed, live, opened>>

\* Sent as they are, or after a click.  An autofocus is confirmed and its
\* cancellation is not.
CoolerCommands == {"cool", "warm"}
ImmediateCommands ==
  {"unpark", "home", "change-filter", "guider-start", "guider-stop", "cancel autofocus"}
    \cup CoolerCommands
SequenceCommands == {"abort-capture", "stop-sequence", "start-sequence"}
ConfirmedCommands ==
  {"autofocus", "slew-target", "center-target", "center-rotate-target", "park"}
    \cup SequenceCommands

WritePolicies == {"disabled", "admins", "roles"}
Members == {"manager", "role", "member"}  \* manages_guild; holds an allowed role; neither
NoLive == [id |-> 0, commands |-> FALSE]
NoCommand ==
  [at |-> "idle", name |-> ByChannel, member |-> "member", destructive |-> FALSE,
   row |-> NoRow, pinned |-> 0, sent |-> 0]

BotCommandsTypeOK ==
  /\ rows \in [Rows -> {"new", "owned", "deleted"}]
  /\ policy \in [Rows -> {"none", "feed"} \cup WritePolicies]
  /\ routed \in Rows \cup {NoRow}
  /\ live \in [Rows -> [id : 0..opened, commands : BOOLEAN]] /\ opened \in 0..MaxOpened
  /\ command \in
       [at : {"idle", "find", "authorize", "pin", "prompt", "sent", "moved", "refused"},
        name : Names \cup {ByChannel}, member : Members, destructive : BOOLEAN,
        row : Rows \cup {NoRow}, pinned : 0..opened, sent : 0..opened]
  /\ steady \in BOOLEAN /\ entitled \subseteq 1..opened

BotCommandsInit ==
  /\ rows = [r \in Rows |-> "new"] /\ policy = [r \in Rows |-> "none"] /\ routed = NoRow
  /\ live = [r \in Rows |-> NoLive] /\ opened = 0
  /\ command = NoCommand /\ steady = TRUE /\ entitled = {}

---------------------------------------------------------------------------
\* What may change meanwhile.

\* UNIQUE (owner_id, name)
CreateRow(r) ==
  /\ rows[r] = "new"
  /\ \A q \in Rows : rows[q] = "owned" => OwnerOf[q] # OwnerOf[r] \/ NameOf[q] # NameOf[r]
  /\ rows' = [rows EXCEPT ![r] = "owned"]
  /\ UNCHANGED <<policy, routed, live, opened>>

Unroute(r) == routed' = IF routed = r THEN NoRow ELSE routed

\* Attachments and routes cascade; the connection is torn down next.
DeleteRow(r) ==
  /\ rows[r] = "owned" /\ rows' = [rows EXCEPT ![r] = "deleted"]
  /\ policy' = [policy EXCEPT ![r] = "none"] /\ Unroute(r)
  /\ UNCHANGED <<live, opened>>

\* The owner's own server, or one that subscribed to the feed.
AttachRow(r) ==
  /\ rows[r] = "owned" /\ policy[r] = "none"
  /\ \E p \in {"admins", "feed"} : policy' = [policy EXCEPT ![r] = p]
  /\ UNCHANGED <<rows, routed, live, opened>>

SetPolicy(r) ==
  /\ policy[r] \in WritePolicies
  /\ \E p \in WritePolicies \ {policy[r]} : policy' = [policy EXCEPT ![r] = p]
  /\ UNCHANGED <<rows, routed, live, opened>>

DetachRow(r) ==
  /\ policy[r] # "none" /\ policy' = [policy EXCEPT ![r] = "none"] /\ Unroute(r)
  /\ UNCHANGED <<rows, live, opened>>

\* A route may outlive the attachment it was added under: see Tenancy.
RouteChannel(r) ==
  /\ rows[r] = "owned" /\ routed = NoRow /\ routed' = r
  /\ UNCHANGED <<rows, policy, live, opened>>

DeleteChannelRoute ==
  /\ routed # NoRow /\ routed' = NoRow
  /\ UNCHANGED <<rows, policy, live, opened>>

\* The rig connects, whether or not it already was: the newer connection wins.
OpenConnection(r) ==
  /\ rows[r] = "owned" /\ opened < MaxOpened /\ opened' = opened + 1
  /\ \E enabled \in BOOLEAN :
       live' = [live EXCEPT ![r] = [id |-> opened + 1, commands |-> enabled]]
  /\ UNCHANGED <<rows, policy, routed>>

CloseConnection(r) ==
  /\ live[r] # NoLive /\ live' = [live EXCEPT ![r] = NoLive]
  /\ UNCHANGED <<rows, policy, routed, opened>>

---------------------------------------------------------------------------
\* The command.

Reaches(step) == command' = [command EXCEPT !.at = step]

Invoke(name, member, commands) ==
  /\ command.at = "idle"
  /\ command' = [at |-> "find", name |-> name, member |-> member,
                 destructive |-> (commands = ConfirmedCommands),
                 row |-> NoRow, pinned |-> 0, sent |-> 0]

\* telescope_by_channel, or telescope_by_guild_and_name: two owners may bring
\* telescopes of one name, and the first owner's is found.
Found ==
  IF command.name = ByChannel THEN {routed} \ {NoRow}
  ELSE LET named == {r \in Rows : policy[r] # "none" /\ NameOf[r] = command.name} IN
       {r \in named : \A q \in named : OwnerOf[r] <= OwnerOf[q]}

FindTelescope ==
  /\ command.at = "find"
  /\ \E r \in Found :
       command' = [command EXCEPT !.at = "authorize", !.row = r, !.name = NameOf[r]]

FindNothing == command.at = "find" /\ Found = {} /\ Reaches("refused")

\* check_write_policy
Admits(p, member) ==
  \/ p = "admins" /\ member = "manager"
  \/ p = "roles" /\ member \in {"manager", "role"}

Authorize ==
  /\ command.at = "authorize" /\ Admits(policy[command.row], command.member)
  /\ Reaches("pin")

NotAuthorized ==
  /\ command.at = "authorize" /\ ~Admits(policy[command.row], command.member)
  /\ Reaches("refused")

\* source_for, ensure_locally_enabled
Reachable == live[command.row].id # 0 /\ live[command.row].commands

\* The end of the first resolution.
PinConnection ==
  /\ command.at = "pin" /\ command.pinned = 0 /\ Reachable
  /\ command' = [command EXCEPT !.at = "prompt", !.pinned = live[command.row].id]

NotReachable == command.at = "pin" /\ ~Reachable /\ Reaches("refused")

\* A click on Confirm by the user who invoked the command, with the roles the
\* user has now; a command that is not destructive goes on as it is.
Confirm ==
  /\ command.at = "prompt"
  /\ \E member \in Members :
       /\ command.destructive \/ member = command.member
       /\ command' = [command EXCEPT !.at = "find", !.member = member]

\* Cancelled or not clicked in time; a filter that the pinned rig does not have,
\* or a rig whose plugin does not know commands for the target.
Decline == command.at = "prompt" /\ Reaches("refused")

\* Mutant: the connection found now is as good as the one that was confirmed.
AnyConnection == TRUE

SameConnection == live[command.row].id = command.pinned

\* The end of resolve_for_dispatch, and execute_command.
DispatchCommand ==
  /\ command.at = "pin" /\ command.pinned # 0 /\ Reachable /\ SameConnection
  /\ command' = [command EXCEPT !.at = "sent", !.sent = live[command.row].id]

ConnectionChanged ==
  /\ command.at = "pin" /\ command.pinned # 0 /\ Reachable /\ ~SameConnection
  /\ Reaches("moved")

---------------------------------------------------------------------------
CommandStep ==
  \/ \E name \in Names \cup {ByChannel}, member \in Members :
       Invoke(name, member, ImmediateCommands) \/ Invoke(name, member, ConfirmedCommands)
  \/ FindTelescope \/ FindNothing
  \/ Authorize \/ NotAuthorized
  \/ PinConnection \/ NotReachable
  \/ Confirm \/ Decline
  \/ DispatchCommand \/ ConnectionChanged

TenantStep ==
  \/ \E r \in Rows :
       \/ CreateRow(r) \/ DeleteRow(r)
       \/ AttachRow(r) \/ SetPolicy(r) \/ DetachRow(r)
       \/ RouteChannel(r)
       \/ OpenConnection(r) \/ CloseConnection(r)
  \/ DeleteChannelRoute

\* The connections whose telescope the member may command at this moment.
Commandable(member) ==
  {live[r].id : r \in {r \in Rows : live[r].commands /\ Admits(policy[r], member)}}

\* The histories start over with an invocation, `entitled` also with a click.
Remember ==
  /\ steady' = IF command'.at = "find" /\ command.at \notin {"find", "prompt"} THEN TRUE
               ELSE steady /\ UNCHANGED tenantVars
  /\ entitled' = IF command'.at = "find" /\ command.at # "find" THEN {}
                 ELSE IF command.at \in {"find", "authorize", "pin"}
                      THEN entitled \cup Commandable(command.member)
                 ELSE entitled

BotCommandsNext ==
  /\ \/ CommandStep /\ UNCHANGED tenantVars
     \/ TenantStep /\ UNCHANGED command
  /\ Remember

BotCommandsSpec == BotCommandsInit /\ [][BotCommandsNext]_botCommandVars

---------------------------------------------------------------------------
\* "The authorization decision provably applies to the rig the command will
\* actuate" (discord_bot.rs): a command that is sent goes out on the connection
\* it was confirmed for, whatever was created, deleted, shared, detached or
\* reconnected meanwhile, and at some moment after the click that connection's
\* telescope was attached to the server under a policy that admitted the user
\* as the user then was.
CommandsReachTheirTelescope ==
  command.at = "sent" => command.sent = command.pinned /\ command.sent \in entitled

\* "Slash commands invoked in that channel default to that telescope"
\* (discord_bot.rs): a command is told that the connection changed only if
\* something has changed since it was invoked.
UnchangedIsNotMoved == command.at = "moved" => ~steady

===========================================================================
