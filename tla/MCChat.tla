-------------------------------- MODULE MCChat --------------------------------
(***************************************************************************)
(* The parts of the chat updater for TLC.  They share no variable, so one  *)
(* run checks them side by side: `part` says which one a behaviour is of,  *)
(* and the state graph is the sum of theirs, not their product.            *)
(***************************************************************************)
EXTENDS RigEvents, EventRateLimit, EventElision, AutofocusDelivery, SequenceOps,
        MCImagePosts, LiveStatus, ChatDelivery, BotViews, Notices

VARIABLE part

\* What rigs log, by family.
Logged(kind, time, detail) == [kind |-> kind, time |-> time, detail |-> detail, on |-> TRUE]
Withheld(kind, time) == [kind |-> kind, time |-> time, detail |-> "empty", on |-> FALSE]

MCRigMenus == {
  {Logged("TS-TARGETSTART", 1, "a"), Logged("TS-TARGETSTART", 2, "b"),
   Logged("TS-WAITSTART", 2, "a"), Logged("TS-WAITSTART", 0, "empty"),
   Withheld("TS-WAITSTART", 1)},
  {Logged("SEQUENCE-STARTING", 1, "a"), Logged("SEQUENCE-FINISHED", 2, "a"),
   Logged("SEQUENCE-FINISHED", 1, "b"), Logged("SEQUENCE-ENTITY-FAILED", 2, "a"),
   Withheld("SEQUENCE-STARTING", 3)},
  {Logged("FOCUSER-MOVED", 1, "a"), Logged("FOCUSER-MOVED", 2, "empty"),
   Logged("FOCUSER-CONNECTED", 2, "a"), Withheld("FOCUSER-MOVED", 2),
   Logged("TS-WAITSTART", 3, "a")},
  {Logged("FILTERWHEEL-CHANGED", 1, "a"), Logged("FILTERWHEEL-CHANGED", 2, "b"),
   Logged("FILTERWHEEL-CHANGED", 3, "empty"), Logged("FILTERWHEEL-CHANGED", 2, "same"),
   Withheld("FILTERWHEEL-CHANGED", 2)},
  {Logged("WEATHER-HIGH-WIND", 1, "a"), Logged("WEATHER-HIGH-WIND", 2, "b"),
   Logged("WEATHER-CHANGED", 1, "a"), Logged("WEATHER-CONNECTED", 2, "a"),
   Withheld("WEATHER-HIGH-WIND", 3)},
  {Logged("DOME-CONNECTED", 1, "a"), Logged("DOME-HOMED", 2, "a"),
   Logged("DOME-SLEWED", 2, "a"), Withheld("DOME-HOMED", 3), Withheld("DOME-CONNECTED", 2)},
  {Logged("FLAT-CONNECTED", 1, "a"), Logged("FLAT-COVER-OPENED", 2, "a"),
   Logged("FLAT-LIGHT-TOGGLED", 2, "a"), Logged("FLAT-BRIGHTNESS-CHANGED", 1, "a"),
   Withheld("FLAT-COVER-OPENED", 3)},
  {Logged("MOUNT-PARKED", 1, "a"), Logged("MOUNT-CENTER", 2, "a"), Withheld("MOUNT-HOMED", 3),
   Logged("GUIDER-START", 1, "a"), Withheld("GUIDER-START", 2)}}

\* Diagnostics of two classes.
MCClass == "e1" :> "error" @@ "e2" :> "error" @@ "e3" :> "error" @@ "l1" :> "log"
MCCapacity == [error |-> 1, log |-> 1]
MCRefill == [error |-> 2, log |-> 4]

\* What sequences show, by family: the items of one container, a target's or not.
Item(name, status, on, says, has, output, progress) ==
  Node(name, "item", status, on, says, has, output, progress, FALSE, <<>>)
Under(t, items) ==
  Tree(<<Node(t, IF t = NoTarget THEN "system" ELSE "container", "active", TRUE, Unsaid, {},
              NoOutput, 0, t # NoTarget, items)>>)
Idle == Item("idle", "idle", TRUE, Unsaid, {}, NoOutput, 0)

Solve(status, on, output) == Item("solve", status, on, "solve", {"Coordinates"}, output, 0)
Wait(name, status, progress) == Item(name, status, TRUE, Unsaid, {"Delay"}, NoOutput, progress)
Cool == Item("a", "active", TRUE, Unsaid, {"Temperature", "MinCoolingTime"}, NoOutput, 30)
Safety == Item("a", "active", TRUE, Unsaid, {"IsSafe", "WaitInterval"}, NoOutput, 0)
Hide(item) == [item EXCEPT !.on = FALSE]
Slew(name, says, status) == Item(name, status, TRUE, says, {"Coordinates"}, NoOutput, 0)

PlateSolving ==
  {Under("t", <<Solve("active", on, o)>>) : on \in BOOLEAN, o \in {NoOutput, "o1"}}
    \cup {Under("t", <<Solve("finished", TRUE, "o1")>>), Under("t", <<Solve("failed", FALSE, "o2")>>),
          Under("t", <<Solve("active", TRUE, "o1"), Solve("active", TRUE, "o1")>>),
          Under("t", <<Hide(Idle), Solve("active", TRUE, "o2")>>), Under("t", <<>>)}
Progressing ==
  {Under(t, <<Wait(n, "active", g)>>) : n \in {"a", "b"}, g \in {10, 60, 90}, t \in {"t", "u"}}
    \cup {Under("t", <<Wait("a", "finished", 0)>>), Under("u", <<Wait("b", "idle", 0)>>),
          Under("t", <<Cool>>), Under(NoTarget, <<Safety>>), Under("u", <<Hide(Idle)>>)}
Centering ==
  {Under("t", <<Slew("a", says, "active")>>) : says \in {Unsaid, "center", "slew"}}
    \cup {Under("t", <<Slew("a", Unsaid, "active"), Slew("b", "center", "active")>>),
          Under("t", <<Slew("a", Unsaid, "finished")>>),
          Under("u", <<Hide(Idle), Slew("b", Unsaid, "active")>>)}
MCSequences == <<PlateSolving, Progressing, Centering>>

\* What events fill in, and of what polls find out a cell the fingerprint has
\* and one it has not.
MCCells == {<<"target", "detail">>, <<"mount_slew", "ra">>, <<"mount_slew", "dec">>}

\* Sequences in which an older plugin leaves what is withheld.
Target(t, on, items) ==
  Node(t, "container", "active", on, Unsaid, {}, NoOutput, 0, TRUE, items)
MCViewTrees ==
  {Tree(<<Target("t", TRUE, <<Cool, Hide(Wait("b", "active", 10))>>)>>),
   Tree(<<Target("t", FALSE, <<Cool, Wait("b", "active", 10)>>)>>),
   Tree(<<[Target("u", FALSE, <<>>) EXCEPT !.target = FALSE], Target("t", TRUE, <<Hide(Cool)>>)>>),
   [Tree(<<Target("u", TRUE, <<>>)>>) EXCEPT
      !.triggers = <<[on |-> TRUE, flip |-> TRUE, timed |-> TRUE]>>],
   [Tree(<<Target("u", TRUE, <<Hide(Cool)>>)>>) EXCEPT
      !.triggers = <<[on |-> FALSE, flip |-> TRUE, timed |-> TRUE]>>]}

Said(kind, t, on) == [kind |-> kind, target |-> t, on |-> on]
MCViewEvents ==
  {Said("TS-TARGETSTART", "t", TRUE), Said("TS-NEWTARGETSTART", "v", TRUE),
   Said("TS-WAITSTART", NoTarget, FALSE), Said("DOME-HOMED", NoTarget, TRUE),
   Said("DOME-SLEWED", NoTarget, FALSE)}

---------------------------------------------------------------------------
TypesOK ==
  /\ RigEventsTypeOK /\ RateTypeOK /\ ElisionTypeOK
  /\ AutofocusTypeOK /\ SequenceOpsTypeOK /\ ImagePostsTypeOK
  /\ LiveStatusTypeOK /\ ChatDeliveryTypeOK /\ BotViewsTypeOK /\ NoticesTypeOK

\* The parts a behaviour is not of stay in one of their initial states.
ChatInit ==
  /\ part \in {"events", "rate", "elision", "autofocus", "sequence", "images", "status", "delivery",
               "views", "notices"}
  /\ RigEventsInit /\ (part # "events" => menu = CHOOSE m \in MCRigMenus : TRUE)
  /\ RateInit
  /\ ElisionInit /\ (part # "elision" => \A k \in Keys : ~counters[k].on)
  /\ AutofocusInit /\ (part # "autofocus" => routes = {} /\ dialect = "receipts")
  /\ SequenceOpsInit /\ (part # "sequence" => shows = 1)
  /\ ImagePostsInit /\ (part # "images" => choice = NoStatistics)
  /\ LiveStatusInit /\ (part # "status" => posted = 0)
  /\ BotViewsInit
  /\ NoticesInit
  /\ ChatDeliveryInit /\ (part # "delivery" => deployment = CHOOSE d \in HubDeployments : TRUE)

ChatNext ==
  \/ /\ part = "events" /\ RigEventsNext
     /\ UNCHANGED <<part, rateVars, elisionVars, autofocusVars, sequenceOpsVars,
                    imagePostsVars, liveStatusVars, chatDeliveryVars, botViewsVars, noticesVars>>
  \/ /\ part = "rate" /\ RateNext
     /\ UNCHANGED <<part, rigEventsVars, elisionVars, autofocusVars, sequenceOpsVars,
                    imagePostsVars, liveStatusVars, chatDeliveryVars, botViewsVars, noticesVars>>
  \/ /\ part = "elision" /\ ElisionNext
     /\ UNCHANGED <<part, rigEventsVars, rateVars, autofocusVars, sequenceOpsVars,
                    imagePostsVars, liveStatusVars, chatDeliveryVars, botViewsVars, noticesVars>>
  \/ /\ part = "autofocus" /\ AutofocusNext
     /\ UNCHANGED <<part, rigEventsVars, rateVars, elisionVars, sequenceOpsVars,
                    imagePostsVars, liveStatusVars, chatDeliveryVars, botViewsVars, noticesVars>>
  \/ /\ part = "sequence" /\ SequenceOpsNext
     /\ UNCHANGED <<part, rigEventsVars, rateVars, elisionVars, autofocusVars,
                    imagePostsVars, liveStatusVars, chatDeliveryVars, botViewsVars, noticesVars>>
  \/ /\ part = "images" /\ ImagePostsNext
     /\ UNCHANGED <<part, rigEventsVars, rateVars, elisionVars, autofocusVars,
                    sequenceOpsVars, liveStatusVars, chatDeliveryVars, botViewsVars, noticesVars>>
  \/ /\ part = "status" /\ LiveStatusNext
     /\ UNCHANGED <<part, rigEventsVars, rateVars, elisionVars, autofocusVars,
                    sequenceOpsVars, imagePostsVars, chatDeliveryVars, botViewsVars, noticesVars>>
  \/ /\ part = "delivery" /\ ChatDeliveryNext
     /\ UNCHANGED <<part, rigEventsVars, rateVars, elisionVars, autofocusVars,
                    sequenceOpsVars, imagePostsVars, liveStatusVars, botViewsVars, noticesVars>>
  \/ /\ part = "views" /\ BotViewsNext
     /\ UNCHANGED <<part, rigEventsVars, rateVars, elisionVars, autofocusVars,
                    sequenceOpsVars, imagePostsVars, liveStatusVars, chatDeliveryVars, noticesVars>>
  \/ /\ part = "notices" /\ NoticesNext
     /\ UNCHANGED <<part, rigEventsVars, rateVars, elisionVars, autofocusVars, sequenceOpsVars,
                    imagePostsVars, liveStatusVars, chatDeliveryVars, botViewsVars>>
=============================================================================
