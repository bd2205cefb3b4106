------------------------------- MODULE ChatLoop -------------------------------
(***************************************************************************)
(* ChatUpdater::start_polling over a local pipe: the baseline is tried     *)
(* until its event and image history are answered, then every cycle runs   *)
(* three readers, and record_reachability tells chat when the rig has gone *)
(* quiet and when it is back.  The bot's commands use the same pipe.  What *)
(* the readers do with an answer is in the modules of the updater's parts; *)
(* the pauses between cycles are left out.                                 *)
(***************************************************************************)
EXTENDS PipeExchange

CONSTANTS
  Updater, Bot,
  Threshold    \* OFFLINE_FAILURE_THRESHOLD

ASSUME ChatLoopCallers == Callers = {Updater, Bot} /\ Threshold \in Nat \ {0}

VARIABLES
  loop,       \* [baseline, reader, any]: where the loop is, and if any reader was answered
  failures,   \* consecutive_failures
  connected   \* what chat was told

chatLoopVars == <<pipeVars, loop, failures, connected>>

Readers == <<"events", "sequence", "images">>

ChatLoopTypeOK ==
  /\ PipeTypeOK
  /\ loop \in [baseline : BOOLEAN, reader : 1..Len(Readers), any : BOOLEAN]
  /\ failures \in 0..Threshold /\ connected \in BOOLEAN

ChatLoopInit ==
  /\ PipeInit
  /\ loop = [baseline |-> FALSE, reader |-> 1, any |-> FALSE]
  /\ failures = 0 /\ connected = FALSE

AtStart(baseline) == [baseline |-> baseline, reader |-> 1, any |-> FALSE]
LastReader == loop.reader = Len(Readers)

\* The updater's query has ended.
Heard(ok) ==
  /\ exchange[Updater] = (IF ok THEN "ok" ELSE "failed")
  /\ Took(Updater)

\* initialize_baseline does without the sequence, and starts again otherwise.
BaselineStep(ok) ==
  /\ ~loop.baseline /\ Heard(ok)
  /\ IF ok \/ Readers[loop.reader] = "sequence"
     THEN IF LastReader THEN loop' = AtStart(TRUE) /\ connected' = TRUE
          ELSE loop' = [loop EXCEPT !.reader = @ + 1] /\ UNCHANGED connected
     ELSE loop' = AtStart(FALSE) /\ UNCHANGED connected
  /\ UNCHANGED failures

Debounced(count) == count >= Threshold

\* record_reachability, the count capped at the threshold.
RecordReachability(reachable) ==
  IF reachable THEN failures' = 0 /\ connected' = TRUE
  ELSE /\ failures' = (IF failures < Threshold THEN failures + 1 ELSE failures)
       /\ connected' = (connected /\ ~Debounced(failures + 1))

PollStep(ok) ==
  /\ loop.baseline /\ Heard(ok)
  /\ IF LastReader THEN loop' = AtStart(TRUE) /\ RecordReachability(loop.any \/ ok)
     ELSE /\ loop' = [loop EXCEPT !.reader = @ + 1, !.any = @ \/ ok]
          /\ UNCHANGED <<failures, connected>>

LoopStep == \E ok \in BOOLEAN : BaselineStep(ok) \/ PollStep(ok)

\* Anything but the loop itself.
Alone == UNCHANGED <<loop, failures, connected>>

BotDone == exchange[Bot] \in {"ok", "failed"} /\ Took(Bot)

ChatLoopNext ==
  \/ \E c \in Callers : (Query(c) \/ WriteQuery(c) \/ ReadLine(c) \/ StallOut(c)) /\ Alone
  \/ PluginAnswers /\ Alone
  \/ BotDone /\ Alone
  \/ LoopStep

ChatLoopSpec == ChatLoopInit /\ [][ChatLoopNext]_chatLoopVars

\* The plugin answers whatever it is asked, both tasks go on, and the mutex is
\* a fair queue.
FairChatLoopSpec ==
  /\ ChatLoopSpec
  /\ WF_chatLoopVars(PluginAnswers /\ Alone)
  /\ WF_chatLoopVars(LoopStep) /\ WF_chatLoopVars(BotDone /\ Alone)
  /\ WF_chatLoopVars(Query(Updater) /\ Alone)
  /\ \A c \in Callers : /\ SF_chatLoopVars(WriteQuery(c) /\ Alone)
                        /\ WF_chatLoopVars(ReadLine(c) /\ Alone)

---------------------------------------------------------------------------
\* "reconnect fires as soon as the plugin answers again" (record_reachability):
\* a rig that is reported offline, and whose plugin answers all the same, is
\* sooner or later reported back, as only finitely many exchanges time out.
BackOnceItAnswers == loop.baseline /\ ~connected ~> connected

===========================================================================
