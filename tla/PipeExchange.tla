----------------------------- MODULE PipeExchange -----------------------------
(***************************************************************************)
(* DirectPipeRigSource: the local runtime's queries to the plugin over one *)
(* named pipe.  The updater and the bot's commands take turns under one    *)
(* mutex: each writes its query and reads one line.  The plugin answers    *)
(* what it reads, in order, however long it takes; an exchange that is     *)
(* given up after its query was written leaves the answer in the pipe for  *)
(* whoever reads next.  Payloads and the plugin's refusals are left out; a *)
(* frame that is cut while it is written or read is not modelled.          *)
(***************************************************************************)
EXTENDS Naturals, Sequences, SequencesExt

CONSTANTS
  Callers,    \* tasks that share the source
  Ids,        \* query ids
  MaxStalls,  \* bound on exchanges that time out
  NoId

ASSUME PipeAssumption == MaxStalls \in Nat

VARIABLES
  exchange,     \* how far each caller's exchange is
  asked,    \* the id of its query
  heard,    \* history: the id of the answer it was given
  inbox,    \* queries the plugin has yet to answer
  outbox,   \* answers nobody has read
  stalls    \* exchanges that have timed out

pipeVars == <<exchange, asked, heard, inbox, outbox, stalls>>

Steps == {"idle", "queued", "reading", "ok", "failed"}

PipeTypeOK ==
  /\ exchange \in [Callers -> Steps]
  /\ asked \in [Callers -> Ids \cup {NoId}] /\ heard \in [Callers -> Ids \cup {NoId}]
  /\ inbox \in Seq(Ids) /\ outbox \in Seq(Ids)
  /\ stalls \in 0..MaxStalls

PipeInit ==
  /\ exchange = [c \in Callers |-> "idle"]
  /\ asked = [c \in Callers |-> NoId] /\ heard = [c \in Callers |-> NoId]
  /\ inbox = <<>> /\ outbox = <<>>
  /\ stalls = 0

InUse == Range(asked) \cup Range(inbox) \cup Range(outbox)

\* Every query has an id of its own.
Query(c) ==
  /\ exchange[c] = "idle" /\ exchange' = [exchange EXCEPT ![c] = "queued"]
  /\ \E i \in Ids \ InUse : asked' = [asked EXCEPT ![c] = i]
  /\ UNCHANGED <<heard, inbox, outbox, stalls>>

\* The mutex is free and the frame is written.
WriteQuery(c) ==
  /\ exchange[c] = "queued" /\ \A d \in Callers : exchange[d] # "reading"
  /\ exchange' = [exchange EXCEPT ![c] = "reading"]
  /\ inbox' = Append(inbox, asked[c])
  /\ UNCHANGED <<asked, heard, outbox, stalls>>

\* Mutant: whatever line comes is the answer.
AnyLine(c, id) == TRUE

IsOwn(c, id) == id = asked[c]

ReadLine(c) ==
  /\ exchange[c] = "reading" /\ outbox # <<>>
  /\ outbox' = Tail(outbox)
  /\ IF IsOwn(c, Head(outbox))
     THEN /\ exchange' = [exchange EXCEPT ![c] = "ok"] /\ heard' = [heard EXCEPT ![c] = Head(outbox)]
     ELSE exchange' = [exchange EXCEPT ![c] = "failed"] /\ UNCHANGED heard
  /\ UNCHANGED <<asked, inbox, stalls>>

\* QUERY_TIMEOUT covers the wait for the mutex too.
StallOut(c) ==
  /\ exchange[c] \in {"queued", "reading"} /\ stalls < MaxStalls
  /\ exchange' = [exchange EXCEPT ![c] = "failed"] /\ stalls' = stalls + 1
  /\ UNCHANGED <<asked, heard, inbox, outbox>>

\* The caller goes on with its result.
Took(c) ==
  /\ exchange' = [exchange EXCEPT ![c] = "idle"]
  /\ asked' = [asked EXCEPT ![c] = NoId] /\ heard' = [heard EXCEPT ![c] = NoId]
  /\ UNCHANGED <<inbox, outbox, stalls>>

\* The plugin, external.
PluginAnswers ==
  /\ inbox # <<>>
  /\ outbox' = Append(outbox, Head(inbox)) /\ inbox' = Tail(inbox)
  /\ UNCHANGED <<exchange, asked, heard, stalls>>

---------------------------------------------------------------------------
\* No caller is given the answer to another query, its own earlier one or
\* another task's, whatever was left in the pipe by exchanges that timed out.
OwnAnswersOnly == \A c \in Callers : exchange[c] = "ok" => heard[c] = asked[c]

===========================================================================
