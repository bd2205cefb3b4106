---------------------------- MODULE Chat_proofs -----------------------------
(***************************************************************************)
(* Proofs about what the chat updater sends: the live status message       *)
(* (LiveStatus), the way of a message to the services (ChatDelivery), the  *)
(* notices themselves (Notices) and the receipts of autofocus reports      *)
(* (AutofocusDelivery), for any sets of channels, reports, cells and       *)
(* items, and any bounds. Each of the four parts is by itself.             *)
(***************************************************************************)
EXTENDS AutofocusDelivery, LiveStatus, ChatDelivery, Notices, FiniteSetTheorems,
        SequenceTheorems, TLAPS

---------------------------------------------------------------------------
(***************************************************************************)
(* LiveStatus. The fingerprint is of what was last pushed, and the state   *)
(* may since have changed in cells that it leaves out; those are changed   *)
(* by events only, which forget it (PushIsShown). Nothing is posted anew   *)
(* while the recorded message is there (PostsAnew).                        *)
(***************************************************************************)

\* What a fingerprint is of.
Printed == StatusCells \ Unprinted

\* A fingerprint is forgotten, or of all the cells that are printed.
FingerprintKnown == fingerprint = <<>> \/ fingerprint \in [Printed -> BOOLEAN]

\* Nothing is posted while the recorded message is there, and what was posted
\* and is to be recorded shows the state as it still is.
PostsAnew ==
  /\ at \in {"posting", "saving"} => record \notin DOMAIN discord
  /\ at = "saving" => /\ record # posted
                      /\ posted \in DOMAIN discord => discord[posted] = state

\* The messages that nobody knows were given up by a restart or a lost answer.
NoStrays == DOMAIN discord \ orphans \subseteq {record} \cup (IF at = "saving" THEN {posted} ELSE {})

\* The recorded message shows what the fingerprint says was pushed; of cells that
\* it leaves out, those that only events change, and forget the fingerprint with,
\* are still as they were.
PushIsShown ==
  at = "polling" /\ ~missed /\ fingerprint # <<>> =>
    /\ record \in DOMAIN discord
    /\ \A c \in Printed : discord[record][c] = fingerprint[c]
    /\ \A c \in (StatusCells \cap Unprinted) \ PolledCells : discord[record][c] = state[c]

\* Why there is one fresh message.
StatusInv == LiveStatusTypeOK /\ FingerprintKnown /\ PostsAnew /\ NoStrays /\ PushIsShown

\* A fingerprint is of cells.
LEMMA FingerprintTyped ==
  ASSUME state \in Pictures
  PROVE  /\ StatusFingerprint \in [Printed -> BOOLEAN]
         /\ StatusFingerprint \in UNION {[S -> BOOLEAN] : S \in SUBSET StatusCells}
         /\ \A c \in Printed : StatusFingerprint[c] = state[c]
<1>1. StatusFingerprint \in [Printed -> BOOLEAN] /\ \A c \in Printed : StatusFingerprint[c] = state[c]
  BY DEF StatusFingerprint, Printed, Pictures
<1>2. Printed \in SUBSET StatusCells
  BY DEF Printed
<1> QED BY <1>1, <1>2

\* None at all is one of no cells.
LEMMA NoFingerprint == <<>> \in UNION {[S -> BOOLEAN] : S \in SUBSET StatusCells}
<1>1. <<>> \in [{} -> BOOLEAN] /\ {} \in SUBSET StatusCells
  OBVIOUS
<1> QED BY <1>1

\* The end of a push, of whatever became of the message.
LEMMA PushEnds ==
  ASSUME state \in Pictures, NEW short \in BOOLEAN, EndRefresh(short),
         ~short => record' \in DOMAIN discord' /\ discord'[record'] = state
  PROVE  /\ at' = "polling" /\ missed' \in BOOLEAN /\ settled' \in BOOLEAN /\ state' = state
         /\ fingerprint' \in UNION {[S -> BOOLEAN] : S \in SUBSET StatusCells}
         /\ FingerprintKnown' /\ PushIsShown'
<1>1. /\ at' = "polling" /\ missed' = short /\ settled' = ~short /\ state' = state
      /\ fingerprint' = StatusFingerprint
  BY DEF EndRefresh
<1>2. settled' \in BOOLEAN
  BY <1>1, Zenon
<1>3. FingerprintKnown'
  BY <1>1, FingerprintTyped DEF FingerprintKnown
<1>4. PushIsShown'
  BY <1>1, FingerprintTyped DEF PushIsShown, Printed
<1> QED BY <1>1, <1>2, <1>3, <1>4, FingerprintTyped

\* A chat updater starts with whatever message its store remembers.
LEMMA StatusStarts == LiveStatusInit => StatusInv
<1> SUFFICES ASSUME LiveStatusInit PROVE StatusInv
  OBVIOUS
<1>1. /\ state \in Pictures /\ posted \in {0, 1} /\ discord = [m \in 1..posted |-> state]
      /\ record = posted /\ file = posted /\ orphans = {} /\ missed = FALSE /\ settled = FALSE
      /\ at = "polling" /\ fingerprint = <<>>
  BY DEF LiveStatusInit, Pictures
<1>2. LiveStatusTypeOK
  <2>1. posted \in 0..MaxPosts
    BY <1>1, PostsAssumption
  <2>2. missed \in BOOLEAN /\ settled \in BOOLEAN
    BY <1>1
  <2>3. DOMAIN discord \subseteq 1..posted /\ \A m \in DOMAIN discord : discord[m] \in Pictures
    BY <1>1
  <2> QED BY <1>1, <2>1, <2>2, <2>3, NoFingerprint DEF LiveStatusTypeOK
<1>3. FingerprintKnown /\ PostsAnew /\ PushIsShown
  BY <1>1 DEF FingerprintKnown, PostsAnew, PushIsShown
<1>4. NoStrays
  BY <1>1 DEF NoStrays
<1> QED BY <1>2, <1>3, <1>4 DEF StatusInv

\* Events, polls and cycles without a push.
LEMMA CycleStep ==
  ASSUME StatusInv,
         (\E c \in StatusCells : EventChanges(c) \/ PollChanges(c)) \/ NothingToRefresh \/ BeginRefresh
  PROVE  StatusInv'
<1> USE DEF StatusInv
<1>1. ASSUME NEW c \in StatusCells, Flip(c), at = "polling",
             UNCHANGED <<at, discord, posted, record, file, orphans, missed>>
      PROVE  /\ state' \in Pictures /\ settled' \in BOOLEAN
             /\ \A d \in StatusCells \ {c} : state'[d] = state[d]
             /\ PostsAnew' /\ NoStrays'
  <2>1. state' \in Pictures /\ \A d \in StatusCells \ {c} : state'[d] = state[d]
    BY <1>1 DEF Flip, LiveStatusTypeOK, Pictures
  <2>2. settled' \in BOOLEAN
    BY <1>1 DEF Flip
  <2> QED BY <1>1, <2>1, <2>2 DEF PostsAnew, NoStrays
<1>2. ASSUME NEW c \in StatusCells, EventChanges(c) PROVE StatusInv'
  <2>1. /\ fingerprint' = <<>> /\ at = "polling" /\ Flip(c)
        /\ UNCHANGED <<at, discord, posted, record, file, orphans, missed>>
    BY <1>2 DEF EventChanges
  <2>2. /\ state' \in Pictures /\ settled' \in BOOLEAN /\ PostsAnew' /\ NoStrays'
    BY <1>1, <2>1
  <2>3. LiveStatusTypeOK'
    BY <2>1, <2>2, NoFingerprint DEF LiveStatusTypeOK
  <2>4. FingerprintKnown' /\ PushIsShown'
    BY <2>1 DEF FingerprintKnown, PushIsShown
  <2> QED BY <2>2, <2>3, <2>4
<1>3. ASSUME NEW c \in StatusCells, PollChanges(c) PROVE StatusInv'
  <2>1. /\ fingerprint' = fingerprint /\ at = "polling" /\ Flip(c) /\ c \in PolledCells
        /\ UNCHANGED <<at, discord, posted, record, file, orphans, missed>>
    BY <1>3 DEF PollChanges
  <2>2. /\ state' \in Pictures /\ settled' \in BOOLEAN /\ PostsAnew' /\ NoStrays'
        /\ \A d \in StatusCells \ {c} : state'[d] = state[d]
    BY <1>1, <2>1
  <2>3. LiveStatusTypeOK'
    BY <2>1, <2>2 DEF LiveStatusTypeOK
  <2>4. FingerprintKnown' /\ PushIsShown'
    BY <2>1, <2>2 DEF FingerprintKnown, PushIsShown
  <2> QED BY <2>2, <2>3, <2>4
<1>4. CASE NothingToRefresh
  <2>1. UNCHANGED <<state, fingerprint, at, discord, posted, record, file, orphans, missed>> /\ settled' = TRUE
    BY <1>4 DEF NothingToRefresh
  <2>2. settled' \in BOOLEAN
    BY <2>1
  <2> QED BY <2>1, <2>2 DEF LiveStatusTypeOK, FingerprintKnown, PostsAnew, NoStrays, PushIsShown
<1>5. CASE BeginRefresh
  <2>1. /\ UNCHANGED <<state, fingerprint, discord, posted, record, file, orphans, missed, settled>>
        /\ at = "polling" /\ at' \in {"posting", "editing"}
        /\ at' = "posting" => record = 0
    BY <1>5 DEF BeginRefresh, NoMessage
  <2>2. LiveStatusTypeOK' /\ FingerprintKnown' /\ PushIsShown'
    BY <2>1 DEF LiveStatusTypeOK, FingerprintKnown, PushIsShown
  <2>3. PostsAnew' /\ NoStrays'
    BY <2>1 DEF PostsAnew, NoStrays, LiveStatusTypeOK
  <2> QED BY <2>2, <2>3
<1> QED BY <1>2, <1>3, <1>4, <1>5

\* What a new message does to the channel.
LEMMA MessagePosted ==
  ASSUME StatusInv, posted < MaxPosts, posted' = posted + 1, Posted(posted + 1)
  PROVE  /\ posted' \in 0..MaxPosts /\ posted' = posted + 1 /\ posted \in Nat
         /\ DOMAIN discord' = DOMAIN discord \cup {posted'}
         /\ DOMAIN discord' \subseteq 1..posted' /\ \A m \in DOMAIN discord' : discord'[m] \in Pictures
         /\ discord'[posted'] = state /\ record # posted'
         /\ record \in 0..posted' /\ file \in 0..posted'
         /\ orphans \subseteq 1..posted'
<1>1. /\ posted' \in 0..MaxPosts /\ posted \in Nat /\ 1..posted \subseteq 1..posted' /\ 0..posted \subseteq 0..posted'
      /\ posted' \notin 0..posted /\ posted' \in 1..posted'
  BY PostsAssumption DEF StatusInv, LiveStatusTypeOK
<1>2. /\ DOMAIN discord' = DOMAIN discord \cup {posted'}
      /\ discord'[posted'] = state
      /\ \A m \in DOMAIN discord : discord'[m] \in Pictures
  BY DEF Posted, StatusInv, LiveStatusTypeOK
<1> QED BY <1>1, <1>2 DEF StatusInv, LiveStatusTypeOK

\* The push itself.
LEMMA PushStep ==
  ASSUME StatusInv,
         EditMessage \/ EditFindsNothing \/ EditFails \/ PostMessage \/ PostFails \/ PostInDoubt \/ SaveRecord
  PROVE  StatusInv'
<1> USE DEF StatusInv
<1>0. state \in Pictures /\ record \in 0..posted /\ posted \in 0..MaxPosts /\ 0 \notin DOMAIN discord
  BY DEF LiveStatusTypeOK
<1>1. CASE EditMessage
  <2>1. /\ at = "editing" /\ record \in DOMAIN discord /\ discord' = [discord EXCEPT ![record] = state]
        /\ EndRefresh(FALSE) /\ UNCHANGED <<posted, record, file, orphans>>
    BY <1>1 DEF EditMessage, Edited
  <2>2. /\ DOMAIN discord' = DOMAIN discord /\ discord'[record] = state
        /\ \A m \in DOMAIN discord' : discord'[m] \in Pictures
    BY <1>0, <2>1 DEF LiveStatusTypeOK
  <2>3. /\ at' = "polling" /\ missed' \in BOOLEAN /\ settled' \in BOOLEAN /\ state' = state
        /\ fingerprint' \in UNION {[S -> BOOLEAN] : S \in SUBSET StatusCells}
        /\ FingerprintKnown' /\ PushIsShown'
    BY <1>0, <2>1, <2>2, PushEnds
  <2>4. LiveStatusTypeOK'
    BY <1>0, <2>1, <2>2, <2>3 DEF LiveStatusTypeOK
  <2>5. PostsAnew' /\ NoStrays'
    BY <2>1, <2>2, <2>3 DEF PostsAnew, NoStrays
  <2> QED BY <2>3, <2>4, <2>5
<1>2. CASE EditFindsNothing
  <2>1. /\ UNCHANGED <<state, fingerprint, discord, posted, record, file, orphans, missed, settled>>
        /\ at = "editing" /\ at' = "posting" /\ record \notin DOMAIN discord
    BY <1>2 DEF EditFindsNothing
  <2> QED BY <2>1 DEF LiveStatusTypeOK, FingerprintKnown, PostsAnew, NoStrays, PushIsShown
<1>3. CASE EditFails
  <2>1. /\ at = "editing" /\ EndRefresh(TRUE) /\ UNCHANGED <<posted, record, file, orphans>>
        /\ discord' = discord \/ (record \in DOMAIN discord /\ discord' = [discord EXCEPT ![record] = state])
    BY <1>3 DEF EditFails, Edited
  <2>2. DOMAIN discord' = DOMAIN discord /\ \A m \in DOMAIN discord' : discord'[m] \in Pictures
    BY <1>0, <2>1 DEF LiveStatusTypeOK
  <2>3. /\ at' = "polling" /\ missed' \in BOOLEAN /\ settled' \in BOOLEAN /\ state' = state
        /\ fingerprint' \in UNION {[S -> BOOLEAN] : S \in SUBSET StatusCells}
        /\ FingerprintKnown' /\ PushIsShown'
    BY <1>0, <2>1, PushEnds
  <2>4. LiveStatusTypeOK'
    BY <1>0, <2>1, <2>2, <2>3 DEF LiveStatusTypeOK
  <2>5. PostsAnew' /\ NoStrays'
    BY <2>1, <2>2, <2>3 DEF PostsAnew, NoStrays
  <2> QED BY <2>3, <2>4, <2>5
<1>4. CASE PostMessage
  <2>1. /\ posted < MaxPosts /\ posted' = posted + 1 /\ Posted(posted + 1)
        /\ at = "posting" /\ at' = "saving"
        /\ UNCHANGED <<state, fingerprint, record, file, orphans, missed, settled>>
    BY <1>4 DEF PostMessage
  <2>2. /\ posted' \in 0..MaxPosts /\ DOMAIN discord' = DOMAIN discord \cup {posted'}
        /\ DOMAIN discord' \subseteq 1..posted' /\ \A m \in DOMAIN discord' : discord'[m] \in Pictures
        /\ discord'[posted'] = state /\ record # posted'
        /\ record \in 0..posted' /\ file \in 0..posted' /\ orphans \subseteq 1..posted'
    BY <2>1, MessagePosted
  <2>3. LiveStatusTypeOK' /\ FingerprintKnown' /\ PushIsShown'
    BY <2>1, <2>2 DEF LiveStatusTypeOK, FingerprintKnown, PushIsShown
  <2>4. PostsAnew' /\ NoStrays'
    BY <2>1, <2>2 DEF PostsAnew, NoStrays
  <2> QED BY <2>3, <2>4
<1>5. CASE PostFails
  <2>1. /\ at = "posting" /\ EndRefresh(TRUE) /\ UNCHANGED <<discord, posted, record, file, orphans>>
    BY <1>5 DEF PostFails
  <2>2. /\ at' = "polling" /\ missed' \in BOOLEAN /\ settled' \in BOOLEAN /\ state' = state
        /\ fingerprint' \in UNION {[S -> BOOLEAN] : S \in SUBSET StatusCells}
        /\ FingerprintKnown' /\ PushIsShown'
    BY <1>0, <2>1, PushEnds
  <2>3. LiveStatusTypeOK' /\ PostsAnew' /\ NoStrays'
    BY <1>0, <2>1, <2>2 DEF LiveStatusTypeOK, PostsAnew, NoStrays
  <2> QED BY <2>2, <2>3
<1>6. CASE PostInDoubt
  <2>1. /\ posted < MaxPosts /\ posted' = posted + 1 /\ Posted(posted + 1)
        /\ at = "posting" /\ EndRefresh(TRUE) /\ orphans' = orphans \cup {posted'}
        /\ UNCHANGED <<record, file>>
    BY <1>6 DEF PostInDoubt
  <2>2. /\ posted' \in 0..MaxPosts /\ DOMAIN discord' = DOMAIN discord \cup {posted'}
        /\ DOMAIN discord' \subseteq 1..posted' /\ \A m \in DOMAIN discord' : discord'[m] \in Pictures
        /\ record \in 0..posted' /\ file \in 0..posted' /\ orphans \subseteq 1..posted'
        /\ posted' \in Nat /\ posted' # 0
    BY <2>1, MessagePosted
  <2>3. /\ at' = "polling" /\ missed' \in BOOLEAN /\ settled' \in BOOLEAN /\ state' = state
        /\ fingerprint' \in UNION {[S -> BOOLEAN] : S \in SUBSET StatusCells}
        /\ FingerprintKnown' /\ PushIsShown'
    BY <1>0, <2>1, PushEnds
  <2>4. LiveStatusTypeOK'
    BY <1>0, <2>1, <2>2, <2>3 DEF LiveStatusTypeOK
  <2>5. PostsAnew' /\ NoStrays'
    BY <2>1, <2>2, <2>3 DEF PostsAnew, NoStrays
  <2> QED BY <2>3, <2>4, <2>5
<1>7. CASE SaveRecord
  <2> DEFINE gone == posted \notin DOMAIN discord
  <2>1. /\ at = "saving" /\ record' = posted /\ file' \in {posted, file}
        /\ EndRefresh(gone) /\ UNCHANGED <<discord, posted, orphans>>
    BY <1>7 DEF SaveRecord
  <2>2. gone \in BOOLEAN
    BY Zenon
  <2>3. ~gone => record' \in DOMAIN discord' /\ discord'[record'] = state
    BY <2>1 DEF PostsAnew
  <2> HIDE DEF gone
  <2>4. /\ at' = "polling" /\ missed' \in BOOLEAN /\ settled' \in BOOLEAN /\ state' = state
        /\ fingerprint' \in UNION {[S -> BOOLEAN] : S \in SUBSET StatusCells}
        /\ FingerprintKnown' /\ PushIsShown'
    BY <1>0, <2>1, <2>2, <2>3, PushEnds
  <2>5. LiveStatusTypeOK'
    BY <1>0, <2>1, <2>4 DEF LiveStatusTypeOK
  <2>6. PostsAnew' /\ NoStrays'
    BY <2>1, <2>4 DEF PostsAnew, NoStrays
  <2> QED BY <2>4, <2>5, <2>6
<1> QED BY <1>1, <1>2, <1>3, <1>4, <1>5, <1>6, <1>7

\* What others do: someone deletes a message, and the process is restarted.
LEMMA AroundStep ==
  ASSUME StatusInv, (\E m \in DOMAIN discord : DeleteMessage(m)) \/ RestartProcess
  PROVE  StatusInv'
<1> USE DEF StatusInv
<1>1. ASSUME NEW m \in DOMAIN discord, DeleteMessage(m) PROVE StatusInv'
  <2>1. /\ discord' = [n \in DOMAIN discord \ {m} |-> discord[n]]
        /\ missed' = (missed \/ m = record) /\ settled' = FALSE
        /\ UNCHANGED <<state, fingerprint, at, posted, record, file, orphans>>
    BY <1>1 DEF DeleteMessage
  <2>2. missed' \in BOOLEAN /\ settled' \in BOOLEAN
    BY <2>1, Zenon
  <2>3. LiveStatusTypeOK'
    BY <2>1, <2>2 DEF LiveStatusTypeOK
  <2>4. FingerprintKnown' /\ PostsAnew' /\ NoStrays'
    BY <2>1 DEF FingerprintKnown, PostsAnew, NoStrays
  <2>5. PushIsShown'
    BY <2>1 DEF PushIsShown
  <2> QED BY <2>3, <2>4, <2>5
<1>2. CASE RestartProcess
  <2>1. /\ record' = file /\ fingerprint' = <<>> /\ at' = "polling"
        /\ orphans' = orphans \cup (DOMAIN discord \ {file})
        /\ missed' = FALSE /\ settled' = FALSE
        /\ UNCHANGED <<state, discord, posted, file>>
    BY <1>2 DEF RestartProcess
  <2>2. missed' \in BOOLEAN /\ settled' \in BOOLEAN
    BY <2>1
  <2>3. LiveStatusTypeOK'
    BY <2>1, <2>2, NoFingerprint DEF LiveStatusTypeOK
  <2>4. FingerprintKnown' /\ PostsAnew' /\ NoStrays' /\ PushIsShown'
    BY <2>1 DEF FingerprintKnown, PostsAnew, NoStrays, PushIsShown
  <2> QED BY <2>3, <2>4
<1> QED BY <1>1, <1>2

\* Every step keeps the invariant.
LEMMA StatusStep == StatusInv /\ [LiveStatusNext]_liveStatusVars => StatusInv'
<1>1. StatusInv /\ UNCHANGED liveStatusVars => StatusInv'
  BY DEF StatusInv, liveStatusVars, LiveStatusTypeOK, FingerprintKnown, PostsAnew, NoStrays, PushIsShown
<1>2. StatusInv /\ LiveStatusNext => StatusInv'
  BY CycleStep, PushStep, AroundStep DEF LiveStatusNext
<1> QED BY <1>1, <1>2

\* The types of the status message, its record and its fingerprint (chat_updater.rs).
THEOREM StatusTyped == LiveStatusSpec => []LiveStatusTypeOK
<1>1. StatusInv => LiveStatusTypeOK
  BY DEF StatusInv
<1> QED BY <1>1, StatusStarts, StatusStep, PTL DEF LiveStatusSpec

\* For any cells, posts, deletions, lost answers and restarts: at the end of a cycle
\* that heard of everything the recorded message is in the channel and shows the state,
\* and any other one was left by a restart or a lost answer (refresh_status_message).
THEOREM FreshStatus == LiveStatusSpec => []OneFreshStatus
<1>1. StatusInv => OneFreshStatus
  <2> SUFFICES ASSUME StatusInv PROVE OneFreshStatus
    OBVIOUS
  <2>1. ASSUME at = "polling", UpToDate, ~missed
        PROVE  /\ record \in DOMAIN discord
               /\ \A c \in StatusCells \ (PolledCells \cap Unprinted) : discord[record][c] = state[c]
    <3>1. /\ StatusFingerprint \in [Printed -> BOOLEAN]
          /\ \A c \in Printed : StatusFingerprint[c] = state[c]
      BY FingerprintTyped DEF StatusInv, LiveStatusTypeOK
    <3>2. fingerprint # <<>>
      <4>1. DOMAIN StatusFingerprint # {}
        BY <3>1, FingerprintAssumption DEF Printed
      <4> QED BY <2>1, <4>1 DEF UpToDate
    <3> QED BY <2>1, <3>1, <3>2 DEF StatusInv, PushIsShown, UpToDate, Printed
  <2> QED BY <2>1 DEF OneFreshStatus, StatusInv, NoStrays
<1> QED BY <1>1, StatusStarts, StatusStep, PTL DEF LiveStatusSpec

---------------------------------------------------------------------------
(***************************************************************************)
(* ChatDelivery. Services and channels wait in line, each once, so what is *)
(* posted to one is over before the next is asked. Untold says to whom the *)
(* message may still come for the first time; Remembered that everyone it  *)
(* is meant for has it, has failed, or still awaits it.                    *)
(***************************************************************************)

\* The services a process can have.
ServiceNames == {"webhook", "matrix", "bot"}
\* Nothing is twice in a sequence.
Distinct(s) == \A i, j \in 1..Len(s) : s[i] = s[j] => i = j

\* The tail of such a sequence has all but its head.
LEMMA HeadsAndTails ==
  ASSUME NEW S, NEW s \in Seq(S), s # <<>>, Distinct(s)
  PROVE  /\ Head(s) \in S /\ Head(s) \in Range(s) /\ Head(s) = s[1]
         /\ Tail(s) \in Seq(S) /\ Len(Tail(s)) = Len(s) - 1 /\ Distinct(Tail(s))
         /\ \A x : x \in Range(Tail(s)) <=> x \in Range(s) /\ x # Head(s)
<1>1. /\ Head(s) \in S /\ Tail(s) \in Seq(S) /\ Len(Tail(s)) = Len(s) - 1
      /\ \A i \in 1..Len(Tail(s)) : Tail(s)[i] = s[i + 1]
  BY HeadTailProperties
<1>2. /\ DOMAIN s = 1..Len(s) /\ DOMAIN Tail(s) = 1..Len(Tail(s)) /\ Len(s) \in Nat /\ Len(s) >= 1
      /\ Head(s) = s[1]
  BY <1>1
<1> DEFINE t == Tail(s)
<1>3. /\ DOMAIN t = 1..Len(t) /\ Len(t) = Len(s) - 1 /\ \A i \in 1..Len(t) : t[i] = s[i + 1]
  BY <1>1, <1>2
<1> HIDE DEF t
<1>4. Head(s) \in Range(s)
  BY <1>2 DEF Range
<1>5. Distinct(t)
  BY <1>2, <1>3 DEF Distinct
<1>6. ASSUME NEW x PROVE x \in Range(t) <=> x \in Range(s) /\ x # Head(s)
  <2>1. ASSUME x \in Range(t) PROVE x \in Range(s) /\ x # Head(s)
    <3>1. PICK i \in 1..Len(t) : x = t[i]
      BY <1>3, <2>1 DEF Range
    <3>2. i + 1 \in 1..Len(s) /\ x = s[i + 1] /\ i + 1 # 1 /\ 1 \in 1..Len(s)
      BY <1>2, <1>3, <3>1
    <3> QED BY <1>2, <3>2 DEF Range, Distinct
  <2>2. ASSUME x \in Range(s), x # Head(s) PROVE x \in Range(t)
    <3>1. PICK i \in 1..Len(s) : x = s[i]
      BY <1>2, <2>2 DEF Range
    <3>2. i - 1 \in 1..Len(t) /\ t[i - 1] = s[(i - 1) + 1]
      BY <1>2, <1>3, <2>2, <3>1
    <3>3. t[i - 1] = x
      BY <3>1, <3>2
    <3> QED BY <1>3, <3>2, <3>3 DEF Range
  <2> QED BY <2>1, <2>2
<1> QED BY <1>1, <1>2, <1>4, <1>5, <1>6 DEF t

\* SetToSeq has every member once.
LEMMA Enumerated ==
  ASSUME NEW S, IsFiniteSet(S)
  PROVE  SetToSeq(S) \in Seq(S) /\ Distinct(SetToSeq(S))
<1>1. Cardinality(S) \in Nat /\ ExistsBijection(1..Cardinality(S), S)
  BY FS_CardinalityType
<1>2. \E f \in [1..Cardinality(S) -> S] : IsInjective(f)
  BY <1>1 DEF ExistsBijection, Bijection, Injection, IsInjective
<1>3. SetToSeq(S) \in [1..Cardinality(S) -> S] /\ IsInjective(SetToSeq(S))
  BY <1>2 DEF SetToSeq
<1> DEFINE e == SetToSeq(S)
<1> HIDE DEF e
<1>4. e \in [1..Cardinality(S) -> S] /\ IsInjective(e)
  BY <1>3 DEF e
<1>5. e \in Seq(S) /\ Len(e) = Cardinality(S) /\ DOMAIN e = 1..Len(e)
  BY <1>1, <1>4
<1>6. Distinct(e)
  BY <1>4, <1>5 DEF Distinct, IsInjective
<1> QED BY <1>5, <1>6 DEF e

\* What every deployment has.
Deployed(d) ==
  /\ d.channels \in Seq(BotChannels) /\ Distinct(d.channels)
  /\ d.hub \in BOOLEAN
  /\ d.hub => d.hook = Absent /\ d.room = Absent
  /\ d.hook = Absent \/ d.channels = <<>>

\* Both kinds of deployments do.
LEMMA Deployments == \A d \in Bootstraps \cup HubDeployments : Deployed(d)
<1>1. /\ <<>> \in Seq(BotChannels) /\ Distinct(<<>>)
      /\ \A c \in BotChannels : <<c>> \in Seq(BotChannels) /\ Distinct(<<c>>)
  BY DEF Distinct
<1>2. SetToSeq(BotChannels) \in Seq(BotChannels) /\ Distinct(SetToSeq(BotChannels))
  BY DeliveryAssumption, Enumerated
<1>3. ASSUME NEW d \in Bootstraps PROVE Deployed(d)
  BY <1>1 DEF Bootstraps, Deployed
<1>4. ASSUME NEW d \in HubDeployments PROVE Deployed(d)
  BY <1>1, <1>2 DEF HubDeployments, Deployed
<1> QED BY <1>3, <1>4

\* Two sequences without a common member.
LEMMA Joined ==
  ASSUME NEW S, NEW s \in Seq(S), NEW t \in Seq(S), Distinct(s), Distinct(t), Range(s) \cap Range(t) = {}
  PROVE  s \o t \in Seq(S) /\ Distinct(s \o t) /\ Range(s \o t) = Range(s) \cup Range(t)
<1> DEFINE r == s \o t
<1>1. /\ r \in Seq(S) /\ Len(r) = Len(s) + Len(t)
      /\ \A i \in 1..(Len(s) + Len(t)) : r[i] = IF i <= Len(s) THEN s[i] ELSE t[i - Len(s)]
  BY ConcatProperties
<1> HIDE DEF r
<1>2. /\ DOMAIN r = 1..Len(r) /\ DOMAIN s = 1..Len(s) /\ DOMAIN t = 1..Len(t)
      /\ Len(s) \in Nat /\ Len(t) \in Nat
  BY <1>1
<1>3. ASSUME NEW i \in 1..Len(r), NEW j \in 1..Len(r), r[i] = r[j] PROVE i = j
  <2>1. CASE i <= Len(s) /\ j <= Len(s)
    BY <1>1, <1>2, <1>3, <2>1 DEF Distinct
  <2>2. CASE i > Len(s) /\ j > Len(s)
    <3>1. /\ i \in 1..(Len(s) + Len(t)) /\ j \in 1..(Len(s) + Len(t))
          /\ i - Len(s) \in 1..Len(t) /\ j - Len(s) \in 1..Len(t)
      BY <1>1, <1>2, <2>2
    <3>2. r[i] = t[i - Len(s)] /\ r[j] = t[j - Len(s)]
      BY <1>1, <1>2, <2>2, <3>1
    <3>3. i - Len(s) = j - Len(s)
      BY <1>3, <3>1, <3>2 DEF Distinct
    <3> QED BY <1>2, <3>3
  <2>3. ASSUME NEW k \in 1..Len(r), NEW l \in 1..Len(r), k <= Len(s), l > Len(s) PROVE r[k] # r[l]
    <3>1. k \in 1..Len(s) /\ l - Len(s) \in 1..Len(t) /\ r[k] = s[k] /\ r[l] = t[l - Len(s)]
      BY <1>1, <1>2, <2>3
    <3>2. r[k] \in Range(s) /\ r[l] \in Range(t)
      BY <1>2, <3>1 DEF Range
    <3> QED BY <3>2
  <2> QED BY <1>1, <1>2, <1>3, <2>1, <2>2, <2>3
<1>4. Range(r) = Range(s) \cup Range(t)
  <2>1. ASSUME NEW x \in Range(r) PROVE x \in Range(s) \cup Range(t)
    <3>1. PICK i \in 1..Len(r) : x = r[i]
      BY <1>2, <2>1 DEF Range
    <3>2. CASE i <= Len(s)
      BY <1>1, <1>2, <3>1, <3>2 DEF Range
    <3>3. CASE i > Len(s)
      <4>1. i - Len(s) \in 1..Len(t) /\ x = t[i - Len(s)]
        BY <1>1, <1>2, <3>1, <3>3
      <4> QED BY <1>2, <4>1 DEF Range
    <3> QED BY <1>2, <3>2, <3>3
  <2>2. ASSUME NEW x \in Range(s) PROVE x \in Range(r)
    <3>1. PICK i \in 1..Len(s) : x = s[i]
      BY <1>2, <2>2 DEF Range
    <3>2. i \in 1..Len(r) /\ r[i] = x
      BY <1>1, <1>2, <3>1
    <3> QED BY <1>2, <3>2 DEF Range
  <2>3. ASSUME NEW x \in Range(t) PROVE x \in Range(r)
    <3>1. PICK i \in 1..Len(t) : x = t[i]
      BY <1>2, <2>3 DEF Range
    <3>2. Len(s) + i \in 1..Len(r) /\ r[Len(s) + i] = t[(Len(s) + i) - Len(s)]
      BY <1>1, <1>2, <3>1
    <3>3. r[Len(s) + i] = x
      BY <1>2, <3>1, <3>2
    <3> QED BY <1>2, <3>2, <3>3 DEF Range
  <2> QED BY <2>1, <2>2, <2>3
<1> QED BY <1>1, <1>3, <1>4 DEF Distinct, r

\* A destination of a deployment has its service.
LEMMA Services ==
  ASSUME NEW d \in Bootstraps \cup HubDeployments
  PROVE  /\ ServicesOf(d) \in Seq(ServiceNames) /\ Distinct(ServicesOf(d))
         /\ d.hook # Absent => "webhook" \in Range(ServicesOf(d))
         /\ d.room # Absent => "matrix" \in Range(ServicesOf(d))
         /\ d.channels # <<>> => "bot" \in Range(ServicesOf(d))
<1> DEFINE a == IF d.hook # Absent THEN <<"webhook">> ELSE <<>>
           b == IF d.room # Absent THEN <<"matrix">> ELSE <<>>
           c == IF d.hub \/ d.channels # <<>> THEN <<"bot">> ELSE <<>>
<1>1. /\ <<>> \in Seq(ServiceNames) /\ Distinct(<<>>) /\ Range(<<>>) = {}
      /\ \A n \in ServiceNames : <<n>> \in Seq(ServiceNames) /\ Distinct(<<n>>) /\ Range(<<n>>) = {n}
  BY DEF Distinct, Range
<1>2. /\ a \in Seq(ServiceNames) /\ Distinct(a) /\ Range(a) = IF d.hook # Absent THEN {"webhook"} ELSE {}
      /\ b \in Seq(ServiceNames) /\ Distinct(b) /\ Range(b) = IF d.room # Absent THEN {"matrix"} ELSE {}
      /\ c \in Seq(ServiceNames) /\ Distinct(c)
      /\ Range(c) = IF d.hub \/ d.channels # <<>> THEN {"bot"} ELSE {}
  BY <1>1 DEF ServiceNames
<1>3. ServicesOf(d) = (a \o b) \o c
  BY DEF ServicesOf
<1> HIDE DEF a, b, c
<1>4. a \o b \in Seq(ServiceNames) /\ Distinct(a \o b) /\ Range(a \o b) = Range(a) \cup Range(b)
  BY <1>2, Joined
<1>5. Range(a \o b) \cap Range(c) = {}
  BY <1>2, <1>4
<1>6. ASSUME NEW s \in Seq(ServiceNames), Distinct(s), Range(s) \cap Range(c) = {}
      PROVE  s \o c \in Seq(ServiceNames) /\ Distinct(s \o c) /\ Range(s \o c) = Range(s) \cup Range(c)
  BY <1>2, <1>6, Joined
<1>7. /\ (a \o b) \o c \in Seq(ServiceNames) /\ Distinct((a \o b) \o c)
      /\ Range((a \o b) \o c) = Range(a \o b) \cup Range(c)
  BY <1>4, <1>5, <1>6
<1> QED BY <1>2, <1>3, <1>4, <1>7
\* Whose turn brings the message to d, and whether that is still to come.
Turn(d) == CASE d = "hook" -> "webhook" [] d = "room" -> "matrix" [] OTHER -> "bot"
Awaits(d) ==
  /\ Turn(d) \in Range(waiting)
  /\ stage = "bot" /\ d \in BotChannels => d \in Range(remaining)

\* Of the room only the text is still to come once.
Untold(d) ==
  /\ Awaits(d)
  /\ stage = "matrix" /\ d = "room" => remaining[1] = "text"

\* The services wait in line, each once, and the first one is being asked.
InLine ==
  /\ stage # "down" => services = ServicesOf(deployment)
  /\ waiting \in Seq(ServiceNames) /\ Distinct(waiting)
  /\ stage \in ServiceNames => waiting # <<>> /\ Head(waiting) = stage
  /\ stage \in {"down", "idle"} => waiting = <<>>
  /\ stage \notin {"down", "idle"} => tries > 0

\* Types of the message under way and of what came of it.
MessageTyped ==
  /\ deployment \in Bootstraps \cup HubDeployments /\ stage \in Stages
  /\ files \in 0..2 /\ tries \in 0..MaxTries \cup 0..MaxSendAttempts
  /\ stage = "thumbnail" => files \in 0..1 /\ tries \in 0..MaxTries
  /\ aim \in Seq(BotChannels) /\ Distinct(aim)
  /\ arrived \in [Destinations -> [text : Nat, file : Nat]] /\ unsure \in [Destinations -> Nat]
  /\ broken \subseteq Destinations /\ successful \in BOOLEAN

\* What the room still lacks is what it was not sent.
RoomSoFar ==
  stage = "matrix" =>
    /\ remaining \in Seq({"text", "file"}) /\ remaining # <<>> /\ Len(remaining) <= files + 1
    /\ \A i \in 2..Len(remaining) : remaining[i] = "file"
    /\ remaining[1] = "text" <=> Len(remaining) = files + 1
    /\ Len(remaining) <= files =>
         arrived["room"].text >= 1 /\ arrived["room"].file >= files - Len(remaining)

\* Every channel is left once; one that is asked alone has not been reached.
ChannelsSoFar ==
  stage = "bot" =>
    /\ remaining \in Seq(BotChannels) /\ remaining # <<>> /\ Distinct(remaining)
    /\ Len(aim) = 1 => remaining = aim /\ delivered = FALSE

OnceEach ==
  \A d \in Destinations :
    /\ arrived[d].text <= 1 + unsure[d]
    /\ Untold(d) => arrived[d].text <= unsure[d]

\* Nobody is passed over ...
Remembered ==
  /\ tries > 0 => \A d \in Meant : HasAll(d) \/ d \in broken \/ Awaits(d)
  /\ stage = "thumbnail" => \A d \in Meant : Awaits(d)

\* ... and a failure that nobody made good is reported.
Reported ==
  successful => "hook" \notin broken /\ "room" \notin broken
                  /\ (Len(aim) = 1 => aim[1] \notin broken)

\* Why every destination is on its own.
FanOutInv ==
  InLine /\ MessageTyped /\ RoomSoFar /\ ChannelsSoFar /\ OnceEach /\ Remembered /\ Reported

\* A service brings a message to its own destinations only.
LEMMA Turns ==
  \A d \in Destinations :
    /\ Turn(d) \in ServiceNames
    /\ Turn(d) = "webhook" <=> d = "hook"
    /\ Turn(d) = "matrix" <=> d = "room"
    /\ Turn(d) = "bot" <=> d \in BotChannels
BY DeliveryAssumption DEF Destinations, Turn, ServiceNames

\* What one post does to what has arrived, and that is nothing elsewhere.
LEMMA PostArrives ==
  ASSUME arrived \in [Destinations -> [text : Nat, file : Nat]], unsure \in [Destinations -> Nat],
         NEW d \in Destinations, NEW what \in [text : Nat, file : Nat],
         Arrives(d, what) \/ MayArrive(d, what)
  PROVE  /\ arrived' \in [Destinations -> [text : Nat, file : Nat]] /\ unsure' \in [Destinations -> Nat]
         /\ \A e \in Destinations : e # d => arrived'[e] = arrived[e] /\ unsure'[e] = unsure[e]
         /\ \A e \in Destinations :
              arrived'[e].text >= arrived[e].text /\ arrived'[e].file >= arrived[e].file
         /\ Arrives(d, what) => /\ arrived'[d].text = arrived[d].text + what.text
                                /\ arrived'[d].file = arrived[d].file + what.file
                                /\ unsure'[d] = unsure[d]
         /\ MayArrive(d, what) => \/ arrived'[d] = arrived[d] /\ unsure'[d] = unsure[d]
                                  \/ /\ arrived'[d].text = arrived[d].text + what.text
                                     /\ unsure'[d] = unsure[d] + 1
<1>1. Plus(arrived[d], what) \in [text : Nat, file : Nat]
  BY DEF Plus
<1>2. /\ Plus(arrived[d], what).text = arrived[d].text + what.text
      /\ Plus(arrived[d], what).file = arrived[d].file + what.file
  BY DEF Plus
<1>3. /\ arrived[d].text \in Nat /\ arrived[d].file \in Nat /\ what.text \in Nat /\ what.file \in Nat
      /\ \A e \in Destinations : arrived[e].text \in Nat /\ arrived[e].file \in Nat
  OBVIOUS
<1>4. CASE UNCHANGED <<arrived, unsure>> /\ arrived' # [arrived EXCEPT ![d] = Plus(@, what)]
  <2>1. ~Arrives(d, what)
    BY <1>4 DEF Arrives
  <2> QED BY <1>3, <1>4, <2>1
<1>5. CASE arrived' = [arrived EXCEPT ![d] = Plus(@, what)]
  <2>1. arrived' = [arrived EXCEPT ![d] = Plus(arrived[d], what)]
    BY <1>5
  <2> DEFINE p == Plus(arrived[d], what)
  <2> HIDE DEF p
  <2>2. /\ p \in [text : Nat, file : Nat] /\ arrived' = [arrived EXCEPT ![d] = p]
        /\ p.text = arrived[d].text + what.text /\ p.file = arrived[d].file + what.file
    BY <1>1, <1>2, <2>1 DEF p
  <2>3. /\ arrived' \in [Destinations -> [text : Nat, file : Nat]] /\ arrived'[d] = p
        /\ \A e \in Destinations : e # d => arrived'[e] = arrived[e]
    BY <2>2
  <2>4. unsure' = unsure \/ unsure' = [unsure EXCEPT ![d] = @ + 1]
    BY DEF Arrives, MayArrive, ArrivesUnsaid
  <2>5. /\ unsure' \in [Destinations -> Nat]
        /\ \A e \in Destinations : e # d => unsure'[e] = unsure[e]
    BY <2>4
  <2>6. \A e \in Destinations : arrived'[e].text >= arrived[e].text /\ arrived'[e].file >= arrived[e].file
    BY <1>3, <2>2, <2>3
  <2>7. Arrives(d, what) => unsure' = unsure
    BY DEF Arrives
  <2>8. MayArrive(d, what) => UNCHANGED <<arrived, unsure>> \/ unsure'[d] = unsure[d] + 1
    BY DEF MayArrive, ArrivesUnsaid
  <2> QED BY <2>2, <2>3, <2>5, <2>6, <2>7, <2>8
<1> QED BY <1>4, <1>5 DEF Arrives, MayArrive, ArrivesUnsaid

\* The next service is asked when the message has been posted or has failed at
\* all that this one brings it to.
LEMMA Passing ==
  ASSUME FanOutInv, waiting # <<>>, waiting' = Tail(waiting), stage' = "services",
         stage \in {"services", "webhook", "matrix", "bot"},
         UNCHANGED <<deployment, services, aim, files, tries>>,
         arrived' \in [Destinations -> [text : Nat, file : Nat]], unsure' \in [Destinations -> Nat],
         broken \subseteq broken', broken' \subseteq Destinations, successful' \in BOOLEAN,
         \A d \in Destinations :
           Turn(d) # Head(waiting) => arrived'[d] = arrived[d] /\ unsure'[d] = unsure[d],
         \A d \in Destinations : arrived'[d].text <= 1 + unsure'[d],
         \A d \in Meant : Turn(d) = Head(waiting) => HasAll(d)' \/ d \in broken',
         Reported'
  PROVE  FanOutInv'
<1>0. waiting \in Seq(ServiceNames) /\ Distinct(waiting) /\ tries > 0
  BY DEF FanOutInv, InLine
<1>1. /\ waiting' \in Seq(ServiceNames) /\ Distinct(waiting)' /\ Head(waiting) \in ServiceNames
      /\ \A x : x \in Range(waiting)' <=> x \in Range(waiting) /\ x # Head(waiting)
  BY <1>0, HeadsAndTails DEF Distinct
<1>2. InLine'
  BY <1>1 DEF FanOutInv, InLine, ServiceNames
<1>3. MessageTyped'
  BY DEF FanOutInv, MessageTyped, Stages, Distinct
<1>4. RoomSoFar' /\ ChannelsSoFar'
  BY DEF RoomSoFar, ChannelsSoFar
<1>5. OnceEach'
  <2> SUFFICES ASSUME NEW d \in Destinations, Untold(d)' PROVE arrived'[d].text <= unsure'[d]
    BY DEF OnceEach, Destinations
  <2>1. Turn(d) \in Range(waiting) /\ Turn(d) # Head(waiting)
    BY <1>1 DEF Untold, Awaits, Turn
  <2>2. Untold(d)
    BY <2>1, Turns DEF FanOutInv, InLine, Untold, Awaits, ServiceNames
  <2> QED BY <2>1, <2>2 DEF FanOutInv, OnceEach
<1>6. Remembered'
  <2>1. Meant' = Meant /\ Meant \subseteq Destinations
    BY DEF Meant, Destinations
  <2> SUFFICES ASSUME NEW d \in Meant PROVE HasAll(d)' \/ d \in broken' \/ Awaits(d)'
    BY <2>1 DEF Remembered
  <2>2. CASE Turn(d) = Head(waiting)
    BY <2>2
  <2>3. CASE Turn(d) # Head(waiting)
    <3>1. HasAll(d) \/ d \in broken \/ Awaits(d)
      BY <1>0 DEF FanOutInv, Remembered
    <3>2. HasAll(d) => HasAll(d)'
      BY <2>1, <2>3 DEF HasAll
    <3>3. Awaits(d) => Awaits(d)'
      BY <1>1, <2>3 DEF Awaits, Turn
    <3> QED BY <3>1, <3>2, <3>3
  <2> QED BY <2>2, <2>3
<1> QED BY <1>2, <1>3, <1>4, <1>5, <1>6 DEF FanOutInv

\* A message is meant for the webhook, the room and the channels it aims at.
LEMMA MeantFor ==
  ASSUME aim \in Seq(BotChannels)
  PROVE  /\ Range(aim) \subseteq BotChannels
         /\ \A d \in Meant :
              /\ d \in Destinations
              /\ d = "hook" => aim = <<>> /\ deployment.hook # Absent
              /\ d = "room" => deployment.room # Absent
              /\ d \in BotChannels => d \in Range(aim) /\ aim # <<>>
<1>1. DOMAIN aim = 1..Len(aim) /\ \A i \in 1..Len(aim) : aim[i] \in BotChannels
  OBVIOUS
<1>2. Range(aim) \subseteq BotChannels /\ "hook" \notin BotChannels /\ "room" \notin BotChannels
  BY <1>1, DeliveryAssumption DEF Range
<1>3. ASSUME NEW d \in Range(aim) PROVE aim # <<>>
  BY <1>3 DEF Range
<1> QED BY <1>2, <1>3 DEF Meant

\* The service whose turn it is.
LEMMA Asking ==
  ASSUME FanOutInv, waiting # <<>>
  PROVE  Head(waiting) \in ServiceNames /\ Head(waiting) \in Range(waiting)
BY HeadsAndTails DEF FanOutInv, InLine

\* SkipService and RefuseAtOnce: a service that is passed over.
LEMMA PassesOver == FanOutInv /\ (SkipService \/ RefuseAtOnce) => FanOutInv'
<1>1. ASSUME FanOutInv, SkipService PROVE FanOutInv'
  <2>1. /\ stage = "services" /\ waiting # <<>> /\ waiting' = Tail(waiting) /\ stage' = "services"
        /\ ~CanRoute(Head(waiting), aim)
        /\ UNCHANGED <<deployment, services, aim, files, tries, remaining, delivered, successful,
                       arrived, unsure, broken>>
    BY <1>1 DEF SkipService, arrivalVars
  <2>2. \A d \in Meant : Turn(d) # Head(waiting)
    <3> SUFFICES ASSUME NEW d \in Meant, Turn(d) = Head(waiting) PROVE FALSE
      OBVIOUS
    <3>1. aim \in Seq(BotChannels)
      BY <1>1 DEF FanOutInv, MessageTyped
    <3>2. /\ d \in Destinations
          /\ d = "hook" => aim = <<>> /\ deployment.hook # Absent
          /\ d = "room" => deployment.room # Absent
          /\ d \in BotChannels => aim # <<>>
      BY <3>1, MeantFor
    <3>3. Turn(d) = "webhook" => d = "hook"
      BY <3>2, Turns
    <3>4. Turn(d) = "matrix" => d = "room"
      BY <3>2, Turns
    <3>5. Turn(d) = "bot" => d \in BotChannels
      BY <3>2, Turns
    <3>6. CanRoute(Turn(d), aim)
      BY <3>2, <3>3, <3>4, <3>5, Turns DEF CanRoute, ServiceNames
    <3> QED BY <2>1, <3>6
  <2>3. Reported'
    BY <1>1, <2>1 DEF FanOutInv, Reported
  <2>4. \A d \in Destinations : arrived'[d].text <= 1 + unsure'[d]
    BY <1>1, <2>1 DEF FanOutInv, OnceEach
  <2>5. /\ arrived' \in [Destinations -> [text : Nat, file : Nat]] /\ unsure' \in [Destinations -> Nat]
        /\ broken' \subseteq Destinations /\ successful' \in BOOLEAN
    BY <1>1, <2>1 DEF FanOutInv, MessageTyped
  <2> QED BY <1>1, <2>1, <2>2, <2>3, <2>4, <2>5, Passing
<1>2. ASSUME FanOutInv, RefuseAtOnce PROVE FanOutInv'
  <2> DEFINE d0 == IF Head(waiting) = "webhook" THEN "hook" ELSE "room"
  <2>1. /\ stage = "services" /\ waiting # <<>> /\ waiting' = Tail(waiting) /\ stage' = "services"
        /\ Head(waiting) \in {"webhook", "matrix"}
        /\ UNCHANGED <<deployment, services, aim, files, tries, remaining, delivered, arrived, unsure>>
        /\ successful' = FALSE /\ broken' = broken \cup {d0}
    BY <1>2 DEF RefuseAtOnce, Unusable
  <2>2. d0 \in Destinations /\ \A d \in Meant : Turn(d) = Head(waiting) => d = d0
    BY <2>1, Turns DEF Destinations, Meant
  <2>3. Reported'
    BY <2>1 DEF Reported
  <2>4. \A d \in Destinations : arrived'[d].text <= 1 + unsure'[d]
    BY <1>2, <2>1 DEF FanOutInv, OnceEach
  <2>5. /\ arrived' \in [Destinations -> [text : Nat, file : Nat]] /\ unsure' \in [Destinations -> Nat]
        /\ broken' \subseteq Destinations /\ successful' \in BOOLEAN
    BY <1>2, <2>1, <2>2 DEF FanOutInv, MessageTyped
  <2> HIDE DEF d0
  <2> QED BY <1>2, <2>1, <2>2, <2>3, <2>4, <2>5, Passing
<1> QED BY <1>1, <1>2

\* The webhook has answered for the last time.
LEMMA WebhookAnswers == FanOutInv /\ (WebhookTakes \/ WebhookFails) => FanOutInv'
<1> SUFFICES ASSUME FanOutInv, WebhookTakes \/ WebhookFails PROVE FanOutInv'
  OBVIOUS
<1>1. /\ stage = "webhook" /\ stage' = "services" /\ waiting' = Tail(waiting)
      /\ UNCHANGED <<deployment, services, aim, files, tries>>
      /\ Arrives("hook", Whole) \/ MayArrive("hook", Whole)
      /\ \/ Arrives("hook", Whole) /\ successful' = (successful /\ TRUE) /\ broken' = broken
         \/ successful' = (successful /\ FALSE) /\ broken' = broken \cup {"hook"}
  BY DEF WebhookTakes, WebhookFails, NextService
<1>2. /\ waiting # <<>> /\ Head(waiting) = "webhook" /\ "webhook" \in Range(waiting)
      /\ "hook" \in Destinations
  BY <1>1, Asking DEF FanOutInv, InLine, ServiceNames, Destinations
<1>3. Untold("hook")
  BY <1>1, <1>2, DeliveryAssumption DEF Untold, Awaits, Turn
<1>4. /\ Whole \in [text : Nat, file : Nat] /\ Whole.text = 1 /\ Whole.file = files
      /\ files \in 0..2
  BY DEF Whole, FanOutInv, MessageTyped
<1>5. /\ arrived \in [Destinations -> [text : Nat, file : Nat]] /\ unsure \in [Destinations -> Nat]
      /\ broken \subseteq Destinations /\ successful \in BOOLEAN
  BY DEF FanOutInv, MessageTyped
<1>6. /\ arrived' \in [Destinations -> [text : Nat, file : Nat]] /\ unsure' \in [Destinations -> Nat]
      /\ \A e \in Destinations : e # "hook" => arrived'[e] = arrived[e] /\ unsure'[e] = unsure[e]
      /\ Arrives("hook", Whole) => /\ arrived'["hook"].text = arrived["hook"].text + 1
                                   /\ arrived'["hook"].file = arrived["hook"].file + files
                                   /\ unsure'["hook"] = unsure["hook"]
      /\ MayArrive("hook", Whole) =>
           \/ arrived'["hook"] = arrived["hook"] /\ unsure'["hook"] = unsure["hook"]
           \/ arrived'["hook"].text = arrived["hook"].text + 1 /\ unsure'["hook"] = unsure["hook"] + 1
  BY <1>1, <1>2, <1>4, <1>5, PostArrives
<1>7. \A d \in Destinations : arrived'[d].text <= 1 + unsure'[d]
  <2>1. /\ \A d \in Destinations : arrived[d].text <= 1 + unsure[d]
        /\ arrived["hook"].text <= unsure["hook"]
    BY <1>2, <1>3 DEF FanOutInv, OnceEach
  <2>2. arrived["hook"].text \in Nat /\ unsure["hook"] \in Nat
    BY <1>2, <1>5
  <2>3. arrived'["hook"].text <= 1 + unsure'["hook"]
    BY <1>1, <1>6, <2>1, <2>2
  <2> QED BY <1>6, <2>1, <2>3
<1>8. \A d \in Meant : Turn(d) = "webhook" => HasAll(d)' \/ d \in broken'
  <2>1. \A d \in Meant : Turn(d) = "webhook" => d = "hook"
    BY Turns DEF Meant
  <2>2. Arrives("hook", Whole) => HasAll("hook")'
    <3>1. arrived["hook"].text \in Nat /\ arrived["hook"].file \in Nat
      BY <1>2, <1>5
    <3> QED BY <1>1, <1>4, <1>6, <3>1 DEF HasAll
  <2> QED BY <1>1, <2>1, <2>2
<1>9. Reported'
  BY <1>1, <1>5 DEF FanOutInv, Reported
<1>10. \A d \in Destinations : Turn(d) # "webhook" => arrived'[d] = arrived[d] /\ unsure'[d] = unsure[d]
  BY <1>6, Turns
<1>11. broken \subseteq broken' /\ broken' \subseteq Destinations /\ successful' \in BOOLEAN
  BY <1>1, <1>2, <1>5
<1> QED BY <1>1, <1>2, <1>6, <1>7, <1>8, <1>9, <1>10, <1>11, Passing

\* The parts of the message to a room.
LEMMA PartTyped ==
  ASSUME NEW p \in {"text", "file"}
  PROVE  /\ Part(p) \in [text : Nat, file : Nat]
         /\ p = "text" => Part(p).text = 1 /\ Part(p).file = 0
         /\ p = "file" => Part(p).text = 0 /\ Part(p).file = 1
BY DEF Part

\* RoomTakes and RoomFails: the text, then one file after the other.
LEMMA RoomAnswers == FanOutInv /\ (RoomTakes \/ RoomFails) => FanOutInv'
<1> SUFFICES ASSUME FanOutInv, RoomTakes \/ RoomFails PROVE FanOutInv'
  OBVIOUS
<1> DEFINE p == Head(remaining)
<1>1. /\ stage = "matrix" /\ UNCHANGED <<deployment, services, aim, files, tries, delivered, routed>>
      /\ Arrives("room", Part(p)) \/ MayArrive("room", Part(p))
  BY DEF RoomTakes, RoomFails
<1>2. /\ remaining \in Seq({"text", "file"}) /\ remaining # <<>> /\ Len(remaining) <= files + 1
      /\ \A i \in 2..Len(remaining) : remaining[i] = "file"
      /\ remaining[1] = "text" <=> Len(remaining) = files + 1
      /\ Len(remaining) <= files =>
           arrived["room"].text >= 1 /\ arrived["room"].file >= files - Len(remaining)
  BY <1>1 DEF FanOutInv, RoomSoFar
<1>3. /\ Len(remaining) \in Nat /\ Len(remaining) >= 1 /\ p = remaining[1] /\ p \in {"text", "file"}
      /\ Tail(remaining) \in Seq({"text", "file"}) /\ Len(Tail(remaining)) = Len(remaining) - 1
      /\ \A i \in 1..Len(Tail(remaining)) : Tail(remaining)[i] = remaining[i + 1]
  BY <1>2, HeadTailProperties
<1> HIDE DEF p
<1>4. waiting # <<>> /\ Head(waiting) = "matrix" /\ "room" \in Destinations /\ "matrix" \in Range(waiting)
  BY <1>1, Asking DEF FanOutInv, InLine, ServiceNames, Destinations
<1>5. /\ arrived \in [Destinations -> [text : Nat, file : Nat]] /\ unsure \in [Destinations -> Nat]
      /\ broken \subseteq Destinations /\ successful \in BOOLEAN /\ files \in 0..2
      /\ arrived["room"].text \in Nat /\ arrived["room"].file \in Nat /\ unsure["room"] \in Nat
  <2>1. /\ arrived \in [Destinations -> [text : Nat, file : Nat]] /\ unsure \in [Destinations -> Nat]
        /\ broken \subseteq Destinations /\ successful \in BOOLEAN /\ files \in 0..2
    BY DEF FanOutInv, MessageTyped
  <2> QED BY <1>4, <2>1
<1>6. /\ Part(p) \in [text : Nat, file : Nat]
      /\ p = "text" => Part(p).text = 1 /\ Part(p).file = 0
      /\ p = "file" => Part(p).text = 0 /\ Part(p).file = 1
  BY <1>3, PartTyped
<1>7. /\ arrived' \in [Destinations -> [text : Nat, file : Nat]] /\ unsure' \in [Destinations -> Nat]
      /\ \A e \in Destinations : e # "room" => arrived'[e] = arrived[e] /\ unsure'[e] = unsure[e]
      /\ Arrives("room", Part(p)) =>
           /\ arrived'["room"].text = arrived["room"].text + Part(p).text
           /\ arrived'["room"].file = arrived["room"].file + Part(p).file
           /\ unsure'["room"] = unsure["room"]
      /\ MayArrive("room", Part(p)) =>
           \/ arrived'["room"] = arrived["room"] /\ unsure'["room"] = unsure["room"]
           \/ /\ arrived'["room"].text = arrived["room"].text + Part(p).text
              /\ unsure'["room"] = unsure["room"] + 1
  BY <1>1, <1>4, <1>5, <1>6, PostArrives
<1>8. \A d \in Destinations : arrived'[d].text <= 1 + unsure'[d]
  <2>1. /\ \A d \in Destinations : arrived[d].text <= 1 + unsure[d]
        /\ p = "text" => arrived["room"].text <= unsure["room"]
    <3>1. p = "text" => Untold("room")
      BY <1>1, <1>3, <1>4, DeliveryAssumption DEF Untold, Awaits, Turn
    <3> QED BY <1>4, <3>1 DEF FanOutInv, OnceEach
  <2>2. arrived'["room"].text <= 1 + unsure'["room"]
    BY <1>1, <1>3, <1>4, <1>5, <1>6, <1>7, <2>1
  <2> QED BY <1>7, <2>1, <2>2
<1>9. \A d \in Destinations : Turn(d) # "matrix" => arrived'[d] = arrived[d] /\ unsure'[d] = unsure[d]
  BY <1>7, Turns
<1>10. CASE RoomTakes /\ Len(remaining) = 1
  <2>1. /\ Arrives("room", Part(p)) /\ NextService(TRUE) /\ broken' = broken
    BY <1>10 DEF RoomTakes, p
  <2>2. HasAll("room")'
    BY <1>1, <1>2, <1>3, <1>5, <1>6, <1>7, <1>10, <2>1 DEF HasAll
  <2>3. \A d \in Meant : Turn(d) = "matrix" => HasAll(d)' \/ d \in broken'
    BY <2>2, Turns DEF Meant
  <2>4. Reported'
    BY <1>1, <1>5, <2>1 DEF FanOutInv, Reported, NextService
  <2>5. /\ broken \subseteq broken' /\ broken' \subseteq Destinations /\ successful' \in BOOLEAN
        /\ stage' = "services" /\ waiting' = Tail(waiting)
    BY <1>5, <2>1 DEF NextService
  <2> QED BY <1>1, <1>4, <1>7, <1>8, <1>9, <2>3, <2>4, <2>5, Passing
<1>11. CASE RoomFails
  <2>1. /\ NextService(FALSE) /\ broken' = broken \cup {"room"}
    BY <1>11 DEF RoomFails
  <2>2. \A d \in Meant : Turn(d) = "matrix" => HasAll(d)' \/ d \in broken'
    BY <2>1, Turns DEF Meant
  <2>3. Reported'
    BY <2>1 DEF Reported, NextService
  <2>4. /\ broken \subseteq broken' /\ broken' \subseteq Destinations /\ successful' \in BOOLEAN
        /\ stage' = "services" /\ waiting' = Tail(waiting)
    BY <1>4, <1>5, <2>1 DEF NextService
  <2> QED BY <1>1, <1>4, <1>7, <1>8, <1>9, <2>2, <2>3, <2>4, Passing
<1>12. CASE RoomTakes /\ Len(remaining) # 1
  <2>1. /\ Arrives("room", Part(p)) /\ remaining' = Tail(remaining)
        /\ UNCHANGED <<stage, waiting, successful, broken>>
    BY <1>12 DEF RoomTakes, p
  <2>2. /\ Len(remaining') = Len(remaining) - 1 /\ remaining' # <<>>
        /\ remaining' \in Seq({"text", "file"}) /\ remaining'[1] = "file"
        /\ \A i \in 1..Len(remaining') : remaining'[i] = "file"
    <3>1. \A i \in 1..Len(remaining') : remaining'[i] = remaining[i + 1] /\ i + 1 \in 2..Len(remaining)
      BY <1>3, <2>1
    <3>2. Len(remaining') = Len(remaining) - 1 /\ Len(remaining) - 1 >= 1
      BY <1>3, <1>12, <2>1
    <3>3. remaining' \in Seq({"text", "file"})
      BY <1>3, <2>1
    <3>4. remaining' # <<>>
      BY <1>3, <3>2
    <3> QED BY <1>2, <1>3, <3>1, <3>2, <3>3, <3>4
  <2>3. RoomSoFar'
    <3>a. files \in Nat /\ files' = files
      BY <1>1, <1>5
    <3>b. Len(remaining') = Len(remaining) - 1
      BY <2>2
    <3>c. Len(remaining) \in Nat /\ Len(remaining) <= files + 1
      BY <1>2, <1>3
    <3>0. /\ Len(remaining') = Len(remaining) - 1 /\ Len(remaining) \in Nat /\ Len(remaining) <= files + 1
          /\ files \in Nat /\ files' = files
      BY <3>a, <3>b, <3>c
    <3> DEFINE l == Len(remaining)
    <3> HIDE DEF l
    <3>1. Len(remaining') <= files' /\ Len(remaining') # files' + 1
      <4>1. Len(remaining') = l - 1 /\ l \in Nat /\ l <= files + 1
        BY <3>0 DEF l
      <4> QED BY <3>0, <4>1
    <3>2. arrived'["room"].text >= 1 /\ arrived'["room"].file >= files' - Len(remaining')
      <4>1. Len(remaining') = l - 1 /\ l \in Nat /\ l <= files + 1 /\ (p = "text" <=> l = files + 1)
        BY <1>2, <1>3, <3>0 DEF l
      <4>2. l <= files => arrived["room"].text >= 1 /\ arrived["room"].file >= files - l
        BY <1>2 DEF l
      <4>3. /\ arrived'["room"].text = arrived["room"].text + Part(p).text
            /\ arrived'["room"].file = arrived["room"].file + Part(p).file
        BY <1>7, <2>1
      <4>4. CASE p = "text"
        BY <1>5, <1>6, <3>0, <4>1, <4>3, <4>4
      <4>5. CASE p = "file"
        BY <1>5, <1>6, <3>0, <4>1, <4>2, <4>3, <4>5
      <4> QED BY <1>3, <4>4, <4>5
    <3>3. \A i \in 2..Len(remaining') : remaining'[i] = "file"
      BY <2>2
    <3>4. remaining'[1] # "text"
      BY <2>2
    <3> QED BY <1>1, <1>5, <2>2, <3>1, <3>2, <3>3, <3>4 DEF RoomSoFar
  <2>4. InLine' /\ MessageTyped' /\ ChannelsSoFar'
    BY <1>1, <1>7, <2>1 DEF FanOutInv, InLine, MessageTyped, ChannelsSoFar, Distinct
  <2>5. OnceEach'
    <3> SUFFICES ASSUME NEW d \in Destinations, Untold(d)' PROVE arrived'[d].text <= unsure'[d]
      BY <1>8 DEF OnceEach, Destinations
    <3>1. d # "room"
      BY <1>1, <2>1, <2>2 DEF Untold
    <3>2. Untold(d)
      BY <1>1, <2>1, <3>1 DEF Untold, Awaits, Turn
    <3> QED BY <1>7, <3>1, <3>2 DEF FanOutInv, OnceEach
  <2>6. Remembered'
    <3>1. Meant' = Meant /\ Meant \subseteq Destinations
      BY <1>1 DEF Meant, Destinations
    <3>2. ASSUME NEW d \in Meant PROVE HasAll(d)' \/ d \in broken' \/ Awaits(d)'
      <4>1. CASE d = "room"
        BY <1>1, <1>4, <2>1, <4>1, DeliveryAssumption DEF Awaits, Turn
      <4>2. CASE d # "room"
        <5>1. HasAll(d) \/ d \in broken \/ Awaits(d)
          BY <1>1 DEF FanOutInv, Remembered, InLine
        <5> QED BY <1>1, <1>7, <2>1, <3>1, <4>2, <5>1 DEF HasAll, Awaits, Turn
      <4> QED BY <4>1, <4>2
    <3> QED BY <1>1, <2>1, <3>1, <3>2 DEF Remembered
  <2>7. Reported'
    BY <1>1, <2>1 DEF FanOutInv, Reported
  <2> QED BY <2>3, <2>4, <2>5, <2>6, <2>7 DEF FanOutInv
<1> QED BY <1>10, <1>11, <1>12

\* ChannelTakes and ChannelFails: fan_out goes on to the next channel.
LEMMA ChannelAnswers == FanOutInv /\ (ChannelTakes \/ ChannelFails) => FanOutInv'
<1> SUFFICES ASSUME FanOutInv, ChannelTakes \/ ChannelFails PROVE FanOutInv'
  OBVIOUS
<1> DEFINE c == Head(remaining)
<1>1. /\ stage = "bot" /\ UNCHANGED <<deployment, services, aim, files, tries, routed>>
      /\ Arrives(c, Whole) \/ MayArrive(c, Whole)
      /\ \/ Arrives(c, Whole) /\ FanOut(TRUE) /\ broken' = broken
         \/ FanOut(FALSE) /\ broken' = broken \cup {c}
  BY DEF ChannelTakes, ChannelFails
<1>2. /\ remaining \in Seq(BotChannels) /\ remaining # <<>> /\ Distinct(remaining)
      /\ Len(aim) = 1 => remaining = aim /\ delivered = FALSE
  BY <1>1 DEF FanOutInv, ChannelsSoFar
<1>3. /\ Len(remaining) \in Nat /\ Len(remaining) >= 1 /\ c \in BotChannels /\ c \in Range(remaining)
      /\ c = remaining[1] /\ Tail(remaining) \in Seq(BotChannels)
      /\ Len(Tail(remaining)) = Len(remaining) - 1 /\ Distinct(Tail(remaining))
      /\ \A x : x \in Range(Tail(remaining)) <=> x \in Range(remaining) /\ x # c
  BY <1>2, HeadsAndTails
<1> HIDE DEF c
<1>4. waiting # <<>> /\ Head(waiting) = "bot" /\ "bot" \in Range(waiting)
  BY <1>1, Asking DEF FanOutInv, InLine, ServiceNames
<1>5. c \in Destinations /\ c # "hook" /\ c # "room" /\ Turn(c) = "bot"
  BY <1>3, DeliveryAssumption DEF Destinations, Turn
<1>6. /\ arrived \in [Destinations -> [text : Nat, file : Nat]] /\ unsure \in [Destinations -> Nat]
      /\ broken \subseteq Destinations /\ successful \in BOOLEAN /\ files \in 0..2
  BY DEF FanOutInv, MessageTyped
<1>7. arrived[c].text \in Nat /\ arrived[c].file \in Nat /\ unsure[c] \in Nat
  BY <1>5, <1>6
<1>8. Whole \in [text : Nat, file : Nat] /\ Whole.text = 1 /\ Whole.file = files
  BY <1>6 DEF Whole
<1>9. /\ arrived' \in [Destinations -> [text : Nat, file : Nat]] /\ unsure' \in [Destinations -> Nat]
      /\ \A e \in Destinations : e # c => arrived'[e] = arrived[e] /\ unsure'[e] = unsure[e]
      /\ Arrives(c, Whole) => /\ arrived'[c].text = arrived[c].text + 1
                              /\ arrived'[c].file = arrived[c].file + files
                              /\ unsure'[c] = unsure[c]
      /\ MayArrive(c, Whole) => \/ arrived'[c] = arrived[c] /\ unsure'[c] = unsure[c]
                                \/ arrived'[c].text = arrived[c].text + 1 /\ unsure'[c] = unsure[c] + 1
  BY <1>1, <1>5, <1>6, <1>8, PostArrives
<1>10. \A d \in Destinations : arrived'[d].text <= 1 + unsure'[d]
  <2>1. Untold(c)
    BY <1>1, <1>3, <1>4, <1>5 DEF Untold, Awaits
  <2>2. /\ \A d \in Destinations : arrived[d].text <= 1 + unsure[d]
        /\ arrived[c].text <= unsure[c]
    BY <1>5, <2>1 DEF FanOutInv, OnceEach
  <2>3. arrived'[c].text <= 1 + unsure'[c]
    BY <1>1, <1>7, <1>9, <2>2
  <2> QED BY <1>9, <2>2, <2>3
<1>11. c \in broken' \/ (arrived'[c].text >= 1 /\ arrived'[c].file >= files)
  <2>1. Arrives(c, Whole) => arrived'[c].text >= 1 /\ arrived'[c].file >= files
    BY <1>6, <1>7, <1>9
  <2> QED BY <1>1, <2>1
<1>12. /\ broken \subseteq broken' /\ broken' \subseteq broken \cup {c} /\ broken' \subseteq Destinations
  BY <1>1, <1>5, <1>6
<1>13. ASSUME NEW d \in Meant, Turn(d) = "bot", d \notin Range(Tail(remaining))
       PROVE  d \in broken' \/ (arrived'[d].text >= 1 /\ arrived'[d].file >= files)
  <2>1. CASE d = c
    BY <1>11, <2>1
  <2>2. CASE d # c
    <3>1. d \in Destinations /\ d \in BotChannels
      BY <1>13, Turns DEF Meant
    <3>2. ~Awaits(d)
      BY <1>1, <1>3, <1>13, <2>2, <3>1 DEF Awaits
    <3>3. HasAll(d) \/ d \in broken
      BY <1>1, <3>2 DEF FanOutInv, Remembered, InLine
    <3> QED BY <1>9, <1>12, <2>2, <3>1, <3>3 DEF HasAll
  <2> QED BY <2>1, <2>2
<1>14. CASE GoesOn(TRUE)
  <2>1. /\ Len(remaining) > 1 /\ remaining' = Tail(remaining)
        /\ UNCHANGED <<stage, waiting, successful>>
    BY <1>1, <1>14 DEF FanOut, GoesOn
  <2>2. Len(aim) # 1
    BY <1>2, <2>1
  <2>3. /\ remaining' \in Seq(BotChannels) /\ Distinct(remaining)' /\ Len(remaining') >= 1
    BY <1>3, <2>1 DEF Distinct
  <2>4. remaining' # <<>>
    BY <2>3
  <2>5. ChannelsSoFar' /\ RoomSoFar'
    BY <1>1, <2>1, <2>2, <2>3, <2>4 DEF ChannelsSoFar, RoomSoFar
  <2>6. InLine' /\ MessageTyped'
    BY <1>1, <1>9, <1>12, <2>1 DEF FanOutInv, InLine, MessageTyped, Distinct
  <2>7. OnceEach'
    <3> SUFFICES ASSUME NEW d \in Destinations, Untold(d)' PROVE arrived'[d].text <= unsure'[d]
      BY <1>10 DEF OnceEach, Destinations
    <3>1. d # c
      BY <1>1, <1>3, <1>5, <2>1 DEF Untold, Awaits
    <3>2. Untold(d)
      BY <1>1, <1>3, <2>1 DEF Untold, Awaits, Turn
    <3> QED BY <1>9, <3>1, <3>2 DEF FanOutInv, OnceEach
  <2>8. Remembered'
    <3>1. Meant' = Meant /\ Meant \subseteq Destinations
      BY <1>1 DEF Meant, Destinations
    <3>2. ASSUME NEW d \in Meant PROVE HasAll(d)' \/ d \in broken' \/ Awaits(d)'
      <4>1. CASE Turn(d) = "bot" /\ d \notin Range(Tail(remaining))
        BY <1>1, <1>13, <4>1 DEF HasAll
      <4>2. CASE Turn(d) = "bot" /\ d \in Range(Tail(remaining))
        BY <1>1, <1>4, <2>1, <4>2 DEF Awaits, Turn
      <4>3. CASE Turn(d) # "bot"
        <5>1. HasAll(d) \/ d \in broken \/ Awaits(d)
          BY <1>1 DEF FanOutInv, Remembered, InLine
        <5>2. d # c /\ d \notin BotChannels
          BY <1>5, <3>1, <4>3, Turns
        <5> QED BY <1>1, <1>9, <1>12, <2>1, <3>1, <5>1, <5>2 DEF HasAll, Awaits, Turn
      <4> QED BY <4>1, <4>2, <4>3
    <3> QED BY <1>1, <2>1, <3>1, <3>2 DEF Remembered
  <2>9. Reported'
    BY <1>1, <1>5, <1>12, <2>1, <2>2 DEF FanOutInv, Reported
  <2> QED BY <2>5, <2>6, <2>7, <2>8, <2>9 DEF FanOutInv
<1>15. CASE ~GoesOn(TRUE)
  <2>1. Len(remaining) = 1
    BY <1>3, <1>15 DEF GoesOn
  <2>2. /\ waiting' = Tail(waiting) /\ stage' = "services"
        /\ \/ broken' = broken /\ successful' = (successful /\ (delivered \/ TRUE))
           \/ broken' = broken \cup {c} /\ successful' = (successful /\ (delivered \/ FALSE))
    BY <1>1, <1>15 DEF FanOut, GoesOn, NextService
  <2>3. Range(Tail(remaining)) = {}
    <3> DEFINE rest == Tail(remaining)
    <3> HIDE DEF rest
    <3>1. rest \in Seq(BotChannels) /\ Len(rest) = 0
      BY <1>3, <2>1 DEF rest
    <3>2. DOMAIN rest = {}
      BY <3>1
    <3> QED BY <3>2 DEF Range, rest
  <2>4. \A d \in Meant : Turn(d) = "bot" => HasAll(d)' \/ d \in broken'
    BY <1>1, <1>13, <2>3 DEF HasAll
  <2>5. successful' \in BOOLEAN
    BY <1>6, <2>2, Zenon
  <2>6. Reported'
    <3>1. successful' => successful
      BY <2>2
    <3>2. successful' /\ Len(aim) = 1 => broken' = broken
      BY <1>2, <2>2
    <3> QED BY <1>1, <1>5, <1>12, <3>1, <3>2 DEF FanOutInv, Reported
  <2>7. \A d \in Destinations : Turn(d) # "bot" => arrived'[d] = arrived[d] /\ unsure'[d] = unsure[d]
    BY <1>5, <1>9
  <2> QED BY <1>1, <1>4, <1>9, <1>10, <1>12, <2>2, <2>4, <2>5, <2>6, <2>7, Passing
<1> QED BY <1>14, <1>15

\* WebhookBusy: the webhook is tried again, and may have taken the message.
LEMMA WebhookAgain == ASSUME FanOutInv, NEW again \in BOOLEAN, WebhookBusy(again) PROVE FanOutInv'
<1>1. /\ stage = "webhook" /\ tries < MaxSendAttempts /\ tries' = tries + 1
      /\ MayArrive("hook", Whole)
      /\ UNCHANGED <<deployment, services, stage, aim, files, waiting, remaining, delivered, routed,
                     successful, broken>>
  BY DEF WebhookBusy, MayArrive
<1>2. waiting # <<>> /\ "webhook" \in Range(waiting) /\ "hook" \in Destinations
  BY <1>1, Asking DEF FanOutInv, InLine, ServiceNames, Destinations
<1>3. Untold("hook")
  BY <1>1, <1>2, DeliveryAssumption DEF Untold, Awaits, Turn
<1>4. /\ Whole \in [text : Nat, file : Nat] /\ Whole.text = 1
  BY DEF Whole, FanOutInv, MessageTyped
<1>5. arrived \in [Destinations -> [text : Nat, file : Nat]] /\ unsure \in [Destinations -> Nat]
  BY DEF FanOutInv, MessageTyped
<1>6. arrived["hook"].text \in Nat /\ unsure["hook"] \in Nat
  BY <1>2, <1>5
<1>7. /\ arrived' \in [Destinations -> [text : Nat, file : Nat]] /\ unsure' \in [Destinations -> Nat]
      /\ \A e \in Destinations : e # "hook" => arrived'[e] = arrived[e] /\ unsure'[e] = unsure[e]
      /\ \A e \in Destinations :
              arrived'[e].text >= arrived[e].text /\ arrived'[e].file >= arrived[e].file
      /\ \/ arrived'["hook"] = arrived["hook"] /\ unsure'["hook"] = unsure["hook"]
         \/ arrived'["hook"].text = arrived["hook"].text + 1 /\ unsure'["hook"] = unsure["hook"] + 1
  BY <1>1, <1>2, <1>4, <1>5, PostArrives
<1>8. InLine' /\ MessageTyped' /\ RoomSoFar' /\ ChannelsSoFar' /\ Reported'
  <2>1. tries \in Nat /\ tries + 1 \in 0..MaxSendAttempts /\ tries + 1 > 0
    BY <1>1, DeliveryAssumption DEF FanOutInv, MessageTyped
  <2>2. InLine' /\ RoomSoFar' /\ ChannelsSoFar' /\ Reported'
    BY <1>1, <2>1 DEF FanOutInv, InLine, RoomSoFar, ChannelsSoFar, Reported, Distinct
  <2>3. MessageTyped'
    BY <1>1, <1>7, <2>1 DEF FanOutInv, MessageTyped, Distinct
  <2> QED BY <2>2, <2>3
<1>9. OnceEach'
  <2>1. \A d \in Destinations : Untold(d)' => Untold(d)
    BY <1>1 DEF Untold, Awaits, Turn
  <2>2. arrived["hook"].text <= unsure["hook"]
    BY <1>2, <1>3 DEF FanOutInv, OnceEach
  <2>3. arrived'["hook"].text <= unsure'["hook"] /\ arrived'["hook"].text <= 1 + unsure'["hook"]
    BY <1>6, <1>7, <2>2
  <2>4. Destinations' = Destinations
    BY DEF Destinations
  <2> QED BY <1>7, <2>1, <2>3, <2>4 DEF FanOutInv, OnceEach
<1>10. Remembered'
  <2>1. Meant' = Meant /\ Meant \subseteq Destinations
    BY <1>1 DEF Meant, Destinations
  <2>2. ASSUME NEW d \in Meant PROVE HasAll(d)' \/ d \in broken' \/ Awaits(d)'
    <3>1. HasAll(d) \/ d \in broken \/ Awaits(d)
      BY <1>1 DEF FanOutInv, Remembered, InLine
    <3>2. HasAll(d) => HasAll(d)'
      <4>1. /\ arrived[d].text \in Nat /\ arrived[d].file \in Nat /\ files \in Nat /\ files' = files
            /\ arrived'[d].text \in Nat /\ arrived'[d].file \in Nat
            /\ arrived'[d].text >= arrived[d].text /\ arrived'[d].file >= arrived[d].file
        BY <1>1, <1>5, <1>7, <2>1 DEF FanOutInv, MessageTyped
      <4> QED BY <4>1 DEF HasAll
    <3>3. Awaits(d) => Awaits(d)'
      BY <1>1 DEF Awaits, Turn
    <3> QED BY <1>1, <3>1, <3>2, <3>3
  <2> QED BY <1>1, <2>1, <2>2 DEF Remembered
<1> QED BY <1>8, <1>9, <1>10 DEF FanOutInv

\* A fresh message waits for every service of the deployment.
LEMMA FreshMessage ==
  ASSUME FanOutInv, stage = "idle", stage' \in {"services", "thumbnail"},
         NEW channels \in Targets, Fresh(channels), files' \in 0..1, waiting' = services,
         UNCHANGED <<deployment, services>>
  PROVE  FanOutInv'
<1>1. /\ deployment \in Bootstraps \cup HubDeployments /\ services = ServicesOf(deployment)
      /\ Deployed(deployment)
  BY Deployments DEF FanOutInv, MessageTyped, InLine
<1>2. /\ ServicesOf(deployment) \in Seq(ServiceNames) /\ Distinct(ServicesOf(deployment))
      /\ deployment.hook # Absent => "webhook" \in Range(ServicesOf(deployment))
      /\ deployment.room # Absent => "matrix" \in Range(ServicesOf(deployment))
      /\ deployment.channels # <<>> => "bot" \in Range(ServicesOf(deployment))
  BY <1>1, Services
<1>3. /\ channels \in Seq(BotChannels) /\ Distinct(channels)
      /\ channels # <<>> => deployment.channels # <<>>
  <2>1. CASE channels = deployment.channels
    BY <1>1, <2>1 DEF Deployed
  <2>2. ASSUME NEW c \in Range(deployment.channels), channels = <<c>>
        PROVE  channels \in Seq(BotChannels) /\ Distinct(channels) /\ deployment.channels # <<>>
    <3>1. DOMAIN deployment.channels = 1..Len(deployment.channels)
      BY <1>1 DEF Deployed
    <3>2. c \in BotChannels /\ deployment.channels # <<>>
      BY <1>1, <3>1 DEF Deployed, Range
    <3> QED BY <2>2, <3>2 DEF Distinct
  <2> QED BY <2>1, <2>2 DEF Targets
<1>4. /\ aim' = channels /\ tries' = 1 /\ remaining' = <<>> /\ delivered' = FALSE
      /\ successful' = TRUE /\ broken' = {}
      /\ arrived' = [d \in Destinations |-> [text |-> 0, file |-> 0]]
      /\ unsure' = [d \in Destinations |-> 0]
  BY DEF Fresh
<1>5. InLine'
  <2>1. waiting' = ServicesOf(deployment) /\ services' = ServicesOf(deployment) /\ deployment' = deployment
    BY <1>1
  <2>2. services' = ServicesOf(deployment)'
    BY <2>1 DEF ServicesOf
  <2> QED BY <1>2, <1>4, <2>1, <2>2 DEF InLine, ServiceNames, Distinct
<1>6. MessageTyped'
  <2>1. 1 \in 0..MaxTries
    BY DeliveryAssumption
  <2> QED BY <1>1, <1>3, <1>4, <2>1 DEF MessageTyped, Stages, Distinct
<1>7. RoomSoFar' /\ ChannelsSoFar' /\ Reported'
  BY <1>4 DEF RoomSoFar, ChannelsSoFar, Reported
<1>8. OnceEach'
  BY <1>4 DEF OnceEach, Destinations
<1>9. \A d \in Meant' : Awaits(d)'
  <2> SUFFICES ASSUME NEW d \in Meant' PROVE Awaits(d)'
    OBVIOUS
  <2>1. /\ Range(aim)' \subseteq BotChannels
        /\ d \in Destinations
        /\ d = "hook" => deployment.hook # Absent
        /\ d = "room" => deployment.room # Absent
        /\ d \in BotChannels => d \in Range(channels)
    <3>1. /\ d = "hook" \/ d = "room" \/ d \in Range(channels)
          /\ d = "hook" /\ d \notin Range(channels) => deployment.hook # Absent
          /\ d = "room" /\ d \notin Range(channels) => deployment.room # Absent
          /\ d \in Destinations
      BY <1>4 DEF Meant, Destinations
    <3>2. DOMAIN channels = 1..Len(channels)
      BY <1>3
    <3>3. Range(channels) \subseteq BotChannels
      BY <1>3, <3>2 DEF Range
    <3> QED BY <1>4, <3>1, <3>3, DeliveryAssumption
  <2>2. d \in BotChannels => channels # <<>>
    BY <2>1 DEF Range
  <2>3. Turn(d) \in Range(waiting)'
    BY <1>1, <1>2, <1>3, <2>1, <2>2 DEF Turn, Destinations
  <2> QED BY <2>3 DEF Awaits, Turn
<1>10. Remembered'
  BY <1>9 DEF Remembered
<1> QED BY <1>5, <1>6, <1>7, <1>8, <1>10 DEF FanOutInv

\* AskService: the parts of the room's message, or the channels, are what remains.
LEMMA Asks == FanOutInv /\ AskService => FanOutInv'
<1> SUFFICES ASSUME FanOutInv, AskService PROVE FanOutInv'
  OBVIOUS
<1>1. /\ stage = "services" /\ waiting # <<>> /\ CanRoute(Head(waiting), aim)
      /\ stage' = Head(waiting) /\ delivered' = FALSE /\ tries' = 1
      /\ remaining' = CASE Head(waiting) = "matrix" -> RoomParts
                        [] Head(waiting) = "bot" -> BotDestinations(aim)
                        [] OTHER -> <<>>
      /\ UNCHANGED <<deployment, services, aim, files, waiting, successful, arrived, unsure, broken>>
  BY DEF AskService, arrivalVars
<1>2. Head(waiting) \in ServiceNames /\ Head(waiting) \in Range(waiting)
  BY <1>1, Asking
<1>3. /\ deployment \in Bootstraps \cup HubDeployments /\ Deployed(deployment)
      /\ aim \in Seq(BotChannels) /\ Distinct(aim) /\ files \in 0..2
  BY Deployments DEF FanOutInv, MessageTyped
<1>4. /\ RoomParts \in Seq({"text", "file"}) /\ RoomParts # <<>> /\ Len(RoomParts) = files + 1
      /\ RoomParts[1] = "text" /\ \A i \in 2..Len(RoomParts) : RoomParts[i] = "file"
  <2> DEFINE fs == [i \in 1..files |-> "file"]
             r == RoomParts
  <2>1. <<"text">> \in Seq({"text", "file"}) /\ Len(<<"text">>) = 1 /\ <<"text">>[1] = "text"
    OBVIOUS
  <2>2. fs \in Seq({"text", "file"}) /\ Len(fs) = files /\ \A i \in 1..files : fs[i] = "file"
    BY <1>3
  <2> HIDE DEF fs
  <2>3. /\ <<"text">> \o fs \in Seq({"text", "file"}) /\ Len(<<"text">> \o fs) = 1 + files
        /\ \A i \in 1..(1 + files) :
             (<<"text">> \o fs)[i] = IF i <= 1 THEN <<"text">>[i] ELSE fs[i - 1]
    <3>1. /\ <<"text">> \o fs \in Seq({"text", "file"})
          /\ Len(<<"text">> \o fs) = Len(<<"text">>) + Len(fs)
          /\ \A i \in 1..(Len(<<"text">>) + Len(fs)) :
               (<<"text">> \o fs)[i] =
                 IF i <= Len(<<"text">>) THEN <<"text">>[i] ELSE fs[i - Len(<<"text">>)]
      BY <2>1, <2>2, ConcatProperties
    <3> QED BY <2>1, <2>2, <3>1
  <2>4. r = <<"text">> \o fs
    BY DEF RoomParts, fs
  <2> HIDE DEF r
  <2>5. r \in Seq({"text", "file"}) /\ Len(r) = files + 1
    BY <1>3, <2>3, <2>4
  <2>6. r[1] = "text"
    <3>1. 1 \in 1..(1 + files)
      BY <1>3
    <3> QED BY <2>1, <2>3, <2>4, <3>1
  <2>7. ASSUME NEW i \in 2..Len(r) PROVE r[i] = "file"
    <3>1. i \in 1..(1 + files) /\ ~(i <= 1) /\ i - 1 \in 1..files
      BY <1>3, <2>5, <2>7
    <3> QED BY <2>2, <2>3, <2>4, <3>1
  <2>8. r # <<>>
    BY <1>3, <2>5
  <2> QED BY <2>5, <2>6, <2>7, <2>8 DEF r
<1>5. InLine' /\ MessageTyped'
  <2>1. 1 \in 0..MaxTries /\ 1 > 0
    BY DeliveryAssumption
  <2>2. InLine'
    BY <1>1, <1>2, <2>1 DEF FanOutInv, InLine, ServiceNames, Distinct
  <2>3. MessageTyped'
    BY <1>1, <1>2, <2>1 DEF FanOutInv, MessageTyped, ServiceNames, Stages, Distinct
  <2> QED BY <2>2, <2>3
<1>6. RoomSoFar'
  <2> SUFFICES ASSUME Head(waiting) = "matrix" PROVE RoomSoFar'
    BY <1>1 DEF RoomSoFar
  <2>1. remaining' = RoomParts /\ files' = files
    BY <1>1
  <2>2. ~(Len(remaining') <= files')
    BY <1>3, <1>4, <2>1
  <2>3. Len(remaining') <= files' + 1 /\ Len(remaining') = files' + 1
    BY <1>3, <1>4, <2>1
  <2> QED BY <1>4, <2>1, <2>2, <2>3 DEF RoomSoFar
<1>7. ChannelsSoFar'
  <2> SUFFICES ASSUME Head(waiting) = "bot" PROVE ChannelsSoFar'
    BY <1>1 DEF ChannelsSoFar
  <2>1. /\ remaining' \in Seq(BotChannels) /\ remaining' # <<>> /\ Distinct(remaining)'
        /\ aim # <<>> => remaining' = aim
    BY <1>1, <1>3 DEF BotDestinations, CanRoute, Deployed, Distinct
  <2>2. Len(aim) = 1 => aim # <<>>
    OBVIOUS
  <2> QED BY <1>1, <2>1, <2>2 DEF ChannelsSoFar
<1>8. ASSUME NEW d \in Destinations PROVE Awaits(d)' => Awaits(d)
  BY <1>1 DEF Awaits, Turn
<1>9. OnceEach'
  <2>1. Destinations' = Destinations
    BY DEF Destinations
  <2>2. \A d \in Destinations : Untold(d)' => Untold(d)
    BY <1>1, <1>8 DEF Untold
  <2> QED BY <1>1, <2>1, <2>2 DEF FanOutInv, OnceEach
<1>10. Remembered'
  <2>1. Meant' = Meant
    BY <1>1 DEF Meant, Destinations
  <2>2. ASSUME NEW d \in Meant PROVE HasAll(d)' \/ d \in broken' \/ Awaits(d)'
    <3>1. HasAll(d) \/ d \in broken \/ Awaits(d)
      BY <1>1 DEF FanOutInv, Remembered, InLine
    <3>2. HasAll(d) => HasAll(d)'
      BY <1>1 DEF HasAll
    <3>3. Awaits(d) => Awaits(d)'
      <4>1. d \in BotChannels => d \in Range(aim) /\ aim # <<>>
        BY <1>3, MeantFor
      <4>2. stage' = "bot" /\ d \in BotChannels => remaining' = aim
        BY <1>1, <4>1 DEF BotDestinations
      <4> QED BY <1>1, <4>1, <4>2 DEF Awaits, Turn
    <3> QED BY <1>1, <3>1, <3>2, <3>3
  <2> QED BY <1>1, <1>2, <2>1, <2>2 DEF Remembered, ServiceNames
<1>11. Reported'
  BY <1>1 DEF FanOutInv, Reported
<1> QED BY <1>5, <1>6, <1>7, <1>9, <1>10, <1>11 DEF FanOutInv

\* The thumbnail is waited for before anything is sent.
LEMMA Thumbnails == FanOutInv /\ (ThumbnailNotReady \/ ThumbnailDone) => FanOutInv'
<1> SUFFICES ASSUME FanOutInv, ThumbnailNotReady \/ ThumbnailDone PROVE FanOutInv'
  OBVIOUS
<1>1. /\ stage = "thumbnail" /\ stage' \in {"thumbnail", "services"}
      /\ \/ stage' = "thumbnail" /\ files' = files /\ tries < MaxTries /\ tries' = tries + 1
         \/ stage' = "services" /\ files' \in {files, files + 1} /\ tries' = 1
      /\ UNCHANGED <<deployment, services, aim, waiting, remaining, delivered, routed, successful,
                     arrived, unsure, broken>>
  BY DEF ThumbnailNotReady, ThumbnailDone, arrivalVars
<1>2. files \in 0..1 /\ tries \in 0..MaxTries /\ MaxTries \in Nat \ {0}
  BY <1>1, DeliveryAssumption DEF FanOutInv, MessageTyped
<1>3. /\ files' \in 0..2 /\ tries' \in 0..MaxTries /\ tries' > 0
      /\ stage' = "thumbnail" => files' \in 0..1
  BY <1>1, <1>2
<1>4. InLine' /\ MessageTyped'
  <2>1. InLine'
    BY <1>1, <1>3 DEF FanOutInv, InLine, ServiceNames, Distinct
  <2>2. MessageTyped'
    BY <1>1, <1>3 DEF FanOutInv, MessageTyped, Stages, Distinct
  <2> QED BY <2>1, <2>2
<1>5. RoomSoFar' /\ ChannelsSoFar' /\ Reported'
  BY <1>1 DEF FanOutInv, RoomSoFar, ChannelsSoFar, Reported
<1>6. \A d \in Destinations : (Awaits(d)' <=> Awaits(d)) /\ (Untold(d)' => Untold(d))
  BY <1>1 DEF Awaits, Turn, Untold
<1>7. OnceEach'
  BY <1>1, <1>6 DEF FanOutInv, OnceEach, Destinations
<1>8. Remembered'
  BY <1>1, <1>6 DEF FanOutInv, Remembered, Meant, Destinations
<1> QED BY <1>4, <1>5, <1>7, <1>8 DEF FanOutInv

\* StartServices and EndOfMessage: nothing is under way before or after.
LEMMA ComesToRest ==
  ASSUME FanOutInv, StartServices \/ EndOfMessage
  PROVE  FanOutInv'
<1>1. /\ stage \in {"down", "services"} /\ stage' = "idle" /\ waiting = <<>>
      /\ services' = ServicesOf(deployment)
      /\ UNCHANGED <<deployment, messageVars, arrivalVars>>
  BY DEF StartServices, EndOfMessage, FanOutInv, InLine
<1>2. InLine' /\ MessageTyped' /\ RoomSoFar' /\ ChannelsSoFar' /\ Reported'
  <2>1. InLine'
    <3>1. services' = ServicesOf(deployment)'
      BY <1>1 DEF ServicesOf
    <3> QED BY <1>1, <3>1 DEF FanOutInv, InLine, ServiceNames, Distinct, messageVars
  <2>2. MessageTyped'
    BY <1>1 DEF FanOutInv, MessageTyped, Stages, Distinct, messageVars, arrivalVars
  <2>3. RoomSoFar' /\ ChannelsSoFar' /\ Reported'
    BY <1>1 DEF FanOutInv, RoomSoFar, ChannelsSoFar, Reported, messageVars, arrivalVars
  <2> QED BY <2>1, <2>2, <2>3
<1>3. \A d \in Destinations : (Awaits(d)' <=> Awaits(d)) /\ (Untold(d)' => Untold(d))
  BY <1>1 DEF Awaits, Turn, Untold, messageVars
<1>4. OnceEach'
  BY <1>1, <1>3 DEF FanOutInv, OnceEach, Destinations, arrivalVars
<1>5. Remembered'
  <2>1. Meant' = Meant /\ Meant \subseteq Destinations
    BY <1>1 DEF Meant, Destinations, messageVars
  <2>2. \A d \in Meant : HasAll(d)' <=> HasAll(d)
    BY <1>1 DEF HasAll, messageVars, arrivalVars
  <2>3. tries' = tries /\ broken' = broken /\ stage' # "thumbnail"
    BY <1>1 DEF messageVars, arrivalVars
  <2> QED BY <1>3, <2>1, <2>2, <2>3 DEF FanOutInv, Remembered
<1> QED BY <1>2, <1>4, <1>5 DEF FanOutInv

\* Every step keeps the invariant.
LEMMA FanOutStep == FanOutInv /\ [ChatDeliveryNext]_chatDeliveryVars => FanOutInv'
<1> SUFFICES ASSUME FanOutInv, [ChatDeliveryNext]_chatDeliveryVars PROVE FanOutInv'
  OBVIOUS
<1>1. CASE UNCHANGED chatDeliveryVars
  <2>1. UNCHANGED <<deployment, services, stage, aim, files, tries, waiting, remaining, delivered,
                    routed, successful, arrived, unsure, broken>>
    BY <1>1 DEF chatDeliveryVars, messageVars, arrivalVars
  <2>2. InLine' /\ MessageTyped' /\ RoomSoFar' /\ ChannelsSoFar' /\ Reported'
    BY <2>1 DEF FanOutInv, InLine, MessageTyped, RoomSoFar, ChannelsSoFar, Reported, Distinct, ServicesOf
  <2>3. OnceEach' /\ Remembered'
    BY <2>1 DEF FanOutInv, OnceEach, Remembered, Untold, Awaits, HasAll, Meant, Destinations, Turn
  <2> QED BY <2>2, <2>3 DEF FanOutInv
<1>2. ASSUME NEW channels \in Targets, NEW count \in 0..1,
             SendMessage(channels, count) \/ SendMessageWithImage(channels, count)
      PROVE  FanOutInv'
  <2>1. /\ stage = "idle" /\ stage' \in {"services", "thumbnail"} /\ Fresh(channels)
        /\ files' \in 0..1 /\ waiting' = services /\ UNCHANGED <<deployment, services>>
    BY <1>2 DEF SendMessage, SendMessageWithImage
  <2> QED BY <2>1, FreshMessage
<1> QED BY <1>1, <1>2, ComesToRest, Thumbnails, PassesOver, Asks, WebhookAnswers, WebhookAgain,
           RoomAnswers, ChannelAnswers DEF ChatDeliveryNext

\* The invariant holds from the start.
LEMMA FanOutInvariant == ChatDeliverySpec => []FanOutInv
<1>1. ChatDeliveryInit => FanOutInv
  <2> SUFFICES ASSUME ChatDeliveryInit PROVE FanOutInv
    OBVIOUS
  <2>1. /\ deployment \in Bootstraps \cup HubDeployments /\ stage = "down" /\ waiting = <<>>
        /\ aim = <<>> /\ files = 0 /\ tries = 0 /\ successful = TRUE /\ broken = {}
        /\ arrived = [d \in Destinations |-> [text |-> 0, file |-> 0]]
        /\ unsure = [d \in Destinations |-> 0]
    BY DEF ChatDeliveryInit
  <2>2. InLine
    BY <2>1 DEF InLine, ServiceNames, Distinct
  <2>3. MessageTyped
    BY <2>1, DeliveryAssumption DEF MessageTyped, Stages, Distinct
  <2>4. RoomSoFar /\ ChannelsSoFar /\ Reported /\ Remembered
    BY <2>1 DEF RoomSoFar, ChannelsSoFar, Reported, Remembered
  <2>5. OnceEach
    BY <2>1 DEF OnceEach
  <2> QED BY <2>2, <2>3, <2>4, <2>5 DEF FanOutInv
<1> QED BY <1>1, FanOutStep, PTL DEF ChatDeliverySpec

\* The types of a message on its way to the services (chat/mod.rs).
THEOREM DeliveryTyped == ChatDeliverySpec => []ChatDeliveryTypeOK
<1>1. FanOutInv => ChatDeliveryTypeOK
  BY DEF FanOutInv, MessageTyped, ChatDeliveryTypeOK
<1> QED BY <1>1, FanOutInvariant, PTL

\* For any channels, bounds on the attempts and answers of the services: every
\* destination that the message is meant for gets all of it or has failed itself, is
\* sent it again only after a post whose answer was lost, and a channel asked alone is
\* confirmed only when it has everything (send_message_with_attachments_checked).
THEOREM EachServed == ChatDeliverySpec => []EachOnItsOwn
<1>1. FanOutInv => EachOnItsOwn
  <2> SUFFICES ASSUME FanOutInv PROVE EachOnItsOwn
    OBVIOUS
  <2>1. \A d \in Destinations : arrived[d].text <= 1 + unsure[d]
    BY DEF FanOutInv, OnceEach
  <2>2. ASSUME stage = "idle", tries > 0, NEW d \in Meant
        PROVE  /\ HasAll(d) \/ d \in broken
               /\ Confirmed => HasAll(d) \/ (d \in BotChannels /\ Len(aim) > 1)
    <3>1. waiting = <<>> /\ aim \in Seq(BotChannels)
      BY <2>2 DEF FanOutInv, InLine, MessageTyped
    <3>2. ~Awaits(d)
      BY <3>1 DEF Awaits, Range
    <3>3. HasAll(d) \/ d \in broken
      BY <2>2, <3>2 DEF FanOutInv, Remembered
    <3>4. Confirmed => /\ "hook" \notin broken /\ "room" \notin broken
                       /\ Len(aim) = 1 => aim[1] \notin broken
      BY DEF Confirmed, FanOutInv, Reported
    <3>5. /\ d = "hook" \/ d = "room" \/ d \in BotChannels
          /\ d \in BotChannels => d \in Range(aim)
      BY <3>1, MeantFor DEF Destinations
    <3>6. ASSUME d \in Range(aim), ~(Len(aim) > 1) PROVE Len(aim) = 1 /\ d = aim[1]
      <4>1. PICK i \in 1..Len(aim) : d = aim[i]
        <5>1. DOMAIN aim = 1..Len(aim)
          BY <3>1
        <5> QED BY <3>6, <5>1 DEF Range
      <4>2. Len(aim) \in Nat
        BY <3>1
      <4>3. Len(aim) = 1 /\ i = 1
        BY <3>6, <4>1, <4>2
      <4> QED BY <4>1, <4>3
    <3> QED BY <3>3, <3>4, <3>5, <3>6
  <2> QED BY <2>1, <2>2 DEF EachOnItsOwn
<1> QED BY <1>1, FanOutInvariant, PTL

---------------------------------------------------------------------------
(***************************************************************************)
(* Notices. Only the end of a sequence tells of a remembered failure       *)
(* (Ordinary); a failure is remembered until the next sequence starts or   *)
(* the sequence is withheld (FailureKnown).                                *)
(***************************************************************************)

\* A notice of anything else.
Ordinary(n) == n.kind # "SEQUENCE-FINISHED" /\ n.failure = NoFailure

LEMMA SaysOrdinary ==
  ASSUME NEW kind, NEW tone, NEW fields, kind # "SEQUENCE-FINISHED"
  PROVE  Ordinary(Says(kind, tone, fields))
BY DEF Says, Ordinary

\* Events that only the kind tells apart are none of the sequence's.
LEMMA GenericOrdinary == \A kind \in GenericKinds : kind # "SEQUENCE-FINISHED"
<1>1. \A c \in DOMAIN EventTones : "SEQUENCE-FINISHED" \notin EventTones[c]
  BY DEF EventTones
<1> QED BY <1>1 DEF GenericKinds

\* A step that tells of something else leaves the sequence as it was.
LEMMA TellsOrdinary ==
  ASSUME \/ TellEvent \/ TellFilter \/ TellRotatorMove \/ TellSafety \/ TellWind
         \/ TellCommandFailed \/ TellNotification \/ TellLog
         \/ TellMount \/ TellGuider \/ TellRotatorSynced \/ TellUserFocused
         \/ TellOperation \/ TellAutofocus \/ TellAutofocusUnavailable \/ TellImage
  PROVE  Ordinary(notice') /\ UNCHANGED <<known, failures>>
<1>1. ASSUME NEW n, Tells(n), Ordinary(n)
      PROVE  Ordinary(notice') /\ UNCHANGED <<known, failures>>
  BY <1>1 DEF Tells
<1>2. CASE TellEvent
  <2>1. PICK kind \in GenericKinds : \E fields : Tells(Says(kind, EventTone(kind), fields))
    BY <1>2 DEF TellEvent
  <2> QED BY <1>1, <2>1, GenericOrdinary, SaysOrdinary
<1>3. CASE TellFilter \/ TellRotatorMove \/ TellSafety \/ TellWind
  BY <1>1, <1>3, SaysOrdinary DEF TellFilter, TellRotatorMove, TellSafety, TellWind
<1>4. CASE TellCommandFailed \/ TellNotification \/ TellLog
  BY <1>1, <1>4, SaysOrdinary DEF TellCommandFailed, TellNotification, TellLog
<1>5. CASE TellMount \/ TellGuider \/ TellRotatorSynced \/ TellUserFocused
  BY <1>1, <1>5, SaysOrdinary DEF TellMount, TellGuider, TellRotatorSynced, TellUserFocused
<1>6. CASE TellOperation \/ TellAutofocus \/ TellAutofocusUnavailable \/ TellImage
  BY <1>1, <1>6, SaysOrdinary DEF TellOperation, TellAutofocus, TellAutofocusUnavailable, TellImage
<1> QED BY <1>2, <1>3, <1>4, <1>5, <1>6

---------------------------------------------------------------------------
\* What is known of a failure is one of those that were shared.
FailureKnown == IF failures = {} THEN known.failure = NoFailure ELSE known.failure \in failures

\* This, with the types and the end of a sequence.
NoticesInv == NoticesTypeOK /\ FailureKnown /\ EndsAreHonest

\* What the renderer knows of the sequence.
Knowledge == [failure : FailedItems \cup {Unnamed, NoFailure}, target : BOOLEAN,
              flip : BOOLEAN, containers : BOOLEAN]

\* A step that tells of something else than a sequence and its failures.
LEMMA OrdinaryKeeps ==
  ASSUME NoticesInv, Ordinary(notice') \/ notice' = NoNotice, UNCHANGED failures,
         known'.failure = known.failure, known' \in Knowledge
  PROVE  NoticesInv'
<1>0. NoNotice.kind = "none" /\ NoNotice.failure = NoFailure
  BY DEF NoNotice
<1>1. NoticesTypeOK'
  BY <1>0 DEF NoticesInv, NoticesTypeOK, Ordinary, Knowledge
<1>2. FailureKnown'
  BY DEF NoticesInv, FailureKnown
<1>3. EndsAreHonest'
  BY <1>0 DEF EndsAreHonest, Ordinary
<1> QED BY <1>1, <1>2, <1>3 DEF NoticesInv

\* Targets and flips.
LEMMA TargetStep ==
  ASSUME NoticesInv, ReadSequence \/ TellTarget \/ LoseTarget
  PROVE  NoticesInv'
<1>0. known \in Knowledge
  BY DEF NoticesInv, NoticesTypeOK, Knowledge
<1>1. CASE ReadSequence
  <2>1. PICK flip \in BOOLEAN, containers \in BOOLEAN :
          known' = [known EXCEPT !.flip = flip, !.containers = containers]
    BY <1>1 DEF ReadSequence
  <2>2. known' = [failure |-> known.failure, target |-> known.target, flip |-> flip,
                  containers |-> containers]
    BY <1>0, <2>1, Zenon DEF Knowledge
  <2>3. known' \in Knowledge /\ known'.failure = known.failure
    BY <1>0, <2>2 DEF Knowledge
  <2>4. UNCHANGED <<notice, failures>> /\ notice = NoNotice
    BY <1>1 DEF ReadSequence
  <2> QED BY <2>3, <2>4, OrdinaryKeeps
<1>2. CASE LoseTarget
  <2>1. known' = [known EXCEPT !.target = FALSE] /\ UNCHANGED <<notice, failures>> /\ notice = NoNotice
    BY <1>2 DEF LoseTarget
  <2>2. known' \in Knowledge /\ known'.failure = known.failure
    BY <1>0, <2>1 DEF Knowledge
  <2> QED BY <2>1, <2>2, OrdinaryKeeps
<1>3. CASE TellTarget
  <2>1. /\ known' = [known EXCEPT !.target = TRUE] /\ UNCHANGED failures
        /\ \E tone, fields : notice' = Says("target", tone, fields)
    BY <1>3 DEF TellTarget
  <2>2. known' \in Knowledge /\ known'.failure = known.failure
    BY <1>0, <2>1 DEF Knowledge
  <2> QED BY <2>1, <2>2, SaysOrdinary, OrdinaryKeeps
<1> QED BY <1>1, <1>2, <1>3

\* A sequence's start, its failures and its end change what is known.
LEMMA SequenceStep ==
  ASSUME NoticesInv, SequenceStarts \/ SequenceItemFails \/ SequenceEnds \/ SequenceWithheld
  PROVE  NoticesInv'
<1>0. /\ known \in Knowledge /\ failures \subseteq FailedItems \cup {Unnamed}
      /\ FailureKnown
      /\ NoNotice.kind = "none" /\ NoNotice.failure = NoFailure
  BY DEF NoticesInv, NoticesTypeOK, Knowledge, NoNotice
<1>1. ASSUME NEW failure \in FailedItems \cup {Unnamed, NoFailure}, NEW told \in BOOLEAN, NEW n,
             Applied(failure, told, n),
             failures' \subseteq FailedItems \cup {Unnamed},
             IF failures' = {} THEN failure = NoFailure ELSE failure \in failures',
             n.failure \in {NoFailure, failure},
             n.kind = "SEQUENCE-FINISHED" =>
               /\ n.failure = failure
               /\ n.tone \in {"red", "cyan"} => (n.tone = "red" <=> failures' # {})
      PROVE  NoticesInv'
  <2>1. known' = [known EXCEPT !.failure = failure] /\ notice' \in {n, NoNotice}
    BY <1>1 DEF Applied
  <2>2. known' \in Knowledge /\ known'.failure = failure
    BY <1>0, <2>1 DEF Knowledge
  <2>3. NoticesTypeOK'
    BY <1>0, <1>1, <2>1, <2>2 DEF NoticesTypeOK, Knowledge
  <2>4. FailureKnown'
    BY <1>1, <2>2 DEF FailureKnown
  <2>5. EndsAreHonest'
    BY <1>0, <1>1, <2>1 DEF EndsAreHonest
  <2> QED BY <2>3, <2>4, <2>5 DEF NoticesInv
<1>2. CASE SequenceStarts
  <2> DEFINE n == Says("SEQUENCE-STARTING", "cyan", SequenceFields({}))
  <2>1. PICK told \in BOOLEAN : Applied(NoFailure, told, n) /\ failures' = {}
    BY <1>2 DEF SequenceStarts, FailureAtStart
  <2>2. n.failure = NoFailure /\ n.kind # "SEQUENCE-FINISHED"
    BY SaysOrdinary DEF Ordinary
  <2> HIDE DEF n
  <2> QED BY <1>1, <2>1, <2>2
<1>3. CASE SequenceItemFails
  <2>1. PICK item \in FailedItems \cup {Unnamed}, told \in BOOLEAN :
          /\ \E fields : Applied(item, told, Says("SEQUENCE-ENTITY-FAILED", "red", fields))
          /\ failures' = failures \cup {item}
    BY <1>3 DEF SequenceItemFails
  <2>2. PICK n : Applied(item, told, n) /\ Ordinary(n)
    BY <2>1, SaysOrdinary
  <2>3. failures' \subseteq FailedItems \cup {Unnamed} /\ item \in failures' /\ failures' # {}
    BY <1>0, <2>1
  <2> QED BY <1>1, <2>2, <2>3 DEF Ordinary
<1>4. CASE SequenceEnds
  <2>1. PICK outcome \in Outcomes, hadFailures \in BOOLEAN, told \in BOOLEAN :
    LET failing == hadFailures \/ outcome = "failed"
        failure == IF failing /\ known.failure = NoFailure THEN Unnamed ELSE known.failure
        tone == EndTone(outcome, hadFailures, failure)
        item == IF failure = NoFailure THEN {} ELSE {"Failed Item", "Error"}
        said == IF outcome = "unsaid" THEN {} ELSE {"Outcome", "N.I.N.A. status", "Reported failures"}
    IN  /\ outcome = "unsaid" => ~hadFailures
        /\ Applied(failure, told,
                   [Says("SEQUENCE-FINISHED", tone, SequenceFields(item \cup said))
                      EXCEPT !.failure = failure])
        /\ failures' = failures \cup (IF failing THEN {Unnamed} ELSE {})
    BY <1>4 DEF SequenceEnds
  <2> DEFINE failing == hadFailures \/ outcome = "failed"
             failure == IF failing /\ known.failure = NoFailure THEN Unnamed ELSE known.failure
             tone == EndTone(outcome, hadFailures, failure)
             item == IF failure = NoFailure THEN {} ELSE {"Failed Item", "Error"}
             said == IF outcome = "unsaid" THEN {} ELSE {"Outcome", "N.I.N.A. status", "Reported failures"}
             s == Says("SEQUENCE-FINISHED", tone, SequenceFields(item \cup said))
             n == [s EXCEPT !.failure = failure]
  <2>2. Applied(failure, told, n) /\ failures' = failures \cup (IF failing THEN {Unnamed} ELSE {})
    BY <2>1
  <2>3. n.tone = tone /\ n.failure = failure
    BY Zenon DEF Says
  <2>4. /\ failure \in FailedItems \cup {Unnamed, NoFailure}
        /\ failures' \subseteq FailedItems \cup {Unnamed}
        /\ IF failures' = {} THEN failure = NoFailure ELSE failure \in failures'
    BY <1>0, <2>2 DEF FailureKnown, Knowledge
  <2>5. failure = NoFailure <=> failures' = {}
    BY <2>4, NoticesAssumption
  <2>6. tone = "red" => failure # NoFailure
    BY DEF EndTone
  <2>7. tone = "cyan" => failure = NoFailure
    BY DEF EndTone
  <2> HIDE DEF n, s, tone, failure
  <2> QED BY <1>1, <2>2, <2>3, <2>4, <2>5, <2>6, <2>7
<1>5. CASE SequenceWithheld
  <2>1. /\ known' = [known EXCEPT !.failure = NoFailure, !.containers = FALSE] /\ failures' = {}
        /\ UNCHANGED notice /\ notice = NoNotice
    BY <1>5 DEF SequenceWithheld
  <2>2. known' = [failure |-> NoFailure, target |-> known.target, flip |-> known.flip, containers |-> FALSE]
    BY <1>0, <2>1, Zenon DEF Knowledge
  <2>3. known' \in Knowledge /\ known'.failure = NoFailure
    BY <1>0, <2>2 DEF Knowledge
  <2> QED BY <1>0, <2>1, <2>3 DEF NoticesInv, NoticesTypeOK, Knowledge, FailureKnown, EndsAreHonest
<1> QED BY <1>2, <1>3, <1>4, <1>5

\* Every step keeps the invariant.
LEMMA NoticesStep == NoticesInv /\ [NoticesNext]_noticesVars => NoticesInv'
<1>1. NoticesInv /\ UNCHANGED noticesVars => NoticesInv'
  BY DEF noticesVars, NoticesInv, NoticesTypeOK, FailureKnown, EndsAreHonest
<1>2. NoticesInv => known \in Knowledge
  BY DEF NoticesInv, NoticesTypeOK, Knowledge
<1>3. ASSUME NoticesInv, Ordinary(notice') \/ notice' = NoNotice, UNCHANGED <<known, failures>>
      PROVE  NoticesInv'
  BY <1>2, <1>3, OrdinaryKeeps
<1>4. NoticesInv /\ Sent => NoticesInv'
  BY <1>3 DEF Sent
<1>5. NoticesInv /\ NoticesNext => NoticesInv'
  BY <1>3, <1>4, TellsOrdinary, TargetStep, SequenceStep DEF NoticesNext
<1> QED BY <1>1, <1>5

\* The invariant holds from the start.
LEMMA NoticesInvariant == NoticesSpec => []NoticesInv
<1>1. NoticesInit => NoticesInv
  <2> SUFFICES ASSUME NoticesInit PROVE NoticesInv
    OBVIOUS
  <2>1. known \in Knowledge
    BY DEF NoticesInit, Knowledge
  <2> QED BY <2>1 DEF NoticesInit, NoticesInv, NoticesTypeOK, Knowledge, FailureKnown, EndsAreHonest,
                      NoNotice
<1> QED BY <1>1, NoticesStep, PTL DEF NoticesSpec

\* The types of a notice and of what the renderer knows (chat_updater.rs).
THEOREM NoticesTyped == NoticesSpec => []NoticesTypeOK
<1>1. NoticesInv => NoticesTypeOK
  BY DEF NoticesInv
<1> QED BY <1>1, NoticesInvariant, PTL

\* For any items and order of events, and whatever the rig reports at the end:
\* the notice of a sequence's end tells of a failure exactly if one was shared
\* since that sequence was started, and where the outcome does not name the
\* end it is red just then (SEQUENCE-FINISHED and the events before it).
THEOREM HonestEnds == NoticesSpec => []EndsAreHonest
<1>1. NoticesInv => EndsAreHonest
  BY DEF NoticesInv
<1> QED BY <1>1, NoticesInvariant, PTL

---------------------------------------------------------------------------
(***************************************************************************)
(* AutofocusDelivery. ReportedOnce and AcknowledgedWhenDelivered rest on   *)
(* what is known of a message while it is being posted (Delivering): none  *)
(* of the channels it is still meant for has a receipt, and every other    *)
(* channel has had it, unless one refused.                                 *)
(***************************************************************************)

NoticePhases == {"notice", "sendingNotice", "tookNotice"}

\* An attempt that can still fail is not the last one.
AttemptsLeft == report # NoReport /\ phase \notin NoticePhases => attempts < MaxAttempts

\* What is being posted is a report, and to a channel.
InPost == Sending \/ Took

\* Types, and what a phase says of the report under way.
ReceiptsTyped ==
  /\ AutofocusTypeOK /\ AttemptsLeft
  /\ phase # "idle" => report # NoReport
  /\ InPost => channel \in Channels

\* A channel has a receipt for a report.
Receipts == Channels \X Reports

\* What counting one more does.
LEMMA Incremented ==
  ASSUME NEW f \in [Receipts -> Nat], NEW p \in Receipts, NEW g, g = [f EXCEPT ![p] = @ + 1]
  PROVE  /\ g \in [Receipts -> Nat] /\ g[p] = f[p] + 1
         /\ \A q \in Receipts : q # p => g[q] = f[q]
OBVIOUS

\* A step after which nothing is being posted, or a message to the channels
\* without a receipt is begun.
Restarts ==
  /\ phase' \in {"idle", "report", "notice"}
  /\ phase' # "idle" =>
       report' # NoReport /\ left' = PendingTargets(report') /\ failed' = FALSE

LEMMA GiveUpRestarts ==
  ASSUME report # NoReport, NEW had, GiveUp(had)
  PROVE  /\ Restarts /\ report' \in {report, NoReport} /\ channel' = NoChannel /\ failed' = FALSE
         /\ \/ phase' = "idle" /\ report' = NoReport /\ left' = {}
            \/ phase' = "notice" /\ left' = PendingTargets(report)
<1>1. CASE phase' = "idle"
  BY <1>1 DEF GiveUp, Begin, Restarts
<1>2. CASE phase' # "idle"
  BY <1>2 DEF GiveUp, Begin, Restarts
<1> QED BY <1>1, <1>2

LEMMA RetryRestarts ==
  ASSUME report # NoReport, NEW had, Retry(had)
  PROVE  /\ Restarts /\ report' \in {report, NoReport} /\ channel' = NoChannel /\ failed' = FALSE
         /\ left' = {} \/ left' = PendingTargets(report)
         /\ attempts' = attempts + 1 /\ obtained' = had
         /\ report' = NoReport \/ phase' = "notice" \/ attempts + 1 < MaxAttempts
<1>1. CASE GiveUp(had)
  BY <1>1, GiveUpRestarts DEF Retry
<1>2. CASE ~GiveUp(had)
  BY <1>2 DEF Retry, Restarts
<1> QED BY <1>1, <1>2

LEMMA ErrorRestarts ==
  ASSUME report # NoReport, phase # "idle", AutofocusTypeOK, EndsWithError
  PROVE  /\ Restarts /\ report' \in {report, NoReport} /\ channel' = NoChannel /\ failed' = FALSE
         /\ left' = {} \/ left' = PendingTargets(report)
         /\ \/ /\ phase \notin NoticePhases /\ attempts' = attempts + 1 /\ obtained' = obtained
               /\ report' = NoReport \/ phase' = "notice" \/ attempts + 1 < MaxAttempts
            \/ attempts' = attempts /\ obtained' = obtained /\ report' = NoReport
<1>1. CASE Kind = "report"
  BY <1>1, RetryRestarts DEF EndsWithError, Kind, NoticePhases
<1>2. CASE Kind # "report"
  BY <1>2 DEF EndsWithError, Restarts
<1> QED BY <1>1, <1>2

(***************************************************************************)
(* Types.                                                                  *)
(***************************************************************************)
USE AutofocusAssumption DEF AutofocusAssumption

LEMMA ReceiptsTypedInit == AutofocusInit => ReceiptsTyped
<1> SUFFICES ASSUME AutofocusInit PROVE ReceiptsTyped
  OBVIOUS
<1>1. posts \in [Channels \X Reports -> Nat] /\ doubts \in [Channels \X Reports -> Nat]
  BY DEF AutofocusInit
<1>2. /\ completed = 0 /\ readable = 0 /\ handled = 0 /\ report = 0 /\ attempts = 0
      /\ acked = {} /\ receipts = {} /\ left = {} /\ routes \in SUBSET Channels
      /\ target = routes /\ obtained = FALSE /\ failed = FALSE /\ phase = "idle"
      /\ channel = NoChannel /\ dialect \in Dialects
  BY DEF AutofocusInit, NoReport
<1>3. 0 \in 0..MaxReports /\ 0 \in 0..MaxAttempts /\ 0 < MaxAttempts
  OBVIOUS
<1>4. AutofocusTypeOK
  BY <1>1, <1>2, <1>3 DEF AutofocusTypeOK
<1> QED BY <1>2, <1>3, <1>4 DEF ReceiptsTyped, AttemptsLeft, InPost, Sending, Took, NoReport

\* Variables a restart leaves in their types.
LEMMA TypedRestart ==
  ASSUME ReceiptsTyped, Restarts, report' \in {report, NoReport, completed, readable},
         dialect' = dialect, completed' = completed, readable' = readable, acked' \in {acked, acked \cup {report}},
         report # NoReport \/ acked' = acked,
         UNCHANGED <<store, posts>>, doubts' \in [Receipts -> Nat], target' \in SUBSET Channels,
         handled' \in 0..MaxReports, channel' \in Channels \cup {NoChannel}, failed' \in BOOLEAN,
         left' \in SUBSET Channels, obtained' \in BOOLEAN, attempts' \in 0..MaxAttempts,
         report' = NoReport \/ phase' = "notice" \/ attempts' < MaxAttempts
  PROVE  ReceiptsTyped'
<1>1. AutofocusTypeOK'
  BY DEF ReceiptsTyped, AutofocusTypeOK, Restarts, store, Reports, NoReport, Receipts
<1>2. AttemptsLeft'
  BY DEF AttemptsLeft, NoticePhases
<1>3. (phase # "idle" => report # NoReport)'
  BY DEF Restarts, NoReport
<1>4. ~InPost'
  BY DEF Restarts, InPost, Sending, Took
<1> QED BY <1>1, <1>2, <1>3, <1>4 DEF ReceiptsTyped

LEMMA DoubtsTyped ==
  ASSUME ReceiptsTyped, Took, InDoubt
  PROVE  doubts' \in [Receipts -> Nat] /\ <<channel, report>> \in Receipts
<1>1. <<channel, report>> \in Receipts /\ doubts \in [Receipts -> Nat]
  BY DEF ReceiptsTyped, AutofocusTypeOK, InPost, Took, Receipts, Reports, NoReport
<1> QED BY <1>1, Incremented DEF InDoubt

\* The steps that restart the delivery.
LEMMA TypedRestarted ==
  ASSUME ReceiptsTyped, [HandleAutofocusFinished \/ RevokeAutofocus \/ SkipDelivered \/ LookupFails
                 \/ Expire \/ ReadReport \/ ReadFails \/ RecordFails \/ FinishDelivered
                 \/ FinishFailed \/ Rebuild]_autofocusVars,
         ~UNCHANGED autofocusVars
  PROVE  ReceiptsTyped'
<1> USE DEF ReceiptsTyped, AutofocusTypeOK
<1>1. CASE HandleAutofocusFinished
  <2> USE DEF HandleAutofocusFinished, plugin, store, task, history
  <2>1. Restarts BY <1>1 DEF Restarts
  <2>2. attempts' \in 0..MaxAttempts /\ (report' = NoReport \/ attempts' < MaxAttempts)
    BY <1>1 DEF delivery, AttemptsLeft, NoticePhases
  <2>3. handled' \in 0..MaxReports BY <1>1
  <2>4. report' \in {report, completed} /\ obtained' \in BOOLEAN BY <1>1 DEF delivery
  <2> HIDE DEF HandleAutofocusFinished, AutofocusTypeOK
  <2>6. UNCHANGED <<plugin, store, target, task, history>>
    BY <1>1 DEF HandleAutofocusFinished
  <2>5. /\ target \in SUBSET Channels /\ channel \in Channels \cup {NoChannel}
        /\ failed \in BOOLEAN /\ left \in SUBSET Channels /\ doubts \in [Receipts -> Nat]
    BY DEF AutofocusTypeOK, Receipts
  <2> HIDE DEF ReceiptsTyped
  <2> QED BY <2>1, <2>2, <2>3, <2>4, <2>5, <2>6, TypedRestart
<1>2. CASE RevokeAutofocus
  <2> USE DEF RevokeAutofocus, plugin, store, task, history
  <2>1. Restarts BY <1>2 DEF Restarts
  <2> QED BY <1>2, <2>1, TypedRestart DEF Receipts
<1>3. CASE SkipDelivered
  <2> USE DEF SkipDelivered, Due, Acknowledge, store, task, history
  <2>1. Restarts BY <1>3 DEF Restarts
  <2> QED BY <1>3, <2>1, TypedRestart DEF Receipts
<1>4. CASE LookupFails \/ ReadFails
  <2>1. PICK had \in BOOLEAN : Retry(had) BY <1>4 DEF LookupFails, ReadFails
  <2>2. phase = "idle" /\ report # NoReport /\ UNCHANGED <<plugin, store, target, handled, history>>
    BY <1>4 DEF LookupFails, ReadFails, Due
  <2>3. attempts + 1 \in 0..MaxAttempts
    BY <2>2 DEF AttemptsLeft, NoticePhases
  <2>4. PendingTargets(report) \in SUBSET Channels BY DEF PendingTargets
  <2> QED BY <2>1, <2>2, <2>3, <2>4, RetryRestarts, TypedRestart
          DEF plugin, store, history, Receipts
<1>5. CASE Expire
  <2>1. phase = "idle" /\ report # NoReport /\ GiveUp(obtained)
        /\ UNCHANGED <<plugin, store, target, handled, attempts, obtained, history>>
    BY <1>5 DEF Expire, Due
  <2>2. PendingTargets(report) \in SUBSET Channels BY DEF PendingTargets
  <2> QED BY <2>1, <2>2, GiveUpRestarts, TypedRestart DEF plugin, store, history, Receipts
<1>6. CASE ReadReport
  <2>1. Restarts /\ left' \in SUBSET Channels
    BY <1>6 DEF ReadReport, Begin, Due, Restarts, PendingTargets
  <2> QED BY <1>6, <2>1, TypedRestart
          DEF ReadReport, Begin, Due, plugin, store, history, Receipts, AttemptsLeft, NoticePhases
<1>7. CASE RecordFails \/ FinishFailed
  <2>1. EndsWithError /\ phase # "idle" /\ report # NoReport
        /\ UNCHANGED <<plugin, store, target, handled, posts>>
    BY <1>7 DEF RecordFails, FinishFailed, Took, Posting, history
  <2>2. doubts' \in [Receipts -> Nat]
    BY <1>7, DoubtsTyped DEF RecordFails, FinishFailed, history, Receipts
  <2>3. PendingTargets(report) \in SUBSET Channels BY DEF PendingTargets
  <2>4. phase \notin NoticePhases => attempts + 1 \in 0..MaxAttempts
    BY <2>1 DEF AttemptsLeft
  <2> QED BY <2>1, <2>2, <2>3, <2>4, ErrorRestarts, TypedRestart DEF plugin, store
<1>8. CASE FinishDelivered
  <2>1. Restarts BY <1>8 DEF FinishDelivered, Restarts
  <2>2. acked' \in {acked, acked \cup {report}} /\ report' = NoReport /\ report # NoReport
    BY <1>8 DEF FinishDelivered, Acknowledge, Posting
  <2>3. /\ UNCHANGED <<dialect, completed, readable, store, target, handled, attempts, obtained,
                       left, channel, history>>
        /\ phase' = "idle" /\ failed' = FALSE
    BY <1>8 DEF FinishDelivered
  <2>4. /\ target \in SUBSET Channels /\ handled \in 0..MaxReports
        /\ channel \in Channels \cup {NoChannel} /\ left \in SUBSET Channels
        /\ obtained \in BOOLEAN /\ attempts \in 0..MaxAttempts /\ doubts \in [Receipts -> Nat]
    BY DEF Receipts
  <2> HIDE DEF ReceiptsTyped, AutofocusTypeOK
  <2> QED BY <2>1, <2>2, <2>3, <2>4, TypedRestart DEF store, history
<1>9. CASE Rebuild
  <2>1. Restarts BY <1>9 DEF Rebuild, Restarts
  <2>2. doubts' \in [Receipts -> Nat] BY <1>9, DoubtsTyped DEF Rebuild, Receipts
  <2>3. 0 \in 0..MaxAttempts /\ 0 \in 0..MaxReports OBVIOUS
  <2>4. /\ report' = NoReport /\ attempts' = 0 /\ obtained' = FALSE /\ handled' = 0
        /\ target' = routes /\ left' = {} /\ channel' = NoChannel /\ failed' = FALSE
        /\ UNCHANGED <<plugin, store, posts>>
    BY <1>9 DEF Rebuild
  <2>5. routes \in SUBSET Channels OBVIOUS
  <2> HIDE DEF ReceiptsTyped, AutofocusTypeOK
  <2> QED BY <2>1, <2>2, <2>3, <2>4, <2>5, TypedRestart DEF plugin, store
<1> QED BY <1>1, <1>2, <1>3, <1>4, <1>5, <1>6, <1>7, <1>8, <1>9

LEMMA ReceiptsTypedNext ==
  ASSUME ReceiptsTyped, [AutofocusNext]_autofocusVars
  PROVE  ReceiptsTyped'
<1> USE DEF ReceiptsTyped, AutofocusTypeOK, AttemptsLeft, InPost, Sending, Took, NoticePhases
<1>1. CASE UNCHANGED autofocusVars
  BY <1>1 DEF autofocusVars, plugin, store, delivery, task, history
<1>2. CASE CompleteRun \/ PublishReport
  BY <1>2 DEF CompleteRun, PublishReport, store, delivery, task, history
<1>3. ASSUME NEW c \in Channels, AddRoute(c) \/ RemoveRoute(c)
      PROVE  ReceiptsTyped'
  BY <1>3 DEF AddRoute, RemoveRoute, plugin, delivery, task, history
<1>4. ASSUME NEW c \in Channels, Send(c)
      PROVE  ReceiptsTyped'
  BY <1>4 DEF Send, Posting, plugin, store, delivery, history
<1>5. CASE DiscordTakes
  <2>1. posts' \in [Receipts -> Nat]
    BY <1>5, Incremented DEF DiscordTakes, Receipts, Reports, NoReport
  <2> QED BY <1>5, <2>1 DEF DiscordTakes, plugin, store, delivery, Receipts
<1>6. CASE RecordDelivery
  <2>1. doubts' \in [Receipts -> Nat]
    BY <1>6, DoubtsTyped DEF RecordDelivery, Receipts
  <2>2. receipts' \in SUBSET (Channels \X Reports)
    BY <1>6 DEF RecordDelivery, InDoubt, Reports, NoReport
  <2> QED BY <1>6, <2>1, <2>2 DEF RecordDelivery, plugin, delivery, Kind, Receipts
<1>7. CASE SendFails
  <2>1. doubts' \in [Receipts -> Nat]
    BY <1>7, DoubtsTyped DEF SendFails, Receipts
  <2> QED BY <1>7, <2>1 DEF SendFails, plugin, store, delivery, Kind, Receipts
<1> HIDE DEF ReceiptsTyped
<1>8. CASE AutofocusNext /\ ~UNCHANGED autofocusVars
  BY <1>2, <1>3, <1>4, <1>5, <1>6, <1>7, <1>8, TypedRestarted DEF AutofocusNext
<1> QED BY <1>1, <1>8

\* The types hold throughout.
THEOREM AutofocusTypes == AutofocusSpec => []AutofocusTypeOK
<1>1. ReceiptsTyped => AutofocusTypeOK
  BY DEF ReceiptsTyped
<1> QED BY <1>1, ReceiptsTypedInit, ReceiptsTypedNext, PTL DEF AutofocusSpec

(***************************************************************************)
(* What is known of the message being posted and of what was posted.       *)
(***************************************************************************)
Delivering ==
  /\ phase # "idle" => \A c \in left : <<c, report>> \notin receipts
  /\ InPost => channel \notin left /\ <<channel, report>> \notin receipts

\* A post without a receipt that is not about to get one is in doubt.
Counted ==
  \A c \in Channels, r \in Reports :
    /\ posts[<<c, r>>] <= doubts[<<c, r>>] + 1
    /\ <<c, r>> \notin receipts /\ ~(Took /\ channel = c /\ report = r)
         => posts[<<c, r>>] <= doubts[<<c, r>>]

\* A receipt tells of a post, and so does a channel that is done with.
Told ==
  /\ \A c \in Channels, r \in Reports : <<c, r>> \in receipts => posts[<<c, r>>] > 0
  /\ Took => posts[<<channel, report>>] > 0
  /\ phase # "idle" /\ ~failed =>
       \A c \in target : c \in left \/ (InPost /\ c = channel) \/ posts[<<c, report>>] > 0

ReceiptsInv == ReceiptsTyped /\ Delivering /\ Counted /\ Told

LEMMA ReceiptsInit == AutofocusInit => ReceiptsInv
<1> SUFFICES ASSUME AutofocusInit PROVE ReceiptsInv
  OBVIOUS
<1>1. /\ phase = "idle" /\ receipts = {} /\ ~Took /\ ~InPost
      /\ \A p \in Channels \X Reports : posts[p] = 0 /\ doubts[p] = 0
  BY DEF AutofocusInit, InPost, Sending, Took
<1> QED BY <1>1, ReceiptsTypedInit DEF ReceiptsInv, Delivering, Counted, Told

\* Leaving a post in doubt, or nothing, keeps the count.
LEMMA RestartKeeps ==
  ASSUME ReceiptsInv, Restarts, UNCHANGED <<receipts, posts>>,
         phase' # "idle" => target' = target,
         \/ ~Took /\ UNCHANGED doubts
         \/ Took /\ InDoubt
  PROVE  Delivering' /\ Counted' /\ Told'
<1> USE DEF ReceiptsInv, ReceiptsTyped, AutofocusTypeOK
<1>1. ~InPost' /\ ~Took'
  BY DEF Restarts, InPost, Sending, Took
<1>2. Delivering'
  BY <1>1 DEF Delivering, Restarts, PendingTargets
<1>3. Counted'
  <2>1. CASE ~Took /\ UNCHANGED doubts
    BY <2>1, <1>1 DEF Counted
  <2>2. CASE Took /\ InDoubt
    <3>1. /\ doubts' \in [Receipts -> Nat] /\ <<channel, report>> \in Receipts
          /\ doubts'[<<channel, report>>] = doubts[<<channel, report>>] + 1
          /\ \A q \in Receipts : q # <<channel, report>> => doubts'[q] = doubts[q]
      BY <2>2, DoubtsTyped, Incremented DEF InDoubt, Receipts
    <3> SUFFICES ASSUME NEW c \in Channels, NEW r \in Reports
                 PROVE  /\ posts[<<c, r>>] <= doubts'[<<c, r>>] + 1
                        /\ <<c, r>> \notin receipts => posts[<<c, r>>] <= doubts'[<<c, r>>]
      BY <1>1 DEF Counted
    <3>2. <<c, r>> \in Receipts /\ posts[<<c, r>>] \in Nat /\ doubts[<<c, r>>] \in Nat
      BY DEF Receipts
    <3>3. CASE c = channel /\ r = report
      BY <3>1, <3>2, <3>3 DEF Counted
    <3>4. CASE ~(c = channel /\ r = report)
      <4>1. doubts'[<<c, r>>] = doubts[<<c, r>>] BY <3>1, <3>2, <3>4
      <4> QED BY <4>1, <3>4 DEF Counted
    <3> QED BY <3>3, <3>4
  <2> QED BY <2>1, <2>2
<1>4. Told'
  <2>1. (phase # "idle" /\ ~failed =>
          \A c \in target : c \in left \/ posts[<<c, report>>] > 0)'
    BY DEF Told, Restarts, PendingTargets, Reports, NoReport
  <2>2. (\A c \in Channels, r \in Reports : <<c, r>> \in receipts => posts[<<c, r>>] > 0)'
    BY DEF Told
  <2> QED BY <1>1, <2>1, <2>2 DEF Told
<1> QED BY <1>2, <1>3, <1>4

\* Every step of the updater's task between two posts.
LEMMA RestartedSteps ==
  ASSUME ReceiptsInv,
         \/ HandleAutofocusFinished \/ RevokeAutofocus \/ SkipDelivered \/ LookupFails
         \/ Expire \/ ReadReport \/ ReadFails \/ RecordFails \/ FinishDelivered
         \/ FinishFailed \/ Rebuild
  PROVE  Delivering' /\ Counted' /\ Told'
<1> USE DEF store, task, history
<1>1. CASE HandleAutofocusFinished \/ RevokeAutofocus \/ SkipDelivered
  BY <1>1, RestartKeeps
  DEF HandleAutofocusFinished, RevokeAutofocus, SkipDelivered, Due, Restarts, Took
<1>2. CASE LookupFails \/ ReadFails
  <2>1. PICK had \in BOOLEAN : Retry(had) BY <1>2 DEF LookupFails, ReadFails, ReceiptsInv,
                                                   ReceiptsTyped, AutofocusTypeOK
  <2>2. Restarts BY <1>2, <2>1, RetryRestarts DEF LookupFails, ReadFails, Due
  <2> QED BY <1>2, <2>2, RestartKeeps DEF LookupFails, ReadFails, Due, Took
<1>3. CASE Expire
  <2>1. Restarts BY <1>3, GiveUpRestarts DEF Expire, Due
  <2> QED BY <1>3, <2>1, RestartKeeps DEF Expire, Due, Took
<1>4. CASE ReadReport
  BY <1>4, RestartKeeps DEF ReadReport, Begin, Due, Restarts, Took
<1>5. CASE RecordFails \/ FinishFailed
  <2>1. phase # "idle" BY <1>5 DEF RecordFails, FinishFailed, Took, Posting
  <2>2. Restarts
    BY <1>5, <2>1, ErrorRestarts DEF RecordFails, FinishFailed, ReceiptsInv, ReceiptsTyped
  <2> QED BY <1>5, <2>2, RestartKeeps DEF RecordFails, FinishFailed, Posting, Took
<1>6. CASE FinishDelivered
  BY <1>6, RestartKeeps DEF FinishDelivered, Posting, Restarts, Took
<1>7. CASE Rebuild
  BY <1>7, RestartKeeps DEF Rebuild, Restarts
<1> QED BY <1>1, <1>2, <1>3, <1>4, <1>5, <1>6, <1>7

\* The steps of one post.
LEMMA SendKeeps ==
  ASSUME ReceiptsInv, NEW c \in Channels, Send(c)
  PROVE  Delivering' /\ Counted' /\ Told'
<1> USE DEF Send, Posting, store, delivery, history
<1>1. InPost' /\ ~Took /\ ~Took' /\ ~InPost
  BY DEF InPost, Sending, Took
<1>2. Delivering' BY <1>1 DEF ReceiptsInv, Delivering
<1>3. Counted' BY <1>1 DEF ReceiptsInv, Counted
<1>4. Told' BY <1>1 DEF ReceiptsInv, Told
<1> QED BY <1>2, <1>3, <1>4

LEMMA TakesKeeps ==
  ASSUME ReceiptsInv, DiscordTakes
  PROVE  Delivering' /\ Counted' /\ Told'
<1> USE DEF store, delivery, ReceiptsInv, ReceiptsTyped, AutofocusTypeOK
<1>1. /\ Took' /\ InPost /\ InPost' /\ ~Took /\ phase # "idle" /\ phase' # "idle"
      /\ UNCHANGED <<channel, report, receipts, doubts, left, failed, target>>
  BY DEF DiscordTakes, InPost, Sending, Took
<1>2. /\ <<channel, report>> \in Receipts /\ posts' \in [Receipts -> Nat]
      /\ posts'[<<channel, report>>] = posts[<<channel, report>>] + 1
      /\ \A q \in Receipts : q # <<channel, report>> => posts'[q] = posts[q]
  BY <1>1, Incremented DEF DiscordTakes, Receipts, Reports, NoReport
<1>3. Delivering' BY <1>1 DEF Delivering
<1>4. \A c \in Channels, r \in Reports :
        /\ <<c, r>> \in Receipts /\ posts[<<c, r>>] \in Nat /\ doubts[<<c, r>>] \in Nat
        /\ ~(c = channel /\ r = report) => posts'[<<c, r>>] = posts[<<c, r>>]
        /\ posts'[<<c, r>>] >= posts[<<c, r>>]
  <2> TAKE c \in Channels, r \in Reports
  <2>1. <<c, r>> \in Receipts /\ posts[<<c, r>>] \in Nat /\ doubts[<<c, r>>] \in Nat
    BY DEF Receipts
  <2>2. ~(c = channel /\ r = report) => posts'[<<c, r>>] = posts[<<c, r>>]
    BY <2>1, <1>2
  <2>3. c = channel /\ r = report => posts'[<<c, r>>] = posts[<<c, r>>] + 1
    BY <1>2
  <2> QED BY <2>1, <2>2, <2>3
<1>5. Counted'
  <2> SUFFICES ASSUME NEW c \in Channels, NEW r \in Reports
               PROVE  /\ posts'[<<c, r>>] <= doubts[<<c, r>>] + 1
                      /\ <<c, r>> \notin receipts /\ ~(channel = c /\ report = r)
                           => posts'[<<c, r>>] <= doubts[<<c, r>>]
    BY <1>1 DEF Counted
  <2>1. CASE c = channel /\ r = report
    <3>1. posts[<<channel, report>>] <= doubts[<<channel, report>>]
      BY <1>1, <2>1 DEF Counted, Delivering
    <3> QED BY <2>1, <3>1, <1>2, <1>4
  <2>2. CASE ~(c = channel /\ r = report)
    BY <1>1, <2>2, <1>4 DEF Counted
  <2> QED BY <2>1, <2>2
<1>6. Told'
  <2>1. posts'[<<channel, report>>] > 0
    BY <1>2, <1>1, <1>4 DEF InPost, NoReport, Reports
  <2>2. (\A c \in Channels, r \in Reports : <<c, r>> \in receipts => posts[<<c, r>>] > 0)'
    <3> SUFFICES ASSUME NEW c \in Channels, NEW r \in Reports, <<c, r>> \in receipts
                 PROVE  posts'[<<c, r>>] > 0
      BY <1>1
    <3>1. posts[<<c, r>>] > 0 /\ posts[<<c, r>>] \in Nat /\ posts'[<<c, r>>] \in Nat
      BY <1>2, <1>4 DEF Told, Receipts
    <3> QED BY <3>1, <1>4
  <2>3. report \in Reports BY <1>1 DEF Reports, NoReport
  <2>4. (phase # "idle" /\ ~failed =>
          \A c \in target : c \in left \/ (InPost /\ c = channel) \/ posts[<<c, report>>] > 0)'
    BY <1>1, <1>4, <2>3 DEF Told
  <2> QED BY <2>1, <2>2, <2>4, <1>1 DEF Told
<1> QED BY <1>3, <1>5, <1>6

LEMMA RecordKeeps ==
  ASSUME ReceiptsInv, RecordDelivery \/ SendFails
  PROVE  Delivering' /\ Counted' /\ Told'
<1> USE DEF ReceiptsInv, ReceiptsTyped, AutofocusTypeOK
<1>1. /\ InPost /\ ~InPost' /\ ~Took' /\ phase # "idle" /\ phase' # "idle"
      /\ UNCHANGED <<report, posts, left, target>>
      /\ receipts' = receipts \/ (Took /\ receipts' = receipts \cup {<<channel, report>>})
      /\ failed' = failed \/ failed' = TRUE
  BY DEF RecordDelivery, SendFails, InPost, Sending, Took, Kind, store, delivery
<1>2. Delivering' BY <1>1 DEF Delivering
<1>3. report \in Reports BY <1>1 DEF Reports, NoReport
<1>4. Counted'
  <2>1. CASE UNCHANGED doubts
    <3>1. ~Took \/ <<channel, report>> \in receipts'
      BY <2>1, DoubtsTyped DEF RecordDelivery, SendFails, InDoubt, Sending, Took
    <3> QED BY <1>1, <2>1, <3>1 DEF Counted
  <2>2. CASE Took /\ InDoubt
    <3>1. /\ doubts' \in [Receipts -> Nat] /\ <<channel, report>> \in Receipts
          /\ doubts'[<<channel, report>>] = doubts[<<channel, report>>] + 1
          /\ \A q \in Receipts : q # <<channel, report>> => doubts'[q] = doubts[q]
      BY <2>2, DoubtsTyped, Incremented DEF InDoubt, Receipts
    <3> SUFFICES ASSUME NEW c \in Channels, NEW r \in Reports
                 PROVE  /\ posts[<<c, r>>] <= doubts'[<<c, r>>] + 1
                        /\ <<c, r>> \notin receipts => posts[<<c, r>>] <= doubts'[<<c, r>>]
      BY <1>1 DEF Counted
    <3>2. <<c, r>> \in Receipts /\ posts[<<c, r>>] \in Nat /\ doubts[<<c, r>>] \in Nat
      BY DEF Receipts
    <3>3. CASE c = channel /\ r = report
      BY <3>1, <3>2, <3>3 DEF Counted
    <3>4. CASE ~(c = channel /\ r = report)
      <4>1. doubts'[<<c, r>>] = doubts[<<c, r>>] BY <3>1, <3>2, <3>4
      <4> QED BY <4>1, <3>4 DEF Counted
    <3> QED BY <3>3, <3>4
  <2> QED BY <2>1, <2>2 DEF RecordDelivery, SendFails
<1>5. Told'
  <2>1. Took \/ failed' = TRUE
    BY DEF RecordDelivery, SendFails
  <2>2. (\A c \in Channels, r \in Reports : <<c, r>> \in receipts => posts[<<c, r>>] > 0)'
    <3> SUFFICES ASSUME NEW c \in Channels, NEW r \in Reports, <<c, r>> \in receipts'
                 PROVE  posts[<<c, r>>] > 0
      BY <1>1
    <3>1. CASE <<c, r>> \in receipts
      BY <3>1 DEF Told
    <3>2. CASE Took /\ c = channel /\ r = report
      BY <3>2 DEF Told
    <3> QED BY <1>1, <3>1, <3>2
  <2>3. (phase # "idle" /\ ~failed =>
          \A c \in target : c \in left \/ (InPost /\ c = channel) \/ posts[<<c, report>>] > 0)'
    BY <1>1, <2>1 DEF Told
  <2> QED BY <2>2, <2>3, <1>1 DEF Told
<1> QED BY <1>2, <1>4, <1>5

LEMMA ReceiptsNext ==
  ASSUME ReceiptsInv, [AutofocusNext]_autofocusVars
  PROVE  ReceiptsInv'
<1>1. ReceiptsTyped' BY ReceiptsTypedNext DEF ReceiptsInv
<1>2. Delivering' /\ Counted' /\ Told'
  <2>1. CASE UNCHANGED autofocusVars
    BY <2>1 DEF ReceiptsInv, Delivering, Counted, Told, InPost, Sending, Took, autofocusVars,
                plugin, store, delivery, task, history
  <2>2. ASSUME NEW c \in Channels, AddRoute(c) \/ RemoveRoute(c)
        PROVE  Delivering' /\ Counted' /\ Told'
    BY <2>2 DEF AddRoute, RemoveRoute, ReceiptsInv, Delivering,
                Counted, Told, InPost, Sending, Took, plugin, store, delivery, task, history
  <2>3. CASE CompleteRun \/ PublishReport
    BY <2>3 DEF CompleteRun, PublishReport, ReceiptsInv, Delivering,
                Counted, Told, InPost, Sending, Took, plugin, store, delivery, task, history
  <2>4. CASE AutofocusNext
    BY <2>2, <2>3, <2>4, RestartedSteps, SendKeeps, TakesKeeps, RecordKeeps DEF AutofocusNext
  <2> QED BY <2>1, <2>4
<1> QED BY <1>1, <1>2 DEF ReceiptsInv

\* No channel gets a report twice, save for posts in doubt.
THEOREM ReportsOnce == AutofocusSpec => []ReportedOnce
<1>1. ReceiptsInv => ReportedOnce
  <2> SUFFICES ASSUME ReceiptsInv, NEW c \in Channels, NEW r \in Reports
               PROVE  posts[<<c, r>>] <= 1 + doubts[<<c, r>>]
    BY DEF ReportedOnce
  <2>1. posts[<<c, r>>] \in Nat /\ doubts[<<c, r>>] \in Nat
    BY DEF ReceiptsInv, ReceiptsTyped, AutofocusTypeOK
  <2> QED BY <2>1 DEF ReceiptsInv, Counted
<1> QED BY <1>1, ReceiptsInit, ReceiptsNext, PTL DEF AutofocusSpec

\* The plugin's replay ends only when every channel served has the report.
THEOREM AcknowledgesDelivered == AutofocusSpec => AcknowledgedWhenDelivered
<1>1. ReceiptsInv /\ [AutofocusNext]_autofocusVars =>
        [\A r \in acked' \ acked : \A c \in target : posts[<<c, r>>] > 0]_autofocusVars
  <2> SUFFICES ASSUME ReceiptsInv, AutofocusNext, NEW r \in acked' \ acked, NEW c \in target
               PROVE  posts[<<c, r>>] > 0
    OBVIOUS
  <2>1. /\ SkipDelivered \/ FinishDelivered
        /\ r = report
    BY DEF AutofocusNext, CompleteRun, PublishReport, AddRoute, RemoveRoute, Send,
           HandleAutofocusFinished, RevokeAutofocus, SkipDelivered, Acknowledge, LookupFails,
           Expire, ReadReport, ReadFails, DiscordTakes, RecordDelivery, SendFails, RecordFails,
           FinishDelivered, FinishFailed, Rebuild, plugin
  <2>2. report \in Reports /\ c \in Channels
    BY <2>1 DEF SkipDelivered, FinishDelivered, Due, Posting, ReceiptsInv, ReceiptsTyped,
                AutofocusTypeOK, NoReport, Reports
  <2>3. CASE SkipDelivered
    BY <2>1, <2>2, <2>3 DEF SkipDelivered, Delivered, PendingTargets, ReceiptsInv, Told
  <2>4. CASE FinishDelivered
    BY <2>1, <2>2, <2>4 DEF FinishDelivered, AllAccepted, Posting, InPost, Sending, Took,
                            ReceiptsInv, Told
  <2> QED BY <2>1, <2>3, <2>4
<1> QED BY <1>1, ReceiptsInit, ReceiptsNext, PTL DEF AutofocusSpec, AcknowledgedWhenDelivered

=============================================================================
