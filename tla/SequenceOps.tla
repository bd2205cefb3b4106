------------------------------ MODULE SequenceOps ------------------------------
(***************************************************************************)
(* reconcile_sequence_operations: the updater compares each snapshot of    *)
(* the sequence tree with the operations it tracks and announces what      *)
(* started, advanced, solved a plate or ended, in chat and to the cameras. *)
(* A snapshot maps the paths of the tree to the operations found there, in *)
(* the way of SequenceTree.  A path may be suppressed, and another         *)
(* operation may take a path over.  The announcements of the latest poll   *)
(* are a set: the code's order within a poll is that of a hash map.        *)
(***************************************************************************)
EXTENDS SequenceTree

CONSTANTS
  SequenceMenus  \* what sequences show: by name, sets of trees

VARIABLES
  shows,        \* which of them this rig's sequence can show
  baseline,     \* initialize_baseline is done
  tracked,      \* sequence_operations: partial, Paths -> tracked operation
  solved,       \* plate_solve_outputs_seen
  centerSeen,   \* center_event_seen_at is set
  suppressed,   \* camera_suppressed_operation_keys
  cameraBase,   \* camera_sequence_operations_baseline_complete
  cameraTarget, \* camera_sequence_target
  updates,      \* what the latest poll announced in chat
  actions,      \* what it told the cameras
  outputs,      \* history: how often each plate-solve output was announced
  unsaid        \* history: outputs that a baseline has used up

sequenceOpsVars ==
  <<shows, baseline, tracked, solved, centerSeen, suppressed, cameraBase, cameraTarget,
    updates, actions, outputs, unsaid>>

\* What polls read from the trees.
Readings ==
  UNION {{[of |-> name, items |-> Operations(tree), suppressed |-> SuppressedKeys(tree),
           target |-> CurrentTarget(tree)] : tree \in SequenceMenus[name]} :
           name \in DOMAIN SequenceMenus}
Shown == {s \in Readings : s.of = shows}

Paths == UNION {DOMAIN s.items \cup s.suppressed : s \in Readings}
Items == UNION {{s.items[p] : p \in DOMAIN s.items} : s \in Readings}
Outputs == {i.output : i \in Items} \ {NoOutput}

SequenceOpsTypeOK ==
  /\ shows \in DOMAIN SequenceMenus /\ baseline \in BOOLEAN
  /\ DOMAIN tracked \subseteq Paths \ suppressed
  /\ \A p \in DOMAIN tracked : tracked[p].milestone \in {0, 25, 50, 75}
  /\ solved \subseteq Outputs /\ suppressed \subseteq Paths
  /\ outputs \in [Outputs -> Nat] /\ unsaid \subseteq solved

SequenceOpsInit ==
  /\ shows \in DOMAIN SequenceMenus /\ baseline = FALSE
  /\ tracked = <<>> /\ solved = {} /\ centerSeen = FALSE /\ suppressed = {}
  /\ cameraBase = FALSE /\ cameraTarget = NoTarget
  /\ updates = {} /\ actions = {}
  /\ outputs = [o \in Outputs |-> 0] /\ unsaid = {}

Milestones == {25, 50, 75}

\* completed_milestone, and next_milestone when it is above the last one.
Reached(progress) ==
  LET passed == {m \in Milestones : progress >= m}
  IN  IF passed = {} THEN 0 ELSE CHOOSE m \in passed : \A n \in passed : n <= m

\* An older plugin shows a centering as a slew that may be one.
MayBeCenter(item) == item.kind = "slew or center"
Centers(item) == MayBeCenter(item) \/ item.kind = "center"
Promoted(item) == IF MayBeCenter(item) THEN [item EXCEPT !.kind = "center"] ELSE item

Followed(snapshot) == DOMAIN snapshot.items \ snapshot.suppressed

\* What is left of a snapshot: paths once known to center keep that kind.
Incoming(snapshot, center) ==
  [p \in Followed(snapshot) |->
     LET item == snapshot.items[p] IN
     IF p = center \/ (p \in DOMAIN tracked /\ tracked[p].item.kind = "center")
     THEN Promoted(item) ELSE item]

Active(item) == item.status = "active"

\* The path that a recent MOUNT-CENTER event is about, any if there are more.
CenterPaths(snapshot) ==
  IF ~centerSeen THEN {}
  ELSE {p \in Followed(snapshot) : Active(snapshot.items[p]) /\ Centers(Incoming(snapshot, <<>>)[p])}

Drop(s, p) == [s EXCEPT !.tracked = [q \in DOMAIN @ \ {p} |-> @[q]]]
Track(s, p, t) ==
  [s EXCEPT !.tracked = [q \in DOMAIN @ \cup {p} |-> IF q = p THEN t ELSE @[q]]]
Note(s, p, t, what, image) ==
  [s EXCEPT !.notes = @ \cup {[path |-> p, item |-> t.item, opened |-> t.opened,
                               live |-> t.live, what |-> what, image |-> image]}]

\* Mutant: an output is new whenever its operation is shared.
ClaimsAnew(s, item) == item.enabled /\ item.output # NoOutput

\* claim_plate_solve_output: the first time this output is seen.
Claims(s, item) == item.enabled /\ item.output # NoOutput /\ item.output \notin s.solved

Claim(s, item) == [s EXCEPT !.solved = @ \cup (IF Claims(s, item) THEN {item.output} ELSE {})]

\* Mutant: only the kind at a path is compared.
SameKind(old, new) == old.kind = new.kind

\* The path still shows the tracked operation.
SameOperation(old, new) == old.name = new.name /\ old.kind = new.kind

Outcome(item) ==
  CASE item.status = "failed" -> "failed" [] item.status = "finished" -> "finished" [] OTHER -> "ended"

\* Progress and output of an operation that goes on.
Advance(s, p, item) ==
  LET t == [s.tracked[p] EXCEPT !.item = item]
      passed == Reached(item.progress) > t.milestone
      t1 == IF passed THEN [t EXCEPT !.milestone = Reached(item.progress)] ELSE t
      s1 == IF passed THEN Note(s, p, t1, "progress", FALSE) ELSE s
      fresh == item.output # NoOutput /\ item.output # t1.output
      t2 == IF fresh THEN [t1 EXCEPT !.output = item.output] ELSE t1
      s2 == IF fresh /\ Claims(s1, item) THEN Note(Claim(s1, item), p, t2, "output", TRUE) ELSE s1
  IN  Track(s2, p, t2)

\* The first pass: a path that was tracked.
Follow(s, p, incoming, hidden) ==
  LET t == s.tracked[p] IN
  IF p \in hidden THEN Drop(s, p)
  ELSE IF p \notin DOMAIN incoming \/ ~SameOperation(t.item, incoming[p])
       THEN Note(Drop(s, p), p, t, "ended", FALSE)
  ELSE IF ~Active(incoming[p])
       THEN Note(Claim(Drop(s, p), incoming[p]), p,
                 [t EXCEPT !.item = incoming[p], !.output = incoming[p].output],
                 Outcome(incoming[p]), Claims(s, incoming[p]))
  ELSE Advance(s, p, incoming[p])

\* The second pass: an active operation that is not tracked.  The baseline
\* counts what it shows as announced.
Start(s, p, item, center, announce, live, target) ==
  LET t == [item |-> item, output |-> item.output, live |-> live,
            milestone |-> IF announce THEN 0 ELSE Reached(item.progress),
            opened |-> [item |-> item, target |-> target]]
      begun == IF announce /\ p # center THEN Note(s, p, t, "started", FALSE) ELSE s
      seen == IF announce /\ Claims(s, item) THEN Note(begun, p, t, "output", TRUE) ELSE begun
  IN  IF ~Active(item) \/ p \in DOMAIN s.tracked THEN s
      ELSE Track(Claim(seen, item), p, t)

\* promote_ambiguous_slew_to_center on what was tracked at the path.
Recognised(center) ==
  [p \in DOMAIN tracked |->
     IF p = center THEN [tracked[p] EXCEPT !.item = Promoted(@)] ELSE tracked[p]]

Reconciled(snapshot, center, announce, announceCamera) ==
  LET incoming == Incoming(snapshot, center)
      old == SetToSeq(DOMAIN tracked)
      new == SetToSeq(DOMAIN incoming)
      live == [p \in DOMAIN incoming |-> announceCamera /\ p \notin suppressed]
      followed[i \in 0..Len(old)] ==
        IF i = 0 THEN [tracked |-> Recognised(center), solved |-> solved, notes |-> {}]
        ELSE Follow(followed[i - 1], old[i], incoming, snapshot.suppressed)
      started[i \in 0..Len(new)] ==
        IF i = 0 THEN followed[Len(old)]
        ELSE Start(started[i - 1], new[i], incoming[new[i]], center, announce, live[new[i]],
                   snapshot.target)
  IN  started[Len(new)]

Reported(n) == n.item.enabled

\* camera_sequence_action: no progress and no image goes to a camera.
Acted(n) == Reported(n) /\ n.what \notin {"progress", "output"} /\ (n.what = "started" => n.live)

\* A camera is told the target only of an operation that began under it.
Named(n, target) == IF n.opened.target = target THEN target ELSE NoTarget

\* A camera action names the target that was current when it was sent.
Reconcile(snapshot, announce, forgetCenter) ==
  LET announceCamera == announce /\ cameraBase
      centers == IF forgetCenter THEN {} ELSE CenterPaths(snapshot)
  IN  \E center \in IF centers = {} THEN {<<>>} ELSE centers :
        LET s == Reconciled(snapshot, center, announce, announceCamera)
            said == IF announce THEN {n \in s.notes : Reported(n)} ELSE {}
        IN
        /\ tracked' = s.tracked /\ solved' = s.solved
        /\ centerSeen' = (centerSeen /\ ~forgetCenter /\ centers = {})
        /\ suppressed' = snapshot.suppressed /\ cameraBase' = TRUE
        /\ cameraTarget' = snapshot.target
        /\ updates' = said
        /\ actions' = IF ~announceCamera THEN {}
                      ELSE {[of |-> n.path, what |-> n.what, opened |-> n.opened,
                             target |-> Named(n, snapshot.target)] : n \in {m \in said : Acted(m)}}
        /\ outputs' = [o \in Outputs |->
             IF \E n \in said : n.image /\ n.item.output = o THEN outputs[o] + 1 ELSE outputs[o]]
        /\ unsaid' = IF announce THEN unsaid ELSE unsaid \cup (s.solved \ solved)
        /\ UNCHANGED shows

---------------------------------------------------------------------------
\* initialize_baseline runs again when a later query of it failed.
BaselineSequence(snapshot) ==
  /\ ~baseline /\ baseline' \in BOOLEAN
  /\ Reconcile(snapshot, FALSE, FALSE)

\* The sequence could not be read; the first poll will find it.
BaselineWithoutSequence ==
  /\ ~baseline /\ baseline' = TRUE
  /\ UNCHANGED <<shows, tracked, solved, centerSeen, suppressed, cameraBase, cameraTarget,
                 updates, actions, outputs, unsaid>>

PollSequence(snapshot, forgetCenter) ==
  /\ baseline /\ UNCHANGED baseline
  /\ forgetCenter => centerSeen
  /\ Reconcile(snapshot, TRUE, forgetCenter)

Untold == updates' = {} /\ actions' = {}

\* A MOUNT-CENTER event, which chat has announced by itself.
CenterEvent ==
  /\ baseline /\ centerSeen' = TRUE /\ Untold
  /\ UNCHANGED <<shows, baseline, tracked, solved, suppressed, cameraBase, cameraTarget, outputs, unsaid>>

MountKinds == {"slew or center", "center", "slew", "solve"}

\* Disabled events: a scope takes its operations back without a word.
Forget(kinds) ==
  /\ tracked' = [p \in {q \in DOMAIN tracked : tracked[q].item.kind \notin kinds} |-> tracked[p]]
  /\ Untold
  /\ UNCHANGED <<shows, baseline, solved, suppressed, cameraBase, cameraTarget, outputs, unsaid>>

RevokeMount == Forget(MountKinds) /\ centerSeen' = FALSE
RevokeSequence == Forget(Range(Kinds) \ MountKinds) /\ UNCHANGED centerSeen
RevokeSafety == Forget({"safety"}) /\ UNCHANGED centerSeen

SequenceOpsNext ==
  \/ \E s \in Shown : BaselineSequence(s)
  \/ BaselineWithoutSequence
  \/ \E s \in Shown, forgetCenter \in BOOLEAN : PollSequence(s, forgetCenter)
  \/ CenterEvent
  \/ RevokeMount
  \/ RevokeSequence
  \/ RevokeSafety

SequenceOpsSpec == SequenceOpsInit /\ [][SequenceOpsNext]_sequenceOpsVars

---------------------------------------------------------------------------
\* A plate-solve output is posted once, however often the tree shows it, the
\* item moves, is revoked or ends; and only what was posted, or shown before
\* the updater announced anything, is used up: an output the owner did not
\* share at first can still be posted.
OutputsPostedOnce ==
  \A o \in Outputs :
    /\ outputs[o] <= 1
    /\ o \in solved \ unsaid <=> outputs[o] = 1

\* A chat update is about the operation that was opened at that path, not
\* about another one that took the path over; a camera is never told a target
\* other than the current one, nor that one for an operation begun before it.
UpdatesAreTrue ==
  /\ \A n \in updates :
       /\ n.item.name = n.opened.item.name
       /\ n.item.kind = n.opened.item.kind \/ (MayBeCenter(n.opened.item) /\ n.item.kind = "center")
  /\ \A a \in actions :
       a.target # NoTarget => a.target = cameraTarget /\ a.opened.target = cameraTarget

===========================================================================
