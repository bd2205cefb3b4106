------------------------------ MODULE SequenceTree ------------------------------
(***************************************************************************)
(* What is read from a snapshot of a rig's sequence: the operations that   *)
(* chat follows, the paths their owner withholds, the target, the flip and *)
(* the containers.  A sequence has global triggers and containers, and an  *)
(* operation's key is the path of indices to its node.  Of a node count    *)
(* what its name and its fields give away, whether its owner shares it     *)
(* (ChatEnabled) and its items.                                            *)
(***************************************************************************)
EXTENDS Naturals, Sequences, SequencesExt

CONSTANTS
  MaxDepth, MaxItems,  \* bounds: of the trees
  NoOutput, NoTarget,
  Unsaid            \* OperationKind is missing: an older plugin

ASSUME TreesAreBounded == MaxDepth \in Nat /\ MaxItems \in Nat

Tree(containers) == [shared |-> TRUE, triggers |-> <<>>, containers |-> containers]

\* SequenceOperationKind, in the order in which a node is asked for it.
Kinds ==
  <<"cool", "warm", "astronomical", "safety", "condition", "manual", "wait", "solve", "center",
    "slew">>

Fields ==
  {"Temperature", "MinCoolingTime", "MinWarmingTime", "CalculatedWaitDuration", "Delay",
   "TargetTime", "IsSafe", "WaitInterval", "Coordinates", "Rotation"}
Names == {"item", "center", "container", "system"}  \* what a name is like
Statuses == {"idle", "active", "finished", "failed"}

Node(name, like, status, on, says, has, output, progress, marked, items) ==
  [name |-> name, like |-> like, status |-> status, on |-> on, says |-> says, has |-> has,
   output |-> output, progress |-> progress, target |-> marked, items |-> items]

\* Coordinates that are a place to go to, and not the target of a container.
HasPlace(node) == "Coordinates" \in node.has /\ node.like \notin {"container", "system"}
CenterLike(node) == HasPlace(node) /\ ("Rotation" \in node.has \/ node.like = "center")

\* The kinds a node may be of, by what it says and by the fields it has.
Suggests(node, kind) ==
  \/ node.says = kind
  \/ kind = "cool" /\ {"Temperature", "MinCoolingTime"} \subseteq node.has
  \/ kind = "warm" /\ node.says = Unsaid /\ "MinWarmingTime" \in node.has
  \/ kind = "safety" /\ {"IsSafe", "WaitInterval"} \subseteq node.has
  \/ kind = "wait" /\ node.has \cap {"CalculatedWaitDuration", "Delay"} # {}
  \/ kind = "center" /\ CenterLike(node)
  \/ kind = "slew" /\ HasPlace(node) /\ node.says # "center" /\ ~CenterLike(node)

\* A cooling without a temperature and a wait without an end are dropped, and
\* taken for nothing else.
Complete(node, kind) ==
  /\ kind = "cool" => "Temperature" \in node.has
  /\ kind = "wait" => node.has \cap {"CalculatedWaitDuration", "Delay", "TargetTime"} # {}

Suggested(node) == {k \in DOMAIN Kinds : Suggests(node, Kinds[k])}
KindOf(node) == Kinds[CHOOSE k \in Suggested(node) : \A l \in Suggested(node) : k <= l]
IsOperation(node) == Suggested(node) # {} /\ Complete(node, KindOf(node))

\* SequenceOperation.  A slew of an older plugin may be a centering.
Operation(node) ==
  LET kind == KindOf(node) IN
  [name |-> node.name, status |-> node.status, enabled |-> node.on, progress |-> node.progress,
   kind |-> IF kind = "slew" /\ node.says = Unsaid THEN "slew or center" ELSE kind,
   output |-> IF kind \in {"solve", "center"} THEN node.output ELSE NoOutput]

\* sequence_item_key: the paths of a tree, and the nodes they lead to.
NodeAt(tree, path) ==
  LET node[k \in 0..Len(path)] ==
        IF k = 0 THEN [items |-> tree.containers] ELSE node[k - 1].items[path[k]]
  IN  node[Len(path)]
Above(path) == {SubSeq(path, 1, k) : k \in 0..Len(path) - 1}
AllKeys == UNION {[1..d -> 1..MaxItems] : d \in 1..MaxDepth}
KeysOf(tree) ==
  {path \in AllKeys :
     \A above \in Above(path) : path[Len(above) + 1] \in DOMAIN NodeAt(tree, above).items}

\* extract_sequence_operations: a node that is withheld is opaque, its items
\* are asked for themselves.
Operations(tree) ==
  [key \in {k \in KeysOf(tree) : NodeAt(tree, k).on /\ IsOperation(NodeAt(tree, k))} |->
     Operation(NodeAt(tree, key))]

\* extract_suppressed_sequence_operation_keys
SuppressedKeys(tree) == {k \in KeysOf(tree) : ~NodeAt(tree, k).on}

\* A search meets a node before the items of that node and the nodes after it.
Before(p, q) ==
  \/ p \in Above(q)
  \/ \E k \in 1..MaxDepth :
       /\ k <= Len(p) /\ k <= Len(q) /\ p[k] < q[k]
       /\ SubSeq(p, 1, k - 1) = SubSeq(q, 1, k - 1)
FirstOf(keys) == CHOOSE p \in keys : \A q \in keys \ {p} : Before(p, q)

\* search_explicit_targets: a withheld target decides, whatever its status.
Decides(node) == node.target /\ (~node.on \/ node.status = "active")

\* search_legacy_containers, for plugins that mark no target.
LegacyTarget(node) == node.status = "active" /\ node.like = "container"

\* extract_current_target_with_delivery: [name, on]
Hidden == [name |-> NoTarget, on |-> FALSE]
NoProjection == [name |-> NoTarget, on |-> TRUE]
TargetOf(node) == IF node.target /\ ~node.on THEN Hidden ELSE [name |-> node.name, on |-> node.on]
Projection(tree) ==
  LET explicit == {k \in KeysOf(tree) : Decides(NodeAt(tree, k))}
      legacy == {k \in KeysOf(tree) : LegacyTarget(NodeAt(tree, k))}
  IN  CASE explicit # {} -> TargetOf(NodeAt(tree, FirstOf(explicit)))
        [] explicit = {} /\ legacy # {} -> TargetOf(NodeAt(tree, FirstOf(legacy)))
        [] OTHER -> NoProjection

\* extract_current_target, camera_sequence_target
CurrentTarget(tree) == IF Projection(tree).on THEN Projection(tree).name ELSE NoTarget

\* extract_meridian_flip_time: the first trigger of that name with a time.
ShowsFlip(tree) ==
  tree.shared /\ \E trigger \in Range(tree.triggers) : trigger.on /\ trigger.flip /\ trigger.timed

\* chat_visible_value: what is withheld goes with everything in it.
Visible(tree) ==
  {k \in KeysOf(tree) : \A p \in (Above(k) \ {<<>>}) \cup {k} : NodeAt(tree, p).on}

\* get_containers and sequence_container_counts.
Containers(tree) == {k \in Visible(tree) : Len(k) = 1}
Running(tree) == {k \in Containers(tree) : NodeAt(tree, k).status = "active"}

===========================================================================
