----------------------------- MODULE EventElision -----------------------------
(***************************************************************************)
(* EventElisionReporter: how many diagnostics the channel was not shown.   *)
(* The plugin sends cumulative counters with each history response, one    *)
(* per kind of diagnostic the owner shares; the hub adds those its own     *)
(* limiter refuses.  A poll is one step: the counters are read, the        *)
(* response's refused diagnostics are counted, and a notice is posted when *)
(* one is due.  Every stop of sharing starts the plugin's counter afresh,  *)
(* under a new epoch.                                                      *)
(***************************************************************************)
EXTENDS Naturals, Sequences, SequencesExt, FiniteSets

CONSTANTS
  Keys,            \* kinds of diagnostic
  MaxKeys,         \* MAX_KEYS
  NoticeInterval,  \* NOTICE_INTERVAL
  MaxCount, MaxDropped, MaxEpoch,  \* bounds on the counters and epochs
  MaxRefused       \* bound: diagnostics of one response that the hub's limiter refuses

\* The plugin counts fewer kinds than the tables hold.
ASSUME KeysFit == IsFiniteSet(Keys) /\ Cardinality(Keys) <= MaxKeys
ASSUME CountersFit == {MaxKeys, MaxCount, MaxEpoch, MaxRefused, NoticeInterval} \subseteq Nat

VARIABLES
  pending,      \* partial: Keys -> Nat, hub and plugin counts together
  source,       \* partial: Keys -> [epoch, count], the plugin's watermarks
  counting,     \* event_baseline_complete
  hasSnapshot,  \* has_source_snapshot
  sinceNotice,  \* time since last_notice, NoticeInterval standing for none
  counters,     \* the plugin's own counters: Keys -> [on, epoch, count]
  unreported    \* history: by kind, dropped diagnostics that no notice has counted

elisionVars == <<pending, source, counting, hasSnapshot, sinceNotice, counters, unreported>>

ElisionTypeOK ==
  /\ DOMAIN pending \subseteq Keys /\ Cardinality(DOMAIN pending) <= MaxKeys
  /\ \A k \in DOMAIN pending : pending[k] \in Nat \ {0}
  /\ DOMAIN source \subseteq Keys /\ Cardinality(DOMAIN source) <= MaxKeys
  /\ counting \in BOOLEAN /\ hasSnapshot \in BOOLEAN /\ sinceNotice \in 0..NoticeInterval
  /\ counters \in [Keys -> [on : BOOLEAN, epoch : 0..MaxEpoch, count : 0..MaxCount]]
  /\ unreported \in [Keys -> Nat]

ElisionInit ==
  /\ pending = <<>> /\ source = <<>>
  /\ counting = FALSE /\ hasSnapshot = FALSE /\ sinceNotice = NoticeInterval
  /\ counters \in [Keys -> [on : BOOLEAN, epoch : {0}, count : {0}]]
  /\ unreported = [k \in Keys |-> 0]

Count(s, k) == IF k \in DOMAIN s.pending THEN s.pending[k] ELSE 0

\* Adds n to the count of k, unless that takes one key too many.
Add(s, k, n) ==
  IF n = 0 \/ (k \notin DOMAIN s.pending /\ Cardinality(DOMAIN s.pending) >= MaxKeys) THEN s
  ELSE [s EXCEPT !.pending = [j \in DOMAIN @ \cup {k} |->
          IF j = k THEN Count(s, k) + n ELSE @[j]]]

Keep(f, S) == [k \in DOMAIN f \cap S |-> f[k]]

\* Mutant: hub drops are counted although the plugin has withdrawn the key.
DropUnchecked(s, k) == Add(s, k, 1)

\* dropped_at_hub: history and counters may straddle a change of sharing, and
\* an old record must not bring a revoked count back.
DropAtHub(s, k) == IF s.hasSnapshot /\ k \notin DOMAIN s.source THEN s ELSE Add(s, k, 1)

HighestCount(old, item) ==
  IF old.epoch = item.epoch /\ old.count > item.count THEN old.count ELSE item.count

Gained(s, k, item) ==
  IF k \in DOMAIN s.source /\ s.source[k].epoch = item.epoch
  THEN IF item.count > s.source[k].count THEN item.count - s.source[k].count ELSE 0
  ELSE item.count

\* One counter of a snapshot.
ObserveItem(s, k, item, baseline) ==
  LET old == IF k \in DOMAIN s.source THEN s.source[k] ELSE item
      kept == IF old.epoch = item.epoch THEN s
              ELSE [s EXCEPT !.pending = Keep(@, Keys \ {k})]
      marked == [kept EXCEPT !.source = [j \in DOMAIN @ \cup {k} |->
                   IF j = k THEN [epoch |-> item.epoch, count |-> HighestCount(old, item)]
                   ELSE @[j]]]
  IN  Add(marked, k, IF baseline THEN 0 ELSE Gained(s, k, item))

\* observe_source: keys the snapshot leaves out are revoked, the hub's drops too.
Observe(s, snapshot, baseline) ==
  LET shared == [s EXCEPT !.hasSnapshot = TRUE, !.pending = Keep(@, DOMAIN snapshot),
                          !.source = Keep(@, DOMAIN snapshot)]
      order == SetToSeq(DOMAIN snapshot)
      after[i \in 0..Len(order)] ==
        IF i = 0 THEN shared
        ELSE ObserveItem(after[i - 1], order[i], snapshot[order[i]], baseline)
  IN  after[Len(order)]

\* take_notice: one number for all kinds.
Notice(s) ==
  IF s.sinceNotice < NoticeInterval \/ s.pending = <<>> THEN s
  ELSE [s EXCEPT !.pending = <<>>, !.sinceNotice = 0,
                 !.unreported = [k \in Keys |-> @[k] - Count(s, k)]]

---------------------------------------------------------------------------
Reporter ==
  [pending |-> pending, source |-> source, hasSnapshot |-> hasSnapshot,
   sinceNotice |-> sinceNotice, unreported |-> unreported]

ReporterBecomes(s) ==
  /\ pending' = s.pending /\ source' = s.source /\ hasSnapshot' = s.hasSnapshot
  /\ sinceNotice' = s.sinceNotice /\ unreported' = s.unreported
  /\ UNCHANGED counters

\* The counters a response may carry: those of the kinds shared now, some of
\* them read before the latest drop.
Snapshots ==
  LET on == {k \in Keys : counters[k].on} IN
  {[k \in on |-> [epoch |-> counters[k].epoch, count |-> n[k]]] :
     n \in {m \in [on -> 0..MaxCount] : \A k \in on : m[k] <= counters[k].count}}

\* What the limiter refuses of a history response.
Refused == UNION {[1..n -> Keys] : n \in 0..MaxRefused}

Refuse(s, keys) ==
  LET after[i \in 0..Len(keys)] ==
        IF i = 0 THEN s
        ELSE DropAtHub([after[i - 1] EXCEPT !.unreported[keys[i]] = @ + 1], keys[i])
  IN  after[Len(keys)]

\* A plugin that is too old to count sends no snapshot.
BaselineCounters ==
  /\ ~counting /\ counting' = TRUE
  /\ \/ \E snapshot \in Snapshots : ReporterBecomes(Observe(Reporter, snapshot, TRUE))
     \/ ReporterBecomes(Reporter)

PollCounters ==
  /\ counting /\ \A k \in Keys : unreported[k] < MaxDropped
  /\ \E snapshot \in Snapshots, keys \in Refused :
       ReporterBecomes(Notice(Refuse(Observe(Reporter, snapshot, FALSE), keys)))
  /\ UNCHANGED counting

PollLegacy ==
  /\ counting /\ ~hasSnapshot /\ \A k \in Keys : unreported[k] < MaxDropped
  /\ \E keys \in Refused : ReporterBecomes(Notice(Refuse(Reporter, keys)))
  /\ UNCHANGED counting

\* A disabled event of the keys' scope: revoke_scope, watermarks stay.
RevokeScope(keys) ==
  /\ pending' = Keep(pending, Keys \ keys)
  /\ UNCHANGED <<source, counting, hasSnapshot, sinceNotice, counters, unreported>>

PluginDrops(k) ==
  /\ counters[k].on /\ counters[k].count < MaxCount /\ unreported[k] < MaxDropped
  /\ counters' = [counters EXCEPT ![k].count = @ + 1]
  /\ unreported' = [unreported EXCEPT ![k] = @ + 1]
  /\ UNCHANGED <<pending, source, counting, hasSnapshot, sinceNotice>>

PluginShares(k) ==
  /\ counters[k].epoch < MaxEpoch
  /\ counters' = [counters EXCEPT ![k] =
       [on |-> ~@.on, epoch |-> @.epoch + 1, count |-> 0]]
  /\ UNCHANGED <<pending, source, counting, hasSnapshot, sinceNotice, unreported>>

NoticeAges ==
  /\ sinceNotice < NoticeInterval /\ sinceNotice' = sinceNotice + 1
  /\ UNCHANGED <<pending, source, counting, hasSnapshot, counters, unreported>>

ElisionNext ==
  \/ BaselineCounters
  \/ PollCounters
  \/ PollLegacy
  \/ \E k \in Keys : RevokeScope({k}) \/ PluginDrops(k) \/ PluginShares(k)
  \/ NoticeAges

ElisionSpec == ElisionInit /\ [][ElisionNext]_elisionVars

---------------------------------------------------------------------------
\* What waits for a notice is never more, kind by kind, than the drops that no
\* notice has told of: none is reported twice, or in place of one of another
\* kind, whatever the order of cumulative counters, resets and drops on either
\* side; and once the plugin counts for itself, no count is held for a kind the
\* owner has withdrawn.
NoticesAreTrue ==
  /\ \A k \in DOMAIN pending : pending[k] <= unreported[k]
  /\ hasSnapshot => DOMAIN pending \subseteq DOMAIN source

===========================================================================
