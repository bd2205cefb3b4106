---------------------------- MODULE EventRateLimit ----------------------------
(***************************************************************************)
(* EventRateLimiter, one per telescope updater: a diagnostic is posted     *)
(* only if its class has a token left and the same diagnostic was not      *)
(* accepted within a minute.  The list of accepted fingerprints is bounded *)
(* and forgets the oldest; that must never be one that still counts.       *)
(* Time is counted in units such that a bucket gains one unit in each, and *)
(* Refill[c] units make a token.                                           *)
(***************************************************************************)
EXTENDS Naturals, Sequences, FiniteSets

CONSTANTS
  Classes,          \* DiagnosticClass
  Prints,           \* fingerprints: an event name with its details
  Class,            \* diagnostic_class, [Prints -> Classes]
  Capacity,         \* [Classes -> Nat], tokens a bucket holds
  Refill,           \* [Classes -> Nat], time for one token
  RepeatInterval,   \* REPEAT_INTERVAL
  MaxFingerprints,  \* MAX_FINGERPRINTS
  MaxInstant,       \* bound on time
  NotAccepted

VARIABLES
  now,
  buckets,       \* [Classes -> TokenBucket], tokens counted in units
  fingerprints,  \* accepted diagnostics, oldest first
  accepted       \* history: when each fingerprint was last accepted

rateVars == <<now, buckets, fingerprints, accepted>>

\* What the buckets can grant within one interval fits in the list: each token is
\* a slot.  The code has 5 + 60/12 errors and 10 + 60/6 logs against 128.
Slots == UNION {{c} \X (1..Capacity[c] + RepeatInterval \div Refill[c]) : c \in Classes}

ASSUME RatesFit ==
  /\ IsFiniteSet(Classes) /\ Class \in [Prints -> Classes]
  /\ Capacity \in [Classes -> Nat] /\ Refill \in [Classes -> Nat \ {0}]
  /\ RepeatInterval \in Nat \ {0} /\ MaxFingerprints \in Nat /\ NotAccepted \notin Nat
ASSUME FingerprintsFit == Cardinality(Slots) <= MaxFingerprints

RateTypeOK ==
  /\ now \in 0..MaxInstant
  /\ \A c \in Classes : buckets[c].units <= Capacity[c] * Refill[c] /\ buckets[c].at <= now
  /\ fingerprints \in Seq([print : Prints, at : 0..MaxInstant])
  /\ Len(fingerprints) <= MaxFingerprints
  /\ accepted \in [Prints -> 0..MaxInstant \cup {NotAccepted}]

RateInit ==
  /\ now = 0
  /\ buckets = [c \in Classes |-> [units |-> Capacity[c] * Refill[c], at |-> 0]]
  /\ fingerprints = <<>>
  /\ accepted = [f \in Prints |-> NotAccepted]

\* Mutant: the tokens gained while idle are not capped.
Uncapped(c) == buckets[c].units + (now - buckets[c].at)

\* What the bucket holds by now.
Refilled(c) ==
  LET units == buckets[c].units + (now - buckets[c].at)
  IN  IF units > Capacity[c] * Refill[c] THEN Capacity[c] * Refill[c] ELSE units

\* TokenBucket::allow finds a whole token.
Grants(c) == Refilled(c) >= Refill[c]

\* Fingerprints of an interval ago are taken off the front of the list.
Expired(i) == now - fingerprints[i].at >= RepeatInterval
Popped ==
  CHOOSE n \in 0..Len(fingerprints) :
    (\A i \in 1..n : Expired(i)) /\ (n < Len(fingerprints) => ~Expired(n + 1))
Recent == SubSeq(fingerprints, Popped + 1, Len(fingerprints))

Repeated(f) == \E i \in 1..Len(Recent) : Recent[i].print = f

\* A repeated diagnostic is dropped and costs its class nothing.
DropRepeat(f) ==
  /\ Repeated(f)
  /\ fingerprints' = Recent
  /\ UNCHANGED <<now, buckets, accepted>>

\* One above the rate is dropped; its bucket keeps what it has gained.
DropExcess(f) ==
  LET c == Class[f] IN
  /\ ~Repeated(f) /\ ~Grants(c)
  /\ fingerprints' = Recent
  /\ buckets' = [buckets EXCEPT ![c] = [units |-> Refilled(c), at |-> now]]
  /\ UNCHANGED <<now, accepted>>

Allow(f) ==
  LET c == Class[f]
      room == IF Len(Recent) = MaxFingerprints THEN Tail(Recent) ELSE Recent
  IN
  /\ ~Repeated(f) /\ Grants(c)
  /\ fingerprints' = Append(room, [print |-> f, at |-> now])
  /\ buckets' = [buckets EXCEPT ![c] = [units |-> Refilled(c) - Refill[c], at |-> now]]
  /\ accepted' = [accepted EXCEPT ![f] = now]
  /\ UNCHANGED now

\* All diagnostics of one response are offered at one instant.
RateElapse ==
  /\ now < MaxInstant /\ now' = now + 1
  /\ UNCHANGED <<buckets, fingerprints, accepted>>

RateNext == RateElapse \/ \E f \in Prints : DropRepeat(f) \/ DropExcess(f) \/ Allow(f)

RateSpec == RateInit /\ [][RateNext]_rateVars

---------------------------------------------------------------------------
\* The bounded list of fingerprints never forgets one too early, so the same
\* diagnostic is posted at most once per REPEAT_INTERVAL, however many others
\* come between; it relies on the buckets never granting more than it holds.
RepeatsSuppressed ==
  [][\A f \in Prints :
       accepted'[f] # accepted[f] /\ accepted[f] # NotAccepted
         => accepted'[f] - accepted[f] >= RepeatInterval]_rateVars

===========================================================================
