----------------------------- MODULE Polls_proofs -----------------------------
(***************************************************************************)
(* Proofs about what chat is told: by the updater, of what it polls from a *)
(* rig, and by the commands that only read.                                *)
(***************************************************************************)
EXTENDS EventRateLimit, ImagePosts, EventElision, SequenceOps, BotViews, Induction

---------------------------------------------------------------------------
\* Recursions over positions.

\* What the recursive functions of the models do at a position.  They are proved
\* to have values once, for all of them.
Step(of, with, x, i) ==
  CASE of = "poll" -> IF i \in ImageResponse THEN PollImage(x, i, with) ELSE x
    [] of = "seed" -> IF i \in Shared THEN SeedImage(x, i) ELSE x
    [] of = "observe" -> ObserveItem(x, with.order[i], with.snapshot[with.order[i]], with.baseline)
    [] of = "refuse" ->
         DropAtHub([x EXCEPT !.unreported[with[i]] = @ + 1], with[i])
    [] of = "follow" -> Follow(x, with.order[i], with.incoming, with.hidden)
    [] of = "start" ->
         Start(x, with.order[i], with.incoming[with.order[i]], with.center, with.announce,
               with.live[with.order[i]], with.target)
    [] of = "visible" ->
         IF with[i].on THEN x \cup {i}
         ELSE {k \in x : Scope(with[k].kind) # Scope(with[i].kind)}

\* g is that function on 0..n, from s on; and the values it runs through.
Stepped(g, of, with, s, n) ==
  g = [i \in 0..n |-> IF i = 0 THEN s ELSE Step(of, with, g[i - 1], i)]
Runs(g, of, with, s, n) ==
  g[0] = s /\ \A i \in 1..n : g[i] = Step(of, with, g[i - 1], i)

LEMMA StepsHaveValues ==
  ASSUME NEW of, NEW with, NEW s, NEW n \in Nat
  PROVE  \E g : Stepped(g, of, with, s, n)
<1> DEFINE F(g, m) == g = [i \in 0..m |-> IF i = 0 THEN s ELSE Step(of, with, g[i - 1], i)]
           S == {m \in 0..n : \E g : F(g, m)}
<1>1. 0 \in S
  <2>1. F([i \in 0..0 |-> s], 0)
    OBVIOUS
  <2> HIDE DEF F
  <2>2. \E g : F(g, 0)
    BY <2>1
  <2> QED BY <2>2
<1>2. \A m \in 0..n : m # n /\ m \in S => m + 1 \in S
  <2> SUFFICES ASSUME NEW m \in 0..n, m # n, m \in S PROVE m + 1 \in S
    OBVIOUS
  <2>1. PICK g : F(g, m)
    OBVIOUS
  <2> DEFINE h == [i \in 0..(m + 1) |-> IF i = m + 1 THEN Step(of, with, g[m], m + 1) ELSE g[i]]
  <2>2. \A i \in 0..m : h[i] = g[i]
    OBVIOUS
  <2>3. \A i \in 0..(m + 1) : h[i] = IF i = 0 THEN s ELSE Step(of, with, h[i - 1], i)
    <3> SUFFICES ASSUME NEW i \in 0..(m + 1)
                 PROVE  h[i] = IF i = 0 THEN s ELSE Step(of, with, h[i - 1], i)
      OBVIOUS
    <3>1. CASE i = m + 1
      BY <3>1, <2>2
    <3>2. CASE i # m + 1
      <4>1. i \in 0..m /\ (i # 0 => i - 1 \in 0..m)
        BY <3>2
      <4> QED BY <4>1, <2>1, <2>2
    <3> QED BY <3>1, <3>2
  <2>4. F(h, m + 1)
    BY <2>3
  <2> HIDE DEF F, h
  <2>5. \E k : F(k, m + 1)
    BY <2>4
  <2> QED BY <2>5
<1> HIDE DEF S
<1>3. n \in S
  BY <1>1, <1>2, UpTo
<1>4. \E g : F(g, n)
  BY <1>3 DEF S
<1> QED BY <1>4, Zenon DEF Stepped

LEMMA StepsRun ==
  ASSUME NEW g, NEW of, NEW with, NEW s, NEW n \in Nat, Stepped(g, of, with, s, n)
  PROVE  Runs(g, of, with, s, n)
BY DEF Runs, Stepped

---------------------------------------------------------------------------
\* The image history.  BoundaryHolds needs to know that what an updater has
\* seen it was given, and that one that is not ready has kept nothing.  While a
\* response is gone through, an image that is kept from earlier polls has no new
\* boundary behind it among the images gone through so far (Clean).

ReadInv ==
  /\ images \in Seq([at : Nat, on : BOOLEAN, light : BOOLEAN, begun : BOOLEAN]) /\ clock \in Nat
  /\ read \subseteq 1..Len(images) /\ seen \subseteq read /\ points \subseteq Nat
  /\ ~ready => seen = {} /\ points = {} /\ charts = {}

BoundaryInv == ReadInv /\ BoundaryHolds

\* What an updater consists of.
ImageFields ==
  {"seen", "lastPost", "skipped", "options", "points", "sincePlot", "due", "summaries"}
Formed(s) == DOMAIN s = ImageFields

LEMMA UpdaterForms == Formed(Updater) /\ Updater.seen = seen /\ Updater.points = points
BY DEF Formed, ImageFields, Updater

\* No operation of the history shows more than there was.
Keeps(s, t) == Formed(t) /\ t.seen = s.seen /\ t.points \subseteq s.points

LEMMA TrimmedKeeps == \A P : Trimmed(P) \subseteq P
BY DEF Trimmed

LEMMA ClearedKeeps == \A s : Formed(s) => Keeps(s, Cleared(s)) /\ Cleared(s).points = {}
BY DEF Formed, ImageFields, Keeps, Cleared

LEMMA RevokedKeeps == \A s : Formed(s) => Keeps(s, Revoked(s)) /\ Revoked(s).points = {}
BY ClearedKeeps DEF Formed, ImageFields, Keeps, Revoked

LEMMA ConfigureKeeps == \A s, o : Formed(s) => Keeps(s, Configure(s, o))
<1> SUFFICES ASSUME NEW s, NEW o, Formed(s) PROVE Keeps(s, Configure(s, o))
  OBVIOUS
<1> DEFINE changed == IF s.options = o THEN s ELSE [s EXCEPT !.sincePlot = 0, !.due = FALSE]
           kept == IF Enabled(o) THEN changed ELSE Cleared(changed)
<1>1. Keeps(s, changed)
  BY DEF Formed, ImageFields, Keeps
<1>2. Keeps(s, kept)
  <2> HIDE DEF changed
  <2> QED BY <1>1, ClearedKeeps DEF Keeps
<1> HIDE DEF kept
<1>3. Keeps(s, [kept EXCEPT !.options = o, !.points = Trimmed(kept.points)])
  BY <1>2, TrimmedKeeps DEF Formed, ImageFields, Keeps
<1>4. Configure(s, o) = [kept EXCEPT !.options = o, !.points = Trimmed(kept.points)]
  BY Zenon DEF Configure, kept
<1> QED BY <1>3, <1>4

LEMMA RecordKeeps ==
  \A s, i, live : Formed(s) =>
    LET t == Record(s, i, live) IN
    Formed(t) /\ t.seen = s.seen /\ t.points \subseteq s.points \cup {i}
<1> SUFFICES ASSUME NEW s, NEW i, NEW live, Formed(s)
             PROVE  LET t == Record(s, i, live) IN
                    Formed(t) /\ t.seen = s.seen /\ t.points \subseteq s.points \cup {i}
  OBVIOUS
<1>1. PICK noted, count, due :
        LET waiting == IF images[i].light THEN [s EXCEPT !.summaries = noted] ELSE s IN
        \/ Record(s, i, live) = waiting
        \/ Record(s, i, live) = [waiting EXCEPT !.points = Trimmed(@ \cup {i}),
                                                !.sincePlot = count, !.due = due]
  BY Zenon DEF Record
<1> DEFINE waiting == IF images[i].light THEN [s EXCEPT !.summaries = noted] ELSE s
<1>2. Keeps(s, waiting) /\ waiting.points = s.points
  BY DEF Formed, ImageFields, Keeps
<1> HIDE DEF waiting
<1>3. LET t == [waiting EXCEPT !.points = Trimmed(@ \cup {i}), !.sincePlot = count, !.due = due]
      IN  Formed(t) /\ t.seen = s.seen /\ t.points \subseteq s.points \cup {i}
  BY <1>2, TrimmedKeeps DEF Formed, ImageFields, Keeps
<1> QED BY <1>1, <1>2, <1>3 DEF waiting, Keeps

LEMMA AnnounceKeeps == \A s : Formed(s) => Keeps(s, Announce(s))
BY DEF Formed, ImageFields, Keeps, Announce

\* One image of a response: a new boundary takes all that is kept, and what is
\* added is shared.
LEMMA PollsImage ==
  ASSUME NEW s, Formed(s), NEW i, NEW reseed
  PROVE  LET t == PollImage(s, i, reseed) IN
         /\ Formed(t) /\ t.seen \subseteq s.seen \cup {i}
         /\ t.points \subseteq s.points \cup (Shared \cap {i})
         /\ IsBoundary(i) /\ i \notin s.seen => t.points = {}
<1> DEFINE known == [s EXCEPT !.seen = @ \cup {i}]
           kept == IF i \notin s.seen \/ reseed THEN Record(known, i, i \notin s.seen) ELSE known
<1>1. Formed(known) /\ known.seen = s.seen \cup {i} /\ known.points = s.points
  BY DEF Formed, ImageFields
<1> HIDE DEF known
<1>2. Formed(kept) /\ kept.seen = s.seen \cup {i} /\ kept.points \subseteq s.points \cup {i}
  BY <1>1, RecordKeeps, Zenon
<1> HIDE DEF kept
<1>3. PollImage(s, i, reseed) =
        IF i \notin s.seen /\ IsBoundary(i) THEN Revoked(known)
        ELSE IF i \notin Shared THEN s
        ELSE IF i \notin s.seen THEN Announce(kept) ELSE kept
  BY Zenon DEF PollImage, known, kept
<1>4. CASE i \notin s.seen /\ IsBoundary(i)
  BY <1>1, <1>3, <1>4, RevokedKeeps DEF Keeps
<1>5. CASE ~(i \notin s.seen /\ IsBoundary(i))
  BY <1>2, <1>3, <1>5, AnnounceKeeps DEF Keeps
<1> QED BY <1>4, <1>5

\* Gone through up to i.
Clean(s, i) ==
  /\ Formed(s) /\ s.seen \subseteq seen \cup (ImageResponse \cap 1..i)
  /\ \A p \in s.points :
       \/ p \in Shared
       \/ p \in points /\ \A b \in ImageResponse : IsBoundary(b) /\ b <= i => b \in seen

LEMMA PolledRuns ==
  ASSUME NEW s, NEW reseed, Len(images) \in Nat
  PROVE  \E g : Runs(g, "poll", reseed, s, Len(images)) /\ Polled(s, reseed) = g[Len(images)]
<1> DEFINE n == Len(images)
           F(g) == g = [i \in 0..n |->
                     IF i = 0 THEN s
                     ELSE IF i \in ImageResponse THEN PollImage(g[i - 1], i, reseed) ELSE g[i - 1]]
           G(g) == Stepped(g, "poll", reseed, s, n)
           f == CHOOSE g : F(g)
<1>1. \A g : F(g) <=> G(g)
  BY Zenon DEF Step, Stepped
<1>2. \E g : G(g)
  BY StepsHaveValues
<1>3. Polled(s, reseed) = f[n]
  BY Zenon DEF Polled
<1> HIDE DEF F, G
<1>4. G(f)
  BY <1>1, <1>2, Zenon
<1> HIDE DEF f
<1>5. Runs(f, "poll", reseed, s, n)
  BY <1>4, StepsRun DEF G
<1> QED BY <1>3, <1>5

LEMMA SeededRuns ==
  ASSUME NEW s, Len(images) \in Nat
  PROVE  \E g : Runs(g, "seed", 0, s, Len(images)) /\ Seeded(s) = g[Len(images)]
<1> DEFINE n == Len(images)
           F(g) == g = [i \in 0..n |->
                     IF i = 0 THEN s
                     ELSE IF i \in Shared THEN SeedImage(g[i - 1], i) ELSE g[i - 1]]
           G(g) == Stepped(g, "seed", 0, s, n)
           f == CHOOSE g : F(g)
<1>1. \A g : F(g) <=> G(g)
  BY Zenon DEF Step, Stepped
<1>2. \E g : G(g)
  BY StepsHaveValues
<1>3. Seeded(s) = f[n]
  BY Zenon DEF Seeded
<1> HIDE DEF F, G
<1>4. G(f)
  BY <1>1, <1>2, Zenon
<1> HIDE DEF f
<1>5. Runs(f, "seed", 0, s, n)
  BY <1>4, StepsRun DEF G
<1> QED BY <1>3, <1>5

LEMMA CleanStart == \A s : Formed(s) /\ s.seen = seen /\ s.points \subseteq points => Clean(s, 0)
BY DEF Clean, ImageResponse

LEMMA CleanStep ==
  ASSUME NEW i \in 1..Len(images), Len(images) \in Nat, NEW s, NEW reseed, Clean(s, i - 1)
  PROVE  Clean(Step("poll", reseed, s, i), i)
<1> DEFINE t == PollImage(s, i, reseed)
<1>1. Step("poll", reseed, s, i) = IF i \in ImageResponse THEN t ELSE s
  BY Zenon DEF Step
<1>2. ASSUME NEW x, Formed(x), x.seen \subseteq seen \cup (ImageResponse \cap 1..i),
             \A p \in x.points : p \in s.points \/ p \in Shared,
             i \in ImageResponse /\ IsBoundary(i) /\ i \notin seen => x.points = {}
      PROVE  Clean(x, i)
  <2>1. ASSUME NEW p \in x.points, p \notin Shared, NEW b \in ImageResponse, IsBoundary(b), b <= i
        PROVE  p \in points /\ b \in seen
    <3>1. p \in s.points
      BY <1>2, <2>1
    <3>2. p \in points /\ \A c \in ImageResponse : IsBoundary(c) /\ c <= i - 1 => c \in seen
      BY <2>1, <3>1 DEF Clean
    <3>3. b \in 1..Len(images)
      BY DEF ImageResponse
    <3>4. b <= i - 1 \/ b = i
      BY <2>1, <3>3
    <3>5. b = i => b \in seen
      BY <1>2, <2>1
    <3> QED BY <2>1, <3>2, <3>4, <3>5
  <2>2. ASSUME NEW p \in x.points, p \notin Shared PROVE p \in points
    BY <1>2, <2>2 DEF Clean
  <2> QED BY <1>2, <2>1, <2>2 DEF Clean
<1>3. CASE i \in ImageResponse
  <2>1. /\ Formed(t) /\ t.seen \subseteq s.seen \cup {i}
        /\ t.points \subseteq s.points \cup (Shared \cap {i})
        /\ IsBoundary(i) /\ i \notin s.seen => t.points = {}
    BY PollsImage DEF Clean
  <2> HIDE DEF t
  <2>2. s.seen \subseteq seen \cup (ImageResponse \cap 1..(i - 1))
    BY DEF Clean
  <2>3. t.seen \subseteq seen \cup (ImageResponse \cap 1..i)
    BY <1>3, <2>1, <2>2
  <2>4. i \notin seen => i \notin s.seen
    BY <2>2
  <2>5. Clean(t, i)
    BY <1>2, <2>1, <2>3, <2>4
  <2> QED BY <1>1, <1>3, <2>5
<1>4. CASE i \notin ImageResponse
  <2>1. s.seen \subseteq seen \cup (ImageResponse \cap 1..i)
    BY DEF Clean
  <2>2. Clean(s, i)
    BY <1>2, <1>4, <2>1 DEF Clean
  <2> QED BY <1>1, <1>4, <2>2
<1> QED BY <1>3, <1>4

LEMMA PolledIsClean ==
  ASSUME NEW s, NEW reseed, Len(images) \in Nat, Clean(s, 0)
  PROVE  Clean(Polled(s, reseed), Len(images))
<1> DEFINE n == Len(images)
<1>1. PICK g : Runs(g, "poll", reseed, s, n) /\ Polled(s, reseed) = g[n]
  BY PolledRuns
<1> DEFINE S == {i \in 0..n : Clean(g[i], i)}
<1>2. 0 \in S
  BY <1>1 DEF Runs
<1>3. \A i \in 0..n : i # n /\ i \in S => i + 1 \in S
  <2> SUFFICES ASSUME NEW i \in 0..n, i # n, Clean(g[i], i) PROVE i + 1 \in S
    OBVIOUS
  <2>1. i + 1 \in 1..n /\ (i + 1) - 1 = i
    OBVIOUS
  <2>2. g[i + 1] = Step("poll", reseed, g[i], i + 1)
    BY <1>1, <2>1 DEF Runs
  <2>3. Clean(g[i + 1], i + 1)
    BY <2>1, <2>2, CleanStep
  <2> QED BY <2>1, <2>3
<1> HIDE DEF S
<1>4. n \in Nat
  OBVIOUS
<1> HIDE DEF n
<1>5. n \in S
  <2>1. \A i \in 0..n : i \in S
    BY <1>2, <1>3, <1>4, UpTo, Zenon
  <2> QED BY <1>4, <2>1
<1> QED BY <1>1, <1>5 DEF S, n

\* The baseline takes shared images only.
Seedling(s) == Formed(s) /\ s.seen \subseteq Shared /\ s.points \subseteq Shared

LEMMA SeededIsShared ==
  ASSUME NEW s, Len(images) \in Nat, Seedling(s)
  PROVE  Seedling(Seeded(s))
<1> DEFINE n == Len(images)
<1>1. PICK g : Runs(g, "seed", 0, s, n) /\ Seeded(s) = g[n]
  BY SeededRuns
<1> DEFINE S == {i \in 0..n : Seedling(g[i])}
<1>2. 0 \in S
  BY <1>1 DEF Runs
<1>3. \A i \in 0..n : i # n /\ i \in S => i + 1 \in S
  <2> SUFFICES ASSUME NEW i \in 0..n, i # n, Seedling(g[i]) PROVE i + 1 \in S
    OBVIOUS
  <2>1. i + 1 \in 1..n /\ (i + 1) - 1 = i
    OBVIOUS
  <2> DEFINE p == g[i]
             j == i + 1
             known == [p EXCEPT !.seen = p.seen \cup {j}]
  <2>2. g[j] = IF j \in Shared THEN SeedImage(p, j) ELSE p
    BY <1>1, <2>1, Zenon DEF Runs, Step
  <2>3. SeedImage(p, j) = Record(known, j, FALSE)
    BY Zenon DEF SeedImage
  <2>4. Formed(p) /\ p.seen \subseteq Shared /\ p.points \subseteq Shared
    BY DEF Seedling
  <2> HIDE DEF p, j
  <2>5. Formed(known) /\ known.seen = p.seen \cup {j} /\ known.points = p.points
    BY <2>4 DEF Formed, ImageFields
  <2> HIDE DEF known
  <2>6. j \in Shared => Seedling(SeedImage(p, j))
    <3>1. /\ Formed(Record(known, j, FALSE)) /\ Record(known, j, FALSE).seen = known.seen
          /\ Record(known, j, FALSE).points \subseteq known.points \cup {j}
      BY <2>5, RecordKeeps, Zenon
    <3> QED BY <2>3, <2>4, <2>5, <3>1 DEF Seedling
  <2>7. Seedling(g[j])
    BY <2>2, <2>4, <2>6 DEF p
  <2> QED BY <2>1, <2>7 DEF j
<1> HIDE DEF S
<1>4. n \in Nat
  OBVIOUS
<1> HIDE DEF n
<1>5. n \in S
  <2>1. \A i \in 0..n : i \in S
    BY <1>2, <1>3, <1>4, UpTo, Zenon
  <2> QED BY <1>4, <2>1
<1> QED BY <1>1, <1>5 DEF S, n

\* Among the disabled images of a response there is a newest one.
LEMMA NewestBoundary ==
  ASSUME Len(images) \in Nat, NEW c \in ImageResponse, ~images[c].on,
         \A i \in 1..Len(images) : images[i].on \in BOOLEAN
  PROVE  \E b \in ImageResponse : IsBoundary(b) /\ c <= b
<1> DEFINE n == Len(images)
           T == {m \in 0..n : n - m \in ImageResponse /\ ~images[n - m].on}
<1>1. n - c \in T
  <2>1. c \in 1..n /\ n - (n - c) = c
    BY DEF ImageResponse
  <2> QED BY <2>1
<1>2. PICK m \in T : \A k \in T : m <= k
  <2>1. T \subseteq Nat /\ T # {}
    BY <1>1
  <2> HIDE DEF T
  <2> QED BY <2>1, Least
<1> DEFINE b == n - m
<1>3. b \in ImageResponse /\ ~images[b].on
  BY <1>2
<1>4. ASSUME NEW d \in ImageResponse, ~images[d].on PROVE d <= b
  <2>1. d \in 1..n /\ n - (n - d) = d /\ n - d \in 0..n
    BY DEF ImageResponse
  <2>2. n - d \in T
    BY <1>4, <2>1
  <2> QED BY <1>2, <2>1, <2>2
<1>5. c <= b
  BY <1>4
<1> QED BY <1>3, <1>4, <1>5 DEF IsBoundary

\* What is left after a response is newer than every disabled image read so far.
LEMMA CleanIsNewer ==
  ASSUME BoundaryInv, NEW s, Clean(s, Len(images)), NEW p \in s.points,
         NEW b \in read \cup ImageResponse, ~images[b].on
  PROVE  p > b
<1> DEFINE n == Len(images)
<1>0. /\ n \in Nat /\ ImageRetention \in Nat /\ b \in 1..n
      /\ \A i \in 1..n : images[i].on \in BOOLEAN
  <2>1. images \in Seq([at : Nat, on : BOOLEAN, light : BOOLEAN, begun : BOOLEAN])
    BY DEF BoundaryInv, ReadInv
  <2> DEFINE T == [at : Nat, on : BOOLEAN, light : BOOLEAN, begun : BOOLEAN]
  <2>2. n \in Nat /\ \A i \in 1..n : images[i].on \in BOOLEAN
    <3>1. \A t \in T : t.on \in BOOLEAN
      OBVIOUS
    <3>2. images \in Seq(T)
      BY <2>1
    <3> HIDE DEF T
    <3> QED BY <3>1, <3>2
  <2>3. b \in 1..n
    BY DEF BoundaryInv, ReadInv, ImageResponse
  <2> QED BY <2>2, <2>3, ImagePostsAssumption
<1>1. CASE p \in Shared
  <2>1. p \in ImageResponse /\ \A c \in ImageResponse : images[c].on \/ c < p
    BY <1>1 DEF Shared
  <2>2. CASE b \in ImageResponse
    BY <1>0, <2>1, <2>2 DEF ImageResponse
  <2>3. CASE b \notin ImageResponse
    <3>1. p \in 1..n /\ p > n - ImageRetention
      BY <2>1 DEF ImageResponse
    <3>2. ~(b > n - ImageRetention)
      BY <1>0, <2>3 DEF ImageResponse
    <3> HIDE DEF n
    <3> QED BY <1>0, <3>1, <3>2
  <2> QED BY <2>2, <2>3
<1>2. CASE p \notin Shared
  <2>1. p \in points /\ \A c \in ImageResponse : IsBoundary(c) /\ c <= n => c \in seen
    BY <1>2 DEF Clean
  <2>2. CASE b \in read
    BY <2>1, <2>2 DEF BoundaryInv, BoundaryHolds
  <2>3. CASE b \in ImageResponse
    <3>1. PICK c \in ImageResponse : IsBoundary(c) /\ b <= c
      BY <1>0, <2>3, NewestBoundary
    <3>2. c \in 1..n /\ ~images[c].on
      BY <3>1 DEF ImageResponse, IsBoundary
    <3>3. c \in read
      BY <1>0, <2>1, <3>1, <3>2 DEF BoundaryInv, ReadInv
    <3>4. p > c
      BY <2>1, <3>2, <3>3 DEF BoundaryInv, BoundaryHolds
    <3>5. p \in Nat
      BY <2>1 DEF BoundaryInv, ReadInv
    <3> QED BY <1>0, <3>1, <3>2, <3>4, <3>5
  <2> QED BY <2>2, <2>3
<1> QED BY <1>1, <1>2

\* What a poll, or the baseline, makes of it.
LEMMA PollBoundary ==
  ASSUME BoundaryInv, PollImages
  PROVE  BoundaryInv'
<1> DEFINE n == Len(images)
           begin == Configure(Updater, choice)
           configured == IF choice.onEnd THEN begin ELSE [begin EXCEPT !.summaries = <<>>]
           s == Polled(configured, ~Enabled(options))
           trimmed == [s EXCEPT !.points = Trimmed(s.points)]
<1>0. images \in Seq([at : Nat, on : BOOLEAN, light : BOOLEAN, begun : BOOLEAN]) /\ n \in Nat
  BY DEF BoundaryInv, ReadInv
<1>1. Clean(configured, 0)
  <2>1. Keeps(Updater, begin)
    BY UpdaterForms, ConfigureKeeps
  <2> HIDE DEF begin
  <2>2. Formed(configured) /\ configured.seen = begin.seen /\ configured.points = begin.points
    BY <2>1 DEF Keeps, Formed, ImageFields
  <2> HIDE DEF configured
  <2> QED BY <2>1, <2>2, UpdaterForms, CleanStart DEF Keeps
<1>2. Clean(s, n)
  <2> HIDE DEF configured
  <2> QED BY <1>0, <1>1, PolledIsClean
<1>3. Formed(s) /\ s.seen \subseteq seen \cup ImageResponse /\ s.points \subseteq Shared \cup points
  BY <1>2 DEF Clean
<1>4. /\ seen' = s.seen /\ points' \subseteq s.points /\ \A P \in charts' : P \subseteq s.points
      /\ read' = read \cup ImageResponse /\ images' = images /\ clock' = clock /\ ready' = ready /\ ready
  <2>1. /\ ImagesBecome([trimmed EXCEPT !.summaries = Waiting(s)])
        /\ charts' = Statistics(trimmed)
        /\ read' = read \cup ImageResponse /\ images' = images /\ clock' = clock
        /\ ready' = ready /\ ready
    BY Zenon DEF PollImages
  <2> HIDE DEF s
  <2>2. Formed(trimmed) /\ trimmed.seen = s.seen /\ trimmed.points \subseteq s.points
    BY <1>3, TrimmedKeeps DEF Formed, ImageFields
  <2> HIDE DEF trimmed
  <2>3. /\ seen' = trimmed.seen /\ points' = trimmed.points
    BY <2>1, <2>2 DEF ImagesBecome, Formed, ImageFields
  <2>4. \A m : Summary(trimmed, m) \subseteq trimmed.points
    BY DEF Summary
  <2>5. \A P \in Statistics(trimmed) : P \subseteq trimmed.points
    BY <2>4 DEF Statistics
  <2> QED BY <2>1, <2>2, <2>3, <2>5
<1> HIDE DEF s
<1>5. ReadInv'
  <2>1. ImageResponse \subseteq 1..n /\ Shared \subseteq Nat
    BY <1>0 DEF ImageResponse, Shared
  <2>2. points \subseteq Nat /\ read \subseteq 1..n /\ seen \subseteq read
    BY DEF BoundaryInv, ReadInv
  <2>3. clock \in Nat
    BY DEF BoundaryInv, ReadInv
  <2> QED BY <1>0, <1>3, <1>4, <2>1, <2>2, <2>3 DEF ReadInv
<1>6. ASSUME NEW b \in read \cup ImageResponse, ~images[b].on, NEW p \in s.points PROVE p > b
  BY <1>2, <1>6, CleanIsNewer
<1>7. BoundaryHolds'
  BY <1>4, <1>6 DEF BoundaryHolds
<1> QED BY <1>5, <1>7 DEF BoundaryInv

LEMMA BaselineBoundary ==
  ASSUME BoundaryInv, BaselineImages
  PROVE  BoundaryInv'
<1> DEFINE n == Len(images)
           begin == Configure(Updater, choice)
           s == Seeded(begin)
<1>0. images \in Seq([at : Nat, on : BOOLEAN, light : BOOLEAN, begun : BOOLEAN]) /\ n \in Nat
  BY DEF BoundaryInv, ReadInv
<1>1. ReadInv /\ ~ready /\ seen = {} /\ points = {} /\ charts = {}
  BY DEF BoundaryInv, ReadInv, BaselineImages
<1>2. Seedling(s)
  <2>1. Keeps(Updater, begin)
    BY UpdaterForms, ConfigureKeeps
  <2> HIDE DEF begin
  <2>2. Seedling(begin)
    BY <1>1, <2>1, UpdaterForms DEF Keeps, Seedling
  <2> QED BY <1>0, <2>2, SeededIsShared
<1>3. /\ seen' = s.seen /\ points' = s.points /\ charts' = {}
      /\ read' = read \cup ImageResponse /\ images' = images /\ clock' = clock /\ ready'
  <2>1. ImagesBecome(s)
    BY Zenon DEF BaselineImages
  <2> HIDE DEF s
  <2> QED BY <1>1, <2>1 DEF BaselineImages, ImagesBecome
<1>4. Shared \subseteq ImageResponse /\ ImageResponse \subseteq 1..n
  BY DEF Shared, ImageResponse
<1>5. ReadInv'
  <2> HIDE DEF s
  <2>1. s.seen \subseteq Shared /\ s.points \subseteq Shared
    BY <1>2 DEF Seedling
  <2>2. seen' \subseteq read' /\ read' \subseteq 1..Len(images') /\ points' \subseteq Nat
    <3>1. read \subseteq 1..n
      BY <1>1 DEF ReadInv
    <3>2. seen' \subseteq read'
      BY <1>3, <1>4, <2>1, Zenon
    <3>3. Len(images') = n
      BY <1>3
    <3>4. read' \subseteq 1..n /\ points' \subseteq 1..n
      BY <1>3, <1>4, <2>1, <3>1, Zenon
    <3> QED BY <1>0, <3>2, <3>3, <3>4
  <2>3. images' \in Seq([at : Nat, on : BOOLEAN, light : BOOLEAN, begun : BOOLEAN]) /\ clock' \in Nat
    BY <1>0, <1>1, <1>3 DEF ReadInv
  <2> QED BY <1>3, <2>2, <2>3 DEF ReadInv
<1>6. ASSUME NEW b \in read \cup ImageResponse, ~images[b].on, NEW p \in s.points PROVE p > b
  <2>1. Clean(s, n)
    BY <1>2, <1>4 DEF Seedling, Clean
  <2> QED BY <1>6, <2>1, CleanIsNewer
<1>7. BoundaryHolds'
  <2> HIDE DEF s
  <2> QED BY <1>3, <1>6 DEF BoundaryHolds
<1> QED BY <1>5, <1>7 DEF BoundaryInv

LEMMA BoundaryInit == ImagePostsInit => BoundaryInv
BY DEF ImagePostsInit, BoundaryInv, ReadInv, BoundaryHolds

LEMMA BoundaryStep == BoundaryInv /\ [ImagePostsNext]_imagePostsVars => BoundaryInv'
<1> SUFFICES ASSUME BoundaryInv, [ImagePostsNext]_imagePostsVars PROVE BoundaryInv'
  OBVIOUS
<1>1. ASSUME NEW frame \in Frames, TakeImage(frame) PROVE BoundaryInv'
  <2> DEFINE image == [at |-> clock, on |-> frame.on, light |-> frame.light, begun |-> frame.begun]
             T == [at : Nat, on : BOOLEAN, light : BOOLEAN, begun : BOOLEAN]
  <2>1. image \in T /\ images \in Seq(T)
    BY ImagePostsAssumption DEF BoundaryInv, ReadInv
  <2>2. /\ images' = Append(images, image) /\ read' = read /\ seen' = seen /\ ready' = ready
        /\ points' = points /\ charts' = charts /\ clock' = clock
    BY <1>1, Zenon DEF TakeImage
  <2> HIDE DEF image, T
  <2>3. /\ images' \in Seq(T) /\ Len(images') = Len(images) + 1
        /\ \A i \in 1..Len(images) : images'[i] = images[i]
    BY <2>1, <2>2
  <2>4. read \subseteq 1..Len(images) /\ Len(images) \in Nat
    BY <2>1 DEF BoundaryInv, ReadInv
  <2>5. ReadInv'
    <3>1. /\ seen \subseteq read /\ points \subseteq Nat /\ clock \in Nat
          /\ ~ready => seen = {} /\ points = {} /\ charts = {}
      BY DEF BoundaryInv, ReadInv
    <3>2. read' \subseteq 1..Len(images')
      BY <2>2, <2>3, <2>4
    <3> QED BY <2>2, <2>3, <3>1, <3>2 DEF ReadInv, T
  <2>6. BoundaryHolds'
    BY <2>2, <2>3, <2>4 DEF BoundaryInv, BoundaryHolds
  <2> QED BY <2>5, <2>6 DEF BoundaryInv
<1>2. CASE BaselineImages
  BY <1>2, BaselineBoundary
<1>3. CASE PollImages
  BY <1>3, PollBoundary
<1>4. CASE RevokeImages
  <2>1. Keeps(Updater, Revoked(Updater)) /\ Revoked(Updater).points = {}
    BY UpdaterForms, RevokedKeeps
  <2>2. points' = {} /\ seen' = seen
    BY <1>4, <2>1, UpdaterForms DEF RevokeImages, ImagesBecome, Keeps
  <2> QED BY <1>4, <2>2 DEF RevokeImages, BoundaryInv, ReadInv, BoundaryHolds
<1>5. ASSUME NEW o \in Options, ChooseOptions(o) PROVE BoundaryInv'
  BY <1>5 DEF ChooseOptions, BoundaryInv, ReadInv, BoundaryHolds
<1>6. CASE Elapse
  BY <1>6 DEF Elapse, BoundaryInv, ReadInv, BoundaryHolds
<1>7. CASE SequenceStarting \/ SequenceFinished \/ ForgetSummaries
  BY <1>7 DEF SequenceStarting, SequenceFinished, ForgetSummaries, BoundaryInv, ReadInv, BoundaryHolds
<1>8. CASE UNCHANGED imagePostsVars
  BY <1>8 DEF imagePostsVars, BoundaryInv, ReadInv, BoundaryHolds
<1> QED BY <1>1, <1>2, <1>3, <1>4, <1>5, <1>6, <1>7, <1>8 DEF ImagePostsNext

\* A disabled image is a boundary: for any frames, options and limits, no image
\* from before one that the updater was given is kept for a chart or shown in one.
THEOREM BoundariesHold == ImagePostsSpec => []BoundaryHolds
<1>1. BoundaryInv => BoundaryHolds
  BY DEF BoundaryInv
<1> QED BY <1>1, BoundaryInit, BoundaryStep, PTL DEF ImagePostsSpec

---------------------------------------------------------------------------
\* The counters of dropped diagnostics.  NoticesAreTrue needs to know what the
\* plugin has counted and the hub has not yet heard of (Ahead): it is counted as
\* unreported, too.

Drops == {"pending", "source", "hasSnapshot", "sinceNotice", "unreported"}

Marks(s, k) == k \in DOMAIN s.source /\ s.source[k].epoch = counters[k].epoch
Ahead(s, k) == IF Marks(s, k) THEN counters[k].count - s.source[k].count ELSE counters[k].count

\* A watermark is not above the plugin's counter.
MarkFits(mark, k) ==
  /\ mark.epoch \in Nat /\ mark.count \in Nat /\ mark.epoch <= counters[k].epoch
  /\ mark.epoch = counters[k].epoch => mark.count <= counters[k].count

Shaped(s) ==
  /\ DOMAIN s = Drops /\ s.hasSnapshot \in BOOLEAN /\ s.sinceNotice \in 0..NoticeInterval
  /\ DOMAIN s.pending \subseteq Keys /\ \A k \in DOMAIN s.pending : s.pending[k] \in Nat \ {0}
  /\ DOMAIN s.source \subseteq Keys /\ \A k \in DOMAIN s.source : MarkFits(s.source[k], k)
  /\ s.unreported \in [Keys -> Int]

Fits(s) == Shaped(s) /\ \A k \in Keys : Count(s, k) + Ahead(s, k) <= s.unreported[k]

CountersInv ==
  /\ counters \in [Keys -> [on : BOOLEAN, epoch : 0..MaxEpoch, count : 0..MaxCount]]
  /\ \A k \in Keys : ~counters[k].on => counters[k].count = 0

DropsInv ==
  /\ CountersInv /\ Fits(Reporter) /\ counting \in BOOLEAN
  /\ hasSnapshot => DOMAIN pending \subseteq DOMAIN source

LEMMA CountTyped == \A s, k : Shaped(s) => Count(s, k) \in Nat
BY DEF Shaped, Count

LEMMA AddShape ==
  ASSUME NEW s, Shaped(s), NEW k \in Keys, NEW n \in Nat
  PROVE  LET t == Add(s, k, n) IN
         /\ Shaped(t) /\ t.source = s.source /\ t.unreported = s.unreported
         /\ t.hasSnapshot = s.hasSnapshot /\ DOMAIN t.pending \subseteq DOMAIN s.pending \cup {k}
         /\ Count(t, k) <= Count(s, k) + n /\ \A j \in Keys \ {k} : Count(t, j) = Count(s, j)
<1> DEFINE p == [j \in DOMAIN s.pending \cup {k} |-> IF j = k THEN Count(s, k) + n ELSE s.pending[j]]
           t == [s EXCEPT !.pending = p]
<1>0. Count(s, k) \in Nat
  BY CountTyped
<1>1. \/ Add(s, k, n) = s
      \/ n # 0 /\ Add(s, k, n) = t
  BY Zenon DEF Add
<1>2. ASSUME n # 0
      PROVE  /\ DOMAIN t = Drops /\ t.pending = p /\ t.source = s.source
             /\ t.unreported = s.unreported /\ t.hasSnapshot = s.hasSnapshot
             /\ t.sinceNotice = s.sinceNotice
  <2> HIDE DEF p
  <2> QED BY DEF Shaped, Drops
<1>3. ASSUME n # 0
      PROVE  /\ DOMAIN p \subseteq Keys /\ \A j \in DOMAIN p : p[j] \in Nat \ {0}
             /\ DOMAIN p = DOMAIN s.pending \cup {k}
             /\ p[k] = Count(s, k) + n /\ \A j \in DOMAIN s.pending \ {k} : p[j] = s.pending[j]
  BY <1>0, <1>3 DEF Shaped
<1> HIDE DEF p
<1>4. CASE n # 0 /\ Add(s, k, n) = t
  <2> HIDE DEF t
  <2>1. Shaped(t)
    BY <1>2, <1>3, <1>4 DEF Shaped
  <2>2. Count(t, k) = Count(s, k) + n /\ \A j \in Keys \ {k} : Count(t, j) = Count(s, j)
    BY <1>2, <1>3, <1>4 DEF Count
  <2> QED BY <1>0, <1>2, <1>3, <1>4, <2>1, <2>2
<1>5. CASE Add(s, k, n) = s
  BY <1>0, <1>5
<1> QED BY <1>1, <1>4, <1>5

\* Whatever is forgotten of the counts, the rest fits.
LEMMA KeepShape ==
  \A f, S : DOMAIN Keep(f, S) = DOMAIN f \cap S /\ \A k \in DOMAIN f \cap S : Keep(f, S)[k] = f[k]
BY DEF Keep

LEMMA LessPending ==
  ASSUME NEW s, Shaped(s), NEW S
  PROVE  LET t == [s EXCEPT !.pending = Keep(s.pending, S)] IN
         /\ Shaped(t) /\ t.source = s.source /\ t.unreported = s.unreported
         /\ t.hasSnapshot = s.hasSnapshot /\ DOMAIN t.pending = DOMAIN s.pending \cap S
         /\ \A k : Count(t, k) <= Count(s, k) /\ (k \notin S => Count(t, k) = 0)
<1> DEFINE p == Keep(s.pending, S)
           t == [s EXCEPT !.pending = p]
<1>1. DOMAIN p = DOMAIN s.pending \cap S /\ \A k \in DOMAIN p : p[k] = s.pending[k]
  BY KeepShape
<1> HIDE DEF p
<1>2. /\ DOMAIN t = Drops /\ t.pending = p /\ t.source = s.source /\ t.unreported = s.unreported
      /\ t.hasSnapshot = s.hasSnapshot /\ t.sinceNotice = s.sinceNotice
  BY DEF Shaped, Drops
<1> HIDE DEF t
<1>3. Shaped(t)
  BY <1>1, <1>2 DEF Shaped
<1>4. \A k : Count(t, k) <= Count(s, k) /\ (k \notin S => Count(t, k) = 0)
  BY <1>1, <1>2 DEF Shaped, Count
<1> QED BY <1>1, <1>2, <1>3, <1>4 DEF t, p

\* One counter of a snapshot, and all of them.
LEMMA ObservesItem ==
  ASSUME CountersInv, NEW s, Fits(s), NEW k \in Keys, NEW item \in [epoch : Nat, count : Nat],
         item.epoch = counters[k].epoch, item.count <= counters[k].count, NEW initial \in BOOLEAN
  PROVE  LET t == ObserveItem(s, k, item, initial) IN
         /\ Fits(t) /\ t.hasSnapshot = s.hasSnapshot
         /\ DOMAIN t.source = DOMAIN s.source \cup {k}
         /\ DOMAIN t.pending \subseteq DOMAIN s.pending \cup {k}
<1> DEFINE old == IF k \in DOMAIN s.source THEN s.source[k] ELSE item
           kept == IF old.epoch = item.epoch THEN s
                   ELSE [s EXCEPT !.pending = Keep(s.pending, Keys \ {k})]
           m == [j \in DOMAIN s.source \cup {k} |->
                   IF j = k THEN [epoch |-> item.epoch, count |-> HighestCount(old, item)]
                   ELSE s.source[j]]
           marked == [kept EXCEPT !.source = m]
           gained == IF initial THEN 0 ELSE Gained(s, k, item)
           t == Add(marked, k, gained)
<1>0. /\ Shaped(s) /\ counters[k].count \in Nat /\ counters[k].epoch \in Nat
      /\ item.epoch \in Nat /\ item.count \in Nat /\ Count(s, k) \in Nat
  <2>1. Shaped(s) /\ counters[k] \in [on : BOOLEAN, epoch : 0..MaxEpoch, count : 0..MaxCount]
    BY DEF Fits, CountersInv
  <2> QED BY <2>1, CountTyped, CountersFit
<1>1. /\ Shaped(kept) /\ kept.source = s.source /\ kept.unreported = s.unreported
      /\ kept.hasSnapshot = s.hasSnapshot /\ DOMAIN kept.pending \subseteq DOMAIN s.pending
      /\ \A j \in Keys : Count(kept, j) <= Count(s, j)
      /\ old.epoch # item.epoch => Count(kept, k) = 0
  <2> HIDE DEF old
  <2>1. \A j \in Keys : Count(s, j) \in Nat
    BY <1>0, CountTyped
  <2> DEFINE less == [s EXCEPT !.pending = Keep(s.pending, Keys \ {k})]
  <2>2. /\ Shaped(less) /\ less.source = s.source /\ less.unreported = s.unreported
        /\ less.hasSnapshot = s.hasSnapshot /\ DOMAIN less.pending = DOMAIN s.pending \cap (Keys \ {k})
        /\ \A j : Count(less, j) <= Count(s, j) /\ (j \notin Keys \ {k} => Count(less, j) = 0)
    BY <1>0, LessPending, Zenon
  <2>3. kept = IF old.epoch = item.epoch THEN s ELSE less
    OBVIOUS
  <2> HIDE DEF less, kept
  <2>4. CASE old.epoch = item.epoch
    BY <1>0, <2>1, <2>3, <2>4
  <2>5. CASE old.epoch # item.epoch
    BY <1>0, <2>2, <2>3, <2>5
  <2> QED BY <2>4, <2>5
<1>2. ObserveItem(s, k, item, initial) = t
  <2>1. marked = [kept EXCEPT !.source = [j \in DOMAIN kept.source \cup {k} |->
                   IF j = k THEN [epoch |-> item.epoch, count |-> HighestCount(old, item)]
                   ELSE kept.source[j]]]
    <3> HIDE DEF kept, old
    <3> QED BY <1>1
  <2> QED BY <2>1, Zenon DEF ObserveItem
<1> HIDE DEF kept
<1>3. \/ k \in DOMAIN s.source /\ old = s.source[k]
      \/ k \notin DOMAIN s.source /\ old = item
  OBVIOUS
<1>4. MarkFits(old, k)
  BY <1>0, <1>3 DEF Shaped, MarkFits
<1> HIDE DEF old
<1>5. HighestCount(old, item) \in Nat /\ HighestCount(old, item) <= counters[k].count
  BY <1>0, <1>4 DEF HighestCount, MarkFits
<1>6. /\ DOMAIN m = DOMAIN s.source \cup {k} /\ m[k].epoch = item.epoch
      /\ m[k].count = HighestCount(old, item) /\ \A j \in DOMAIN s.source \ {k} : m[j] = s.source[j]
  OBVIOUS
<1>7. DOMAIN m \subseteq Keys /\ \A j \in DOMAIN m : MarkFits(m[j], j)
  <2> HIDE DEF m
  <2>1. MarkFits(m[k], k)
    BY <1>0, <1>5, <1>6 DEF MarkFits
  <2> QED BY <1>0, <1>6, <2>1 DEF Shaped
<1> HIDE DEF m
<1>8. /\ DOMAIN marked = Drops /\ marked.source = m /\ marked.pending = kept.pending
      /\ marked.unreported = s.unreported /\ marked.hasSnapshot = s.hasSnapshot
      /\ marked.sinceNotice = kept.sinceNotice
  BY <1>1 DEF Shaped, Drops
<1> HIDE DEF marked
<1>9. Shaped(marked) /\ \A j \in Keys : Count(marked, j) = Count(kept, j)
  BY <1>1, <1>7, <1>8 DEF Shaped, Count
<1>10. gained \in Nat
  BY <1>0 DEF Gained, Shaped, MarkFits
<1>11. /\ Shaped(t) /\ t.source = m /\ t.unreported = s.unreported /\ t.hasSnapshot = s.hasSnapshot
       /\ DOMAIN t.pending \subseteq DOMAIN s.pending \cup {k}
       /\ Count(t, k) <= Count(kept, k) + gained
       /\ \A j \in Keys \ {k} : Count(t, j) <= Count(s, j)
  <2> HIDE DEF gained
  <2>1. LET u == Add(marked, k, gained) IN
         /\ Shaped(u) /\ u.source = marked.source /\ u.unreported = marked.unreported
         /\ u.hasSnapshot = marked.hasSnapshot
         /\ DOMAIN u.pending \subseteq DOMAIN marked.pending \cup {k}
         /\ Count(u, k) <= Count(marked, k) + gained
         /\ \A j \in Keys \ {k} : Count(u, j) = Count(marked, j)
    BY <1>9, <1>10, AddShape, Zenon
  <2> HIDE DEF t
  <2> QED BY <1>1, <1>8, <1>9, <2>1 DEF t
<1>12. Count(kept, k) + gained + (counters[k].count - HighestCount(old, item)) <= Count(s, k) + Ahead(s, k)
  <2>1. CASE k \in DOMAIN s.source /\ s.source[k].epoch = item.epoch
    <3>1. old = s.source[k] /\ Ahead(s, k) = counters[k].count - old.count
      BY <1>3, <2>1 DEF Ahead, Marks
    <3>2. gained \in {0, IF item.count > old.count THEN item.count - old.count ELSE 0}
      BY <2>1, <3>1 DEF Gained
    <3>3. HighestCount(old, item) = IF old.count > item.count THEN old.count ELSE item.count
      BY <2>1, <3>1 DEF HighestCount
    <3>4. Count(kept, k) <= Count(s, k) /\ Count(kept, k) \in Nat
      BY <1>1, CountTyped
    <3>5. old.count \in Nat
      BY <1>4 DEF MarkFits
    <3> HIDE DEF gained
    <3> QED BY <1>0, <3>1, <3>2, <3>3, <3>4, <3>5
  <2>2. CASE ~(k \in DOMAIN s.source /\ s.source[k].epoch = item.epoch)
    <3>1. gained \in {0, item.count} /\ Ahead(s, k) = counters[k].count
      BY <2>2 DEF Ahead, Marks, Gained
    <3>2. HighestCount(old, item) = item.count
      <4>1. old = item \/ old.epoch # item.epoch
        BY <1>3, <2>2
      <4> QED BY <1>0, <4>1 DEF HighestCount
    <3>3. Count(kept, k) <= Count(s, k) /\ Count(kept, k) \in Nat
      BY <1>1, CountTyped
    <3> HIDE DEF gained
    <3> QED BY <1>0, <3>1, <3>2, <3>3
  <2> QED BY <2>1, <2>2
<1> HIDE DEF t, gained
<1>13. ASSUME NEW j \in Keys PROVE Count(t, j) + Ahead(t, j) <= t.unreported[j]
  <2>1. Count(s, j) + Ahead(s, j) <= s.unreported[j] /\ s.unreported[j] \in Int
    BY DEF Fits, Shaped
  <2>2. Count(t, j) \in Nat /\ Count(s, j) \in Nat
    BY <1>0, <1>11, CountTyped
  <2>3. CASE j = k
    <3>1. Ahead(t, k) = counters[k].count - HighestCount(old, item)
      BY <1>6, <1>11 DEF Ahead, Marks
    <3>2. Count(kept, k) \in Nat /\ Ahead(s, k) \in Int
      BY <1>0, <1>1, CountTyped DEF Ahead, Marks, Shaped, MarkFits
    <3> QED BY <1>0, <1>5, <1>10, <1>11, <1>12, <2>1, <2>2, <2>3, <3>1, <3>2
  <2>4. CASE j # k
    <3>1. Ahead(t, j) = Ahead(s, j)
      BY <1>6, <1>11, <2>4 DEF Ahead, Marks
    <3>2. Ahead(s, j) \in Int
      <4>1. counters[j].count \in Int
        BY CountersFit DEF CountersInv
      <4> QED BY <1>0, <4>1 DEF Ahead, Marks, Shaped, MarkFits
    <3> QED BY <1>11, <2>1, <2>2, <2>4, <3>1, <3>2
  <2> QED BY <2>3, <2>4
<1> QED BY <1>2, <1>6, <1>11, <1>13 DEF Fits

LEMMA SnapshotFacts ==
  ASSUME CountersInv, NEW snapshot \in Snapshots
  PROVE  /\ DOMAIN snapshot \subseteq Keys
         /\ \A k \in DOMAIN snapshot :
              /\ snapshot[k] \in [epoch : Nat, count : Nat]
              /\ snapshot[k].epoch = counters[k].epoch /\ snapshot[k].count <= counters[k].count
         /\ \A k \in Keys \ DOMAIN snapshot : counters[k].count = 0
<1> DEFINE on == {k \in Keys : counters[k].on}
<1>1. PICK n \in [on -> 0..MaxCount] :
        /\ \A k \in on : n[k] <= counters[k].count
        /\ snapshot = [k \in on |-> [epoch |-> counters[k].epoch, count |-> n[k]]]
  BY DEF Snapshots
<1>2. \A k \in Keys : counters[k].epoch \in Nat /\ (k \notin on => counters[k].count = 0)
  BY CountersFit DEF CountersInv
<1>3. \A k \in on : n[k] \in Nat
  BY CountersFit
<1> QED BY <1>1, <1>2, <1>3

LEMMA ObserveRuns ==
  ASSUME NEW s, NEW snapshot, NEW initial, Len(SetToSeq(DOMAIN snapshot)) \in Nat
  PROVE  LET order == SetToSeq(DOMAIN snapshot)
             shared == [s EXCEPT !.hasSnapshot = TRUE, !.pending = Keep(@, DOMAIN snapshot),
                                 !.source = Keep(@, DOMAIN snapshot)]
             with == [order |-> order, snapshot |-> snapshot, baseline |-> initial]
         IN  \E g : /\ Runs(g, "observe", with, shared, Len(order))
                   /\ Observe(s, snapshot, initial) = g[Len(order)]
<1> DEFINE order == SetToSeq(DOMAIN snapshot)
           n == Len(order)
           shared == [s EXCEPT !.hasSnapshot = TRUE, !.pending = Keep(@, DOMAIN snapshot),
                               !.source = Keep(@, DOMAIN snapshot)]
           with == [order |-> order, snapshot |-> snapshot, baseline |-> initial]
           F(g) == g = [i \in 0..n |->
                     IF i = 0 THEN shared
                     ELSE ObserveItem(g[i - 1], order[i], snapshot[order[i]], initial)]
           G(g) == Stepped(g, "observe", with, shared, n)
           f == CHOOSE g : F(g)
<1>1. Observe(s, snapshot, initial) = f[n]
  BY Zenon DEF Observe
<1> HIDE DEF shared
<1>2. with.order = order /\ with.snapshot = snapshot /\ with.baseline = initial
  OBVIOUS
<1> HIDE DEF with
<1>3. \A g : F(g) <=> G(g)
  BY <1>2, Zenon DEF Step, Stepped
<1>4. \E g : G(g)
  BY StepsHaveValues
<1> HIDE DEF F, G
<1>5. G(f)
  BY <1>3, <1>4, Zenon
<1> HIDE DEF f
<1>6. Runs(f, "observe", with, shared, n)
  BY <1>5, StepsRun DEF G
<1> QED BY <1>1, <1>6, Zenon DEF with, shared

LEMMA ObserveFits ==
  ASSUME CountersInv, NEW s, Fits(s), NEW snapshot \in Snapshots, NEW initial \in BOOLEAN
  PROVE  LET t == Observe(s, snapshot, initial) IN
         Fits(t) /\ DOMAIN t.pending \subseteq DOMAIN t.source
<1> DEFINE S == DOMAIN snapshot
           order == SetToSeq(S)
           n == Len(order)
           shared == [s EXCEPT !.hasSnapshot = TRUE, !.pending = Keep(@, S), !.source = Keep(@, S)]
           with == [order |-> order, snapshot |-> snapshot, baseline |-> initial]
<1>1. /\ S \subseteq Keys
      /\ \A k \in S :
           /\ snapshot[k] \in [epoch : Nat, count : Nat]
           /\ snapshot[k].epoch = counters[k].epoch /\ snapshot[k].count <= counters[k].count
      /\ \A k \in Keys \ S : counters[k].count = 0
  BY SnapshotFacts
<1>2. order \in Seq(S) /\ \A k \in S : \E i \in 1..n : order[i] = k
  <2> HIDE DEF S
  <2>1. IsFiniteSet(S)
    BY <1>1, KeysFit, FS_Subset
  <2> QED BY <2>1, WrittenOut
<1>3. n \in Nat /\ \A i \in 1..n : order[i] \in S
  BY <1>2
<1>4. PICK g : Runs(g, "observe", with, shared, n) /\ Observe(s, snapshot, initial) = g[n]
  <2> HIDE DEF shared, with
  <2> QED BY <1>3, ObserveRuns, Zenon DEF shared, with
<1>5. Fits(shared) /\ DOMAIN shared.pending \subseteq S
  <2> DEFINE p == Keep(s.pending, S)
             q == Keep(s.source, S)
             u == [s EXCEPT !.hasSnapshot = TRUE, !.pending = p, !.source = q]
  <2>1. shared = u
    BY Zenon
  <2> HIDE DEF shared, S
  <2>2. /\ DOMAIN p = DOMAIN s.pending \cap S /\ \A k \in DOMAIN p : p[k] = s.pending[k]
        /\ DOMAIN q = DOMAIN s.source \cap S /\ \A k \in DOMAIN q : q[k] = s.source[k]
    <3>1. DOMAIN p = DOMAIN s.pending \cap S /\ \A k \in DOMAIN s.pending \cap S : p[k] = s.pending[k]
      BY KeepShape, Zenon
    <3>2. DOMAIN q = DOMAIN s.source \cap S /\ \A k \in DOMAIN s.source \cap S : q[k] = s.source[k]
      BY KeepShape, Zenon
    <3> HIDE DEF p, q
    <3> QED BY <3>1, <3>2, Zenon
  <2> HIDE DEF p, q
  <2>3. /\ DOMAIN u = Drops /\ u.pending = p /\ u.source = q /\ u.unreported = s.unreported
        /\ u.hasSnapshot = TRUE /\ u.sinceNotice = s.sinceNotice
    BY DEF Fits, Shaped, Drops
  <2> HIDE DEF u
  <2>4. Shaped(u)
    BY <2>2, <2>3 DEF Fits, Shaped
  <2>5. ASSUME NEW k \in Keys PROVE Count(u, k) + Ahead(u, k) <= u.unreported[k]
    <3>1. Count(s, k) + Ahead(s, k) <= s.unreported[k]
      BY DEF Fits
    <3>2. CASE k \in S
      <4>1. Count(u, k) = Count(s, k) /\ Ahead(u, k) = Ahead(s, k)
        BY <2>2, <2>3, <3>2 DEF Count, Ahead, Marks
      <4> QED BY <2>3, <3>1, <4>1
    <3>3. CASE k \notin S
      <4>1. Count(u, k) = 0 /\ Ahead(u, k) = 0
        BY <1>1, <2>2, <2>3, <3>3 DEF Count, Ahead, Marks
      <4>2. Ahead(s, k) >= 0 /\ Count(s, k) \in Nat /\ Ahead(s, k) \in Int /\ s.unreported[k] \in Int
        <5>1. Shaped(s) /\ counters[k].count = 0
          BY <1>1, <3>3 DEF Fits
        <5> QED BY <5>1, CountTyped DEF Shaped, MarkFits, Ahead, Marks
      <4> QED BY <2>3, <3>1, <4>1, <4>2
    <3> QED BY <3>2, <3>3
  <2> QED BY <2>1, <2>2, <2>3, <2>4, <2>5 DEF Fits
<1> HIDE DEF shared
<1> DEFINE W == {i \in 0..n : /\ Fits(g[i]) /\ DOMAIN g[i].pending \subseteq S
                             /\ \A j \in 1..i : order[j] \in DOMAIN g[i].source}
<1>6. 0 \in W
  BY <1>4, <1>5 DEF Runs
<1>7. \A i \in 0..n : i # n /\ i \in W => i + 1 \in W
  <2> SUFFICES ASSUME NEW i \in 0..n, i # n, i \in W PROVE i + 1 \in W
    OBVIOUS
  <2> DEFINE j == i + 1
             k == order[j]
             x == g[i]
             t == ObserveItem(x, k, snapshot[k], initial)
  <2>1. j \in 1..n /\ j - 1 = i /\ j \in 0..n
    BY <1>3
  <2>2. k \in S /\ k \in Keys
    BY <1>1, <1>3, <2>1
  <2>3. with.order = order /\ with.snapshot = snapshot /\ with.baseline = initial
    OBVIOUS
  <2> HIDE DEF with
  <2>4. g[j] = t
    <3>1. g[j] = Step("observe", with, x, j)
      BY <1>4, <2>1 DEF Runs
    <3> QED BY <2>3, <3>1, Zenon DEF Step
  <2>5. Fits(x) /\ DOMAIN x.pending \subseteq S /\ \A l \in 1..i : order[l] \in DOMAIN x.source
    OBVIOUS
  <2> HIDE DEF x, S, W, j
  <2>6. /\ Fits(t) /\ DOMAIN t.source = DOMAIN x.source \cup {k}
        /\ DOMAIN t.pending \subseteq DOMAIN x.pending \cup {k}
    <3> HIDE DEF k
    <3> QED BY <1>1, <2>2, <2>5, ObservesItem
  <2> HIDE DEF t
  <2>7. DOMAIN t.pending \subseteq S
    BY <2>2, <2>5, <2>6
  <2>8. \A l \in 1..j : order[l] \in DOMAIN t.source
    <3>1. \A l \in 1..j : l \in 1..i \/ l = j
      BY <2>1 DEF j
    <3> QED BY <2>5, <2>6, <3>1
  <2>9. j \in W
    BY <2>1, <2>4, <2>6, <2>7, <2>8 DEF W
  <2> QED BY <2>9 DEF j
<1>8. n \in W
  <2> HIDE DEF W, n
  <2>1. \A i \in 0..n : i \in W
    BY <1>3, <1>6, <1>7, UpTo, Zenon
  <2> QED BY <1>3, <2>1
<1>9. Fits(g[n]) /\ DOMAIN g[n].pending \subseteq S /\ \A j \in 1..n : order[j] \in DOMAIN g[n].source
  BY <1>8
<1>10. S \subseteq DOMAIN g[n].source
  <2> HIDE DEF S, n, order, W
  <2> QED BY <1>2, <1>9
<1> QED BY <1>4, <1>9, <1>10, Zenon

\* What the hub's own limiter refuses.
KindsKept(s) == s.hasSnapshot => DOMAIN s.pending \subseteq DOMAIN s.source

LEMMA RefusesItem ==
  ASSUME CountersInv, NEW s, Fits(s), KindsKept(s), NEW k \in Keys
  PROVE  LET t == DropAtHub([s EXCEPT !.unreported[k] = @ + 1], k) IN
         Fits(t) /\ KindsKept(t)
<1> DEFINE u == [s.unreported EXCEPT ![k] = @ + 1]
           x == [s EXCEPT !.unreported[k] = @ + 1]
           a == Add(x, k, 1)
           t == DropAtHub(x, k)
<1>1. Shaped(s) /\ s.unreported \in [Keys -> Int]
  BY DEF Fits, Shaped
<1>2. u \in [Keys -> Int] /\ u[k] = s.unreported[k] + 1 /\ \A j \in Keys \ {k} : u[j] = s.unreported[j]
  BY <1>1
<1>3. x = [s EXCEPT !.unreported = u]
  OBVIOUS
<1> HIDE DEF u, x
<1>4. /\ DOMAIN x = Drops /\ x.pending = s.pending /\ x.source = s.source /\ x.unreported = u
      /\ x.hasSnapshot = s.hasSnapshot /\ x.sinceNotice = s.sinceNotice
  BY <1>1, <1>3 DEF Shaped, Drops
<1>5. Shaped(x) /\ \A j \in Keys : Count(x, j) = Count(s, j) /\ Ahead(x, j) = Ahead(s, j)
  <2>1. Shaped(x)
    BY <1>1, <1>2, <1>4 DEF Shaped
  <2> QED BY <1>4, <2>1 DEF Count, Ahead, Marks
<1>6. /\ Shaped(a) /\ a.source = x.source /\ a.unreported = x.unreported
      /\ a.hasSnapshot = x.hasSnapshot /\ DOMAIN a.pending \subseteq DOMAIN x.pending \cup {k}
      /\ Count(a, k) <= Count(x, k) + 1 /\ \A j \in Keys \ {k} : Count(a, j) = Count(x, j)
  BY <1>5, AddShape, 1 \in Nat, Zenon
<1>7. \A j \in Keys : /\ Count(s, j) + Ahead(s, j) <= s.unreported[j]
                      /\ Count(s, j) \in Nat /\ Ahead(s, j) \in Int /\ s.unreported[j] \in Int
  <2>1. \A j \in Keys : counters[j].count \in Int
    BY CountersFit DEF CountersInv
  <2> QED BY <1>1, <2>1, CountTyped DEF Fits, Ahead, Marks, Shaped, MarkFits
<1>8. t = x \/ (t = a /\ (x.hasSnapshot => k \in DOMAIN x.source))
  BY Zenon DEF DropAtHub
<1> HIDE DEF t, a
<1>9. CASE t = x
  <2>1. \A j \in Keys : Count(x, j) + Ahead(x, j) <= x.unreported[j]
    BY <1>2, <1>4, <1>5, <1>7
  <2> QED BY <1>4, <1>5, <1>9, <2>1 DEF Fits, KindsKept, t, x
<1>10. CASE t = a /\ (x.hasSnapshot => k \in DOMAIN x.source)
  <2>1. \A j \in Keys : Ahead(a, j) = Ahead(x, j) /\ Count(a, j) \in Nat
    BY <1>6, CountTyped DEF Ahead, Marks
  <2>2. \A j \in Keys : Count(a, j) + Ahead(a, j) <= a.unreported[j]
    BY <1>2, <1>4, <1>5, <1>6, <1>7, <2>1
  <2> QED BY <1>4, <1>6, <1>10, <2>2 DEF Fits, KindsKept, t, x
<1> QED BY <1>8, <1>9, <1>10

LEMMA RefuseFits ==
  ASSUME CountersInv, NEW s, Fits(s), KindsKept(s), NEW keys \in Refused
  PROVE  LET t == Refuse(s, keys) IN Fits(t) /\ KindsKept(t)
<1> DEFINE n == Len(keys)
           F(g) == g = [i \in 0..n |->
                     IF i = 0 THEN s
                     ELSE DropAtHub([g[i - 1] EXCEPT !.unreported[keys[i]] = @ + 1], keys[i])]
           G(g) == Stepped(g, "refuse", keys, s, n)
           f == CHOOSE g : F(g)
<1>1. n \in Nat /\ \A i \in 1..n : keys[i] \in Keys
  <2>1. PICK m \in 0..MaxRefused : keys \in [1..m -> Keys]
    BY DEF Refused
  <2> QED BY <2>1, CountersFit
<1>2. Refuse(s, keys) = f[n]
  BY Zenon DEF Refuse
<1>3. \A g : F(g) <=> G(g)
  BY Zenon DEF Step, Stepped
<1>4. \E g : G(g)
  BY <1>1, StepsHaveValues
<1> HIDE DEF F, G
<1>5. G(f)
  BY <1>3, <1>4, Zenon
<1> HIDE DEF f
<1>6. Runs(f, "refuse", keys, s, n)
  BY <1>1, <1>5, StepsRun DEF G
<1> DEFINE W == {i \in 0..n : Fits(f[i]) /\ KindsKept(f[i])}
<1>7. 0 \in W
  BY <1>1, <1>6 DEF Runs
<1>8. \A i \in 0..n : i # n /\ i \in W => i + 1 \in W
  <2> SUFFICES ASSUME NEW i \in 0..n, i # n, i \in W PROVE i + 1 \in W
    OBVIOUS
  <2> DEFINE j == i + 1
             k == keys[j]
             x == f[i]
             t == DropAtHub([x EXCEPT !.unreported[k] = @ + 1], k)
  <2>1. j \in 1..n /\ j - 1 = i /\ j \in 0..n
    BY <1>1
  <2>2. k \in Keys
    BY <1>1, <2>1
  <2>3. f[j] = t
    <3>1. f[j] = Step("refuse", keys, x, j)
      BY <1>6, <2>1 DEF Runs
    <3> QED BY <3>1, Zenon DEF Step
  <2>4. Fits(x) /\ KindsKept(x)
    OBVIOUS
  <2> HIDE DEF x, W, j
  <2>5. Fits(t) /\ KindsKept(t)
    <3> HIDE DEF k
    <3> QED BY <2>2, <2>4, RefusesItem
  <2>6. j \in W
    BY <2>1, <2>3, <2>5 DEF W
  <2> QED BY <2>6 DEF j
<1>9. n \in W
  <2> HIDE DEF W, n
  <2>1. \A i \in 0..n : i \in W
    BY <1>1, <1>7, <1>8, UpTo, Zenon
  <2> QED BY <1>1, <2>1
<1> QED BY <1>2, <1>9, Zenon

\* A notice takes no more than it counts.
LEMMA NoticeFits ==
  ASSUME CountersInv, NEW s, Fits(s), KindsKept(s)
  PROVE  LET t == Notice(s) IN Fits(t) /\ KindsKept(t)
<1> DEFINE u == [k \in Keys |-> s.unreported[k] - Count(s, k)]
           x == [s EXCEPT !.pending = <<>>, !.sinceNotice = 0, !.unreported = u]
<1>1. Notice(s) \in {s, x}
  BY Zenon DEF Notice
<1>2. \A k \in Keys : /\ Count(s, k) + Ahead(s, k) <= s.unreported[k]
                      /\ Count(s, k) \in Nat /\ Ahead(s, k) \in Int /\ s.unreported[k] \in Int
  <2>1. \A j \in Keys : counters[j].count \in Int
    BY CountersFit DEF CountersInv
  <2>2. Shaped(s)
    BY DEF Fits
  <2> QED BY <2>1, <2>2, CountTyped DEF Fits, Ahead, Marks, Shaped, MarkFits
<1>3. u \in [Keys -> Int] /\ \A k \in Keys : u[k] = s.unreported[k] - Count(s, k)
  BY <1>2
<1> HIDE DEF u
<1>4. /\ DOMAIN x = Drops /\ x.pending = <<>> /\ x.source = s.source /\ x.unreported = u
      /\ x.hasSnapshot = s.hasSnapshot /\ x.sinceNotice = 0
  BY DEF Fits, Shaped, Drops
<1> HIDE DEF x
<1>5. DOMAIN x.pending = {}
  BY <1>4
<1>6. Shaped(x)
  BY <1>3, <1>4, <1>5, CountersFit DEF Fits, Shaped
<1>7. \A k \in Keys : Count(x, k) = 0 /\ Ahead(x, k) = Ahead(s, k)
  BY <1>4, <1>5 DEF Count, Ahead, Marks
<1>8. Fits(x) /\ KindsKept(x)
  <2>1. \A k \in Keys : Count(x, k) + Ahead(x, k) <= x.unreported[k]
    BY <1>2, <1>3, <1>4, <1>7
  <2> QED BY <1>5, <1>6, <2>1 DEF Fits, KindsKept
<1> QED BY <1>1, <1>8

\* The reporter's variables are its record.
LEMMA ReporterIs ==
  /\ DOMAIN Reporter = Drops /\ Reporter.pending = pending /\ Reporter.source = source
  /\ Reporter.hasSnapshot = hasSnapshot /\ Reporter.sinceNotice = sinceNotice
  /\ Reporter.unreported = unreported
BY DEF Reporter, Drops

LEMMA ReporterBecomesFit ==
  ASSUME CountersInv, NEW s, Fits(s), KindsKept(s), ReporterBecomes(s)
  PROVE  CountersInv' /\ Fits(Reporter)' /\ KindsKept(Reporter)'
<1>1. /\ Reporter'.pending = s.pending /\ Reporter'.source = s.source
      /\ Reporter'.hasSnapshot = s.hasSnapshot /\ Reporter'.sinceNotice = s.sinceNotice
      /\ Reporter'.unreported = s.unreported /\ DOMAIN Reporter' = Drops /\ counters' = counters
  BY DEF ReporterBecomes, Reporter, Drops
<1> HIDE DEF Reporter
<1>2. CountersInv'
  BY <1>1 DEF CountersInv
<1>3. KindsKept(Reporter)'
  BY <1>1 DEF KindsKept
<1>4. Shaped(Reporter)'
  BY <1>1 DEF Fits, Shaped, MarkFits
<1>5. \A k \in Keys : (Count(Reporter, k) + Ahead(Reporter, k) <= Reporter.unreported[k])'
  <2>1. \A k \in Keys : /\ Count(Reporter, k)' = Count(s, k)
                        /\ Ahead(Reporter, k)' = Ahead(s, k)
    BY <1>1 DEF Count, Ahead, Marks
  <2> QED BY <1>1, <2>1 DEF Fits
<1> QED BY <1>2, <1>3, <1>4, <1>5 DEF Fits

\* A step of the plugin, or the hub's clock, that leaves every kind's count,
\* and what is ahead of it, accounted for.
LEMMA AccountedFit ==
  ASSUME DropsInv, CountersInv', counting' = counting, hasSnapshot' = hasSnapshot,
         source' = source, DOMAIN pending' \subseteq DOMAIN pending,
         \A k \in DOMAIN pending' : pending'[k] = pending[k],
         sinceNotice' \in 0..NoticeInterval, unreported' \in [Keys -> Int],
         \A k \in DOMAIN source : MarkFits(source[k], k)',
         \A k \in Keys : Ahead(Reporter, k)' - Ahead(Reporter, k) <= unreported'[k] - unreported[k],
         \A k \in Keys : Ahead(Reporter, k)' \in Int
  PROVE  DropsInv'
<1>0. /\ Reporter'.pending = pending' /\ Reporter'.source = source
      /\ Reporter'.hasSnapshot = hasSnapshot /\ Reporter'.sinceNotice = sinceNotice'
      /\ Reporter'.unreported = unreported' /\ DOMAIN Reporter' = Drops
  BY DEF Reporter, Drops
<1>1. Shaped(Reporter) /\ Shaped(Reporter)'
  <2>1. Shaped(Reporter)
    BY DEF DropsInv, Fits
  <2>2. /\ hasSnapshot \in BOOLEAN /\ DOMAIN pending \subseteq Keys
        /\ \A k \in DOMAIN pending : pending[k] \in Nat \ {0}
        /\ DOMAIN source \subseteq Keys
    BY <2>1, ReporterIs DEF Shaped
  <2>3. DOMAIN pending' \subseteq Keys
    BY <2>2, Zenon
  <2>4. \A k \in DOMAIN pending' : pending'[k] \in Nat \ {0}
    BY <2>2, Zenon
  <2> QED BY <1>0, <2>1, <2>2, <2>3, <2>4 DEF Shaped
<1>2. ASSUME NEW k \in Keys PROVE (Count(Reporter, k) + Ahead(Reporter, k) <= Reporter.unreported[k])'
  <2>1. Count(Reporter, k)' \in {0, Count(Reporter, k)}
    BY <1>0, ReporterIs DEF Count
  <2>2. /\ Count(Reporter, k) + Ahead(Reporter, k) <= unreported[k]
        /\ unreported[k] \in Int /\ unreported'[k] \in Int
    BY <1>1, ReporterIs DEF DropsInv, Fits, Shaped
  <2>3. Ahead(Reporter, k) \in Int /\ Count(Reporter, k) \in Nat
    <3>1. counters[k].count \in Int
      BY CountersFit DEF DropsInv, CountersInv
    <3> QED BY <1>1, <3>1, CountTyped DEF Ahead, Marks, Shaped, MarkFits
  <2>4. Ahead(Reporter, k)' - Ahead(Reporter, k) <= unreported'[k] - unreported[k]
    OBVIOUS
  <2>5. Ahead(Reporter, k)' \in Int
    OBVIOUS
  <2>6. \A c, a, r, d, b, q \in Int :
          c + a <= r /\ b - a <= q - r /\ c \in Nat /\ d \in {0, c} => d + b <= q
    OBVIOUS
  <2> DEFINE a == Ahead(Reporter, k)
             b == Ahead(Reporter, k)'
             c == Count(Reporter, k)
             d == Count(Reporter, k)'
  <2>7. d + b <= unreported'[k]
    <3>1. a \in Int /\ b \in Int /\ c \in Int /\ d \in Int
      BY <2>1, <2>3, <2>5
    <3>2. d \in {0, c} /\ c \in Nat /\ c + a <= unreported[k] /\ b - a <= unreported'[k] - unreported[k]
      BY <2>1, <2>2, <2>3, <2>4
    <3> HIDE DEF a, b, c, d
    <3> QED BY <2>2, <2>6, <3>1, <3>2
  <2> QED BY <1>0, <2>7
<1>3. (hasSnapshot => DOMAIN pending \subseteq DOMAIN source)'
  BY Zenon DEF DropsInv
<1>4. counting' \in BOOLEAN
  BY DEF DropsInv
<1> QED BY <1>1, <1>2, <1>3, <1>4 DEF DropsInv, Fits

LEMMA ReporterStep ==
  ASSUME DropsInv, BaselineCounters \/ PollCounters \/ PollLegacy
  PROVE  DropsInv'
<1>0. CountersInv /\ Fits(Reporter) /\ KindsKept(Reporter) /\ counting \in BOOLEAN
  BY ReporterIs DEF DropsInv, KindsKept
<1>1. \A snapshot \in Snapshots, initial \in BOOLEAN :
        LET t == Observe(Reporter, snapshot, initial) IN Fits(t) /\ KindsKept(t)
  BY <1>0, ObserveFits, Zenon DEF KindsKept
<1>2. PICK s : Fits(s) /\ KindsKept(s) /\ ReporterBecomes(s) /\ counting' \in BOOLEAN
  <2>1. CASE BaselineCounters
    <3>1. counting' \in BOOLEAN
      BY <2>1 DEF BaselineCounters
    <3>2. CASE ReporterBecomes(Reporter)
      BY <1>0, <3>1, <3>2
    <3>3. CASE \E snapshot \in Snapshots : ReporterBecomes(Observe(Reporter, snapshot, TRUE))
      <4>1. PICK snapshot \in Snapshots : ReporterBecomes(Observe(Reporter, snapshot, TRUE))
        BY <3>3
      <4>2. TRUE \in BOOLEAN
        OBVIOUS
      <4>3. LET t == Observe(Reporter, snapshot, TRUE) IN Fits(t) /\ KindsKept(t)
        BY <1>1, <4>2, Zenon
      <4> QED BY <3>1, <4>1, <4>3, Zenon
    <3> QED BY <2>1, <3>2, <3>3, Zenon DEF BaselineCounters
  <2>2. CASE PollCounters
    <3>1. PICK snapshot \in Snapshots, keys \in Refused :
            ReporterBecomes(Notice(Refuse(Observe(Reporter, snapshot, FALSE), keys)))
      BY <2>2, Zenon DEF PollCounters
    <3>2. counting' \in BOOLEAN
      BY <1>0, <2>2 DEF PollCounters
    <3> DEFINE a == Observe(Reporter, snapshot, FALSE)
               b == Refuse(a, keys)
               c == Notice(b)
    <3>3. Fits(a) /\ KindsKept(a)
      <4>1. FALSE \in BOOLEAN
        OBVIOUS
      <4> QED BY <1>1, <4>1, Zenon
    <3>4. Fits(b) /\ KindsKept(b)
      <4> HIDE DEF a
      <4> QED BY <1>0, <3>3, RefuseFits, Zenon
    <3>5. Fits(c) /\ KindsKept(c)
      <4> HIDE DEF b
      <4> QED BY <1>0, <3>4, NoticeFits, Zenon
    <3> QED BY <3>1, <3>2, <3>5, Zenon
  <2>3. CASE PollLegacy
    <3>1. PICK keys \in Refused : ReporterBecomes(Notice(Refuse(Reporter, keys)))
      BY <2>3, Zenon DEF PollLegacy
    <3>2. counting' \in BOOLEAN
      BY <1>0, <2>3 DEF PollLegacy
    <3> DEFINE b == Refuse(Reporter, keys)
               c == Notice(b)
    <3>3. Fits(b) /\ KindsKept(b)
      BY <1>0, RefuseFits, Zenon
    <3>4. Fits(c) /\ KindsKept(c)
      <4> HIDE DEF b
      <4> QED BY <1>0, <3>3, NoticeFits, Zenon
    <3> QED BY <3>1, <3>2, <3>4, Zenon
  <2> QED BY <2>1, <2>2, <2>3
<1>3. CountersInv' /\ Fits(Reporter)' /\ KindsKept(Reporter)'
  BY <1>0, <1>2, ReporterBecomesFit
<1>4. (hasSnapshot => DOMAIN pending \subseteq DOMAIN source)'
  BY <1>3, ReporterIs DEF KindsKept, Reporter
<1> QED BY <1>2, <1>3, <1>4 DEF DropsInv

LEMMA DropsInit == ElisionInit => DropsInv
<1> SUFFICES ASSUME ElisionInit PROVE DropsInv
  OBVIOUS
<1>1. CountersInv
  BY CountersFit DEF ElisionInit, CountersInv
<1>2. /\ pending = <<>> /\ source = <<>> /\ hasSnapshot = FALSE /\ sinceNotice = NoticeInterval
      /\ unreported \in [Keys -> Int] /\ \A k \in Keys : unreported[k] = 0 /\ counters[k].count = 0
  BY DEF ElisionInit
<1>3. DOMAIN Reporter.pending = {} /\ DOMAIN Reporter.source = {}
  BY <1>2, ReporterIs
<1>4. Shaped(Reporter)
  <2>1. NoticeInterval \in 0..NoticeInterval /\ FALSE \in BOOLEAN
    BY CountersFit
  <2>2. /\ DOMAIN Reporter = Drops /\ Reporter.hasSnapshot = FALSE
        /\ Reporter.sinceNotice = NoticeInterval /\ Reporter.unreported \in [Keys -> Int]
    BY <1>2, ReporterIs, Zenon
  <2>3. DOMAIN Reporter.pending \subseteq Keys /\ DOMAIN Reporter.source \subseteq Keys
    BY <1>3
  <2>4. \A k : k \notin DOMAIN Reporter.pending /\ k \notin DOMAIN Reporter.source
    BY <1>3
  <2> QED BY <2>1, <2>2, <2>3, <2>4, Zenon DEF Shaped
<1>5. \A k \in Keys : Count(Reporter, k) + Ahead(Reporter, k) <= Reporter.unreported[k]
  BY <1>2, <1>3, ReporterIs DEF Count, Ahead, Marks
<1> QED BY <1>1, <1>2, <1>4, <1>5 DEF DropsInv, Fits, ElisionInit

LEMMA AheadTyped ==
  ASSUME DropsInv
  PROVE  \A k \in Keys :
           /\ Ahead(Reporter, k) \in Nat /\ counters[k].count \in Nat /\ counters[k].epoch \in Nat
           /\ k \in DOMAIN source => MarkFits(source[k], k)
<1>1. Shaped(Reporter) /\ \A k \in Keys : counters[k] \in [on : BOOLEAN, epoch : 0..MaxEpoch, count : 0..MaxCount]
  BY DEF DropsInv, Fits, CountersInv
<1>2. \A k \in Keys : k \in DOMAIN source => MarkFits(source[k], k)
  BY <1>1, ReporterIs DEF Shaped
<1>3. \A k \in Keys : counters[k].count \in Nat /\ counters[k].epoch \in Nat
  BY <1>1, CountersFit
<1> QED BY <1>2, <1>3, ReporterIs DEF Ahead, Marks, MarkFits

LEMMA DropsStep == DropsInv /\ [ElisionNext]_elisionVars => DropsInv'
<1> SUFFICES ASSUME DropsInv, [ElisionNext]_elisionVars PROVE DropsInv'
  OBVIOUS
<1>0. /\ Reporter'.source = source' /\ unreported \in [Keys -> Int] /\ sinceNotice \in 0..NoticeInterval
      /\ DOMAIN source \subseteq Keys /\ CountersInv
  BY ReporterIs DEF Reporter, DropsInv, Fits, Shaped
<1>1. CASE BaselineCounters \/ PollCounters \/ PollLegacy
  BY <1>1, ReporterStep
<1>2. ASSUME NEW k \in Keys, RevokeScope({k}) PROVE DropsInv'
  <2>1. /\ counting' = counting /\ hasSnapshot' = hasSnapshot /\ source' = source /\ counters' = counters
        /\ unreported' = unreported /\ sinceNotice' = sinceNotice /\ pending' = Keep(pending, Keys \ {k})
    BY <1>2, Zenon DEF RevokeScope
  <2>2. DOMAIN pending' \subseteq DOMAIN pending /\ \A j \in DOMAIN pending' : pending'[j] = pending[j]
    <3> DEFINE S == Keys \ {k}
    <3>1. pending' = Keep(pending, S)
      BY <2>1
    <3> HIDE DEF S
    <3>2. DOMAIN pending' = DOMAIN pending \cap S /\ \A j \in DOMAIN pending \cap S : pending'[j] = pending[j]
      BY <3>1, KeepShape, Zenon
    <3> QED BY <3>2, Zenon
  <2>3. \A j \in Keys : Ahead(Reporter, j)' = Ahead(Reporter, j)
    BY <1>0, <2>1, ReporterIs DEF Ahead, Marks
  <2>4. CountersInv' /\ \A j \in DOMAIN source : MarkFits(source[j], j)'
    BY <1>0, <2>1, AheadTyped DEF CountersInv, MarkFits
  <2>5. \A j \in Keys : /\ Ahead(Reporter, j)' - Ahead(Reporter, j) <= unreported'[j] - unreported[j]
                        /\ Ahead(Reporter, j)' \in Int
    BY <1>0, <2>1, <2>3, AheadTyped
  <2> QED BY <1>0, <2>1, <2>2, <2>4, <2>5, AccountedFit
<1>3. ASSUME NEW k \in Keys, PluginDrops(k) PROVE DropsInv'
  <2>1. /\ counting' = counting /\ hasSnapshot' = hasSnapshot /\ source' = source /\ pending' = pending
        /\ sinceNotice' = sinceNotice /\ counters[k].on /\ counters[k].count < MaxCount
        /\ counters' = [counters EXCEPT ![k].count = @ + 1]
        /\ unreported' = [unreported EXCEPT ![k] = @ + 1]
    BY <1>3, Zenon DEF PluginDrops
  <2>2. /\ counters' \in [Keys -> [on : BOOLEAN, epoch : 0..MaxEpoch, count : 0..MaxCount]]
        /\ counters'[k].count = counters[k].count + 1 /\ counters'[k].epoch = counters[k].epoch
        /\ counters'[k].on = counters[k].on
        /\ \A j \in Keys \ {k} : counters'[j] = counters[j]
    <3> DEFINE item == [counters[k] EXCEPT !.count = @ + 1]
    <3>1. counters[k] \in [on : BOOLEAN, epoch : 0..MaxEpoch, count : 0..MaxCount]
      BY <1>0 DEF CountersInv
    <3>2. item \in [on : BOOLEAN, epoch : 0..MaxEpoch, count : 0..MaxCount]
      BY <2>1, <3>1, CountersFit
    <3>3. item.count = counters[k].count + 1 /\ item.epoch = counters[k].epoch /\ item.on = counters[k].on
      BY <3>1
    <3>4. counters' = [counters EXCEPT ![k] = item]
      BY <2>1
    <3> HIDE DEF item
    <3> QED BY <1>0, <3>2, <3>3, <3>4 DEF CountersInv
  <2>3. /\ unreported' \in [Keys -> Int] /\ unreported'[k] = unreported[k] + 1
        /\ \A j \in Keys \ {k} : unreported'[j] = unreported[j]
    BY <1>0, <2>1
  <2>4. CountersInv'
    BY <1>0, <2>1, <2>2 DEF CountersInv
  <2>5. \A j \in DOMAIN source : MarkFits(source[j], j)'
    BY <1>0, <2>1, <2>2, AheadTyped DEF MarkFits
  <2>6. /\ Ahead(Reporter, k)' = Ahead(Reporter, k) + 1
        /\ \A j \in Keys \ {k} : Ahead(Reporter, j)' = Ahead(Reporter, j)
    <3>1. k \in DOMAIN source => source[k].count \in Nat
      BY AheadTyped DEF MarkFits
    <3> QED BY <1>0, <2>1, <2>2, <3>1, AheadTyped, ReporterIs DEF Ahead, Marks
  <2>7. \A j \in Keys : /\ Ahead(Reporter, j)' - Ahead(Reporter, j) <= unreported'[j] - unreported[j]
                        /\ Ahead(Reporter, j)' \in Int
    BY <1>0, <2>3, <2>6, AheadTyped
  <2> QED BY <1>0, <2>1, <2>3, <2>4, <2>5, <2>7, AccountedFit
<1>4. ASSUME NEW k \in Keys, PluginShares(k) PROVE DropsInv'
  <2>1. /\ counting' = counting /\ hasSnapshot' = hasSnapshot /\ source' = source /\ pending' = pending
        /\ sinceNotice' = sinceNotice /\ counters[k].epoch < MaxEpoch /\ unreported' = unreported
        /\ counters' = [counters EXCEPT ![k] = [on |-> ~@.on, epoch |-> @.epoch + 1, count |-> 0]]
    BY <1>4, Zenon DEF PluginShares
  <2>2. /\ counters' \in [Keys -> [on : BOOLEAN, epoch : 0..MaxEpoch, count : 0..MaxCount]]
        /\ counters'[k].count = 0 /\ counters'[k].epoch = counters[k].epoch + 1
        /\ \A j \in Keys \ {k} : counters'[j] = counters[j]
    <3> DEFINE item == [on |-> ~counters[k].on, epoch |-> counters[k].epoch + 1, count |-> 0]
    <3>1. item \in [on : BOOLEAN, epoch : 0..MaxEpoch, count : 0..MaxCount]
      BY <1>0, <2>1, CountersFit DEF CountersInv
    <3>2. item.count = 0 /\ item.epoch = counters[k].epoch + 1
      OBVIOUS
    <3>3. counters' = [counters EXCEPT ![k] = item]
      BY <2>1, Zenon
    <3> HIDE DEF item
    <3> QED BY <1>0, <3>1, <3>2, <3>3 DEF CountersInv
  <2>3. CountersInv'
    BY <1>0, <2>2 DEF CountersInv
  <2>4. \A j \in DOMAIN source : MarkFits(source[j], j)'
    BY <1>0, <2>1, <2>2, AheadTyped DEF MarkFits
  <2>5. /\ Ahead(Reporter, k)' = 0
        /\ \A j \in Keys \ {k} : Ahead(Reporter, j)' = Ahead(Reporter, j)
    <3>1. k \in DOMAIN source => source[k].epoch # counters[k].epoch + 1
      BY AheadTyped DEF MarkFits
    <3> QED BY <1>0, <2>1, <2>2, <3>1, AheadTyped, ReporterIs DEF Ahead, Marks
  <2>6. \A j \in Keys : /\ Ahead(Reporter, j)' - Ahead(Reporter, j) <= unreported'[j] - unreported[j]
                        /\ Ahead(Reporter, j)' \in Int
    BY <1>0, <2>1, <2>5, AheadTyped
  <2> QED BY <1>0, <2>1, <2>3, <2>4, <2>6, AccountedFit
<1>5. CASE NoticeAges \/ UNCHANGED elisionVars
  <2>1. /\ counting' = counting /\ hasSnapshot' = hasSnapshot /\ source' = source /\ pending' = pending
        /\ counters' = counters /\ unreported' = unreported /\ sinceNotice' \in 0..NoticeInterval
    BY <1>0, <1>5, CountersFit DEF NoticeAges, elisionVars
  <2>2. \A j \in Keys : Ahead(Reporter, j)' = Ahead(Reporter, j)
    BY <1>0, <2>1, ReporterIs DEF Ahead, Marks
  <2>3. CountersInv' /\ \A j \in DOMAIN source : MarkFits(source[j], j)'
    BY <1>0, <2>1, AheadTyped DEF CountersInv, MarkFits
  <2>4. \A j \in Keys : /\ Ahead(Reporter, j)' - Ahead(Reporter, j) <= unreported'[j] - unreported[j]
                        /\ Ahead(Reporter, j)' \in Int
    BY <1>0, <2>1, <2>2, AheadTyped
  <2> QED BY <1>0, <2>1, <2>3, <2>4, AccountedFit
<1> QED BY <1>1, <1>2, <1>3, <1>4, <1>5 DEF ElisionNext

\* No notice is wrong: for any kinds, limits and rates, what waits for a notice
\* of a kind is no more than was dropped of it and not yet told, and the hub holds
\* no count of a kind that the plugin no longer counts.
THEOREM NoticesHold == ElisionSpec => []NoticesAreTrue
<1>1. DropsInv => NoticesAreTrue
  <2> SUFFICES ASSUME DropsInv PROVE NoticesAreTrue
    OBVIOUS
  <2>1. ASSUME NEW k \in DOMAIN pending PROVE pending[k] <= unreported[k]
    <3>1. Shaped(Reporter) /\ k \in Keys /\ Count(Reporter, k) = pending[k]
      BY ReporterIs DEF DropsInv, Fits, Shaped, Count
    <3>2. /\ Count(Reporter, k) + Ahead(Reporter, k) <= unreported[k]
          /\ Count(Reporter, k) \in Nat /\ unreported[k] \in Int
      BY <3>1, ReporterIs, CountTyped DEF DropsInv, Fits, Shaped
    <3> QED BY <3>1, <3>2, AheadTyped
  <2> QED BY <2>1 DEF DropsInv, NoticesAreTrue
<1> QED BY <1>1, DropsInit, DropsStep, PTL DEF ElisionSpec

\* The counters, the watermarks and what waits for a notice keep their types; and
\* neither table takes more kinds than it has room for.
THEOREM ElisionTyped == ElisionSpec => []ElisionTypeOK
<1>1. DropsInv => ElisionTypeOK
  <2> SUFFICES ASSUME DropsInv PROVE ElisionTypeOK
    OBVIOUS
  <2>1. Shaped(Reporter)
    BY DEF DropsInv, Fits
  <2>2. /\ DOMAIN pending \subseteq Keys /\ \A k \in DOMAIN pending : pending[k] \in Nat \ {0}
        /\ DOMAIN source \subseteq Keys /\ hasSnapshot \in BOOLEAN /\ sinceNotice \in 0..NoticeInterval
        /\ unreported \in [Keys -> Int]
    BY <2>1, ReporterIs DEF Shaped
  <2>3. \A S \in SUBSET Keys : Cardinality(S) <= MaxKeys
    <3> SUFFICES ASSUME NEW S \in SUBSET Keys PROVE Cardinality(S) <= MaxKeys
      OBVIOUS
    <3>1. /\ Cardinality(S) <= Cardinality(Keys) /\ Cardinality(S) \in Nat /\ Cardinality(Keys) \in Nat
      BY KeysFit, FS_Subset, FS_CardinalityType
    <3> QED BY <3>1, KeysFit, CountersFit
  <2>4. \A k \in Keys : unreported[k] \in Nat
    <3> SUFFICES ASSUME NEW k \in Keys PROVE unreported[k] \in Nat
      OBVIOUS
    <3>1. /\ Count(Reporter, k) + Ahead(Reporter, k) <= unreported[k]
          /\ Count(Reporter, k) \in Nat /\ unreported[k] \in Int
      BY <2>1, <2>2, ReporterIs, CountTyped DEF DropsInv, Fits
    <3> QED BY <3>1, AheadTyped
  <2>5. unreported \in [Keys -> Nat]
    BY <2>2, <2>4
  <2> QED BY <2>2, <2>3, <2>5 DEF DropsInv, CountersInv, ElisionTypeOK
<1> QED BY <1>1, DropsInit, DropsStep, PTL DEF ElisionSpec

---------------------------------------------------------------------------
\* The operations of the sequence.  What a poll makes of one path is a Turn: it
\* tells the truth about what was opened there, and it uses up an output exactly
\* if it posts one, or counts it as posted.

OpFields == {"name", "status", "enabled", "progress", "kind", "output"}
TrackFields == {"item", "output", "live", "milestone", "opened"}
PollFields == {"tracked", "solved", "notes"}

SameAs(item, opened) ==
  /\ item.name = opened.name
  /\ item.kind = opened.kind \/ (MayBeCenter(opened) /\ item.kind = "center")
Tracks(t) ==
  /\ DOMAIN t = TrackFields /\ DOMAIN t.item = OpFields /\ SameAs(t.item, t.opened.item)

Turn(s, u, item, announced) ==
  /\ DOMAIN u = PollFields /\ s.notes \subseteq u.notes
  /\ \A n \in u.notes \ s.notes : SameAs(n.item, n.opened.item)
  /\ \/ u.solved = s.solved /\ \A n \in u.notes \ s.notes : ~n.image
     \/ /\ Claims(s, item) /\ u.solved = s.solved \cup {item.output}
        /\ \A n \in u.notes \ s.notes : n.image => n.item = item
        /\ announced => \E n \in u.notes : n.image /\ n.item = item

\* The operations that the turns are made of.
LEMMA DropShape ==
  ASSUME NEW s, DOMAIN s = PollFields, NEW p
  PROVE  LET u == Drop(s, p) IN
         /\ DOMAIN u = PollFields /\ u.solved = s.solved /\ u.notes = s.notes
         /\ DOMAIN u.tracked = DOMAIN s.tracked \ {p}
         /\ \A q \in DOMAIN u.tracked : u.tracked[q] = s.tracked[q]
<1> DEFINE f == [q \in DOMAIN s.tracked \ {p} |-> s.tracked[q]]
           u == [s EXCEPT !.tracked = f]
<1>1. Drop(s, p) = u
  BY Zenon DEF Drop
<1>2. DOMAIN f = DOMAIN s.tracked \ {p} /\ \A q \in DOMAIN f : f[q] = s.tracked[q]
  OBVIOUS
<1> HIDE DEF f
<1>3. /\ DOMAIN u = PollFields /\ u.solved = s.solved /\ u.notes = s.notes /\ u.tracked = f
  BY DEF PollFields
<1> QED BY <1>1, <1>2, <1>3

LEMMA TrackShape ==
  ASSUME NEW s, DOMAIN s = PollFields, NEW p, NEW t
  PROVE  LET u == Track(s, p, t) IN
         /\ DOMAIN u = PollFields /\ u.solved = s.solved /\ u.notes = s.notes
         /\ DOMAIN u.tracked = DOMAIN s.tracked \cup {p} /\ u.tracked[p] = t
         /\ \A q \in DOMAIN s.tracked \ {p} : u.tracked[q] = s.tracked[q]
<1> DEFINE f == [q \in DOMAIN s.tracked \cup {p} |-> IF q = p THEN t ELSE s.tracked[q]]
           u == [s EXCEPT !.tracked = f]
<1>1. Track(s, p, t) = u
  BY Zenon DEF Track
<1>2. /\ DOMAIN f = DOMAIN s.tracked \cup {p} /\ f[p] = t
      /\ \A q \in DOMAIN s.tracked \ {p} : f[q] = s.tracked[q]
  OBVIOUS
<1> HIDE DEF f
<1>3. /\ DOMAIN u = PollFields /\ u.solved = s.solved /\ u.notes = s.notes /\ u.tracked = f
  BY DEF PollFields
<1> QED BY <1>1, <1>2, <1>3

\* A note that posts nothing, one that posts an output, and one that does if it
\* is new.
Tell(s, p, t, what) == Note(s, p, t, what, FALSE)
Post(s, p, t, what) == Note(s, p, t, what, TRUE)
End(s, p, t, what, x, item) == Note(s, p, t, what, Claims(x, item))

LEMMA NoteAdds ==
  ASSUME NEW s, DOMAIN s = PollFields, NEW n
  PROVE  LET u == [s EXCEPT !.notes = s.notes \cup {n}] IN
         /\ DOMAIN u = PollFields /\ u.solved = s.solved /\ u.tracked = s.tracked
         /\ u.notes = s.notes \cup {n}
BY DEF PollFields

LEMMA SilentNote ==
  ASSUME NEW s, DOMAIN s = PollFields, NEW p, NEW t, NEW what
  PROVE  LET u == Tell(s, p, t, what) IN
         /\ DOMAIN u = PollFields /\ u.solved = s.solved /\ u.tracked = s.tracked
         /\ \E n : u.notes = s.notes \cup {n} /\ n.item = t.item /\ n.opened = t.opened /\ ~n.image
<1> DEFINE n == [path |-> p, item |-> t.item, opened |-> t.opened,
                 live |-> t.live, what |-> what, image |-> FALSE]
           u == [s EXCEPT !.notes = s.notes \cup {n}]
<1>1. Tell(s, p, t, what) = u
  BY Zenon DEF Note, Tell
<1>2. n.item = t.item /\ n.opened = t.opened /\ ~n.image
  OBVIOUS
<1> HIDE DEF n
<1>3. /\ DOMAIN u = PollFields /\ u.solved = s.solved /\ u.tracked = s.tracked
      /\ u.notes = s.notes \cup {n}
  BY NoteAdds
<1> HIDE DEF u
<1> QED BY <1>1, <1>2, <1>3

LEMMA OutputNote ==
  ASSUME NEW s, DOMAIN s = PollFields, NEW p, NEW t, NEW what
  PROVE  LET u == Post(s, p, t, what) IN
         /\ DOMAIN u = PollFields /\ u.solved = s.solved /\ u.tracked = s.tracked
         /\ \E n : u.notes = s.notes \cup {n} /\ n.item = t.item /\ n.opened = t.opened /\ n.image
<1> DEFINE n == [path |-> p, item |-> t.item, opened |-> t.opened,
                 live |-> t.live, what |-> what, image |-> TRUE]
           u == [s EXCEPT !.notes = s.notes \cup {n}]
<1>1. Post(s, p, t, what) = u
  BY Zenon DEF Note, Post
<1>2. n.item = t.item /\ n.opened = t.opened /\ n.image
  OBVIOUS
<1> HIDE DEF n
<1>3. /\ DOMAIN u = PollFields /\ u.solved = s.solved /\ u.tracked = s.tracked
      /\ u.notes = s.notes \cup {n}
  BY NoteAdds
<1> HIDE DEF u
<1> QED BY <1>1, <1>2, <1>3

LEMMA EndNote ==
  ASSUME NEW s, DOMAIN s = PollFields, NEW p, NEW t, NEW what, NEW x, NEW item
  PROVE  LET u == End(s, p, t, what, x, item) IN
         /\ DOMAIN u = PollFields /\ u.solved = s.solved /\ u.tracked = s.tracked
         /\ \E n : u.notes = s.notes \cup {n} /\ n.item = t.item /\ n.opened = t.opened /\ (n.image <=> Claims(x, item))
<1> DEFINE n == [path |-> p, item |-> t.item, opened |-> t.opened,
                 live |-> t.live, what |-> what, image |-> Claims(x, item)]
           u == [s EXCEPT !.notes = s.notes \cup {n}]
<1>1. End(s, p, t, what, x, item) = u
  BY Zenon DEF Note, End
<1>2. n.item = t.item /\ n.opened = t.opened /\ (n.image <=> Claims(x, item))
  OBVIOUS
<1> HIDE DEF n
<1>3. /\ DOMAIN u = PollFields /\ u.solved = s.solved /\ u.tracked = s.tracked
      /\ u.notes = s.notes \cup {n}
  BY NoteAdds
<1> HIDE DEF u
<1> QED BY <1>1, <1>2, <1>3

LEMMA ClaimShape ==
  ASSUME NEW s, DOMAIN s = PollFields, NEW item
  PROVE  LET u == Claim(s, item) IN
         /\ DOMAIN u = PollFields /\ u.notes = s.notes /\ u.tracked = s.tracked
         /\ Claims(s, item) => u.solved = s.solved \cup {item.output}
         /\ ~Claims(s, item) => u.solved = s.solved
<1> DEFINE C == s.solved \cup (IF Claims(s, item) THEN {item.output} ELSE {})
           u == [s EXCEPT !.solved = C]
<1>1. Claim(s, item) = u
  BY Zenon DEF Claim
<1>2. /\ Claims(s, item) => C = s.solved \cup {item.output}
      /\ ~Claims(s, item) => C = s.solved
  OBVIOUS
<1> HIDE DEF C
<1>3. /\ DOMAIN u = PollFields /\ u.notes = s.notes /\ u.tracked = s.tracked /\ u.solved = C
  BY DEF PollFields
<1> QED BY <1>1, <1>2, <1>3

\* A turn of the first pass leaves the other paths alone.
OnlyAt(s, u, p) ==
  /\ DOMAIN u.tracked \subseteq DOMAIN s.tracked \cup {p} /\ DOMAIN s.tracked \ {p} \subseteq DOMAIN u.tracked
  /\ \A q \in DOMAIN u.tracked \ {p} : u.tracked[q] = s.tracked[q]
  /\ p \in DOMAIN u.tracked => Tracks(u.tracked[p])

LEMMA AdvanceTurns ==
  ASSUME NEW s, DOMAIN s = PollFields, NEW p \in DOMAIN s.tracked, Tracks(s.tracked[p]),
         NEW item, DOMAIN item = OpFields, SameOperation(s.tracked[p].item, item)
  PROVE  LET u == Advance(s, p, item) IN Turn(s, u, item, TRUE) /\ OnlyAt(s, u, p)
<1> DEFINE t == [s.tracked[p] EXCEPT !.item = item]
           passed == Reached(item.progress) > t.milestone
           t1 == IF passed THEN [t EXCEPT !.milestone = Reached(item.progress)] ELSE t
           s1 == IF passed THEN Note(s, p, t1, "progress", FALSE) ELSE s
           fresh == item.output # NoOutput /\ item.output # t1.output
           t2 == IF fresh THEN [t1 EXCEPT !.output = item.output] ELSE t1
           s2 == IF fresh /\ Claims(s1, item) THEN Note(Claim(s1, item), p, t2, "output", TRUE) ELSE s1
           u == Track(s2, p, t2)
<1>1. Advance(s, p, item) = u
  BY Zenon DEF Advance
<1>2. Tracks(t) /\ t.item = item
  <2>1. /\ DOMAIN s.tracked[p] = TrackFields /\ SameAs(s.tracked[p].item, s.tracked[p].opened.item)
        /\ DOMAIN t = TrackFields /\ t.item = item /\ t.opened = s.tracked[p].opened
    BY DEF Tracks, TrackFields
  <2> HIDE DEF t
  <2> QED BY <2>1 DEF Tracks, SameAs, SameOperation
<1> HIDE DEF t
<1>3. Tracks(t1) /\ t1.item = item
  <2> DEFINE v == [t EXCEPT !.milestone = Reached(item.progress)]
  <2>1. DOMAIN v = TrackFields /\ v.item = item /\ v.opened = t.opened
    BY <1>2 DEF Tracks, TrackFields
  <2>2. t1 \in {t, v}
    OBVIOUS
  <2> HIDE DEF v, t1
  <2> QED BY <1>2, <2>1, <2>2 DEF Tracks
<1>4. /\ DOMAIN s1 = PollFields /\ s1.solved = s.solved /\ s1.tracked = s.tracked
      /\ s.notes \subseteq s1.notes
      /\ \A n \in s1.notes \ s.notes : ~n.image /\ SameAs(n.item, n.opened.item)
  <2> HIDE DEF t1, passed
  <2>1. SameAs(t1.item, t1.opened.item)
    BY <1>3 DEF Tracks
  <2> DEFINE v == Tell(s, p, t1, "progress")
  <2>2. /\ DOMAIN v = PollFields /\ v.solved = s.solved /\ v.tracked = s.tracked
        /\ \E n : v.notes = s.notes \cup {n} /\ n.item = t1.item /\ n.opened = t1.opened
                  /\ ~n.image
    BY SilentNote
  <2>3. s1 = s \/ s1 = v
    BY Zenon DEF Tell
  <2> HIDE DEF v, s1
  <2> QED BY <2>1, <2>2, <2>3
<1> HIDE DEF s1, t1
<1>5. Tracks(t2) /\ t2.item = item
  <2> DEFINE v == [t1 EXCEPT !.output = item.output]
  <2>1. DOMAIN v = TrackFields /\ v.item = item /\ v.opened = t1.opened
    BY <1>3 DEF Tracks, TrackFields
  <2>2. t2 \in {t1, v}
    OBVIOUS
  <2> HIDE DEF v, t2
  <2> QED BY <1>3, <2>1, <2>2 DEF Tracks
<1> HIDE DEF t2
<1>6. Turn(s, s2, item, TRUE) /\ s2.tracked = s.tracked
  <2>1. CASE fresh /\ Claims(s1, item)
    <3> DEFINE c == Claim(s1, item)
               v == Post(c, p, t2, "output")
    <3>1. s2 = v
      BY <2>1, Zenon DEF Post
    <3>2. /\ DOMAIN c = PollFields /\ c.notes = s1.notes /\ c.tracked = s1.tracked
          /\ c.solved = s1.solved \cup {item.output}
      BY <1>4, <2>1, ClaimShape, Zenon
    <3> HIDE DEF c
    <3>3. /\ DOMAIN v = PollFields /\ v.solved = c.solved /\ v.tracked = c.tracked
          /\ \E n : v.notes = c.notes \cup {n} /\ n.item = t2.item /\ n.opened = t2.opened
                    /\ n.image
      BY <3>2, OutputNote
    <3> HIDE DEF v, s2, fresh
    <3>4. Claims(s, item)
      BY <1>4, <2>1 DEF Claims
    <3>5. PICK n : v.notes = c.notes \cup {n} /\ n.item = t2.item /\ n.opened = t2.opened /\ n.image
      BY <3>3
    <3>6. SameAs(n.item, n.opened.item) /\ n.item = item
      BY <1>5, <3>5 DEF Tracks
    <3> QED BY <1>4, <3>1, <3>2, <3>3, <3>4, <3>5, <3>6 DEF Turn
  <2>2. CASE ~(fresh /\ Claims(s1, item))
    <3>1. s2 = s1
      BY <2>2, Zenon
    <3> HIDE DEF s2, fresh
    <3> QED BY <1>4, <3>1 DEF Turn
  <2> QED BY <2>1, <2>2
<1> HIDE DEF s2
<1>7. DOMAIN s2 = PollFields
  BY <1>6 DEF Turn
<1>8. /\ DOMAIN u = PollFields /\ u.solved = s2.solved /\ u.notes = s2.notes
      /\ DOMAIN u.tracked = DOMAIN s2.tracked \cup {p} /\ u.tracked[p] = t2
      /\ \A q \in DOMAIN s2.tracked \ {p} : u.tracked[q] = s2.tracked[q]
  BY <1>7, TrackShape
<1> HIDE DEF u
<1>9. Turn(s, u, item, TRUE)
  BY <1>6, <1>8 DEF Turn
<1>10. OnlyAt(s, u, p)
  BY <1>5, <1>6, <1>8 DEF OnlyAt
<1> QED BY <1>1, <1>9, <1>10

LEMMA FollowTurns ==
  ASSUME NEW s, DOMAIN s = PollFields, NEW p \in DOMAIN s.tracked, Tracks(s.tracked[p]),
         NEW incoming, \A q \in DOMAIN incoming : DOMAIN incoming[q] = OpFields, NEW hidden
  PROVE  LET u == Follow(s, p, incoming, hidden) IN
         (\E item : Turn(s, u, item, TRUE)) /\ OnlyAt(s, u, p)
<1> DEFINE t == s.tracked[p]
           d == Drop(s, p)
           item == incoming[p]
           c == Claim(d, item)
           v == [t EXCEPT !.item = item, !.output = item.output]
           ended == Tell(d, p, t, "ended")
           over == End(c, p, v, Outcome(item), s, item)
           on == Advance(s, p, item)
           u == Follow(s, p, incoming, hidden)
<1>1. \/ u = d
      \/ u = ended
      \/ p \in DOMAIN incoming /\ SameOperation(t.item, item) /\ u = over
      \/ p \in DOMAIN incoming /\ SameOperation(t.item, item) /\ u = on
  BY Zenon DEF Follow, Tell, End
<1>2. /\ DOMAIN d = PollFields /\ d.solved = s.solved /\ d.notes = s.notes
      /\ DOMAIN d.tracked = DOMAIN s.tracked \ {p}
      /\ \A q \in DOMAIN d.tracked : d.tracked[q] = s.tracked[q]
  BY DropShape, Zenon
<1>3. SameAs(t.item, t.opened.item) /\ DOMAIN t = TrackFields
  BY DEF Tracks
<1> HIDE DEF d
<1>4. Turn(s, d, item, TRUE) /\ OnlyAt(s, d, p)
  BY <1>2 DEF Turn, OnlyAt
<1>5. Turn(s, ended, item, TRUE) /\ OnlyAt(s, ended, p)
  <2> HIDE DEF t
  <2>1. /\ DOMAIN ended = PollFields /\ ended.solved = d.solved /\ ended.tracked = d.tracked
        /\ \E n : ended.notes = d.notes \cup {n} /\ n.item = t.item /\ n.opened = t.opened /\ ~n.image
    BY <1>2, SilentNote
  <2> HIDE DEF ended
  <2> QED BY <1>2, <1>3, <2>1 DEF Turn, OnlyAt
<1>6. ASSUME p \in DOMAIN incoming, SameOperation(t.item, item)
      PROVE  Turn(s, over, item, TRUE) /\ OnlyAt(s, over, p)
  <2>1. v.item = item /\ v.opened = t.opened
    <3> HIDE DEF t, item
    <3> QED BY <1>3 DEF TrackFields
  <2>2. SameAs(v.item, v.opened.item)
    <3> HIDE DEF v
    <3> QED BY <1>3, <1>6, <2>1 DEF SameAs, SameOperation
  <2> HIDE DEF v, item
  <2>3. /\ DOMAIN c = PollFields /\ c.notes = d.notes /\ c.tracked = d.tracked
        /\ Claims(d, item) => c.solved = d.solved \cup {item.output}
        /\ ~Claims(d, item) => c.solved = d.solved
    BY <1>2, ClaimShape, Zenon
  <2>4. Claims(d, item) <=> Claims(s, item)
    BY <1>2 DEF Claims
  <2> HIDE DEF c
  <2>5. /\ DOMAIN over = PollFields /\ over.solved = c.solved /\ over.tracked = c.tracked
        /\ \E n : over.notes = c.notes \cup {n} /\ n.item = v.item /\ n.opened = v.opened
                  /\ (n.image <=> Claims(s, item))
    BY <2>3, EndNote
  <2> HIDE DEF over
  <2>6. PICK n : over.notes = s.notes \cup {n} /\ n.item = item /\ n.opened = v.opened
                 /\ (n.image <=> Claims(s, item))
    BY <1>2, <2>1, <2>3, <2>5
  <2>7. SameAs(n.item, n.opened.item)
    BY <2>1, <2>2, <2>6
  <2>8. OnlyAt(s, over, p)
    BY <1>2, <2>3, <2>5 DEF OnlyAt
  <2>9. CASE Claims(s, item)
    BY <1>2, <2>3, <2>4, <2>5, <2>6, <2>7, <2>8, <2>9 DEF Turn
  <2>10. CASE ~Claims(s, item)
    BY <1>2, <2>3, <2>4, <2>5, <2>6, <2>7, <2>8, <2>10 DEF Turn
  <2> QED BY <2>9, <2>10
<1>7. ASSUME p \in DOMAIN incoming, SameOperation(t.item, item)
      PROVE  Turn(s, on, item, TRUE) /\ OnlyAt(s, on, p)
  <2>1. DOMAIN item = OpFields
    BY <1>7
  <2> HIDE DEF item
  <2> QED BY <1>7, <2>1, AdvanceTurns, Zenon
<1> HIDE DEF ended, over, on, u
<1>8. Turn(s, u, item, TRUE) /\ OnlyAt(s, u, p)
  BY <1>1, <1>4, <1>5, <1>6, <1>7
<1> QED BY <1>8 DEF u

LEMMA StartTurns ==
  ASSUME NEW s, DOMAIN s = PollFields, \A q \in DOMAIN s.tracked : Tracks(s.tracked[q]),
         NEW p, NEW item, DOMAIN item = OpFields, NEW center, NEW announce \in BOOLEAN, NEW live,
         NEW target
  PROVE  LET u == Start(s, p, item, center, announce, live, target) IN
         /\ Turn(s, u, item, announce) /\ DOMAIN u.tracked \subseteq DOMAIN s.tracked \cup {p}
         /\ \A q \in DOMAIN u.tracked : Tracks(u.tracked[q])
<1> DEFINE t == [item |-> item, output |-> item.output, live |-> live,
                 milestone |-> IF announce THEN 0 ELSE Reached(item.progress),
                 opened |-> [item |-> item, target |-> target]]
           told == Tell(s, p, t, "started")
           begun == IF announce /\ p # center THEN told ELSE s
           posted == Post(begun, p, t, "output")
           noted == IF announce /\ Claims(s, item) THEN posted ELSE begun
           c == Claim(noted, item)
           k == Track(c, p, t)
           u == Start(s, p, item, center, announce, live, target)
<1>1. u \in {s, k}
  BY Zenon DEF Start, Tell, Post
<1>2. Tracks(t) /\ t.item = item /\ t.opened.item = item
  <2>1. DOMAIN t = TrackFields /\ t.item = item /\ t.opened.item = item
    BY DEF TrackFields
  <2> HIDE DEF t
  <2> QED BY <2>1 DEF Tracks, SameAs
<1> HIDE DEF t
<1>3. SameAs(item, item)
  BY DEF SameAs
<1>4. /\ DOMAIN told = PollFields /\ told.solved = s.solved /\ told.tracked = s.tracked
      /\ \E n : told.notes = s.notes \cup {n} /\ n.item = t.item /\ n.opened = t.opened /\ ~n.image
  BY SilentNote
<1>5. begun = told \/ begun = s
  OBVIOUS
<1> HIDE DEF told, begun
<1>6. /\ DOMAIN begun = PollFields /\ begun.solved = s.solved /\ begun.tracked = s.tracked
      /\ s.notes \subseteq begun.notes
      /\ \A n \in begun.notes \ s.notes : ~n.image /\ n.item = item /\ n.opened.item = item
  BY <1>2, <1>4, <1>5
<1>7. /\ DOMAIN posted = PollFields /\ posted.solved = begun.solved /\ posted.tracked = begun.tracked
      /\ \E n : posted.notes = begun.notes \cup {n} /\ n.item = t.item /\ n.opened = t.opened /\ n.image
  BY <1>6, OutputNote
<1>8. /\ announce /\ Claims(s, item) => noted = posted
      /\ ~(announce /\ Claims(s, item)) => noted = begun
  OBVIOUS
<1> HIDE DEF posted, noted
<1>9. /\ DOMAIN noted = PollFields /\ noted.solved = s.solved /\ noted.tracked = s.tracked
      /\ s.notes \subseteq noted.notes
      /\ \A n \in noted.notes \ s.notes : n.item = item /\ n.opened.item = item
      /\ announce /\ Claims(s, item) => \E n \in noted.notes : n.image /\ n.item = item
      /\ ~Claims(s, item) => \A n \in noted.notes \ s.notes : ~n.image
  <2>1. PICK n : posted.notes = begun.notes \cup {n} /\ n.item = item /\ n.opened.item = item /\ n.image
    BY <1>2, <1>7
  <2>2. CASE announce /\ Claims(s, item)
    BY <1>6, <1>7, <1>8, <2>1, <2>2
  <2>3. CASE ~(announce /\ Claims(s, item))
    BY <1>6, <1>8, <2>3
  <2> QED BY <2>2, <2>3
<1>10. /\ DOMAIN c = PollFields /\ c.notes = noted.notes /\ c.tracked = noted.tracked
       /\ Claims(noted, item) => c.solved = noted.solved \cup {item.output}
       /\ ~Claims(noted, item) => c.solved = noted.solved
  BY <1>9, ClaimShape, Zenon
<1>11. Claims(noted, item) <=> Claims(s, item)
  BY <1>9 DEF Claims
<1> HIDE DEF c
<1>12. /\ DOMAIN k = PollFields /\ k.solved = c.solved /\ k.notes = c.notes
       /\ DOMAIN k.tracked = DOMAIN c.tracked \cup {p} /\ k.tracked[p] = t
       /\ \A q \in DOMAIN c.tracked \ {p} : k.tracked[q] = c.tracked[q]
  BY <1>10, TrackShape
<1> HIDE DEF k, u
<1>13. Turn(s, k, item, announce)
  <2>1. \A n \in k.notes \ s.notes : n.item = item /\ SameAs(n.item, n.opened.item)
    BY <1>3, <1>9, <1>10, <1>12
  <2>2. DOMAIN k = PollFields /\ s.notes \subseteq k.notes
    BY <1>9, <1>10, <1>12
  <2>3. CASE Claims(s, item)
    <3>1. k.solved = s.solved \cup {item.output}
      BY <1>9, <1>10, <1>11, <1>12, <2>3
    <3>2. announce => \E n \in k.notes : n.image /\ n.item = item
      BY <1>9, <1>10, <1>12, <2>3
    <3> QED BY <2>1, <2>2, <2>3, <3>1, <3>2, Zenon DEF Turn
  <2>4. CASE ~Claims(s, item)
    <3>1. k.solved = s.solved /\ \A n \in k.notes \ s.notes : ~n.image
      BY <1>9, <1>10, <1>11, <1>12, <2>4
    <3> QED BY <2>1, <2>2, <3>1, Zenon DEF Turn
  <2> QED BY <2>3, <2>4
<1>14. /\ DOMAIN k.tracked = DOMAIN s.tracked \cup {p}
       /\ \A q \in DOMAIN k.tracked : Tracks(k.tracked[q])
  BY <1>2, <1>9, <1>10, <1>12
<1>15. Turn(s, s, item, announce)
  BY DEF Turn
<1>16. /\ Turn(s, u, item, announce) /\ DOMAIN u.tracked \subseteq DOMAIN s.tracked \cup {p}
       /\ \A q \in DOMAIN u.tracked : Tracks(u.tracked[q])
  BY <1>1, <1>13, <1>14, <1>15
<1> QED BY <1>16 DEF u

\* What the turns of a poll have come to.
Sound(s, announced) ==
  /\ DOMAIN s = PollFields /\ solved \subseteq s.solved
  /\ \A q \in DOMAIN s.tracked : Tracks(s.tracked[q])
  /\ \A n \in s.notes : SameAs(n.item, n.opened.item)
  /\ \A n \in s.notes : n.image => n.item.enabled /\ n.item.output \in s.solved \ solved
  /\ announced => \A o \in s.solved \ solved :
                    \E n \in s.notes : n.image /\ n.item.enabled /\ n.item.output = o

LEMMA TurnIsSound ==
  ASSUME NEW announced \in BOOLEAN, NEW s, Sound(s, announced), NEW u, NEW item,
         Turn(s, u, item, announced), \A q \in DOMAIN u.tracked : Tracks(u.tracked[q])
  PROVE  Sound(u, announced)
<1>1. DOMAIN u = PollFields /\ s.notes \subseteq u.notes
  BY DEF Turn
<1>2. \A n \in u.notes : SameAs(n.item, n.opened.item)
  BY DEF Turn, Sound
<1>3. CASE u.solved = s.solved /\ \A n \in u.notes \ s.notes : ~n.image
  BY <1>1, <1>2, <1>3 DEF Sound
<1>4. CASE /\ Claims(s, item) /\ u.solved = s.solved \cup {item.output}
           /\ \A n \in u.notes \ s.notes : n.image => n.item = item
           /\ announced => \E n \in u.notes : n.image /\ n.item = item
  <2>1. item.enabled /\ item.output \notin s.solved /\ solved \subseteq s.solved
    BY <1>4 DEF Claims, Sound
  <2>2. ASSUME NEW n \in u.notes, n.image
        PROVE  n.item.enabled /\ n.item.output \in u.solved \ solved
    <3>1. CASE n \in s.notes
      BY <1>4, <2>2, <3>1 DEF Sound
    <3>2. CASE n \notin s.notes
      BY <1>4, <2>1, <2>2, <3>2
    <3> QED BY <3>1, <3>2
  <2>3. ASSUME announced, NEW o \in u.solved \ solved
        PROVE  \E n \in u.notes : n.image /\ n.item.enabled /\ n.item.output = o
    <3>1. CASE o \in s.solved
      BY <1>1, <2>3, <3>1 DEF Sound
    <3>2. CASE o = item.output
      BY <1>4, <2>1, <2>3, <3>2
    <3> QED BY <1>4, <2>3, <3>1, <3>2
  <2> QED BY <1>1, <1>2, <1>4, <2>1, <2>2, <2>3 DEF Sound
<1> QED BY <1>3, <1>4 DEF Turn

\* The trees are bounded, and so are the paths in them.
LEMMA AllKeysAreFinite == IsFiniteSet(AllKeys)
BY TreesAreBounded, PathsAreFinite DEF AllKeys

LEMMA ReadingFacts ==
  ASSUME NEW snapshot \in Readings
  PROVE  /\ DOMAIN snapshot.items \subseteq AllKeys
         /\ \A p \in DOMAIN snapshot.items : DOMAIN snapshot.items[p] = OpFields
<1>1. PICK menu \in DOMAIN SequenceMenus : \E tree \in SequenceMenus[menu] : snapshot.items = Operations(tree)
  BY DEF Readings
<1>2. PICK tree : snapshot.items = Operations(tree)
  BY <1>1
<1>3. DOMAIN Operations(tree) \subseteq KeysOf(tree) /\ KeysOf(tree) \subseteq AllKeys
  BY DEF Operations, KeysOf, AllKeys
<1>4. ASSUME NEW node PROVE DOMAIN Operation(node) = OpFields
  <2>1. PICK name, status, enabled, progress, kind, output :
          Operation(node) = [name |-> name, status |-> status, enabled |-> enabled,
                             progress |-> progress, kind |-> kind, output |-> output]
    BY Zenon DEF Operation
  <2> QED BY <2>1 DEF OpFields
<1>5. \A p \in DOMAIN Operations(tree) : Operations(tree)[p] = Operation(NodeAt(tree, p))
  BY Zenon DEF Operations
<1> QED BY <1>2, <1>3, <1>4, <1>5

LEMMA PromotedFields ==
  ASSUME NEW item, DOMAIN item = OpFields
  PROVE  /\ DOMAIN Promoted(item) = OpFields /\ Promoted(item).name = item.name
         /\ \A opened : SameAs(item, opened) => SameAs(Promoted(item), opened)
BY DEF Promoted, OpFields, SameAs, MayBeCenter

LEMMA IncomingFacts ==
  ASSUME NEW snapshot \in Readings, NEW center
  PROVE  /\ DOMAIN Incoming(snapshot, center) \subseteq AllKeys
         /\ \A p \in DOMAIN Incoming(snapshot, center) : DOMAIN Incoming(snapshot, center)[p] = OpFields
<1>1. /\ DOMAIN Incoming(snapshot, center) = Followed(snapshot)
      /\ \A p \in Followed(snapshot) :
           Incoming(snapshot, center)[p] \in {snapshot.items[p], Promoted(snapshot.items[p])}
  BY DEF Incoming
<1>2. Followed(snapshot) \subseteq DOMAIN snapshot.items
  BY DEF Followed
<1> QED BY <1>1, <1>2, ReadingFacts, PromotedFields

\* The passes of a poll are runs over its paths.
Camera(announce) == announce /\ cameraBase
Poll(snapshot, center, announce) == Reconciled(snapshot, center, announce, announce /\ cameraBase)
Known(center) == [tracked |-> Recognised(center), solved |-> solved, notes |-> {}]
Live(incoming, announce) == [p \in DOMAIN incoming |-> (announce /\ cameraBase) /\ p \notin suppressed]

LEMMA PollRuns ==
  ASSUME NEW snapshot, NEW center, NEW announce,
         Len(SetToSeq(DOMAIN tracked)) \in Nat,
         Len(SetToSeq(DOMAIN Incoming(snapshot, center))) \in Nat
  PROVE  LET incoming == Incoming(snapshot, center)
             old == SetToSeq(DOMAIN tracked)
             new == SetToSeq(DOMAIN incoming)
             first == [order |-> old, incoming |-> incoming, hidden |-> snapshot.suppressed]
             second == [order |-> new, incoming |-> incoming, center |-> center,
                        announce |-> announce, live |-> Live(incoming, announce),
                        target |-> snapshot.target]
         IN  \E g, h :
               /\ Runs(g, "follow", first, Known(center), Len(old))
               /\ Runs(h, "start", second, g[Len(old)], Len(new))
               /\ Poll(snapshot, center, announce) = h[Len(new)]
<1> DEFINE incoming == Incoming(snapshot, center)
           old == SetToSeq(DOMAIN tracked)
           new == SetToSeq(DOMAIN incoming)
           n == Len(old)
           m == Len(new)
           live == Live(incoming, announce)
           first == [order |-> old, incoming |-> incoming, hidden |-> snapshot.suppressed]
           second == [order |-> new, incoming |-> incoming, center |-> center,
                      announce |-> announce, live |-> live, target |-> snapshot.target]
           F(g) == g = [i \in 0..n |->
                     IF i = 0 THEN Known(center)
                     ELSE Follow(g[i - 1], old[i], incoming, snapshot.suppressed)]
           f == CHOOSE g : F(g)
           H(h) == h = [i \in 0..m |->
                     IF i = 0 THEN f[n]
                     ELSE Start(h[i - 1], new[i], incoming[new[i]], center, announce, live[new[i]],
                                snapshot.target)]
           e == CHOOSE h : H(h)
           G(g) == Stepped(g, "follow", first, Known(center), n)
           K(h) == Stepped(h, "start", second, f[n], m)
<1>1. Poll(snapshot, center, announce) = e[m]
  BY Zenon DEF Poll, Reconciled, Known, Live
<1>2. n \in Nat /\ m \in Nat
  OBVIOUS
<1>3. first.order = old /\ first.incoming = incoming /\ first.hidden = snapshot.suppressed
  OBVIOUS
<1>4. /\ second.order = new /\ second.incoming = incoming /\ second.center = center
      /\ second.announce = announce /\ second.live = live /\ second.target = snapshot.target
  <2> HIDE DEF live
  <2> QED OBVIOUS
<1> HIDE DEF first, second
<1>5. \A g : F(g) <=> G(g)
  BY <1>3, Zenon DEF Step, Stepped
<1>6. \E g : G(g)
  BY <1>2, StepsHaveValues
<1> HIDE DEF F, G
<1>7. G(f)
  BY <1>5, <1>6, Zenon
<1> HIDE DEF f
<1>8. \A h : H(h) <=> K(h)
  <2> HIDE DEF live, new, incoming, m
  <2> QED BY <1>4, Zenon DEF Step, Stepped
<1>9. \E h : K(h)
  BY <1>2, StepsHaveValues
<1> HIDE DEF H, K
<1>10. K(e)
  BY <1>8, <1>9, Zenon
<1> HIDE DEF e
<1>11. Runs(f, "follow", first, Known(center), n) /\ Runs(e, "start", second, f[n], m)
  BY <1>2, <1>7, <1>10, StepsRun DEF G, K
<1> QED BY <1>1, <1>11, Zenon DEF first, second

TracksInv == DOMAIN tracked \subseteq AllKeys /\ \A p \in DOMAIN tracked : Tracks(tracked[p])

LEMMA KnownIsSound ==
  ASSUME TracksInv, NEW center
  PROVE  Sound(Known(center), TRUE) /\ DOMAIN Known(center).tracked = DOMAIN tracked
<1> DEFINE r == Recognised(center)
           k == [tracked |-> r, solved |-> solved, notes |-> {}]
<1>1. ASSUME NEW t, Tracks(t) PROVE Tracks([t EXCEPT !.item = Promoted(t.item)])
  <2> DEFINE j == Promoted(t.item)
             v == [t EXCEPT !.item = j]
  <2>1. DOMAIN v = TrackFields /\ v.item = j /\ v.opened = t.opened
    <3> HIDE DEF j
    <3> QED BY <1>1 DEF Tracks, TrackFields
  <2>2. DOMAIN j = OpFields /\ SameAs(j, t.opened.item)
    BY <1>1, PromotedFields DEF Tracks
  <2> HIDE DEF v, j
  <2>3. Tracks(v)
    BY <2>1, <2>2 DEF Tracks
  <2> QED BY <2>3, Zenon DEF v, j
<1>2. /\ DOMAIN r = DOMAIN tracked
      /\ \A p \in DOMAIN tracked :
           r[p] \in {tracked[p], [tracked[p] EXCEPT !.item = Promoted(tracked[p].item)]}
  BY DEF Recognised
<1>3. \A p \in DOMAIN r : Tracks(r[p])
  BY <1>1, <1>2 DEF TracksInv
<1> HIDE DEF r
<1>4. DOMAIN k = PollFields /\ k.tracked = r /\ k.solved = solved /\ k.notes = {}
  BY DEF PollFields
<1> HIDE DEF k
<1>5. Sound(k, TRUE)
  BY <1>3, <1>4 DEF Sound
<1> QED BY <1>2, <1>4, <1>5 DEF k, r, Known

LEMMA PollIsSound ==
  ASSUME TracksInv, NEW snapshot \in Readings, NEW center, NEW announce \in BOOLEAN
  PROVE  LET s == Poll(snapshot, center, announce) IN
         Sound(s, announce) /\ DOMAIN s.tracked \subseteq AllKeys
<1> DEFINE incoming == Incoming(snapshot, center)
           old == SetToSeq(DOMAIN tracked)
           new == SetToSeq(DOMAIN incoming)
           n == Len(old)
           m == Len(new)
           first == [order |-> old, incoming |-> incoming, hidden |-> snapshot.suppressed]
           second == [order |-> new, incoming |-> incoming, center |-> center,
                      announce |-> announce, live |-> Live(incoming, announce),
                      target |-> snapshot.target]
<1>1. /\ DOMAIN incoming \subseteq AllKeys
      /\ \A p \in DOMAIN incoming : DOMAIN incoming[p] = OpFields
  BY IncomingFacts
<1> HIDE DEF incoming
<1>2. /\ n \in Nat /\ \A i \in 1..n : old[i] \in DOMAIN tracked
      /\ \A i, j \in 1..n : old[i] = old[j] => i = j
  <2>1. IsFiniteSet(DOMAIN tracked)
    BY AllKeysAreFinite, FS_Subset DEF TracksInv
  <2> QED BY <2>1, WrittenOut
<1>3. m \in Nat /\ \A i \in 1..m : new[i] \in DOMAIN incoming
  <2>1. IsFiniteSet(DOMAIN incoming)
    BY <1>1, AllKeysAreFinite, FS_Subset
  <2> QED BY <2>1, WrittenOut
<1>4. PICK g, h : /\ Runs(g, "follow", first, Known(center), n)
                  /\ Runs(h, "start", second, g[n], m)
                  /\ Poll(snapshot, center, announce) = h[m]
  <2> QED BY <1>2, <1>3, PollRuns, Zenon DEF incoming
<1>5. first.order = old /\ first.incoming = incoming /\ first.hidden = snapshot.suppressed
  OBVIOUS
<1>6. second.order = new /\ second.incoming = incoming /\ second.center = center /\ second.announce = announce
  OBVIOUS
<1> HIDE DEF first, second
<1> DEFINE V == {i \in 0..n : /\ Sound(g[i], TRUE) /\ DOMAIN g[i].tracked \subseteq AllKeys
                             /\ \A j \in 1..n : j > i => old[j] \in DOMAIN g[i].tracked}
           W == {i \in 0..m : Sound(h[i], announce) /\ DOMAIN h[i].tracked \subseteq AllKeys}
<1>7. 0 \in V
  <2>1. g[0] = Known(center)
    BY <1>4 DEF Runs
  <2>2. Sound(g[0], TRUE) /\ DOMAIN g[0].tracked = DOMAIN tracked
    BY <2>1, KnownIsSound
  <2>3. DOMAIN tracked \subseteq AllKeys
    BY DEF TracksInv
  <2>4. 0 \in 0..n
    BY <1>2
  <2>5. \A j \in 1..n : old[j] \in DOMAIN g[0].tracked
    BY <1>2, <2>2
  <2> HIDE DEF old, n
  <2> QED BY <2>2, <2>3, <2>4, <2>5
<1>8. \A i \in 0..n : i # n /\ i \in V => i + 1 \in V
  <2> SUFFICES ASSUME NEW i \in 0..n, i # n, i \in V PROVE i + 1 \in V
    OBVIOUS
  <2> DEFINE j == i + 1
             p == old[j]
             x == g[i]
             u == Follow(x, p, incoming, snapshot.suppressed)
  <2>1. j \in 1..n /\ j - 1 = i /\ j \in 0..n /\ j > i
    BY <1>2
  <2>2. g[j] = u
    <3>1. g[j] = Step("follow", first, x, j)
      BY <1>4, <2>1 DEF Runs
    <3> QED BY <1>5, <3>1, Zenon DEF Step
  <2>3. /\ Sound(x, TRUE) /\ DOMAIN x.tracked \subseteq AllKeys
        /\ \A l \in 1..n : l > i => old[l] \in DOMAIN x.tracked
    OBVIOUS
  <2> HIDE DEF x, V, j, old, n
  <2>4. /\ DOMAIN x = PollFields /\ p \in DOMAIN x.tracked
        /\ \A q \in DOMAIN x.tracked : Tracks(x.tracked[q])
    BY <2>1, <2>3 DEF Sound
  <2>5. (\E item : Turn(x, u, item, TRUE)) /\ OnlyAt(x, u, p)
    <3> HIDE DEF p
    <3> QED BY <1>1, <2>4, FollowTurns
  <2> HIDE DEF u
  <2>6. /\ \A q \in DOMAIN u.tracked : Tracks(u.tracked[q])
        /\ DOMAIN u.tracked \subseteq AllKeys
        /\ \A l \in 1..n : l > j => old[l] \in DOMAIN u.tracked
    <3>1. \A q \in DOMAIN u.tracked : Tracks(u.tracked[q])
      BY <2>4, <2>5 DEF OnlyAt
    <3>2. DOMAIN u.tracked \subseteq AllKeys
      BY <2>3, <2>4, <2>5 DEF OnlyAt
    <3>3. \A l \in 1..n : l > j => l > i /\ old[l] # p
      BY <1>2, <2>1 DEF j
    <3> QED BY <2>3, <2>5, <3>1, <3>2, <3>3 DEF OnlyAt
  <2>7. Sound(u, TRUE)
    <3>1. PICK item : Turn(x, u, item, TRUE)
      BY <2>5
    <3>2. TRUE \in BOOLEAN
      OBVIOUS
    <3> QED BY <2>3, <2>6, <3>1, <3>2, TurnIsSound, Zenon
  <2>8. j \in V
    BY <2>1, <2>2, <2>6, <2>7 DEF V
  <2> QED BY <2>8 DEF j
<1>9. n \in V
  <2> HIDE DEF V, n
  <2>1. \A i \in 0..n : i \in V
    BY <1>2, <1>7, <1>8, UpTo, Zenon
  <2> QED BY <1>2, <2>1
<1>10. Sound(g[n], announce) /\ DOMAIN g[n].tracked \subseteq AllKeys
  BY <1>9 DEF Sound
<1> HIDE DEF V
<1>11. 0 \in W
  <2>1. h[0] = g[n]
    BY <1>4 DEF Runs
  <2> HIDE DEF n, m
  <2> QED BY <1>3, <1>10, <2>1
<1>12. \A i \in 0..m : i # m /\ i \in W => i + 1 \in W
  <2> SUFFICES ASSUME NEW i \in 0..m, i # m, i \in W PROVE i + 1 \in W
    OBVIOUS
  <2> DEFINE j == i + 1
             p == new[j]
             x == h[i]
             live == second.live
             target == second.target
             item == incoming[p]
             u == Start(x, p, item, center, announce, live[p], target)
  <2>1. j \in 1..m /\ j - 1 = i /\ j \in 0..m
    BY <1>3
  <2>2. h[j] = u
    <3>1. h[j] = Step("start", second, x, j)
      BY <1>4, <2>1 DEF Runs
    <3> QED BY <1>6, <3>1, Zenon DEF Step
  <2>3. Sound(x, announce) /\ DOMAIN x.tracked \subseteq AllKeys
    OBVIOUS
  <2> HIDE DEF x, W, j, new, m
  <2>4. /\ DOMAIN x = PollFields /\ \A q \in DOMAIN x.tracked : Tracks(x.tracked[q])
        /\ DOMAIN item = OpFields /\ p \in AllKeys
    BY <1>1, <1>3, <2>1, <2>3 DEF Sound
  <2>5. /\ Turn(x, u, item, announce) /\ DOMAIN u.tracked \subseteq DOMAIN x.tracked \cup {p}
        /\ \A q \in DOMAIN u.tracked : Tracks(u.tracked[q])
    <3> HIDE DEF p, live, target, item
    <3> QED BY <2>4, StartTurns
  <2> HIDE DEF u, item, p
  <2>6. Sound(u, announce)
    BY <2>3, <2>5, TurnIsSound
  <2>7. DOMAIN u.tracked \subseteq AllKeys
    BY <2>3, <2>4, <2>5
  <2>8. j \in W
    BY <2>1, <2>2, <2>6, <2>7 DEF W
  <2> QED BY <2>8 DEF j
<1>13. m \in W
  <2> HIDE DEF W, m
  <2>1. \A i \in 0..m : i \in W
    BY <1>3, <1>11, <1>12, UpTo, Zenon
  <2> QED BY <1>3, <2>1
<1>14. Sound(h[m], announce) /\ DOMAIN h[m].tracked \subseteq AllKeys
  BY <1>13
<1> QED BY <1>4, <1>14, Zenon

\* What is announced is counted: a poll's outputs are the new ones.
OpsInv ==
  /\ TracksInv /\ outputs \in [Outputs -> Nat] /\ unsaid \subseteq solved
  /\ OutputsPostedOnce /\ UpdatesAreTrue

LEMMA ReconcileStep ==
  ASSUME OpsInv, NEW snapshot \in Readings, NEW announce \in BOOLEAN, NEW forgetCenter \in BOOLEAN,
         Reconcile(snapshot, announce, forgetCenter)
  PROVE  OpsInv'
<1>1. PICK center :
        LET s == Poll(snapshot, center, announce)
            said == IF announce THEN {n \in s.notes : Reported(n)} ELSE {}
        IN
        /\ tracked' = s.tracked /\ solved' = s.solved /\ cameraTarget' = snapshot.target
        /\ updates' = said
        /\ actions' = IF ~(announce /\ cameraBase) THEN {}
                      ELSE {[of |-> n.path, what |-> n.what, opened |-> n.opened,
                             target |-> Named(n, snapshot.target)] : n \in {m \in said : Acted(m)}}
        /\ outputs' = [o \in Outputs |->
             IF \E n \in said : n.image /\ n.item.output = o THEN outputs[o] + 1 ELSE outputs[o]]
        /\ unsaid' = IF announce THEN unsaid ELSE unsaid \cup (s.solved \ solved)
  BY Zenon DEF Reconcile, Poll
<1> DEFINE s == Poll(snapshot, center, announce)
           said == IF announce THEN {n \in s.notes : Reported(n)} ELSE {}
<1>2. Sound(s, announce) /\ DOMAIN s.tracked \subseteq AllKeys
  BY PollIsSound DEF OpsInv
<1>3. /\ tracked' = s.tracked /\ solved' = s.solved /\ cameraTarget' = snapshot.target
      /\ updates' = said
      /\ outputs' = [o \in Outputs |->
             IF \E n \in said : n.image /\ n.item.output = o THEN outputs[o] + 1 ELSE outputs[o]]
      /\ unsaid' = IF announce THEN unsaid ELSE unsaid \cup (s.solved \ solved)
  BY <1>1, Zenon
<1>4. \A a \in actions' : \E n \in said : a.opened = n.opened /\ a.target = Named(n, snapshot.target)
  BY <1>1
<1> HIDE DEF s
<1>5. TracksInv'
  <2>1. \A q \in DOMAIN s.tracked : Tracks(s.tracked[q])
    BY <1>2 DEF Sound
  <2>2. AllKeys' = AllKeys
    BY DEF AllKeys
  <2> QED BY <1>2, <1>3, <2>1, <2>2 DEF TracksInv
<1>6. UpdatesAreTrue'
  <2>1. \A n \in said : SameAs(n.item, n.opened.item)
    BY <1>2 DEF Sound
  <2> HIDE DEF said
  <2>2. ASSUME NEW a \in actions', a.target # NoTarget
        PROVE  a.target = snapshot.target /\ a.opened.target = snapshot.target
    <3>1. PICK n \in said : a.opened = n.opened /\ a.target = Named(n, snapshot.target)
      BY <1>4
    <3> QED BY <2>2, <3>1 DEF Named
  <2> QED BY <1>3, <2>1, <2>2 DEF UpdatesAreTrue, SameAs
<1>7. outputs' \in [Outputs' -> Nat] /\ unsaid' \subseteq solved' /\ Outputs' = Outputs
  <2>1. Outputs' = Outputs
    BY DEF Outputs, Items, Readings
  <2>2. unsaid \subseteq solved /\ solved \subseteq s.solved /\ outputs \in [Outputs -> Nat]
    BY <1>2 DEF OpsInv, Sound
  <2> HIDE DEF said
  <2> QED BY <1>3, <2>1, <2>2
<1>8. ASSUME NEW o \in Outputs
      PROVE  outputs'[o] <= 1 /\ (o \in solved' \ unsaid' <=> outputs'[o] = 1)
  <2>1. /\ outputs[o] \in Nat /\ outputs[o] <= 1 /\ (o \in solved \ unsaid <=> outputs[o] = 1)
        /\ unsaid \subseteq solved /\ solved \subseteq s.solved
    BY <1>2 DEF OpsInv, OutputsPostedOnce, Sound
  <2>2. CASE announce
    <3>1. (\E n \in said : n.image /\ n.item.output = o) <=> o \in s.solved \ solved
      <4>1. ASSUME NEW n \in said, n.image, n.item.output = o PROVE o \in s.solved \ solved
        BY <1>2, <2>2, <4>1 DEF Sound
      <4>2. ASSUME o \in s.solved \ solved PROVE \E n \in said : n.image /\ n.item.output = o
        BY <1>2, <2>2, <4>2 DEF Sound, Reported
      <4> QED BY <4>1, <4>2
    <3> HIDE DEF said
    <3>2. outputs'[o] = IF o \in s.solved \ solved THEN outputs[o] + 1 ELSE outputs[o]
      BY <1>3, <3>1
    <3>3. solved' = s.solved /\ unsaid' = unsaid
      BY <1>3, <2>2
    <3> QED BY <2>1, <3>2, <3>3
  <2>3. CASE ~announce
    <3>1. said = {}
      BY <2>3
    <3> HIDE DEF said
    <3>2. outputs'[o] = outputs[o]
      BY <1>3, <3>1
    <3>3. solved' = s.solved /\ unsaid' = unsaid \cup (s.solved \ solved)
      BY <1>3, <2>3
    <3> QED BY <2>1, <3>2, <3>3
  <2> QED BY <2>2, <2>3
<1>9. OutputsPostedOnce'
  BY <1>7, <1>8 DEF OutputsPostedOnce
<1> QED BY <1>5, <1>6, <1>7, <1>9 DEF OpsInv

\* Forgetting operations takes back no output and says nothing.
LEMMA QuietStep ==
  ASSUME OpsInv,
         (updates' = {} /\ actions' = {}) \/ UNCHANGED <<updates, actions, cameraTarget>>,
         UNCHANGED <<solved, outputs, unsaid>>, DOMAIN tracked' \subseteq DOMAIN tracked,
         \A p \in DOMAIN tracked' : tracked'[p] = tracked[p]
  PROVE  OpsInv'
<1>1. Outputs' = Outputs /\ AllKeys' = AllKeys
  BY DEF Outputs, Items, Readings, AllKeys
<1>2. TracksInv'
  BY <1>1 DEF OpsInv, TracksInv
<1>3. OutputsPostedOnce'
  BY <1>1 DEF OpsInv, OutputsPostedOnce
<1>4. UpdatesAreTrue'
  BY DEF OpsInv, UpdatesAreTrue
<1> QED BY <1>1, <1>2, <1>3, <1>4 DEF OpsInv

LEMMA OpsInit == SequenceOpsInit => OpsInv
<1> SUFFICES ASSUME SequenceOpsInit PROVE OpsInv
  OBVIOUS
<1>1. tracked = <<>> /\ solved = {} /\ updates = {} /\ actions = {} /\ unsaid = {}
      /\ outputs = [o \in Outputs |-> 0]
  BY DEF SequenceOpsInit
<1>2. DOMAIN tracked = {}
  BY <1>1
<1>3. TracksInv
  BY <1>2 DEF TracksInv
<1>4. outputs \in [Outputs -> Nat] /\ OutputsPostedOnce
  BY <1>1 DEF OutputsPostedOnce
<1>5. UpdatesAreTrue
  BY <1>1 DEF UpdatesAreTrue
<1> QED BY <1>1, <1>3, <1>4, <1>5 DEF OpsInv

LEMMA OpsStep == OpsInv /\ [SequenceOpsNext]_sequenceOpsVars => OpsInv'
<1> SUFFICES ASSUME OpsInv, [SequenceOpsNext]_sequenceOpsVars PROVE OpsInv'
  OBVIOUS
<1>1. \A snapshot \in Shown : snapshot \in Readings
  BY DEF Shown
<1>2. TRUE \in BOOLEAN /\ FALSE \in BOOLEAN
  OBVIOUS
<1>3. ASSUME NEW snapshot \in Shown, BaselineSequence(snapshot) PROVE OpsInv'
  <2>1. Reconcile(snapshot, FALSE, FALSE)
    BY <1>3, Zenon DEF BaselineSequence
  <2> QED BY <1>1, <1>2, <2>1, ReconcileStep, Zenon
<1>4. ASSUME NEW snapshot \in Shown, NEW forgetCenter \in BOOLEAN, PollSequence(snapshot, forgetCenter)
      PROVE  OpsInv'
  <2>1. Reconcile(snapshot, TRUE, forgetCenter)
    BY <1>4, Zenon DEF PollSequence
  <2> QED BY <1>1, <1>2, <2>1, ReconcileStep, Zenon
<1>5. CASE BaselineWithoutSequence \/ CenterEvent
  BY <1>5, QuietStep DEF BaselineWithoutSequence, CenterEvent, Untold
<1>6. ASSUME NEW kinds, Forget(kinds) PROVE OpsInv'
  <2>1. /\ updates' = {} /\ actions' = {} /\ UNCHANGED <<solved, outputs, unsaid>>
        /\ tracked' = [p \in {q \in DOMAIN tracked : tracked[q].item.kind \notin kinds} |-> tracked[p]]
    BY <1>6 DEF Forget, Untold
  <2> QED BY <2>1, QuietStep
<1>7. CASE RevokeMount \/ RevokeSequence \/ RevokeSafety
  BY <1>6, <1>7 DEF RevokeMount, RevokeSequence, RevokeSafety
<1>8. CASE UNCHANGED sequenceOpsVars
  BY <1>8, QuietStep DEF sequenceOpsVars
<1> QED BY <1>3, <1>4, <1>5, <1>7, <1>8 DEF SequenceOpsNext

\* For any sequences, however deep and whatever they show: a plate-solve output
\* is posted at most once, and only what was posted or shown to a baseline is
\* used up.
THEOREM OutputsHold == SequenceOpsSpec => []OutputsPostedOnce
<1>1. OpsInv => OutputsPostedOnce
  BY DEF OpsInv
<1> QED BY <1>1, OpsInit, OpsStep, PTL DEF SequenceOpsSpec

\* For any sequences: no update speaks of an operation other than the one that
\* was opened at its path, and no camera is told of a target that is not the
\* current one, or was not when the operation began.
THEOREM UpdatesHold == SequenceOpsSpec => []UpdatesAreTrue
<1>1. OpsInv => UpdatesAreTrue
  BY DEF OpsInv
<1> QED BY <1>1, OpsInit, OpsStep, PTL DEF SequenceOpsSpec

---------------------------------------------------------------------------
\* The rate limiter.  Its list holds every fingerprint that still counts because
\* each of those has a token of its own (a slot): the accepted diagnostics of a
\* class can be numbered, from the latest on, such that a number's worth of tokens
\* and what the bucket has left fit in a full bucket and what it has gained since.

Accepted == [print : Prints, at : Nat]
ClassOf(entry) == Class[entry.print]

Numbered(k, list, b) ==
  /\ k \in [1..Len(list) -> Nat \ {0}]
  /\ \A i, j \in 1..Len(list) : i < j /\ ClassOf(list[i]) = ClassOf(list[j]) => k[j] < k[i]
  /\ \A i \in 1..Len(list) :
       LET c == ClassOf(list[i]) IN
       k[i] * Refill[c] + b[c].units <= Capacity[c] * Refill[c] + (b[c].at - list[i].at)

\* In the order in which they were accepted.
InTime(list, t) ==
  /\ \A i, j \in 1..Len(list) : i <= j => list[i].at <= list[j].at
  /\ \A i \in 1..Len(list) : list[i].at <= t

Buckets(b, t) ==
  /\ b \in [Classes -> [units : Nat, at : Nat]]
  /\ \A c \in Classes : b[c].units <= Capacity[c] * Refill[c] /\ b[c].at <= t

Remembers(list, when, t) ==
  \A f \in Prints : when[f] # NotAccepted /\ t - when[f] < RepeatInterval =>
    \E i \in 1..Len(list) : list[i].print = f /\ list[i].at = when[f]

RateInv ==
  /\ now \in Nat /\ fingerprints \in Seq(Accepted) /\ Len(fingerprints) <= MaxFingerprints
  /\ accepted \in [Prints -> Nat \cup {NotAccepted}]
  /\ Buckets(buckets, now) /\ InTime(fingerprints, now)
  /\ Remembers(fingerprints, accepted, now)
  /\ \E k : Numbered(k, fingerprints, buckets)

LEMMA TokensInTime ==
  ASSUME NEW k \in Nat, NEW capacity \in Nat, NEW interval \in Nat, NEW r \in Nat \ {0},
         k * r <= capacity * r + interval
  PROVE  k <= capacity + interval \div r
<1> DEFINE q == interval \div r
<1>1. q \in Nat /\ interval < q * r + r
  BY Z3
<1> HIDE DEF q
<1> SUFFICES ASSUME k >= capacity + q + 1 PROVE FALSE
  BY <1>1 DEF q
<1>2. k * r >= (capacity + q + 1) * r
  BY <1>1, Z3
<1>3. (capacity + q + 1) * r = capacity * r + q * r + r
  BY <1>1, Z3
<1>4. capacity * r \in Nat /\ q * r \in Nat /\ k * r \in Nat /\ (capacity + q + 1) * r \in Nat
  BY <1>1, Z3
<1> QED BY <1>1, <1>2, <1>3, <1>4

LEMMA SlotsAreFinite == IsFiniteSet(Slots)
<1> DEFINE F(c) == {c} \X (1..Capacity[c] + RepeatInterval \div Refill[c])
           T == {F(c) : c \in Classes}
           g == [c \in Classes |-> F(c)]
<1>1. \A c \in Classes : IsFiniteSet(F(c))
  <2> SUFFICES ASSUME NEW c \in Classes PROVE IsFiniteSet(F(c))
    OBVIOUS
  <2>1. Capacity[c] \in Nat /\ Refill[c] \in Nat \ {0} /\ RepeatInterval \in Nat
    BY RatesFit
  <2>2. RepeatInterval \div Refill[c] \in Int
    BY <2>1
  <2> DEFINE e == Capacity[c] + RepeatInterval \div Refill[c]
  <2>3. e \in Int /\ 1 \in Int
    BY <2>1, <2>2
  <2> HIDE DEF e
  <2>4. IsFiniteSet(1..e) /\ IsFiniteSet({c})
    BY <2>3, FS_Interval, FS_Singleton
  <2>5. IsFiniteSet({c} \X (1..e))
    BY <2>4, FS_Product
  <2> QED BY <2>5, Zenon DEF e
<1> HIDE DEF F
<1>2. g \in Surjection(Classes, T)
  BY DEF Surjection
<1>3. \A U \in T : IsFiniteSet(U)
  BY <1>1
<1> HIDE DEF g, T
<1>4. IsFiniteSet(T)
  BY <1>2, RatesFit, FS_Surjection
<1>5. IsFiniteSet(UNION T)
  BY <1>3, <1>4, FS_UNION
<1> QED BY <1>5 DEF T, F, Slots

LEMMA SlotsSuffice ==
  ASSUME NEW t \in Nat, NEW list \in Seq(Accepted), NEW b, NEW k, Buckets(b, t), Numbered(k, list, b),
         \A i \in 1..Len(list) : t - list[i].at < RepeatInterval
  PROVE  Len(list) <= Cardinality(Slots)
<1> DEFINE n == Len(list)
           g == [i \in 1..n |-> <<ClassOf(list[i]), k[i]>>]
<1>1. ASSUME NEW i \in 1..n
      PROVE  <<ClassOf(list[i]), k[i]>> \in Slots
  <2> DEFINE c == ClassOf(list[i])
             r == Refill[c]
             K == Capacity[c]
             at == list[i].at
             u == b[c].units
             bt == b[c].at
  <2>1. c \in Classes /\ at \in Nat /\ t - at < RepeatInterval
    <3>1. list[i] \in Accepted
      OBVIOUS
    <3> QED BY <3>1, RatesFit DEF Accepted, ClassOf
  <2>2. k[i] \in Nat \ {0} /\ k[i] * r + u <= K * r + (bt - at)
    BY DEF Numbered
  <2> HIDE DEF c
  <2>3. r \in Nat \ {0} /\ K \in Nat /\ RepeatInterval \in Nat
    BY <2>1, RatesFit
  <2>4. u \in Nat /\ bt \in Nat /\ bt <= t
    BY <2>1 DEF Buckets
  <2> HIDE DEF r, K, at, u, bt
  <2>5. k[i] * r \in Nat /\ K * r \in Nat
    BY <2>2, <2>3, Z3
  <2>6. k[i] * r <= K * r + RepeatInterval
    BY <2>1, <2>2, <2>3, <2>4, <2>5
  <2>7. k[i] <= K + RepeatInterval \div r
    BY <2>2, <2>3, <2>6, TokensInTime
  <2>8. RepeatInterval \div r \in Int
    BY <2>3
  <2>9. k[i] \in 1..K + RepeatInterval \div r
    BY <2>2, <2>3, <2>7, <2>8
  <2> QED BY <2>1, <2>9 DEF Slots, c, r, K
<1>2. g \in [1..n -> Slots]
  BY <1>1
<1>3. \A i, j \in 1..n : g[i] = g[j] => i = j
  <2> SUFFICES ASSUME NEW i \in 1..n, NEW j \in 1..n, g[i] = g[j], i < j PROVE FALSE
    OBVIOUS
  <2>1. ClassOf(list[i]) = ClassOf(list[j]) /\ k[i] = k[j]
    OBVIOUS
  <2>2. k[j] < k[i] /\ k[i] \in Nat
    BY <2>1 DEF Numbered
  <2> QED BY <2>1, <2>2
<1>4. g \in Injection(1..n, Slots)
  <2> HIDE DEF g
  <2> QED BY <1>2, <1>3 DEF Injection, IsInjective
<1>5. Cardinality(1..n) <= Cardinality(Slots)
  <2> HIDE DEF g
  <2> QED BY <1>4, SlotsAreFinite, FS_Injection
<1>6. Cardinality(1..n) = n
  <2>1. n \in Nat
    OBVIOUS
  <2> HIDE DEF n
  <2>2. Cardinality(1..n) = IF 1 > n THEN 0 ELSE n - 1 + 1
    BY <2>1, FS_Interval
  <2> QED BY <2>1, <2>2
<1> QED BY <1>5, <1>6

\* What is taken off the front of the list.
LEMMA PoppedFacts ==
  ASSUME fingerprints \in Seq(Accepted)
  PROVE  /\ Popped \in 0..Len(fingerprints) /\ \A i \in 1..Popped : Expired(i)
         /\ Popped < Len(fingerprints) => ~Expired(Popped + 1)
<1> DEFINE m == Len(fingerprints)
           P(n) == (\A i \in 1..n : Expired(i)) /\ (n < m => ~Expired(n + 1))
           T == {i \in 1..m : ~Expired(i)}
<1>0. m \in Nat
  OBVIOUS
<1>1. \E n \in 0..m : P(n)
  <2>1. CASE T = {}
    <3>1. P(m) /\ m \in 0..m
      BY <1>0, <2>1
    <3> HIDE DEF P
    <3> QED BY <3>1
  <2>2. CASE T # {}
    <3>1. T \subseteq Nat
      BY <1>0
    <3>2. PICK x \in T : \A y \in T : x <= y
      BY <2>2, <3>1, Least
    <3>3. x \in 1..m /\ ~Expired(x) /\ \A i \in 1..m : ~Expired(i) => x <= i
      BY <3>2
    <3> HIDE DEF T, m
    <3>4. x - 1 \in 0..m /\ x - 1 + 1 = x /\ \A i \in 1..(x - 1) : i \in 1..m /\ ~(x <= i)
      BY <1>0, <3>3
    <3>5. P(x - 1)
      BY <3>3, <3>4
    <3> HIDE DEF P
    <3> QED BY <3>4, <3>5
  <2> QED BY <2>1, <2>2
<1>2. Popped = CHOOSE n \in 0..m : P(n)
  BY DEF Popped
<1> HIDE DEF P
<1>3. Popped \in 0..m /\ P(Popped)
  BY <1>1, <1>2
<1> QED BY <1>3 DEF P

LEMMA RecentFacts ==
  ASSUME RateInv
  PROVE  /\ Recent \in Seq(Accepted) /\ Len(Recent) <= Len(fingerprints)
         /\ \A i \in 1..Len(Recent) : now - Recent[i].at < RepeatInterval
         /\ InTime(Recent, now) /\ Remembers(Recent, accepted, now)
         /\ \E k : Numbered(k, Recent, buckets)
<1> DEFINE fp == fingerprints
           r == Recent
           n == Popped
           m == Len(fp)
<1>1. /\ fp \in Seq(Accepted) /\ m \in Nat /\ n \in 0..m /\ now \in Nat
      /\ \A i \in 1..n : Expired(i)
      /\ n < m => ~Expired(n + 1)
  BY PoppedFacts DEF RateInv
<1>2. /\ r \in Seq(Accepted) /\ Len(r) = m - n /\ \A i \in 1..(m - n) : r[i] = fp[n + i]
  BY <1>1 DEF Recent
<1>3. \A i \in 1..m : fp[i].at \in Nat /\ fp[i].print \in Prints
  <2>1. \A x \in Accepted : x.at \in Nat /\ x.print \in Prints
    BY DEF Accepted
  <2>2. fp \in Seq(Accepted)
    BY <1>1
  <2> HIDE DEF fp
  <2> QED BY <2>1, <2>2
<1>4. \A i, j \in 1..m : i <= j => fp[i].at <= fp[j].at
  BY DEF RateInv, InTime
<1>5. \A i \in 1..m : fp[i].at <= now
  BY DEF RateInv, InTime
<1>6. RepeatInterval \in Nat
  BY RatesFit
<1>7. \A i \in 1..m : Expired(i) <=> now - fp[i].at >= RepeatInterval
  BY DEF Expired
<1> HIDE DEF r, n, m, fp
<1>8. \A i \in 1..(m - n) : n + i \in 1..m
  BY <1>1
<1>9. ASSUME NEW i \in 1..(m - n) PROVE now - r[i].at < RepeatInterval
  <2>1. n + 1 \in 1..m /\ n < m /\ n + 1 <= n + i /\ n + i \in 1..m
    BY <1>1
  <2>2. now - fp[n + 1].at < RepeatInterval
    BY <1>1, <1>3, <1>6, <1>7, <2>1
  <2>3. fp[n + 1].at <= fp[n + i].at
    BY <1>4, <2>1
  <2>4. /\ now \in Int /\ RepeatInterval \in Int
        /\ fp[n + 1].at \in Int /\ fp[n + i].at \in Int
    BY <1>1, <1>3, <1>6, <2>1
  <2>5. now - fp[n + i].at < RepeatInterval
    BY <2>2, <2>3, <2>4
  <2>6. r[i] = fp[n + i]
    BY <1>2
  <2> QED BY <2>5, <2>6, Zenon
<1>10. InTime(r, now)
  <2>1. \A i, j \in 1..(m - n) : i <= j => n + i <= n + j
    BY <1>1
  <2> QED BY <1>2, <1>4, <1>5, <1>8, <2>1 DEF InTime
<1>11. Remembers(r, accepted, now)
  <2> SUFFICES ASSUME NEW f \in Prints, accepted[f] # NotAccepted, now - accepted[f] < RepeatInterval
               PROVE  \E i \in 1..Len(r) : r[i].print = f /\ r[i].at = accepted[f]
    BY DEF Remembers
  <2>1. PICK j \in 1..m : fp[j].print = f /\ fp[j].at = accepted[f]
    BY DEF RateInv, Remembers, fp, m
  <2>2. ~Expired(j)
    BY <1>1, <1>3, <1>6, <1>7, <2>1
  <2>3. j - n \in 1..(m - n) /\ n + (j - n) = j
    BY <1>1, <2>2
  <2> QED BY <1>2, <2>1, <2>3
<1>12. \E k : Numbered(k, r, buckets)
  <2>1. PICK k : Numbered(k, fp, buckets)
    BY DEF RateInv, fp
  <2> DEFINE l == [i \in 1..(m - n) |-> k[n + i]]
  <2>2. /\ k \in [1..m -> Nat \ {0}]
        /\ \A i, j \in 1..m : i < j /\ ClassOf(fp[i]) = ClassOf(fp[j]) => k[j] < k[i]
        /\ \A i \in 1..m :
             LET c == ClassOf(fp[i]) IN
             k[i] * Refill[c] + buckets[c].units
               <= Capacity[c] * Refill[c] + (buckets[c].at - fp[i].at)
    BY <2>1 DEF Numbered, m
  <2>3. l \in [1..(m - n) -> Nat \ {0}] /\ \A i \in 1..(m - n) : l[i] = k[n + i]
    BY <1>8, <2>2
  <2> HIDE DEF l
  <2>4. \A i, j \in 1..(m - n) : i < j /\ ClassOf(r[i]) = ClassOf(r[j]) => l[j] < l[i]
    <3>1. \A i, j \in 1..(m - n) : i < j => n + i < n + j
      BY <1>1
    <3> QED BY <1>2, <1>8, <2>2, <2>3, <3>1
  <2>5. \A i \in 1..(m - n) :
          LET c == ClassOf(r[i]) IN
          l[i] * Refill[c] + buckets[c].units
            <= Capacity[c] * Refill[c] + (buckets[c].at - r[i].at)
    BY <1>2, <1>8, <2>2, <2>3, Zenon
  <2>6. Numbered(l, r, buckets)
    BY <1>2, <2>3, <2>4, <2>5, Zenon DEF Numbered
  <2> QED BY <2>6
<1> QED BY <1>1, <1>2, <1>9, <1>10, <1>11, <1>12 DEF r, m, fp

LEMMA GainsAdd ==
  ASSUME NEW x \in Int, NEW capacity \in Int, NEW held \in Int, NEW units \in Int,
         NEW from \in Int, NEW at \in Int, NEW t \in Int,
         x + held <= capacity + (from - at), units <= held + (t - from)
  PROVE  x + units <= capacity + (t - at)
OBVIOUS

\* What a bucket holds by now is no more than it held and what it has gained.
LEMMA RefilledFacts ==
  ASSUME RateInv, NEW c \in Classes
  PROVE  /\ buckets[c].units \in Nat /\ buckets[c].at \in Nat /\ buckets[c].at <= now
         /\ Refilled(c) \in Nat /\ Refilled(c) <= buckets[c].units + (now - buckets[c].at)
         /\ Refilled(c) <= Capacity[c] * Refill[c] /\ Capacity[c] * Refill[c] \in Nat
         /\ Refill[c] \in Nat \ {0} /\ now \in Nat
<1>1. now \in Nat /\ buckets[c].units \in Nat /\ buckets[c].at \in Nat /\ buckets[c].at <= now
  <2>1. now \in Nat /\ buckets[c] \in [units : Nat, at : Nat] /\ buckets[c].at <= now
    BY DEF RateInv, Buckets
  <2> QED BY <2>1
<1>2. Capacity[c] \in Nat /\ Refill[c] \in Nat \ {0}
  BY RatesFit
<1>3. Capacity[c] * Refill[c] \in Nat
  BY <1>2
<1> DEFINE K == Capacity[c] * Refill[c]
<1>4. Refilled(c) = IF buckets[c].units + (now - buckets[c].at) > K THEN K
                    ELSE buckets[c].units + (now - buckets[c].at)
  BY DEF Refilled
<1>5. K \in Nat
  BY <1>3
<1> HIDE DEF K
<1>6. /\ Refilled(c) \in Nat /\ Refilled(c) <= buckets[c].units + (now - buckets[c].at)
      /\ Refilled(c) <= K
  BY <1>1, <1>4, <1>5
<1> QED BY <1>1, <1>2, <1>3, <1>6 DEF K

\* A bucket that takes no more than it holds by now keeps the numbers true.
LEMMA Reckoned ==
  ASSUME RateInv, NEW c \in Classes, NEW u \in Nat, u <= Refilled(c)
  PROVE  LET b == [buckets EXCEPT ![c] = [units |-> u, at |-> now]] IN
         /\ Buckets(b, now)
         /\ b[c].units = u /\ b[c].at = now /\ \A d \in Classes \ {c} : b[d] = buckets[d]
<1> DEFINE e == [units |-> u, at |-> now]
           b == [buckets EXCEPT ![c] = e]
<1>1. /\ Refilled(c) \in Nat /\ now \in Nat
      /\ Refilled(c) <= Capacity[c] * Refill[c] /\ Capacity[c] * Refill[c] \in Nat
  BY RefilledFacts
<1>2. e \in [units : Nat, at : Nat] /\ e.units = u /\ e.at = now
  BY <1>1
<1> HIDE DEF e
<1>3. /\ buckets \in [Classes -> [units : Nat, at : Nat]]
      /\ \A d \in Classes : buckets[d].units <= Capacity[d] * Refill[d] /\ buckets[d].at <= now
  BY DEF RateInv, Buckets
<1>4. /\ b \in [Classes -> [units : Nat, at : Nat]]
      /\ b[c] = e /\ \A d \in Classes \ {c} : b[d] = buckets[d]
  BY <1>2, <1>3
<1> HIDE DEF b
<1>5. u <= Capacity[c] * Refill[c]
  <2> DEFINE K == Capacity[c] * Refill[c]
  <2>1. K \in Nat /\ Refilled(c) <= K
    BY <1>1
  <2> HIDE DEF K
  <2>2. u <= K
    BY <1>1, <2>1
  <2> QED BY <2>2 DEF K
<1>6. \A d \in Classes : b[d].units <= Capacity[d] * Refill[d] /\ b[d].at <= now
  <2>1. b[c].units <= Capacity[c] * Refill[c] /\ b[c].at <= now
    BY <1>1, <1>2, <1>4, <1>5
  <2> QED BY <1>3, <1>4, <2>1
<1>7. Buckets(b, now)
  BY <1>4, <1>6, Zenon DEF Buckets
<1>8. b[c].units = u /\ b[c].at = now
  BY <1>2, <1>4
<1> QED BY <1>4, <1>7, <1>8 DEF b, e

LEMMA ExcessNumbered ==
  ASSUME RateInv, NEW c \in Classes, NEW k, Numbered(k, Recent, buckets)
  PROVE  Numbered(k, Recent, [buckets EXCEPT ![c] = [units |-> Refilled(c), at |-> now]])
<1> DEFINE b == [buckets EXCEPT ![c] = [units |-> Refilled(c), at |-> now]]
           r == Recent
<1>1. /\ buckets[c].units \in Nat /\ buckets[c].at \in Nat /\ now \in Nat /\ Refilled(c) \in Nat
      /\ Refilled(c) <= buckets[c].units + (now - buckets[c].at)
      /\ Capacity[c] * Refill[c] \in Nat /\ Refill[c] \in Nat \ {0}
  BY RefilledFacts
<1>2. /\ b[c].units = Refilled(c) /\ b[c].at = now /\ \A d \in Classes \ {c} : b[d] = buckets[d]
  <2> DEFINE u == Refilled(c)
  <2>1. u \in Nat /\ u <= u /\ u <= Refilled(c)
    BY <1>1
  <2> HIDE DEF u
  <2>2. LET e == [buckets EXCEPT ![c] = [units |-> u, at |-> now]] IN
        e[c].units = u /\ e[c].at = now /\ \A d \in Classes \ {c} : e[d] = buckets[d]
    BY <2>1, Reckoned
  <2> QED BY <2>2 DEF u
<1> HIDE DEF b
<1>3. \A i \in 1..Len(r) : ClassOf(r[i]) \in Classes /\ r[i].at \in Nat
  <2>1. \A x \in Accepted : ClassOf(x) \in Classes /\ x.at \in Nat
    BY RatesFit DEF Accepted, ClassOf
  <2>2. r \in Seq(Accepted)
    BY RecentFacts
  <2> HIDE DEF r
  <2> QED BY <2>1, <2>2
<1> HIDE DEF r
<1>4. ASSUME NEW i \in 1..Len(r)
      PROVE  LET d == ClassOf(r[i]) IN
             k[i] * Refill[d] + b[d].units <= Capacity[d] * Refill[d] + (b[d].at - r[i].at)
  <2>1. LET d == ClassOf(r[i]) IN
        k[i] * Refill[d] + buckets[d].units <= Capacity[d] * Refill[d] + (buckets[d].at - r[i].at)
    BY Zenon DEF Numbered, r
  <2>2. k[i] \in Nat /\ r[i].at \in Nat /\ ClassOf(r[i]) \in Classes
    BY <1>3 DEF Numbered, r
  <2>3. CASE ClassOf(r[i]) = c
    <3> DEFINE x == k[i] * Refill[c]
               K == Capacity[c] * Refill[c]
    <3>1. x \in Nat /\ K \in Nat
      BY <1>1, <2>2
    <3>2. x + buckets[c].units <= K + (buckets[c].at - r[i].at)
      BY <2>1, <2>3
    <3> HIDE DEF x, K
    <3> HIDE DEF b
    <3>3. /\ x \in Int /\ K \in Int /\ buckets[c].units \in Int /\ Refilled(c) \in Int
          /\ buckets[c].at \in Int /\ r[i].at \in Int /\ now \in Int
      BY <1>1, <2>2, <3>1
    <3>4. x + Refilled(c) <= K + (now - r[i].at)
      BY <1>1, <3>2, <3>3, GainsAdd, Zenon
    <3>5. x + b[c].units <= K + (b[c].at - r[i].at)
      BY <1>2, <3>4, Zenon
    <3> QED BY <2>3, <3>5 DEF x, K
  <2>4. CASE ClassOf(r[i]) # c
    BY <1>2, <2>1, <2>2, <2>4
  <2> QED BY <2>3, <2>4
<1>5. Numbered(k, r, b)
  <2>1. /\ k \in [1..Len(r) -> Nat \ {0}]
        /\ \A i, j \in 1..Len(r) : i < j /\ ClassOf(r[i]) = ClassOf(r[j]) => k[j] < k[i]
    BY Zenon DEF Numbered, r
  <2> QED BY <1>4, <2>1, Zenon DEF Numbered
<1> QED BY <1>5 DEF b, r

\* One more of a class: the others move up by one.
LEMMA AllowNumbered ==
  ASSUME RateInv, NEW f \in Prints, Grants(Class[f])
  PROVE  LET c == Class[f]
             b == [buckets EXCEPT ![c] = [units |-> Refilled(c) - Refill[c], at |-> now]]
             list == Append(Recent, [print |-> f, at |-> now])
         IN  Buckets(b, now) /\ \E k : Numbered(k, list, b)
<1> DEFINE c == Class[f]
           u == Refilled(c) - Refill[c]
           b == [buckets EXCEPT ![c] = [units |-> u, at |-> now]]
           r == Recent
           n == Len(r)
           entry == [print |-> f, at |-> now]
           list == Append(r, entry)
<1>0. c \in Classes
  BY RatesFit
<1>1. /\ buckets[c].units \in Nat /\ buckets[c].at \in Nat /\ now \in Nat /\ Refilled(c) \in Nat
      /\ Refilled(c) <= buckets[c].units + (now - buckets[c].at) /\ Refilled(c) <= Capacity[c] * Refill[c]
      /\ Capacity[c] * Refill[c] \in Nat /\ Refill[c] \in Nat \ {0} /\ Refilled(c) >= Refill[c]
  BY <1>0, RefilledFacts DEF Grants
<1>2. u \in Nat /\ u <= Refilled(c)
  <2> HIDE DEF c
  <2> QED BY <1>1
<1>3. /\ Buckets(b, now)
      /\ b[c].units = u /\ b[c].at = now /\ \A d \in Classes \ {c} : b[d] = buckets[d]
  <2> HIDE DEF c, u
  <2> QED BY <1>0, <1>2, Reckoned
<1>4. r \in Seq(Accepted) /\ n \in Nat /\ \A i \in 1..n : ClassOf(r[i]) \in Classes /\ r[i].at \in Nat
  <2>1. \A x \in Accepted : ClassOf(x) \in Classes /\ x.at \in Nat
    BY RatesFit DEF Accepted, ClassOf
  <2>2. r \in Seq(Accepted)
    BY RecentFacts
  <2> HIDE DEF r
  <2> QED BY <2>1, <2>2
<1>5. entry \in Accepted /\ entry.at = now /\ ClassOf(entry) = c
  BY <1>1 DEF Accepted, ClassOf
<1>6. PICK k : Numbered(k, r, buckets)
  BY RecentFacts
<1> HIDE DEF b, r, entry
<1>7. /\ list \in Seq(Accepted) /\ Len(list) = n + 1 /\ list[n + 1] = entry
      /\ \A i \in 1..n : list[i] = r[i]
  BY <1>4, <1>5
<1> HIDE DEF list
<1> DEFINE l == [i \in 1..(n + 1) |-> IF i = n + 1 THEN 1
                                       ELSE IF ClassOf(r[i]) = c THEN k[i] + 1 ELSE k[i]]
<1>8. /\ k \in [1..n -> Nat \ {0}]
      /\ \A i, j \in 1..n : i < j /\ ClassOf(r[i]) = ClassOf(r[j]) => k[j] < k[i]
  BY <1>6, Zenon DEF Numbered
<1> HIDE DEF n, c, u
<1>9. /\ l \in [1..(n + 1) -> Nat \ {0}] /\ l[n + 1] = 1
      /\ \A i \in 1..n : l[i] = IF ClassOf(r[i]) = c THEN k[i] + 1 ELSE k[i]
  <2>1. \A i \in 1..(n + 1) : i \in 1..n \/ i = n + 1
    BY <1>4
  <2>2. \A i \in 1..n : i \in 1..(n + 1) /\ i # n + 1
    BY <1>4
  <2>3. n + 1 \in 1..(n + 1)
    BY <1>4
  <2> QED BY <1>8, <2>1, <2>2, <2>3
<1> HIDE DEF l
<1>10. ASSUME NEW i \in 1..(n + 1), NEW j \in 1..(n + 1), i < j, ClassOf(list[i]) = ClassOf(list[j])
       PROVE  l[j] < l[i]
  <2>1. i \in 1..n
    BY <1>4, <1>10
  <2>2. CASE j = n + 1
    <3>1. ClassOf(r[i]) = c
      BY <1>5, <1>7, <1>10, <2>1, <2>2
    <3> QED BY <1>8, <1>9, <2>1, <2>2, <3>1
  <2>3. CASE j # n + 1
    <3>1. j \in 1..n
      BY <1>4, <2>3
    <3> QED BY <1>7, <1>8, <1>9, <1>10, <2>1, <3>1
  <2> QED BY <2>2, <2>3
<1>11. ASSUME NEW i \in 1..(n + 1)
       PROVE  LET d == ClassOf(list[i]) IN
              l[i] * Refill[d] + b[d].units <= Capacity[d] * Refill[d] + (b[d].at - list[i].at)
  <2> DEFINE R == Refill[c]
             K == Capacity[c] * Refill[c]
  <2>0. R \in Nat \ {0} /\ K \in Nat /\ Refilled(c) <= K /\ Refilled(c) \in Nat /\ u = Refilled(c) - R
    BY <1>1 DEF u
  <2>1. CASE i = n + 1
    <3>1. list[i] = entry /\ l[i] = 1
      BY <1>7, <1>9, <2>1
    <3> HIDE DEF R, K
    <3>2. 1 * R + b[c].units <= K + (b[c].at - entry.at)
      BY <1>1, <1>3, <1>5, <2>0
    <3> QED BY <1>5, <3>1, <3>2 DEF R, K
  <2>2. CASE i # n + 1
    <3>1. i \in 1..n /\ list[i] = r[i]
      BY <1>4, <1>7, <2>2
    <3>2. LET d == ClassOf(r[i]) IN
          k[i] * Refill[d] + buckets[d].units <= Capacity[d] * Refill[d] + (buckets[d].at - r[i].at)
      BY <1>6, <3>1, Zenon DEF Numbered, n
    <3>3. CASE ClassOf(r[i]) = c
      <4> DEFINE x == k[i] * R
      <4>1. k[i] \in Nat
        BY <1>8, <3>1
      <4>2. x \in Nat /\ l[i] = k[i] + 1
        <5> HIDE DEF R
        <5> QED BY <1>9, <2>0, <3>1, <3>3, <4>1
      <4>3. (k[i] + 1) * R = x + R
        <5> HIDE DEF R
        <5> QED BY <2>0, <4>1
      <4>4. x + buckets[c].units <= K + (buckets[c].at - r[i].at)
        BY <3>2, <3>3
      <4> HIDE DEF x, R, K
      <4>5. r[i].at \in Nat /\ buckets[c].units \in Nat /\ b[c].units \in Nat /\ b[c].at \in Nat
        BY <1>1, <1>2, <1>3, <1>4, <3>1
      <4>6. /\ x \in Int /\ K \in Int /\ buckets[c].units \in Int /\ Refilled(c) \in Int
            /\ buckets[c].at \in Int /\ r[i].at \in Int /\ now \in Int
        BY <1>1, <2>0, <4>2, <4>5
      <4>7. x + Refilled(c) <= K + (now - r[i].at)
        BY <1>1, <4>4, <4>6, GainsAdd, Zenon
      <4>8. x + R + b[c].units <= K + (b[c].at - r[i].at)
        BY <1>1, <1>3, <2>0, <4>2, <4>5, <4>7
      <4>9. l[i] * R + b[c].units <= K + (b[c].at - r[i].at)
        BY <4>2, <4>3, <4>8
      <4> QED BY <3>1, <3>3, <4>9 DEF R, K
    <3>4. CASE ClassOf(r[i]) # c
      <4>1. b[ClassOf(r[i])] = buckets[ClassOf(r[i])] /\ l[i] = k[i]
        BY <1>3, <1>4, <1>9, <3>1, <3>4
      <4> QED BY <3>1, <3>2, <4>1, Zenon
    <3> QED BY <3>3, <3>4
  <2> QED BY <2>1, <2>2
<1>12. Numbered(l, list, b)
  BY <1>7, <1>9, <1>10, <1>11, Zenon DEF Numbered
<1> QED BY <1>3, <1>12, Zenon DEF b, list, entry, r, c, u

LEMMA RoomFacts ==
  ASSUME RateInv, NEW f \in Prints, Grants(Class[f])
  PROVE  LET list == Append(Recent, [print |-> f, at |-> now]) IN
         /\ list \in Seq(Accepted) /\ InTime(list, now)
         /\ Len(list) <= MaxFingerprints /\ Len(Recent) # MaxFingerprints
<1> DEFINE c == Class[f]
           b == [buckets EXCEPT ![c] = [units |-> Refilled(c) - Refill[c], at |-> now]]
           r == Recent
           n == Len(r)
           entry == [print |-> f, at |-> now]
           list == Append(r, entry)
<1>1. now \in Nat /\ RepeatInterval \in Nat \ {0} /\ MaxFingerprints \in Nat
  BY RatesFit DEF RateInv
<1>2. /\ r \in Seq(Accepted) /\ n \in Nat /\ InTime(r, now)
      /\ \A i \in 1..n : now - r[i].at < RepeatInterval
  BY RecentFacts
<1>3. entry \in Accepted /\ entry.at = now
  BY <1>1 DEF Accepted
<1>4. Buckets(b, now) /\ \E k : Numbered(k, list, b)
  BY AllowNumbered, Zenon
<1> HIDE DEF r, entry, b
<1>5. /\ list \in Seq(Accepted) /\ Len(list) = n + 1 /\ list[n + 1] = entry
      /\ \A i \in 1..n : list[i] = r[i]
  BY <1>2, <1>3
<1> HIDE DEF list
<1>6. \A i \in 1..(n + 1) : i \in 1..n \/ i = n + 1
  BY <1>2
<1>7. /\ \A i, j \in 1..n : i <= j => r[i].at <= r[j].at
      /\ \A i \in 1..n : r[i].at <= now
  BY <1>2 DEF InTime
<1> HIDE DEF n
<1>8. \A i \in 1..(n + 1) : now - list[i].at < RepeatInterval
  BY <1>1, <1>2, <1>3, <1>5, <1>6
<1>9. InTime(list, now)
  <2>1. \A i \in 1..(n + 1) : list[i].at <= now
    BY <1>1, <1>3, <1>5, <1>6, <1>7
  <2>2. ASSUME NEW i \in 1..(n + 1), NEW j \in 1..(n + 1), i <= j
        PROVE  list[i].at <= list[j].at
    <3>1. CASE j = n + 1
      BY <1>3, <1>5, <2>1, <3>1
    <3>2. CASE j # n + 1
      <4>1. j \in 1..n /\ i \in 1..n
        BY <1>2, <2>2, <3>2
      <4> QED BY <1>5, <1>7, <2>2, <4>1
    <3> QED BY <3>1, <3>2
  <2> QED BY <1>5, <2>1, <2>2 DEF InTime
<1>10. PICK k : Numbered(k, list, b)
  BY <1>4
<1>11. Len(list) <= Cardinality(Slots)
  BY <1>1, <1>4, <1>5, <1>8, <1>10, SlotsSuffice
<1>12. Cardinality(Slots) \in Nat
  BY SlotsAreFinite, FS_CardinalityType
<1>13. Len(list) <= MaxFingerprints /\ n # MaxFingerprints
  BY <1>1, <1>2, <1>5, <1>11, <1>12, FingerprintsFit
<1> QED BY <1>5, <1>9, <1>13, Zenon DEF n, r, list, entry

LEMMA RateInitially == RateInit => RateInv
<1> SUFFICES ASSUME RateInit PROVE RateInv
  OBVIOUS
<1>1. now \in Nat /\ now = 0 /\ fingerprints = <<>> /\ fingerprints \in Seq(Accepted) /\ Len(fingerprints) = 0
  BY DEF RateInit
<1>2. accepted \in [Prints -> Nat \cup {NotAccepted}] /\ \A f \in Prints : accepted[f] = NotAccepted
  BY DEF RateInit
<1>3. \A c \in Classes : Capacity[c] * Refill[c] \in Nat
  BY RatesFit
<1>4. Buckets(buckets, now)
  <2> DEFINE K(c) == Capacity[c] * Refill[c]
  <2>1. buckets = [c \in Classes |-> [units |-> K(c), at |-> 0]] /\ \A c \in Classes : K(c) \in Nat
    BY <1>3 DEF RateInit
  <2> HIDE DEF K
  <2>2. /\ buckets \in [Classes -> [units : Nat, at : Nat]]
        /\ \A c \in Classes : buckets[c].units <= K(c) /\ buckets[c].at <= now
    BY <1>1, <2>1
  <2> QED BY <2>2, Zenon DEF Buckets, K
<1>5. InTime(fingerprints, now) /\ Remembers(fingerprints, accepted, now)
  BY <1>1, <1>2 DEF InTime, Remembers
<1>6. Numbered(<<>>, fingerprints, buckets)
  BY <1>1 DEF Numbered
<1> QED BY <1>1, <1>2, <1>4, <1>5, <1>6, RatesFit DEF RateInv

\* What is not yet of the last interval now is not of the last interval later.
LEMMA RateElapses == RateInv /\ RateElapse => RateInv'
<1> SUFFICES ASSUME RateInv, RateElapse PROVE RateInv'
  OBVIOUS
<1>1. /\ now \in Nat /\ now' = now + 1 /\ UNCHANGED <<buckets, fingerprints, accepted>>
      /\ fingerprints \in Seq(Accepted) /\ accepted \in [Prints -> Nat \cup {NotAccepted}]
  BY DEF RateInv, RateElapse
<1>2. Buckets(buckets, now')
  BY <1>1, RatesFit DEF RateInv, Buckets
<1>3. InTime(fingerprints, now')
  <2>1. \A i \in 1..Len(fingerprints) : fingerprints[i].at \in Nat /\ fingerprints[i].at <= now
    <3>1. \A x \in Accepted : x.at \in Nat
      BY DEF Accepted
    <3> QED BY <1>1, <3>1 DEF RateInv, InTime
  <2> QED BY <1>1, <2>1 DEF RateInv, InTime
<1>4. Remembers(fingerprints, accepted, now')
  <2> SUFFICES ASSUME NEW f \in Prints, accepted[f] # NotAccepted, now' - accepted[f] < RepeatInterval
               PROVE  now - accepted[f] < RepeatInterval
    BY DEF RateInv, Remembers
  <2> QED BY <1>1, RatesFit
<1> QED BY <1>1, <1>2, <1>3, <1>4 DEF RateInv

LEMMA RepeatsDropped ==
  ASSUME RateInv, NEW f \in Prints, DropRepeat(f) PROVE RateInv'
<1>1. /\ fingerprints' = Recent /\ UNCHANGED <<now, buckets, accepted>>
  BY DEF DropRepeat
<1>2. /\ Recent \in Seq(Accepted) /\ Len(Recent) <= Len(fingerprints) /\ InTime(Recent, now)
      /\ Remembers(Recent, accepted, now) /\ \E k : Numbered(k, Recent, buckets)
  BY RecentFacts
<1>3. Len(Recent) <= MaxFingerprints
  BY <1>2, RatesFit DEF RateInv
<1> QED BY <1>1, <1>2, <1>3 DEF RateInv

LEMMA ExcessDropped ==
  ASSUME RateInv, NEW f \in Prints, DropExcess(f) PROVE RateInv'
<1> DEFINE c == Class[f]
           u == Refilled(c)
           b == [buckets EXCEPT ![c] = [units |-> u, at |-> now]]
<1>1. /\ fingerprints' = Recent /\ buckets' = b /\ UNCHANGED <<now, accepted>>
  BY DEF DropExcess
<1>2. c \in Classes
  BY RatesFit
<1>3. /\ Recent \in Seq(Accepted) /\ Len(Recent) <= Len(fingerprints) /\ InTime(Recent, now)
      /\ Remembers(Recent, accepted, now)
  BY RecentFacts
<1>4. PICK k : Numbered(k, Recent, buckets)
  BY RecentFacts
<1>5. Numbered(k, Recent, b)
  <2> HIDE DEF c
  <2> QED BY <1>2, <1>4, ExcessNumbered
<1>6. Buckets(b, now)
  <2>1. u \in Nat /\ u <= Refilled(c)
    <3>1. Refilled(c) \in Nat
      BY <1>2, RefilledFacts
    <3> QED BY <3>1
  <2> HIDE DEF c, u
  <2> QED BY <1>2, <2>1, Reckoned
<1>7. Len(Recent) <= MaxFingerprints
  BY <1>3, RatesFit DEF RateInv
<1> HIDE DEF b
<1> QED BY <1>1, <1>3, <1>5, <1>6, <1>7 DEF RateInv

\* What is accepted is never forgotten while it counts: there is room for it.
LEMMA Allowed ==
  ASSUME RateInv, NEW f \in Prints, Allow(f) PROVE RateInv'
<1> DEFINE c == Class[f]
           b == [buckets EXCEPT ![c] = [units |-> Refilled(c) - Refill[c], at |-> now]]
           entry == [print |-> f, at |-> now]
           list == Append(Recent, entry)
<1>1. /\ list \in Seq(Accepted) /\ InTime(list, now)
      /\ Len(list) <= MaxFingerprints /\ Len(Recent) # MaxFingerprints
  BY RoomFacts, Zenon DEF Allow
<1>2. Buckets(b, now) /\ \E k : Numbered(k, list, b)
  BY AllowNumbered, Zenon DEF Allow
<1>3. /\ fingerprints' = list /\ buckets' = b /\ UNCHANGED now
      /\ accepted' = [accepted EXCEPT ![f] = now]
  BY <1>1, Zenon DEF Allow
<1>4. /\ Recent \in Seq(Accepted) /\ Remembers(Recent, accepted, now)
      /\ now \in Nat /\ accepted \in [Prints -> Nat \cup {NotAccepted}]
  BY RecentFacts DEF RateInv
<1>5. /\ accepted' \in [Prints -> Nat \cup {NotAccepted}]
      /\ accepted'[f] = now /\ \A g \in Prints \ {f} : accepted'[g] = accepted[g]
  BY <1>3, <1>4
<1>6. entry \in Accepted /\ entry.print = f /\ entry.at = now
  BY <1>4 DEF Accepted
<1> HIDE DEF entry, b
<1>7. /\ Len(list) = Len(Recent) + 1 /\ list[Len(Recent) + 1] = entry /\ Len(Recent) \in Nat
      /\ \A i \in 1..Len(Recent) : list[i] = Recent[i] /\ i \in 1..Len(list)
      /\ Len(Recent) + 1 \in 1..Len(list)
  BY <1>4, <1>6
<1> HIDE DEF list
<1>8. Remembers(list, accepted', now)
  <2> SUFFICES ASSUME NEW g \in Prints, accepted'[g] # NotAccepted, now - accepted'[g] < RepeatInterval
               PROVE  \E i \in 1..Len(list) : list[i].print = g /\ list[i].at = accepted'[g]
    BY Zenon DEF Remembers
  <2>1. CASE g = f
    BY <1>5, <1>6, <1>7, <2>1
  <2>2. CASE g # f
    <3>1. accepted'[g] = accepted[g]
      BY <1>5, <2>2
    <3>2. PICK i \in 1..Len(Recent) : Recent[i].print = g /\ Recent[i].at = accepted[g]
      BY <1>4, <3>1 DEF Remembers
    <3> QED BY <1>7, <3>1, <3>2
  <2> QED BY <2>1, <2>2
<1> QED BY <1>1, <1>2, <1>3, <1>4, <1>5, <1>8 DEF RateInv

LEMMA RateStep == RateInv /\ [RateNext]_rateVars => RateInv'
<1> SUFFICES ASSUME RateInv, [RateNext]_rateVars PROVE RateInv'
  OBVIOUS
<1>1. CASE RateElapse
  BY <1>1, RateElapses
<1>2. ASSUME NEW f \in Prints, DropRepeat(f) PROVE RateInv'
  BY <1>2, RepeatsDropped
<1>3. ASSUME NEW f \in Prints, DropExcess(f) PROVE RateInv'
  BY <1>3, ExcessDropped
<1>4. ASSUME NEW f \in Prints, Allow(f) PROVE RateInv'
  BY <1>4, Allowed
<1>5. CASE UNCHANGED rateVars
  BY <1>5 DEF rateVars, RateInv
<1> QED BY <1>1, <1>2, <1>3, <1>4, <1>5 DEF RateNext

LEMMA RepeatWaits ==
  ASSUME RateInv, [RateNext]_rateVars, NEW f \in Prints,
         accepted'[f] # accepted[f], accepted[f] # NotAccepted
  PROVE  accepted'[f] - accepted[f] >= RepeatInterval
<1>1. PICK g \in Prints : Allow(g)
  BY DEF RateNext, RateElapse, DropRepeat, DropExcess, rateVars
<1>2. accepted \in [Prints -> Nat \cup {NotAccepted}] /\ now \in Nat /\ RepeatInterval \in Nat
  BY RatesFit DEF RateInv
<1>3. accepted' = [accepted EXCEPT ![g] = now] /\ ~Repeated(g)
  BY <1>1 DEF Allow
<1>4. g = f /\ accepted'[f] = now
  BY <1>2, <1>3
<1>5. Remembers(Recent, accepted, now)
  BY RecentFacts
<1>6. ~(now - accepted[f] < RepeatInterval)
  BY <1>3, <1>4, <1>5 DEF Remembers, Repeated
<1> QED BY <1>2, <1>4, <1>6

\* However many other diagnostics come between, the bounded list of fingerprints
\* has not forgotten one that was accepted within the interval: the buckets never
\* grant more within an interval than there are slots, and the list has a place
\* for each, so EventRateLimiter::allow accepts a diagnostic once per interval.
THEOREM RepeatsHold == RateSpec => RepeatsSuppressed
<1>1. RateInv /\ [RateNext]_rateVars
        => [\A f \in Prints : accepted'[f] # accepted[f] /\ accepted[f] # NotAccepted
              => accepted'[f] - accepted[f] >= RepeatInterval]_rateVars
  BY RepeatWaits
<1> QED BY <1>1, RateInitially, RateStep, PTL DEF RateSpec, RepeatsSuppressed

---------------------------------------------------------------------------
\* What commands show.  An answer shows nothing of what is withheld when it is
\* given, and what is withheld only becomes less.  Between the two answers that
\* /target puts together its owner may switch something off and something else on
\* again: so the answer that it has already heard is part of the invariant (Heard).

LEMMA FactParts == \A of, what : Fact(of, what)[1] = of /\ Fact(of, what)[2] = what
BY DEF Fact

\* What chat_enabled_events keeps, no later event of its scope has switched off.
LEMMA EnabledFacts ==
  ASSUME NEW log, Len(log) \in Nat
  PROVE  \A k \in ChatEnabledEvents(log) :
           k \in 1..Len(log) /\ log[k].on
             /\ \A j \in k..Len(log) : ~log[j].on => Scope(log[k].kind) # Scope(log[j].kind)
<1> DEFINE n == Len(log)
           after(k, i) == k \in 1..i /\ log[k].on
             /\ \A j \in k..i : ~log[j].on => Scope(log[k].kind) # Scope(log[j].kind)
           g == CHOOSE h : Stepped(h, "visible", log, {}, n)
<1>1. Stepped(g, "visible", log, {}, n)
  <2>1. \E h : Stepped(h, "visible", log, {}, n)
    BY StepsHaveValues
  <2> QED BY <2>1
<1>2. g[0] = {} /\ \A i \in 1..n : g[i] = Step("visible", log, g[i - 1], i)
  BY <1>1, StepsRun, Zenon DEF Runs
<1>3. ChatEnabledEvents(log) = g[n]
  <2> DEFINE V(i, kept) ==
               IF log[i].on THEN kept \cup {i}
               ELSE {k \in kept : Scope(log[k].kind) # Scope(log[i].kind)}
  <2>1. \A i, kept : V(i, kept) = Step("visible", log, kept, i)
    BY DEF Step
  <2>2. ChatEnabledEvents(log) =
          (CHOOSE h : h = [i \in 0..n |-> IF i = 0 THEN {} ELSE V(i, h[i - 1])])[n]
    BY Zenon DEF ChatEnabledEvents
  <2> HIDE DEF V
  <2>3. \A h : h = [i \in 0..n |-> IF i = 0 THEN {} ELSE V(i, h[i - 1])]
                 <=> Stepped(h, "visible", log, {}, n)
    BY <2>1, Zenon DEF Stepped
  <2> QED BY <2>2, <2>3, Zenon
<1>4. \A i \in 1..n : \A kept :
        Step("visible", log, kept, i) =
          IF log[i].on THEN kept \cup {i}
          ELSE {k \in kept : Scope(log[k].kind) # Scope(log[i].kind)}
  BY DEF Step
<1> HIDE DEF g
<1> DEFINE S == {i \in 0..n : \A k \in g[i] : after(k, i)}
<1>5. 0 \in S
  BY <1>2
<1>6. \A i \in 0..n : i # n /\ i \in S => i + 1 \in S
  <2> SUFFICES ASSUME NEW i \in 0..n, i # n, \A k \in g[i] : after(k, i), NEW k \in g[i + 1]
               PROVE  after(k, i + 1)
    OBVIOUS
  <2>1. i + 1 \in 1..n /\ i + 1 - 1 = i
    OBVIOUS
  <2>2. g[i + 1] = Step("visible", log, g[i], i + 1)
    BY <1>2, <2>1
  <2>3. CASE log[i + 1].on
    <3>1. k \in g[i] \/ k = i + 1
      BY <1>4, <2>1, <2>2, <2>3
    <3>2. CASE k = i + 1
      BY <2>3, <3>2
    <3>3. CASE k \in g[i]
      <4>1. \A j \in k..(i + 1) : j \in k..i \/ j = i + 1
        BY <2>1, <3>3
      <4> QED BY <2>3, <3>3, <4>1
    <3> QED BY <3>1, <3>2, <3>3
  <2>4. CASE ~log[i + 1].on
    <3>1. k \in g[i] /\ Scope(log[k].kind) # Scope(log[i + 1].kind)
      BY <1>4, <2>1, <2>2, <2>4
    <3>2. \A j \in k..(i + 1) : j \in k..i \/ j = i + 1
      BY <2>1, <3>1
    <3> QED BY <3>1, <3>2
  <2> QED BY <2>3, <2>4
<1>7. n \in Nat
  OBVIOUS
<1> HIDE DEF S, n
<1>8. n \in S
  <2>1. \A i \in 0..n : i \in S
    BY <1>5, <1>6, <1>7, UpTo
  <2> QED BY <1>7, <2>1
<1> QED BY <1>3, <1>8 DEF S, n

LEMMA EnabledAreNotOff ==
  ASSUME NEW log, Len(log) \in Nat, NEW k \in ChatEnabledEvents(log)
  PROVE  k \in 1..Len(log) /\ ~SwitchedOff(log, k)
BY EnabledFacts DEF SwitchedOff

LEMMA FactsApart ==
  \A f, g, x, y : Fact(f, x) = Fact(g, y) => f = g /\ x = y
BY DEF Fact

\* What it takes for a fact to be withheld.
SharedNames(tree) == NamesOf(tree, KeysOf(tree) \ SuppressedKeys(tree))
Withholds(rig, by, of, what) ==
  \/ by = "sequence" /\ of = "node" /\ what \notin SharedNames(rig.tree)
  \/ by = "sequence" /\ of = "flip" /\ ~ShowsFlip(rig.tree)
  \/ by = "sequence" /\ of = "target" /\ ~Projection(rig.tree).on
  \/ /\ by = "events" /\ of = "target" /\ what # CurrentTarget(rig.tree)
     /\ \A i \in DOMAIN rig.log : rig.log[i].target = what => SwitchedOff(rig.log, i)
  \/ by = "events" /\ of = "event" /\ SwitchedOff(rig.log, what)
  \/ by = "images" /\ of = "frame" /\ \E j \in what..Len(rig.frames) : ~rig.frames[j]
  \/ by = "location" /\ of = "site" /\ rig.redacted

LEMMA WithheldFacts ==
  ASSUME NEW rig, NEW by \in Switches, NEW of, NEW what, Fact(of, what) \in WithheldNow(rig)[by]
  PROVE  Withholds(rig, by, of, what)
<1>1. CASE by = "sequence"
  <2>1. Fact(of, what) \in NodesWithheld(rig.tree) \cup TargetsWithheld(rig.tree)
    BY <1>1 DEF WithheldNow
  <2>2. CASE Fact(of, what) \in NodesWithheld(rig.tree)
    <3>1. \/ \E n : n \notin SharedNames(rig.tree) /\ Fact(of, what) = Fact("node", n)
          \/ ~ShowsFlip(rig.tree) /\ Fact(of, what) = Fact("flip", "time")
      BY <2>2 DEF NodesWithheld, SharedNames
    <3> QED BY <1>1, <3>1, FactsApart DEF Withholds
  <2>3. CASE Fact(of, what) \in TargetsWithheld(rig.tree)
    <3>1. \E t : ~Projection(rig.tree).on /\ Fact(of, what) = Fact("target", t)
      BY <2>3 DEF TargetsWithheld
    <3> QED BY <1>1, <3>1, FactsApart DEF Withholds
  <2> QED BY <2>1, <2>2, <2>3
<1>2. CASE by = "events"
  <2>1. \/ Fact(of, what) \in TargetsRevoked(rig.tree, rig.log)
        \/ \E i \in DOMAIN rig.log : SwitchedOff(rig.log, i) /\ Fact(of, what) = Fact("event", i)
    BY <1>2 DEF WithheldNow
  <2>2. CASE Fact(of, what) \in TargetsRevoked(rig.tree, rig.log)
    <3>1. \E t : /\ t # CurrentTarget(rig.tree) /\ Fact(of, what) = Fact("target", t)
                 /\ \A i \in DOMAIN rig.log : rig.log[i].target = t => SwitchedOff(rig.log, i)
      BY <2>2 DEF TargetsRevoked
    <3> QED BY <1>2, <3>1, FactsApart DEF Withholds
  <2>3. CASE \E i \in DOMAIN rig.log : SwitchedOff(rig.log, i) /\ Fact(of, what) = Fact("event", i)
    BY <1>2, <2>3, FactsApart DEF Withholds
  <2> QED BY <2>1, <2>2, <2>3
<1>3. CASE by = "images"
  <2>1. \E i \in DOMAIN rig.frames :
          (\E j \in i..Len(rig.frames) : ~rig.frames[j]) /\ Fact(of, what) = Fact("frame", i)
    BY <1>3 DEF WithheldNow
  <2> QED BY <1>3, <2>1, FactsApart DEF Withholds
<1>4. CASE by = "location"
  <2>1. rig.redacted /\ Fact(of, what) \in SiteFacts
    BY <1>4 DEF WithheldNow
  <2>2. \E s : Fact(of, what) = Fact("site", s)
    BY <2>1 DEF SiteFacts
  <2> QED BY <1>4, <2>1, <2>2, FactsApart DEF Withholds
<1> QED BY <1>1, <1>2, <1>3, <1>4 DEF Switches

\* None of the facts is withheld at the moment.
Free(facts, rig) == \A by \in Switches : facts \cap WithheldNow(rig)[by] = {}

LEMMA SequenceIsFree ==
  ASSUME NEW rig, NEW name PROVE Free(SequenceFacts(rig.tree, name), rig)
<1> DEFINE tree == rig.tree
<1>1. ASSUME NEW x \in SequenceFacts(tree, name)
      PROVE  \/ \E k \in KeysOf(tree) : NodeAt(tree, k).on /\ x = Fact("node", NodeAt(tree, k).name)
             \/ CurrentTarget(tree) # NoTarget /\ x = Fact("target", CurrentTarget(tree))
             \/ ShowsFlip(tree) /\ x = Fact("flip", "time")
  <2>1. \/ x \in OperationFacts(tree)
        \/ \E k \in Containers(tree) : x = Fact("node", NodeAt(tree, k).name)
        \/ CurrentTarget(tree) # NoTarget /\ x = Fact("target", CurrentTarget(tree))
        \/ ShowsFlip(tree) /\ x = Fact("flip", "time")
    BY DEF SequenceFacts
  <2>2. CASE x \in OperationFacts(tree)
    <3>1. PICK k \in DOMAIN Operations(tree) : x = Fact("node", Operations(tree)[k].name)
      BY <2>2 DEF OperationFacts, ActiveOperations
    <3>2. k \in KeysOf(tree) /\ NodeAt(tree, k).on /\ Operations(tree)[k] = Operation(NodeAt(tree, k))
      BY <3>1 DEF Operations
    <3>3. Operation(NodeAt(tree, k)).name = NodeAt(tree, k).name
      BY DEF Operation
    <3> QED BY <3>1, <3>2, <3>3
  <2>3. ASSUME NEW k \in Containers(tree) PROVE k \in KeysOf(tree) /\ NodeAt(tree, k).on
    BY <2>3 DEF Containers, Visible
  <2> QED BY <2>1, <2>2, <2>3
<1>2. ASSUME NEW by \in Switches, NEW k \in KeysOf(tree), NodeAt(tree, k).on,
             Fact("node", NodeAt(tree, k).name) \in WithheldNow(rig)[by]
      PROVE  FALSE
  <2>1. Withholds(rig, by, "node", NodeAt(tree, k).name)
    BY <1>2, WithheldFacts, Zenon
  <2>2. NodeAt(tree, k).name \in SharedNames(tree)
    BY <1>2 DEF SharedNames, NamesOf, SuppressedKeys
  <2> QED BY <1>2, <2>1, <2>2 DEF Withholds
<1>3. ASSUME NEW by \in Switches, CurrentTarget(tree) # NoTarget,
             Fact("target", CurrentTarget(tree)) \in WithheldNow(rig)[by]
      PROVE  FALSE
  <2>1. Withholds(rig, by, "target", CurrentTarget(tree))
    BY <1>3, WithheldFacts, Zenon
  <2> QED BY <1>3, <2>1 DEF Withholds, CurrentTarget
<1>4. ASSUME NEW by \in Switches, ShowsFlip(tree), Fact("flip", "time") \in WithheldNow(rig)[by]
      PROVE  FALSE
  <2>1. Withholds(rig, by, "flip", "time")
    BY <1>4, WithheldFacts, Zenon
  <2> QED BY <1>4, <2>1 DEF Withholds
<1> HIDE DEF tree
<1>5. ASSUME NEW by \in Switches, NEW x \in SequenceFacts(tree, name), x \in WithheldNow(rig)[by]
      PROVE  FALSE
  BY <1>1, <1>2, <1>3, <1>4, <1>5
<1> QED BY <1>5 DEF Free, tree

LEMMA EventsAreFree ==
  ASSUME NEW rig, Len(rig.log) \in Nat PROVE Free(EventFacts(rig.log), rig)
<1> SUFFICES ASSUME NEW by \in Switches, NEW i \in ChatEnabledEvents(rig.log),
                    Fact("event", i) \in WithheldNow(rig)[by]
             PROVE  FALSE
  BY DEF Free, EventFacts
<1>1. Withholds(rig, by, "event", i)
  BY WithheldFacts, Zenon
<1> QED BY <1>1, EnabledAreNotOff DEF Withholds

LEMMA ImageIsFree ==
  ASSUME NEW rig, rig.frames \in Seq(BOOLEAN), HasImage(rig.frames)
  PROVE  Free({Fact("frame", Len(rig.frames))}, rig)
<1> SUFFICES ASSUME NEW by \in Switches, Fact("frame", Len(rig.frames)) \in WithheldNow(rig)[by]
             PROVE  FALSE
  BY DEF Free
<1>1. Withholds(rig, by, "frame", Len(rig.frames))
  BY WithheldFacts, Zenon
<1>2. rig.frames[Len(rig.frames)] /\ Len(rig.frames) \in Nat
  BY DEF HasImage, Last
<1> QED BY <1>1, <1>2 DEF Withholds

LEMMA MountIsFree ==
  ASSUME NEW rig, NEW name PROVE Free(MountFacts(rig.redacted, name), rig)
<1> SUFFICES ASSUME NEW by \in Switches, NEW x \in MountFacts(rig.redacted, name),
                    x \in WithheldNow(rig)[by]
             PROVE  FALSE
  BY DEF Free
<1>1. ~rig.redacted /\ \E s : x = Fact("site", s)
  BY DEF MountFacts, SiteFacts
<1>2. PICK s : x = Fact("site", s)
  BY <1>1
<1>3. Withholds(rig, by, "site", s)
  BY <1>2, WithheldFacts, Zenon
<1> QED BY <1>1, <1>3 DEF Withholds

QueryFields == {"name", "step", "tree", "frame", "shown"}
RigFields == {"tree", "log", "frames", "redacted"}

\* What a command has heard, of which more is told with the next answer.
Heard ==
  /\ query.name = "target" /\ query.step = 2 =>
       /\ CurrentTarget(query.tree) # NoTarget =>
            \A by \in Switches : Fact("target", CurrentTarget(query.tree)) \notin withheld[by]
       /\ Projection(query.tree).on => \A t : Fact("target", t) \notin withheld["sequence"]
  /\ query.name = "lastImage" /\ query.step # 1 => Fact("frame", query.frame) \in query.shown

ViewsInv ==
  /\ DOMAIN query = QueryFields /\ DOMAIN nina = RigFields /\ query.step \in Nat \ {0}
  /\ nina.log \in Seq(ViewEvents) /\ nina.frames \in Seq(BOOLEAN)
  /\ \A by \in Switches : withheld[by] \subseteq WithheldNow(nina)[by]
  /\ query.name = "none" => query.shown = {}
  /\ NothingWithheldIsShown /\ Heard

LEMMA AskedFacts ==
  ASSUME NEW q, Asking(q), query.step \in Nat \ {0}
  PROVE  /\ query.name \notin {"none", "replied", "failed"}
         /\ query.name = "target" => (query.step = 1 <=> q = "sequence") /\ (query.step = 2 <=> q = "events")
         /\ query.name = "lastImage" => (query.step = 1 <=> q = "images")
         /\ q \in {"images", "thumbnail"} => query.name = "lastImage"
<1>1. /\ query.name \in DOMAIN Asks /\ query.step \in 1..Len(Asks[query.name])
      /\ Asks[query.name][query.step] = q
  BY DEF Asking
<1>2. DOMAIN Asks = {"status", "sequence", "target", "mount", "filter", "focus", "guider",
                     "events", "lastImage"}
  BY DEF Asks
<1>3. /\ Asks["status"] = <<"mount", "sequence", "camera", "wheel">>
      /\ Asks["sequence"] = <<"sequence", "camera">> /\ Asks["target"] = <<"sequence", "events">>
      /\ Asks["mount"] = <<"mount">> /\ Asks["filter"] = <<"wheel">> /\ Asks["focus"] = <<"autofocus">>
      /\ Asks["guider"] = <<"guider", "graph">> /\ Asks["events"] = <<"events">>
      /\ Asks["lastImage"] = <<"images", "thumbnail", "graph">>
  BY DEF Asks
<1> HIDE DEF Asks
<1>4. CASE query.name = "target"
  BY <1>1, <1>3, <1>4
<1>5. CASE query.name = "lastImage"
  BY <1>1, <1>3, <1>5
<1>6. CASE query.name = "status"
  BY <1>1, <1>3, <1>6
<1>7. CASE query.name = "guider"
  BY <1>1, <1>3, <1>7
<1>8. CASE query.name \in {"sequence", "mount", "filter", "focus", "events"}
  BY <1>1, <1>3, <1>8
<1> QED BY <1>1, <1>2, <1>4, <1>5, <1>6, <1>7, <1>8

\* An answer of which nothing is withheld when it is given.
LEMMA FreeAnswer ==
  ASSUME ViewsInv, NEW facts, Free(facts, nina)
  PROVE  \A by \in Switches : facts \cap withheld[by] = {}
BY DEF ViewsInv, Free

LEMMA ToldStep ==
  ASSUME ViewsInv, NEW facts, \A by \in Switches : facts \cap withheld[by] = {}, Told(facts),
         NEW q, Asking(q), q \notin {"sequence", "images"}, UNCHANGED <<nina, withheld>>
  PROVE  ViewsInv'
<1>1. /\ DOMAIN query = QueryFields /\ query.step \in Nat \ {0}
      /\ query' = [query EXCEPT !.step = @ + 1, !.shown = @ \cup facts]
  BY DEF ViewsInv, Told
<1>2. /\ DOMAIN query' = QueryFields /\ query'.name = query.name /\ query'.step = query.step + 1
      /\ query'.tree = query.tree /\ query'.frame = query.frame
      /\ query'.shown = query.shown \cup facts
  BY <1>1 DEF QueryFields
<1>3. /\ query.name # "none"
      /\ query.name = "target" => query.step # 1
      /\ query.name = "lastImage" => query.step # 1
  BY <1>1, AskedFacts
<1>4. NothingWithheldIsShown'
  BY <1>2 DEF ViewsInv, NothingWithheldIsShown
<1>5. Heard'
  BY <1>1, <1>2, <1>3 DEF ViewsInv, Heard
<1> QED BY <1>1, <1>2, <1>3, <1>4, <1>5 DEF ViewsInv

LEMMA TargetIsFree ==
  ASSUME ViewsInv, query.name = "target", query.step = 2, NEW log, log = nina.log \/ log = <<>>
  PROVE  \A by \in Switches : TargetFacts(query.tree, log) \cap withheld[by] = {}
<1>1. /\ nina.log \in Seq(ViewEvents) /\ Len(nina.log) \in Nat
      /\ \A by \in Switches : withheld[by] \subseteq WithheldNow(nina)[by]
      /\ CurrentTarget(query.tree) # NoTarget =>
           \A by \in Switches : Fact("target", CurrentTarget(query.tree)) \notin withheld[by]
      /\ Projection(query.tree).on => \A t : Fact("target", t) \notin withheld["sequence"]
  BY DEF ViewsInv, Heard
<1> SUFFICES ASSUME NEW by \in Switches, NEW x \in TargetFacts(query.tree, log), x \in withheld[by]
             PROVE  FALSE
  OBVIOUS
<1>2. \/ CurrentTarget(query.tree) # NoTarget /\ x = Fact("target", CurrentTarget(query.tree))
      \/ /\ Projection(query.tree).on
         /\ \E i \in ChatEnabledEvents(log) : x = Fact("target", log[i].target)
  BY DEF TargetFacts, HistoryAllowed, LatestTarget, TargetStarts
<1>3. CASE CurrentTarget(query.tree) # NoTarget /\ x = Fact("target", CurrentTarget(query.tree))
  BY <1>1, <1>3
<1>4. ASSUME Projection(query.tree).on,
             NEW i \in ChatEnabledEvents(log), x = Fact("target", log[i].target)
      PROVE  FALSE
  <2>1. Len(log) \in Nat
    BY <1>1
  <2>2. i \in 1..Len(log) /\ ~SwitchedOff(log, i)
    BY <2>1, EnabledAreNotOff
  <2>3. log = nina.log /\ i \in DOMAIN nina.log
    BY <1>1, <2>2
  <2>4. Withholds(nina, by, "target", log[i].target)
    <3>1. Fact("target", log[i].target) \in WithheldNow(nina)[by]
      BY <1>1, <1>4
    <3> QED BY <3>1, WithheldFacts, Zenon
  <2>5. by # "sequence"
    BY <1>1, <1>4
  <2> QED BY <2>2, <2>3, <2>4, <2>5 DEF Withholds
<1> QED BY <1>2, <1>3, <1>4

LEMMA HearSequenceStep ==
  ASSUME ViewsInv, HearSequence, UNCHANGED <<nina, withheld>> PROVE ViewsInv'
<1> DEFINE facts == IF query.name = "target" THEN {} ELSE SequenceFacts(nina.tree, query.name)
<1>1. /\ DOMAIN query = QueryFields /\ query.step \in Nat \ {0}
      /\ query' = [query EXCEPT !.step = @ + 1, !.tree = nina.tree, !.shown = @ \cup facts]
  BY DEF ViewsInv, HearSequence
<1>2. Free(SequenceFacts(nina.tree, query.name), nina)
  BY SequenceIsFree
<1>3. \A by \in Switches : facts \cap withheld[by] = {}
  BY <1>2, FreeAnswer
<1> HIDE DEF facts
<1>4. /\ DOMAIN query' = QueryFields /\ query'.name = query.name /\ query'.step = query.step + 1
      /\ query'.tree = nina.tree /\ query'.shown = query.shown \cup facts
  BY <1>1 DEF QueryFields
<1>5. query.name # "none" /\ query.name # "lastImage"
  BY <1>1, AskedFacts DEF HearSequence, Asking, Asks
<1>6. NothingWithheldIsShown'
  BY <1>3, <1>4 DEF ViewsInv, NothingWithheldIsShown
<1>7. Heard'
  <2>1. ASSUME CurrentTarget(nina.tree) # NoTarget, NEW by \in Switches
        PROVE  Fact("target", CurrentTarget(nina.tree)) \notin withheld[by]
    <3> SUFFICES ASSUME Fact("target", CurrentTarget(nina.tree)) \in WithheldNow(nina)[by] PROVE FALSE
      BY DEF ViewsInv
    <3>1. Withholds(nina, by, "target", CurrentTarget(nina.tree))
      BY WithheldFacts, Zenon
    <3> QED BY <2>1, <3>1 DEF Withholds, CurrentTarget
  <2>2. ASSUME Projection(nina.tree).on, NEW t PROVE Fact("target", t) \notin withheld["sequence"]
    <3> SUFFICES ASSUME Fact("target", t) \in WithheldNow(nina)["sequence"] PROVE FALSE
      BY DEF ViewsInv, Switches
    <3>1. Withholds(nina, "sequence", "target", t)
      BY WithheldFacts, Zenon DEF Switches
    <3> QED BY <2>2, <3>1 DEF Withholds
  <2> QED BY <1>4, <1>5, <2>1, <2>2 DEF Heard
<1> QED BY <1>1, <1>4, <1>5, <1>6, <1>7 DEF ViewsInv

LEMMA HearImagesStep ==
  ASSUME ViewsInv, HearImages, UNCHANGED <<nina, withheld>> PROVE ViewsInv'
<1> DEFINE f == Fact("frame", Len(nina.frames))
<1>1. DOMAIN query = QueryFields /\ query.step \in Nat \ {0} /\ nina.frames \in Seq(BOOLEAN)
  BY DEF ViewsInv
<1>2. query.name = "lastImage" /\ query.step = 1
  BY <1>1, AskedFacts DEF HearImages
<1>3. CASE HasImage(nina.frames)
  <2>1. query' = [query EXCEPT !.step = @ + 1, !.frame = Len(nina.frames), !.shown = @ \cup {f}]
    BY <1>3 DEF HearImages
  <2>2. \A by \in Switches : {f} \cap withheld[by] = {}
    <3>1. Free({f}, nina)
      BY <1>1, <1>3, ImageIsFree
    <3> HIDE DEF f
    <3> QED BY <3>1, FreeAnswer
  <2>3. query'.frame = Len(nina.frames)
    BY <1>1, <2>1 DEF QueryFields
  <2> HIDE DEF f
  <2>4. /\ DOMAIN query' = QueryFields /\ query'.name = query.name /\ query'.step = query.step + 1
        /\ query'.shown = query.shown \cup {f}
    BY <1>1, <2>1 DEF QueryFields
  <2>5. NothingWithheldIsShown'
    BY <2>2, <2>4 DEF ViewsInv, NothingWithheldIsShown
  <2>6. Heard'
    BY <1>2, <2>3, <2>4 DEF Heard, f
  <2> QED BY <1>1, <1>2, <2>4, <2>5, <2>6 DEF ViewsInv
<1>4. CASE ~HasImage(nina.frames)
  <2>1. query' = [query EXCEPT !.name = "replied"]
    BY <1>4 DEF HearImages
  <2>2. /\ DOMAIN query' = QueryFields /\ query'.name = "replied"
        /\ query'.step = query.step /\ query'.shown = query.shown
    BY <1>1, <2>1 DEF QueryFields
  <2>3. NothingWithheldIsShown' /\ Heard'
    BY <2>2 DEF ViewsInv, NothingWithheldIsShown, Heard
  <2> QED BY <1>1, <2>2, <2>3 DEF ViewsInv
<1> QED BY <1>3, <1>4

LEMMA HearNothingStep ==
  ASSUME ViewsInv, HearNothing, UNCHANGED <<nina, withheld>> PROVE ViewsInv'
<1>1. DOMAIN query = QueryFields /\ query.step \in Nat \ {0}
  BY DEF ViewsInv
<1>2. PICK q : Asking(q)
  BY DEF HearNothing
<1>3. CASE Needs(query.name, query.step)
  <2>1. query' = [query EXCEPT !.name = "failed", !.shown = {}]
    BY <1>3 DEF HearNothing
  <2>2. DOMAIN query' = QueryFields /\ query'.name = "failed" /\ query'.step = query.step /\ query'.shown = {}
    BY <1>1, <2>1 DEF QueryFields
  <2>3. NothingWithheldIsShown' /\ Heard'
    BY <2>2 DEF NothingWithheldIsShown, Heard
  <2> QED BY <1>1, <2>2, <2>3 DEF ViewsInv
<1>4. CASE ~Needs(query.name, query.step)
  <2> DEFINE told == IF Asking("events") THEN TargetFacts(query.tree, <<>>) ELSE query.shown
  <2>1. query' = [query EXCEPT !.step = @ + 1, !.shown = told]
    BY <1>1, <1>4 DEF HearNothing, QueryFields
  <2>2. query.name = "status" \/ query.step # 1
    BY <1>4 DEF Needs
  <2>3. \A by \in Switches : told \cap withheld[by] = {}
    <3>1. CASE Asking("events")
      <4>1. query.name = "target" /\ query.step = 2
        BY <1>1, <2>2, <3>1 DEF Asking, Asks
      <4> QED BY <3>1, <4>1, TargetIsFree
    <3>2. CASE ~Asking("events")
      BY <3>2 DEF ViewsInv, NothingWithheldIsShown
    <3> QED BY <3>1, <3>2
  <2>4. query.name = "lastImage" => told = query.shown
    BY <1>1, AskedFacts DEF Asking, Asks
  <2> HIDE DEF told
  <2>5. /\ DOMAIN query' = QueryFields /\ query'.name = query.name /\ query'.step = query.step + 1
        /\ query'.tree = query.tree /\ query'.frame = query.frame /\ query'.shown = told
    BY <1>1, <2>1 DEF QueryFields
  <2>6. query.name # "none"
    BY <1>1, <1>2, AskedFacts
  <2>7. NothingWithheldIsShown'
    BY <2>3, <2>5 DEF ViewsInv, NothingWithheldIsShown
  <2>8. Heard'
    BY <1>1, <2>2, <2>4, <2>5 DEF ViewsInv, Heard
  <2> QED BY <1>1, <2>5, <2>6, <2>7, <2>8 DEF ViewsInv
<1> QED BY <1>3, <1>4

LEMMA RigMovesStep ==
  ASSUME ViewsInv, RigMoves PROVE ViewsInv'
<1>1. PICK rig : Becomes(rig) /\ DOMAIN rig = RigFields
                   /\ rig.log \in Seq(ViewEvents) /\ rig.frames \in Seq(BOOLEAN)
  <2>0. DOMAIN nina = RigFields /\ nina.log \in Seq(ViewEvents) /\ nina.frames \in Seq(BOOLEAN)
    BY DEF ViewsInv
  <2> DEFINE P(rig) == Becomes(rig) /\ DOMAIN rig = RigFields
                         /\ rig.log \in Seq(ViewEvents) /\ rig.frames \in Seq(BOOLEAN)
  <2>1. CASE LoadSequence
    <3>1. PICK t : Becomes([nina EXCEPT !.tree = t])
      BY <2>1 DEF LoadSequence
    <3>2. P([nina EXCEPT !.tree = t])
      BY <2>0, <3>1 DEF RigFields
    <3> HIDE DEF P
    <3> QED BY <3>2 DEF P
  <2>2. CASE RecordEvent
    <3>1. PICK e \in ViewEvents : Becomes([nina EXCEPT !.log = Append(@, e)])
      BY <2>2 DEF RecordEvent
    <3> DEFINE log == Append(nina.log, e)
    <3>2. log \in Seq(ViewEvents) /\ Becomes([nina EXCEPT !.log = log])
      BY <2>0, <3>1
    <3> HIDE DEF log
    <3>3. P([nina EXCEPT !.log = log])
      BY <2>0, <3>2 DEF RigFields
    <3> HIDE DEF P
    <3> QED BY <3>3 DEF P
  <2>3. CASE TakeFrame
    <3>1. PICK on \in BOOLEAN : Becomes([nina EXCEPT !.frames = Append(@, on)])
      BY <2>3 DEF TakeFrame
    <3> DEFINE frames == Append(nina.frames, on)
    <3>2. frames \in Seq(BOOLEAN) /\ Becomes([nina EXCEPT !.frames = frames])
      BY <2>0, <3>1
    <3> HIDE DEF frames
    <3>3. P([nina EXCEPT !.frames = frames])
      BY <2>0, <3>2 DEF RigFields
    <3> HIDE DEF P
    <3> QED BY <3>3 DEF P
  <2>4. CASE RedactLocation
    <3>1. P([nina EXCEPT !.redacted = ~@])
      BY <2>0, <2>4 DEF RedactLocation, RigFields
    <3> HIDE DEF P
    <3> QED BY <3>1 DEF P
  <2> QED BY <2>1, <2>2, <2>3, <2>4 DEF RigMoves
<1>2. /\ nina' = rig /\ query' = query
      /\ \A by \in Switches : withheld'[by] = withheld[by] \cap WithheldNow(rig)[by]
  BY <1>1 DEF Becomes
<1>3. NothingWithheldIsShown' /\ Heard'
  BY <1>2 DEF ViewsInv, NothingWithheldIsShown, Heard, Switches
<1> QED BY <1>1, <1>2, <1>3 DEF ViewsInv

LEMMA CommandStep ==
  ASSUME ViewsInv, CommandMoves, UNCHANGED <<nina, changes, withheld>> PROVE ViewsInv'
<1>1. DOMAIN query = QueryFields /\ query.step \in Nat \ {0} /\ Len(nina.log) \in Nat
  BY DEF ViewsInv
<1>2. CASE HearSequence
  BY <1>2, HearSequenceStep
<1>3. CASE HearMount
  <2>1. Free(MountFacts(nina.redacted, query.name), nina)
    BY MountIsFree
  <2> QED BY <1>3, <2>1, FreeAnswer, ToldStep DEF HearMount
<1>4. CASE HearEvents
  <2>1. CASE query.name = "target"
    <3>1. query.step = 2
      BY <1>1, <1>4, <2>1, AskedFacts DEF HearEvents
    <3>2. Told(TargetFacts(query.tree, nina.log)) /\ Asking("events")
      BY <1>4, <2>1 DEF HearEvents
    <3> QED BY <2>1, <3>1, <3>2, TargetIsFree, ToldStep
  <2>2. CASE query.name # "target"
    <3>1. Told(EventFacts(nina.log)) /\ Asking("events")
      BY <1>4, <2>2 DEF HearEvents
    <3>2. Free(EventFacts(nina.log), nina)
      BY <1>1, EventsAreFree
    <3> QED BY <3>1, <3>2, FreeAnswer, ToldStep
  <2> QED BY <2>1, <2>2
<1>5. CASE HearCamera \/ SkipCamera \/ HearGraph \/ HearEquipment
  <2>1. Told({}) /\ \E q \in {"camera", "graph", "wheel", "autofocus", "guider"} : Asking(q)
    BY <1>5 DEF HearCamera, SkipCamera, HearGraph, HearEquipment
  <2> QED BY <2>1, ToldStep
<1>6. CASE HearImages
  BY <1>6, HearImagesStep
<1>7. CASE HearThumbnail
  <2>1. Told({Fact("frame", query.frame)}) /\ Asking("thumbnail")
    BY <1>7 DEF HearThumbnail
  <2>2. query.name = "lastImage" /\ query.step # 1
    BY <1>1, <2>1, AskedFacts
  <2>3. Fact("frame", query.frame) \in query.shown
    BY <2>2 DEF ViewsInv, Heard
  <2>4. \A by \in Switches : {Fact("frame", query.frame)} \cap withheld[by] = {}
    BY <2>3 DEF ViewsInv, NothingWithheldIsShown
  <2> QED BY <2>1, <2>4, ToldStep
<1>8. CASE HearNothing
  BY <1>8, HearNothingStep
<1>9. CASE Reply
  <2>1. query' = [query EXCEPT !.name = "replied"]
    BY <1>9 DEF Reply
  <2>2. /\ DOMAIN query' = QueryFields /\ query'.name = "replied"
        /\ query'.step = query.step /\ query'.shown = query.shown
    BY <1>1, <2>1 DEF QueryFields
  <2>3. NothingWithheldIsShown' /\ Heard'
    BY <2>2 DEF ViewsInv, NothingWithheldIsShown, Heard
  <2> QED BY <1>1, <2>2, <2>3 DEF ViewsInv
<1> QED BY <1>2, <1>3, <1>4, <1>5, <1>6, <1>7, <1>8, <1>9 DEF CommandMoves

LEMMA InvokeStep ==
  ASSUME ViewsInv, NEW name \in DOMAIN Asks, InvokeView(name) PROVE ViewsInv'
<1>1. /\ query' = [NoQuery EXCEPT !.name = name] /\ withheld' = WithheldNow(nina)
      /\ UNCHANGED nina
  BY DEF InvokeView
<1>2. DOMAIN query' = QueryFields /\ query'.name = name /\ query'.step = 1 /\ query'.shown = {}
  BY <1>1 DEF NoQuery, QueryFields
<1>3. NothingWithheldIsShown' /\ Heard'
  BY <1>2 DEF NothingWithheldIsShown, Heard
<1> QED BY <1>1, <1>2, <1>3 DEF ViewsInv

LEMMA ViewsInitially == BotViewsInit => ViewsInv
<1> SUFFICES ASSUME BotViewsInit PROVE ViewsInv
  OBVIOUS
<1>1. /\ DOMAIN query = QueryFields /\ DOMAIN nina = RigFields
      /\ query.name = "none" /\ query.step = 1 /\ query.shown = {}
      /\ nina.log = <<>> /\ nina.frames = <<>> /\ \A by \in Switches : withheld[by] = {}
  BY DEF BotViewsInit, NoQuery, QueryFields, RigFields
<1> QED BY <1>1 DEF ViewsInv, NothingWithheldIsShown, Heard

LEMMA ViewsStep == ViewsInv /\ [BotViewsNext]_botViewsVars => ViewsInv'
<1> SUFFICES ASSUME ViewsInv, [BotViewsNext]_botViewsVars PROVE ViewsInv'
  OBVIOUS
<1>1. CASE RigMoves
  BY <1>1, RigMovesStep
<1>2. ASSUME NEW name \in DOMAIN Asks, InvokeView(name) PROVE ViewsInv'
  BY <1>2, InvokeStep
<1>3. CASE CommandMoves /\ UNCHANGED <<nina, changes, withheld>>
  BY <1>3, CommandStep
<1>4. CASE UNCHANGED botViewsVars
  BY <1>4 DEF botViewsVars, ViewsInv, NothingWithheldIsShown, Heard
<1> QED BY <1>1, <1>2, <1>3, <1>4 DEF BotViewsNext

\* A command that only reads shows nothing that one switch of the owner withheld
\* while it ran, although it asks the rig several times and the rig may change
\* between the answers: chat_enabled_events drops what was revoked, and /target
\* does not turn to the log for a target that the sequence withholds.
THEOREM ViewsHold == BotViewsSpec => []NothingWithheldIsShown
<1>1. ViewsInv => NothingWithheldIsShown
  BY DEF ViewsInv
<1> QED BY <1>1, ViewsInitially, ViewsStep, PTL DEF BotViewsSpec

==============================================================================
