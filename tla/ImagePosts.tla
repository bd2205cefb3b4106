------------------------------ MODULE ImagePosts ------------------------------
(***************************************************************************)
(* The image half of ChatUpdater: each poll reads the rig's image history, *)
(* posts new frames no faster than a cooldown allows, keeps the LIGHT      *)
(* frames of the last night for charts (LightFrameHistory) and sends a     *)
(* chart every n frames and a summary some time after a sequence ends.     *)
(* A disabled image is a privacy boundary: nothing from before it may be   *)
(* shown.  An image is named by its place in the rig's history; `light`    *)
(* and `begun` say whether it is a LIGHT frame and whether its time is     *)
(* known to be that of the exposure's start.  A poll is one step.          *)
(***************************************************************************)
EXTENDS Naturals, Sequences, FiniteSets

CONSTANTS
  MaxImages, ImageRetention,          \* bounds: images in all, and those the rig still returns
  MaxTime,                       \* bound on time
  Cooldown,                      \* image_cooldown
  MinDelay, Quiet, MaxDelay,     \* IMAGE_SUMMARY_MIN_DELAY, _QUIET, _MAX_DELAY
  Grace,                         \* how late a frame without a start time may be
  Night,                         \* HISTORY_HOURS
  MaxPoints, MaxSummaries,       \* MAX_STATISTICS_POINTS, pending summaries
  Options,                       \* what owners choose: [every, onEnd]
  Frames,                        \* what rigs record: [on, light, begun]
  Never

\* A frame says whether it is shared, whether it is a LIGHT frame and whether
\* its start time is known.
ASSUME ImagePostsAssumption ==
  /\ ImageRetention \in Nat
  /\ Frames \subseteq [on : BOOLEAN, light : BOOLEAN, begun : BOOLEAN]

VARIABLES
  clock,
  images,      \* the rig's history: <<[at, on, light, begun], ...>>
  choice,      \* the owner's options at the rig
  ready,       \* the updater's baseline is complete
  seen,        \* images_seen
  lastPost,    \* last_image_time
  skipped,     \* skipped_images_count
  options,     \* LightFrameHistory.options
  points,      \* LightFrameHistory.points
  sincePlot,   \* frames_since_plot
  startedAt,   \* sequence_started_at
  summaries,   \* pending_image_summaries
  charts,      \* the charts of the latest poll: sets of images
  read         \* history: images this updater was given

imagePostsVars ==
  <<clock, images, choice, ready, seen, lastPost, skipped, options, points, sincePlot,
    startedAt, summaries, charts, read>>

NoStatistics == [every |-> 0, onEnd |-> FALSE]
Enabled(o) == o # NoStatistics

ImagePostsTypeOK ==
  /\ clock \in 0..MaxTime /\ Len(images) <= MaxImages
  /\ choice \in Options /\ options \in Options /\ ready \in BOOLEAN
  /\ seen \subseteq read /\ read \subseteq 1..Len(images)
  /\ points \subseteq seen /\ Cardinality(points) <= MaxPoints
  /\ lastPost \in 0..MaxTime \cup {Never} /\ startedAt \in 0..MaxTime \cup {Never}
  /\ skipped \in Nat /\ sincePlot \in Nat
  /\ Len(summaries) <= MaxSummaries

ImagePostsInit ==
  /\ clock = 0 /\ images = <<>> /\ choice \in Options
  /\ ready = FALSE /\ seen = {} /\ lastPost = Never /\ skipped = 0
  /\ options = NoStatistics /\ points = {} /\ sincePlot = 0
  /\ startedAt = Never /\ summaries = <<>>
  /\ charts = {} /\ read = {}

---------------------------------------------------------------------------
\* The rig.

TakeImage(frame) ==
  /\ Len(images) < MaxImages
  /\ images' = Append(images, [at |-> clock, on |-> frame.on, light |-> frame.light,
                               begun |-> frame.begun])
  /\ UNCHANGED <<clock, choice, ready, seen, lastPost, skipped, options, points, sincePlot,
                 startedAt, summaries, charts, read>>

ChooseOptions(o) ==
  /\ choice' = o
  /\ UNCHANGED <<clock, images, ready, seen, lastPost, skipped, options, points, sincePlot,
                 startedAt, summaries, charts, read>>

Elapse ==
  /\ clock < MaxTime /\ clock' = clock + 1
  /\ UNCHANGED <<images, choice, ready, seen, lastPost, skipped, options, points, sincePlot,
                 startedAt, summaries, charts, read>>

ImageResponse == {i \in 1..Len(images) : i > Len(images) - ImageRetention}

\* Mutant: every disabled image but no boundary.
SharedAlone == {i \in ImageResponse : images[i].on}

\* The newest privacy boundary of a response; nothing before it is looked at.
IsBoundary(i) == ~images[i].on /\ \A b \in ImageResponse : images[b].on \/ b <= i

\* The images that the boundary leaves.
Shared == {i \in ImageResponse : \A b \in ImageResponse : images[b].on \/ b < i}

---------------------------------------------------------------------------
\* LightFrameHistory

\* trim: the last night, and at most MAX_STATISTICS_POINTS of it.
Trimmed(P) ==
  LET night == {i \in P : images[i].at + Night >= clock}
  IN  {i \in night : Cardinality({j \in night : j > i}) < MaxPoints}

Cleared(s) == [s EXCEPT !.points = {}, !.sincePlot = 0, !.due = FALSE]

Configure(s, o) ==
  LET changed == IF s.options = o THEN s ELSE [s EXCEPT !.sincePlot = 0, !.due = FALSE]
      kept == IF Enabled(o) THEN changed ELSE Cleared(changed)
  IN  [kept EXCEPT !.options = o, !.points = Trimmed(@)]

\* record, and the summaries that the frame keeps waiting (record_light_frame).
Includes(m, i) ==
  \/ images[i].at <= m.finished
  \/ /\ ~images[i].begun /\ images[i].at - m.finished <= Grace
     /\ m.next = Never \/ images[i].at < m.next

Record(s, i, live) ==
  LET plots == live /\ s.options.every > 0
      count == IF plots THEN s.sincePlot + 1 ELSE s.sincePlot
      due == plots /\ count >= s.options.every
      noted == IF ~live THEN s.summaries
               ELSE [k \in DOMAIN s.summaries |->
                       IF Includes(s.summaries[k], i) THEN [s.summaries[k] EXCEPT !.last = clock]
                       ELSE s.summaries[k]]
      waiting == IF images[i].light THEN [s EXCEPT !.summaries = noted] ELSE s
  IN  IF ~Enabled(s.options) \/ ~images[i].light \/ images[i].at + Night < clock THEN waiting
      ELSE [waiting EXCEPT !.points = Trimmed(@ \cup {i}),
                           !.sincePlot = IF due THEN 0 ELSE count,
                           !.due = @ \/ due]

---------------------------------------------------------------------------
\* poll_images

Updater ==
  [seen |-> seen, lastPost |-> lastPost, skipped |-> skipped, options |-> options,
   points |-> points, sincePlot |-> sincePlot, due |-> FALSE, summaries |-> summaries]

ImagesBecome(s) ==
  /\ seen' = s.seen /\ lastPost' = s.lastPost /\ skipped' = s.skipped
  /\ options' = s.options /\ points' = s.points /\ sincePlot' = s.sincePlot
  /\ summaries' = s.summaries

\* A disabled image: revoke_state_for_disabled_event(IMAGE_SAVE).
Revoked(s) == [Cleared(s) EXCEPT !.lastPost = Never, !.skipped = 0, !.summaries = <<>>]

\* handle_new_image
Announce(s) ==
  IF s.lastPost = Never \/ clock - s.lastPost >= Cooldown
  THEN [s EXCEPT !.lastPost = clock, !.skipped = 0]
  ELSE [s EXCEPT !.skipped = @ + 1]

\* One image of a response; reseed when statistics were off until now.
PollImage(s, i, reseed) ==
  LET new == i \notin s.seen
      known == [s EXCEPT !.seen = @ \cup {i}]
      kept == IF new \/ reseed THEN Record(known, i, new) ELSE known
  IN  IF new /\ IsBoundary(i) THEN Revoked(known)
      ELSE IF i \notin Shared THEN s
      ELSE IF new THEN Announce(kept) ELSE kept

\* A response is gone through from its first image to its last.
Polled(s, reseed) ==
  LET after[i \in 0..Len(images)] ==
        IF i = 0 THEN s
        ELSE IF i \in ImageResponse THEN PollImage(after[i - 1], i, reseed) ELSE after[i - 1]
  IN  after[Len(images)]

\* The baseline announces nothing of it.
SeedImage(s, i) == Record([s EXCEPT !.seen = @ \cup {i}], i, FALSE)
Seeded(s) ==
  LET after[i \in 0..Len(images)] ==
        IF i = 0 THEN s
        ELSE IF i \in Shared THEN SeedImage(after[i - 1], i) ELSE after[i - 1]
  IN  after[Len(images)]

IsReady(m) ==
  \/ clock - m.queued >= MaxDelay
  \/ clock - m.queued >= MinDelay /\ clock - m.last >= Quiet

\* send_pending_image_statistics: the summaries that are ready and have a
\* frame of their run, then the periodic chart unless it shows the same.
Summary(s, m) == {i \in s.points : Includes(m, i)}

IsSummary(s, m) ==
  IsReady(m) /\ \E i \in Summary(s, m) : m.started = Never \/ images[i].at >= m.started

Statistics(s) ==
  LET sent == {Summary(s, s.summaries[k]) : k \in {j \in DOMAIN s.summaries :
                                                    IsSummary(s, s.summaries[j])}}
  IN  IF ~Enabled(s.options) THEN {}
      ELSE IF s.due /\ s.points \notin sent THEN sent \cup {s.points} ELSE sent

Waiting(s) ==
  IF s.options.onEnd THEN SelectSeq(s.summaries, LAMBDA m : ~IsReady(m)) ELSE <<>>

PollImages ==
  /\ ready
  /\ LET begin == Configure(Updater, choice)
         configured == IF choice.onEnd THEN begin ELSE [begin EXCEPT !.summaries = <<>>]
         s == Polled(configured, ~Enabled(options))
         trimmed == [s EXCEPT !.points = Trimmed(@)]
     IN  /\ ImagesBecome([trimmed EXCEPT !.summaries = Waiting(s)])
         /\ charts' = Statistics(trimmed)
  /\ read' = read \cup ImageResponse
  /\ UNCHANGED <<clock, images, choice, ready, startedAt>>

\* The image part of initialize_baseline.
BaselineImages ==
  /\ ~ready /\ ready' = TRUE
  /\ ImagesBecome(Seeded(Configure(Updater, choice)))
  /\ read' = read \cup ImageResponse
  /\ UNCHANGED <<clock, images, choice, startedAt, charts>>

\* handle_sequence_event
SequenceStarting ==
  /\ ready /\ startedAt' = clock
  /\ summaries' = [k \in DOMAIN summaries |->
       IF summaries[k].next = Never THEN [summaries[k] EXCEPT !.next = clock] ELSE summaries[k]]
  /\ UNCHANGED <<clock, images, choice, ready, seen, lastPost, skipped, options, points,
                 sincePlot, charts, read>>

SequenceFinished ==
  /\ ready
  /\ summaries' = Append(IF Len(summaries) = MaxSummaries THEN Tail(summaries) ELSE summaries,
                         [started |-> startedAt, finished |-> clock, next |-> Never,
                          queued |-> clock, last |-> clock])
  /\ UNCHANGED <<clock, images, choice, ready, seen, lastPost, skipped, options, points,
                 sincePlot, startedAt, charts, read>>

\* A disabled event of the Images scope, and of the Sequence scope.
RevokeImages ==
  /\ ready /\ ImagesBecome(Revoked(Updater))
  /\ UNCHANGED <<clock, images, choice, ready, startedAt, charts, read>>

ForgetSummaries ==
  /\ ready /\ startedAt' = Never /\ summaries' = <<>>
  /\ UNCHANGED <<clock, images, choice, ready, seen, lastPost, skipped, options, points,
                 sincePlot, charts, read>>

ImagePostsNext ==
  \/ \E frame \in Frames : TakeImage(frame)
  \/ \E o \in Options : ChooseOptions(o)
  \/ Elapse
  \/ BaselineImages
  \/ PollImages
  \/ SequenceStarting
  \/ SequenceFinished
  \/ RevokeImages
  \/ ForgetSummaries

ImagePostsSpec == ImagePostsInit /\ [][ImagePostsNext]_imagePostsVars

---------------------------------------------------------------------------
\* Once an updater has been given a disabled image, no image from before it is
\* kept for a chart or shown in one, through changes of the options, replays
\* of the history and summaries that were waiting.
BoundaryHolds ==
  \A b \in read : ~images[b].on => \A P \in charts \cup {points} : \A i \in P : i > b

\* "Baseline samples seed the plot" (frame_history.rs): a frame that is kept for
\* the charts stays until the night, the list's limit, the owner's options or a
\* newer privacy boundary ends it; a poll forgets none of them otherwise.
BaselineSeedsThePlot ==
  [][seen' # seen /\ Enabled(options) /\ options' = options
       => \A i \in points :
            (\A b \in read' : images[b].on \/ b < i)
               /\ images[i].at + Night >= clock /\ Cardinality(points) < MaxPoints
            => i \in points']_imagePostsVars

===========================================================================
