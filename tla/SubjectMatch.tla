---------------------------- MODULE SubjectMatch ----------------------------
(***************************************************************************)
(* SubjectMatchVisionDetector (subject_match_detector.py) in the loop of   *)
(* TimelineScheduler._run_checkpoint: which of the people in the frame the *)
(* looks of a checkpoint are about.  The detector does not know who is     *)
(* who; it weighs what a candidate looks like, how far it is from the box  *)
(* chosen last and how sure YOLO is of it, and it learns from its choice.  *)
(* YOLO, the camera and the people are the environment.                    *)
(*                                                                         *)
(* Similarities, confidences and distances are ten-thousandths (1, and the *)
(* width of the frame, are 10000).  A histogram is known by its similarity *)
(* to every look; 5000 is no correlation.  Its normalisation changes its   *)
(* standard deviation and no correlation.  In a sum of histograms each     *)
(* part weighs by its deviation too,                                       *)
(*   corr(X + Y, l) = (dev(X) corr(X, l) + dev(Y) corr(Y, l)) / dev(X + Y) *)
(* and dev(X + Y) <= dev(X) + dev(Y): the correlations are averaged by     *)
(* share and deviation, and their distance from 5000 is then stretched.    *)
(* The deviations of the parts and the stretch are any of the environment. *)
(* The scheduler passes fallback_to_yolo=True, so no choice is refused for *)
(* its low similarity.                                                     *)
(***************************************************************************)
EXTENDS Integers, Sequences, FiniteSetsExt

CONSTANTS
  People,
  Looks,    \* what a crop of the frame may look like
  Alike,    \* the normalised correlation of the histograms of two looks
  Places,   \* where the middle of a box may be
  Dist,     \* how far two places are apart
  Frames,   \* what YOLO may see in a frame: people with their candidate boxes
  Albums,   \* what template_paths may lead to: sequences of images
  MaxLooks, \* servo.max_iters
  Deviations, \* that histograms and templates have, relative to one another
  Stretches,  \* of the correlations with a sum of histograms, in percent
  Low,      \* any two looks are at least so similar
  LowConf, HighConf, \* the confidences that occur
  Same,     \* a look at least so similar is recognised
  Other,    \* one at most so similar is told from it
  Leap,     \* the way of a person from one look to the next
  Near,     \* people so close together are one group
  Strays,   \* so many looks at somebody else are put right
  Loss      \* a look at somebody else costs no more of a difference in similarity

None       == "none"
Nobody     == [who |-> None, at |-> None, look |-> None]
NoFrame    == [p \in {} |-> Nobody]
NoTemplate == [l \in {} |-> 0]
Unreadable == [people |-> {}, whole |-> None]

Share     == Low..10000
Candidate == [at : Places, look : Looks, conf : LowConf..HighConf]
Template  == [Looks -> 0..10000]

VARIABLES
  fresh,     \* the template that template_paths of the scheduler lead to, fixed
  last_bbox, \* the place of the box chosen last
  last_hist, \* the look of the box chosen last
  template,  \* template_hist, by its similarity to every look
  looks,     \* iterations of the checkpoint begun
  frame,     \* history: what was there to be seen at the last look
  found,     \* whether the last look found somebody
  result,    \* history: who was found last in this checkpoint, and how
  strays     \* history: looks of the checkpoint at somebody unlike the images

vars == <<fresh, last_bbox, last_hist, template, looks, frame, found, result, strays>>

-----------------------------------------------------------------------------
(* The template, built by setup of every new detector.                     *)

\* _extract_template_crop: the most sure and largest candidate of the image, or
\* all of it.  `weight` is conf times area.
TemplateLook(image) ==
  IF image.people = {} THEN image.whole
  ELSE (CHOOSE c \in image.people : \A d \in image.people : d.weight <= c.weight).look

\* The correlations of a sum of histograms: `sum` of those of the parts, each times
\* its weight, in relation to no correlation.
Stretched(sum, weight, stretch) == 5000 + (stretch * sum) \div (100 * weight)

\* _build_template_hist: the mean over the images that can be read.
TemplatesOf(album) ==
  LET readable == {i \in DOMAIN album : album[i] # Unreadable}
      Mean(dev, stretch) ==
        [l \in Looks |->
           Stretched(
             MapThenSumSet(LAMBDA i : dev[i] * (Alike[TemplateLook(album[i])][l] - 5000), readable),
             MapThenSumSet(LAMBDA i : dev[i], readable), stretch)]
  IN  IF readable = {} THEN {NoTemplate}
      ELSE {Mean(dev, k) : dev \in [readable -> Deviations], k \in Stretches}

\* No correlation is above 1: some stretches are too long.
Fresh ==
  {t \in UNION {TemplatesOf(album) : album \in Albums} : t \in Template \cup {NoTemplate}}

ASSUME SubjectAssumption ==
  /\ {None} \cap (People \cup Places \cup Looks) = {}
  /\ {MaxLooks, Low, LowConf, HighConf, Same, Other, Leap, Near, Strays, Loss} \subseteq Nat
  /\ LowConf <= HighConf /\ Low <= 10000
  /\ Deviations \subseteq Nat \ {0}
  /\ Stretches \subseteq Nat /\ \A k \in Stretches : k >= 100
  /\ Alike \in [Looks -> [Looks -> Share]]
  /\ Dist \in [Places -> [Places -> Nat]]
  /\ \A a, b, c \in Places : Dist[a][c] <= Dist[a][b] + Dist[b][c]
  /\ \A f \in Frames : /\ DOMAIN f \subseteq People
                       /\ \A p \in DOMAIN f : f[p] \in Candidate

-----------------------------------------------------------------------------
(* One look.                                                               *)

\* _continuity_score: nothing left of it at half a frame.
Continuity(c) ==
  IF last_bbox = None THEN 5000
  ELSE LET left == 10000 - 2 * Dist[last_bbox][c.at]
       IN  IF left < 0 THEN 0 ELSE left

\* hist_score: against the template, else against the last choice.
HistScore(c) ==
  IF template # NoTemplate THEN template[c.look]
  ELSE IF last_hist # None THEN Alike[last_hist][c.look]
  ELSE 0

\* final_score, in hundredths of the units.
Score(c) ==
  IF template # NoTemplate \/ last_hist # None
  THEN 55 * HistScore(c) + 35 * Continuity(c) + 10 * c.conf
  ELSE 70 * c.conf + 30 * Continuity(c)

\* The candidates of the highest score; max takes the first, in YOLO's order.
Best(f) == {p \in DOMAIN f : \A q \in DOMAIN f : Score(f[q]) <= Score(f[p])}

\* BUG: a rate of 0.4.
Learn_Fast(t, look, a, b, stretch) ==
  [l \in Looks |->
     Stretched(60 * a * (t[l] - 5000) + 40 * b * (Alike[look][l] - 5000), 60 * a + 40 * b, stretch)]

\* template_update_alpha = 0.04; a and b are the deviations of template and histogram.
Learn(t, look, a, b, stretch) ==
  [l \in Looks |->
     Stretched(96 * a * (t[l] - 5000) + 4 * b * (Alike[look][l] - 5000), 96 * a + 4 * b, stretch)]

Learnt(t, look) ==
  IF t = NoTemplate THEN {NoTemplate}
  ELSE {u \in {Learn(t, look, a, b, k) : a \in Deviations, b \in Deviations, k \in Stretches} :
          u \in Template}

\* Whether a look is not recognised by the template images.
Strange(look) == fresh # NoTemplate /\ fresh[look] < Same

Start ==
  /\ last_bbox = None /\ last_hist = None /\ template = fresh
  /\ looks = 0 /\ frame = NoFrame /\ found = FALSE /\ result = Nobody /\ strays = 0

Init == fresh \in Fresh /\ Start

\* The display has no frame yet, or YOLO sees nobody: the iteration is spent,
\* and what is remembered stays.
LookInVain ==
  /\ looks < MaxLooks
  /\ looks' = looks + 1 /\ frame' = NoFrame /\ found' = FALSE
  /\ UNCHANGED <<fresh, last_bbox, last_hist, template, result, strays>>

\* BUG: the look of the first choice is kept.
Look_FirstHist(f) ==
  /\ looks < MaxLooks
  /\ \E p \in Best(f) :
       /\ last_bbox' = f[p].at
       /\ last_hist' = IF last_hist = None THEN f[p].look ELSE last_hist
       /\ template' \in Learnt(template, f[p].look)
       /\ result' = [who |-> p, at |-> f[p].at, look |-> f[p].look]
       /\ strays' = IF Strange(f[p].look) THEN strays + 1 ELSE strays
  /\ looks' = looks + 1 /\ frame' = f /\ found' = TRUE
  /\ UNCHANGED fresh

Look(f) ==
  /\ looks < MaxLooks
  /\ \E p \in Best(f) :
       /\ last_bbox' = f[p].at
       /\ last_hist' = f[p].look
       /\ template' \in Learnt(template, f[p].look)
       /\ result' = [who |-> p, at |-> f[p].at, look |-> f[p].look]
       /\ strays' = IF Strange(f[p].look) THEN strays + 1 ELSE strays
  /\ looks' = looks + 1 /\ frame' = f /\ found' = TRUE
  /\ UNCHANGED fresh

\* However a checkpoint ends, the next one has a detector of its own, which
\* starts from the template images.
NewCheckpoint ==
  /\ looks > 0
  /\ last_bbox' = None /\ last_hist' = None /\ template' = fresh
  /\ looks' = 0 /\ frame' = NoFrame /\ found' = FALSE /\ result' = Nobody /\ strays' = 0
  /\ UNCHANGED fresh

Next == LookInVain \/ NewCheckpoint \/ \E f \in Frames : Look(f)

Spec == Init /\ [][Next]_vars

-----------------------------------------------------------------------------
(* When the weights leave room for a person to be told from the others.    *)

\* The difference in similarity outweighs the way a person goes between two looks,
\* and YOLO's confidence.
TellsApart == 55 * (Same - Other) > 70 * Leap + 10 * (HighConf - LowConf)

\* Two people with these looks are seen in one frame.
Met(a, b) ==
  \E f \in Frames : \E p, q \in DOMAIN f : p # q /\ f[p].look = a /\ f[q].look = b

\* Whoever the images recognise looks like everybody else whom they recognise: no
\* less than the images do, it tells them from the people they are met with.
Coherent ==
  \A t \in Fresh \ {NoTemplate} : \A a, b, g \in Looks :
    Met(a, b) /\ t[a] >= Same /\ t[b] <= Other /\ t[g] >= Same
      => Alike[g][a] - Alike[g][b] >= Same - Other

\* Loss is what a look at somebody else can take from such a difference, whatever the
\* deviations, and what the strays leave of it outweighs the width of the group and
\* YOLO's confidence.
RoomForStrays ==
  /\ \A a, b \in Deviations : 4 * b * (Same - Other + 10000 - Low) <= Loss * (96 * a + 4 * b)
  /\ 55 * (Same - Other - Strays * Loss) > 70 * Near + 10 * (HighConf - LowConf)

-----------------------------------------------------------------------------
(* Properties.                                                             *)

TypeOK ==
  /\ fresh \in Fresh
  /\ last_bbox \in Places \cup {None}
  /\ last_hist \in Looks \cup {None}
  /\ template \in Template \cup {NoTemplate}
  /\ looks \in 0..MaxLooks
  /\ frame \in Frames \cup {NoFrame}
  /\ found \in BOOLEAN
  /\ result \in [who : People, at : Places, look : Looks] \cup {Nobody}
  /\ strays \in 0..looks

\* Without template images a checkpoint stays with the person it began with: when
\* that person is in the frame, not far from where it was found last and with a
\* look that is like the last one, and everybody else looks different, no box that
\* YOLO is surer of and none that is closer takes its place, however often the
\* person was lost in between and however much its look has changed since the start.
StaysWith ==
  [][/\ template = NoTemplate
     /\ result.who \in DOMAIN frame'
     /\ LET c == frame'[result.who]
        IN  /\ Dist[result.at][c.at] <= Leap /\ Alike[result.look][c.look] >= Same
            /\ \A q \in DOMAIN frame' \ {result.who} : Alike[result.look][frame'[q].look] <= Other
     => result'.who = result.who]_vars

\* With template images the person who alone looks like them is found among the
\* people around it, as long as the looks of the checkpoint at somebody else were no
\* more than Strays: what the template has learnt from those, and it learns the more
\* the stronger their histograms deviate, is too little to matter; and what it has
\* learnt from people it recognises does no harm, however many they were.
TemplateWins ==
  [][fresh # NoTemplate /\ strays <= Strays
     => \A p \in DOMAIN frame' :
          /\ fresh[frame'[p].look] >= Same
          /\ \A q \in DOMAIN frame' \ {p} :
               /\ fresh[frame'[q].look] <= Other
               /\ Dist[frame'[q].at][frame'[p].at] <= Near
          => result'.who = p]_vars

=============================================================================
