------------------------------ MODULE TrustMC ------------------------------
(***************************************************************************)
(* Instances of Reports, BotReviews and Board for TLC.  Each scenario is a *)
(* small instance of one of them; a behaviour stays in the scenario it     *)
(* starts in, and the variables it does not speak of stay as they begin.   *)
(***************************************************************************)
EXTENDS Moderation, TLC

CONSTANTS ana, ben, cas, dan, eve, w1, w2,
          ida,            \* an account whose standing moves
          joe, kim        \* and two that are alike

VARIABLES scenario,
          otherTarget, otherContent, otherReports, otherPenalties, otherAge, otherRunning,
          otherStance, otherReviews, otherCooling, otherWarm, otherAnswers,
          otherSeat, otherGrace, otherVotes, otherPopulation, otherMergers,
          otherDay, otherJob

Alike == Permutations({joe, kim})

Content(kind, author, voters, audience, popularity, oldest) ==
  [kind |-> kind, author |-> author, voters |-> voters, audience |-> audience,
   popularity |-> popularity, oldest |-> oldest]
Project == Content("project", eve, {ana, ben, cas, dan}, 4, 8, 2)
Post    == Content("post", "gone", {ana, ben, cas, dan, eve}, 5, 1, 1)
Message == Content("message", ben, {ana}, 1, 0, 2)
Pieces  == {Project, Post, Message}
Comment == Content("comment", eve, {ana, ben, cas}, 3, 20, 1)

(* Votes on reports that overlap, a warm-up that is undone, and requests   *)
(* about the board that overlap.                                           *)
Overlapping == INSTANCE Reports WITH
  Users <- {ana, ben, cas, eve}, Targets <- {Comment}, Reasons <- {"spam"}, Workers <- {w1, w2},
  MaxReports <- 2,
  target <- otherTarget, content <- otherContent, reports <- otherReports,
  penalties <- otherPenalties, age <- otherAge, running <- otherRunning, job <- otherJob
Warmth == INSTANCE BotReviews WITH
  Users <- {ana, ben}, Founders <- {ana}, Earned <- {}, Targets <- {ben},
  Days <- {0}, Workers <- {w1}, Warming <- {ben}, MaxReviews <- 0,
  stance <- otherStance, reviews <- otherReviews, cooling <- otherCooling, warm <- otherWarm,
  answers <- otherAnswers, day <- otherDay, job <- otherJob
Rivals == INSTANCE Board WITH
  Users <- {ana}, Voters <- {ana, ben}, Volunteers <- {ana}, Populations <- {2},
  Workers <- {w1, w2}, LastDay <- 8,
  seat <- otherSeat, grace <- otherGrace, votes <- otherVotes, population <- otherPopulation,
  mergers <- otherMergers, day <- otherDay, job <- otherJob

ofReports    == <<target, content, reports, penalties, age, running, reportJob>>
ofReviews    == <<stance, reviews, cooling, warm, answers, reviewDay, reviewJob>>
ofBoard      == <<seat, grace, votes, population, mergers, boardDay, boardJob>>
otherReport  == <<otherTarget, otherContent, otherReports, otherPenalties, otherAge, otherRunning>>
otherReview  == <<otherStance, otherReviews, otherCooling, otherWarm, otherAnswers>>
otherBoard   == <<otherSeat, otherGrace, otherVotes, otherPopulation, otherMergers>>
otherRequest == <<otherDay, otherJob>>
allVars == <<scenario, ofReports, ofReviews, ofBoard, otherReport, otherReview, otherBoard, otherRequest>>

NoOtherReport ==
  /\ otherTarget = "unused" /\ otherContent = "unused" /\ otherReports = "unused"
  /\ otherPenalties = "unused" /\ otherAge = "unused" /\ otherRunning = "unused"
NoOtherReview ==
  /\ otherStance = "unused" /\ otherReviews = "unused" /\ otherCooling = "unused"
  /\ otherWarm = "unused" /\ otherAnswers = "unused"
NoOtherBoard ==
  /\ otherSeat = "unused" /\ otherGrace = "unused" /\ otherVotes = "unused"
  /\ otherPopulation = "unused" /\ otherMergers = "unused"

MCInit ==
  /\ scenario \in {"reports", "marks", "seats", "overlapping", "warmth", "rivals"}
  /\ Judged!Init /\ Reviewed!Init /\ Seated!Init
  /\ scenario # "reports" => target = Message
  /\ scenario # "seats" => population = 0
  /\ \/ scenario \in {"reports", "marks", "seats"} /\ otherDay = "unused" /\ otherJob = "unused"
        /\ NoOtherReport /\ NoOtherReview /\ NoOtherBoard
     \/ scenario = "overlapping" /\ otherDay = "unused"
        /\ Overlapping!Init /\ NoOtherReview /\ NoOtherBoard
     \/ scenario = "warmth" /\ Warmth!Init /\ NoOtherReport /\ NoOtherBoard
     \/ scenario = "rivals" /\ Rivals!Init /\ NoOtherReport /\ NoOtherReview

MCNext ==
  /\ UNCHANGED scenario
  /\ \/ scenario = "reports" /\ Judged!Next
        /\ UNCHANGED <<ofReviews, ofBoard, otherReport, otherReview, otherBoard, otherRequest>>
     \/ scenario = "marks" /\ Reviewed!Next
        /\ UNCHANGED <<ofReports, ofBoard, otherReport, otherReview, otherBoard, otherRequest>>
     \/ scenario = "seats" /\ Seated!Next
        /\ UNCHANGED <<ofReports, ofReviews, otherReport, otherReview, otherBoard, otherRequest>>
     \/ scenario = "overlapping" /\ Overlapping!Next
        /\ UNCHANGED <<ofReports, ofReviews, ofBoard, otherReview, otherBoard, otherDay>>
     \/ scenario = "warmth" /\ Warmth!Next
        /\ UNCHANGED <<ofReports, ofReviews, ofBoard, otherReport, otherBoard>>
     \/ scenario = "rivals" /\ Rivals!Next
        /\ UNCHANGED <<ofReports, ofReviews, ofBoard, otherReport, otherReview>>

MCSpec == MCInit /\ [][MCNext]_allVars

-----------------------------------------------------------------------------
(* "anyone who vouched for it can't vouch for 30 days" (bot_reviews.py:5). *)
VouchersAnswer == [][Reviewed!VouchersAnswer]_(Reviewed!vars)

(* "Three marks from full members open a review that every full member can *)
(* vote on" (bot_reviews.py:3-4).                                          *)
ThreeMarksOpenAReview == Reviewed!ThreeMarksOpenAReview
=============================================================================
