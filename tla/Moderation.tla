----------------------------- MODULE Moderation -----------------------------
(***************************************************************************)
(* What keeps content and accounts in order, side by side: the reports on  *)
(* a piece of content, the reviews of accounts and the moderators' board.  *)
(* They share the workers of the API and no state.                         *)
(***************************************************************************)
EXTENDS Naturals, FiniteSets

CONSTANTS Workers,
          Reporters, Contents, Reasons, MaxReports,     \* of Reports,
          Accounts, Founders, Earned, Suspects, Days,   \* of BotReviews
          Warming, MaxReviews,
          Persons, Electors, Volunteers, Populations,   \* and of Board
          LastDay

VARIABLES target, content, reports, penalties, age, running, reportJob,
          stance, reviews, cooling, warm, answers, reviewDay, reviewJob,
          seat, grace, votes, population, mergers, boardDay, boardJob

Judged == INSTANCE Reports WITH Users <- Reporters, Targets <- Contents, job <- reportJob
Reviewed == INSTANCE BotReviews WITH
  Users <- Accounts, Targets <- Suspects, day <- reviewDay, job <- reviewJob
Seated == INSTANCE Board WITH Users <- Persons, Voters <- Electors, day <- boardDay, job <- boardJob

(* One vote at a time, the content is in the state that the last report    *)
(* with a yes vote asks for; a report hides nothing but serious harm, and  *)
(* is dismissed only when it cannot delete any more                        *)
(* (moderation/serialize.py:294-421).                                      *)
StateFollowsReports == Judged!StateFollowsReports

(* One request at a time, the mark that makes three count leaves the       *)
(* account paused or with an open review, and no review is opened unless   *)
(* by three marks that count or as a re-review; an account has one open    *)
(* review, and whoever marked an account that was cleared does not mark it *)
(* again for 30 days (bot_reviews.py:3-7, 129-169, trust.py:766-782).      *)
MarksAreAnswered == [][Reviewed!MarksAreAnswered]_(Reviewed!vars)

(* One request at a time, a member with votes has two thirds of them after *)
(* every request, and a member who does not resign goes only for losing    *)
(* them or after a grace period that began on record (board.py:126-236).   *)
SeatsFollowVotes == [][Seated!SeatsFollowVotes]_(Seated!vars)
=============================================================================
