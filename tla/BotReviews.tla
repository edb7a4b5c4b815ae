----------------------------- MODULE BotReviews -----------------------------
(***************************************************************************)
(* The standing of accounts and the public bot reviews that pause them:    *)
(* app/services/standing.py, bot_reviews.py and the stances of trust.py.   *)
(*                                                                         *)
(* A mark, a vote, a look at a profile and a request for a second review   *)
(* read first and write later; a look settles the review that it finds.    *)
(***************************************************************************)
EXTENDS Votes, Sequences

CONSTANTS Users,
          Founders,     \* the first accounts, which start full
          Earned,       \* who completed a service or has been active for long
          Targets,      \* accounts that members take a stance on
          Days,         \* the days on which something happens
          Workers,      \* requests the API serves at the same time
          Warming,      \* accounts whose warm-up a penalty may undo
          MaxReviews    \* bound

VARIABLES stance,    \* account_stances: of a source on a target
          reviews,   \* bot_reviews, with their votes
          cooling,   \* bot_mark_cooldowns: until when a marker may not mark a target
          warm,      \* accounts past the warm-up
          answers,   \* when an account that somebody vouched for was last found to be a bot
          day,
          job        \* what each worker is doing

vars == <<stance, reviews, cooling, warm, answers, day, job>>

Idle         == [op |-> "idle"]
Never        == -100
MarksToOpen  == 3
MinVotes     == 3
ReviewDays   == 7
CooldownDays == 30
AppealAfter  == 30
Closed       == {"upheld", "cleared"}
Sides        == {"bot", "real"}

(* closing numbers the reviews in the order they were closed in.           *)
ReviewRow ==
  [target : Targets, status : Closed \cup {"open"}, appeal : BOOLEAN, opened : Days,
   closed : Days, closing : Nat, votes : [Users -> Sides \cup {"none"}]]
Jobs ==
  {Idle}
  \cup [op : {"mark"}, user : Users, target : Targets, opens : BOOLEAN]
  \cup [op : {"vote"}, user : Users, id : 1..MaxReviews, vote : Sides]
  \cup [op : {"voted"}, user : Users, id : 1..MaxReviews, vote : Sides,
        outcome : Closed \cup {"open"}]
  \cup [op : {"settle"}, id : 1..MaxReviews, outcome : Closed]
  \cup [op : {"appeal"}, user : Targets]

TypeOK ==
  /\ stance \in [Users -> [Targets -> {"none", "vouch", "bot"}]]
  /\ reviews \in Seq(ReviewRow) /\ Len(reviews) <= MaxReviews
  /\ cooling \in [Users -> [Targets -> Int]]
  /\ warm \subseteq Users
  /\ answers \in [Users -> Int]
  /\ day \in Days
  /\ job \in [Workers -> Jobs]

Init ==
  /\ stance = [u \in Users |-> [t \in Targets |-> "none"]]
  /\ reviews = <<>>
  /\ cooling = [u \in Users |-> [t \in Targets |-> Never]]
  /\ warm = Users
  /\ answers = [u \in Users |-> Never]
  /\ day = Min(Days)
  /\ job = [w \in Workers |-> Idle]

StartJob(w, j) == job[w] = Idle /\ job' = [job EXCEPT ![w] = j]
EndJob(w) == job' = [job EXCEPT ![w] = Idle]
Free == \E w \in Workers : job[w] = Idle

-----------------------------------------------------------------------------
(* Standing.  An account is paused by the last review of it that was       *)
(* closed; it is full if it is a founder, or warm and either earned it or  *)
(* vouched for by a full member.                                           *)
Of(t) == {i \in DOMAIN reviews : reviews[i].target = t}
OpenOf(t) == {i \in Of(t) : reviews[i].status = "open"}
ClosedOf(t) == {i \in Of(t) : reviews[i].status \in Closed}
LatestClosed(t) ==
  CHOOSE i \in ClosedOf(t) : \A k \in ClosedOf(t) : reviews[k].closing <= reviews[i].closing
Paused == {t \in Targets : ClosedOf(t) # {} /\ reviews[LatestClosed(t)].status = "upheld"}

Vouched(t, by, stances) == \E u \in by : stances[u][t] = "vouch"
FullAmong(past, paused, stances) ==
  LET Within[n \in 0..Cardinality(Targets)] ==
        IF n = 0 THEN (Founders \cup (past \cap Earned)) \ paused
        ELSE LET before == Within[n - 1]
             IN  before \cup {u \in (past \cap Targets) \ paused : Vouched(u, before, stances)}
  IN  Within[Cardinality(Targets)]
Full == FullAmong(warm, Paused, stance)

-----------------------------------------------------------------------------
(* Stances.                                                                *)
Markers(t) == {u \in Users : stance[u][t] = "bot"}
OnCooldown(u, t) == cooling[u][t] > day
VouchBanned(u) ==
  \E i \in DOMAIN reviews :
    /\ reviews[i].status = "upheld"
    /\ reviews[i].closed > day - CooldownDays
    /\ stance[u][reviews[i].target] = "vouch"

ClearStance(u, t) ==
  /\ u # t
  /\ stance[u][t] # "none"
  /\ stance' = [stance EXCEPT ![u][t] = "none"]
  /\ UNCHANGED <<reviews, cooling, warm, answers, day, job>>

Vouch(u, t) ==
  /\ u # t
  /\ u \in Full
  /\ ~ VouchBanned(u)
  /\ stance' = [stance EXCEPT ![u][t] = "vouch"]
  /\ UNCHANGED <<reviews, cooling, warm, answers, day, job>>

(* A mark opens a review once three marks of full members count.  The      *)
(* request has made the mark by then, and what it replaced, a vouch        *)
(* perhaps, supports nobody's standing any more.                           *)
CountingMarkers(t) == {u \in Markers(t) \cap Full : ~ OnCooldown(u, t)}
(* Mutant: the mark being made is left out.                                *)
MayOpenBefore(u, t) ==
  OpenOf(t) = {} /\ t \notin Paused /\ Cardinality(CountingMarkers(t)) >= MarksToOpen
MayOpenReview(u, t) ==
  LET marked   == [stance EXCEPT ![u][t] = "bot"]
      Counts(v) == /\ marked[v][t] = "bot"
                   /\ v \in FullAmong(warm, Paused, marked)
                   /\ ~ OnCooldown(v, t)
  IN  /\ OpenOf(t) = {}
      /\ t \notin Paused
      /\ Cardinality({v \in Users : Counts(v)}) >= MarksToOpen

StartMark(w, u, t) ==
  /\ u # t
  /\ StartJob(w, [op |-> "mark", user |-> u, target |-> t, opens |-> MayOpenReview(u, t)])
  /\ u \in Full
  /\ ~ OnCooldown(u, t)
  /\ UNCHANGED <<stance, reviews, cooling, warm, answers, day>>

NewReview(t, appeal) ==
  [target |-> t, status |-> "open", appeal |-> appeal, opened |-> day, closed |-> day,
   closing |-> 0, votes |-> [u \in Users |-> "none"]]

CommitMark(w) ==
  /\ job[w].op = "mark"
  /\ LET j == job[w]
     IN  /\ stance' = [stance EXCEPT ![j.user][j.target] = "bot"]
         /\ IF j.opens
            THEN Len(reviews) < MaxReviews /\ reviews' = Append(reviews, NewReview(j.target, FALSE))
            ELSE reviews' = reviews
  /\ EndJob(w)
  /\ UNCHANGED <<cooling, warm, answers, day>>

-----------------------------------------------------------------------------
(* Reviews.  Votes of full members count; all of them were active in the   *)
(* week.  A review is upheld when enough votes say bot, and cleared when   *)
(* real votes rule that out or the week is over.                           *)
Counted(votes, voters, side) == Cardinality({u \in voters : votes[u] = side})
Needed(population) == Max({MinVotes, RequiredVotes(population)})
EnoughSayBot(bot, total, needed) == total >= needed /\ 100 * bot >= 66 * total

Settled(id, votes) ==
  LET voters == Full
      needed == Needed(Cardinality(voters))
      bot    == Counted(votes, voters, "bot")
      real   == Counted(votes, voters, "real")
      most   == Max({Cardinality(voters), needed, bot + real})
  IN  IF EnoughSayBot(bot, bot + real, needed) THEN "upheld"
      ELSE IF \/ reviews[id].opened < day - ReviewDays
              \/ real > 0 /\ ~ EnoughSayBot(most - real, most, needed) THEN "cleared"
      ELSE "open"

NextClosing == Max({reviews[i].closing : i \in DOMAIN reviews} \cup {0}) + 1

(* Close a review: the account is paused and its vouchers answer for it,   *)
(* or its marks are removed and the markers may not mark it for a while.   *)
Close(id, votes, outcome) ==
  LET t == reviews[id].target
  IN  /\ reviews' = [reviews EXCEPT ![id].votes = votes, ![id].status = outcome,
                                    ![id].closed = day, ![id].closing = NextClosing]
      /\ IF outcome = "upheld"
         THEN /\ answers' = [u \in Users |-> IF stance[u][t] = "vouch" THEN day ELSE answers[u]]
              /\ UNCHANGED <<stance, cooling>>
         ELSE /\ stance' = [u \in Users |-> [stance[u] EXCEPT ![t] = IF @ = "bot" THEN "none" ELSE @]]
              /\ cooling' = [u \in Users |->
                   [cooling[u] EXCEPT ![t] = IF u \in Markers(t) THEN day + CooldownDays ELSE @]]
              /\ UNCHANGED answers

StartReviewVote(w, u, t, vote) ==
  /\ u # t
  /\ \E id \in OpenOf(t) :
       StartJob(w, [op |-> "vote", user |-> u, id |-> id, vote |-> vote])
  /\ u \in Full
  /\ UNCHANGED <<stance, reviews, cooling, warm, answers, day>>

Voted(j) == [reviews[j.id].votes EXCEPT ![j.user] = j.vote]

TallyReviewVote(w) ==
  /\ job[w].op = "vote"
  /\ LET j == job[w]
     IN  job' = [job EXCEPT ![w] =
           [op |-> "voted", user |-> j.user, id |-> j.id, vote |-> j.vote,
            outcome |-> Settled(j.id, Voted(j))]]
  /\ UNCHANGED <<stance, reviews, cooling, warm, answers, day>>

CommitReviewVote(w) ==
  /\ job[w].op = "voted"
  /\ LET j == job[w]
     IN  IF j.outcome = "open"
         THEN /\ reviews' = [reviews EXCEPT ![j.id].votes = Voted(j)]
              /\ UNCHANGED <<stance, cooling, answers>>
         ELSE Close(j.id, Voted(j), j.outcome)
  /\ EndJob(w)
  /\ UNCHANGED <<warm, day>>

(* Whoever looks at the profile settles an open review that is decided.    *)
LookAtProfile(w, t) ==
  /\ \E id \in OpenOf(t) :
       /\ StartJob(w, [op |-> "settle", id |-> id, outcome |-> Settled(id, reviews[id].votes)])
       /\ Settled(id, reviews[id].votes) # "open"
  /\ UNCHANGED <<stance, reviews, cooling, warm, answers, day>>

CommitSettle(w) ==
  /\ job[w].op = "settle"
  /\ Close(job[w].id, reviews[job[w].id].votes, job[w].outcome)
  /\ EndJob(w)
  /\ UNCHANGED <<warm, day>>

(* A paused account may ask once for another review, 30 days later.        *)
StartReReview(w, t) ==
  /\ t \in Paused
  /\ LET latest == reviews[LatestClosed(t)]
     IN  ~ latest.appeal /\ latest.closed <= day - AppealAfter
  /\ OpenOf(t) = {}
  /\ StartJob(w, [op |-> "appeal", user |-> t])
  /\ UNCHANGED <<stance, reviews, cooling, warm, answers, day>>

CommitReReview(w) ==
  /\ job[w].op = "appeal"
  /\ Len(reviews) < MaxReviews
  /\ reviews' = Append(reviews, NewReview(job[w].user, TRUE))
  /\ EndJob(w)
  /\ UNCHANGED <<stance, cooling, warm, answers, day>>

Rollback(w) == job[w] # Idle /\ EndJob(w)
               /\ UNCHANGED <<stance, reviews, cooling, warm, answers, day>>

(* A penalty undoes the warm-up, and time brings it back: here, between    *)
(* two requests or beside another one, never within the only one.          *)
WarmUp(u) ==
  /\ Free
  /\ u \in Warming
  /\ warm' = IF u \in warm THEN warm \ {u} ELSE warm \cup {u}
  /\ UNCHANGED <<stance, reviews, cooling, answers, day, job>>

Tomorrow ==
  /\ day < Max(Days)
  /\ day' = Min({d \in Days : d > day})
  /\ UNCHANGED <<stance, reviews, cooling, warm, answers, job>>

-----------------------------------------------------------------------------
Next ==
  \/ \E u \in Users, t \in Targets : Free /\ (ClearStance(u, t) \/ Vouch(u, t))
  \/ \E w \in Workers :
       \/ \E u \in Users, t \in Targets :
            \/ StartMark(w, u, t)
            \/ \E vote \in Sides : StartReviewVote(w, u, t, vote)
       \/ \E t \in Targets : LookAtProfile(w, t) \/ StartReReview(w, t)
       \/ CommitMark(w)
       \/ TallyReviewVote(w)
       \/ CommitReviewVote(w)
       \/ CommitSettle(w)
       \/ CommitReReview(w)
       \/ Rollback(w)
  \/ \E u \in Users : WarmUp(u)
  \/ Tomorrow

Spec == Init /\ [][Next]_vars

-----------------------------------------------------------------------------
(* One request at a time, the mark that makes three count leaves the       *)
(* account paused or with an open review, and no review is opened unless   *)
(* by three marks that count or as a re-review; an account has one open    *)
(* review, and whoever marked an account that was cleared does not mark it *)
(* again for 30 days (bot_reviews.py:3-7, 129-169, trust.py:766-782).      *)
NewMark(t) == \E u \in Users : stance[u][t] # "bot" /\ stance'[u][t] = "bot"
Opened(t) == \E i \in OpenOf(t)' \ OpenOf(t) : ~ reviews'[i].appeal
EnoughMarks(t) == Cardinality(CountingMarkers(t)) >= MarksToOpen
MarksAreAnswered ==
  \A t \in Targets :
    /\ NewMark(t) /\ EnoughMarks(t)' => t \in Paused' \/ OpenOf(t)' # {}
    /\ Opened(t) => EnoughMarks(t)'
    /\ \A i, k \in OpenOf(t)' : i = k
    /\ \A u \in Markers(t)' : ~ OnCooldown(u, t)'

(* Three marks of full members open a review (bot_reviews.py:3-4).         *)
ThreeMarksOpenAReview ==
  \A t \in Targets : EnoughMarks(t) => t \in Paused \/ OpenOf(t) # {}

(* Who vouched for an account that is found to be a bot takes 30 days      *)
(* before vouching again (bot_reviews.py:5).                               *)
VouchersAnswer ==
  \A u \in Users, t \in Targets :
    stance[u][t] # "vouch" /\ stance'[u][t] = "vouch" => answers[u] + CooldownDays <= day
=============================================================================
