----------------------------- MODULE Discussion -----------------------------
(***************************************************************************)
(* What people say under a post, a thread, a project, an event or a help   *)
(* request, and the votes on it (app/services/governance.py and the        *)
(* creation of content in app/services/content).  Texts, attachments and   *)
(* moderation (see Reports) are left out.                                  *)
(*                                                                         *)
(* A comment has the number of its turn, 0 stands for the subject itself.  *)
(* A handler reads in one step and commits in the next; notifications come *)
(* after the commit, in transactions of their own.                         *)
(***************************************************************************)
EXTENDS Integers, Sequences, FiniteSets, FiniteSetsExt

CONSTANTS Users,
          Paused,      \* accounts a bot review paused
          Insiders,    \* members of the private communities, or followers of the author
          Kind,        \* what the discussion is about
          Tags,        \* sets of tags given to what is created
          Mentions,    \* sets of people a text mentions
          Directions,  \* votes cast, of -1..1
          Faults,      \* whether a notification may fail
          Workers, MaxComments

VARIABLES subject, comments, commentCount, ballots, tally,
          heard,       \* notifications: <<recipient, kind, comment>>
          job

vars == <<subject, comments, commentCount, ballots, tally, heard, job>>

Audiences  == {"public", "followers", "members"}
NoSubject  == [by |-> "nobody", closed |-> FALSE]
Targets    == 0..MaxComments
CommentRow == [by : Users, parent : Targets, state : {"here", "emptied", "gone"}]
Note       == Users \X {"reply", "mention"} \X (1..MaxComments)
Idle       == [op |-> "idle"]
Jobs == {Idle}
        \cup [op : {"comment"}, user : Users, parent : Targets]
        \cup [op : {"reply", "mention"}, comment : 1..MaxComments]
        \cup [op : {"vote"}, user : Users, target : Targets, old : -1..1, new : -1..1,
              kept : BOOLEAN]
        \cup [op : {"delete"}, comment : 1..MaxComments, replies : BOOLEAN]

TypeOK ==
  /\ subject \in {NoSubject} \cup [by : Users, closed : BOOLEAN]
  /\ comments \in Seq(CommentRow) /\ Len(comments) <= MaxComments
  /\ commentCount \in 0..MaxComments
  /\ ballots \in [Targets -> [Users -> -1..1]]
  /\ tally \in [Targets -> Int]
  /\ heard \subseteq Note
  /\ job \in [Workers -> Jobs]

Init ==
  /\ subject = NoSubject /\ comments = <<>> /\ commentCount = 0
  /\ ballots = [t \in Targets |-> [u \in Users |-> 0]]
  /\ tally = [t \in Targets |-> 0]
  /\ heard = {} /\ job = [w \in Workers |-> Idle]

Begin(w, j) ==
  /\ job[w] = Idle /\ job' = [job EXCEPT ![w] = j]
  /\ UNCHANGED <<subject, comments, commentCount, ballots, tally, heard>>

-----------------------------------------------------------------------------
(* What is created, and for whom.                                          *)
CreateSubject(u, closed) ==
  /\ subject = NoSubject
  /\ subject' = [by |-> u, closed |-> closed]
  /\ UNCHANGED <<comments, commentCount, ballots, tally, heard, job>>

CreatePost(u, audience) ==
  /\ Kind = "post" /\ u \notin Paused /\ audience # "members"
  /\ CreateSubject(u, audience = "followers")

(* A tag of an open community or a channel opens it to everybody; a        *)
(* private community is tagged by its members only.                        *)
MayTag(u, tags) == "private" \in tags => u \in Insiders
ClosedOnly(tags) == tags = {"private"}

CreateThread(u, tags) ==
  /\ Kind = "thread" /\ tags # {} /\ MayTag(u, tags)
  /\ CreateSubject(u, ClosedOnly(tags))

CreateHelpRequest(u, tags) ==
  /\ Kind = "help_request" /\ tags # {} /\ MayTag(u, tags)
  /\ CreateSubject(u, ClosedOnly(tags))

CreateProject(u, tags) ==
  /\ Kind = "project" /\ MayTag(u, tags)
  /\ CreateSubject(u, ClosedOnly(tags))

(* A private event is for those who are in it, however it is tagged.       *)
CreateEvent(u, tags, audience) ==
  /\ Kind = "event" /\ audience # "followers" /\ MayTag(u, tags)
  /\ CreateSubject(u, audience = "members" \/ ClosedOnly(tags))

CreateFeedback(u) == Kind = "platform_feedback" /\ CreateSubject(u, FALSE)

CanView(u) ==
  /\ subject # NoSubject
  /\ subject.closed => u \in Insiders \cup {subject.by}

-----------------------------------------------------------------------------
Here(c) == comments[c].state # "gone"
Replies(c) == {d \in DOMAIN comments : Here(d) /\ comments[d].parent = c}
Commentable == Kind # "platform_feedback"

(* A comment needs the comment it answers when it is written, too.         *)
StartComment(w, u, parent) ==
  /\ Commentable /\ u \notin Paused /\ CanView(u)
  /\ parent # 0 => Here(parent)
  /\ Begin(w, [op |-> "comment", user |-> u, parent |-> parent])

CommitComment(w) ==
  /\ job[w].op = "comment"
  /\ job[w].parent # 0 => Here(job[w].parent)
  /\ Len(comments) < MaxComments
  /\ comments' = Append(comments, [by |-> job[w].user, parent |-> job[w].parent, state |-> "here"])
  /\ commentCount' = commentCount + 1
  /\ job' = [job EXCEPT ![w] = [op |-> "reply", comment |-> Len(comments')]]
  /\ UNCHANGED <<subject, ballots, tally, heard>>

(* The owner hears of it, and who wrote the comment that is answered.      *)
(* Mutant: an answer is for the one who is answered.                       *)
AnsweredOnly(c) ==
  (IF comments[c].parent = 0 THEN {subject.by}
   ELSE IF Here(comments[c].parent) THEN {comments[comments[c].parent].by}
   ELSE {}) \ {comments[c].by}
Recipients(c) ==
  ({subject.by} \cup
   {comments[p].by : p \in {q \in DOMAIN comments : q = comments[c].parent /\ Here(q)}})
  \ {comments[c].by}

(* The context of a comment on an event is read from a column that the     *)
(* table does not have: the error is logged, and nobody hears of it.       *)
HasContext == Kind # "event"

ContextFails(w) ==
  /\ job[w].op = "reply" /\ ~ HasContext
  /\ job' = [job EXCEPT ![w] = Idle]
  /\ UNCHANGED <<subject, comments, commentCount, ballots, tally, heard>>

NotifyCommentRecipients(w) ==
  /\ job[w].op = "reply" /\ HasContext
  /\ LET c == job[w].comment IN heard' = heard \cup {<<u, "reply", c>> : u \in Recipients(c)}
  /\ job' = [job EXCEPT ![w].op = "mention"]
  /\ UNCHANGED <<subject, comments, commentCount, ballots, tally>>

MentionSubjects == {"project", "event", "thread", "post"}

NotifyMentioned(w, mentioned) ==
  /\ job[w].op = "mention"
  /\ Kind \notin MentionSubjects => mentioned = {}
  /\ LET c == job[w].comment
     IN  heard' = heard \cup {<<u, "mention", c>> : u \in mentioned \ {comments[c].by}}
  /\ job' = [job EXCEPT ![w] = Idle]
  /\ UNCHANGED <<subject, comments, commentCount, ballots, tally>>

-----------------------------------------------------------------------------
(* An author takes a comment back: it keeps its place when it was answered *)
(* before that was read, otherwise it goes, and all under it.              *)
(* Mutant: nobody looks for answers.                                       *)
NeverReplied(c) == FALSE
HasReplies(c) == Replies(c) # {}

StartDeleteOwnComment(w, c) ==
  /\ Here(c)
  /\ Begin(w, [op |-> "delete", comment |-> c, replies |-> HasReplies(c)])

Under(c) ==
  LET under[d \in DOMAIN comments] ==
        d = c \/ (comments[d].parent # 0 /\ under[comments[d].parent])
  IN  {d \in DOMAIN comments : under[d]}

CommitDeleteOwnComment(w) ==
  /\ job[w].op = "delete"
  /\ LET c == job[w].comment
     IN  comments' = [d \in DOMAIN comments |->
           IF ~ Here(c) THEN comments[d]
           ELSE IF job[w].replies
                THEN [comments[d] EXCEPT !.state = IF d = c THEN "emptied" ELSE @]
                ELSE [comments[d] EXCEPT !.state = IF d \in Under(c) THEN "gone" ELSE @]]
  /\ job' = [job EXCEPT ![w] = Idle]
  /\ UNCHANGED <<subject, commentCount, ballots, tally, heard>>

(* What a page of all comments shows: the roots and what hangs on them.    *)
Tree ==
  LET shown[c \in DOMAIN comments] ==
        Here(c) /\ (comments[c].parent = 0 \/ shown[comments[c].parent])
  IN  {c \in DOMAIN comments : shown[c]}

-----------------------------------------------------------------------------
(* Votes.  The row of a voter is inserted, or the row that was found is    *)
(* changed or deleted; the count moves by the difference to what was read. *)
Votable(t) ==
  IF t = 0 THEN Kind \in {"thread", "post", "help_request", "platform_feedback"}
  ELSE t \in DOMAIN comments /\ Here(t)

StartVote(w, u, t, direction) ==
  /\ CanView(u) /\ Votable(t)
  /\ LET found == ballots[t][u]
     IN  Begin(w, [op |-> "vote", user |-> u, target |-> t, old |-> found, new |-> direction,
                   kept |-> found # 0])

(* Mutant: the vote is counted, whatever was there.                        *)
NewOnly(j) == j.new
Delta(j) == j.new - j.old
SameRow(i, j) == i.op = "vote" /\ i.user = j.user /\ i.target = j.target

CommitVote(w) ==
  LET j       == job[w]
      inserts == j.old = 0 /\ j.new # 0
      deletes == j.old # 0 /\ j.new = 0
  IN  /\ j.op = "vote"
      /\ inserts => ballots[j.target][j.user] = 0
      /\ ballots' = [ballots EXCEPT ![j.target][j.user] = IF inserts \/ j.kept THEN j.new ELSE @]
      /\ tally' = [tally EXCEPT ![j.target] = @ + Delta(j)]
      /\ job' = [x \in Workers |->
                   IF x = w THEN Idle
                   ELSE IF deletes /\ SameRow(job[x], j) THEN [job[x] EXCEPT !.kept = FALSE]
                   ELSE job[x]]
      /\ UNCHANGED <<subject, comments, commentCount, heard>>

Upvotes(t)   == Quantify(Users, LAMBDA u : ballots[t][u] = 1)
Downvotes(t) == Quantify(Users, LAMBDA u : ballots[t][u] = -1)

(* A transaction that fails, or a notification, which is only logged.      *)
Rollback(w) ==
  /\ job[w] # Idle
  /\ job[w].op \in {"reply", "mention"} => Faults
  /\ job' = [job EXCEPT ![w] = Idle]
  /\ UNCHANGED <<subject, comments, commentCount, ballots, tally, heard>>

Next ==
  \/ \E u \in Users :
       \/ \E audience \in Audiences :
            CreatePost(u, audience) \/ \E tags \in Tags : CreateEvent(u, tags, audience)
       \/ \E tags \in Tags : CreateThread(u, tags) \/ CreateHelpRequest(u, tags) \/ CreateProject(u, tags)
       \/ CreateFeedback(u)
  \/ \E w \in Workers :
       \/ \E u \in Users, t \in {0} \cup DOMAIN comments :
            \/ StartComment(w, u, t)
            \/ \E d \in Directions : StartVote(w, u, t, d)
       \/ \E c \in DOMAIN comments : StartDeleteOwnComment(w, c)
       \/ CommitComment(w) \/ ContextFails(w) \/ NotifyCommentRecipients(w)
       \/ \E mentioned \in Mentions : NotifyMentioned(w, mentioned)
       \/ CommitDeleteOwnComment(w) \/ CommitVote(w) \/ Rollback(w)

Spec == Init /\ [][Next]_vars

-----------------------------------------------------------------------------
(* One request at a time, the count of votes that is kept with a subject   *)
(* or a comment is that of the votes (governance.py:749, feedback.py:58).  *)
TalliesAgree == \A t \in Targets : tally[t] = Upvotes(t) - Downvotes(t)

(* However requests overlap, a comment that is there is found by who reads *)
(* the discussion from its roots (governance.py:655-699).                  *)
EveryCommentShows == Tree = {c \in DOMAIN comments : Here(c)}

(* One request at a time, and when no notification fails, the owner of a   *)
(* subject and whoever was answered have heard of every comment but their  *)
(* own (governance.py:300-345).                                            *)
AnswersAreHeard ==
  \A c \in DOMAIN comments :
    (\A w \in Workers : job[w] # [op |-> "reply", comment |-> c]) =>
      \A u \in {subject.by} \cup {comments[p].by : p \in DOMAIN comments \cap {comments[c].parent}} :
        u = comments[c].by \/ <<u, "reply", c>> \in heard

(* "Replies from other people stay: a comment with replies keeps its       *)
(* place" (governance.py:833), one request at a time.                      *)
RepliesStay ==
  \A c \in DOMAIN comments : (Here(c) /\ comments'[c].state = "gone") => Replies(c) = {}
=============================================================================
