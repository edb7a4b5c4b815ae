------------------------------ MODULE PeopleMC ------------------------------
(***************************************************************************)
(* Instances of Sessions, Discussion, Conversations, LinkedChats, Follows, *)
(* Scopes and Feeds for TLC.  Each scenario is a small instance of one of  *)
(* them; a behaviour stays in the scenario it starts in, sessions stay as  *)
(* they begin, and what the other modules speak of is unused.              *)
(***************************************************************************)
EXTENDS Sessions, Integers

CONSTANTS ana, ben, cas, w1, w2

VARIABLES scenario, job, comments, members, guests, follows, now, news,
          subject, commentCount, ballots, tally, heard,
          chats, messages, pins, row,
          approval, wants, notes,
          scopes, guestCount, links, joined, invites, told,
          hides, items, remarks

OfDiscussion == <<subject, commentCount, ballots, tally, heard>>
OfChats      == <<chats, messages, pins>>
OfFollows    == <<approval, wants, notes>>
OfScopes     == <<scopes, guestCount, links, joined, invites, told>>
OfFeeds      == <<hides, items, remarks>>

NoDiscussion ==
  /\ subject = "unused" /\ commentCount = "unused" /\ ballots = "unused" /\ tally = "unused"
  /\ heard = "unused"
NoChats == chats = "unused" /\ messages = "unused" /\ pins = "unused"
NoFollows == approval = "unused" /\ wants = "unused" /\ notes = "unused"
NoScopes ==
  /\ scopes = "unused" /\ guestCount = "unused" /\ links = "unused" /\ joined = "unused"
  /\ invites = "unused" /\ told = "unused"
NoFeeds == hides = "unused" /\ items = "unused" /\ remarks = "unused"

-----------------------------------------------------------------------------
Post == INSTANCE Discussion WITH
  Users <- {ana, ben}, Paused <- {}, Insiders <- {ben}, Kind <- "post", Tags <- {},
  Mentions <- {{}, {ben}}, Directions <- {1, 0}, Faults <- FALSE, Workers <- {w1},
  MaxComments <- 2
Feedback == INSTANCE Discussion WITH
  Users <- {ana, ben, cas}, Paused <- {}, Insiders <- {}, Kind <- "platform_feedback", Tags <- {},
  Mentions <- {{}}, Directions <- -1..1, Faults <- FALSE, Workers <- {w1}, MaxComments <- 1
Thread == INSTANCE Discussion WITH
  Users <- {ana, ben, cas}, Paused <- {ben}, Insiders <- {ana, cas}, Kind <- "thread",
  Tags <- {{"private"}, {"channel", "private"}}, Mentions <- {{}, {ben}},
  Directions <- {}, Faults <- TRUE, Workers <- {w1}, MaxComments <- 2
Project == INSTANCE Discussion WITH
  Users <- {ana, ben}, Paused <- {}, Insiders <- {ana}, Kind <- "project",
  Tags <- {{"channel"}}, Mentions <- {{}}, Directions <- {}, Faults <- FALSE, Workers <- {w1},
  MaxComments <- 4
Raced == INSTANCE Discussion WITH
  Users <- {ana, ben}, Paused <- {}, Insiders <- {ana}, Kind <- "help_request",
  Tags <- {{"channel"}}, Mentions <- {{}}, Directions <- {}, Faults <- FALSE,
  Workers <- {w1, w2}, MaxComments <- 3
Event == INSTANCE Discussion WITH
  Users <- {ana, ben}, Paused <- {}, Insiders <- {ben}, Kind <- "event",
  Tags <- {{"channel"}}, Mentions <- {{}}, Directions <- {}, Faults <- FALSE, Workers <- {w1},
  MaxComments <- 2

Group == INSTANCE Conversations WITH
  Users <- {ana, ben, cas}, Paused <- {}, Kinds <- {"group"}, Calls <- {}, MaxPins <- 1,
  Workers <- {w1}, MaxChats <- 1, LastTime <- 4
Calling == INSTANCE Conversations WITH
  Users <- {ana, ben}, Paused <- {ben}, Kinds <- {"direct"}, Calls <- {"call"}, MaxPins <- 1,
  Workers <- {w1}, MaxChats <- 1, LastTime <- 5

ProjectChat == INSTANCE LinkedChats WITH
  Users <- {ana, ben}, Author <- ana, Kind <- "project", Private <- FALSE, Workers <- {w1},
  LastTime <- 4
EventChat == INSTANCE LinkedChats WITH
  Users <- {ana, ben}, Author <- ana, Kind <- "event", Private <- TRUE, Workers <- {w1},
  LastTime <- 4

Faulty == INSTANCE Sessions WITH
  Tabs <- {w1, w2}, FailClosed <- TRUE, MaxTokens <- 2, MaxFaults <- 1
Lenient == INSTANCE Sessions WITH
  Tabs <- {w1, w2}, FailClosed <- FALSE, MaxTokens <- 2, MaxFaults <- 1

Following == INSTANCE Follows WITH
  Users <- {ana, ben}, Followed <- {ana}, Workers <- {w1}, MaxNotes <- 3
Crossing == INSTANCE Follows WITH
  Users <- {ana, ben}, Followed <- {ana, ben}, Workers <- {w1, w2}, MaxNotes <- 1

Names == INSTANCE Scopes WITH
  Users <- {ana, ben}, Organizer <- ana, Handles <- {"soup", "bread"}, Workers <- {w1},
  Kinds <- {"channel", "open", "closed"}, MaxScopes <- 3, MaxLinks <- 0, MaxInvites <- 0,
  MaxUses <- 0
Doors == INSTANCE Scopes WITH
  Users <- {ana, ben}, Organizer <- ana, Handles <- {"soup"}, Workers <- {w1},
  Kinds <- {"closed"}, MaxScopes <- 1, MaxLinks <- 1, MaxInvites <- 2, MaxUses <- 2

Lists == INSTANCE Feeds WITH
  Users <- {ana, ben}, Authors <- {ana}, Channels <- {"soup"}, Open <- {}, Closed <- {"north"},
  MaxItems <- 1
Walls == INSTANCE Feeds WITH
  Users <- {ana, ben}, Authors <- {ana}, Channels <- {}, Open <- {}, Closed <- {"north", "south"},
  MaxItems <- 1

-----------------------------------------------------------------------------
MCInit ==
  \/ /\ \/ scenario = "post" /\ Post!Init
        \/ scenario = "feedback" /\ Feedback!Init
        \/ scenario = "thread" /\ Thread!Init
        \/ scenario = "project" /\ Project!Init
        \/ scenario = "raced" /\ Raced!Init
        \/ scenario = "event" /\ Event!Init
     /\ members = "unused" /\ guests = "unused" /\ follows = "unused" /\ now = "unused"
     /\ news = "unused" /\ row = "unused"
     /\ Init /\ NoChats /\ NoFollows /\ NoScopes /\ NoFeeds
  \/ /\ \/ scenario = "group" /\ Group!Init
        \/ scenario = "calling" /\ Calling!Init
     /\ comments = "unused" /\ members = "unused" /\ guests = "unused" /\ follows = "unused"
     /\ row = "unused"
     /\ Init /\ NoDiscussion /\ NoFollows /\ NoScopes /\ NoFeeds
  \/ /\ \/ scenario = "project chat" /\ ProjectChat!Init
        \/ scenario = "event chat" /\ EventChat!Init
     /\ guests = "unused" /\ follows = "unused"
     /\ NoDiscussion /\ Init /\ NoChats /\ NoFollows /\ NoScopes /\ NoFeeds
  \/ /\ \/ scenario = "browser" /\ Init
        \/ scenario = "faulty" /\ Faulty!Init
        \/ scenario = "lenient" /\ Lenient!Init
     /\ job = "unused" /\ comments = "unused" /\ members = "unused" /\ guests = "unused"
     /\ follows = "unused" /\ now = "unused" /\ news = "unused" /\ row = "unused"
     /\ NoDiscussion /\ NoChats /\ NoFollows /\ NoScopes /\ NoFeeds
  \/ /\ \/ scenario = "following" /\ Following!Init
        \/ scenario = "crossing" /\ Crossing!Init
     /\ comments = "unused" /\ members = "unused" /\ guests = "unused" /\ now = "unused"
     /\ news = "unused" /\ row = "unused"
     /\ NoDiscussion /\ Init /\ NoChats /\ NoScopes /\ NoFeeds
  \/ /\ \/ scenario = "names" /\ Names!Init
        \/ scenario = "doors" /\ Doors!Init
     /\ comments = "unused" /\ follows = "unused" /\ now = "unused" /\ news = "unused"
     /\ row = "unused"
     /\ NoDiscussion /\ Init /\ NoChats /\ NoFollows /\ NoFeeds
  \/ /\ \/ scenario = "lists" /\ Lists!Init
        \/ scenario = "walls" /\ Walls!Init
     /\ job = "unused" /\ comments = "unused" /\ now = "unused" /\ news = "unused" /\ row = "unused"
     /\ NoDiscussion /\ Init /\ NoChats /\ NoFollows /\ NoScopes

MCNext ==
  /\ UNCHANGED scenario
  /\ \/ /\ \/ scenario = "post" /\ Post!Next
           \/ scenario = "feedback" /\ Feedback!Next
           \/ scenario = "thread" /\ Thread!Next
           \/ scenario = "project" /\ Project!Next
           \/ scenario = "raced" /\ Raced!Next
           \/ scenario = "event" /\ Event!Next
        /\ UNCHANGED <<members, guests, follows, now, news, row,
                       OfChats, vars, OfFollows, OfScopes, OfFeeds>>
     \/ /\ \/ scenario = "group" /\ Group!Next
           \/ scenario = "calling" /\ Calling!Next
        /\ UNCHANGED <<comments, members, guests, follows, row,
                       OfDiscussion, vars, OfFollows, OfScopes, OfFeeds>>
     \/ /\ \/ scenario = "project chat" /\ ProjectChat!Next
           \/ scenario = "event chat" /\ EventChat!Next
        /\ UNCHANGED <<guests, follows, OfDiscussion, OfChats, vars, OfFollows, OfScopes, OfFeeds>>
     \/ /\ \/ scenario = "browser" /\ Next
           \/ scenario = "faulty" /\ Faulty!Next
           \/ scenario = "lenient" /\ Lenient!Next
        /\ UNCHANGED <<job, comments, members, guests, follows, now, news, row,
                       OfDiscussion, OfChats, OfFollows, OfScopes, OfFeeds>>
     \/ /\ \/ scenario = "following" /\ Following!Next
           \/ scenario = "crossing" /\ Crossing!Next
        /\ UNCHANGED <<comments, members, guests, now, news, row,
                       OfDiscussion, OfChats, vars, OfScopes, OfFeeds>>
     \/ /\ \/ scenario = "names" /\ Names!Next
           \/ scenario = "doors" /\ Doors!Next
        /\ UNCHANGED <<comments, follows, now, news, row,
                       OfDiscussion, OfChats, vars, OfFollows, OfFeeds>>
     \/ /\ \/ scenario = "lists" /\ Lists!Next
           \/ scenario = "walls" /\ Walls!Next
        /\ UNCHANGED <<job, comments, now, news, row,
                       OfDiscussion, OfChats, vars, OfFollows, OfScopes>>

allVars == <<scenario, vars, job, comments, members, guests, follows, now, news, row,
             OfDiscussion, OfChats, OfFollows, OfScopes, OfFeeds>>
MCSpec == MCInit /\ [][MCNext]_allVars

-----------------------------------------------------------------------------
(* The properties, each of the scenarios it is about.                      *)

(* One request at a time, the votes of a subject and of each comment are   *)
(* those on record; also when requests overlap, every comment shows        *)
(* (governance.py:416-467 and 655-699).                                    *)
CommentsAgree ==
  /\ scenario = "post" => Post!TalliesAgree
  /\ scenario = "feedback" => Feedback!TalliesAgree
  /\ scenario = "event" => Event!TalliesAgree
  /\ scenario = "project" => Project!EveryCommentShows
  /\ scenario = "raced" => Raced!EveryCommentShows

(* One request at a time, who owns what is commented and who is answered   *)
(* have heard of it (governance.py:300-345).                               *)
AnswersAreHeard ==
  /\ scenario = "project" => Project!AnswersAreHeard
  /\ scenario = "post" => Post!AnswersAreHeard

(* "Replies from other people stay: a comment with replies keeps its       *)
(* place" (governance.py:833), one request at a time.                      *)
RepliesStay == [][scenario = "project" => Project!RepliesStay]_allVars

(* One request at a time, what a member of a chat has unread is what       *)
(* arrived since, in chats and in those of projects and events             *)
(* (messages/conversations.py:135-165, linked_chats.py:64-81).             *)
UnreadIsWhatArrived ==
  /\ scenario = "group" => Group!UnreadIsWhatArrived
  /\ scenario = "calling" => Calling!UnreadIsWhatArrived
  /\ scenario = "project chat" => ProjectChat!UnreadIsWhatArrived
  /\ scenario = "event chat" => EventChat!UnreadIsWhatArrived

(* One request at a time, what is counted is on record: votes and          *)
(* comments, the uses of a link; no two scopes share a handle, and nobody  *)
(* is invited twice (scopes.py:801-852, invites.py:59-73).                 *)
CountsAgree ==
  /\ CommentsAgree
  /\ scenario = "names" => Names!CountsAgree
  /\ scenario = "doors" => Doors!CountsAgree

(* One request at a time, an invitation or a request to follow is answered *)
(* once, and nobody is let in without an answer (users.py:612-680,         *)
(* invites.py:211).                                                        *)
AnsweredOnce ==
  [][/\ scenario = "following" => Following!AnsweredOnce
     /\ scenario = "names" => Names!AnsweredOnce
     /\ scenario = "doors" => Doors!AnsweredOnce]_allVars

(* No feed of items, search or profile shows a private community to those  *)
(* outside (feeds/api.py:569).                                             *)
PrivateStaysPrivate ==
  /\ scenario = "lists" => Lists!PrivateStaysPrivate
  /\ scenario = "walls" => Walls!PrivateStaysPrivate

-----------------------------------------------------------------------------
(* "Private-community items stay hidden except from that community's       *)
(* members" (feeds/region.py:207).                                         *)
RegionStaysPrivate == scenario = "lists" => Lists!RegionStaysPrivate
=============================================================================
