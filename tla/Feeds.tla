------------------------------- MODULE Feeds -------------------------------
(***************************************************************************)
(* What lists show and what opens (app/services/feeds, search.py and       *)
(* access_control.py): posts, threads, projects, events, help requests and *)
(* comments on them, in channels and in open and private communities.      *)
(*                                                                         *)
(* How lists are cut, sorted and worded is left out; how people come into  *)
(* communities and follow each other is in Scopes and Follows, here they   *)
(* just do.  A list is read in one transaction, so it is an operator.      *)
(***************************************************************************)
EXTENDS Naturals, Sequences, FiniteSets

CONSTANTS Users, Authors, Channels, Open, Closed, MaxItems

VARIABLES members,   \* of channels and communities
          follows,   \* <<follower, followed>>, accepted
          hides,     \* what an author hides from who does not follow: "profile", "posts"
          items,
          guests,    \* members of each item, when it is an event
          remarks    \* <<author, item>> of comments

vars == <<members, follows, hides, items, guests, remarks>>

Communities == Open \cup Closed
Scopes      == Channels \cup Communities
Everybody   == Users \cup {"anonymous"}
Kinds       == {"post", "thread", "project", "event", "help_request"}
Audiences   == {"public", "followers", "invite_only", "private_community"}
ItemRow     == [kind : Kinds, by : Users, tags : SUBSET Scopes, audience : Audiences,
                home : Communities \cup {"none"}, removed : BOOLEAN, closed : BOOLEAN]
Ids         == 1..MaxItems

TypeOK ==
  /\ members \in [Scopes -> SUBSET Users]
  /\ follows \subseteq Users \X Users
  /\ hides \in [Authors -> SUBSET {"profile", "posts"}]
  /\ items \in Seq(ItemRow) /\ Len(items) <= MaxItems
  /\ guests \in [Ids -> SUBSET Users]
  /\ remarks \subseteq Users \X Ids

Init ==
  /\ members = [s \in Scopes |-> {}]
  /\ follows = {} /\ hides = [a \in Authors |-> {}]
  /\ items = <<>> /\ guests = [i \in Ids |-> {}] /\ remarks = {}

Shared(i)  == items[i].kind = "event" /\ items[i].audience # "public"
OwnScopes(u) == {s \in Scopes : u \in members[s]}
OwnCommunities(u) == OwnScopes(u) \cap Communities
FollowedUserIds(u) == {a \in Users : <<u, a>> \in follows}

-----------------------------------------------------------------------------
(* Who can open an item.                                                   *)
ClosedTags(i) == items[i].tags \cap Closed
OpenTags(i)   == items[i].tags \cap (Channels \cup Open)

CanViewByTagScope(u, i) ==
  OpenTags(i) # {} \/ \A s \in ClosedTags(i) : u \in members[s]

CanViewPost(u, i) ==
  items[i].audience = "followers" => (u = items[i].by \/ items[i].by \in FollowedUserIds(u))

CanViewPrivateEvent(u, i) ==
  \/ items[i].audience = "private_community" /\ items[i].home \in OwnScopes(u)
  \/ u \in guests[i]

CanViewEntity(u, i) ==
  CASE items[i].kind = "post" -> CanViewPost(u, i)
    [] Shared(i)              -> CanViewPrivateEvent(u, i)
    [] OTHER                  -> CanViewByTagScope(u, i)

-----------------------------------------------------------------------------
(* What happens.  Private communities are tagged by their members, and the *)
(* community that an event is for is one of its tags.                      *)
Create(row) ==
  /\ Len(items) < MaxItems
  /\ \A s \in row.tags \cap Closed : row.by \in members[s]
  /\ items' = Append(items, row)
  /\ guests' = [guests EXCEPT ![Len(items')] = IF row.kind = "event" THEN {row.by} ELSE {}]
  /\ UNCHANGED <<members, follows, hides, remarks>>

Row(kind, a, tags, audience, home) ==
  [kind |-> kind, by |-> a, tags |-> tags, audience |-> audience, home |-> home,
   removed |-> FALSE, closed |-> FALSE]

CreatePost(a, audience) ==
  audience \in {"public", "followers"} /\ Create(Row("post", a, {}, audience, "none"))
CreateThread(a, tags)      == tags # {} /\ Create(Row("thread", a, tags, "public", "none"))
CreateHelpRequest(a, tags) == tags # {} /\ Create(Row("help_request", a, tags, "public", "none"))
CreateProject(a, tags)     == Create(Row("project", a, tags, "public", "none"))
CreatePublicEvent(a, tags) == tags # {} /\ Create(Row("event", a, tags, "public", "none"))
CreateInviteOnlyEvent(a, tags) == Create(Row("event", a, tags, "invite_only", "none"))
CreateCommunityEvent(a, tags, home) ==
  home \in tags /\ Create(Row("event", a, tags, "private_community", home))

AcceptEventInvite(u, i) ==
  /\ Shared(i) /\ guests' = [guests EXCEPT ![i] = @ \cup {u}]
  /\ UNCHANGED <<members, follows, hides, items, remarks>>

Comment(u, i) ==
  /\ CanViewEntity(u, i) /\ remarks' = remarks \cup {<<u, i>>}
  /\ UNCHANGED <<members, follows, hides, items, guests>>

LeaveEvent(u, i) ==
  /\ items[i].kind = "event" /\ guests' = [guests EXCEPT ![i] = @ \ {u}]
  /\ UNCHANGED <<members, follows, hides, items, remarks>>

Remove(i) ==
  /\ items' = [items EXCEPT ![i].removed = TRUE]
  /\ UNCHANGED <<members, follows, hides, guests, remarks>>

CloseProject(i) ==
  /\ items[i].kind = "project" /\ items' = [items EXCEPT ![i].closed = TRUE]
  /\ UNCHANGED <<members, follows, hides, guests, remarks>>

Enter(u, s) ==
  /\ members' = [members EXCEPT ![s] = @ \cup {u}]
  /\ UNCHANGED <<follows, hides, items, guests, remarks>>

Leave(u, s) ==
  /\ members' = [members EXCEPT ![s] = @ \ {u}]
  /\ UNCHANGED <<follows, hides, items, guests, remarks>>

Follow(u, a) ==
  /\ u # a /\ follows' = follows \cup {<<u, a>>}
  /\ UNCHANGED <<members, hides, items, guests, remarks>>

Unfollow(u, a) ==
  /\ follows' = follows \ {<<u, a>>}
  /\ UNCHANGED <<members, hides, items, guests, remarks>>

Hide(a, what) ==
  /\ hides' = [hides EXCEPT ![a] = what]
  /\ UNCHANGED <<members, follows, items, guests, remarks>>

-----------------------------------------------------------------------------
(* The conditions that lists are made of.                                  *)
Kind(kind)     == {i \in DOMAIN items : items[i].kind = kind /\ ~ items[i].removed}
Of(authors)    == {i \in DOMAIN items : items[i].by \in authors}
In(scopes)     == {i \in DOMAIN items : items[i].tags \cap scopes # {}}
Unclosed       == {i \in Kind("project") : ~ items[i].closed}
PublicEvents   == {i \in Kind("event") : ~ Shared(i)}

(* Tagged by private communities only, and by none of the allowed ones.    *)
(* Mutant: the allowed ones are not asked for.                             *)
NeverHidden(i, allowed) == FALSE
ClosedCommunityOnly(i, allowed) ==
  ClosedTags(i) # {} /\ OpenTags(i) = {} /\ ClosedTags(i) \cap allowed = {}
HidePrivateItems(list, u) == {i \in list : ~ ClosedCommunityOnly(i, OwnCommunities(u))}
PublicOnly(u) == HidePrivateItems(DOMAIN items, u)

(* Lists of scopes: of all of them for everybody, of one's own, of one,    *)
(* and of what happens nearby or online.                                   *)
ProjectsSelect(reach)     == Unclosed \cap reach
ThreadsSelect(reach)      == Kind("thread") \cap reach
HelpRequestsSelect(reach) == Kind("help_request") \cap reach
EventsSelect(reach, communities) ==
  {i \in Kind("event") \cap reach :
     Shared(i) => items[i].audience = "private_community" /\ items[i].home \in communities}

BuildFeed(reach, communities) ==
  ProjectsSelect(reach) \cup ThreadsSelect(reach) \cup EventsSelect(reach, communities)
  \cup HelpRequestsSelect(reach)

PublicFeed(u) == BuildFeed(PublicOnly(u), OwnCommunities(u))
HomeFeed(u)   == BuildFeed(In(OwnScopes(u)), OwnCommunities(u))

CanViewScope(u, s) == s \in Closed => u \in members[s]
ScopeFeed(u, s) == IF CanViewScope(u, s) THEN BuildFeed(In({s}), {s} \cap Communities) ELSE {}

(* What is nearby: the items and, with the projects they are of, the       *)
(* activities; any project may have one.  The map has markers of events    *)
(* and their activities, of help requests, and of projects and theirs.     *)
OnlineRegionItems(u) == PublicFeed(u) \ Kind("thread")
RegionItems(u) ==
  ProjectsSelect(PublicOnly(u)) \cup (PublicEvents \cap PublicOnly(u))
  \cup HelpRequestsSelect(PublicOnly(u)) \cup OnlineRegionItems(u)
RegionProjectActivities == Unclosed
RegionFeed(u) == RegionItems(u) \cup RegionProjectActivities

EventMapVisibility(u, i) ==
  ~ Shared(i) \/ u = items[i].by \/ CanViewPrivateEvent(u, i)
EventMarkers(u) == {i \in DOMAIN items : items[i].kind = "event" /\ EventMapVisibility(u, i)}
MapMarkers(u)   == EventMarkers(u) \cup Kind("help_request") \cup Unclosed

-----------------------------------------------------------------------------
(* Lists of people: those one follows, and one's own posts and private     *)
(* events; popular ones of others.                                         *)
PostsForFollowed(authors)        == Kind("post") \cap Of(authors)
ProjectsForFollowed(authors)     == Unclosed \cap Of(authors)
ThreadsForFollowed(authors)      == Kind("thread") \cap Of(authors)
EventsForFollowed(authors)       == PublicEvents \cap Of(authors)
HelpRequestsForFollowed(authors) == Kind("help_request") \cap Of(authors)
EventsForMember(u)               == {i \in Kind("event") : Shared(i) /\ u \in guests[i]}
PostsDiscovery(excluded)   == {i \in Kind("post") : items[i].audience = "public"} \ Of(excluded)
ThreadsDiscovery(excluded) == Kind("thread") \ Of(excluded)

(* Comments of some, on what is neither private nor removed.               *)
CommentActivity(people, subjects) == {r[2] : r \in {q \in remarks : q[1] \in people /\ q[2] \in subjects}}
CommentsForFollowed(people, u) ==
  CommentActivity(people,
    Kind("thread") \cup Unclosed \cup PublicEvents \cup Kind("help_request")
    \cup {i \in Kind("post") : items[i].audience = "public" \/ items[i].by \in people \cup {u}})

PersonalFeed(u, popular) ==
  LET followed == FollowedUserIds(u)
      authors  == followed \cup {u}
  IN  HidePrivateItems(
        PostsForFollowed(authors) \cup ProjectsForFollowed(followed) \cup ThreadsForFollowed(followed)
        \cup EventsForFollowed(followed) \cup EventsForMember(u) \cup HelpRequestsForFollowed(followed)
        \cup CommentsForFollowed(followed, u)
        \cup (IF popular THEN PostsDiscovery(authors) \cup ThreadsDiscovery(authors) ELSE {}), u)

(* What somebody's profile shows.                                          *)
ProfileHidden(a, u) == "profile" \in hides[a] /\ u # a /\ a \notin FollowedUserIds(u)
ShownAudiences(a, u) ==
  IF u = a \/ a \in FollowedUserIds(u) \/ "posts" \notin hides[a]
  THEN {"public", "followers"} ELSE {"public"}

UserPosts(a, u)     == {i \in Kind("post") \cap Of({a}) : items[i].audience \in ShownAudiences(a, u)}
UserThreads(a)      == Kind("thread") \cap Of({a})
UserEvents(a, u)    == (IF u = a THEN Kind("event") ELSE PublicEvents) \cap Of({a})
UserProjects(a)     == Unclosed \cap Of({a})
UserHelpRequests(a) == Kind("help_request") \cap Of({a})
UserComments(a, u)  == CommentsForFollowed({a}, IF u = "anonymous" THEN a ELSE u)

UserFeed(a, u) ==
  IF ProfileHidden(a, u) THEN {}
  ELSE HidePrivateItems(
         UserPosts(a, u) \cup UserThreads(a) \cup UserEvents(a, u) \cup UserProjects(a)
         \cup UserHelpRequests(a) \cup UserComments(a, u), u)

(* Search finds what it was told of, and activities with what they are of. *)
FilterSearchResults(u, found) == {i \in found : CanViewEntity(u, i)}
SearchDocuments(u) == FilterSearchResults(u, UNION {Kind(k) : k \in Kinds})
ActivityMatches(u) == {i \in Kind("project") \cup Kind("event") : CanViewEntity(u, i)}

(* The tags that a card shows: not the names of private communities one is *)
(* not in.                                                                 *)
TagsShown(u, i) == OpenTags(i) \cup (ClosedTags(i) \cap OwnScopes(u))

ItemLists(u) ==
  PublicFeed(u) \cup RegionItems(u) \cup SearchDocuments(u) \cup ActivityMatches(u)
  \cup UNION {ScopeFeed(u, s) : s \in Scopes} \cup UNION {UserFeed(a, u) : a \in Authors}
  \cup (IF u \in Users THEN HomeFeed(u) \cup PersonalFeed(u, TRUE) ELSE {})

Next ==
  \/ \E a \in Authors, tags \in SUBSET Scopes :
       \/ \E audience \in Audiences : tags = {} /\ CreatePost(a, audience)
       \/ CreateThread(a, tags) \/ CreateHelpRequest(a, tags) \/ CreateProject(a, tags)
       \/ CreatePublicEvent(a, tags) \/ CreateInviteOnlyEvent(a, tags)
       \/ \E home \in Communities : CreateCommunityEvent(a, tags, home)
  \/ \E u \in Users, i \in DOMAIN items : AcceptEventInvite(u, i) \/ LeaveEvent(u, i) \/ Comment(u, i)
  \/ \E i \in DOMAIN items : Remove(i) \/ CloseProject(i)
  \/ \E u \in Users, s \in Scopes : Enter(u, s) \/ Leave(u, s)
  \/ \E u \in Users, a \in Authors : Follow(u, a) \/ Unfollow(u, a)
  \/ \E a \in Authors, what \in SUBSET {"profile", "posts"} : Hide(a, what)

Spec == Init /\ [][Next]_vars

-----------------------------------------------------------------------------
(* Cards that have tags have one that their reader can see, or are private *)
(* events of theirs.                                                       *)
SeenByTheirOwn(u, list) ==
  \A i \in list : items[i].tags # {} => TagsShown(u, i) # {} \/ u \in guests[i]

(* Whatever people follow, search or comment on, the items in feeds, on    *)
(* profiles and found by search are those of communities that their reader *)
(* can see: "Someone's profile must not show what they do in private       *)
(* communities you aren't in" (feeds/api.py:569).  The activities in the   *)
(* regional feed and the markers of the map are not among these lists.     *)
PrivateStaysPrivate == \A u \in Everybody : SeenByTheirOwn(u, ItemLists(u))

(* "Private-community items stay hidden except from that community's       *)
(* members" (feeds/region.py:207), "Authorized, map-eligible markers only" *)
(* (:880): in the whole regional feed and on its map.                      *)
RegionStaysPrivate ==
  \A u \in Everybody : SeenByTheirOwn(u, RegionFeed(u)) /\ SeenByTheirOwn(u, MapMarkers(u))
=============================================================================
