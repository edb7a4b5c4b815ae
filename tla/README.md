# Verification of web-backend in TLA+

The backend is a FastAPI application in front of PostgreSQL and Redis in which
groups of people run projects, events and communities by voting.  This
directory holds TLA+ modules of its services, TLC configurations that check
them on small instances, and proofs of the main invariants checked by TLAPS.
`PROJECT.json` lists the runs, the source lines behind every definition, the
known hazards and the theorems.

## Running

    tlc -workers 2 -config Software.cfg SoftwareMC
    tlapm SoftwareProofs.tla

Each run takes between seconds and three minutes on two cores, each module of
proofs between seconds and twenty minutes.

## 1. The system

### How requests run

- Routers are mostly plain `def` functions, so requests run in parallel on a
  thread pool; `docker-compose.prod.yml:57` starts two server processes.
- `get_db` (`app/dependencies.py:40`) opens one session per request. The
  isolation level is PostgreSQL's default, READ COMMITTED, and no query takes
  a lock. A handler that fails, or a server that dies, before `commit` leaves
  nothing of its transaction behind.
- A handler therefore reads rows, checks them, and writes later what may no
  longer hold. Primary keys and a few unique constraints are the only
  protection between overlapping requests.
- Some handlers make two transactions: posting a request commits it, and the
  proposer's own yes is cast by the vote handler afterwards
  (`app/services/proposer_vote.py`).
- The call socket is `async`: its handler gives way at every Redis command.

### Components, their state and their operations

| Component | State | Operations |
|---|---|---|
| Vote arithmetic: `utils/votes.py`, `services/governance_votes.py`, `standing.py` | none; the weekly-active count is cached in Redis | quorum, approval, can-still-pass, weights by standing |
| Update requests: `projects/phases/update_requests.py` | request, ballots, published updates | create, proposer's vote, vote |
| Phase governance: `projects/phases/{phase_requests,revert,advance,conversion,gates,labels}.py` | project row, requests, ballots, conversions | create, vote, request a return, vote on it, advance directly, close, convert |
| Edits, settings, values: `projects/phases/edit_requests.py`, `projects_service_request_settings.py`, values in `actions.py` | text, requests, ballots, importance of values | propose, vote, add a value, weigh it |
| Plans: `projects_plans.py`, `events_plans.py`, `plan_criteria.py` | plans, ballots, ratings, leading flags | submit, vote, rate, weigh values, recount, adopt |
| Links: `detail_links.py`, `projects_links.py` | links, requests, ballots of two sides | ask to link or unlink, vote, decide |
| Scope governance: `scope_governance.py` | memberships and roles, mode, name, proposals, ballots | propose, vote, settle on reading, change directly, appoint |
| Event governance: `events/phases/*` | event row, members and their count, organizers, signals, three kinds of requests | post, vote, move, promote |
| Software projects: `projects/software/*` | pull requests and ballots, merge capability, capability and replacement requests | submit, vote, record a merge, ask for a change, vote on it, follow the leading plan |
| Memberships and signals: `projects/actions.py`, `events/actions.py` | members, editors, signals, two counts, their cache | create, join, leave, appoint, invite, signal |
| Activities: `activity_roles.py`, `activity_role_suggestions.py`, `activity_history.py` | activities, roles, assignments, suggestions, marks, ratings | schedule, take and leave a role, suggest, cancel, mark, rate |
| Service requests: `projects_service_{requests,availability}.py` | offers, requests, holds, bookings, marks | offer, ask, answer, plan, complete |
| Help requests: `content/help_requests.py` | roles, assignments | ask, take and leave a role, close |
| Moderation: `moderation/*` | content state, reports, ballots, penalties | report, vote, resolve |
| Bot reviews and trust: `bot_reviews.py`, `trust.py` | stances, reviews, ballots, cooling periods | mark, vouch, review, vote, settle |
| Board: `board.py` | seats, standing votes, grace periods, the platform's merge right | volunteer, vote, reconcile, resign |
| Discussion: `governance.py`, `content/*` | comments, content votes, counters, who was told | post, comment, reply, vote, delete |
| Chats: `messages/{conversations,messaging,attachments,linked_chats}.py` | chats, members, messages, pins, read stamps | start, add, leave, send, log a call, pin, read, hide |
| Voice calls: `messages/calls.py`, the socket of `routers/messages.py` | Redis: presence counts, conversation claims, call sessions | connect, keep alive, disconnect, invite, accept, reject, hang up |
| Sessions: `auth.py` | account; rotated, succeeding and revoked tokens in Redis; the browser's cookie | sign up, in and out, refresh, deactivate |
| Follows and notifications: `users.py`, `notifications.py` | follows, requests to follow, notes, preferences | follow, answer, unfollow, read |
| Scopes: `scopes.py`, `invites.py` | scopes and their handles, memberships, links, invitations | create, join, leave, share a link, invite, answer |
| Feeds, search, visibility: `feeds/*`, `search.py`, `access_control.py` | none | list, search, open |

The components share the vote arithmetic, the standing of an account (which
gives the weight of its ballots and the right to vote) and memberships (which
give the electorate). A plan that leads changes the merge capability of a
software project; a board change does so for the platform's own project; an
accepted service request makes a booking, which is an activity with a history;
a passed scope proposal changes memberships and with them every later
electorate; an invitation that is accepted does the same.

### What is hard

1. *Decisions from stale reads*: the status of a request is checked, the
   ballots are counted, the decision is written, and in between others do the
   same.
2. *Decisions that undo each other*: two votes on one phase, two edits of one
   field, two reports on one post, two calls in one conversation.
3. *Moving electorates*: members come, leave and are promoted during a vote;
   the weekly count changes between two ballots.
4. *Rejecting early*: an open vote is rejected as soon as it cannot pass any
   more, and a wrong estimate rejects what could have passed.
5. *Things kept in step by hand*: `member_count`, the tallies of comments, the
   close marks of a project, holds and bookings, the claim and the session of a
   call, leading flags and what was adopted, one label per capability.
6. *Settling on reading*: proposals, reviews, board seats and activities are
   settled by whoever looks next, not by a clock.
7. *Partial failure*: the second of two transactions does not happen, a server
   dies between two Redis commands, an answer never reaches the browser.

The hazards in `PROJECT.json` name the lines and the properties that watch them.

## 2. The modules

| Module | Models | Checked by |
|---|---|---|
| `Votes` | vote arithmetic and weights, in half votes so that 0.5 is an integer | all of governance |
| `Decision` | abstract: a request is decided once, and takes effect once and only if approved | `UpdateRequest` implements it |
| `UpdateRequest` | one project update request | `UpdateRequestMC` |
| `EventGovernance` | one event | `UpdateRequestMC` |
| `Links` | links of two records | `UpdateRequestMC` |
| `Approvals` | the three above side by side, and what is promised of them | `UpdateRequestMC` |
| `Lifecycle` | abstract: what the life of a project promises | `ProjectPhases` implements it |
| `ProjectPhases` | one project's phases | `ProjectPhasesMC` |
| `ScopeGovernance` | one community | `ScopeGovernanceMC`, `CallsMC` |
| `Calls` | one direct chat | `CallsMC` |
| `Software` | one software project | `SoftwareMC` |
| `Plans`, `Proposals` | plans; edits, settings and values | `AgreementsMC` |
| `Agreements` | plans and edits side by side, and what is promised of them | `AgreementsMC` |
| `ServiceRequests`, `Membership`, `Activities`, `HelpRequests` | one service project; one project or event and its members; its activities; one help request | `ServicesMC` |
| `Reports`, `BotReviews`, `Board` | reports on one piece of content; accounts; the board | `TrustMC` |
| `Moderation` | the three above side by side, and what is promised of them | `TrustMC` |
| `Discussion`, `Conversations`, `LinkedChats`, `Sessions`, `Follows`, `Scopes`, `Feeds` | one discussion; chats; chats of a project; one browser; who follows whom; scopes; lists | `PeopleMC` |
| `UpdateRequestProofs` | theorems about the vote arithmetic, update requests, events and links | `tlapm` |
| `PlansProofs` | theorems about plans and edits | `tlapm` |
| `ServiceRequestsProofs` | theorems about service requests and memberships | `tlapm` |
| `AccountsProofs` | theorems about sessions, reports, reviews of accounts and the board | `tlapm` |
| `ProjectPhasesProofs`, `ScopeGovernanceProofs`, `SoftwareProofs`, `CallsProofs` | theorems about the module they are named after | `tlapm` |

### How a run is put together

The small modules are checked in *scenarios*. An MC module instantiates a
module several times, each time with other constants, over one set of
variables; `scenario` says which instance a behaviour belongs to, `Next` is the
step of that instance, and the variables that only other modules speak of keep
the value `"unused"`. The MC module of a component with proofs extends it, so
that a run and a theorem speak of the same definition; the configuration gives
the constants of that instance, and the others stand next to it. `Approvals`,
`Agreements` and `Moderation` do the same for modules that share names: they
instantiate `EventGovernance` and `Links`, or `Proposals`, or the three parts
of moderation, with constants and variables of their own, and state the
properties that a run checks and a theorem proves. A property is stated of the scenarios
it is meant for: most of what a handler promises holds when requests do not
overlap (one worker), and the scenarios with two workers say what is left when
they do. Fairness is a matter of the scenario too: one that does not move owes
nothing.

### Conventions

- Every database table (or column that matters) is a variable; `job[w]`, or
  `request[w]` in `UpdateRequest`, is what worker `w` is holding in its local
  variables: the values it has read and will act on.
- A handler is cut where another transaction may come in between: *read and
  check* (`Start...`, `Check...`), *tally*, *commit*. `UpdateRequest`,
  `ProjectPhases`, `ScopeGovernance`, `Plans` and `Links` take all three apart,
  since there the tally and the write-back race; `EventGovernance` and
  `Software` have the tally in the committing step, so that more kinds of
  request fit in one instance (`Software` takes the DELETE and the INSERT of a
  label apart, since a DELETE removes only the rows it sees); handlers whose
  reads decide nothing that others change are two steps or one.
- The tally counts the committed ballots and the voter's own, as READ
  COMMITTED shows them.
- A first ballot is an `INSERT`, refused by the primary key if the same voter's
  other request committed first; a changed ballot is an `UPDATE`.
- `Rollback` ends any job without effect: a refused commit, an exception, a
  lost connection, a restart.
- With one worker the modules show what the code does when requests do not
  overlap ("one request at a time"); with more, what is left of it when they
  do. The properties say which of the two they are about.
- Populations are numbers the weekly count may read: they stand for activity,
  the cache and the platform electorate together.
- `merges`, `castAt`, `was`, `from`, `fresh` and `cut` are history: what the database
  does not keep but a property compares with.
- An operator marked *Mutant* is a plausible bug in the operator that follows
  it. It is not part of the model; it shows that a property would notice.

### Module by module

**`UpdateRequest`.** `Create` inserts the request (approved at once in a
population of at most one); `ProposerVote` is the second transaction;
`ReadRequest` makes the checks of `vote_project_update_request` and keeps what
it read; `Tally` computes the outcome; `Commit` writes ballot, status and
update in one transaction. Members' standings are constants.

**`ProjectPhases`.** Phase *i* is `phase-i`. `CheckCreate`, `CheckRevert` and
`CheckAdvance` make the checks of the three ways to change a phase, `Insert`
and `CommitAdvance` write. A vote on a return goes through a handler of its
own (`via = "revert"`), which never rejects and closes no other vote. Closing
sets phase, mark and outcome together, and conversion adds a successor unless
one exists. Plans and support signals come and go as inputs.

**`ScopeGovernance`.** A proposal is an edit, a removal, a handover to
organizers or the switch back. `Settle` is `_tally` plus `_settle`: it is
evaluated when a vote is cast *and* when somebody opens the settings
(`settings_payload`), in the order the rows are read. In organizer mode edits
and removals are direct. Members join, leave and are appointed. Time is the
set of proposals whose week is over.

**`EventGovernance`.** The same event with both forms of government. A request
is about a phase, an edit or an update; in an organizer-controlled event phase
changes and edits are executed when posted. `CloseOtherVotes` is the closing of
the other phase votes when one passes. Members join, leave and are promoted by
organizers, which makes somebody a member in a transaction of its own and
appoints them in the next (`AdmitEditor`, `Grant`), and `count` is
`events.member_count` next to the real memberships. Support signals gate the
step out of the proposal, both when a vote is opened and when it passes.

**`Software`.** A pull request goes from approval to awaiting-merge,
confirmation and confirmed, may be rejected, and may be replaced at any time.
`capable` holds the source label of each member's merge capability. A leading
plan and a repository replacement each bring a capability with them: they delete
whoever has the label and then insert its new holder (`swept` is what a DELETE
not committed yet removes). Recounts of plans of one phase wait for each other
at the update of `is_leading`, so they count as one request. `repository` is,
for each member's plan, the replacement that gave it its URL.

**`Calls`.** Every Redis command of a handler is a step (`hand[s]` is what the
socket is doing, `beat[s]` where its `refresh_presence` is: a ping refreshes as
the keepalive task does, one refresh of a socket at a time). Claims and
sessions live for a number of ticks: `ttl` counts down, and 0 is no key. A
presence key has a count and, apart from it, a TTL or none: INCR makes a key
that lasts for ever until EXPIRE, DECR leaves the TTL alone, DEL and expiry
take both. `Crash` ends a server process between two commands; presence can
then be wrong. `Beating` names the devices whose refreshes are looked at, and
`Lapses` says whether a stall may outlast a key that is still refreshed.

**`Plans`.** `StartVote` reads the ballot, `Tally` recounts all plans and
picks the leader by approval, then rating, then age, `CommitVote` writes the
flags and what the project or event takes over: a subtype, a schedule, the end
of planning. Organizers of a controlled event pick plans directly. A plan's
content is a model value: `"software"`, `"backwards"` (a schedule that ends
before it begins, which the adoption refuses, with the vote) and so on. The
weekly count that plans are measured by is a constant here, while the code
reads a moving one at every recount (`projects_plans.py:429`).

**`Links`.** The two schemes are the two files: `detail_links.py` counts heads
and needs each side to pass on its own, `projects_links.py` weighs ballots of
both sides together. A request to unlink is decided like one to link.

**`Proposals`.** Edits of a project's text (`Scheme = "edit"`, with what the
proposer was shown as history), settings of a collective service
(`"settings"`), and the values of projects and events.

**`ServiceRequests`.** Offers are intervals: the weekly rules of a personal
project and activities nobody has requested, of any project (`OfferSlot`,
`WithdrawSlot`); `FitsOpenSlot` is `request_fits_open_slot`; an answer writes
the row first, which other answers to the same request wait for, and then looks
at the slots; holds outlive the requests, as in the code. Bookings are
activities that both sides mark.

**`Membership`, `Activities`, `HelpRequests`.** The twins of projects and
events are one action where they agree and two where they do not (`Kind`).
Activities begin and end by `now`; marks, ratings and suggestions follow.

**`Reports`, `BotReviews`, `Board`.** Reports weigh their ballots against
thresholds that depend on the reason, the audience and the content's
popularity, and an effect is the content's state and points for its author.
Reviews open on three marks that count, are settled by votes or after seven
days, and set standings. Markers warm up, cool down and are under review
themselves; a warm-up that ends in the middle of a request is not modelled.
Every request about the board reconciles it.

**`Discussion`, `Conversations`, `LinkedChats`.** Comments have the number of
their turn; `heard` and `news` are history: who was told, and what arrived
while somebody was a member. What is unread is compared with it.

**`Sessions`.** Two tabs share a cookie. Each request is asked, checked,
rotated and answered, and the answer may be lost or come late; Redis may fail,
a request may die between any two commands (`Die`), and the grace window ends
whatever the requests are doing (`GraceEnds`). `refused` is history: a browser
was turned away with the token it holds. `cut` is too: the tokens that were put
on record as used without what replaced them, because the request died or was
slower than the grace window. The code refuses those, so the property leaves
them out.

**`Follows`, `Scopes`.** Requests and invitations that wait for an answer, and
the notes, links and handles that go with them.

**`Feeds`.** The lists are operators over items with tags, audiences and a
home; their filters are the `where` clauses. `ItemLists` are the feeds, profiles
and searches of items; `RegionFeed` adds the activities of nearby projects to
the items it lists, and `MapMarkers` are those of the map, both with the filters
their queries have. Membership, follows and removals change at any time.

## 3. What is checked

Nine runs that pass and three that do not. State counts are distinct states.

| Run | Instances | States | Shows |
|---|---|---|---|
| `UpdateRequests` | three votes of mixed standing in flight; four full members one at a time; two events of two people, one whose phase is voted on while signals come and go, one voting on phase, text and updates; links between details and between projects | 1.3 million | a decision is disturbed only by votes in flight; alone it is taken as soon as the ballots allow and implements `Decision`; an event changes only by ballots that carry the change; links follow decisions |
| `ProjectPhases` | a collective service with two workers; a productive project with one, whose plans and support move | 0.8 million | the row agrees with its conversion and lives the `Lifecycle`; approvals are carried by ballots |
| `ScopeGovernance` | two workers on one proposal; one worker on two, names included; three people | 2.0 million | a settled proposal stays; no split votes, nothing off the record, no unfair rejection |
| `Liveness` | a chat one signal at a time; the same with two at once and crashes; the three devices of one person without crashes and with them; a community | 111 thousand | claims match calls; conversations are freed, sockets reachable, presence runs out, no count is left behind; proposals settle |
| `Software` | 3 members, a pull request merged up to twice, another request | 3.1 million | merges are on record, decisions stand, one holder per capability |
| `Agreements` | six of `Plans`, four of `Proposals` | 1.5 million | the leader is ahead and adopted; edits never undo each other |
| `Services` | four of `ServiceRequests`, three each of `Membership` and `Activities`, one of `HelpRequests` | 2.2 million | bookings, holds, counts, seats and history agree |
| `Trust` | two of `Reports`, the first about three pieces of content, two each of `BotReviews` and `Board` | 3.3 million | content follows reports, marks are answered, seats follow votes |
| `Vouchers` | as above | | *violated*: a vouch taken back lifts the ban on vouching |
| `Marks` | as above | | *violated*: three marks that count may stand without a review |
| `People` | six of `Discussion`, two each of chats, linked chats, follows and scopes, three of `Sessions`, two of `Feeds` | 3.7 million | tallies, answers, unread marks, sessions, invitations and private lists |
| `Region` | as above | | *violated*: the map shows what private communities have nearby |

The properties:

- *After a decision* (`SettledIsFinal`, in three modules): only handlers that
  read the row before the decision can still touch it; none is admitted later;
  once those are done, row and ballots never change. This is the strongest
  statement that holds with overlapping requests: a straggler can turn an
  approval into a rejection, because statuses are not read again.
  `PublicationsBounded` says how often stragglers can publish an update.
- *One at a time* (`DecidedOnce`, `DecidedInTime`, `VotesDecide`): decided
  once, as soon as the ballots allow, approved on ballots that carry it, and
  never rejected while some way of casting the remaining votes would pass.
- *The project row* (`ClosedAgrees`, `IsALifecycle`): closing, outcome and
  conversion are one step, and there is one successor at most.
- *Events* (`EventVotesAreCurrent`, `EventChangesAreCarried`): an open phase
  vote was opened in the phase the event is in, none is open under organizers,
  and the member count is exact; passed edits never undo each other, and a
  collaborative event changes only with a request that becomes approved on
  ballots of the members of that moment, and leaves the proposal only with
  support.
- *Communities* (`OneVotePerChange`, `SettledStays`, `EveryChangeIsOnRecord`,
  `VotesAreFair`, `ProposalsSettle`): no change has two open votes, a settled
  proposal is written to only by a request that saw it open, name and
  government change only by a decision recorded in the same commit, and what is
  voted down could not have passed.
- *Software* (`MergesAreOnRecord`, `DecisionsStand`, `OneHolderPerSource`): a
  merge is on the row exactly while it is being confirmed or is confirmed, by
  ballots cast on it; ends are final; a replacement takes hold as a whole; and
  each inherited capability has one holder. All are stated one request at a
  time; section 5 says what overlapping requests do to the last.
- *Calls* (`ClaimsMatchCalls`, `LinesRecover`): claim and session agree one
  signal at a time; whatever overlaps and dies, conversations are freed, whoever
  has an open socket becomes reachable once their devices stop coming and going,
  and presence runs out, but for the counts that a death between two commands on
  them leaves; without one no such count is ever left, however the devices of a
  person interleave.
- *Plans* (`LeaderIsAhead`, `LeaderIsAdopted`, `OverlapsAreAdopted`): one vote
  at a time the leader has passed and nobody is ahead of it; with overlapping
  votes there is still one leader per kind, and what the project or event took
  over is the leader's.
- *Links, edits* (`LinksFollowDecisions`, `EditsNeverUndo`): links are what the
  approved requests say, each side approving, and a side rejects only what it
  could not approve any more; an edit replaces what its proposer was shown.
- *Services* (`AcceptedIsBooked`, `HoldsNeverOverlap`, `CountsAgree`,
  `SeatsWithinBounds`, `HistoryStands`). The first holds however answers
  overlap; the second one request at a time, over holds that outlive requests.
  `CountsAgree` is about member, signal and seat counts, and that what a person
  says of a booking is one row (`MarkedOnce`).
- *Trust* (`StateFollowsReports`, `MarksAreAnswered`, `SeatsFollowVotes`). The
  second says what the code does about marks: the mark that makes three count
  leaves its target paused or with an open review, and no review opens without.
  That three marks always have a review is not true (`Marks`).
- *People* (`AnswersAreHeard`, `RepliesStay`, `UnreadIsWhatArrived`,
  `StaysSignedIn`, `CountsAgree`, `AnsweredOnce`, `PrivateStaysPrivate`).
  `CountsAgree` covers the tallies of comments and votes and the uses of links;
  `PrivateStaysPrivate` the items in feeds, on profiles and found by search, and
  not the activities in the regional feed and the map (`Region`).

The comment above each property says what it claims and of which lines.

### Why these bounds

- Two workers are enough for every race between two handlers; three in
  `UpdateRequests` let a third vote arrive between a decision and its
  straggler, so that the bound is seen to count workers.
- Two members make a quorum of two, so approval, rejection and an undecided
  middle all occur; four in the serial update request make the quorum (3)
  smaller than the population, which is where early rejection can go wrong;
  three people let two carry a vote against the third, and one of them with a
  warm account makes weights matter (the ranked plans, the project links).
- Two requests are one to decide and one to be closed, duplicated or undone by
  it. Two plans are a leader and its rival; three, where organizers pick, are
  one more to pick after both.
- In `ProjectPhases` the population does not move, the targets are a phase
  ahead and closing, and plans are of one phase: what a moving population or
  more phases would add is covered by the theorems, which hold for any set of
  them.
- Two merges are a merge, its refusal and another. Two calls allow one in
  progress and one that competes or comes after; TTLs of 2 and 3 ticks, 1 and 2
  where processes die, keep ringing shorter than talking. Presence is counted
  with three devices of one person and counts up to 2: one that was left behind
  and a new device on top of it.
- Where overlapping plan votes are checked, the two plans have different
  contents, so that a leader with the other's content would be seen.
- Three marks open a review, so two alike members, a third whose warm-up a
  penalty may undo, and a target; days 0 and
  40 lie before and after both the seven days of a review and the thirty of a
  ban. Board days run to 8, past the grace period.
- A post, a reply, a reply to the reply and one more comment; four or five
  instants for read marks; four bundles of tokens: two tabs that refresh twice.
- `SYMMETRY` is used only in runs without liveness, over people, workers and
  requests that the constants do not tell apart.
- Deadlock is not checked: when all requests have been posted and decided and
  everybody has voted the way they want, an instance really stops.

### Fairness

Safety runs use no fairness. In `Liveness`, of a community: a week goes by
(`Expire`), every request ends in some way, a rollback included (weak fairness
of `Proceed`, because a request always commits, fails or is cut off); and
somebody keeps opening the settings, with not all of those requests failing
(strong fairness of opening, reading and committing, since other requests
occupy the worker in between and rollbacks compete). The code settles on reading
and has no scheduler of its own, so this is what "is settled" rests on.
Of a chat: the clock moves, Redis answers a handler that is running,
the keepalive task of a connected socket runs every ten seconds
(`routers/messages.py:640`) and its commands are answered, and a presence key
that has a TTL and no socket to refresh it expires. Nothing is
assumed of people: no one has to answer, hang up or connect.

## 4. What is proved

For all values of the constants that satisfy the `ASSUME`s of the modules: any
number of people, workers, requests, plans, tokens. The assumptions say what a
constant ranges over; three say more. `Calls` is about a direct chat, so its
users are two; its TTLs are positive and ringing does not outlive talking;
`Workers` of `UpdateRequest` and `Sockets` of `Calls` are finite sets. What
`Approvals`, `Moderation` and `ServiceRequestsProofs` say of their further
instances is a hypothesis of the theorems about them: finitely many people
(`EventPeople`, `LinkPeople`, `CommunityPeople`), the creator and the members
among them; content that finitely many people see
(`ContentKnown`); days that have a last one (`DaysKnown`).

| Theorem | States |
|---|---|
| in every `...Proofs`: `TypeCorrect` | `TypeOK` |
| `UpdateRequestProofs!UnanimousPopulationPasses` | everybody voting yes passes: the quorum never exceeds the population |
| `UpdateRequestProofs!RejectionIsSound` | when can-still-pass is false, no distribution of the weight left passes |
| `UpdateRequestProofs!PublicationBound`, `SettledFinal` | `PublicationsBounded`, `SettledIsFinal` |
| `UpdateRequestProofs!Refinement` (1) | `UpdateRequest` implements `Decision` |
| `UpdateRequestProofs!NoneLost` (1), `FairRejection` (1, 2, 3) | `NoLostDecision`, `RejectionIsFair` |
| `UpdateRequestProofs!EventTypes` | the types of an event, its members and its requests |
| `UpdateRequestProofs!EventVotesCurrent` (1), `EventChangesCarried` (1) | `EventVotesAreCurrent`, `EventChangesAreCarried` |
| `UpdateRequestProofs!LinksFollow` (1) | one link for each approved creation, active unless a severing was approved |
| `UpdateRequestProofs!LinksDecided` (1, 3 for details) | `LinksFollowDecisions` |
| `ProjectPhasesProofs!ClosedAgreement`, `SettledFinal` | `ClosedAgrees`, `SettledIsFinal` |
| `ProjectPhasesProofs!Refinement` | `ProjectPhases` implements `Lifecycle` |
| `ProjectPhasesProofs!BallotsDecide` (1, 2) | `ApprovedByBallots`, `NoDuplicateVotes`, `NoLostDecision` |
| `ScopeGovernanceProofs!SettledFinal` | `SettledStays` |
| `ScopeGovernanceProofs!OneVoteEach` (1), `ChangesOnRecord` (1) | `OneVotePerChange`, `EveryChangeIsOnRecord` |
| `ScopeGovernanceProofs!FairRejection` (1) | no proposal younger than a week is voted down that the silent could have carried |
| `SoftwareProofs!OneHolder` (1), `MergesOnRecord` (1), `DecisionsFinal` (1) | `OneHolderPerSource`, `MergesAreOnRecord`, `DecisionsStand` |
| `PlansProofs!LeaderAdopted` (1, only where organizers control) | `LeaderIsAdopted` |
| `PlansProofs!LeaderAhead` (1) | `LeaderIsAhead`, of a weekly count that does not move |
| `PlansProofs!EditsUndoNothing` (1) | `EditsNeverUndo` |
| `ServiceRequestsProofs!Booked` | `AcceptedIsBooked` |
| `ServiceRequestsProofs!NoOverlap` (1), `OneRowEach` (1) | `HoldsNeverOverlap`, `MarkedOnce` |
| `ServiceRequestsProofs!ProjectMembersCounted` | the member count of a project is the number of its members |
| `ServiceRequestsProofs!AllCounted` (1) | so is that of an event, and the signal count of a project |
| `CallsProofs!ClaimsAgree` (4) | `ClaimsMatchCalls` |
| `AccountsProofs!SignedIn` | `StaysSignedIn` |
| `AccountsProofs!ReportsFollowed` (1) | `StateFollowsReports` |
| `AccountsProofs!MarksKept` (1) | `MarksAreAnswered` |
| `AccountsProofs!SeatsDecided` (1) | `SeatsFollowVotes` |

The hypotheses some of them need, each with the reason it is there:

1. `OneAtATime`: any two workers are the same one, so requests do not overlap.
   Without it these statements are false, since what a handler read is stale
   when it commits; the scenarios with two workers show what is left.
2. The weekly count does not move during the vote (`Populations` has one
   member; for update requests the members who count). A count that moves can
   carry a vote nobody voted on again. `BallotsDecide` also needs a quorum of
   two in a population of two or more (`AsksForTwo`); `QuorumOfTwo` proves it
   for 2 to 499 people, from where the model leaves the sample size open.
3. Nobody is warm, and the members are a finite set. With warm accounts
   `RejectionIsFair` is false (section 5). The links of details ask for full
   members (`EveryoneFull`); links between projects are never rejected.
4. `OneSignalAtATime`: one handler runs at a time, none crashes, and the clock
   does not move in the middle of one.

None of the theorems bounds the number of people, requests or steps; the
`Max...` constants are any natural numbers.

The arguments:

- *Votes.* Quorum is the smaller of three quarters (rounded up) and a sample
  size; the first is at most the population. The sample above 500 is any
  number up to the population. Soundness of a rejection is monotonicity: if
  even a yes from all that is left does not pass, nothing does.
- *Update requests.* The bound on publications counts, once the request is
  closed, the handlers in flight that may still publish, plus what is published:
  each publication takes a handler off; nothing is published before the decision
  (`Unpublished`). One at a time, `Pending` (the request is open while a vote is
  in flight) and `Verdicts` (what is about to be written is what the ballots say,
  and so is the status) make every commit a step of `Decision`. A rejection is
  then fair because the weight left is that of the members who have not voted,
  which is counted with disjoint finite sets (`CompletionWeight`).
- *Events.* The types need `NamesExist`: a vote names a request that is there.
  One at a time, `ReadsHold` says that what a handler has read is still so,
  `Current` that an open phase vote starts from the present phase and an open
  edit from the present text, and no two open edits change one field. An
  approval keeps this because it closes the other phase votes and overlaps no
  other edit (`ExecuteDoes`), a join, a leave or the first half of a promotion because it
  moves the count and the members together. Every passing vote then carries what it changes.
- *Links.* One at a time a tally still stands when it is written (`LinkJobs`).
  `Follow` relates the two tables both ways: each link is that of an approved
  creation, each approved creation has one, and it is inactive exactly if a
  severing of it was approved. Fair rejection counts heads of two disjoint sets,
  those who voted and those who have not.
- *Phases.* `ClosedAgrees` is not inductive alone, since a commit writes what a
  job read earlier. The invariant adds `Rows` (what kind, target and outcome a
  stored request may combine) and `Reads` (what a job says of the request it
  read is still what the row says, except its status). The refinement maps
  every commit to `Move`, `Close`, `Convert` or a stutter, step by step. One at
  a time, `HandTrue` adds that a vote in flight is on an open request, that
  nobody else opened the vote about to be opened, and what the tally said.
- *Communities.* Settling goes through the proposals in order, and each that
  passes changes the community the next is judged by: a fold over the ids, a
  recursive function in the model. What it keeps (types, the open status, the
  community when none passes) is shown by taking the least id where it fails
  (`NatSets`: a non-empty set of numbers has a least member). `NamesExist` holds
  for any overlap, `OneInv` and `VerdictInv` one request at a time.
- *Software.* A vote names a row by number; the type invariant is inductive
  together with `NamesExist`: the row named by a job, and the pull request
  named by a replacement, exist. One request at a time, whoever still holds a
  label was there when its holders were deleted (`SweptIsCurrent`), and so goes
  with the commit that inserts the new one; what was not deleted has another
  label. That merges and decisions stand adds `JobsHold`: the row is in the
  stage the vote has read.
- *Plans.* A commit clears the flags of the whole kind before it sets one, so
  one leader per kind survives overlapping recounts; the adopted content is
  written in the same step (`JobsOK`). The leader is ahead because what a
  recount has picked is what it would pick now (`PickedNow`).
- *Edits.* Each open edit still shows the text as it is (`Shown`) and no two
  open edits change one field (`Disjoint`), since posting refuses a field under
  vote; so applying one leaves what the others have shown.
- *Service requests.* Requests are not deleted, keep their time and stay linked
  once they are (`JobOK`), so a handler that has read less than is there only
  writes a booking that is needed; the row lock of the answer keeps one hold per
  request. `Apart` and `Unmarked` say that what was found free, or unmarked, is so
  at the write.
- *Memberships.* A project is joined and left in one step, which moves the
  count by what the database did, so `Counted` is inductive however handlers
  overlap. An event is left in two: what the first has read is still so at the
  second, one request at a time (`Reads`), and there are no members before there
  is a row (`Unborn`). Both rest on what adding and removing one element does to
  the size of a finite set (`OneMore`).
- *Calls.* In the middle of a signal the claim and the session are out of step
  on purpose; `Stage` says by how much at each point of each handler, and
  `Signals` that at most one handler is at such a point. The steps on presence
  touch neither.
- *Sessions.* A token is used only after it became the cookie, and every
  response carries one that never was it (`NotIssuedYet`, `OnTheirWay`); so what
  replaced the present token was not used (`Replaced`). A token that was put on
  record as used has what replaced it on record too, or the request that will
  write it is still alive within the window, or it is one of `cut` (`Recorded`).
  So the refresh is granted, in the window or after it, but for `cut`.
- *Reports.* A report is filed only when none is active, so only the last is
  (`OnlyLastIsActive`), and the content shows what the last one that was answered
  says (`Shows`). A vote in flight finds the resolution it has read. What was
  dismissed stays beyond deleting because content only ages, and the share of
  votes a deletion takes grows with age (`Shares`, `Hopeless`).
- *Reviews.* No marker is on a cooldown (`Rested`), because a review that clears
  an account removes its marks; a closed review gets a number above all others,
  so the last is one (`ReviewHistory`), and one is open at most
  (`OneOpenReview`). A mark in flight is judged by the stances as they will be
  once it is written (`Behind`), and what it has found, a review that is open or
  enough marks to warrant one (`Warrants`), is still so when it is written
  (`StillSo`). Who counts as full is a recursion over vouches; the argument only
  uses that it is a function of the stances, reviews and warmth it reads, and so
  holds for any number of accounts, paused, cold and warmed again.
- *The board.* A request carries whom it seats and unseats (`Finding`): whoever
  stays or comes has the votes it has counted, and whoever goes has not, or has
  had its grace. One at a time nothing moves before it writes, and the rest
  only resign.

What is only model-checked, and why:

- everything with fairness (`LinesRecover`, `ProposalsSettle`): liveness and
  `ENABLED` are beyond the prover;
- the rest of `Services` and `People`: activities and their seats, help
  requests, discussion, chats, follows, scopes and feeds have no theorems. Their
  properties are stated of several instances with different constants, and the
  sums over rows they speak of (seats taken, tallies, unread counts) are
  recursive or are folds;
- the properties that are stated of an instance of their run have no theorem of
  their name, but one about the module: `DecidedInTime` is `NoneLost` and
  `FairRejection`, `DecidedOnce` is `Refinement`, `VotesDecide` is
  `BallotsDecide`, `SettledStays` and `VotesAreFair` are `SettledFinal` and
  `FairRejection` of communities, `OverlapsAreAdopted` is `LeaderAdopted`, and
  most of `CountsAgree` of `Services` is `ProjectMembersCounted`, `AllCounted`
  and `OneRowEach`;
- what a recursive definition computes in general (the averages of plan ratings,
  the choice among plans with equal approval is proved only to be *a* leader
  ahead in approval): induction over data takes an operator as a parameter,
  which the installed provers cannot instantiate. Where an induction was needed
  it is over numbers, by a least counterexample;
- the disagreements of section 5, which are counterexamples.

## 5. Where code and words part

Three disagreements are kept as runs:

- `Marks`. "Three marks from full members open a review that every full member
  can vote on" (`bot_reviews.py:3`), but `maybe_open_review` (`:144`) is called
  by the request that makes a mark and by nothing else. A marker who loses their
  standing and gets it back counts again without anybody looking at the marks
  made meanwhile.
- `Region`. "Authorized, map-eligible markers only" (`feeds/region.py:880`), but
  help requests, projects and their activities have markers without a look at
  the communities they belong to (`:1017`). The regional feed, which says
  "Private-community items stay hidden except from that community's members"
  (`:207`), adds the activities of nearby projects in the same way (`:309`).
- `Vouchers`. "Anyone who vouched for it can't vouch for 30 days"
  (`bot_reviews.py:5`), but `vouch_banned_until` looks only at vouches that are
  still there.

Others seen while modelling; the models follow the code, and no run claims them:

- `set_organizer` answers "Keep at least one organizer"
  (`scope_governance.py:497`), but `leave_scope` (`scopes.py:709`) deletes the
  membership of anybody, after which nobody can act in an organizer-run
  community.
- Comments on events are meant to be heard of (`governance.py:43`), but
  `governance.py:249` reads a column that events do not have, and the error is
  swallowed where the comment is announced: nobody is told.
- `merge_capability.py:217`, `repository.py:203`: the DELETE of a label's holders
  does not see what another transaction has not committed, so two recounts of
  plans of different phases, or two replacements, that overlap leave two holders
  of a label.
- `auth.py:275`: a process that dies between the command that puts a token on
  record as used and the one that says what replaced it (or takes longer than
  the grace window) makes the browser's next refresh look like that of a stolen
  token, and it is refused.
- `calls.py:121`: a crash between `INCR` and `EXPIRE` leaves a count without a
  TTL, and somebody who is gone counts as present until a device of theirs comes
  back; `EventuallyUnreachable` names that case.
- `revert.py:50` opens a return on a closed project, which then has a phase
  other than "Closed" and is still marked closed. `Lifecycle!Move` allows it.
- `governance_votes.py:56` takes the weight of warm accounts off the
  full members who remain, so warm votes can hasten a rejection, and they count
  toward the quorum; `standing.py:5` says that they can do neither.
- `update_requests.py:204` publishes once per passing vote that overlaps.
- `advance.py:53` checks the plan, not the support signals.
- `phase_requests.py:67` refuses phase 4 for a request, `revert.py` does not.
- A proposal opened under the members still passes under organizers
  (`scope_governance.py:343` refuses only new ones).
- `events/actions.py:166` takes one off `member_count` even when the delete
  before it found nothing, which two overlapping leaves reach; signals drift in
  the same way.
- A straggling approval vote can move a pull request back to awaiting-merge
  after its merge was recorded (`pull_requests.py:167`), which is why
  `SoftwareMC` has one worker.
- `merge_capability.py:229` relabels a granted capability as the plan's, and
  the next plan takes it away.
- `calls.py:133`: a crash between `DECR` and `DEL` leaves a count of zero that
  keepalives only prolong; `EventuallyReachable` names that case.
- `detail_links.py:601` looks for duplicates among active links only.
- A hold stays when its request is declined or cancelled later
  (`projects_service_availability.py`), so the slot stays taken.
- `conversations.py:448`: hiding a group one created leaves it without anybody
  who may manage it; `leave_group` hands it over.
- `scopes.py:852`, `attachments.py:232` and the check-then-insert of roles are
  exceeded by overlapping requests; the properties about them are stated one
  request at a time.
- Handles are looked for in each table apart, and unique in each apart: only
  overlapping creations may share one.
- An item tagged with a private and an open community shows in lists
  (`access_control.py:355`), while opening it asks for all of its communities
  (`access_policy.py:47`).
- The personal feed drops events of private communities from people whom an
  invitation made guests of the event (`feeds/api.py:239`, against what
  `feeds/api.py:171` collects).

The `neutral` branches of the vote handlers for phases, updates, edits and
software cannot be reached: the routers accept `^(yes|no)$`. They are not modelled.

## 6. What is not modelled

`PROJECT.json` has a row for each component. What is left out as a whole only
reads (payloads of pages), or is input and output (geocoding, files, adapters,
migrations), or is a stateless check (middleware). Inside the modelled
components these are left out: personal-service projects' phases, pictures of
communities, passwords, the cache of the weekly count, ranking, paging and
wording of lists, and texts wherever only their identity matters.

### What would come next

1. Proofs for the components that have none: `Discussion` (the tallies) and
   `Activities` (the seats), with lemmas about sums over finite sets.
2. Abstract specifications of a link (it exists while both sides agreed) and of
   a session (one living token per browser), with refinements.
3. `ServiceRequests` composed with `Activities`, which now takes a booking's
   history for itself, and `Plans` with `Software`, which takes the leading plan
   as an input.
4. The weekly count with its cache, and personal-service projects.
