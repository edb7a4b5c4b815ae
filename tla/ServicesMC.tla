----------------------------- MODULE ServicesMC -----------------------------
(***************************************************************************)
(* Instances of ServiceRequests, Membership, Activities and HelpRequests   *)
(* for TLC.  Each scenario is a small instance of one of them; a behaviour *)
(* stays in the scenario it starts in, and what the other modules speak of *)
(* stays as it begins.  The personal services share the variables of       *)
(* ServiceRequests; "booked" is the one the configuration describes.       *)
(***************************************************************************)
EXTENDS ServiceRequests, TLC

CONSTANTS ana, ben, w1, Pair

VARIABLES scenario, members,
          collective,   \* the requests of a collective service
          row, open, memberCount, editors, signals, made, signalCount, cached,
          phase, activities, ratings,
          slots, holders, told

OfRequests   == <<settings, offers, requests, bookings, holds, collective>>
OfMembership == <<row, open, memberCount, editors, signals, made, signalCount, cached>>
OfActivities == <<phase, activities, ratings>>
OfHelp       == <<slots, holders, told>>
NoRequests ==
  /\ settings = "unused" /\ offers = {} /\ requests = <<>> /\ bookings = <<>> /\ holds = <<>>
  /\ collective = <<>>
NoMembership ==
  /\ row = "unused" /\ open = "unused" /\ memberCount = "unused" /\ editors = "unused"
  /\ signals = "unused" /\ made = "unused" /\ signalCount = "unused" /\ cached = "unused"
NoActivities == phase = "unused" /\ activities = "unused" /\ ratings = "unused"
NoHelp == slots = "unused" /\ holders = "unused" /\ told = "unused"

(* Requests that overlap are interchangeable.                              *)
Symmetry == Permutations(Pair)

Never == [enabled |-> FALSE, mode |-> "both", offSchedule |-> TRUE]
Slots == [enabled |-> TRUE, mode |-> "calendar", offSchedule |-> FALSE]
Talk  == [enabled |-> TRUE, mode |-> "direct", offSchedule |-> FALSE]

Accepting == {"accepted", "declined"}
TwoTimes  == {<<0, 1>>, <<0, 2>>}
Reviewed == INSTANCE ServiceRequests WITH
  Users <- {ana, ben}, Author <- ana, Managers <- {ana}, Personal <- TRUE, Workers <- {w1},
  Intervals <- {<<0, 1>>}, SettingsChosen <- {Slots}, StatusesChosen <- {"open", "accepted"},
  Selections <- {"completed", "uncompleted"}, MaxTime <- 1, MaxRequests <- 1, MaxBookings <- 1
Raced == INSTANCE ServiceRequests WITH
  Users <- {ana, ben}, Author <- ana, Managers <- {ana}, Personal <- TRUE, Workers <- Pair,
  Intervals <- {<<0, 1>>}, SettingsChosen <- {},
  StatusesChosen <- {"open", "cancelled"} \cup Accepting,
  Selections <- {}, MaxTime <- 1, MaxRequests <- 1, MaxBookings <- 2
Shared == INSTANCE ServiceRequests WITH
  Users <- {ana, ben}, Author <- ana, Managers <- {ben}, Personal <- FALSE, Workers <- {w1},
  Intervals <- {<<0, 1>>}, SettingsChosen <- {Never, Slots, Talk},
  StatusesChosen <- {"cancelled"} \cup Accepting,
  Selections <- {}, MaxTime <- 1, MaxRequests <- 2, MaxBookings <- 1,
  requests <- collective

AllFull == [u \in {ana, ben} |-> "full"]
Project == INSTANCE Membership WITH
  Users <- {ana, ben}, Author <- ana, Level <- AllFull, Kind <- "project",
  Residents <- {}, Workers <- Pair, MaxSignals <- 2
ProjectAlone == INSTANCE Membership WITH
  Users <- {ana, ben}, Author <- ana, Level <- AllFull, Kind <- "project",
  Residents <- {}, Workers <- {w1}, MaxSignals <- 4
EventAlone == INSTANCE Membership WITH
  Users <- {ana, ben}, Author <- ana, Level <- AllFull, Kind <- "event",
  Residents <- {ben}, Workers <- {w1}, MaxSignals <- 2

Role(required, maximum) == [required |-> required, maximum |-> maximum]
ProjectRoles == INSTANCE Activities WITH
  Users <- {ana, ben}, Author <- ana, Kind <- "project", Organizers <- {}, Controlled <- FALSE,
  Workers <- {w1}, Shapes <- {<<Role(1, 1), Role(1, 0)>>, <<>>}, MaxTime <- 2, MaxActivities <- 1
EventRoles == INSTANCE Activities WITH
  Users <- {ana, ben}, Author <- ana, Kind <- "event", Organizers <- {ana}, Controlled <- TRUE,
  Workers <- {w1}, Shapes <- {<<Role(1, 2)>>}, MaxTime <- 2, MaxActivities <- 1
RacedRoles == INSTANCE Activities WITH
  Users <- {ana, ben}, Author <- ana, Kind <- "event", Organizers <- {ana}, Controlled <- FALSE,
  Workers <- Pair, Shapes <- {<<Role(1, 1)>>}, MaxTime <- 1, MaxActivities <- 1

Help == INSTANCE HelpRequests WITH
  Users <- {ana, ben}, Author <- ana, Shapes <- {<<1>>, <<1, 0>>, <<2, 1>>, <<>>}, Workers <- {w1}

MCInit ==
  \/ /\ \/ scenario = "booked" /\ Init /\ collective = <<>>
        \/ scenario = "reviewed" /\ Reviewed!Init /\ collective = <<>>
        \/ scenario = "raced" /\ Raced!Init /\ collective = <<>>
        \/ scenario = "shared" /\ Shared!Init /\ requests = <<>>
     /\ members = "unused" /\ NoMembership /\ NoActivities /\ NoHelp
  \/ /\ \/ scenario = "project" /\ Project!Init
        \/ scenario = "project alone" /\ ProjectAlone!Init
        \/ scenario = "event alone" /\ EventAlone!Init
     /\ now = "unused" /\ marks = "unused" /\ NoRequests /\ NoActivities /\ NoHelp
  \/ /\ \/ scenario = "project roles" /\ ProjectRoles!Init
        \/ scenario = "event roles" /\ EventRoles!Init
        \/ scenario = "raced roles" /\ RacedRoles!Init
     /\ NoRequests /\ NoMembership /\ NoHelp
  \/ /\ scenario = "help" /\ Help!Init
     /\ now = "unused" /\ marks = "unused" /\ members = "unused"
     /\ NoRequests /\ NoMembership /\ NoActivities

MCNext ==
  /\ UNCHANGED scenario
  /\ \/ /\ \/ scenario = "booked" /\ Next /\ UNCHANGED collective
           \/ scenario = "reviewed" /\ Reviewed!Next /\ UNCHANGED collective
           \/ scenario = "raced" /\ Raced!Next /\ UNCHANGED collective
           \/ scenario = "shared" /\ Shared!Next /\ UNCHANGED requests
        /\ UNCHANGED <<members, OfMembership, OfActivities, OfHelp>>
     \/ /\ \/ scenario = "project" /\ Project!Next
           \/ scenario = "project alone" /\ ProjectAlone!Next
           \/ scenario = "event alone" /\ EventAlone!Next
        /\ UNCHANGED <<now, marks, OfRequests, OfActivities, OfHelp>>
     \/ /\ \/ scenario = "project roles" /\ ProjectRoles!Next
           \/ scenario = "event roles" /\ EventRoles!Next
           \/ scenario = "raced roles" /\ RacedRoles!Next
        /\ UNCHANGED <<OfRequests, OfMembership, OfHelp>>
     \/ /\ scenario = "help" /\ Help!Next
        /\ UNCHANGED <<now, marks, members, OfRequests, OfMembership, OfActivities>>

allVars == <<scenario, job, now, marks, members, OfRequests, OfMembership, OfActivities, OfHelp>>
MCSpec == MCInit /\ [][MCNext]_allVars

-----------------------------------------------------------------------------
(* The properties of the other modules, each of the scenarios it is about. *)

(* The counts of a row agree with the rows they count: a project's members *)
(* always, the rest when requests do not overlap, and what a person says   *)
(* of an activity counts once (projects/actions.py:54-150 and 893-935,     *)
(* events/actions.py:122-170, projects_service_requests.py:840-895).       *)
CountsAgree ==
  /\ scenario = "reviewed" => Reviewed!MarkedOnce
  /\ scenario = "project" => Project!MembersAreCounted
  /\ scenario = "project alone" => ProjectAlone!SignalsAreCounted /\ ProjectAlone!MembersAreCounted
  /\ scenario = "event alone" => EventAlone!MembersAreCounted

(* One request at a time, roles keep to their maximum and to the members,  *)
(* and those of a help request to one for each person                      *)
(* (projects/actions.py:586-625, activity_roles.py:35-60,                  *)
(* content/help_requests.py:428-449).                                      *)
SeatsWithinBounds ==
  /\ scenario = "project roles" => ProjectRoles!SeatsWithinBounds
  /\ scenario = "event roles" => EventRoles!SeatsWithinBounds
  /\ scenario = "help" => Help!SeatsWithinBounds

(* What the history says of an activity stands (activity_history.py:48-57  *)
(* and 122-160).                                                           *)
HistoryStands ==
  [][/\ scenario = "project roles" => ProjectRoles!HistoryStep
     /\ scenario = "event roles" => EventRoles!HistoryStep
     /\ scenario = "raced roles" => RacedRoles!HistoryStep]_allVars
=============================================================================
