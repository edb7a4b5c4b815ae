---------------------------- MODULE AgreementsMC ----------------------------
(***************************************************************************)
(* Instances of Plans and Proposals for TLC.  Each scenario is a small     *)
(* instance of one of them; a behaviour stays in the scenario it starts    *)
(* in, and the variables it does not speak of stay as they begin.          *)
(* The scenarios of Plans with one vote at a time share its variables:     *)
(* each has two full members, and no other decides a quorum.               *)
(***************************************************************************)
EXTENDS Agreements, TLC

CONSTANTS ana, ben, cas, w1, Pair, Slots

VARIABLES scenario,
          sidePhase, sidePlans, sideAdopted,    \* plans with requests that overlap
          settings, settingsRequests,           \* and what is not an edit
          sideJob

sidePlanVars == <<sidePhase, sidePlans, sideAdopted>>
settingsVars == <<settings, settingsRequests>>
editVars     == <<text, requests, editJob>>
valueVars    == <<proposal, values, weights>>

Everybody == {ana, ben, cas}
Full  == [u \in {ana, ben} |-> "full"]
Mixed == [u \in Everybody |-> IF u = cas THEN "warm" ELSE "full"]
Every == {"yes", "no", "neutral"}

(* Requests that overlap are interchangeable, and so are two schedules.    *)
Symmetry == Permutations(Pair) \cup Permutations(Slots)

Starred == INSTANCE Plans WITH
  Users <- {ana, ben}, Level <- Full, Members <- {ana, ben}, Kind <- "event", Controlled <- FALSE,
  Organizers <- {}, Workers <- {w1}, Kinds <- {"event"}, Authors <- {ana},
  Contents <- {"morning"}, Answers <- {"yes", "no"}, Targets <- {"plan"}, Stars <- {2},
  Rated <- {"clarity"}, MaxPlans <- 2
Phased == INSTANCE Plans WITH
  Users <- {ana, ben}, Level <- Full, Members <- {ana, ben}, Kind <- "project", Controlled <- FALSE,
  Organizers <- {}, Workers <- {w1}, Kinds <- {"production", "distribution"}, Authors <- {ana},
  Contents <- {"software", "none"}, Answers <- {"yes", "no"}, Targets <- {"plan"}, Stars <- {},
  Rated <- {},
  MaxPlans <- 2
Valued == INSTANCE Plans WITH
  Users <- {ana, ben}, Level <- Full, Members <- {ana, ben}, Kind <- "project", Controlled <- FALSE,
  Organizers <- {}, Workers <- {w1}, Kinds <- {"distribution"}, Authors <- {ana},
  Contents <- {"software"}, Answers <- Every, Targets <- {"plan", "value"}, Stars <- {2},
  Rated <- {"clarity", "access"}, MaxPlans <- 1
Recounted == INSTANCE Plans WITH
  Users <- {ana, ben}, Level <- Full, Members <- {ana, ben}, Kind <- "event", Controlled <- FALSE,
  Organizers <- {}, Workers <- Pair, Kinds <- {"event"}, Authors <- {ana},
  Contents <- Slots, Answers <- {"yes", "no"}, Targets <- {"plan"}, Stars <- {}, Rated <- {},
  MaxPlans <- 2,
  phase <- sidePhase, plans <- sidePlans, adopted <- sideAdopted, job <- sideJob
Organized == INSTANCE Plans WITH
  Users <- {ana, ben}, Level <- Full, Members <- {ana, ben}, Kind <- "event", Controlled <- TRUE,
  Organizers <- {ana}, Workers <- {w1}, Kinds <- {"event"}, Authors <- {ana, ben},
  Contents <- {"morning", "evening", "backwards", "none"}, Answers <- Every, Targets <- {"plan"}, Stars <- {}, Rated <- {},
  MaxPlans <- 3,
  phase <- sidePhase, plans <- sidePlans, adopted <- sideAdopted, job <- sideJob

Settings == INSTANCE Proposals WITH
  text <- settings, requests <- settingsRequests, job <- sideJob,
  Users <- {ana, ben}, Level <- Full, Members <- {ana, ben}, Scheme <- "settings",
  Fields <- {"settings"}, Texts <- {"one", "two"}, Owner <- "project",
  Controlled <- FALSE, Labels <- {}, Workers <- {w1}, MaxRequests <- 2, MaxRows <- 0
ProjectValues == INSTANCE Proposals WITH
  text <- settings, requests <- settingsRequests, job <- sideJob,
  Users <- {ana, ben}, Level <- Full, Members <- {ana}, Scheme <- "edit",
  Fields <- {}, Texts <- {"one"}, Owner <- "project",
  Controlled <- FALSE, Labels <- {"fair", "open"}, Workers <- {w1}, MaxRequests <- 0, MaxRows <- 2
EventValues == INSTANCE Proposals WITH
  text <- settings, requests <- settingsRequests, job <- sideJob,
  Users <- {ana, ben}, Level <- Full, Members <- {ana}, Scheme <- "edit",
  Fields <- {}, Texts <- {"one"}, Owner <- "event",
  Controlled <- FALSE, Labels <- {"fair", "open"}, Workers <- {w1}, MaxRequests <- 0, MaxRows <- 2

NoPlans     == phase = Nothing /\ plans = <<>> /\ adopted = [content |-> Nothing, merger |-> {}]
               /\ job = "unused"
NoSidePlans == sidePhase = "unused" /\ sidePlans = "unused" /\ sideAdopted = "unused"
NoEdits     == text = "unused" /\ requests = <<>> /\ editJob = "unused"
NoSettings  == settings = "unused" /\ settingsRequests = "unused"
NoValues    == proposal = "unused" /\ values = "unused" /\ weights = "unused"

MCInit ==
  \/ /\ \/ scenario = "ranked" /\ Init
        \/ scenario = "starred" /\ Starred!Init
        \/ scenario = "phased" /\ Phased!Init
        \/ scenario = "valued" /\ Valued!Init
     /\ NoSidePlans /\ NoEdits /\ NoSettings /\ NoValues /\ sideJob = "unused"
  \/ /\ \/ scenario = "recounted" /\ Recounted!Init
        \/ scenario = "organized" /\ Organized!Init
     /\ NoPlans /\ NoEdits /\ NoSettings /\ NoValues
  \/ /\ scenario = "edits" /\ Edits!Init
     /\ NoPlans /\ NoSidePlans /\ NoSettings /\ sideJob = "unused"
  \/ /\ \/ scenario = "settings" /\ Settings!Init
        \/ scenario = "project values" /\ ProjectValues!Init
        \/ scenario = "event values" /\ EventValues!Init
     /\ NoPlans /\ NoSidePlans /\ NoEdits

MCNext ==
  /\ UNCHANGED scenario
  /\ \/ /\ \/ scenario = "ranked" /\ Next
           \/ scenario = "starred" /\ Starred!Next
           \/ scenario = "phased" /\ Phased!Next
           \/ scenario = "valued" /\ Valued!Next
        /\ UNCHANGED <<sidePlanVars, editVars, settingsVars, valueVars, sideJob>>
     \/ /\ \/ scenario = "recounted" /\ Recounted!Next
           \/ scenario = "organized" /\ Organized!Next
        /\ UNCHANGED <<vars, editVars, settingsVars, valueVars>>
     \/ /\ scenario = "edits" /\ Edits!Next
        /\ UNCHANGED <<vars, sidePlanVars, settingsVars, sideJob>>
     \/ /\ \/ scenario = "settings" /\ Settings!Next
           \/ scenario = "project values" /\ ProjectValues!Next
           \/ scenario = "event values" /\ EventValues!Next
        /\ UNCHANGED <<vars, sidePlanVars, editVars>>

allVars == <<scenario, vars, sidePlanVars, editVars, settingsVars, valueVars, sideJob>>
MCSpec == MCInit /\ [][MCNext]_allVars

-----------------------------------------------------------------------------
(* However many votes overlap, and whoever runs the event, one plan of a   *)
(* kind leads and it is the one taken over (projects_plans.py:187-231,     *)
(* events_plans.py:73-112).                                                *)
OverlapsAreAdopted ==
  /\ scenario = "recounted" => Recounted!LeaderIsAdopted
  /\ scenario = "organized" => Organized!LeaderIsAdopted
=============================================================================
