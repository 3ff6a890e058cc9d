----------------------------- MODULE MCServices -----------------------------
(***************************************************************************)
(* Six parts that share no state: `scene` says which of them a behaviour   *)
(* is about, and the others stay as they begin. The providers have two     *)
(* scenes, one with more routes and one with more connections; and so has  *)
(* the edge of the server, for what comes in and for what goes out.        *)
(***************************************************************************)
EXTENDS TelegramChat, Updates, Databases, Providers, Profile, ServerEdge

VARIABLE scene
servicesVars == <<telegramVars, updatesVars, databasesVars, providersVars,
                  profileVars, edgeVars, scene>>

\* A release that drops a file, and one that has it again.
MCFiles == [r \in Release |-> IF r = 2 THEN Item \ {"extra"} ELSE Item]

MCDatabase == <<"jobs", "memory">>
MCTarget == [d \in {"jobs", "memory"} |-> 2]

MCRule ==
  {[strategy |-> s, required |-> {"text", "tools"}, ceiling |-> 5, preferred |-> {"big"}] :
     s \in {"balanced", "cost"}}
MCCatalogue == [k \in Kind |-> {"big", "small"}]

MCCarries == [w \in {"early", "late"} |-> IF w = "early" THEN <<"m", "n">> ELSE <<"o">>]

One(var, set) == var = CHOOSE x \in set : TRUE

\* The user is new, or has been asked the last open question.
ServicesInit ==
  /\ scene \in {"telegram", "updates", "databases", "routes", "links", "profile",
               "hooks", "events"}
  /\ TelegramInit /\ UpdatesInit /\ DatabasesInit /\ ProvidersInit /\ ProfileInit
  /\ EdgeInit
  /\ file # NoInode => text[file].step = 2
  /\ scene # "databases" => One(rows, [Names -> {{}, {1}}])
  /\ providers["p"] # NoRow
  /\ scene # "routes" =>
       One(rule, MCRule) /\ \A m \in models : m.name = "big"
  /\ scene # "profile" => file = NoInode

\* Threads that route and threads that connect need not be many at a time, and
\* the store fails where routes are many; once messages of a user have overlapped
\* no more of them come.
ServicesNext ==
  /\ UNCHANGED scene
  /\ \/ /\ scene = "telegram" /\ TelegramNext
        /\ UNCHANGED <<updatesVars, databasesVars, providersVars, profileVars, edgeVars>>
     \/ /\ scene = "updates" /\ UpdatesNext
        /\ UNCHANGED <<telegramVars, databasesVars, providersVars, profileVars, edgeVars>>
     \/ /\ scene = "databases" /\ DatabasesNext
        /\ UNCHANGED <<telegramVars, updatesVars, providersVars, profileVars, edgeVars>>
     \/ /\ scene \in {"routes", "links"} /\ ProvidersNext
        /\ IF scene = "routes" THEN edits' <= 1 ELSE routes' <= 1 /\ storeErrors' = 0
        /\ UNCHANGED <<telegramVars, updatesVars, databasesVars, profileVars, edgeVars>>
     \/ /\ scene = "profile" /\ ProfileNext
        /\ disturbed => messages' = messages /\ ends' = ends
        /\ UNCHANGED <<telegramVars, updatesVars, databasesVars, providersVars, edgeVars>>
     \/ /\ scene = "hooks" /\ EdgeNext /\ published' = published /\ stream' = stream
        /\ UNCHANGED <<telegramVars, updatesVars, databasesVars, providersVars, profileVars>>
     \/ /\ scene = "events" /\ EdgeNext /\ UNCHANGED <<clock, request>>
        /\ UNCHANGED <<telegramVars, updatesVars, databasesVars, providersVars, profileVars>>

ServicesSpec == ServicesInit /\ [][ServicesNext]_servicesVars
=============================================================================
