\* The chat, updates, database files, providers, a profile and the server edge, one at a time.
SPECIFICATION ServicesSpec
CONSTANTS
  Question = {"q1"}
  Version = {"v1", "v2"}
  MaxPosts = 2
  MaxCrashes = 1
  MaxFinds = 1
  Release = {1, 2, 3}
  Stager = {"bot", "cli"}
  Commands = {"cli"}
  Item = {"VERSION", "code", "extra"}
  Files <- MCFiles
  MaxStops = 2
  MaxOps = 3
  Host = {h1, h2}
  Database <- MCDatabase
  Target <- MCTarget
  MaxWrites = 2
  MaxBackups = 3
  MaxStarts = 3
  ProviderId = {"p", "q"}
  Kind = {"openai"}
  Address = {"own"}
  ModelName = {"big", "small"}
  Routing = {"turn", "sub"}
  Connecting = {"one", "two"}
  Rule <- MCRule
  Catalogue <- MCCatalogue
  MaxRoutes = 2
  MaxStoreErrors = 1
  MaxEdits = 3
  Sender = {"s", "t"}
  MaxMessages = 3
  MaxEnds = 1
  MaxFaults = 1
  Webhook = {"early", "late"}
  Carries <- MCCarries
  Request = {r1, r2}
  Limit = 2
  Minute = 2
  Remembered = 2
  Socket = {"tab"}
  Publisher = {"loop", "pool"}
  Room = 1
  MaxTicks = 3
  MaxEvents = 3
  MaxEdgeEnds = 1
INVARIANTS DeliveryIsSound AnswerGoesOneWay ServedIsOneRelease DatabasesAreKept
  RouteIsAccounted PauseIsKept EdgeIsSound
CHECK_DEADLOCK FALSE
