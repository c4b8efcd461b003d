\* One tool; two actions, MCP servers, channels, agents, skills and knowledge
\* nodes; two clerks and one key; two requests besides the start; three calls of
\* a client, of an MCP server and of tools; every context of four keys; two runs
\* with three subscribers.
CONSTANTS
  script1 = script1
  unknown = unknown
  MaxTools = 1
  MaxActions = 2
  MaxBindings = 3
  ToolSlug = {slug1}
  ActionSlug = {script1, unknown}
  Registered = {script1}
  Payloads <- ActionLists
  NoRow = NoRow
  d1 = d1
  d2 = d2
  slug1 = slug1
  slug2 = slug2
  MaxServers = 2
  ServerSlug = {slug1, slug2}
  Source = {d1, d2}
  SlugOf <- OneSlug
  ServerEdits <- McpPayloads
  Null = Null
  Outside = Outside
  Clerk = {h1, h2}
  Channel = {c1, c2}
  Token = {b1, b2}
  MaxSecrets = 2
  NoValue = NoValue
  Agent = {n1, n2}
  Name = {x, y}
  Key = {k1}
  Caller = {r1}
  NoOne = NoOne
  MaxSkills = 2
  MaxNotes = 2
  MaxBound = 1
  SkillSlug = {x, y}
  Folder = {f1, f2}
  NoteTool = {t1, t2}
  NoteSlug = {x, y}
  ScriptSlug = {y}
  NoItem = NoItem
  Boot = Boot
  Prober = {p1, p2}
  MaxModules = 3
  Script = {script1, script2}
  Defines <- TwoOfOneSlug
  NoTask = NoTask
  Buyer = {q1, q2, q3}
  MaxLife = 2
  MaxRetries = 1
  ToolCaller = {q1, q2, q3}
  MaxProcesses = 3
  NoProcess = NoProcess
  Good = {g1, g2}
  Bad = {zero}
  NoId = NoId
  Empty = Empty
  Fresh = Fresh
  Call = {q1, q2, q3}
  ScriptTool = {script1}
  ApiTool = {api}
  KnowledgeTool = {knowledge}
  StopTool = {script1, knowledge}
  MaxSteps = 2
  NodeTool = {script1, api}
  NoTool = NoTool
  item_id = item_id
  itemId = itemId
  item_number = item_number
  shop = shop
  v1 = v1
  v2 = v2
  Param = {item_id, itemId, item_number, id, shop}
  Snake <- SnakeMap
  Camel <- CamelMap
  IdNames = {item_id}
  NumberOf <- NumberMap
  Id = id
  Scripts <- ScriptSet
  Values = {v1, v2, Blank}
  Blank = Blank
  Args <- ArgSet
  States <- StateSet
  NoArg = NoArg
  Job = {j1, j2}
  plain = plain
  failing = failing
  later = later
  Order <- Handlers
  Sync = {plain}
  Failing = {failing}
  Async = {later}
  Ways = {"completed", "paused", "raised", "cancelled"}
SYMMETRY ClerkSymmetry
SPECIFICATION Spec
INVARIANTS TypeOK ReplaceIsClean RowsRunnable SyncMatchesDisk ConfirmedHookWorks KeyAuthority SlugsMeanOne TracedOnce NoNeedlessFetch OneServerPerRun ReadersAgree StopMeetsCalls ActionsGetTheirValues EventsPaired
CHECK_DEADLOCK FALSE
