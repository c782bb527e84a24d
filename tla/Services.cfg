SPECIFICATION Spec
CONSTANTS
  MaxRevision = 3  MaxBacklog = 1
  MaxEpoch = 3  Readings = {"approval", "chat"}  Statuses = {"working", "blocked", "idle"}
  Terminals = {1}  MaxTimeouts = 1
  Period = 2  MaxOutput = 2  MaxTrouble = 1  CtlQueue = 1
  Devices = {d1, d2}  Endpoints = {e1, e2}  MaxPublish = 1  MaxOdds = 2  MaxAttempts = 2
  Batches = {b1, b2}  Files = 2  ChunksPerFile = 1  MaxRuns = 2  MaxStaged = 1  MaxUploadOdds = 1
  Languages = {en}  SystemVoices = {}  Utterances = {u1, u2}  MaxInFlight = 1
  MaxSpeechTasks = 2  MaxSpeechOdds = 1
  MaxVersion = 3  MaxUpdateTasks = 3  MaxUpdateOdds = 1
  FormOptions = 2  MaxHand = 1
  AskKinds = {"answer", "next", "previous", "clarify", "approval"}  MaxOps = 2
  MaxLedgerEntries = 1  MaxAskOdds = 1
  Agents = {"claude", "codex", "qoder", "hermes", "omp", "opencode", "kimi", "shell"}
  Commands = {1, 2}  MaxDraws = 3
  HerdrPanes = {1, 2}  EventQueue = 1  SignalQueue = 1  DialPermits = 1  MaxHerdrEvents = 2
  ConvoKinds = {"jsonl", "claude", "omo", "opencode", "hermes", "devin"}  PageSize = 2  MaxConvoOps = 2
  CommandMenus = {{"qoder", "stop", "clear"}, {"prompt", "stop"}, {"text", "keys", "secret"},
                   {"focus", "tab", "layout"}, {"start_argv"}, {"clear", "start"},
                   {"close", "open"}, {"arrange", "create", "remove"}, {"search", "stop"}, {"select"}, {"inspect"}}
  MaxFaults = 1
  MaxRows = 2  ActionRows = {2}  JournalItems = 1  EventBacklog = 2  Rotations = 1  MaxBreaks = 2
INVARIANTS
  ForwardedIsCurrent
  
  NothingMissed
  ScrollFenced
  OwedIsShown
  ResolvedIsRetracted
  
  SpeechAccounted
  UpdateIsSound
  FormAnswered
  AnswersHold
  ScreensRead
  
  ConvoFollows
  
  
CHECK_DEADLOCK FALSE
