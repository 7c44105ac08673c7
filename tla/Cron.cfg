\* A job that may have two tasks, a webhook on its dependency, an edit of the file,
\* a press of a button.
SPECIFICATION Spec
CONSTANTS
  nightly = nightly
  hook = hook
  browser = browser
  early = early
  late = late
  NoDep = NoDep
  Gone = Gone
  Jobs <- OneJob
  Hooks <- OneHook
  Deps <- OneDep
  Plans <- TwoPlans
  DepOf <- AllOnBrowser
  MaxTasks = 2
  MaxEdits = 1
  MaxToggles = 1
SYMMETRY Symmetric
INVARIANTS
  OneTaskEach
  ExecutionsSurvive
  EnabledIsScheduled
  EditsAreRead
  LineIsServed
CHECK_DEADLOCK FALSE
