\* Two sessions and two providers.  Turns of one or both, /new of either kind and
\* /model on the first session, in five different selections.
SPECIFICATION Spec
CONSTANTS
  chatA = chatA
  chatB = chatB
  claude = claude
  codex = codex
  first = first
  second = second
  other = other
  newA = newA
  resetA = resetA
  modelA = modelA
  NoOp = NoOp
  NoProvider = NoProvider
  Keys <- TwoSessions
  Providers <- TwoProviders
  Default = claude
  Turns <- ThreeTurns
  Resets <- BothResets
  Switches <- OneSwitch
  KeyOf <- KeyOfAll
  Chosen <- ChosenOnes
  Queued <- OnlyReset
  OfCurrent <- OnlyReset
  Days <- FiveDays
INVARIANTS
  ConversationsApart
  ForgottenStaysForgotten
  CountedOnce
