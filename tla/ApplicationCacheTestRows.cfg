SPECIFICATION Spec
CONSTANTS
  p1 = p1
  p2 = p2
  Proc <- MCProc
  Snapshot <- MCSnapshot
  Module <- MCModule
  Text <- MCText
  RootText <- MCRootText
  ModText <- MCModText
  Deps <- MCDeps
  Aliased <- MCAliased
  NoText = NoText
  Contract = {4}
  Selection = {"run"}
  Context = {"x"}
  Producer = {"probe"}
  Exec = {"e1", "e2", "e3"}
  NoExec = "none"
  Calls = {"c"}
  VerifiedCalls = {"c"}
  Api = {"a1", "a2"}
  Tests = {"t1", "t2"}
  Art <- MCArt
  NoArt = NoArt
  Frontend <- MCFrontend
  Emitted <- MCEmitted
  ProducerOf <- MCProducerOf
  NoRequest = NoRequest
  NoResponse = NoResponse
  NoKey = NoKey
  MaxRequests = 3
INVARIANT AnswerTestRowsFresh
CHECK_DEADLOCK FALSE
