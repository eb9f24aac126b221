SPECIFICATION MCSpec
CONSTANTS
  p1 = p1
  p2 = p2
  Proc <- MCProc
  Module <- MCModule
  Library = {"text"}
  Wanted = {"lexer"}
  Text = {"old", "new"}
  Resolves <- MCResolves
  Backend = {"cranelift", "vm"}
  NoBackend = "none"
  Root = {"run"}
  AllRoots = "all"
  Config <- MCConfigs
  Legacy <- MCLegacy
  MaxRuns = 4
  QuietReads = TRUE
  NoProgram = NoProgram
  NoArtifact = NoArtifact
  NoMeta = NoMeta
SYMMETRY MCSymmetry
INVARIANTS ProgramsBindTheirSources ServesItsSources SessionFitsProgram
