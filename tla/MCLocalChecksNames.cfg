SPECIFICATION Spec
CONSTANTS
  Paths <- MCPaths
  Dirs <- MCDirs
  DirOf <- MCDirOf
  Kind <- MCKindNames
  Ext <- MCExt
  Scope <- MCScope
  Usual <- MCUsualNames
  Variants <- MCVariantsNames
  Oddities <- HookOddity
  MaxOdd = 0
  Changing = {"main", "source"}
  MaxChanges = 0
  Artifacts <- MCArtifacts
  NpmCLIs <- MCNpm
  Applications <- MCApplications
  System <- MCSystem
  Staging <- MCStaging
  Toolchains <- MCToolchains
  LoginFiles <- MCLogin
  ServiceFiles <- MCService
  Walks <- MCWalks
  SitePackages <- MCSite
  Packages <- MCPackages
  Phantoms <- MCPhantoms
  PayloadFiles <- MCPayloadFiles
  Hooks <- MCHooks
  Entries <- MCEntries
  Up <- MCUp
  DirKind <- MCDirKind
  Home = "home"
  Explicit = {"data"}
  MaxLost = 1
  Procs = {"self", "bundler", "stray"}
  Self = "self"
  Command <- MCCommand
INVARIANT NamesAreReported
CHECK_DEADLOCK FALSE
