SPECIFICATION Spec
CONSTANTS
  Paths <- MCPaths
  Dirs <- MCDirs
  DirOf <- MCDirOf
  Kind <- MCKind
  Ext <- MCExt
  Scope <- MCScope
  Usual <- MCUsual
  Variants <- MCVariants
  Oddities <- MCOddities
  MaxOdd = 2
  Changing = {"main", "source"}
  MaxChanges = 1
  Artifacts <- MCArtifacts
  NpmCLIs <- MCNpm
  Applications <- MCApplications
  System <- MCSystem
  Staging <- MCStaging
  Toolchains <- MCToolchains
  LoginFiles <- MCLogin
  ServiceFiles <- MCService
  Walks <- MCWalks
  SitePackages <- MCSite
  Packages <- MCPackages
  Phantoms <- MCPhantoms
  PayloadFiles <- MCPayloadFiles
  Hooks <- MCHooks
  Entries <- MCEntries
  Up <- MCUp
  DirKind <- MCDirKind
  Home = "home"
  Explicit = {"data"}
  MaxLost = 1
  Procs = {"self", "bundler", "stray"}
  Self = "self"
  Command <- MCCommand
INVARIANTS EvidenceIsReported MarksAreEarned NothingIsReadTwice OnlyReadsInside
  QuietFilesStayQuiet ProcessesAreAccounted
CHECK_DEADLOCK FALSE
