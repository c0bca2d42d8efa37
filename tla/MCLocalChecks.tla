--------------------------- MODULE MCLocalChecks -----------------------------
(* A machine with one of everything: a global npm and an application in      *)
(* places that several checks come to, a toolchain, two startup files, a     *)
(* node_modules with a scoped package whose script runs a file inside it and one    *)
(* outside the roots, a project with sources and a font, Python and Composer *)
(* packages, and two processes beside the scanner.                           *)
EXTENDS LocalChecksInv

(* A directory and those it lies in.                                         *)
MCUp ==
  [npm |-> <<"npm">>, tmp |-> <<"tmp">>, data |-> <<"data">>, home |-> <<"home">>,
   app |-> <<"app", "home">>, versions |-> <<"versions", "home">>,
   agents |-> <<"agents", "home">>, site |-> <<"site", "home">>,
   project |-> <<"project", "home">>, fonts |-> <<"fonts", "project", "home">>,
   settings |-> <<"settings", "project", "home">>,
   modules |-> <<"modules", "project", "home">>,
   scope |-> <<"scope", "modules", "project", "home">>,
   package |-> <<"package", "scope", "modules", "project", "home">>,
   inner |-> <<"inner", "package", "scope", "modules", "project", "home">>,
   vendor |-> <<"vendor", "project", "home">>,
   composer |-> <<"composer", "vendor", "project", "home">>]
MCDirs == DOMAIN MCUp
MCDirKind ==
  [d \in MCDirs |-> CASE d \in {"modules", "site"} -> {"packages"}
                      [] d \in {"settings", "inner"} -> {"config"}
                      [] d \in {"vendor", "composer"} -> {d}
                      [] OTHER -> {}]

(* Where each file is, what its name says, and what kind of file it is.      *)
File(dir, kind, ext, usual, variants) ==
  [dir |-> dir, kind |-> kind, ext |-> ext, usual |-> usual, variants |-> variants]

missing == [ordinary EXCEPT !.there = "missing"]
unreadable == [ordinary EXCEPT !.there = "unreadable"]
irregular == [ordinary EXCEPT !.there = "irregular"]
plain == [ordinary EXCEPT !.marker = "plain"]
escaped == [ordinary EXCEPT !.marker = "escaped"]
inComment == [plain EXCEPT !.commented = TRUE]
names_sidecar == [ordinary EXCEPT !.sidecar = TRUE]
asPublished == [ordinary EXCEPT !.published = TRUE]
span == [ordinary EXCEPT !.padding = "span"]
binary == [ordinary EXCEPT !.head = "binary"]
native == [ordinary EXCEPT !.head = "native", !.sidecar = TRUE]
magic == [ordinary EXCEPT !.head = "magic"]
html == [ordinary EXCEPT !.head = "html"]
suspect == [ordinary EXCEPT !.review = "code"]
hidden == [ordinary EXCEPT !.review = "hidden"]
bad == [ordinary EXCEPT !.declares = TRUE]
large == [ordinary EXCEPT !.size = "large"]
huge == [ordinary EXCEPT !.size = "huge"]

Files ==
  [cli |-> File("npm", {"entrypoint"}, "script", ordinary, {missing, plain, names_sidecar, large, irregular}),
   cli_inz |-> File("npm", {"sidecar"}, "script", missing, {ordinary}),
   main |-> File("app", {"entrypoint"}, "script", ordinary, {missing, escaped, names_sidecar}),
   main_inz |-> File("app", {"sidecar"}, "script", missing, {ordinary}),
   claude |-> File("versions", {"toolchain"}, "other", ordinary, {plain, unreadable, native}),
   zshrc |-> File("home", {"startup"}, "other", ordinary, {plain, inComment, missing, unreadable}),
   hosts |-> File("tmp", {}, "hosts", ordinary, {bad}),
   agent |-> File("agents", {"startup"}, "other", ordinary, {plain, magic, suspect}),
   package_json |-> File("package", {"manifest", "scoped"}, "other", ordinary, {missing, unreadable, html, magic, bad, suspect}),
   hook |-> File("package", {"payload"}, "script", ordinary, {missing, plain, unreadable}),
   index |-> File("package", {"carrier"}, "script", ordinary, {plain, asPublished, irregular}),
   outside |-> File("tmp", {}, "script", ordinary, {missing, plain}),
   go_mod |-> File("project", {"marker"}, "other", ordinary, {missing}),
   source |-> File("project", {"carrier"}, "script", ordinary, {plain, span}),
   renamed |-> File("project", {}, "other", ordinary, {asPublished}),
   font |-> File("fonts", {"carrier"}, "font", magic, {ordinary, html}),
   data_font |-> File("data", {"carrier"}, "font", magic, {ordinary}),
   tasks_json |-> File("settings", {"carrier", "config"}, "tasks", ordinary, {bad, suspect, html, hidden, huge}),
   settings_json |-> File("settings", {"carrier", "config"}, "settings", ordinary, {bad, html}),
   inner_tasks |-> File("inner", {"carrier", "config"}, "tasks", ordinary, {plain}),
   gitignore |-> File("home", {"gitignore"}, "other", ordinary, {bad}),
   pth |-> File("site", {}, "other", ordinary, {suspect, plain}),
   evil_pth |-> File("site", {"badpth"}, "other", missing, {ordinary}),
   points |-> File("site", {}, "other", ordinary, {missing, unreadable}),
   module |-> File("site", {}, "other", ordinary, {plain}),
   installed |-> File("composer", {}, "other", ordinary, {bad, html}),
   autoload |-> File("vendor", {}, "other", ordinary, {plain, asPublished, binary}),
   artifact |-> File("home", {"named"}, "other", missing, {ordinary}),
   staged |-> File("tmp", {"named"}, "other", missing, {ordinary, unreadable}),
   phantom |-> File("modules", {"named"}, "other", missing, {ordinary}),
   payload |-> File("package", {"named"}, "script", missing, {ordinary})]

MCPaths == DOMAIN Files
MCDirOf == [p \in MCPaths |-> Files[p].dir]
MCKind == [p \in MCPaths |-> Files[p].kind]
(* What the script of the package runs has the name of an artifact.          *)
MCKindNames == [MCKind EXCEPT !["hook"] = @ \cup {"artifact"}]
MCExt == [p \in MCPaths |-> Files[p].ext]
MCUsual == [p \in MCPaths |-> Files[p].usual]
MCVariants == [p \in MCPaths |-> Files[p].variants]
MCUsualNames == [MCUsual EXCEPT !["hook"] = missing]
MCVariantsNames == [MCVariants EXCEPT !["hook"] = {ordinary}]
MCScope == {d \in MCDirs : d \notin {"npm", "tmp"}} \cup {p \in MCPaths : Files[p].dir \notin {"npm", "tmp"}}

(* Any one file, any one listing, or a file and a directory it lies in.       *)
MCOddities == {{p} : p \in MCPaths} \cup {{d} : d \in MCDirs}
              \cup UNION {{{p, MCUp[MCDirOf[p]][k]} : k \in DOMAIN MCUp[MCDirOf[p]]} : p \in MCPaths}
HookOddity == {{"hook"}}

MCArtifacts == <<"artifact">>
MCNpm == <<"cli">>
MCApplications == <<"main">>
MCSystem == <<"cli", "cli_inz">>
MCStaging == <<"staged">>
MCToolchains == <<"claude">>
MCLogin == <<"zshrc", "hosts">>
MCService == <<"agent">>
MCSite == <<<<"site", "site">>>>

MCPackages == [d \in MCDirs |->
  CASE d = "modules" -> <<<<"package", "package_json">>>>
    [] d = "site" -> <<<<"dist", "points">>, <<"pth", "evil_pth">>, <<"pth", "pth">>>>
    [] OTHER -> <<>>]
MCPhantoms == [d \in MCDirs |-> IF d = "modules" THEN {"phantom"} ELSE {}]
MCPayloadFiles == [p \in MCPaths |-> IF p = "package_json" THEN {"payload"} ELSE {}]
MCHooks == [p \in MCPaths |-> IF p = "package_json" THEN {"hook", "outside"} ELSE {}]
MCEntries == [p \in MCPaths |->
  CASE p = "package_json" -> {"index", "hook"} [] p = "points" -> {"module"}
    [] p = "installed" -> {"autoload"} [] OTHER -> {}]

(* The walk of home, and of a directory given with -root, in two orders.     *)
inModules == <<<<"modules", "modules">>, <<"list", "modules">>, <<"list", "scope">>,
               <<"list", "package">>>>
             \o tasks("file", <<"hook", "index", "package_json">>)
             \o <<<<"config", "inner">>, <<"list", "inner">>, <<"file", "inner_tasks">>>>
inSettings == <<<<"config", "settings">>, <<"list", "settings">>, <<"file", "settings_json">>,
                <<"file", "tasks_json">>>>
inVendor == <<<<"vendor", "installed">>, <<"list", "vendor">>, <<"list", "composer">>,
              <<"file", "installed">>, <<"file", "autoload">>>>
inFonts == <<<<"list", "fonts">>, <<"file", "font">>>>
ofProject == tasks("file", <<"source", "renamed">>)
inDirectory(d, paths) == <<<<"list", d>>>> \o tasks("file", paths)
inHome == inDirectory("agents", <<"agent">>) \o inDirectory("versions", <<"claude">>)
          \o inDirectory("app", <<"main", "main_inz">>)
inData == inDirectory("data", <<"data_font">>)
MCWalks ==
  {<<<<"list", "home">>>> \o tasks("file", <<"gitignore", "zshrc">>) \o inHome
     \o <<<<"list", "project">>>> \o inModules \o inSettings \o inFonts \o inVendor \o ofProject
     \o inData,
   <<<<"list", "home">>, <<"list", "project">>>> \o ofProject \o inVendor \o inFonts
     \o inSettings \o inModules \o inHome \o tasks("file", <<"zshrc", "gitignore">>)
     \o inData}

MCCommand ==
  [q \in {"self", "bundler", "stray"} |->
    [args |-> TRUE, sidecar |-> q = "stray", node |-> q # "self", located |-> q # "stray",
     script |-> CASE q = "self" -> "none" [] q = "bundler" -> "source" [] OTHER -> "font"]]
=============================================================================
