-------------------------- MODULE MCSharedDiscovery --------------------------
(* A home, inside a directory of users, with a repository, a dependency       *)
(* directory and raw npm storage; a second tree reached by a link; a temp     *)
(* directory.  Roots are given outside home, inside it, around it, by a link, *)
(* twice, and where there is nothing.                                         *)
EXTENDS SharedDiscovery

u == <<"users">>
h == <<"users", "home">>
d == <<"data">>
t == <<"tmp">>
modules == h \o <<"node_modules">>

MCDirectories == {u, h, h \o <<".git">>, modules, h \o <<"_cacache">>,
                  d, d \o <<"bare">>, t, t \o <<"sub">>,
                  h \o <<".git", "site-packages">>}
MCStaging == {t \o <<"pglog">>, t \o <<"sub", "pglog">>}
MCLinks == [p \in {h \o <<"link">>} |-> d]
MCTree == MCDirectories \cup MCStaging \cup DOMAIN MCLinks \cup
          {modules \o <<"f">>, h \o <<"_cacache", "x">>, d \o <<"bare", "x">>,
           h \o <<".git", "site-packages", "f">>}
MCBare == {d \o <<"bare">>}
MCTemps == <<t>>
MCChoices == {<<>>, <<d>>, <<h \o <<"link">>>>, <<modules, <<"absent">>>>, <<t>>,
              <<u>>, <<modules, h>>}

MCFleeting == {t \o <<"sub">>, h \o <<".git">>}

(* The temp directory lies inside home, as %TEMP% does on Windows.            *)
NestedDirectories == {u, h, h \o <<"tmp">>}
NestedTree == NestedDirectories \cup {h \o <<"tmp", "pglog">>}
NestedStaging == {h \o <<"tmp", "pglog">>}
NestedTemps == <<h \o <<"tmp">>>>
NoLinks == [p \in {} |-> p]
OnlyHome == {<<>>}
=============================================================================
