--------------------------- MODULE MCCatalogWatch ---------------------------
(***************************************************************************)
(* Instances of CatalogWatch for TLC.                                      *)
(***************************************************************************)
EXTENDS CatalogWatch, TLC

\* Two system directories, one of them twice, as XDG_DATA_DIRS may give them, and
\* that of the user, listed lowest tier first as --roots may.
LinuxTiers == RootsOn("linux", 3)
MCRoots == <<[dir |-> "user", tier |-> LinuxTiers[4]],
             [dir |-> "share", tier |-> LinuxTiers[1]],
             [dir |-> "local", tier |-> LinuxTiers[2]],
             [dir |-> "share", tier |-> LinuxTiers[3]]>>

MCEnv == "HOME" :> <<"/", "home">>

Notes == <<"com", "notes">>
Mail == <<"com", "mail">>

\* A card that can be launched after expansion, and one whose program is not there.
Home == <<"%", "HOME", "%">>
Launchable(name) == Json(name, TRUE, "stdio", FALSE, FALSE, Home \o <<"/", "bin">>)
Orphan(name) == Json(name, TRUE, "executable", TRUE, FALSE, <<"$", "{", "TMP", "}">>)

\* The second file is there only once an installer writes it, with another server's card.
MCFiles == {Notes, Mail}
MCContents == {Launchable(Notes), Orphan(Notes)}
MCWritten == MCContents
MCInstalled == {Notes :> Launchable(Notes)}

\* The user's directory is on PATH, so its program has two names.
MCPath == <<<<"/", "home">>>>
MCPrograms == {<<"/", "home", "/", "bin">>}
=============================================================================
