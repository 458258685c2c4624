------------------------------ MODULE Catalog ------------------------------
(***************************************************************************)
(* The catalog derived from the card files on disk:                        *)
(* broker/crates/broker/src/catalog.rs, proto/src/card.rs and dirs.rs,     *)
(* which packages/locator-ts/src/catalog.ts and parse.ts follow.           *)
(*                                                                         *)
(* These are the operators of one scan.  A text is a sequence of tokens: a *)
(* name of an environment variable, one of the marks of a reference, or a  *)
(* piece of any other text.  A server name is the sequence of its labels.  *)
(* The marks are "%", "$", "{" and "}".                                    *)
(***************************************************************************)
EXTENDS Naturals, FiniteSets, Sequences, SequencesExt

CONSTANTS
    Roots,      \* registry directories with their tiers, as resolve_roots gives them
    Labels,     \* well-formed labels: lower case, digits, inner dashes
    Variables,  \* tokens that are names of environment variables
    Env,        \* the variables that are set, and their values
    Path,       \* the directories on PATH
    Programs    \* texts of the paths at which a file exists

Tiers == {"package", "system", "user", "low"}

ASSUME RootsAssumption == Roots \in Seq([dir : STRING, tier : Tiers])
ASSUME EnvAssumption == DOMAIN Env \subseteq Variables

-----------------------------------------------------------------------------
(* Directories                                                             *)

Rank == [package |-> 3, system |-> 2, user |-> 1, low |-> 0]

\* resolve_roots: the list of the platform, XDG_DATA_DIRS in their order.
RootsOn(platform, dataDirs) ==
    CASE platform = "windows" -> <<"system", "user", "low">>
      [] platform = "macos" -> <<"system", "user">>
      [] platform = "linux" -> [i \in 1..dataDirs |-> "system"] \o <<"user">>

\* sort_by_key is stable: within a tier the order of the list stays.
Precedes(roots, i, j) ==
    LET ri == Rank[roots[i].tier]  rj == Rank[roots[j].tier] IN
    ri > rj \/ (ri = rj /\ i < j)
Place(roots, i) == 1 + Cardinality({j \in DOMAIN roots : Precedes(roots, j, i)})
OrderedAsListed(roots) == roots
Ordered(roots) ==
    [k \in DOMAIN roots |-> roots[CHOOSE i \in DOMAIN roots : Place(roots, i) = k]]

-----------------------------------------------------------------------------
(* Environment references                                                  *)

Closes(text, start, mark) == {j \in start..Len(text) : text[j] = mark}
First(S) == CHOOSE j \in S : \A k \in S : j <= k

\* The reference that starts at i, as its name and its last token; <<>> if what
\* stands there is none.
Reference(text, i) ==
    LET braced == text[i] = "$" /\ i < Len(text) /\ text[i + 1] = "{"
        start == IF braced THEN i + 2 ELSE i + 1
        ends == Closes(text, start, IF braced THEN "}" ELSE "%")
        name == SubSeq(text, start, First(ends) - 1)
    IN IF /\ text[i] = "%" \/ braced
          /\ ends # {}
          /\ Len(name) = 1 /\ name[1] \in Variables
       THEN <<name[1], First(ends)>>
       ELSE <<>>

\* expand_env: one pass; a variable that is not set is left as it stands, and
\* a value is not looked at again.
ExpandEnv(text) ==
    LET from[i \in 1..(Len(text) + 1)] ==
            LET ref == Reference(text, i) IN
            IF i > Len(text) THEN <<>>
            ELSE IF ref = <<>> THEN <<text[i]>> \o from[i + 1]
            ELSE (IF ref[1] \in DOMAIN Env THEN Env[ref[1]]
                                           ELSE SubSeq(text, i, ref[2])) \o from[ref[2] + 1]
    IN from[1]

-----------------------------------------------------------------------------
(* Card files                                                              *)

\* What is in a file: it cannot be read, is no JSON, or is JSON.  complete: has
\* name, version and description and the shape of a card.
Unreadable == [kind |-> "unreadable"]
Malformed == [kind |-> "malformed"]
Json(name, complete, launch, endpoint, remotes, command) ==
    [kind |-> "json", name |-> name, complete |-> complete, launch |-> launch,
     endpoint |-> endpoint, remotes |-> remotes, command |-> command]

\* At least two labels of the right form; that a name has at most 200 characters is
\* left out.
IsReverseDns(name) == Len(name) >= 2 /\ \A i \in DOMAIN name : name[i] \in Labels

Validate(card) ==
    /\ card.complete
    /\ IsReverseDns(card.name)
    /\ card.launch # "none" \/ card.endpoint \/ card.remotes
    /\ card.launch = "executable" => card.endpoint

ExpandCard(card) ==
    IF card.launch = "none" THEN card
    ELSE [card EXCEPT !.command = ExpandEnv(card.command)]

\* parse_card_file: the first check that fails names the diagnostic.  Expansion
\* leaves the shape of a card alone, so the second validation repeats the first.
Diagnosis(file, content) ==
    CASE content.kind = "unreadable" -> "unreadable"
      [] content.kind = "malformed" -> "malformed-json"
      [] content.kind = "json" ->
            IF ~Validate(content) THEN "schema-invalid"
            ELSE IF content.name # file THEN "filename-mismatch"
            ELSE IF ~Validate(ExpandCard(content)) THEN "schema-invalid"
            ELSE "none"

\* resolve_command: a text with a separator is a path, any other is looked for
\* in the directories on PATH.  The separators of Windows and the extensions its
\* PATHEXT adds are left out: they say which file a text stands for, and nothing else.
HasSeparator(command) == \E i \in DOMAIN command : command[i] = "/"
Resolves(command) ==
    IF HasSeparator(command) THEN command \in Programs
    ELSE \E i \in DOMAIN Path : Path[i] \o <<"/">> \o command \in Programs

IsOrphaned(card) == card.launch # "none" /\ ~Resolves(card.command)

-----------------------------------------------------------------------------
(* One scan                                                                *)

EmptyCatalog == [entries |-> {}, diagnostics |-> {}]
Named(catalog, name) == {e \in catalog.entries : e.name = name}

EntryOf(root, file, content) ==
    LET card == ExpandCard(content) IN
    [name |-> file, tier |-> root.tier, dir |-> root.dir, shadowed |-> <<>>,
     orphaned |-> IsOrphaned(card), command |-> card.command]
Shadowing(e, root) == [e EXCEPT !.shadowed = Append(@, root.dir)]
Note(code, root, file) == [code |-> code, dir |-> root.dir, file |-> file]

\* One file: a diagnostic, the entry of its name, or one more that the entry
\* of its name shadows.
AddFileOverriding(catalog, root, file, content) ==
    IF Diagnosis(file, content) # "none"
    THEN [entries |-> catalog.entries,
          diagnostics |-> catalog.diagnostics \cup {Note(Diagnosis(file, content), root, file)}]
    ELSE [entries |-> (catalog.entries \ Named(catalog, file)) \cup {EntryOf(root, file, content)},
          diagnostics |-> catalog.diagnostics]
AddFile(catalog, root, file, content) ==
    LET code == Diagnosis(file, content) IN
    IF code # "none"
    THEN [entries |-> catalog.entries,
          diagnostics |-> catalog.diagnostics \cup {Note(code, root, file)}]
    ELSE IF Named(catalog, file) # {}
    THEN [entries |-> {IF e.name = file THEN Shadowing(e, root) ELSE e : e \in catalog.entries},
          diagnostics |-> catalog.diagnostics \cup {Note("shadowed", root, file)}]
    ELSE [entries |-> catalog.entries \cup {EntryOf(root, file, content)},
          diagnostics |-> catalog.diagnostics]

\* A directory that is missing or cannot be read has no files; files is the
\* content of the others by name.
AddDirectory(catalog, root, files) ==
    LET order == SetToSeq(DOMAIN files)
        upTo[n \in 0..Len(order)] ==
            IF n = 0 THEN catalog
            ELSE AddFile(upTo[n - 1], root, order[n], files[order[n]])
    IN upTo[Len(order)]

\* The orphan filter comes last: an orphan of a higher tier hides what it shadows.
Listed(catalog, includeOrphaned) ==
    IF includeOrphaned THEN catalog
    ELSE [catalog EXCEPT !.entries = {e \in @ : ~e.orphaned}]

\* What the first n directories give.
ScanOf(disk, roots) ==
    LET order == Ordered(roots)
        upTo[n \in 0..Len(roots)] ==
            IF n = 0 THEN EmptyCatalog
            ELSE AddDirectory(upTo[n - 1], order[n], disk[order[n].dir])
    IN upTo
Enumerate(disk, roots, includeOrphaned) ==
    Listed(ScanOf(disk, roots)[Len(roots)], includeOrphaned)
=============================================================================
