---------------------------- MODULE SkillPackage ----------------------------
(***************************************************************************)
(* Which Skill packages load, and what their pieces are: the files of      *)
(* crates/skill-loader (package.rs, resolver.rs), the manifest             *)
(* (crates/mcp-schema: validation.rs), the modules of its script           *)
(* (js-runtime-quickjs: commonjs.rs), and the card that is read again when *)
(* it is shown (component-runtime: loader.rs).                             *)
(*                                                                         *)
(* A path is the sequence of what stands between its slashes.  A tree is   *)
(* the function from what lies below the root of the package to what it    *)
(* is: a file or a directory, or a link to one outside, which shows none   *)
(* of its entries here.  A broken link and a link inside are left out.     *)
(***************************************************************************)
EXTENDS Integers, Sequences, FiniteSets, SequencesExt

CONSTANT ScriptStem   \* of the file names that end in .js, what stands before it

ASSUME ScriptStemAssumption == DOMAIN ScriptStem \cap {"apis", "components", "index"} = {}

Nowhere == <<"">>
Outside == <<"", "">>

IsAbsolute(path) == Len(path) > 1 /\ Head(path) = ""

EntryAt(tree, place) ==
  CASE place = <<>> -> "directory"
    [] place = Outside -> "linked directory"
    [] place \in DOMAIN tree -> tree[place]
    [] OTHER -> "nothing"

IsDirectory(tree, place) == EntryAt(tree, place) \in {"directory", "linked directory"}

\* A place as a file system has it: in a directory, under a name.
IsPlace(tree, place) ==
  /\ place \in Seq(Range(place)) \ {<<>>}
  /\ Last(place) \notin {"", ".", ".."}
  /\ EntryAt(tree, Front(place)) = "directory"

IsTree(tree) ==
  \A place \in DOMAIN tree :
    /\ IsPlace(tree, place)
    /\ tree[place] \in {"directory", "file", "linked directory", "linked file"}

\* Each step of a path leads on from a directory.
Walk(tree, place, part) ==
  CASE part \in {"", "."} /\ IsDirectory(tree, place) -> place
    [] part = ".." /\ IsDirectory(tree, place) ->
         IF place = <<>> \/ EntryAt(tree, place) # "directory" THEN Outside ELSE Front(place)
    [] part \notin {"", ".", ".."} /\ EntryAt(tree, place) = "directory" /\ Append(place, part) \in DOMAIN tree ->
         Append(place, part)
    [] OTHER -> Nowhere

\* canonicalize, from the root
Locate(tree, path) ==
  LET place[n \in 0 .. Len(path)] ==
        IF n = 0 THEN <<>> ELSE Walk(tree, place[n - 1], path[n])
  IN  place[Len(path)]

ValidateInside(tree, place) ==
  IF EntryAt(tree, place) \in {"directory", "file"} THEN place ELSE Nowhere

ResolveAnywhere(tree, path) ==
  IF IsAbsolute(path) \/ ".." \in Range(path) THEN Nowhere ELSE Locate(tree, path)

\* Where a path of the package leads, or Nowhere when it is refused.
ResolvePackagePath(tree, path) ==
  IF IsAbsolute(path) \/ ".." \in Range(path) THEN Nowhere
  ELSE ValidateInside(tree, Locate(tree, path))

\* file_name and parent: the last part that is a name, and what stands before it.
ParentOfIndex(path) ==
  LET names == {i \in DOMAIN path : path[i] \notin {"", "."}}
      last == Max(names)
  IN  IF names # {} /\ path[last] = "index" THEN SubSeq(path, 1, last - 1) ELSE path

\* A component is named by its directory, or by the index in it.
ResolveComponentPath(tree, path) ==
  LET here == Locate(tree, path) IN
  CASE IsAbsolute(path) -> Nowhere
    [] ~IsAbsolute(path) /\ IsDirectory(tree, here) -> ValidateInside(tree, here)
    [] OTHER -> ResolvePackagePath(tree, ParentOfIndex(path))

ReadsRequired(tree, path) == EntryAt(tree, ResolvePackagePath(tree, path)) = "file"

ReadsOptional(tree, path) == Locate(tree, path) = Nowhere \/ ReadsRequired(tree, path)

\* read_dir of a directory of the package, which need not be there.
CanList(tree, name) == EntryAt(tree, <<name>>) = "nothing" \/ IsDirectory(tree, <<name>>)

----------------------------------------------------------------------------
(* A package: its tree, and its manifest, if that is one.  An API has a    *)
(* name, it is complete (described, and with an inputSchema for objects    *)
(* that compiles), and it may name a card.                                 *)

NoCard == <<>>

ApiScripts(tree) == {name \in DOMAIN ScriptStem : <<"apis", name>> \in DOMAIN tree}

\* discover_component_paths
Discovered(tree) ==
  LET directories == {place \in DOMAIN tree :
                        Len(place) = 2 /\ Head(place) = "components" /\ IsDirectory(tree, place)}
  IN  {Append(place, "index") : place \in directories}

\* validate_manifest_with_component_paths
IsValidManifest(manifest, discovered) ==
  LET paths == Range(manifest.components) \cup discovered \cup {Front(path) : path \in discovered}
      apis == manifest.apis
  IN
  /\ <<"">> \notin Range(manifest.components)
  /\ \A i \in DOMAIN apis :
       /\ apis[i].name # ""
       /\ \A j \in 1 .. i - 1 : apis[j].name # apis[i].name
       /\ apis[i].complete
       /\ apis[i].card # NoCard => apis[i].card \in paths

ComponentFiles == {"index.js", "index.wxml", "index.wxss", "index.json"}

Routes(package) == Range(package.manifest.components) \cup Discovered(package.tree)

\* load_components: none of its files is needed, and none may be unreadable.
LoadsComponent(tree, route) ==
  LET directory == ResolveComponentPath(tree, route) IN
  /\ directory # Nowhere
  /\ \A file \in ComponentFiles : ReadsOptional(tree, Append(directory, file))

\* load_skill: whether the package is taken.
LoadsSkill(package) ==
  LET tree == package.tree IN
  /\ \A file \in {"SKILL.md", "mcp.json", "index.js"} : ReadsRequired(tree, <<file>>)
  /\ package.parses
  /\ CanList(tree, "apis") /\ \A name \in ApiScripts(tree) : ReadsRequired(tree, <<"apis", name>>)
  /\ CanList(tree, "components")
  /\ IsValidManifest(package.manifest, Discovered(tree))
  /\ \A route \in Routes(package) : LoadsComponent(tree, route)

\* The ids that its scripts may require (CommonJsModules::from_skill).
ModuleIds(tree) ==
  LET ModuleId(path) == Append(Front(path), ScriptStem[Last(path)])
  IN  {ModuleId(path) : path \in {<<"index.js">>} \cup {<<"apis", name>> : name \in ApiScripts(tree)}}

\* ComponentPackage::load, of a card that is to be shown: links are followed.
LoadsCard(tree, path) ==
  LET directory == ResolveComponentPath(tree, path)
      Kind(file) == EntryAt(tree, Append(directory, file))
  IN
  /\ directory # Nowhere
  /\ Kind("index.wxml") \in {"file", "linked file"}
  /\ \A file \in ComponentFiles : Kind(file) \in {"file", "linked file", "nothing"}
=============================================================================
