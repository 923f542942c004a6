------------------------------ MODULE MCApiVm ------------------------------
(* A package with two modules under apis/ that may require each other, the *)
(* entry, and paths that lead out of the package or nowhere.               *)
EXTENDS ApiVm

Package == INSTANCE SkillPackage WITH
  ScriptStem <- ("index.js" :> "index") @@ ("pay.js" :> "pay") @@ ("util.js" :> "util")

EntryModule == <<"index">>
MCModule == Package!ModuleIds((<<"apis", "pay.js">> :> "file") @@ (<<"apis", "util.js">> :> "file"))
MCSpecifier == {<<".", "apis", "pay">>, <<"apis", "util">>, <<".", "util">>, <<"..", "index">>, <<"..", "..", "index">>, <<".", "pay">>}
=============================================================================
