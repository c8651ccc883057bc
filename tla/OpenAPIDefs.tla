----------------------------- MODULE OpenAPIDefs -----------------------------
(***************************************************************************)
(* The OpenAPI definitions that WithOpenAPIDefinitions makes               *)
(* (pkg/builder/builder_misc.go), as operators.  The name of a Go type is  *)
(* a record                                                                *)
(*   type        the type                                                  *)
(*   github      its path begins with "github.com/"                        *)
(*   registered  it is in one of the two schemes of the namer              *)
(*   form        "path": the Go path; "~1": its slashes are written ~1;    *)
(*               "dns": the reverse DNS name                               *)
(* A definition is a record [of, refs]: who wrote it and what it refers to;*)
(* definitions are a map from names to them.  Made by a generated function *)
(* it has its references as they are written, refs, and by name, deps.     *)
(***************************************************************************)
EXTENDS Resources

Encoded(n) == [n EXCEPT !.form = "~1"]

(* A Go type of github.com: the names with that prefix.                      *)
HasGithubPrefix(n) == n.github /\ n.form = "path"

(* External: the DefinitionNamer, made from the two schemes.                 *)
NamerDefinitionName(n) == IF n.registered THEN [n EXCEPT !.form = "dns"] ELSE n

GetDefinitionName(n) ==
  IF HasGithubPrefix(n) THEN Encoded(n) ELSE NamerDefinitionName(n)

(* A generated function, called with a reference callback: the definitions   *)
(* it was generated with, their references made by the callback.             *)
Generated(defs) ==
  [n \in DOMAIN defs |->
     [of |-> defs[n].of, refs |-> {GetDefinitionName(m) : m \in defs[n].refs},
      deps |-> defs[n].refs]]

(* The map f with the entries of g put in, one by one.                       *)
Merge(f, g) ==
  [n \in DOMAIN f \cup DOMAIN g |-> IF n \in DOMAIN g THEN g[n] ELSE f[n]]

Aliases(result) ==
  LET github == {n \in DOMAIN result : HasGithubPrefix(n)}
  IN  [a \in {Encoded(n) : n \in github} |->
         result[CHOOSE n \in github : Encoded(n) = a]]

(* Mutant of GetDefinitions: the aliases are made of the built-in definitions*)
(* before the user's are put in.                                             *)
GetDefinitions_AliasFirst(builtin, defs) ==
  Merge(Merge(Generated(builtin), Aliases(Generated(builtin))), Generated(defs))

GetDefinitions(builtin, defs) ==
  LET result == Merge(Generated(builtin), Generated(defs))
  IN  Merge(result, Aliases(result))

(* "$ref == key, raw lookup always works" (builder_misc.go): each reference  *)
(* to a type of github.com that is defined is itself a key of the map, for   *)
(* the definition of that type; and the user's definition replaces a built-in*)
(* one, under the type's path and under its alias.                           *)
RefsResolve(result, builtin, defs) ==
  /\ \A k \in DOMAIN result : \A r \in result[k].refs :
       (\E n \in DOMAIN result : HasGithubPrefix(n) /\ n.type = r.type) =>
         /\ r \in DOMAIN result
         /\ \A n \in DOMAIN result : n.type = r.type => result[n] = result[r]
  /\ \A n \in DOMAIN defs : n \in DOMAIN result /\ result[n].of = defs[n].of

(* External: BuildOpenAPIDefinitionsForResources finds the definition of the *)
(* Go type t and those of all the types it depends on.                       *)
HasDefinition(result, t) ==
  \E found \in SUBSET {n \in DOMAIN result : n.form = "path"} :
    /\ \E n \in found : n.type = t
    /\ \A n \in found : result[n].deps \subseteq found
=============================================================================
