----------------------------- MODULE MCBuilder -----------------------------
(***************************************************************************)
(* Instances of Builder.  MCObjects: a storage version with a status type, *)
(* a scale and subresources, one with options; a second version of it, of  *)
(* another Go type, with conversions; its internal version; a resource of  *)
(* another group; and objects that no scheme accepts together or at all.   *)
(***************************************************************************)
EXTENDS Builder, TLC

T(kind, pkg) == [kind |-> kind, pkg |-> pkg]

MCNoType == T("", "")

Plain(g, v, r, t) ==
  [group |-> g, version |-> v, resource |-> r, type |-> t,
   isStorageVersion |-> TRUE, conversions |-> "none", defaulter |-> FALSE,
   scale |-> FALSE, status |-> MCNoType, subs |-> << >>]

Sub(t, options, conversions) ==
  [type |-> t, options |-> options, conversions |-> conversions]

Config1 ==
  [Plain(1, "v1", "configs", T("Config", "v1")) EXCEPT
     !.defaulter = TRUE, !.scale = TRUE, !.status = T("ConfigStatus", "v1"),
     !.subs = <<Sub(T("Config", "v1"), T("LogOptions", "v1"), "ok"),
                Sub(T("Blame", "v1"), MCNoType, "ok")>>]
Config2 ==
  [Plain(1, "v2", "configs", T("Config", "v2")) EXCEPT
     !.isStorageVersion = FALSE, !.conversions = "ok"]
Target1 == Plain(2, "v1", "targets", T("Target", "v1"))
ConfigI == Plain(1, APIVersionInternal, "configs", T("Config", "v1"))
Hidden  == Plain(3, APIVersionInternal, "hidden", T("Hidden", "v1"))
Clash2  == Plain(1, "v2", "clashes", T("Config", "v2"))
NoConv2 == [Config2 EXCEPT !.conversions = "none"]
BadSub1 == [Target1 EXCEPT !.resource = "bads", !.type = T("Bad", "v1"),
              !.subs = <<Sub(T("Bad", "v1"), T("BadOptions", "v1"), "error")>>]

ServerSymmetry == Permutations(Servers)

(* A flag on the set the function is given, and one that returns a new set.  *)
MCFlagFns == {[flag |-> "f", does |-> "set"], [flag |-> "f", does |-> "other"]}

MCObjects == {Config1, Config2, ConfigI, Target1, Clash2, NoConv2, BadSub1, Hidden}
=============================================================================
