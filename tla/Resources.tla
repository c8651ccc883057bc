----------------------------- MODULE Resources -----------------------------
(***************************************************************************)
(* The resource.Object descriptors a program hands to the builder          *)
(* (pkg/builder/resource/types.go) and the keys derived from them.  An     *)
(* object is a record with the fields                                      *)
(*   group             the API group, a number: its alphabetical rank      *)
(*   version, resource the rest of GetGroupVersionResource()               *)
(*   type              the Go type of New(), a record [kind, pkg]          *)
(*   isStorageVersion  IsStorageVersion()                                  *)
(*   conversions       "none": not a MultiVersionObject; "ok" or "error":  *)
(*                     what RegisterConversions() returns on a scheme      *)
(*   defaulter, scale  implements Defaulter, ObjectWithScaleSubResource    *)
(*   status            the Go type of GetStatus(), or NoType               *)
(*   subs              GetArbitrarySubResources(): a sequence of records   *)
(*                     [type, options, conversions]                        *)
(***************************************************************************)

CONSTANT Objects    \* the resource.Object descriptors of the program

APIVersionInternal == "__internal"

GVR(o) == [group |-> o.group, version |-> o.version, resource |-> o.resource]
GV(r)  == [group |-> r.group, version |-> r.version]
GR(r)  == [group |-> r.group, resource |-> r.resource]

GVRs == {GVR(o) : o \in Objects}
GVs  == {GV(r) : r \in GVRs}
GRs  == {GR(r) : r \in GVRs}

(* A Go map assignment m[k] = v, the empty map, and the maps from S to T. *)
Put(m, k, v) == [x \in DOMAIN m \cup {k} |-> IF x = k THEN v ELSE m[x]]
EmptyMap == [x \in {} |-> x]
Maps(S, T) == UNION {[D -> T] : D \in SUBSET S}
=============================================================================
