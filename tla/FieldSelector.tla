--------------------------- MODULE FieldSelector ---------------------------
(***************************************************************************)
(* ParseFieldSelector and the Filter it returns (pkg/builder/utils/        *)
(* utils.go): a store that lists objects drops those for which Filter says *)
(* true.  A requirement of a fields.Selector is a record [field, operator, *)
(* value], the namespace of the request context a record [ok, namespace],  *)
(* an object a record [name, namespace], an unset string is "".            *)
(***************************************************************************)
EXTENDS Naturals, Sequences

CONSTANTS
  Fields,          \* the fields a client may name
  Operators,       \* the operators a client may use: "=" and "!=", never the "!"
                   \* of a requirement that a field does not exist
  Strings,         \* names and namespaces, "" among them
  MaxRequirements  \* bound: requirements in one selector

ASSUME FieldSelectorAssumption ==
  /\ {"metadata.name", "metadata.namespace"} \subseteq Fields
  /\ "!" \notin Operators
  /\ "" \in Strings
  /\ MaxRequirements \in Nat

VARIABLES
  fieldSelector,  \* the argument: nil ([nil |-> TRUE]) or with its requirements
  namespace,      \* what NamespaceFrom(ctx) returned
  next,           \* the requirement to look at next
  filter,         \* the variable filter: a set with the storerFilter, or empty: nil
  status          \* "parsing", "accepted" or "rejected"

vars == <<fieldSelector, namespace, next, filter, status>>

Requirements == [field : Fields, operator : Operators, value : Strings]
Selectors ==
  {[nil |-> TRUE, requirements |-> << >>]} \cup
  {[nil |-> FALSE, requirements |-> q] : q \in UNION {[1..n -> Requirements] : n \in 0..MaxRequirements}}
Namespaces == {[ok |-> FALSE, namespace |-> ""]} \cup [ok : {TRUE}, namespace : Strings]
Filters == [name : Strings, namespace : Strings]

(* The objects of a store have a name; a namespace only if they are namespaced. *)
StoredObjects == [name : Strings \ {""}, namespace : Strings]

Init ==
  /\ fieldSelector \in Selectors
  /\ namespace \in Namespaces
  /\ next = 1
  /\ filter = {}
  /\ status = "parsing"

Return(f, st) == filter' = f /\ status' = st

(* Without a selector only the namespace counts. *)
ParseNil ==
  /\ status = "parsing"
  /\ fieldSelector.nil
  /\ Return(IF namespace.ok THEN {[name |-> "", namespace |-> namespace.namespace]} ELSE {},
            "accepted")
  /\ UNCHANGED <<fieldSelector, namespace, next>>

More == ~fieldSelector.nil /\ next <= Len(fieldSelector.requirements)

(* Mutant of Supported: the check of the value is dropped.                   *)
Supported_AnyValue(r) ==
  /\ r.operator \in {"=", "!"}
  /\ r.field \in {"metadata.name", "metadata.namespace"}

Supported(r) ==
  /\ r.operator \in {"=", "!"}
  /\ r.value # ""
  /\ r.field \in {"metadata.name", "metadata.namespace"}

(* Mutant of FilterOf: the fields are mixed up.                              *)
FilterOf_Swapped(r) ==
  [name |-> IF r.field = "metadata.namespace" THEN r.value ELSE "",
   namespace |-> IF r.field = "metadata.name" THEN r.value ELSE ""]

(* One pass of the loop makes a new storerFilter.                            *)
FilterOf(r) ==
  [name |-> IF r.field = "metadata.name" THEN r.value ELSE "",
   namespace |-> IF r.field = "metadata.namespace" THEN r.value ELSE ""]

ParseRequirement ==
  /\ status = "parsing"
  /\ More
  /\ LET r == fieldSelector.requirements[next]
     IN  IF Supported(r)
         THEN Return({FilterOf(r)}, status)
         ELSE Return({[name |-> "", namespace |-> ""]}, "rejected")
  /\ next' = next + 1
  /\ UNCHANGED <<fieldSelector, namespace>>

(* Mutant of WithNamespace: a namespace that the filter has is kept.         *)
WithNamespace_Keep(f, ns) ==
  IF f = {} THEN {[name |-> "", namespace |-> ns]}
  ELSE {IF g.namespace = "" THEN [g EXCEPT !.namespace = ns] ELSE g : g \in f}

(* Mutant of WithNamespace: a filter that was nil stays nil.                 *)
WithNamespace_NilStays(f, ns) == {[g EXCEPT !.namespace = ns] : g \in f}

WithNamespace(f, ns) ==
  IF f = {} THEN {[name |-> "", namespace |-> ns]}
  ELSE {[g EXCEPT !.namespace = ns] : g \in f}

(* The end: the namespace of the request. *)
ParseEnd ==
  /\ status = "parsing"
  /\ ~fieldSelector.nil /\ ~More
  /\ Return(IF namespace.ok THEN WithNamespace(filter, namespace.namespace) ELSE filter,
            "accepted")
  /\ UNCHANGED <<fieldSelector, namespace, next>>

Next == ParseNil \/ ParseRequirement \/ ParseEnd

Spec == Init /\ [][Next]_vars

(* Mutant of Filter: the conditions are inverted.                            *)
Filter_Inverted(f, o) ==
  IF f.namespace # "" THEN o.namespace = f.namespace
  ELSE f.name # "" /\ o.name = f.name

(* Filter: the outcome of the namespace test replaces that of the name test. *)
Filter(f, o) ==
  IF f.namespace # "" THEN o.namespace # f.namespace
  ELSE f.name # "" /\ o.name # f.name

-----------------------------------------------------------------------------
(* Type invariant. *)
TypeOK ==
  /\ fieldSelector \in Selectors
  /\ namespace \in Namespaces
  /\ next \in 1..(MaxRequirements + 1)
  /\ filter \in {{}} \cup {{f} : f \in Filters}
  /\ status \in {"parsing", "accepted", "rejected"}
  /\ status = "parsing" => \A i \in 1..(next - 1) : fieldSelector.requirements[i].value # ""

Kept(o) == \A f \in filter : ~Filter(f, o)

(* What a selector and a namespace ask for, requirement by requirement.      *)
Holds(r, o) ==
  LET actual == IF r.field = "metadata.name" THEN o.name ELSE o.namespace
  IN  actual = r.value

Asked(o) ==
  /\ \A i \in 1..Len(fieldSelector.requirements) : Holds(fieldSelector.requirements[i], o)
  /\ namespace.ok /\ namespace.namespace # "" => o.namespace = namespace.namespace

(* However many requirements, in whatever order and with whatever            *)
(* contradictions between them and the namespace of the request, no object   *)
(* that satisfies them all is dropped.                                       *)
NoMatchDropped ==
  status = "accepted" => \A o \in StoredObjects : Asked(o) => Kept(o)

(* A request made in a namespace never gets an object of another one, even   *)
(* if its selector names another namespace.                                  *)
NamespaceConfined ==
  status = "accepted" /\ namespace.ok /\ namespace.namespace # "" =>
    \A o \in StoredObjects : Kept(o) => o.namespace = namespace.namespace

(* A selector is rejected exactly when one of its requirements, at whatever  *)
(* place, has an unsupported operator, value or field.                       *)
Bad(r) == r.operator # "=" \/ r.value = "" \/ r.field \notin {"metadata.name", "metadata.namespace"}

RejectedExactly ==
  status # "parsing" =>
    (status = "rejected" <=>
       \E i \in 1..Len(fieldSelector.requirements) : Bad(fieldSelector.requirements[i]))

(* The returned resource.Filter wraps a nil *storerFilter, on which Filter   *)
(* would panic, exactly when there is neither a requirement nor a namespace  *)
(* in the context.                                                           *)
NilFilterExactly ==
  status = "accepted" =>
    (filter = {} <=> fieldSelector.requirements = << >> /\ ~namespace.ok)

-----------------------------------------------------------------------------
(* utils.go, storerFilter: "Name filters by the name of the objects".        *)
NameFilters ==
  status = "accepted" =>
    \A f \in filter : f.name # "" => \A o \in StoredObjects : Kept(o) => o.name = f.name

(* utils.go: "ParseFieldSelector parses client-provided fields.Selector into *)
(* a storerFilter".  Without a namespace in the context, the filter has what *)
(* each requirement asks for, if they do not contradict each other.          *)
RequirementsKept ==
  status = "accepted" /\ ~namespace.ok =>
    \A i \in 1..Len(fieldSelector.requirements) :
      LET r == fieldSelector.requirements[i]
      IN  (\A j \in 1..Len(fieldSelector.requirements) :
             j # i => fieldSelector.requirements[j].field # r.field)
            => \A f \in filter :
                 /\ r.field = "metadata.name" => f.name = r.value
                 /\ r.field = "metadata.namespace" => f.namespace = r.value

(* utils.go: "add namespace to the filter selector if specified".  A request *)
(* for all namespaces (an empty one in its context) leaves the namespace     *)
(* that its only requirement asks for.                                       *)
NamespaceIfSpecified ==
  status = "accepted" /\ namespace.namespace = "" /\ Len(fieldSelector.requirements) = 1 =>
    LET r == fieldSelector.requirements[1]
    IN  r.field = "metadata.namespace" => \A f \in filter : f.namespace = r.value
=============================================================================
