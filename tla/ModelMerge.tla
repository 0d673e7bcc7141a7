---- MODULE ModelMerge ----
(***************************************************************************)
(* What model discovery makes of the account's model list (src/models.go:  *)
(* mergeModels, mergeModelMetadata) and the embedded catalog (catalog.go). *)
(* Pure operators.  Strings are members of small sets, "" when empty; a    *)
(* context length is a number, 0 when absent; an item's `reasons` is its   *)
(* supports_reasoning_effort: "absent", "yes" or "no".  created, object,   *)
(* description and max_completion_tokens are merged like the fields kept.  *)
(***************************************************************************)
EXTENDS Naturals, Sequences, Routing

CONSTANTS
    Trim(_),         \* strings.TrimSpace
    Lower(_),        \* strings.ToLower
    CatalogModels,   \* the embedded catalog, as catalogModels decodes it: models
    Absent           \* nil

\* A model of the catalog has every field of wireModelInfo, set or not.
ModelFields ==
    {"id", "owned_by", "display_name", "name", "context_length", "thinking", "modalities"}
IsList(list) == list \in Seq({list[i] : i \in DOMAIN list})

ASSUME CatalogAssumption ==
    /\ IsList(CatalogModels)
    /\ \A i \in DOMAIN CatalogModels : ModelFields \subseteq DOMAIN CatalogModels[i]

\* The catalog by lower-case ID; of two entries with one ID the later counts.
Catalog ==
    LET keyed(key) == {i \in DOMAIN CatalogModels : Lower(CatalogModels[i].id) = key} IN
    [key \in {Lower(CatalogModels[i].id) : i \in DOMAIN CatalogModels} \ {""} |->
        CatalogModels[CHOOSE i \in keyed(key) : \A j \in keyed(key) : j <= i]]

\* The ID of a listed item, and the key it is merged under.
Id(item) == FirstOf(Trim(item.id), Trim(item.model), "")
Key(item) == Lower(Id(item))

\* The levels an item names, one by one or, when that leaves none, as one effort.
Levels(item) ==
    LET each == [i \in DOMAIN item.efforts |->
                    FirstOf(Trim(item.efforts[i].value), Trim(item.efforts[i].id), "")]
        named == SelectSeq(each, LAMBDA level : level # "")
    IN IF named = <<>> /\ Trim(item.effort) # "" THEN <<Trim(item.effort)>> ELSE named

\* The model as the account's list has it; the owner's default is filled in here.
Discovered(item) ==
    [id |-> Id(item), owned_by |-> FirstOf(item.owned_by, "xAI", ""),
     display_name |-> item.name, name |-> item.name,
     context_length |-> FirstOf(item.context_window, item.context_length, 0),
     thinking |-> Absent, modalities |-> Absent]

\* What the list says wins; thinking and modalities come from the catalog.
MergeModelMetadata(static, remote) ==
    [static EXCEPT !.id = remote.id,
                   !.owned_by = FirstOf(remote.owned_by, @, ""),
                   !.display_name = FirstOf(remote.display_name, @, ""),
                   !.name = FirstOf(remote.name, @, ""),
                   !.context_length = FirstOf(remote.context_length, @, 0)]

WithCatalog(model) ==
    IF Lower(model.id) \in DOMAIN Catalog
    THEN MergeModelMetadata(Catalog[Lower(model.id)], model) ELSE model

\* A model that neither the list nor the catalog names is named by its ID.
Named(model) ==
    [model EXCEPT !.display_name = FirstOf(@, model.id, ""),
                  !.name = FirstOf(@, model.id, "")]

\* Levels of the list replace the catalog's thinking; "no" removes it.
Thinking(item, model) ==
    IF item.reasons = "no" THEN Absent
    ELSE IF Levels(item) # <<>> THEN [zero_allowed |-> FALSE, levels |-> Levels(item)]
    ELSE model.thinking

\* Slip: the names are defaulted before the catalog is asked.
Listed_NamedFirst(item) ==
    LET model == WithCatalog(Named(Discovered(item))) IN
    [model EXCEPT !.thinking = Thinking(item, model)]
Listed(item) ==
    LET model == Named(WithCatalog(Discovered(item))) IN
    [model EXCEPT !.thinking = Thinking(item, model)]

\* Slip: IDs that differ in case only are taken for different models.
Seen_Verbatim(models, item) == \E i \in DOMAIN models : models[i].id = Id(item)
Seen(models, item) == \E i \in DOMAIN models : Lower(models[i].id) = Key(item)

AddListed(models, item) ==
    IF Key(item) = "" \/ Seen(models, item) THEN models ELSE Append(models, Listed(item))

\* The answer after none, one, two ... of the items.
MergedSoFar(remote) ==
    LET merged[n \in 0..Len(remote)] ==
            IF n = 0 THEN <<>> ELSE AddListed(merged[n - 1], remote[n])
    IN merged

MergeModels(remote) == MergedSoFar(remote)[Len(remote)]
====
