---- MODULE MCPlugin ----
(* PluginCalls on a small instance: see README.md, "Runs". *)
EXTENDS PluginCalls

MCTrim(s) == IF s = " " THEN "" ELSE IF s = " a" THEN "a" ELSE s
MCLower(s) == IF s = "A" THEN "a" ELSE s
MCUnquoted(s) == IF s = "'xai'" THEN "xai" ELSE IF s = "''" THEN "" ELSE s

\* Shaped like grok-4.3: thinking may be switched off; and a model with gaps.
MCCatalog ==
    <<[id |-> "a", owned_by |-> "xai", display_name |-> "Model A", name |-> "a",
       context_length |-> 9, modalities |-> {"text"},
       thinking |-> [zero_allowed |-> TRUE, levels |-> <<"low", "high">>]],
      [id |-> "c", owned_by |-> "xai", display_name |-> "Model C", name |-> "",
       context_length |-> 0, modalities |-> {}, thinking |-> Absent]>>

\* No prefix, a plain one, a quoted one after a line without value, a quoted blank.
MCBlocks == {<<>>, <<"team">>, <<" ", "'xai'">>, <<"''", "team">>}

Bare == [id |-> "a", model |-> "", owned_by |-> "", name |-> "", context_window |-> 0,
         context_length |-> 0, efforts |-> <<>>, effort |-> "", reasons |-> "absent"]

Items ==
    {Bare,
     [Bare EXCEPT !.id = "A", !.name = "Mine", !.context_window = 5, !.context_length = 6,
                  !.efforts = <<[value |-> "xhigh", id |-> "x"]>>],
     [Bare EXCEPT !.id = " ", !.model = " a", !.owned_by = "o", !.reasons = "no",
                  !.effort = "low"],
     [Bare EXCEPT !.id = "b", !.context_length = 6, !.effort = "low", !.reasons = "yes",
                  !.efforts = <<[value |-> " ", id |-> ""], [value |-> "", id |-> "high"]>>],
     [Bare EXCEPT !.id = "c", !.effort = "low"],
     [Bare EXCEPT !.id = " "]}

Lists == {<<>>} \cup {<<i>> : i \in Items} \cup {<<i, j>> : i, j \in Items}
         \cup {<<Bare, i, j>> : i, j \in Items}
Payload(data, models) == [data |-> data, models |-> models]

MCPayloads ==
    {Payload(list, Absent) : list \in Lists}
    \cup {Payload(d, m) : d \in {Absent, <<>>}, m \in {Absent, <<Bare>>}}
====
