------------------------- MODULE MCUniqueKeyLoader -------------------------
(***************************************************************************)
(* Every document of three mappings with at most two entries each, where a *)
(* names b and the root names both: shared anchors, merges of lists,       *)
(* merges within merges, a merge of a scalar.                              *)
(***************************************************************************)
EXTENDS UniqueKeyLoader

CONSTANTS root, a, b,    \* the mappings
          scalar        \* stands for a value of its own at every place

MCNodes  == {root, a, b}
MCKeys   == {"x", "y"}
MCValues == MCNodes \cup {scalar} \cup (MCNodes \X (1 .. 2))

Own(values)   == [key : MCKeys, value : values, from : {<<>>}]
Merges(lists) == [key : {Merge}, value : {scalar}, from : lists]

RootEntries == Own({scalar, a, b})
                   \cup Merges({<<a>>, <<b>>, <<a, b>>, <<b, a>>, <<a, scalar>>})
AEntries    == Own({scalar, b}) \cup Merges({<<b>>, <<scalar>>})
BEntries    == Own({scalar})

AtPlace(n, entries) ==
    [i \in DOMAIN entries |->
        IF entries[i].value = scalar THEN [entries[i] EXCEPT !.value = <<n, i>>] ELSE entries[i]]

Mentions(entries, n) ==
    \E i \in DOMAIN entries : entries[i].value = n \/ n \in ToSet(entries[i].from)

MCDocuments ==
    {root :> AtPlace(root, r) @@ a :> AtPlace(a, m) @@ b :> AtPlace(b, l) :
        <<r, m, l>> \in
            {t \in BoundedSeq(RootEntries, 2) \X BoundedSeq(AEntries, 2) \X BoundedSeq(BEntries, 2) :
                /\ Mentions(t[1], a)
                /\ Mentions(t[1], b) \/ Mentions(t[2], b)}}

=============================================================================
