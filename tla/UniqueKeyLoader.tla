-------------------------- MODULE UniqueKeyLoader --------------------------
(***************************************************************************)
(* The loader of config.py that refuses a repeated key: PyYAML's           *)
(* SafeLoader with two methods overridden, on a document of mapping nodes. *)
(*                                                                         *)
(* An anchor is one node that several others name, and flattening rewrites *)
(* a node in place: it takes the `<<` entries out and puts the entries of  *)
(* their sources in front.  Whether a key is repeated is a question about  *)
(* the mapping as written, so every node must be scanned before it is      *)
(* first flattened, on whichever path the loader meets it, and never       *)
(* again.                                                                  *)
(***************************************************************************)
EXTENDS Naturals, SequencesExt

CONSTANTS
    Nodes,      \* the mapping nodes of the document
    Values,     \* what a key may be bound to: these nodes, and scalars
    Root,       \* the topmost mapping
    Keys,
    Merge,      \* the key `<<`
    Documents   \* for each node its entries

\* What a merge entry names, one node or a list of them, is the sequence `from`.
Entries == [key : Keys \cup {Merge}, value : Values, from : Seq(Values)]

MergesOf(entries) == {i \in DOMAIN entries : entries[i].key = Merge}

\* What the entries of a mapping name.
Names(entries) ==
    {entries[i].value : i \in DOMAIN entries \ MergesOf(entries)}
        \cup UNION {ToSet(entries[i].from) : i \in MergesOf(entries)}

ASSUME NodesAssumption    == Root \in Nodes /\ Nodes \subseteq Values
ASSUME DocumentAssumption == Documents \subseteq [Nodes -> Seq(Entries)]

\* An anchor is defined where it is first written, so every mapping of a
\* document hangs from its root.
ASSUME RootedAssumption ==
    \A document \in Documents : \A S \in SUBSET Nodes :
        /\ Root \in S
        /\ \A n \in S : Names(document[n]) \cap Nodes \subseteq S
        => S = Nodes

VARIABLES
    written,    \* the document as written
    value,      \* node.value: what flattening has made of it
    scanned,    \* self._scanned
    waiting,    \* state_generators: mappings to construct; their order is left open
    known,      \* constructed_objects: mappings constructed or waiting
    calls,      \* the running calls of flatten_mapping, innermost first
    data,       \* the dictionary of each constructed mapping
    verdict     \* "loading", or how the load ended

vars == <<written, value, scanned, waiting, known, calls, data, verdict>>

\* merge: the inherited entries so far; pending: the sources of the current
\* `<<` left to flatten; sub: the entries of those before them.
Frame(n) == [node |-> n, merge |-> <<>>, pending |-> <<>>, sub |-> <<>>]

Top == calls[1]

\* The scan skips `<<`, which may be repeated.
Repeats(entries) ==
    \E i, j \in DOMAIN entries \ MergesOf(entries) :
        i # j /\ entries[i].key = entries[j].key

\* The mappings the merge entries of a node name, directly.
Sources(n) ==
    {m \in Nodes : \E i \in MergesOf(value[n]) : m \in ToSet(value[n][i].from)}

-----------------------------------------------------------------------------
Init ==
    /\ written \in Documents
    /\ value = written
    /\ scanned = {}
    /\ waiting = {Root}
    /\ known = {Root}
    /\ calls = <<>>
    /\ data = [n \in {} |-> {}]
    /\ verdict = "loading"

\* Mutant: every visit scans, also the second one.
Refused_AtEveryVisit(visited) == \E n \in visited : Repeats(value[n])

\* _refuse_duplicates raises on one of these nodes: the first visit counts.
Refused(visited) == \E n \in visited \ scanned : Repeats(value[n])

\* Mutant: flatten_mapping is not overridden and scans no source.
Flatten_Unscanned(n, visited) ==
    LET seen == visited \ Sources(n)
    IN  IF Refused(seen)
        THEN verdict' = "duplicate" /\ UNCHANGED <<scanned, calls>>
        ELSE /\ scanned' = scanned \cup seen
             /\ calls' = <<Frame(n)>> \o calls
             /\ UNCHANGED verdict

\* The override scans `visited` and calls super().flatten_mapping(n).
Flatten(n, visited) ==
    IF Refused(visited)
    THEN verdict' = "duplicate" /\ UNCHANGED <<scanned, calls>>
    ELSE /\ scanned' = scanned \cup visited
         /\ calls' = <<Frame(n)>> \o calls
         /\ UNCHANGED verdict

\* construct_mapping: the node itself is scanned, then it is flattened.
construct_mapping(n) ==
    /\ verdict = "loading"
    /\ calls = <<>>
    /\ n \in waiting
    /\ waiting' = waiting \ {n}
    /\ Flatten(n, {n} \cup Sources(n))
    /\ UNCHANGED <<written, value, known, data>>

\* flatten_mapping of PyYAML, at its next `<<`: the entry leaves the node.
TakeMerge ==
    /\ verdict = "loading"
    /\ calls # <<>>
    /\ Top.pending = <<>>
    /\ \E i \in MergesOf(value[Top.node]) :
          /\ \A j \in MergesOf(value[Top.node]) : i <= j
          /\ calls' = [calls EXCEPT ![1].pending = value[Top.node][i].from]
          /\ value' = [value EXCEPT ![Top.node] = RemoveAt(@, i)]
    /\ UNCHANGED <<written, scanned, waiting, known, data, verdict>>

\* The caller of flatten_mapping has the entries of one more source.  An
\* earlier source of a list beats a later one, so it goes behind it.
Inheriting(frame, entries) ==
    LET sub == entries \o frame.sub
    IN  IF Len(frame.pending) = 1
        THEN [frame EXCEPT !.pending = <<>>, !.sub = <<>>, !.merge = @ \o sub]
        ELSE [frame EXCEPT !.pending = Tail(@), !.sub = sub]

\* Mutant: the override returns at once for a mapping it has scanned before.
flatten_mapping_Once(s) ==
    /\ calls' = <<Inheriting(Top, value[s])>> \o Tail(calls)
    /\ UNCHANGED <<scanned, verdict>>

\* The override, called for a source of the current `<<`.
flatten_mapping(s) == Flatten(s, Sources(s))

Descend ==
    /\ verdict = "loading"
    /\ calls # <<>>
    /\ Top.pending # <<>>
    /\ \/ /\ Head(Top.pending) \in Nodes
          /\ flatten_mapping(Head(Top.pending))
       \/ /\ Head(Top.pending) \notin Nodes    \* expected a mapping for merging
          /\ verdict' = "malformed"
          /\ UNCHANGED <<scanned, calls>>
    /\ UNCHANGED <<written, value, waiting, known, data>>

\* A dictionary keeps the last of two pairs with one key.
Dict(entries) ==
    LET At(k) == {i \in DOMAIN entries : entries[i].key = k}
    IN  [k \in {entries[i].key : i \in DOMAIN entries} |-> entries[Max(At(k))].value]

\* No `<<` is left: the call returns, to the call below it or to
\* construct_mapping, which constructs the pairs.
Return ==
    LET flat   == Top.merge \o value[Top.node]
        nested == {m \in Nodes : \E i \in DOMAIN flat : flat[i].value = m}
    IN  /\ verdict = "loading"
        /\ calls # <<>>
        /\ Top.pending = <<>>
        /\ MergesOf(value[Top.node]) = {}
        /\ value' = [value EXCEPT ![Top.node] = flat]
        /\ \/ /\ Len(calls) > 1
              /\ calls' = <<Inheriting(calls[2], flat)>> \o Tail(Tail(calls))
              /\ UNCHANGED <<waiting, known, data>>
           \/ /\ Len(calls) = 1
              /\ calls' = <<>>
              /\ data' = [n \in DOMAIN data \cup {Top.node} |->
                             IF n = Top.node THEN Dict(flat) ELSE data[n]]
              /\ waiting' = waiting \cup (nested \ known)
              /\ known' = known \cup nested
        /\ UNCHANGED <<written, scanned, verdict>>

Finish ==
    /\ verdict = "loading"
    /\ calls = <<>>
    /\ waiting = {}
    /\ verdict' = "loaded"
    /\ UNCHANGED <<written, value, scanned, waiting, known, calls, data>>

Next ==
    \/ \E n \in Nodes : construct_mapping(n)
    \/ TakeMerge
    \/ Descend
    \/ Return
    \/ Finish

Spec == Init /\ [][Next]_vars

-----------------------------------------------------------------------------
(* Properties *)

\* Type correctness.
TypeOK ==
    /\ value \in [Nodes -> Seq(Entries)]
    /\ scanned \subseteq Nodes
    /\ known \subseteq Nodes
    /\ waiting \subseteq known
    /\ DOMAIN data \subseteq known
    /\ \A c \in DOMAIN calls : calls[c].node \in scanned
    /\ verdict \in {"loading", "duplicate", "malformed", "loaded"}

\* A node is rewritten only after it was scanned: what the scan sees is what
\* the author wrote, and a key inherited and overridden is never reported.
RefusalsAreDeserved ==
    /\ \A n \in Nodes : value[n] # written[n] => n \in scanned
    /\ verdict = "duplicate" => \E n \in Nodes : Repeats(written[n])

Malformed(n) ==
    \E i \in MergesOf(written[n]) : ~ ToSet(written[n][i].from) \subseteq Nodes

\* A document that loads repeats no key, wherever the mapping is written and
\* however often it is reached, and merges nothing but mappings.
NothingSlipsThrough ==
    verdict = "loaded" => \A n \in Nodes : ~ Repeats(written[n]) /\ ~ Malformed(n)

\* What a mapping means to PyYAML, given what those it merges mean: an explicit
\* key beats an inherited one and an earlier source of one `<<` a later one.  Of
\* two `<<` PyYAML lets the later one win.
Denotes(entries, meaning) ==
    LET Own(k)       == {i \in DOMAIN entries \ MergesOf(entries) : entries[i].key = k}
        Giving(k, i) == {j \in DOMAIN entries[i].from : k \in DOMAIN meaning[entries[i].from[j]]}
        Merging(k)   == {i \in MergesOf(entries) : Giving(k, i) # {}}
        Inherits(k)  == LET i == Max(Merging(k))
                        IN  meaning[entries[i].from[Min(Giving(k, i))]][k]
    IN  [k \in {l \in Keys : Own(l) # {} \/ Merging(l) # {}} |->
            IF Own(k) # {} THEN entries[Max(Own(k))].value ELSE Inherits(k)]

\* What the mappings of a document mean; undefined where merges go round.
Meaning ==
    LET meaning[n \in Nodes] == Denotes(written[n], meaning)
    IN  meaning

\* Two `<<` of a mapping give a key that it does not have itself.
Contended(n) ==
    LET Gives(i, k) == \E m \in ToSet(written[n][i].from) : k \in DOMAIN Meaning[m]
    IN  \E k \in Keys \ {written[n][i].key : i \in DOMAIN written[n]} :
            \E i, j \in MergesOf(written[n]) : i # j /\ Gives(i, k) /\ Gives(j, k)

\* "The key is taken from the first source that has it" (docs/reference.md): the
\* loaded data is what the document means as written, and neither scanning once
\* nor flattening shared nodes in place has changed that.  Where two `<<` of one
\* mapping contend for a key, of which YAML says nothing and PyYAML takes the
\* later, nothing is promised.
MergesMeanYaml ==
    verdict = "loaded" /\ (\A n \in Nodes : ~ Contended(n))
        => \A n \in DOMAIN data : data[n] = Meaning[n]

=============================================================================
