----------------------- MODULE UniqueKeyLoaderProofs -----------------------
(***************************************************************************)
(* Proofs about UniqueKeyLoader for every document.  Those about what is   *)
(* refused and what is let through are also about documents whose merges   *)
(* lead back to themselves; the last one, about what a document loads as,  *)
(* is about the others, since only they mean something.                    *)
(*                                                                         *)
(* Three invariants, one on top of the other: Inv, what was scanned and    *)
(* when; NothingLost, where the entries of a mapping are while it is       *)
(* flattened; MeaningKept, what they stand for meanwhile.                  *)
(***************************************************************************)
EXTENDS UniqueKeyLoader, SequenceTheorems, WellFoundedInduction, TLAPS

Inherited == {e \in Entries : e.key # Merge}

Frames == [node : Nodes, merge : Seq(Inherited), pending : Seq(Values), sub : Seq(Inherited)]

\* What a running call holds: no entry it has gathered is a `<<`, and the
\* mappings it is about to flatten, or may yet find in its node, are scanned.
CallsOK ==
    /\ calls \in Seq(Frames)
    /\ calls # <<>> => calls[Len(calls)].node \in known
    /\ \A c \in DOMAIN calls :
          /\ Sources(calls[c].node) \subseteq scanned
          /\ ToSet(calls[c].pending) \cap Nodes \subseteq scanned
          /\ c > 1 => calls[c].pending # <<>>

\* A scanned mapping repeats nothing, and one not scanned is as written.
Examined ==
    /\ written \in [Nodes -> Seq(Entries)]
    /\ \A n \in scanned : ~ Repeats(written[n])
    /\ \A n \in Nodes \ scanned : value[n] = written[n]
    /\ known \ waiting \subseteq scanned \cup {n \in Nodes : verdict = "duplicate"}
    /\ verdict = "duplicate" => \E n \in Nodes : Repeats(written[n])
    /\ verdict = "loaded" => waiting = {}

Inv == TypeOK /\ CallsOK /\ Examined

-----------------------------------------------------------------------------
\* Removing an element moves those behind it one place to the front.
LEMMA RemoveAtIndices ==
    ASSUME NEW S, NEW s \in Seq(S), NEW i \in DOMAIN s
    PROVE  /\ RemoveAt(s, i) \in Seq(S)
           /\ Len(RemoveAt(s, i)) = Len(s) - 1
           /\ \A j \in 1 .. Len(s) - 1 : RemoveAt(s, i)[j] = s[IF j < i THEN j ELSE j + 1]
<1>1. i \in 1 .. Len(s) /\ Len(s) \in Nat /\ \A j \in 1 .. Len(s) : s[j] \in S
  OBVIOUS
<1>2. PICK front \in Seq(S) : front = SubSeq(s, 1, i - 1)
  <2>1. \A j \in 1 .. (i - 1) : s[j] \in S
    BY <1>1
  <2>2. i - 1 \in Int /\ 1 \in Int
    BY <1>1
  <2>3. SubSeq(s, 1, i - 1) \in Seq(S)
    BY <2>1, <2>2, SubSeqProperties, Zenon
  <2>. QED
    BY <2>3
<1>3. PICK back \in Seq(S) : back = SubSeq(s, i + 1, Len(s))
  <2>1. \A j \in (i + 1) .. Len(s) : s[j] \in S
    BY <1>1
  <2>2. i + 1 \in Int /\ Len(s) \in Int
    BY <1>1
  <2>3. SubSeq(s, i + 1, Len(s)) \in Seq(S)
    BY <2>1, <2>2, SubSeqProperties, Zenon
  <2>. QED
    BY <2>3
<1>4. /\ Len(front) = i - 1 /\ Len(back) = Len(s) - i
      /\ \A j \in 1 .. Len(front) : front[j] = s[j]
      /\ \A j \in 1 .. Len(back) : back[j] = s[i + j]
  BY <1>1, <1>2, <1>3, SubSeqProperties, SMTT(40)
<1>5. RemoveAt(s, i) = front \o back
  BY <1>2, <1>3 DEF RemoveAt
<1>6. /\ front \o back \in Seq(S) /\ Len(front \o back) = Len(front) + Len(back)
      /\ \A j \in 1 .. Len(front \o back) :
            (front \o back)[j] = IF j <= Len(front) THEN front[j] ELSE back[j - Len(front)]
  BY ConcatProperties
<1>7. Len(front \o back) = Len(s) - 1
  BY <1>1, <1>4, <1>6
<1>8. ASSUME NEW j \in 1 .. Len(s) - 1
      PROVE  (front \o back)[j] = s[IF j < i THEN j ELSE j + 1]
  <2>1. CASE j < i
    <3>1. j <= Len(front) /\ j \in 1 .. Len(front)
      BY <1>1, <1>4, <2>1
    <3>. QED
      BY <1>4, <1>6, <1>7, <2>1, <3>1
  <2>2. CASE ~ j < i
    <3>1. ~ j <= Len(front) /\ j - (i - 1) \in 1 .. Len(back) /\ i + (j - (i - 1)) = j + 1
      BY <1>1, <1>4, <2>2
    <3>2. (front \o back)[j] = back[j - (i - 1)]
      BY <1>4, <1>6, <1>7, <3>1
    <3>3. back[j - (i - 1)] = s[j + 1]
      BY <1>4, <3>1
    <3>. QED
      BY <2>2, <3>2, <3>3
  <2>. QED
    BY <2>1, <2>2
<1>. QED
  BY <1>5, <1>6, <1>7, <1>8

\* It leaves a sequence of the others.
LEMMA RemoveAtElements ==
    ASSUME NEW S, NEW s \in Seq(S), NEW i \in DOMAIN s
    PROVE  /\ RemoveAt(s, i) \in Seq(S)
           /\ \A j \in DOMAIN RemoveAt(s, i) : \E k \in DOMAIN s : RemoveAt(s, i)[j] = s[k]
           /\ \A k \in DOMAIN s : k # i => \E j \in DOMAIN RemoveAt(s, i) : RemoveAt(s, i)[j] = s[k]
<1>1. PICK n \in Nat, r \in Seq(S) :
          /\ r = RemoveAt(s, i) /\ DOMAIN s = 1 .. n /\ DOMAIN r = 1 .. n - 1 /\ i \in 1 .. n
          /\ \A j \in 1 .. n - 1 : r[j] = s[IF j < i THEN j ELSE j + 1]
  <2>1. PICK n \in Nat : n = Len(s) /\ DOMAIN s = 1 .. n
    OBVIOUS
  <2>2. PICK r \in Seq(S) : r = RemoveAt(s, i)
    BY RemoveAtIndices
  <2>3. Len(r) = n - 1 /\ \A j \in 1 .. n - 1 : r[j] = s[IF j < i THEN j ELSE j + 1]
    BY <2>1, <2>2, RemoveAtIndices
  <2>. QED
    BY <2>1, <2>2, <2>3
<1>2. ASSUME NEW j \in DOMAIN r
      PROVE  \E k \in DOMAIN s : r[j] = s[k]
  <2>1. (IF j < i THEN j ELSE j + 1) \in DOMAIN s
    BY <1>1
  <2>. QED
    BY <1>1, <2>1
<1>3. ASSUME NEW k \in DOMAIN s, k # i
      PROVE  \E j \in DOMAIN r : r[j] = s[k]
  <2>1. CASE k < i
    <3>1. k \in DOMAIN r /\ r[k] = s[k]
      BY <1>1, <2>1
    <3>. QED
      BY <3>1
  <2>2. CASE k > i
    <3>1. k - 1 \in DOMAIN r /\ ~ k - 1 < i /\ k - 1 + 1 = k
      BY <1>1, <2>2
    <3>2. r[k - 1] = s[k]
      BY <1>1, <3>1
    <3>. QED
      BY <3>1, <3>2
  <2>. QED
    BY <1>1, <1>3, <2>1, <2>2
<1>. QED
  BY <1>1, <1>2, <1>3

\* A concatenation holds what its parts hold.
LEMMA ToSetConcat ==
    ASSUME NEW S, NEW s \in Seq(S), NEW t \in Seq(S)
    PROVE  ToSet(s \o t) = ToSet(s) \cup ToSet(t)
<1>1. /\ s \o t \in Seq(S) /\ Len(s \o t) = Len(s) + Len(t)
      /\ \A j \in 1 .. Len(s) + Len(t) : (s \o t)[j] = IF j <= Len(s) THEN s[j] ELSE t[j - Len(s)]
  BY ConcatProperties
<1>2. /\ DOMAIN (s \o t) = 1 .. Len(s) + Len(t)
      /\ DOMAIN s = 1 .. Len(s) /\ Len(s) \in Nat
      /\ DOMAIN t = 1 .. Len(t) /\ Len(t) \in Nat
  BY <1>1
<1>3. ASSUME NEW j \in DOMAIN (s \o t)
      PROVE  (s \o t)[j] \in ToSet(s) \cup ToSet(t)
  <2>1. CASE j <= Len(s)
    BY <1>1, <1>2, <2>1 DEF ToSet
  <2>2. CASE ~ j <= Len(s)
    <3>1. j - Len(s) \in DOMAIN t
      BY <1>2, <2>2
    <3>2. (s \o t)[j] = t[j - Len(s)]
      BY <1>1, <1>2, <2>2
    <3>. QED
      BY <3>1, <3>2 DEF ToSet
  <2>. QED
    BY <2>1, <2>2
<1>4. ASSUME NEW j \in DOMAIN s
      PROVE  s[j] \in ToSet(s \o t)
  <2>1. j \in 1 .. Len(s) + Len(t) /\ j <= Len(s)
    BY <1>2
  <2>2. (s \o t)[j] = s[j]
    BY <1>1, <2>1
  <2>. QED
    BY <1>2, <2>1, <2>2 DEF ToSet
<1>5. ASSUME NEW j \in DOMAIN t
      PROVE  t[j] \in ToSet(s \o t)
  <2>1. Len(s) + j \in 1 .. Len(s) + Len(t) /\ ~ Len(s) + j <= Len(s) /\ Len(s) + j - Len(s) = j
    BY <1>2
  <2>2. (s \o t)[Len(s) + j] = t[j]
    BY <1>1, <2>1
  <2>. QED
    BY <1>2, <2>1, <2>2 DEF ToSet
<1>. QED
  BY <1>3, <1>4, <1>5 DEF ToSet

LEMMA InitInv == Init => Inv
<1>. SUFFICES ASSUME Init PROVE Inv
  OBVIOUS
<1>1. written \in [Nodes -> Seq(Entries)] /\ value = written
  BY DocumentAssumption DEF Init
<1>2. TypeOK
  BY <1>1, NodesAssumption DEF Init, TypeOK
<1>3. CallsOK
  BY DEF Init, CallsOK
<1>4. Examined
  BY <1>1 DEF Init, Examined
<1>. QED
  BY <1>2, <1>3, <1>4 DEF Inv

\* Scanning and entering a mapping: a refusal is deserved, and whoever gets
\* in has been scanned with everything it names.
LEMMA FlattenInv ==
    ASSUME Inv, NEW n \in Nodes, NEW visited \in SUBSET Nodes, Flatten(n, visited),
           n \in visited \cup scanned, Sources(n) \subseteq visited, 
           calls = <<>> => n \in known, calls # <<>> => Top.pending # <<>>,
           verdict = "loading", UNCHANGED <<written, value, known, data>>,
           waiting' = waiting \/ (waiting' = waiting \ {n} /\ n \in visited)
    PROVE  Inv'
<1>1. CASE Refused(visited)
  <2>1. verdict' = "duplicate" /\ scanned' = scanned /\ calls' = calls
    BY <1>1 DEF Flatten
  <2>2. PICK m \in visited \ scanned : Repeats(value[m])
    BY <1>1 DEF Refused
  <2>3. Repeats(written[m])
    BY <2>2 DEF Inv, Examined
  <2>4. Examined'
    BY <2>1, <2>2, <2>3 DEF Inv, TypeOK, Examined
  <2>5. CallsOK'
    BY <2>1 DEF Inv, CallsOK, Sources
  <2>. QED
    BY <2>1, <2>4, <2>5 DEF Inv, TypeOK
<1>2. CASE ~ Refused(visited)
  <2>1. verdict' = verdict /\ scanned' = scanned \cup visited /\ calls' = <<Frame(n)>> \o calls
    BY <1>2 DEF Flatten
  <2>2. \A m \in visited : ~ Repeats(written[m])
    BY <1>2 DEF Refused, Inv, Examined
  <2>3. Examined'
    BY <2>1, <2>2 DEF Inv, TypeOK, Examined
  <2>4. Frame(n) \in Frames
    BY DEF Frame, Frames
  <2>5. /\ calls' \in Seq(Frames)
        /\ Len(calls') = Len(calls) + 1
        /\ calls'[1] = Frame(n)
        /\ \A c \in DOMAIN calls' : c # 1 => c - 1 \in DOMAIN calls /\ calls'[c] = calls[c - 1]
    BY <2>1, <2>4 DEF Inv, CallsOK
  <2>6. calls'[Len(calls')].node \in known
    <3>1. CASE calls = <<>>
      BY <2>5, <3>1 DEF Frame
    <3>2. CASE calls # <<>>
      BY <2>5, <3>2 DEF Inv, CallsOK
    <3>. QED
      BY <3>1, <3>2
  <2>7. \A m \in Nodes : Sources(m)' = Sources(m)
    BY DEF Sources
  <2>8. ASSUME NEW c \in DOMAIN calls', NEW t \in Frames, t = calls'[c]
        PROVE  /\ t.node \in scanned'
               /\ Sources(t.node)' \subseteq scanned'
               /\ ToSet(t.pending) \cap Nodes \subseteq scanned'
               /\ c > 1 => t.pending # <<>>
    <3>1. CASE c = 1
      <4>1. t.node = n /\ t.pending = <<>>
        BY <2>5, <2>8, <3>1 DEF Frame
      <4>. QED
        BY <2>1, <2>7, <3>1, <4>1 DEF ToSet
    <3>2. CASE c # 1
      <4>1. t = calls[c - 1] /\ c - 1 \in DOMAIN calls /\ t.node \in Nodes
        BY <2>5, <2>8, <3>2 DEF Frames
      <4>2. t.pending # <<>>
        BY <4>1 DEF Inv, CallsOK, Top
      <4>. QED
        BY <2>1, <2>7, <4>1, <4>2 DEF Inv, TypeOK, CallsOK
    <3>. QED
      BY <3>1, <3>2
  <2>9. ASSUME NEW c \in DOMAIN calls'
        PROVE  calls'[c] \in Frames
    BY <2>5
  <2>10. CallsOK'
    BY <2>5, <2>6, <2>8, <2>9 DEF CallsOK
  <2>11. TypeOK'
    BY <2>1, <2>8, <2>9 DEF Inv, TypeOK
  <2>. QED
    BY <2>3, <2>10, <2>11 DEF Inv
<1>. QED
  BY <1>1, <1>2

LEMMA ConstructInv ==
    ASSUME Inv, NEW n \in Nodes, construct_mapping(n)
    PROVE  Inv'
<1>1. n \in known
  BY DEF construct_mapping, Inv, TypeOK
<1>2. {n} \cup Sources(n) \in SUBSET Nodes
  BY DEF Sources
<1>. QED
  BY <1>1, <1>2, FlattenInv DEF construct_mapping

LEMMA TakeMergeInv ==
    ASSUME Inv, TakeMerge
    PROVE  Inv'
<1>1. PICK i \in MergesOf(value[Top.node]) :
          /\ calls' = [calls EXCEPT ![1].pending = value[Top.node][i].from]
          /\ value' = [value EXCEPT ![Top.node] = RemoveAt(@, i)]
  BY DEF TakeMerge
<1>2. /\ calls # <<>> /\ verdict = "loading"
      /\ UNCHANGED <<written, scanned, waiting, known, data, verdict>>
  BY DEF TakeMerge
<1>3. PICK t \in Frames : t = calls[1] /\ t = Top
  BY <1>2 DEF Inv, CallsOK, Top
<1>4. /\ t.node \in Nodes /\ t.node \in scanned /\ value[t.node] \in Seq(Entries)
      /\ Sources(t.node) \subseteq scanned
  <2>1. 1 \in DOMAIN calls
    BY <1>2 DEF Inv, CallsOK
  <2>2. t.node \in Nodes
    BY DEF Frames
  <2>. QED
    BY <1>3, <2>1, <2>2 DEF Inv, TypeOK, CallsOK
<1>5. i \in DOMAIN value[t.node] /\ value[t.node][i] \in Entries
  BY <1>3, <1>4 DEF MergesOf
<1>6. /\ RemoveAt(value[t.node], i) \in Seq(Entries)
      /\ \A j \in DOMAIN RemoveAt(value[t.node], i) :
            \E k \in DOMAIN value[t.node] : RemoveAt(value[t.node], i)[j] = value[t.node][k]
  BY <1>4, <1>5, RemoveAtElements
<1>7. /\ value' \in [Nodes -> Seq(Entries)]
      /\ value'[t.node] = RemoveAt(value[t.node], i)
      /\ \A m \in Nodes : m # t.node => value'[m] = value[m]
  BY <1>1, <1>3, <1>4, <1>6 DEF Inv, TypeOK
<1>8. ASSUME NEW m \in Nodes, NEW x \in Sources(m)'
      PROVE  x \in Sources(m)
  <2>1. CASE m # t.node
    BY <1>7, <1>8, <2>1 DEF Sources
  <2>2. CASE m = t.node
    <3>1. PICK j \in DOMAIN value'[m] : value'[m][j].key = Merge /\ x \in ToSet(value'[m][j].from)
      BY <1>8 DEF Sources, MergesOf
    <3>2. PICK k \in DOMAIN value[m] : value'[m][j] = value[m][k]
      BY <1>6, <1>7, <2>2, <3>1
    <3>. QED
      BY <1>8, <3>1, <3>2 DEF Sources, MergesOf
  <2>. QED
    BY <2>1, <2>2
<1>9. ToSet(value[t.node][i].from) \cap Nodes \subseteq scanned
  BY <1>1, <1>3, <1>4, <1>5 DEF Sources
<1>10. /\ calls' \in Seq(Frames) /\ Len(calls') = Len(calls)
       /\ \A c \in DOMAIN calls' :
             /\ calls'[c].node = calls[c].node
             /\ calls'[c].pending = IF c = 1 THEN value[t.node][i].from ELSE calls[c].pending
  <2>1. value[t.node][i].from \in Seq(Values)
    BY <1>5 DEF Entries
  <2>2. [t EXCEPT !.pending = value[t.node][i].from] \in Frames
    BY <2>1 DEF Frames
  <2>3. calls' = [calls EXCEPT ![1] = [t EXCEPT !.pending = value[t.node][i].from]]
    BY <1>1, <1>3
  <2>4. calls' \in Seq(Frames) /\ Len(calls') = Len(calls)
    BY <1>2, <2>2, <2>3 DEF Inv, CallsOK
  <2>. QED
    BY <1>2, <1>3, <2>2, <2>3, <2>4 DEF Inv, CallsOK, Frames
<1>11. CallsOK'
  <2>1. calls' # <<>> => calls'[Len(calls')].node \in known
    BY <1>2, <1>10 DEF Inv, CallsOK
  <2>2. ASSUME NEW c \in DOMAIN calls', NEW u \in Frames, u = calls'[c]
        PROVE  /\ Sources(u.node)' \subseteq scanned
               /\ ToSet(u.pending) \cap Nodes \subseteq scanned
               /\ c > 1 => u.pending # <<>>
    <3>1. c \in DOMAIN calls /\ u.node \in Nodes /\ u.node = calls[c].node
      <4>1. c \in DOMAIN calls
        BY <1>10, <2>2 DEF Inv, CallsOK
      <4>. QED
        BY <1>10, <2>2, <4>1 DEF Frames
    <3>. QED
      BY <1>8, <1>9, <1>10, <2>2, <3>1 DEF Inv, CallsOK
  <2>. QED
    BY <1>2, <1>10, <2>1, <2>2 DEF CallsOK
<1>12. Examined'
  BY <1>2, <1>4, <1>7 DEF Inv, TypeOK, Examined
<1>13. \A c \in DOMAIN calls' : calls'[c].node \in scanned
  BY <1>2, <1>10 DEF Inv, TypeOK, CallsOK
<1>14. TypeOK'
  BY <1>2, <1>7, <1>13 DEF Inv, TypeOK
<1>. QED
  BY <1>11, <1>12, <1>14 DEF Inv

LEMMA DescendInv ==
    ASSUME Inv, Descend
    PROVE  Inv'
<1>1. PICK t \in Frames : t = calls[1] /\ t = Top /\ t.pending # <<>>
  BY DEF Descend, Inv, CallsOK, Top
<1>2. CASE Head(t.pending) \in Nodes /\ flatten_mapping(Head(t.pending))
  <2>1. PICK s \in Nodes : s = Head(t.pending)
    BY <1>2
  <2>2. s \in scanned
    <3>1. t.pending \in Seq(Values) /\ 1 \in DOMAIN calls
      BY <1>1 DEF Frames, Descend, Inv, CallsOK
    <3>2. s \in ToSet(t.pending)
      BY <1>1, <2>1, <3>1 DEF ToSet
    <3>. QED
      BY <1>1, <3>1, <3>2 DEF Inv, CallsOK
  <2>3. Sources(s) \in SUBSET Nodes
    BY DEF Sources
  <2>. QED
    BY <1>2, <2>1, <2>2, <2>3, FlattenInv DEF Descend, flatten_mapping
<1>3. CASE verdict' = "malformed" /\ UNCHANGED <<scanned, calls>>
  BY <1>3 DEF Descend, Inv, TypeOK, CallsOK, Examined, Sources
<1>. QED
  BY <1>1, <1>2, <1>3 DEF Descend

\* What a source leaves with its caller.
LEMMA InheritingFrames ==
    ASSUME NEW f \in Frames, NEW e \in Seq(Inherited), f.pending # <<>>
    PROVE  /\ Inheriting(f, e) \in Frames
           /\ Inheriting(f, e).node = f.node
           /\ ToSet(Inheriting(f, e).pending) \subseteq ToSet(f.pending)
<1>1. /\ f.pending \in Seq(Values) /\ f.sub \in Seq(Inherited) /\ f.merge \in Seq(Inherited)
      /\ f.node \in Nodes
  BY DEF Frames
<1>2. Tail(f.pending) \in Seq(Values) /\ ToSet(Tail(f.pending)) \subseteq ToSet(f.pending)
  BY <1>1, HeadTailProperties DEF ToSet
<1>3. e \o f.sub \in Seq(Inherited) /\ f.merge \o (e \o f.sub) \in Seq(Inherited)
  BY <1>1, ConcatProperties
<1>4. ToSet(<<>>) = {} /\ <<>> \in Seq(Values) /\ <<>> \in Seq(Inherited)
  BY DEF ToSet
<1>5. CASE Len(f.pending) = 1
  <2>1. Inheriting(f, e) = [f EXCEPT !.pending = <<>>, !.sub = <<>>,
                                     !.merge = f.merge \o (e \o f.sub)]
    BY <1>5 DEF Inheriting
  <2>2. /\ Inheriting(f, e).pending = <<>> /\ Inheriting(f, e).node = f.node
        /\ Inheriting(f, e) \in Frames
    BY <1>1, <1>3, <1>4, <2>1 DEF Frames
  <2>. QED
    BY <1>4, <2>2
<1>6. CASE Len(f.pending) # 1
  <2>1. Inheriting(f, e) = [f EXCEPT !.pending = Tail(f.pending), !.sub = e \o f.sub]
    BY <1>6 DEF Inheriting
  <2>2. /\ Inheriting(f, e).pending = Tail(f.pending) /\ Inheriting(f, e).node = f.node
        /\ Inheriting(f, e) \in Frames
    BY <1>2, <1>3, <2>1 DEF Frames
  <2>. QED
    BY <1>2, <2>2
<1>. QED
  BY <1>5, <1>6

\* The stack after a return: the caller's frame in place of the two topmost.
LEMMA CallerContinues ==
    ASSUME NEW q \in Seq(Frames), NEW g \in Frames, Len(q) > 1
    PROVE  /\ <<g>> \o Tail(Tail(q)) \in Seq(Frames)
           /\ Len(<<g>> \o Tail(Tail(q))) = Len(q) - 1
           /\ (<<g>> \o Tail(Tail(q)))[1] = g
           /\ \A c \in 2 .. Len(q) - 1 : (<<g>> \o Tail(Tail(q)))[c] = q[c + 1]
<1>1. PICK k \in Nat : k = Len(q) /\ k > 1 /\ DOMAIN q = 1 .. k
  OBVIOUS
<1>2. /\ Tail(q) \in Seq(Frames) /\ Len(Tail(q)) = k - 1
      /\ \A c \in 1 .. k - 1 : Tail(q)[c] = q[c + 1]
  BY <1>1
<1>3. PICK rest \in Seq(Frames) : /\ rest = Tail(Tail(q)) /\ Len(rest) = k - 2
                                 /\ \A c \in 1 .. k - 2 : rest[c] = Tail(q)[c + 1]
  <2>1. /\ Tail(Tail(q)) \in Seq(Frames) /\ Len(Tail(Tail(q))) = k - 2
        /\ \A c \in 1 .. k - 2 : Tail(Tail(q))[c] = Tail(q)[c + 1]
    BY <1>1, <1>2
  <2>. QED
    BY <2>1
<1>4. /\ <<g>> \o rest \in Seq(Frames)
      /\ Len(<<g>> \o rest) = 1 + (k - 2)
      /\ \A c \in 1 .. 1 + (k - 2) : (<<g>> \o rest)[c] = IF c <= 1 THEN <<g>>[c] ELSE rest[c - 1]
  <2>1. <<g>> \in Seq(Frames) /\ Len(<<g>>) = 1
    OBVIOUS
  <2>. QED
    BY <1>1, <1>3, <2>1, ConcatProperties
<1>5. ASSUME NEW c \in 2 .. k - 1
      PROVE  (<<g>> \o rest)[c] = q[c + 1]
  <2>1. c - 1 \in 1 .. k - 2 /\ c \in 1 .. k - 1 /\ c \in 1 .. 1 + (k - 2) /\ ~ c <= 1 /\ c - 1 + 1 = c
    BY <1>1
  <2>2. (<<g>> \o rest)[c] = rest[c - 1]
    BY <1>4, <2>1
  <2>3. rest[c - 1] = Tail(q)[c]
    BY <1>3, <2>1
  <2>. QED
    BY <1>2, <2>1, <2>2, <2>3
<1>6. (<<g>> \o rest)[1] = g
  BY <1>1, <1>4
<1>. QED
  BY <1>1, <1>3, <1>4, <1>5, <1>6

LEMMA ReturnInv ==
    ASSUME Inv, Return
    PROVE  Inv'
<1>1. /\ calls # <<>> /\ verdict = "loading" /\ MergesOf(value[Top.node]) = {}
      /\ UNCHANGED <<written, scanned, verdict>>
  BY DEF Return
<1>2. PICK t \in Frames : t = calls[1] /\ t = Top
  BY <1>1 DEF Inv, CallsOK, Top
<1>3. /\ t.node \in Nodes /\ t.node \in scanned /\ value[t.node] \in Seq(Entries)
  <2>1. 1 \in DOMAIN calls
    BY <1>1 DEF Inv, CallsOK
  <2>2. t.node \in Nodes
    BY DEF Frames
  <2>. QED
    BY <1>2, <2>1, <2>2 DEF Inv, TypeOK
<1>4. value[t.node] \in Seq(Inherited)
  <2>1. \A i \in DOMAIN value[t.node] : value[t.node][i] \in Inherited
    BY <1>1, <1>2, <1>3 DEF MergesOf, Inherited
  <2>. QED
    BY <1>3, <2>1
<1>5. PICK flat \in Seq(Inherited) : flat = t.merge \o value[t.node]
  BY <1>4, ConcatProperties DEF Frames
<1>6. flat \in Seq(Entries)
  <2>1. \A i \in DOMAIN flat : flat[i] \in Entries
    BY DEF Inherited
  <2>. QED
    BY <2>1
<1>7. /\ value' = [value EXCEPT ![t.node] = flat]
      /\ \/ /\ Len(calls) > 1
            /\ calls' = <<Inheriting(calls[2], flat)>> \o Tail(Tail(calls))
            /\ UNCHANGED <<waiting, known, data>>
         \/ /\ Len(calls) = 1
            /\ calls' = <<>>
            /\ DOMAIN data' = DOMAIN data \cup {t.node}
            /\ \E nested \in SUBSET Nodes :
                  waiting' = waiting \cup (nested \ known) /\ known' = known \cup nested
  BY <1>2, <1>5 DEF Return
<1>8. /\ value' \in [Nodes -> Seq(Entries)]
      /\ value'[t.node] = flat
      /\ \A m \in Nodes : m # t.node => value'[m] = value[m]
  BY <1>3, <1>6, <1>7 DEF Inv, TypeOK
<1>9. ASSUME NEW m \in Nodes, NEW x \in Sources(m)'
      PROVE  x \in Sources(m)
  <2>1. MergesOf(flat) = {}
    BY DEF MergesOf, Inherited
  <2>. QED
    BY <1>8, <1>9, <2>1 DEF Sources
<1>10. Examined'
  BY <1>1, <1>3, <1>7, <1>8 DEF Inv, TypeOK, Examined
<1>11. CASE Len(calls) = 1
  <2>1. t.node \in known
    BY <1>1, <1>2, <1>11 DEF Inv, CallsOK
  <2>2. calls' = <<>> /\ DOMAIN data' \subseteq known' /\ known' \subseteq Nodes
        /\ waiting' \subseteq known'
    BY <1>7, <1>11, <2>1 DEF Inv, TypeOK
  <2>3. TypeOK'
    BY <1>1, <1>8, <2>2 DEF Inv, TypeOK
  <2>4. CallsOK'
    BY <2>2 DEF CallsOK
  <2>. QED
    BY <1>10, <2>3, <2>4 DEF Inv
<1>12. CASE Len(calls) > 1
  <2>1. UNCHANGED <<waiting, known, data>>
    BY <1>7, <1>12
  <2>2. 2 \in DOMAIN calls
    BY <1>12 DEF Inv, CallsOK
  <2>3. PICK f \in Frames : f = calls[2]
    BY <2>2 DEF Inv, CallsOK
  <2>4. f.node \in Nodes /\ f.node \in scanned /\ Sources(f.node) \subseteq scanned
        /\ ToSet(f.pending) \cap Nodes \subseteq scanned /\ f.pending # <<>>
    <3>1. f.node \in Nodes
      BY DEF Frames
    <3>. QED
      BY <2>2, <2>3, <3>1 DEF Inv, TypeOK, CallsOK
  <2>5. PICK g : g = Inheriting(f, flat)
    OBVIOUS
  <2>6. g \in Frames /\ g.node = f.node /\ ToSet(g.pending) \subseteq ToSet(f.pending)
    BY <2>4, <2>5, InheritingFrames
  <2>7. PICK k \in Nat, q \in Seq(Frames) : 
            k = Len(calls) /\ q = calls /\ k > 1 /\ DOMAIN calls = 1 .. k /\ Len(calls) # 1
    BY <1>12 DEF Inv, CallsOK
  <2>9. /\ calls' \in Seq(Frames) /\ Len(calls') = k - 1
        /\ calls'[1] = g
        /\ \A c \in 2 .. k - 1 : calls'[c] = q[c + 1]
    <3>1. calls' = <<g>> \o Tail(Tail(q))
      BY <1>7, <2>3, <2>5, <2>7
    <3>. QED
      BY <2>6, <2>7, <3>1, CallerContinues
  <2>10. calls'[Len(calls')].node \in known
    <3>1. q[k].node \in known
      BY <2>7 DEF Inv, CallsOK
    <3>2. CASE k = 2
      BY <2>3, <2>6, <2>7, <2>9, <3>1, <3>2
    <3>3. CASE k > 2
      BY <2>7, <2>9, <3>1, <3>3
    <3>. QED
      BY <2>7, <3>2, <3>3
  <2>11. ASSUME NEW c \in DOMAIN calls', NEW u \in Frames, u = calls'[c]
         PROVE  /\ u.node \in scanned
                /\ Sources(u.node)' \subseteq scanned
                /\ ToSet(u.pending) \cap Nodes \subseteq scanned
                /\ c > 1 => u.pending # <<>>
    <3>1. CASE c = 1
      BY <1>9, <2>4, <2>6, <2>9, <2>11, <3>1
    <3>2. CASE c # 1
      <4>1. c \in 2 .. k - 1
        BY <2>7, <2>9, <2>11, <3>2
      <4>2. c + 1 \in DOMAIN calls /\ u = calls[c + 1] /\ u.node \in Nodes /\ c + 1 > 1
        <5>1. c + 1 \in 1 .. k /\ c + 1 > 1
          BY <2>7, <4>1
        <5>2. u = q[c + 1]
          BY <2>9, <2>11, <4>1
        <5>3. u.node \in Nodes
          BY DEF Frames
        <5>. QED
          BY <2>7, <5>1, <5>2, <5>3
      <4>3. /\ u.node \in scanned /\ Sources(u.node) \subseteq scanned
            /\ ToSet(u.pending) \cap Nodes \subseteq scanned /\ u.pending # <<>>
        BY <4>2 DEF Inv, TypeOK, CallsOK
      <4>. QED
        BY <1>9, <4>2, <4>3
    <3>. QED
      BY <3>1, <3>2
  <2>12. ASSUME NEW c \in DOMAIN calls'
         PROVE  calls'[c] \in Frames
    BY <2>9
  <2>13. CallsOK'
    BY <1>1, <2>1, <2>9, <2>10, <2>11, <2>12 DEF CallsOK
  <2>14. TypeOK'
    BY <1>1, <1>8, <2>1, <2>11, <2>12 DEF Inv, TypeOK
  <2>. QED
    BY <1>10, <2>13, <2>14 DEF Inv
<1>. QED
  BY <1>7, <1>11, <1>12

LEMMA FinishInv ==
    ASSUME Inv, Finish
    PROVE  Inv'
<1>1. Examined'
  BY DEF Inv, TypeOK, Examined, Finish
<1>2. TypeOK' /\ CallsOK'
  BY DEF Inv, TypeOK, CallsOK, Finish, Sources
<1>. QED
  BY <1>1, <1>2 DEF Inv

-----------------------------------------------------------------------------
\* The inductive invariant.
LEMMA Invariance == Spec => []Inv
<1>1. Inv /\ [Next]_vars => Inv'
  <2>. SUFFICES ASSUME Inv, [Next]_vars PROVE Inv'
    OBVIOUS
  <2>1. CASE \E n \in Nodes : construct_mapping(n)
    BY <2>1, ConstructInv
  <2>2. CASE TakeMerge
    BY <2>2, TakeMergeInv
  <2>3. CASE Descend
    BY <2>3, DescendInv
  <2>4. CASE Return
    BY <2>4, ReturnInv
  <2>5. CASE Finish
    BY <2>5, FinishInv
  <2>6. CASE UNCHANGED vars
    BY <2>6 DEF vars, Inv, TypeOK, CallsOK, Examined, Sources
  <2>. QED
    BY <2>1, <2>2, <2>3, <2>4, <2>5, <2>6 DEF Next
<1>. QED
  BY InitInv, <1>1, PTL DEF Spec

\* Whatever the document: a mapping is rewritten only after it was scanned,
\* and a key reported as repeated is repeated in the file.
THEOREM LoaderRefusalsAreDeserved == Spec => []RefusalsAreDeserved
<1>1. Inv => RefusalsAreDeserved
  BY DEF Inv, Examined, RefusalsAreDeserved
<1>. QED
  BY <1>1, Invariance, PTL

\* Type correctness, for every document.
THEOREM LoaderTypeOK == Spec => []TypeOK
<1>1. Inv => TypeOK
  BY DEF Inv
<1>. QED
  BY <1>1, Invariance, PTL

-----------------------------------------------------------------------------
(* Nothing is lost on the way from a mapping to the one that inherits it. *)

Pending == UNION {ToSet(calls[c].pending) : c \in DOMAIN calls}

\* The mappings a running call is flattening, is about to, or may yet take.
Active ==
    {calls[c].node : c \in DOMAIN calls} \cup Pending
        \cup UNION {Sources(calls[c].node) : c \in DOMAIN calls}

\* Constructed or waiting, or among what a running call has inherited.
Reached(v) ==
    \/ v \in known
    \/ \E c \in DOMAIN calls : \E e \in ToSet(calls[c].merge) \cup ToSet(calls[c].sub) : e.value = v

\* Flat, and its mappings are on their way to be constructed.
Settled(n) ==
    /\ MergesOf(value[n]) = {}
    /\ \A i \in DOMAIN value[n] : value[n][i].value \in Nodes => Reached(value[n][i].value)

\* An entry is in its mapping still, or is a `<<` whose sources are accounted for.
Kept(n, e) ==
    \/ \E j \in DOMAIN value[n] : value[n][j] = e
    \/ e.key = Merge /\ ToSet(e.from) \subseteq scanned \cup Pending

NothingLost ==
    /\ Root \in known
    /\ written \in Documents
    /\ verdict = "loaded" => calls = <<>>
    /\ \A c \in DOMAIN calls :
          /\ c > 1 => Head(calls[c].pending) = calls[c - 1].node
          /\ calls[c].pending = <<>> => calls[c].sub = <<>>
    /\ \A n \in scanned : n \in Active \/ Settled(n)
    /\ \A n \in Nodes : \A i \in DOMAIN written[n] : Kept(n, written[n][i])

LEMMA InitLosesNothing == Init => NothingLost
<1>. SUFFICES ASSUME Init PROVE NothingLost
  OBVIOUS
<1>1. \A n \in Nodes : \A i \in DOMAIN written[n] : Kept(n, written[n][i])
  BY DEF Init, Kept
<1>. QED
  BY <1>1 DEF Init, NothingLost

\* A step that ends the load, or none.
LEMMA UndisturbedLosesNothing ==
    ASSUME NothingLost, UNCHANGED <<written, value, scanned, known, calls>>,
           verdict' = "loaded" => calls = <<>>
    PROVE  NothingLost'
<1>1. \A n \in Nodes : Sources(n)' = Sources(n)
  BY DEF Sources
<1>2. Pending' = Pending
  BY DEF Pending
<1>3. Active' = Active
  BY <1>2 DEF Active, Sources
<1>4. ASSUME NEW n \in scanned, Settled(n)
      PROVE  Settled(n)'
  BY <1>4 DEF Settled, Reached
<1>5. ASSUME NEW n \in Nodes, NEW i \in DOMAIN written[n]
      PROVE  Kept(n, written[n][i])'
  BY <1>2 DEF NothingLost, Kept
<1>6. \A n \in scanned' : n \in Active' \/ Settled(n)'
  BY <1>3, <1>4 DEF NothingLost
<1>. QED
  BY <1>5, <1>6 DEF NothingLost

\* A frame on top, and the rest of the stack as it was.
LEMMA Pushed ==
    ASSUME NEW q \in Seq(Frames), NEW f \in Frames
    PROVE  /\ DOMAIN (<<f>> \o q) = 1 .. Len(q) + 1
           /\ (<<f>> \o q)[1] = f
           /\ \A c \in DOMAIN q : (<<f>> \o q)[c + 1] = q[c]
<1>1. /\ <<f>> \in Seq(Frames) /\ Len(<<f>>) = 1 /\ <<f>>[1] = f
  OBVIOUS
<1>2. /\ <<f>> \o q \in Seq(Frames) /\ Len(<<f>> \o q) = 1 + Len(q)
      /\ \A c \in 1 .. 1 + Len(q) : (<<f>> \o q)[c] = IF c <= 1 THEN <<f>>[c] ELSE q[c - 1]
  BY <1>1, ConcatProperties
<1>3. ASSUME NEW c \in DOMAIN q
      PROVE  (<<f>> \o q)[c + 1] = q[c]
  <2>1. c + 1 \in 1 .. 1 + Len(q) /\ ~ c + 1 <= 1 /\ c + 1 - 1 = c
    OBVIOUS
  <2>. QED
    BY <1>2, <2>1
<1>. QED
  BY <1>1, <1>2, <1>3

\* Entering a mapping: what it names becomes active with it.
LEMMA FlattenLosesNothing ==
    ASSUME Inv, NothingLost, NEW n \in Nodes, NEW visited \in SUBSET Nodes, Flatten(n, visited),
           visited \subseteq {n} \cup Sources(n),
           calls # <<>> => Head(Top.pending) = n,
           verdict = "loading", UNCHANGED <<written, value, known, data>>
    PROVE  NothingLost'
<1>1. CASE Refused(visited)
  <2>1. verdict' = "duplicate" /\ UNCHANGED <<scanned, calls>>
    BY <1>1 DEF Flatten
  <2>. QED
    BY <2>1, UndisturbedLosesNothing
<1>2. CASE ~ Refused(visited)
  <2>1. verdict' = verdict /\ scanned' = scanned \cup visited /\ calls' = <<Frame(n)>> \o calls
    BY <1>2 DEF Flatten
  <2>2. Frame(n) \in Frames /\ Frame(n).node = n /\ Frame(n).pending = <<>> /\ Frame(n).sub = <<>>
    BY DEF Frame, Frames
  <2>3. calls \in Seq(Frames)
    BY DEF Inv, CallsOK
  <2>4. /\ DOMAIN calls' = 1 .. Len(calls) + 1
        /\ calls'[1] = Frame(n)
        /\ \A c \in DOMAIN calls : calls'[c + 1] = calls[c]
    BY <2>1, <2>2, <2>3, Pushed
  <2>5. \A c \in DOMAIN calls : c + 1 \in DOMAIN calls'
    BY <2>3, <2>4
  <2>6. \A m \in Nodes : Sources(m)' = Sources(m)
    BY DEF Sources
  <2>7. ASSUME NEW x \in Pending
        PROVE  x \in Pending'
    BY <2>4, <2>5 DEF Pending
  <2>8. ASSUME NEW x \in Active
        PROVE  x \in Active'
    <3>1. ASSUME NEW c \in DOMAIN calls
          PROVE  calls[c].node \in Nodes
      <4>1. calls[c] \in Frames
        BY <2>3
      <4>. QED
        BY <4>1 DEF Frames
    <3>. QED
      BY <2>4, <2>5, <2>6, <2>7, <3>1 DEF Active
  <2>9. \A x \in visited : x \in Active'
    <3>1. 1 \in DOMAIN calls'
      BY <2>3, <2>4
    <3>. QED
      BY <2>2, <2>4, <2>6, <3>1 DEF Active
  <2>10. ASSUME NEW v, Reached(v)
         PROVE  Reached(v)'
    BY <2>4, <2>5, <2>10 DEF Reached
  <2>11. \A m \in scanned' : m \in Active' \/ Settled(m)'
    BY <2>1, <2>8, <2>9, <2>10 DEF NothingLost, Settled
  <2>12. \A m \in Nodes : \A i \in DOMAIN written'[m] : Kept(m, written[m][i])'
    BY <2>1, <2>7 DEF NothingLost, Kept
  <2>13. ASSUME NEW c \in DOMAIN calls'
         PROVE  /\ c > 1 => Head(calls'[c].pending) = calls'[c - 1].node
                /\ calls'[c].pending = <<>> => calls'[c].sub = <<>>
    <3>1. CASE c = 1
      BY <2>2, <2>4, <3>1
    <3>2. CASE c = 2
      <4>1. 1 \in DOMAIN calls /\ calls # <<>> /\ c - 1 = 1 /\ 1 + 1 = 2
        BY <2>3, <2>4, <2>13, <3>2
      <4>2. calls'[c] = calls[1] /\ calls'[c - 1] = Frame(n)
        BY <2>4, <3>2, <4>1
      <4>. QED
        BY <2>2, <4>1, <4>2 DEF Top, NothingLost
    <3>3. CASE c > 2
      <4>1. c - 1 \in DOMAIN calls /\ c - 2 \in DOMAIN calls /\ c - 1 > 1
        BY <2>3, <2>4, <2>13, <3>3
      <4>2. c - 1 + 1 = c /\ c - 2 + 1 = c - 1 /\ c - 1 - 1 = c - 2
        BY <2>4, <2>13
      <4>3. calls'[c] = calls[c - 1] /\ calls'[c - 1] = calls[c - 2]
        BY <2>4, <4>1, <4>2
      <4>. QED
        BY <4>1, <4>2, <4>3 DEF NothingLost
    <3>. QED
      BY <2>3, <2>4, <2>13, <3>1, <3>2, <3>3
  <2>. QED
    BY <2>1, <2>11, <2>12, <2>13 DEF NothingLost
<1>. QED
  BY <1>1, <1>2

LEMMA ConstructLosesNothing ==
    ASSUME Inv, NothingLost, NEW n \in Nodes, construct_mapping(n)
    PROVE  NothingLost'
<1>1. {n} \cup Sources(n) \in SUBSET Nodes
  BY DEF Sources
<1>. QED
  BY <1>1, FlattenLosesNothing DEF construct_mapping

LEMMA DescendLosesNothing ==
    ASSUME Inv, NothingLost, Descend
    PROVE  NothingLost'
<1>1. CASE Head(Top.pending) \in Nodes /\ flatten_mapping(Head(Top.pending))
  <2>1. PICK s \in Nodes : s = Head(Top.pending)
    BY <1>1
  <2>2. Sources(s) \in SUBSET Nodes
    BY DEF Sources
  <2>. QED
    BY <1>1, <2>1, <2>2, FlattenLosesNothing DEF Descend, flatten_mapping
<1>2. CASE verdict' = "malformed" /\ UNCHANGED <<scanned, calls>>
  BY <1>2, UndisturbedLosesNothing DEF Descend
<1>. QED
  BY <1>1, <1>2 DEF Descend

\* A `<<` that is taken out leaves its sources pending.
LEMMA TakeMergeLosesNothing ==
    ASSUME Inv, NothingLost, TakeMerge
    PROVE  NothingLost'
<1>1. PICK i \in MergesOf(value[Top.node]) :
          /\ calls' = [calls EXCEPT ![1].pending = value[Top.node][i].from]
          /\ value' = [value EXCEPT ![Top.node] = RemoveAt(@, i)]
  BY DEF TakeMerge
<1>2. /\ calls # <<>> /\ Top.pending = <<>> /\ verdict = "loading" /\ calls \in Seq(Frames)
      /\ UNCHANGED <<written, scanned, waiting, known, data, verdict>>
  BY DEF TakeMerge, Inv, CallsOK
<1>3. PICK t \in Frames : t = calls[1] /\ t = Top
  BY <1>2 DEF Top
<1>4. /\ 1 \in DOMAIN calls /\ t.node \in Nodes /\ t.pending = <<>>
      /\ value[t.node] \in Seq(Entries)
  <2>1. t.node \in Nodes
    BY DEF Frames
  <2>. QED
    BY <1>2, <1>3, <2>1 DEF Inv, TypeOK
<1>5. /\ i \in DOMAIN value[t.node] /\ value[t.node][i].key = Merge
      /\ value[t.node][i] \in Entries
  BY <1>3, <1>4 DEF MergesOf
<1>6. \A k \in DOMAIN value[t.node] :
          k # i => \E j \in DOMAIN RemoveAt(value[t.node], i) :
                       RemoveAt(value[t.node], i)[j] = value[t.node][k]
  BY <1>4, <1>5, RemoveAtElements
<1>7. /\ value'[t.node] = RemoveAt(value[t.node], i)
      /\ \A m \in Nodes : m # t.node => value'[m] = value[m]
  BY <1>1, <1>3, <1>4 DEF Inv, TypeOK
<1>8. /\ DOMAIN calls' = DOMAIN calls
      /\ calls'[1] = [t EXCEPT !.pending = value[t.node][i].from]
      /\ \A c \in DOMAIN calls : c # 1 => calls'[c] = calls[c]
  BY <1>1, <1>2, <1>3, <1>4
<1>9. /\ calls'[1].node = t.node /\ calls'[1].merge = t.merge /\ calls'[1].sub = t.sub
      /\ calls'[1].pending = value[t.node][i].from
  BY <1>8 DEF Frames
<1>10. ASSUME NEW x \in Pending
       PROVE  x \in Pending'
  <2>1. PICK c \in DOMAIN calls : x \in ToSet(calls[c].pending)
    BY DEF Pending
  <2>2. c # 1
    <3>1. ToSet(<<>>) = {}
      BY DEF ToSet
    <3>. QED
      BY <1>3, <1>4, <2>1, <3>1
  <2>. QED
    BY <1>8, <2>1, <2>2 DEF Pending
<1>11. ToSet(value[t.node][i].from) \subseteq Pending'
  BY <1>4, <1>8, <1>9 DEF Pending
<1>12. ASSUME NEW m \in Nodes, NEW x \in Sources(m)
       PROVE  x \in Sources(m)' \cup Pending'
  <2>1. CASE m # t.node
    BY <1>7, <1>12, <2>1 DEF Sources
  <2>2. CASE m = t.node
    <3>1. PICK k \in DOMAIN value[m] : value[m][k].key = Merge /\ x \in ToSet(value[m][k].from)
      BY <1>12 DEF Sources, MergesOf
    <3>2. CASE k = i
      BY <1>11, <2>2, <3>1, <3>2
    <3>3. CASE k # i
      <4>1. PICK j \in DOMAIN value'[m] : value'[m][j] = value[m][k]
        BY <1>6, <1>7, <2>2, <3>3
      <4>. QED
        BY <1>12, <3>1, <4>1 DEF Sources, MergesOf
    <3>. QED
      BY <3>2, <3>3
  <2>. QED
    BY <2>1, <2>2
<1>13. \A c \in DOMAIN calls : calls'[c].node = calls[c].node /\ calls[c].node \in Nodes
  <2>1. ASSUME NEW c \in DOMAIN calls
        PROVE  calls[c].node \in Nodes
    <3>1. calls[c] \in Frames
      BY <1>2
    <3>. QED
      BY <3>1 DEF Frames
  <2>. QED
    BY <1>3, <1>8, <1>9, <2>1
<1>14. ASSUME NEW x \in Active
       PROVE  x \in Active'
  <2>1. CASE x \in Pending
    BY <1>10, <2>1 DEF Active
  <2>2. CASE \E c \in DOMAIN calls : x = calls[c].node
    BY <1>8, <1>13, <2>2 DEF Active
  <2>3. CASE \E c \in DOMAIN calls : x \in Sources(calls[c].node)
    <3>1. PICK c \in DOMAIN calls : x \in Sources(calls[c].node)
      BY <2>3
    <3>2. PICK m \in Nodes : m = calls[c].node /\ m = calls'[c].node
      BY <1>13
    <3>3. x \in Sources(m)' \/ x \in Pending'
      BY <1>12, <3>1, <3>2
    <3>. QED
      BY <1>8, <3>2, <3>3 DEF Active
  <2>. QED
    BY <2>1, <2>2, <2>3 DEF Active
<1>15. t.node \in Active'
  BY <1>4, <1>8, <1>9 DEF Active
<1>16. ASSUME NEW v, Reached(v)
       PROVE  Reached(v)'
  BY <1>2, <1>3, <1>8, <1>9, <1>16, ZenonT(60) DEF Reached
<1>17. ASSUME NEW m \in scanned'
       PROVE  m \in Active' \/ Settled(m)'
  <2>1. m \in Nodes /\ m \in scanned
    BY <1>2 DEF Inv, TypeOK
  <2>2. CASE m = t.node
    BY <1>15, <2>2
  <2>3. CASE m # t.node
    BY <1>7, <1>14, <1>16, <2>1, <2>3 DEF NothingLost, Settled
  <2>. QED
    BY <2>2, <2>3
<1>18. ASSUME NEW m \in Nodes, NEW k \in DOMAIN written[m]
       PROVE  Kept(m, written[m][k])'
  <2>1. Kept(m, written[m][k])
    BY DEF NothingLost
  <2>2. CASE m # t.node
    BY <1>2, <1>7, <1>10, <2>1, <2>2 DEF Kept
  <2>3. CASE m = t.node /\ \E j \in DOMAIN value[m] : value[m][j] = written[m][k]
    <3>1. PICK j \in DOMAIN value[m] : value[m][j] = written[m][k]
      BY <2>3
    <3>2. CASE j = i
      BY <1>2, <1>5, <1>11, <2>3, <3>1, <3>2 DEF Kept
    <3>3. CASE j # i
      BY <1>2, <1>6, <1>7, <2>3, <3>1, <3>3 DEF Kept
    <3>. QED
      BY <3>2, <3>3
  <2>4. CASE written[m][k].key = Merge /\ ToSet(written[m][k].from) \subseteq scanned \cup Pending
    BY <1>2, <1>10, <2>4 DEF Kept
  <2>. QED
    BY <2>1, <2>2, <2>3, <2>4 DEF Kept
<1>19. ASSUME NEW c \in DOMAIN calls'
       PROVE  /\ c > 1 => Head(calls'[c].pending) = calls'[c - 1].node
              /\ calls'[c].pending = <<>> => calls'[c].sub = <<>>
  <2>1. CASE c = 1
    <3>1. t.sub = <<>>
      BY <1>3, <1>4 DEF NothingLost
    <3>. QED
      BY <1>9, <2>1, <3>1
  <2>2. CASE c # 1
    <3>1. c \in DOMAIN calls /\ c > 1 /\ c - 1 \in DOMAIN calls /\ calls'[c] = calls[c]
      BY <1>2, <1>8, <1>19, <2>2
    <3>. QED
      BY <1>13, <3>1 DEF NothingLost
  <2>. QED
    BY <2>1, <2>2
<1>. QED
  BY <1>2, <1>17, <1>18, <1>19 DEF NothingLost

\* What a source leaves with its caller is all there was.
LEMMA InheritingKeeps ==
    ASSUME NEW f \in Frames, NEW e \in Seq(Inherited), f.pending # <<>>
    PROVE  /\ ToSet(f.pending) \subseteq ToSet(Inheriting(f, e).pending) \cup {Head(f.pending)}
           /\ ToSet(e) \cup ToSet(f.merge) \cup ToSet(f.sub)
                  \subseteq ToSet(Inheriting(f, e).merge) \cup ToSet(Inheriting(f, e).sub)
           /\ Inheriting(f, e).pending = <<>> => Inheriting(f, e).sub = <<>>
<1>1. /\ f.pending \in Seq(Values) /\ f.sub \in Seq(Inherited) /\ f.merge \in Seq(Inherited)
  BY DEF Frames
<1>2. ToSet(e \o f.sub) = ToSet(e) \cup ToSet(f.sub)
  BY <1>1, ToSetConcat
<1>3. ToSet(f.merge \o (e \o f.sub)) = ToSet(f.merge) \cup (ToSet(e) \cup ToSet(f.sub))
  <2>1. PICK b \in Seq(Inherited) : b = e \o f.sub
    BY <1>1, ConcatProperties
  <2>2. ToSet(f.merge \o b) = ToSet(f.merge) \cup ToSet(b)
    BY <1>1, ToSetConcat
  <2>. QED
    BY <1>2, <2>1, <2>2
<1>4. CASE Len(f.pending) = 1
  <2>1. Inheriting(f, e) = [f EXCEPT !.pending = <<>>, !.sub = <<>>,
                                     !.merge = f.merge \o (e \o f.sub)]
    BY <1>4 DEF Inheriting
  <2>2. /\ Inheriting(f, e).pending = <<>> /\ Inheriting(f, e).sub = <<>>
        /\ Inheriting(f, e).merge = f.merge \o (e \o f.sub)
    BY <2>1 DEF Frames
  <2>3. ToSet(f.pending) = {Head(f.pending)}
    <3>1. DOMAIN f.pending = {1} /\ Head(f.pending) = f.pending[1]
      BY <1>1, <1>4
    <3>. QED
      BY <3>1 DEF ToSet
  <2>. QED
    BY <1>3, <2>2, <2>3
<1>5. CASE Len(f.pending) # 1
  <2>1. Inheriting(f, e) = [f EXCEPT !.pending = Tail(f.pending), !.sub = e \o f.sub]
    BY <1>5 DEF Inheriting
  <2>2. /\ Inheriting(f, e).pending = Tail(f.pending) /\ Inheriting(f, e).sub = e \o f.sub
        /\ Inheriting(f, e).merge = f.merge
    BY <2>1 DEF Frames
  <2>3. PICK k \in Nat : k = Len(f.pending) /\ k > 1
    <3>1. PICK k \in Nat : k = Len(f.pending) /\ k # 0
      BY <1>1, EmptySeq
    <3>2. k # 1
      BY <1>5, <3>1
    <3>3. k = 0 \/ k = 1 \/ k > 1
      OBVIOUS
    <3>. QED
      BY <3>1, <3>2, <3>3
  <2>4. /\ DOMAIN f.pending = 1 .. k /\ DOMAIN Tail(f.pending) = 1 .. k - 1
        /\ \A c \in 1 .. k - 1 : Tail(f.pending)[c] = f.pending[c + 1]
        /\ Head(f.pending) = f.pending[1]
    BY <1>1, <2>3
  <2>5. Tail(f.pending) # <<>>
    <3>1. 1 \in DOMAIN Tail(f.pending) /\ DOMAIN <<>> = {}
      BY <2>3, <2>4
    <3>2. CASE Tail(f.pending) = <<>>
      BY <3>1, <3>2
    <3>. QED
      BY <3>2
  <2>6. ASSUME NEW c \in DOMAIN f.pending, c # 1
        PROVE  f.pending[c] \in ToSet(Tail(f.pending))
    <3>1. c - 1 \in 1 .. k - 1 /\ c - 1 + 1 = c
      BY <2>3, <2>4, <2>6
    <3>2. Tail(f.pending)[c - 1] = f.pending[c]
      BY <2>4, <3>1
    <3>. QED
      BY <2>4, <3>1, <3>2 DEF ToSet
  <2>7. ToSet(f.pending) \subseteq ToSet(Tail(f.pending)) \cup {Head(f.pending)}
    BY <2>4, <2>6 DEF ToSet
  <2>. QED
    BY <1>2, <2>2, <2>5, <2>7
<1>. QED
  BY <1>4, <1>5

\* A call that returns has handed on all its mapping holds.
LEMMA ReturnLosesNothing ==
    ASSUME Inv, NothingLost, Return
    PROVE  NothingLost'
<1>1. /\ calls # <<>> /\ Top.pending = <<>> /\ MergesOf(value[Top.node]) = {}
      /\ calls \in Seq(Frames) /\ verdict # "loaded"
      /\ UNCHANGED <<written, scanned, verdict>>
  BY DEF Return, Inv, CallsOK
<1>2. PICK t \in Frames : t = calls[1] /\ t = Top
  BY <1>1 DEF Top
<1>3. /\ 1 \in DOMAIN calls /\ t.node \in Nodes /\ t.node \in scanned
      /\ value[t.node] \in Seq(Entries) /\ t.merge \in Seq(Inherited)
      /\ t.pending = <<>> /\ t.sub = <<>>
  <2>1. t.node \in Nodes /\ t.merge \in Seq(Inherited)
    BY DEF Frames
  <2>2. 1 \in DOMAIN calls
    BY <1>1
  <2>3. t.pending = <<>> /\ t.sub = <<>>
    BY <1>1, <1>2, <2>2 DEF NothingLost
  <2>. QED
    BY <1>2, <2>1, <2>2, <2>3 DEF Inv, TypeOK
<1>4. value[t.node] \in Seq(Inherited)
  <2>1. \A i \in DOMAIN value[t.node] : value[t.node][i] \in Inherited
    BY <1>1, <1>2, <1>3 DEF MergesOf, Inherited
  <2>. QED
    BY <1>3, <2>1
<1>5. PICK flat \in Seq(Inherited) : /\ flat = t.merge \o value[t.node]
                                     /\ ToSet(flat) = ToSet(t.merge) \cup ToSet(value[t.node])
  <2>1. PICK own \in Seq(Inherited) : own = value[t.node]
    BY <1>4
  <2>2. ToSet(t.merge \o own) = ToSet(t.merge) \cup ToSet(own) /\ t.merge \o own \in Seq(Inherited)
    BY <1>3, <2>1, ToSetConcat, ConcatProperties
  <2>. QED
    BY <2>1, <2>2
<1>6. MergesOf(flat) = {} /\ Sources(t.node) = {}
  <2>1. MergesOf(flat) = {}
    BY SMTT(30) DEF MergesOf, Inherited
  <2>. QED
    BY <1>1, <1>2, <2>1 DEF Sources
<1>7. /\ value' = [value EXCEPT ![t.node] = flat]
      /\ \/ /\ Len(calls) > 1
            /\ calls' = <<Inheriting(calls[2], flat)>> \o Tail(Tail(calls))
            /\ known' = known
         \/ /\ Len(calls) = 1
            /\ calls' = <<>>
            /\ known \subseteq known'
            /\ \A i \in DOMAIN flat : flat[i].value \in Nodes => flat[i].value \in known'
  BY <1>2, <1>5 DEF Return
<1>8. /\ value'[t.node] = flat
      /\ \A m \in Nodes : m # t.node => value'[m] = value[m]
  BY <1>3, <1>7 DEF Inv, TypeOK
<1>9. SUFFICES /\ \A c \in DOMAIN calls' :
                     /\ c > 1 => Head(calls'[c].pending) = calls'[c - 1].node
                     /\ calls'[c].pending = <<>> => calls'[c].sub = <<>>
               /\ \A x \in Pending : x = t.node \/ x \in Pending'
               /\ \A x \in Active : x = t.node \/ x \in Active'
               /\ \A v \in Nodes : Reached(v) => Reached(v)'
               /\ \A e \in ToSet(flat) : e.value \in Nodes => Reached(e.value)'
  <2>1. Settled(t.node)'
    <3>1. \A i \in DOMAIN flat : flat[i] \in ToSet(flat)
      BY DEF ToSet
    <3>. QED
      BY <1>6, <1>8, <1>9, <3>1 DEF Settled
  <2>2. ASSUME NEW m \in scanned'
        PROVE  m \in Active' \/ Settled(m)'
    <3>1. m \in Nodes /\ m \in scanned
      BY <1>1 DEF Inv, TypeOK
    <3>2. CASE m = t.node
      BY <2>1, <3>2
    <3>3. CASE m # t.node /\ Settled(m)
      BY <1>8, <1>9, <3>1, <3>3 DEF Settled
    <3>4. CASE m # t.node /\ m \in Active
      BY <1>9, <3>4
    <3>. QED
      BY <3>1, <3>2, <3>3, <3>4 DEF NothingLost
  <2>3. ASSUME NEW m \in Nodes, NEW k \in DOMAIN written[m]
        PROVE  Kept(m, written[m][k])'
    <3>1. Kept(m, written[m][k])
      BY DEF NothingLost
    <3>2. CASE written[m][k].key = Merge /\ ToSet(written[m][k].from) \subseteq scanned \cup Pending
      BY <1>1, <1>3, <1>9, <3>2 DEF Kept
    <3>3. CASE \E j \in DOMAIN value[m] : value[m][j] = written[m][k]
      <4>1. CASE m # t.node
        BY <1>1, <1>8, <3>3, <4>1 DEF Kept
      <4>2. CASE m = t.node
        <5>1. written[m][k] \in ToSet(flat)
          BY <1>5, <3>3, <4>2 DEF ToSet
        <5>2. \E j \in DOMAIN flat : flat[j] = written[m][k]
          BY <5>1 DEF ToSet
        <5>. QED
          BY <1>1, <1>8, <4>2, <5>2 DEF Kept
      <4>. QED
        BY <4>1, <4>2
    <3>. QED
      BY <3>1, <3>2, <3>3 DEF Kept
  <2>4. Root \in known'
    BY <1>7 DEF NothingLost
  <2>. QED
    BY <1>1, <1>9, <2>2, <2>3, <2>4 DEF NothingLost
<1>10. ToSet(<<>>) = {}
  BY DEF ToSet
<1>11. CASE Len(calls) = 1
  <2>1. /\ calls' = <<>> /\ DOMAIN calls = {1}
        /\ known \subseteq known'
        /\ \A i \in DOMAIN flat : flat[i].value \in Nodes => flat[i].value \in known'
    BY <1>1, <1>7, <1>11
  <2>2. Pending = {}
    BY <1>2, <1>3, <1>10, <2>1 DEF Pending
  <2>3. \A x \in Active : x = t.node
    BY <1>2, <1>6, <2>1, <2>2 DEF Active
  <2>4. \A e \in ToSet(flat) : e.value \in Nodes => e.value \in known'
    BY <2>1 DEF ToSet
  <2>5. \A v \in Nodes : Reached(v) => v \in known'
    BY <1>2, <1>3, <1>5, <1>10, <2>1, <2>4 DEF Reached
  <2>. QED
    BY <2>1, <2>2, <2>3, <2>4, <2>5 DEF Reached
<1>12. CASE Len(calls) > 1
  <2>1. known' = known /\ 2 \in DOMAIN calls /\ 2 - 1 = 1 /\ 2 > 1
    BY <1>1, <1>7, <1>12
  <2>2. PICK f \in Frames : f = calls[2]
    BY <1>1, <2>1
  <2>3. f.pending # <<>> /\ Head(f.pending) = t.node
    BY <1>2, <2>1, <2>2 DEF Inv, CallsOK, NothingLost
  <2>4. PICK g : g = Inheriting(f, flat)
    OBVIOUS
  <2>5. /\ g \in Frames /\ g.node = f.node
        /\ ToSet(f.pending) \subseteq ToSet(g.pending) \cup {t.node}
        /\ ToSet(flat) \cup ToSet(f.merge) \cup ToSet(f.sub) \subseteq ToSet(g.merge) \cup ToSet(g.sub)
        /\ g.pending = <<>> => g.sub = <<>>
    BY <2>3, <2>4, InheritingFrames, InheritingKeeps
  <2>6. PICK k \in Nat, q \in Seq(Frames) :
            k = Len(calls) /\ q = calls /\ k > 1 /\ DOMAIN calls = 1 .. k /\ Len(calls) # 1
    <3>1. calls \in Seq(Frames)
      BY <1>1
    <3>2. PICK k \in Nat : k = Len(calls) /\ DOMAIN calls = 1 .. k
      BY <3>1
    <3>3. k > 1 /\ k # 1
      BY <1>12, <3>2
    <3>. QED
      BY <3>1, <3>2, <3>3
  <2>7. /\ calls' \in Seq(Frames) /\ Len(calls') = k - 1
        /\ calls'[1] = g
        /\ \A c \in 2 .. k - 1 : calls'[c] = q[c + 1]
    <3>1. calls' = <<g>> \o Tail(Tail(q))
      BY <1>7, <2>2, <2>4, <2>6
    <3>. QED
      BY <2>5, <2>6, <3>1, CallerContinues
  <2>8. DOMAIN calls' = 1 .. k - 1 /\ 1 \in DOMAIN calls'
    BY <2>6, <2>7
  <2>9. ASSUME NEW c \in DOMAIN calls, c > 2
        PROVE  c - 1 \in DOMAIN calls' /\ calls'[c - 1] = calls[c]
    <3>1. c - 1 \in 2 .. k - 1 /\ c - 1 \in 1 .. k - 1 /\ c - 1 + 1 = c
      BY <2>6, <2>9
    <3>. QED
      BY <2>6, <2>7, <2>8, <3>1
  <2>10. \A c \in DOMAIN calls : c = 1 \/ c = 2 \/ c > 2
    BY <2>6
  <2>11. ASSUME NEW x \in Pending
         PROVE  x = t.node \/ x \in Pending'
    <3>1. PICK c \in DOMAIN calls : x \in ToSet(calls[c].pending)
      BY DEF Pending
    <3>2. CASE c = 1
      BY <1>2, <1>3, <1>10, <3>1, <3>2
    <3>3. CASE c = 2
      BY <2>2, <2>5, <2>7, <2>8, <3>1, <3>3 DEF Pending
    <3>4. CASE c > 2
      BY <2>9, <3>1, <3>4 DEF Pending
    <3>. QED
      BY <2>10, <3>2, <3>3, <3>4
  <2>12. ASSUME NEW m \in Nodes
         PROVE  Sources(m) \subseteq Sources(m)'
    <3>1. CASE m = t.node
      BY <1>6, <3>1
    <3>2. CASE m # t.node
      BY <1>8, <3>2 DEF Sources
    <3>. QED
      BY <3>1, <3>2
  <2>13. ASSUME NEW c \in DOMAIN calls, c # 1
         PROVE  \E d \in DOMAIN calls' : calls'[d].node = calls[c].node /\ calls[c].node \in Nodes
    <3>1. calls[c].node \in Nodes
      <4>1. calls[c] \in Frames
        BY <1>1
      <4>. QED
        BY <4>1 DEF Frames
    <3>2. CASE c = 2
      BY <2>2, <2>5, <2>7, <2>8, <3>1, <3>2
    <3>3. CASE c > 2
      BY <2>9, <3>1, <3>3
    <3>. QED
      BY <2>10, <2>13, <3>2, <3>3
  <2>14. ASSUME NEW x \in Active
         PROVE  x = t.node \/ x \in Active'
    <3>1. CASE x \in Pending
      BY <2>11, <3>1 DEF Active
    <3>2. CASE \E c \in DOMAIN calls : x = calls[c].node
      BY <1>2, <2>13, <3>2 DEF Active
    <3>3. CASE \E c \in DOMAIN calls : x \in Sources(calls[c].node)
      <4>1. PICK c \in DOMAIN calls : x \in Sources(calls[c].node)
        BY <3>3
      <4>2. c # 1
        BY <1>2, <1>6, <4>1
      <4>3. PICK d \in DOMAIN calls' : calls'[d].node = calls[c].node /\ calls[c].node \in Nodes
        BY <2>13, <4>2
      <4>4. PICK m \in Nodes : m = calls[c].node /\ m = calls'[d].node
        BY <4>3
      <4>5. x \in Sources(m)'
        BY <2>12, <4>1, <4>4
      <4>. QED
        BY <4>4, <4>5 DEF Active
    <3>. QED
      BY <3>1, <3>2, <3>3 DEF Active
  <2>15. \A e \in ToSet(flat) : Reached(e.value)'
    BY <2>5, <2>7, <2>8 DEF Reached
  <2>16. ASSUME NEW v \in Nodes, Reached(v)
         PROVE  Reached(v)'
    <3>1. CASE v \in known
      BY <2>1, <3>1 DEF Reached
    <3>2. CASE \E c \in DOMAIN calls : \E e \in ToSet(calls[c].merge) \cup ToSet(calls[c].sub) : e.value = v
      <4>1. PICK c \in DOMAIN calls : \E e \in ToSet(calls[c].merge) \cup ToSet(calls[c].sub) : e.value = v
        BY <3>2
      <4>2. CASE c = 1
        BY <1>2, <1>3, <1>5, <1>10, <2>15, <4>1, <4>2
      <4>3. CASE c = 2
        BY <2>2, <2>5, <2>7, <2>8, <4>1, <4>3 DEF Reached
      <4>4. CASE c > 2
        BY <2>9, <4>1, <4>4 DEF Reached
      <4>. QED
        BY <2>10, <4>2, <4>3, <4>4
    <3>. QED
      BY <2>16, <3>1, <3>2 DEF Reached
  <2>17. ASSUME NEW c \in DOMAIN calls'
         PROVE  /\ c > 1 => Head(calls'[c].pending) = calls'[c - 1].node
                /\ calls'[c].pending = <<>> => calls'[c].sub = <<>>
    <3>1. CASE c = 1
      BY <2>5, <2>7, <3>1
    <3>2. CASE c # 1
      <4>1. c + 1 \in DOMAIN calls /\ c + 1 > 1 /\ c + 1 - 1 = c /\ calls'[c] = calls[c + 1]
        BY <2>6, <2>7, <2>8, <2>17, <3>2
      <4>2. calls'[c - 1].node = calls[c].node
        <5>1. CASE c = 2
          BY <2>1, <2>2, <2>5, <2>7, <5>1
        <5>2. CASE c > 2
          <6>1. c - 1 \in 2 .. k - 1 /\ c - 1 + 1 = c
            BY <2>6, <2>8, <2>17, <5>2
          <6>. QED
            BY <2>6, <2>7, <6>1
        <5>. QED
          BY <2>8, <2>17, <3>2, <5>1, <5>2
      <4>3. /\ Head(calls[c + 1].pending) = calls[c].node
            /\ calls[c + 1].pending = <<>> => calls[c + 1].sub = <<>>
        BY <4>1, SMTT(40) DEF NothingLost
      <4>. QED
        BY <4>1, <4>2, <4>3
    <3>. QED
      BY <3>1, <3>2
  <2>. QED
    BY <2>11, <2>14, <2>15, <2>16, <2>17
<1>. QED
  BY <1>7, <1>11, <1>12

\* When the load ends well the scanned mappings are closed under naming, so
\* they are all the mappings of the document.
LEMMA AllScanned ==
    ASSUME Inv, NothingLost, verdict = "loaded"
    PROVE  scanned = Nodes /\ \A n \in Nodes : Settled(n)
<1>1. calls = <<>> /\ waiting = {} /\ known \subseteq scanned /\ Root \in scanned
  BY DEF Inv, Examined, NothingLost
<1>2. Active = {} /\ Pending = {}
  BY <1>1 DEF Active, Pending
<1>3. \A n \in scanned : Settled(n)
  BY <1>2 DEF NothingLost
<1>4. ASSUME NEW n \in scanned, NEW x \in Names(written[n]) \cap Nodes
      PROVE  x \in scanned
  <2>1. n \in Nodes
    BY DEF Inv, TypeOK
  <2>2. PICK i \in DOMAIN written[n] :
            \/ written[n][i].key # Merge /\ written[n][i].value = x
            \/ written[n][i].key = Merge /\ x \in ToSet(written[n][i].from)
    BY DEF Names, MergesOf
  <2>3. Kept(n, written[n][i])
    BY <2>1 DEF NothingLost
  <2>4. CASE \E j \in DOMAIN value[n] : value[n][j] = written[n][i]
    <3>1. PICK j \in DOMAIN value[n] : value[n][j] = written[n][i]
      BY <2>4
    <3>2. written[n][i].key # Merge
      BY <1>3, <3>1 DEF Settled, MergesOf
    <3>3. Reached(x)
      BY <1>3, <1>4, <2>2, <3>1, <3>2 DEF Settled
    <3>. QED
      BY <1>1, <3>3 DEF Reached
  <2>5. CASE written[n][i].key = Merge /\ ToSet(written[n][i].from) \subseteq scanned \cup Pending
    BY <1>2, <2>2, <2>5
  <2>. QED
    BY <2>3, <2>4, <2>5 DEF Kept
<1>5. written \in Documents /\ scanned \in SUBSET Nodes
  BY DEF NothingLost, Inv, TypeOK
<1>. QED
  BY <1>1, <1>3, <1>4, <1>5, RootedAssumption

LEMMA LosesNothing == Spec => []NothingLost
<1>1. Inv /\ NothingLost /\ [Next]_vars => NothingLost'
  <2>. SUFFICES ASSUME Inv, NothingLost, [Next]_vars PROVE NothingLost'
    OBVIOUS
  <2>1. CASE \E n \in Nodes : construct_mapping(n)
    BY <2>1, ConstructLosesNothing
  <2>2. CASE TakeMerge
    BY <2>2, TakeMergeLosesNothing
  <2>3. CASE Descend
    BY <2>3, DescendLosesNothing
  <2>4. CASE Return
    BY <2>4, ReturnLosesNothing
  <2>5. CASE Finish
    BY <2>5, UndisturbedLosesNothing DEF Finish
  <2>6. CASE UNCHANGED vars
    BY <2>6, UndisturbedLosesNothing DEF vars, NothingLost
  <2>. QED
    BY <2>1, <2>2, <2>3, <2>4, <2>5, <2>6 DEF Next
<1>. QED
  BY <1>1, Invariance, InitLosesNothing, PTL DEF Spec

\* For every document, also one whose merges lead back to themselves: what
\* loads repeats no key anywhere, in a mapping that is only ever inherited
\* too, and merges nothing but mappings.
THEOREM LoaderLetsNothingThrough == Spec => []NothingSlipsThrough
<1>1. Inv /\ NothingLost => NothingSlipsThrough
  <2>. SUFFICES ASSUME Inv, NothingLost, verdict = "loaded", NEW n \in Nodes
                PROVE  ~ Repeats(written[n]) /\ ~ Malformed(n)
    BY DEF NothingSlipsThrough
  <2>1. scanned = Nodes /\ Settled(n)
    BY AllScanned
  <2>2. ~ Repeats(written[n])
    BY <2>1 DEF Inv, Examined
  <2>3. calls = <<>> /\ Pending = {}
    BY DEF NothingLost, Pending
  <2>4. ASSUME NEW i \in MergesOf(written[n])
        PROVE  ToSet(written[n][i].from) \subseteq Nodes
    <3>1. i \in DOMAIN written[n] /\ written[n][i].key = Merge
      BY DEF MergesOf
    <3>2. ~ \E j \in DOMAIN value[n] : value[n][j] = written[n][i]
      BY <2>1, <3>1 DEF Settled, MergesOf
    <3>. QED
      BY <2>1, <2>3, <3>1, <3>2 DEF NothingLost, Kept
  <2>. QED
    BY <2>2, <2>4 DEF Malformed
<1>. QED
  BY <1>1, LosesNothing, Invariance, PTL

\* Without RootedAssumption: what was constructed and not refused repeats no
\* key, wherever the rest of the document hangs.
THEOREM ConstructedMappingsRepeatNothing ==
    Spec => [](verdict = "loaded" => \A n \in known : ~ Repeats(written[n]))
<1>1. Inv => (verdict = "loaded" => \A n \in known : ~ Repeats(written[n]))
  BY DEF Inv, TypeOK, Examined
<1>. QED
  BY <1>1, Invariance, PTL

-----------------------------------------------------------------------------
(* What a `<<` means, key by key *)

\* A set of positions has a first and a last one, and no other is first or last.
LEMMA Extremes ==
    ASSUME NEW n \in Nat, NEW P, P \subseteq 1 .. n, P # {}
    PROVE  /\ Min(P) \in P /\ \A p \in P : Min(P) <= p
           /\ Max(P) \in P /\ \A p \in P : p <= Max(P)
<1>1. ASSUME NEW S, S \subseteq Nat, S # {}
      PROVE  \E x \in S : \A y \in S : x <= y
  <2>1. PICK x \in S : \A y \in S : <<y, x>> \notin OpToRel(<, Nat)
    BY <1>1, WFMin, NatLessThanWellFounded, Zenon
  <2>2. ASSUME NEW y \in S
        PROVE  x <= y
    <3>1. x \in Nat /\ y \in Nat
      BY <1>1
    <3>2. ~ y < x
      BY <2>1, <3>1, Zenon DEF OpToRel
    <3>. QED
      BY <3>1, <3>2
  <2>. QED
    BY <2>2
<1>2. \E x \in P : \A y \in P : x <= y
  <2>1. P \subseteq Nat
    OBVIOUS
  <2>. QED
    BY <1>1, <2>1
<1>3. \E x \in P : \A y \in P : x >= y
  <2>1. PICK S : S = {n - p : p \in P}
    OBVIOUS
  <2>2. S \subseteq Nat /\ S # {}
    <3>1. \A p \in P : n - p \in Nat
      OBVIOUS
    <3>. QED
      BY <2>1, <3>1
  <2>3. PICK d \in S : \A e \in S : d <= e
    BY <1>1, <2>2
  <2>4. PICK x \in P : d = n - x
    BY <2>1
  <2>5. ASSUME NEW y \in P
        PROVE  x >= y
    <3>1. n - x <= n - y
      BY <2>1, <2>3, <2>4
    <3>2. x \in Int /\ y \in Int
      OBVIOUS
    <3>. QED
      BY <3>1, <3>2
  <2>. QED
    BY <2>5
<1>4. Min(P) \in P /\ \A p \in P : Min(P) <= p
  BY <1>2 DEF Min
<1>5. Max(P) \in P /\ \A p \in P : Max(P) >= p
  BY <1>3 DEF Max
<1>6. PICK m \in 1 .. n : m = Max(P)
  BY <1>5
<1>7. \A p \in P : p <= m
  BY <1>5, <1>6
<1>. QED
  BY <1>4, <1>5, <1>6, <1>7

LEMMA TheLast ==
    ASSUME NEW n \in Nat, NEW P, P \subseteq 1 .. n, NEW x \in P, \A p \in P : p <= x
    PROVE  Max(P) = x
<1>1. Max(P) \in P /\ x <= Max(P) /\ Max(P) <= x
  BY Extremes
<1>2. PICK m \in 1 .. n : m = Max(P)
  BY <1>1
<1>3. m <= x /\ x <= m /\ x \in 1 .. n
  BY <1>1, <1>2
<1>. QED
  BY <1>2, <1>3

LEMMA TheFirst ==
    ASSUME NEW n \in Nat, NEW P, P \subseteq 1 .. n, NEW x \in P, \A p \in P : x <= p
    PROVE  Min(P) = x
<1>1. Min(P) \in P /\ x <= Min(P) /\ Min(P) <= x
  BY Extremes
<1>2. PICK m \in 1 .. n : m = Min(P)
  BY <1>1
<1>3. m <= x /\ x <= m /\ x \in 1 .. n
  BY <1>1, <1>2
<1>. QED
  BY <1>2, <1>3

\* What a dictionary gives for a key: nothing, or one value.
At(dict, k) == IF k \in DOMAIN dict THEN <<dict[k]>> ELSE <<>>

\* The second beats the first.
Or(u, v) == IF v # <<>> THEN v ELSE u

LEMMA OrLaws ==
    /\ \A u, v, w : Or(u, Or(v, w)) = Or(Or(u, v), w)
    /\ \A u : Or(u, <<>>) = u /\ Or(<<>>, u) = u
    /\ \A v : <<v>> # <<>>
    /\ \A v, w : <<v>> = <<w>> => v = w
<1>1. /\ \A u, v, w : Or(u, Or(v, w)) = Or(Or(u, v), w)
      /\ \A u : Or(u, <<>>) = u /\ Or(<<>>, u) = u
  BY DEF Or
<1>2. /\ \A v : <<v>> # <<>>
      /\ \A v, w : <<v>> = <<w>> => v = w
  OBVIOUS
<1>. QED
  BY <1>1, <1>2

\* What a mapping's own entries give for a key, what the sources of one `<<`
\* give, what all its `<<` give, and what it means.
Owning(s, k) == {i \in DOMAIN s \ MergesOf(s) : s[i].key = k}
Giving(p, k, M) == {j \in DOMAIN p : k \in DOMAIN M[p[j]]}
Merging(s, k, M) == {i \in MergesOf(s) : Giving(s[i].from, k, M) # {}}

OwnAt(s, k) == IF Owning(s, k) = {} THEN <<>> ELSE <<s[Max(Owning(s, k))].value>>
FromAt(p, k, M) ==
    IF Giving(p, k, M) = {} THEN <<>> ELSE <<M[p[Min(Giving(p, k, M))]][k]>>
MergedAt(s, k, M) ==
    IF Merging(s, k, M) = {} THEN <<>> ELSE FromAt(s[Max(Merging(s, k, M))].from, k, M)
MeansAt(s, k, M) == Or(MergedAt(s, k, M), OwnAt(s, k))

LEMMA FromNone ==
    ASSUME NEW p, NEW k, NEW M
    PROVE  FromAt(p, k, M) = <<>> <=> Giving(p, k, M) = {}
  BY OrLaws DEF FromAt

\* MeansAt says of each key what Denotes does.
LEMMA DenotesAt ==
    ASSUME NEW s \in Seq(Entries), NEW M
    PROVE  /\ DOMAIN Denotes(s, M) \subseteq Keys
           /\ \A k \in Keys : At(Denotes(s, M), k) = MeansAt(s, k, M)
<1>1. Denotes(s, M) =
          [k \in {l \in Keys : Owning(s, l) # {} \/ Merging(s, l, M) # {}} |->
            IF Owning(s, k) # {} THEN s[Max(Owning(s, k))].value
            ELSE M[s[Max(Merging(s, k, M))].from[Min(Giving(s[Max(Merging(s, k, M))].from, k, M))]][k]]
  BY DEF Denotes, Owning, Merging, Giving
<1>2. ASSUME NEW k \in Keys
      PROVE  At(Denotes(s, M), k) = MeansAt(s, k, M)
  <2>1. CASE Owning(s, k) # {}
    BY <1>1, <2>1, OrLaws DEF At, MeansAt, Or, OwnAt
  <2>2. CASE Owning(s, k) = {} /\ Merging(s, k, M) = {}
    BY <1>1, <2>2, OrLaws DEF At, MeansAt, Or, OwnAt, MergedAt
  <2>3. CASE Owning(s, k) = {} /\ Merging(s, k, M) # {}
    <3>1. DOMAIN s = 1 .. Len(s) /\ Len(s) \in Nat
      OBVIOUS
    <3>2. Merging(s, k, M) \subseteq 1 .. Len(s)
      BY <3>1 DEF Merging, MergesOf
    <3>3. Max(Merging(s, k, M)) \in Merging(s, k, M)
      BY <2>3, <3>1, <3>2, Extremes
    <3>4. Giving(s[Max(Merging(s, k, M))].from, k, M) # {}
      BY <3>3 DEF Merging
    <3>. QED
      BY <1>1, <2>3, <3>4, OrLaws DEF At, MeansAt, Or, OwnAt, MergedAt, FromAt
  <2>. QED
    BY <2>1, <2>2, <2>3
<1>. QED
  BY <1>1, <1>2

\* So does the dictionary of a flat mapping.
LEMMA DictAt ==
    ASSUME NEW s \in Seq(Inherited)
    PROVE  /\ DOMAIN Dict(s) \subseteq Keys
           /\ \A k \in Keys : At(Dict(s), k) = OwnAt(s, k)
<1>1. MergesOf(s) = {}
  BY DEF MergesOf, Inherited
<1>2. \A k : Owning(s, k) = {i \in DOMAIN s : s[i].key = k}
  BY <1>1 DEF Owning
<1>3. Dict(s) = [k \in {s[i].key : i \in DOMAIN s} |-> s[Max(Owning(s, k))].value]
  BY <1>2 DEF Dict
<1>4. ASSUME NEW i \in DOMAIN s
      PROVE  s[i].key \in Keys
  BY DEF Inherited, Entries
<1>5. ASSUME NEW k \in Keys
      PROVE  At(Dict(s), k) = OwnAt(s, k)
  <2>1. k \in DOMAIN Dict(s) <=> Owning(s, k) # {}
    BY <1>2, <1>3, ZenonT(60)
  <2>. QED
    BY <1>3, <2>1 DEF At, OwnAt
<1>. QED
  BY <1>3, <1>4, <1>5

\* Own entries behind others beat them.
LEMMA OwnConcat ==
    ASSUME NEW s \in Seq(Inherited), NEW t \in Seq(Inherited), NEW k
    PROVE  OwnAt(s \o t, k) = Or(OwnAt(s, k), OwnAt(t, k))
<1>1. PICK r \in Seq(Inherited), a \in Nat, b \in Nat :
          /\ r = s \o t /\ DOMAIN s = 1 .. a /\ DOMAIN t = 1 .. b /\ DOMAIN r = 1 .. a + b
          /\ \A i \in 1 .. a + b : r[i] = IF i <= a THEN s[i] ELSE t[i - a]
  <2>1. PICK a \in Nat, b \in Nat : a = Len(s) /\ b = Len(t) /\ DOMAIN s = 1 .. a /\ DOMAIN t = 1 .. b
    OBVIOUS
  <2>2. PICK r \in Seq(Inherited) : r = s \o t
    BY ConcatProperties
  <2>3. Len(r) = a + b /\ \A i \in 1 .. a + b : r[i] = IF i <= a THEN s[i] ELSE t[i - a]
    BY <2>1, <2>2, ConcatProperties
  <2>4. DOMAIN r = 1 .. a + b
    BY <2>3
  <2>. QED
    BY <2>1, <2>2, <2>3, <2>4
<1>2. /\ \A i : i \in Owning(r, k) <=> i \in 1 .. a + b /\ r[i].key = k
      /\ \A i : i \in Owning(s, k) <=> i \in 1 .. a /\ s[i].key = k
      /\ \A i : i \in Owning(t, k) <=> i \in 1 .. b /\ t[i].key = k
  <2>1. ASSUME NEW q \in Seq(Inherited), NEW i
        PROVE  i \in Owning(q, k) <=> i \in DOMAIN q /\ q[i].key = k
    <3>1. MergesOf(q) = {}
      BY DEF MergesOf, Inherited
    <3>. QED
      BY <3>1 DEF Owning
  <2>. QED
    BY <1>1, <2>1
<1>3. \A i \in 1 .. a : i \in 1 .. a + b /\ r[i] = s[i]
  BY <1>1
<1>4. ASSUME NEW i \in 1 .. b
      PROVE  a + i \in 1 .. a + b /\ r[a + i] = t[i]
  <2>1. a + i \in 1 .. a + b /\ ~ a + i <= a /\ a + i - a = i
    OBVIOUS
  <2>. QED
    BY <1>1, <2>1
<1>5. ASSUME NEW i \in 1 .. a + b
      PROVE  i \in 1 .. a \/ \E j \in 1 .. b : i = a + j
  <2>1. i \in 1 .. a \/ (i - a \in 1 .. b /\ i = a + (i - a))
    OBVIOUS
  <2>. QED
    BY <2>1
<1>6. CASE Owning(t, k) # {}
  <2>1. PICK x \in Owning(t, k) : x = Max(Owning(t, k)) /\ \A i \in Owning(t, k) : i <= x
    BY <1>1, <1>2, <1>6, Extremes
  <2>2. x \in 1 .. b /\ t[x].key = k
    BY <1>1, <1>2
  <2>3. a + x \in Owning(r, k) /\ r[a + x] = t[x]
    BY <1>1, <1>2, <1>4, <2>2
  <2>4. ASSUME NEW i \in Owning(r, k)
        PROVE  i <= a + x
    <3>1. i \in 1 .. a + b /\ r[i].key = k
      BY <1>1, <1>2
    <3>2. CASE i \in 1 .. a
      BY <2>2, <3>2
    <3>3. CASE \E j \in 1 .. b : i = a + j
      <4>1. PICK j \in 1 .. b : i = a + j
        BY <3>3
      <4>2. j \in Owning(t, k)
        BY <1>1, <1>2, <1>4, <3>1, <4>1
      <4>3. j <= x
        BY <2>1, <4>2
      <4>. QED
        BY <2>2, <4>1, <4>3
    <3>. QED
      BY <1>5, <3>1, <3>2, <3>3
  <2>5. Owning(r, k) \subseteq 1 .. a + b /\ a + b \in Nat
    BY <1>2
  <2>6. Max(Owning(r, k)) = a + x
    BY <2>3, <2>4, <2>5, TheLast
  <2>7. OwnAt(r, k) = <<t[x].value>> /\ OwnAt(t, k) = <<t[x].value>>
    BY <2>1, <2>3, <2>6 DEF OwnAt
  <2>. QED
    BY <1>1, <2>7, OrLaws DEF Or
<1>7. CASE Owning(t, k) = {}
  <2>1. OwnAt(t, k) = <<>>
    BY <1>7 DEF OwnAt
  <2>2. ASSUME NEW i
        PROVE  i \in Owning(r, k) <=> i \in Owning(s, k)
    <3>1. ASSUME i \in Owning(r, k)
          PROVE  i \in Owning(s, k)
      <4>1. i \in 1 .. a + b /\ r[i].key = k
        BY <1>1, <1>2, <3>1
      <4>2. ~ \E j \in 1 .. b : i = a + j
        BY <1>1, <1>2, <1>4, <1>7, <4>1
      <4>3. i \in 1 .. a
        BY <1>5, <4>1, <4>2
      <4>. QED
        BY <1>1, <1>2, <1>3, <4>1, <4>3
    <3>2. ASSUME i \in Owning(s, k)
          PROVE  i \in Owning(r, k)
      BY <1>1, <1>2, <1>3, <3>2
    <3>. QED
      BY <3>1, <3>2
  <2>3. Owning(r, k) = Owning(s, k)
    BY <2>2
  <2>4. CASE Owning(s, k) = {}
    BY <1>1, <2>1, <2>3, <2>4, OrLaws DEF OwnAt
  <2>5. CASE Owning(s, k) # {}
    <3>1. Max(Owning(s, k)) \in Owning(s, k)
      BY <1>1, <1>2, <2>5, Extremes
    <3>2. r[Max(Owning(s, k))] = s[Max(Owning(s, k))]
      BY <1>1, <1>2, <1>3, <3>1
    <3>3. OwnAt(r, k) = OwnAt(s, k)
      BY <2>3, <3>2 DEF OwnAt
    <3>. QED
      BY <1>1, <2>1, <3>3, OrLaws
  <2>. QED
    BY <2>4, <2>5
<1>. QED
  BY <1>6, <1>7

\* The first of several sources beats the others.
LEMMA FromHead ==
    ASSUME NEW p \in Seq(Values), p # <<>>, NEW k, NEW M
    PROVE  FromAt(p, k, M) = Or(FromAt(Tail(p), k, M), At(M[Head(p)], k))
<1>1. PICK a \in Nat, t \in Seq(Values) :
          /\ t = Tail(p) /\ DOMAIN p = 1 .. a /\ DOMAIN t = 1 .. a - 1 /\ 1 \in 1 .. a
          /\ \A i \in 1 .. a - 1 : t[i] = p[i + 1]
          /\ Head(p) = p[1]
  <2>1. PICK a \in Nat : a = Len(p) /\ DOMAIN p = 1 .. a /\ a # 0
    BY EmptySeq
  <2>2. PICK t \in Seq(Values) : t = Tail(p)
    BY HeadTailProperties
  <2>3. Len(t) = a - 1 /\ \A i \in 1 .. a - 1 : t[i] = p[i + 1]
    BY <2>1, <2>2
  <2>. QED
    BY <2>1, <2>2, <2>3
<1>2. CASE 1 \in Giving(p, k, M)
  <2>1. Giving(p, k, M) \subseteq 1 .. a /\ \A i \in Giving(p, k, M) : 1 <= i
    BY <1>1 DEF Giving
  <2>2. Min(Giving(p, k, M)) = 1
    BY <1>2, <2>1, TheFirst
  <2>3. FromAt(p, k, M) = <<M[p[1]][k]>> /\ At(M[p[1]], k) = <<M[p[1]][k]>>
    BY <1>2, <2>2 DEF FromAt, Giving, At
  <2>. QED
    BY <1>1, <2>3, OrLaws DEF Or
<1>3. CASE 1 \notin Giving(p, k, M)
  <2>1. At(M[Head(p)], k) = <<>>
    BY <1>1, <1>3 DEF Giving, At
  <2>2. ASSUME NEW i \in 1 .. a - 1
        PROVE  i \in Giving(t, k, M) <=> i + 1 \in Giving(p, k, M)
    <3>1. i + 1 \in 1 .. a /\ t[i] = p[i + 1]
      BY <1>1
    <3>. QED
      BY <1>1, <3>1 DEF Giving
  <2>3. ASSUME NEW i \in Giving(p, k, M)
        PROVE  i - 1 \in 1 .. a - 1 /\ i - 1 + 1 = i /\ i - 1 \in Giving(t, k, M)
    <3>1. i \in 1 .. a /\ i # 1
      BY <1>1, <1>3 DEF Giving
    <3>2. i - 1 \in 1 .. a - 1 /\ i - 1 + 1 = i
      BY <3>1
    <3>. QED
      BY <2>2, <3>2
  <2>4. CASE Giving(t, k, M) = {}
    <3>1. Giving(p, k, M) = {}
      BY <2>3, <2>4
    <3>. QED
      BY <1>1, <2>1, <2>4, <3>1, OrLaws DEF FromAt
  <2>5. CASE Giving(t, k, M) # {}
    <3>1. a - 1 \in Nat /\ Giving(t, k, M) \subseteq 1 .. a - 1 /\ Giving(p, k, M) \subseteq 1 .. a
      BY <1>1 DEF Giving
    <3>2. PICK x \in Giving(t, k, M) : x = Min(Giving(t, k, M)) /\ \A i \in Giving(t, k, M) : x <= i
      BY <2>5, <3>1, Extremes
    <3>3. x \in 1 .. a - 1
      BY <3>1
    <3>4. x + 1 \in Giving(p, k, M) /\ t[x] = p[x + 1]
      BY <1>1, <2>2, <3>3
    <3>5. ASSUME NEW i \in Giving(p, k, M)
          PROVE  x + 1 <= i
      <4>1. x <= i - 1 /\ i \in 1 .. a
        BY <2>3, <3>1, <3>2
      <4>. QED
        BY <3>3, <4>1
    <3>6. Min(Giving(p, k, M)) = x + 1
      BY <3>1, <3>4, <3>5, TheFirst
    <3>7. FromAt(p, k, M) = FromAt(t, k, M)
      BY <3>2, <3>4, <3>6 DEF FromAt
    <3>. QED
      BY <1>1, <2>1, <3>7, OrLaws
  <2>. QED
    BY <2>4, <2>5
<1>. QED
  BY <1>2, <1>3

\* Nothing gives nothing.
LEMMA NothingGives ==
    ASSUME NEW k, NEW M
    PROVE  OwnAt(<<>>, k) = <<>> /\ FromAt(<<>>, k, M) = <<>>
<1>1. DOMAIN <<>> = {}
  OBVIOUS
<1>. QED
  BY <1>1 DEF OwnAt, Owning, FromAt, Giving

\* A mapping without `<<` means what it holds.
LEMMA FlatMeans ==
    ASSUME NEW s, MergesOf(s) = {}, NEW k, NEW M
    PROVE  MeansAt(s, k, M) = OwnAt(s, k)
  BY OrLaws DEF MeansAt, MergedAt, Merging

\* Taking the first `<<` out of a mapping: what is left beats its sources.
LEMMA FirstMerge ==
    ASSUME NEW s \in Seq(Entries), NEW i \in MergesOf(s), \A j \in MergesOf(s) : i <= j,
           NEW k, NEW M
    PROVE  MeansAt(s, k, M) = Or(FromAt(s[i].from, k, M), MeansAt(RemoveAt(s, i), k, M))
<1>1. PICK a \in Nat, r \in Seq(Entries) :
          /\ r = RemoveAt(s, i) /\ DOMAIN s = 1 .. a /\ DOMAIN r = 1 .. a - 1 /\ i \in 1 .. a
          /\ \A j \in 1 .. a - 1 : r[j] = s[IF j < i THEN j ELSE j + 1]
  <2>1. PICK a \in Nat : a = Len(s) /\ DOMAIN s = 1 .. a
    OBVIOUS
  <2>2. i \in DOMAIN s
    BY DEF MergesOf
  <2>3. PICK r \in Seq(Entries) : r = RemoveAt(s, i)
    BY <2>2, RemoveAtIndices
  <2>4. Len(r) = a - 1 /\ \A j \in 1 .. a - 1 : r[j] = s[IF j < i THEN j ELSE j + 1]
    BY <2>1, <2>2, <2>3, RemoveAtIndices
  <2>. QED
    BY <2>1, <2>2, <2>3, <2>4
<1>2. PICK place \in [1 .. a - 1 -> 1 .. a] :
          /\ \A j \in 1 .. a - 1 : place[j] # i /\ r[j] = s[place[j]]
          /\ \A j, l \in 1 .. a - 1 : j <= l => place[j] <= place[l]
          /\ \A m \in 1 .. a : m # i => \E j \in 1 .. a - 1 : place[j] = m
  <2>1. PICK place : place = [j \in 1 .. a - 1 |-> IF j < i THEN j ELSE j + 1]
    OBVIOUS
  <2>2. ASSUME NEW j \in 1 .. a - 1
        PROVE  place[j] \in 1 .. a /\ place[j] # i /\ r[j] = s[place[j]]
    BY <1>1, <2>1
  <2>3. place \in [1 .. a - 1 -> 1 .. a]
    BY <2>1, <2>2
  <2>4. ASSUME NEW j \in 1 .. a - 1, NEW l \in 1 .. a - 1, j <= l
        PROVE  place[j] <= place[l]
    BY <1>1, <2>1, <2>4
  <2>5. ASSUME NEW m \in 1 .. a, m # i
        PROVE  \E j \in 1 .. a - 1 : place[j] = m
    <3>1. CASE m < i
      <4>1. m \in 1 .. a - 1 /\ place[m] = m
        BY <1>1, <2>1, <3>1
      <4>. QED
        BY <4>1
    <3>2. CASE m > i
      <4>1. m - 1 \in 1 .. a - 1 /\ ~ m - 1 < i /\ m - 1 + 1 = m
        BY <1>1, <3>2
      <4>2. place[m - 1] = m
        BY <2>1, <4>1
      <4>. QED
        BY <4>1, <4>2
    <3>. QED
      BY <1>1, <2>5, <3>1, <3>2
  <2>. QED
    BY <2>2, <2>3, <2>4, <2>5
<1>3. ASSUME NEW j \in 1 .. a - 1
      PROVE  /\ j \in Owning(r, k) <=> place[j] \in Owning(s, k)
             /\ j \in Merging(r, k, M) <=> place[j] \in Merging(s, k, M)
             /\ j \in MergesOf(r) <=> place[j] \in MergesOf(s)
  <2>1. place[j] \in DOMAIN s /\ j \in DOMAIN r /\ r[j] = s[place[j]]
    BY <1>1, <1>2
  <2>. QED
    BY <2>1 DEF Owning, Merging, MergesOf
<1>4. /\ Owning(r, k) \subseteq 1 .. a - 1 /\ Merging(r, k, M) \subseteq 1 .. a - 1
      /\ Owning(s, k) \subseteq 1 .. a /\ Merging(s, k, M) \subseteq 1 .. a
      /\ i \notin Owning(s, k) /\ a - 1 \in Nat
  <2>1. DOMAIN r = 1 .. a - 1 /\ DOMAIN s = 1 .. a /\ a - 1 \in Nat
    BY <1>1
  <2>. QED
    BY <1>1, <2>1 DEF Owning, Merging, MergesOf
<1>5. OwnAt(s, k) = OwnAt(r, k)
  <2>1. CASE Owning(r, k) = {}
    <3>1. ASSUME NEW m \in Owning(s, k)
          PROVE  FALSE
      <4>1. m \in 1 .. a /\ m # i
        BY <1>4
      <4>2. PICK j \in 1 .. a - 1 : place[j] = m
        BY <1>2, <4>1
      <4>. QED
        BY <1>3, <2>1, <4>2
    <3>. QED
      BY <2>1, <3>1 DEF OwnAt
  <2>2. CASE Owning(r, k) # {}
    <3>1. PICK x \in Owning(r, k) : x = Max(Owning(r, k)) /\ \A j \in Owning(r, k) : j <= x
      BY <1>4, <2>2, Extremes
    <3>2. x \in 1 .. a - 1 /\ place[x] \in Owning(s, k) /\ r[x] = s[place[x]]
      BY <1>2, <1>3, <1>4
    <3>3. ASSUME NEW m \in Owning(s, k)
          PROVE  m <= place[x]
      <4>1. PICK j \in 1 .. a - 1 : place[j] = m
        BY <1>2, <1>4
      <4>2. j <= x
        BY <1>3, <3>1, <4>1
      <4>. QED
        BY <1>2, <3>2, <4>1, <4>2
    <3>4. Max(Owning(s, k)) = place[x]
      BY <1>4, <3>2, <3>3, TheLast
    <3>. QED
      BY <2>2, <3>1, <3>2, <3>4 DEF OwnAt
  <2>. QED
    BY <2>1, <2>2
<1>6. CASE Merging(r, k, M) = {}
  <2>1. ASSUME NEW m \in Merging(s, k, M)
        PROVE  m = i
    BY <1>2, <1>3, <1>4, <1>6
  <2>2. MergedAt(r, k, M) = <<>>
    BY <1>6 DEF MergedAt
  <2>3. CASE i \in Merging(s, k, M)
    <3>1. Max(Merging(s, k, M)) = i
      <4>1. i \in Int
        BY <1>1
      <4>. QED
        BY <1>4, <2>1, <2>3, <4>1, TheLast
    <3>. QED
      BY <1>1, <1>5, <2>2, <2>3, <3>1, OrLaws DEF MeansAt, MergedAt
  <2>4. CASE i \notin Merging(s, k, M)
    <3>1. Merging(s, k, M) = {}
      BY <2>1, <2>4
    <3>2. FromAt(s[i].from, k, M) = <<>>
      BY <2>4 DEF Merging, FromAt
    <3>. QED
      BY <1>1, <1>5, <2>2, <3>1, <3>2, OrLaws DEF MeansAt, MergedAt
  <2>. QED
    BY <2>3, <2>4
<1>7. CASE Merging(r, k, M) # {}
  <2>1. PICK x \in Merging(r, k, M) :
            x = Max(Merging(r, k, M)) /\ \A j \in Merging(r, k, M) : j <= x
    BY <1>4, <1>7, Extremes
  <2>2. x \in 1 .. a - 1 /\ place[x] \in Merging(s, k, M) /\ r[x] = s[place[x]]
    BY <1>2, <1>3, <1>4
  <2>3. i <= place[x]
    BY <2>2 DEF Merging
  <2>4. ASSUME NEW m \in Merging(s, k, M)
        PROVE  m <= place[x]
    <3>1. CASE m = i
      BY <2>3, <3>1
    <3>2. CASE m # i
      <4>1. PICK j \in 1 .. a - 1 : place[j] = m
        BY <1>2, <1>4, <3>2
      <4>2. j <= x
        BY <1>3, <2>1, <4>1
      <4>. QED
        BY <1>2, <2>2, <4>1, <4>2
    <3>. QED
      BY <3>1, <3>2
  <2>5. Max(Merging(s, k, M)) = place[x]
    BY <1>4, <2>2, <2>4, TheLast
  <2>6. MergedAt(s, k, M) = MergedAt(r, k, M)
    BY <1>7, <2>1, <2>2, <2>5 DEF MergedAt
  <2>7. MergedAt(r, k, M) # <<>>
    <3>1. MergedAt(r, k, M) = FromAt(r[x].from, k, M)
      BY <1>7, <2>1 DEF MergedAt
    <3>2. Giving(r[x].from, k, M) # {}
      BY <2>1 DEF Merging
    <3>. QED
      BY <3>1, <3>2, FromNone
  <2>8. Or(FromAt(s[i].from, k, M), MergedAt(r, k, M)) = MergedAt(r, k, M)
    BY <2>7 DEF Or
  <2>. QED
    BY <1>1, <1>5, <2>6, <2>8, OrLaws DEF MeansAt
<1>. QED
  BY <1>6, <1>7

-----------------------------------------------------------------------------
(* A document without merges that go round has a meaning *)

\* What two dictionaries give for each key tells them apart.
LEMMA SameDict ==
    ASSUME NEW f, NEW g,
           f = [k \in DOMAIN f |-> f[k]], g = [k \in DOMAIN g |-> g[k]],
           DOMAIN f \subseteq Keys, DOMAIN g \subseteq Keys,
           \A k \in Keys : At(f, k) = At(g, k)
    PROVE  f = g
<1>1. ASSUME NEW k \in Keys
      PROVE  /\ k \in DOMAIN f <=> k \in DOMAIN g
             /\ k \in DOMAIN f => f[k] = g[k]
  BY OrLaws DEF At
<1>2. DOMAIN f = DOMAIN g
  BY <1>1
<1>. QED
  BY <1>1, <1>2

LEMMA DenotesDict ==
    ASSUME NEW s, NEW M
    PROVE  Denotes(s, M) = [k \in DOMAIN Denotes(s, M) |-> Denotes(s, M)[k]]
  BY DEF Denotes

\* A meaning depends on those of the sources only.
LEMMA DenotesReads ==
    ASSUME NEW s \in Seq(Entries), NEW f, NEW g,
           \A i \in MergesOf(s) : \A m \in ToSet(s[i].from) : f[m] = g[m]
    PROVE  Denotes(s, f) = Denotes(s, g)
<1>1. ASSUME NEW k \in Keys, NEW i \in MergesOf(s)
      PROVE  FromAt(s[i].from, k, f) = FromAt(s[i].from, k, g)
  <2>1. PICK p \in Seq(Values) : p = s[i].from
    <3>1. s[i] \in Entries
      BY DEF MergesOf
    <3>. QED
      BY <3>1 DEF Entries
  <2>2. DOMAIN p = 1 .. Len(p) /\ Len(p) \in Nat
    OBVIOUS
  <2>3. \A j \in DOMAIN p : f[p[j]] = g[p[j]]
    BY <2>1 DEF ToSet
  <2>4. Giving(p, k, f) = Giving(p, k, g)
    BY <2>3 DEF Giving
  <2>5. CASE Giving(p, k, f) = {}
    BY <2>1, <2>4, <2>5 DEF FromAt
  <2>6. CASE Giving(p, k, f) # {}
    <3>1. Giving(p, k, f) \subseteq 1 .. Len(p)
      BY <2>2 DEF Giving
    <3>2. Min(Giving(p, k, f)) \in DOMAIN p
      BY <2>2, <2>6, <3>1, Extremes
    <3>. QED
      BY <2>1, <2>3, <2>4, <3>2 DEF FromAt
  <2>. QED
    BY <2>5, <2>6
<1>2. ASSUME NEW k \in Keys
      PROVE  MeansAt(s, k, f) = MeansAt(s, k, g)
  <2>1. ASSUME NEW i \in MergesOf(s)
        PROVE  Giving(s[i].from, k, f) = {} <=> Giving(s[i].from, k, g) = {}
    BY <1>1, FromNone
  <2>2. Merging(s, k, f) = Merging(s, k, g)
    BY <2>1 DEF Merging
  <2>3. CASE Merging(s, k, f) = {}
    BY <2>2, <2>3 DEF MeansAt, MergedAt
  <2>4. CASE Merging(s, k, f) # {}
    <3>1. Merging(s, k, f) \subseteq 1 .. Len(s) /\ Len(s) \in Nat
      <4>1. DOMAIN s = 1 .. Len(s) /\ Len(s) \in Nat
        OBVIOUS
      <4>2. Merging(s, k, f) \subseteq DOMAIN s
        BY DEF Merging, MergesOf
      <4>. QED
        BY <4>1, <4>2
    <3>2. Max(Merging(s, k, f)) \in MergesOf(s)
      <4>1. Max(Merging(s, k, f)) \in Merging(s, k, f)
        BY <2>4, <3>1, Extremes
      <4>. QED
        BY <4>1 DEF Merging
    <3>. QED
      BY <1>1, <2>2, <3>2 DEF MeansAt, MergedAt
  <2>. QED
    BY <2>3, <2>4
<1>3. \A k \in Keys : At(Denotes(s, f), k) = At(Denotes(s, g), k)
  BY <1>2, DenotesAt
<1>4. DOMAIN Denotes(s, f) \subseteq Keys /\ DOMAIN Denotes(s, g) \subseteq Keys
  BY DenotesAt
<1>. QED
  BY <1>3, <1>4, DenotesDict, SameDict

\* No set of mappings of which each merges one of the set.
Straight(document) ==
    \A S \in SUBSET Nodes :
        S # {} => \E n \in S : \A i \in MergesOf(document[n]) :
                      ToSet(document[n][i].from) \cap S = {}

\* The meanings f of the mappings T, of which none merges another one.
SolvesOn(T, document, f) ==
    /\ T \subseteq Nodes
    /\ f = [n \in T |-> Denotes(document[n], f)]
    /\ \A n \in T : \A i \in MergesOf(document[n]) : ToSet(document[n][i].from) \subseteq T

\* Two such meanings of one mapping are the same.
LEMMA SolutionsAgree ==
    ASSUME NEW w \in [Nodes -> Seq(Entries)], Straight(w),
           NEW T, NEW f, SolvesOn(T, w, f), NEW U, NEW g, SolvesOn(U, w, g)
    PROVE  \A n \in T \cap U : f[n] = g[n]
<1>. DEFINE B == {n \in T \cap U : f[n] # g[n]}
<1>1. SUFFICES ASSUME B # {} PROVE FALSE
  OBVIOUS
<1>2. B \subseteq Nodes
  BY DEF SolvesOn
<1>3. PICK n \in B : \A i \in MergesOf(w[n]) : ToSet(w[n][i].from) \cap B = {}
  BY <1>1, <1>2 DEF Straight
<1>4. n \in Nodes /\ w[n] \in Seq(Entries) /\ n \in T /\ n \in U /\ f[n] # g[n]
  BY <1>2
<1>5. \A i \in MergesOf(w[n]) : \A m \in ToSet(w[n][i].from) : m \in T /\ m \in U
  BY <1>4 DEF SolvesOn
<1>6. \A i \in MergesOf(w[n]) : \A m \in ToSet(w[n][i].from) : f[m] = g[m]
  BY <1>3, <1>5
<1>7. Denotes(w[n], f) = Denotes(w[n], g)
  BY <1>4, <1>6, DenotesReads
<1>8. f[n] = Denotes(w[n], f) /\ g[n] = Denotes(w[n], g)
  BY <1>4, Zenon DEF SolvesOn
<1>. QED
  BY <1>4, <1>7, <1>8

\* The union of all such meanings is one, and no mapping can be outside it.
LEMMA SolutionExists ==
    ASSUME NEW w \in [Nodes -> Seq(Entries)], Straight(w),
           \A n \in Nodes : \A i \in MergesOf(w[n]) : ToSet(w[n][i].from) \subseteq Nodes
    PROVE  \E f : SolvesOn(Nodes, w, f)
<1>. DEFINE U == {n \in Nodes : \E T, f : SolvesOn(T, w, f) /\ n \in T}
            F(n) == CHOOSE f : \E T : SolvesOn(T, w, f) /\ n \in T
<1>1. PICK g : g = [n \in U |-> F(n)[n]]
  OBVIOUS
<1>2. ASSUME NEW T, NEW f, SolvesOn(T, w, f), NEW n \in T
      PROVE  n \in U /\ g[n] = f[n]
  <2>1. n \in Nodes /\ n \in U
    BY <1>2 DEF SolvesOn
  <2>2. PICK V : SolvesOn(V, w, F(n)) /\ n \in V
    BY <1>2, Zenon
  <2>3. F(n)[n] = f[n]
    BY <1>2, <2>2, SolutionsAgree
  <2>. QED
    BY <1>1, <2>1, <2>3
<1>3. ASSUME NEW n \in U
      PROVE  /\ \A i \in MergesOf(w[n]) : ToSet(w[n][i].from) \subseteq U
             /\ g[n] = Denotes(w[n], g)
  <2>1. PICK T, f : SolvesOn(T, w, f) /\ n \in T
    OBVIOUS
  <2>2. \A i \in MergesOf(w[n]) : \A m \in ToSet(w[n][i].from) : m \in T
    BY <2>1 DEF SolvesOn
  <2>3. \A i \in MergesOf(w[n]) : \A m \in ToSet(w[n][i].from) : m \in U /\ g[m] = f[m]
    BY <1>2, <2>1, <2>2
  <2>4. w[n] \in Seq(Entries)
    OBVIOUS
  <2>5. Denotes(w[n], f) = Denotes(w[n], g)
    BY <2>3, <2>4, DenotesReads
  <2>6. g[n] = f[n] /\ f[n] = Denotes(w[n], f)
    <3>1. f[n] = Denotes(w[n], f)
      BY <2>1, Zenon DEF SolvesOn
    <3>. QED
      BY <1>2, <2>1, <3>1
  <2>. QED
    BY <2>3, <2>5, <2>6
<1>4. SolvesOn(U, w, g)
  <2>1. g = [n \in U |-> Denotes(w[n], g)]
    BY <1>1, <1>3
  <2>. QED
    BY <1>3, <2>1 DEF SolvesOn
<1>5. ASSUME Nodes \ U # {}
      PROVE  FALSE
  <2>1. PICK n \in Nodes \ U : \A i \in MergesOf(w[n]) : ToSet(w[n][i].from) \cap (Nodes \ U) = {}
    BY <1>5 DEF Straight
  <2>2. \A i \in MergesOf(w[n]) : ToSet(w[n][i].from) \subseteq U
    BY <2>1
  <2>3. PICK h : h = [m \in U \cup {n} |-> IF m = n THEN Denotes(w[n], g) ELSE g[m]]
    OBVIOUS
  <2>4. ASSUME NEW m \in U \cup {n}
        PROVE  /\ \A i \in MergesOf(w[m]) : ToSet(w[m][i].from) \subseteq U
               /\ h[m] = Denotes(w[m], g)
    BY <1>3, <2>2, <2>3
  <2>5. ASSUME NEW m \in U \cup {n}
        PROVE  h[m] = Denotes(w[m], h)
    <3>1. w[m] \in Seq(Entries)
      OBVIOUS
    <3>2. \A x \in U : g[x] = h[x]
      BY <2>1, <2>3
    <3>3. \A i \in MergesOf(w[m]) : \A x \in ToSet(w[m][i].from) : g[x] = h[x]
      BY <2>4, <3>2
    <3>4. Denotes(w[m], g) = Denotes(w[m], h)
      BY <3>1, <3>3, DenotesReads
    <3>. QED
      BY <2>4, <3>4
  <2>6. SolvesOn(U \cup {n}, w, h)
    <3>1. h = [m \in U \cup {n} |-> Denotes(w[m], h)]
      BY <2>3, <2>5
    <3>2. \A m \in U \cup {n} : \A i \in MergesOf(w[m]) : ToSet(w[m][i].from) \subseteq U \cup {n}
      BY <2>4
    <3>. QED
      BY <3>1, <3>2, Zenon DEF SolvesOn
  <2>. QED
    BY <1>2, <2>1, <2>6
<1>6. U = Nodes
  BY <1>5
<1>. QED
  BY <1>4, <1>6

-----------------------------------------------------------------------------
(* The stack *)

\* What flattening has gathered of a mapping, as far as a key is concerned.
Gathered(f, k, M) ==
    Or(OwnAt(f.merge, k), Or(FromAt(f.pending, k, M), OwnAt(f.sub, k)))

\* A source that has been flattened leaves with its caller what it means.
LEMMA InheritingGathers ==
    ASSUME NEW f \in Frames, f.pending # <<>>, NEW e \in Seq(Inherited), NEW k, NEW M,
           At(M[Head(f.pending)], k) = OwnAt(e, k)
    PROVE  Gathered(Inheriting(f, e), k, M) = Gathered(f, k, M)
<1>1. /\ f.pending \in Seq(Values) /\ f.sub \in Seq(Inherited) /\ f.merge \in Seq(Inherited)
  BY DEF Frames
<1>2. PICK sub \in Seq(Inherited) :
          sub = e \o f.sub /\ OwnAt(sub, k) = Or(OwnAt(e, k), OwnAt(f.sub, k))
  <2>1. PICK a \in Seq(Inherited) : a = f.sub
    BY <1>1
  <2>2. e \o a \in Seq(Inherited) /\ OwnAt(e \o a, k) = Or(OwnAt(e, k), OwnAt(a, k))
    BY OwnConcat, ConcatProperties
  <2>. QED
    BY <2>1, <2>2
<1>3. FromAt(f.pending, k, M) = Or(FromAt(Tail(f.pending), k, M), OwnAt(e, k))
  <2>1. PICK p \in Seq(Values) : p = f.pending /\ p # <<>>
    BY <1>1
  <2>2. FromAt(p, k, M) = Or(FromAt(Tail(p), k, M), At(M[Head(p)], k))
    BY <2>1, FromHead
  <2>. QED
    BY <2>1, <2>2
<1>4. CASE Len(f.pending) = 1
  <2>1. Inheriting(f, e) = [f EXCEPT !.pending = <<>>, !.sub = <<>>, !.merge = f.merge \o sub]
    BY <1>2, <1>4 DEF Inheriting
  <2>2. /\ Inheriting(f, e).pending = <<>> /\ Inheriting(f, e).sub = <<>>
        /\ Inheriting(f, e).merge = f.merge \o sub
    BY <2>1 DEF Frames
  <2>3. OwnAt(f.merge \o sub, k) = Or(OwnAt(f.merge, k), OwnAt(sub, k))
    BY <1>1, OwnConcat
  <2>4. Gathered(Inheriting(f, e), k, M) = Or(OwnAt(f.merge, k), OwnAt(sub, k))
    BY <2>2, <2>3, NothingGives, OrLaws DEF Gathered
  <2>5. Tail(f.pending) = <<>>
    <3>1. PICK t \in Seq(Values) : t = Tail(f.pending) /\ Len(t) = 1 - 1
      BY <1>1, <1>4, HeadTailProperties
    <3>2. Len(t) = 0
      BY <3>1
    <3>. QED
      BY <3>1, <3>2, EmptySeq
  <2>6. FromAt(f.pending, k, M) = OwnAt(e, k)
    BY <1>3, <2>5, NothingGives, OrLaws, ZenonT(60)
  <2>. QED
    BY <1>2, <2>4, <2>6 DEF Gathered
<1>5. CASE Len(f.pending) # 1
  <2>1. Inheriting(f, e) = [f EXCEPT !.pending = Tail(f.pending), !.sub = sub]
    BY <1>2, <1>5 DEF Inheriting
  <2>2. /\ Inheriting(f, e).pending = Tail(f.pending) /\ Inheriting(f, e).sub = sub
        /\ Inheriting(f, e).merge = f.merge
    BY <2>1 DEF Frames
  <2>3. Or(FromAt(Tail(f.pending), k, M), Or(OwnAt(e, k), OwnAt(f.sub, k)))
            = Or(FromAt(f.pending, k, M), OwnAt(f.sub, k))
    BY <1>3, OrLaws
  <2>. QED
    BY <1>2, <2>2, <2>3 DEF Gathered
<1>. QED
  BY <1>4, <1>5

\* The stack after each step.
LEMMA FlattenStack ==
    ASSUME Inv, NEW n \in Nodes, NEW visited, Flatten(n, visited)
    PROVE  \/ calls' = calls
           \/ /\ DOMAIN calls' = 1 .. Len(calls) + 1
              /\ calls'[1] = Frame(n) /\ Frame(n) \in Frames
              /\ \A d \in DOMAIN calls' : d = 1 \/ (d - 1 \in DOMAIN calls /\ calls'[d] = calls[d - 1])
              /\ \A c \in DOMAIN calls : c + 1 \in DOMAIN calls' /\ calls'[c + 1] = calls[c]
<1>. SUFFICES ASSUME ~ Refused(visited)
              PROVE  /\ DOMAIN calls' = 1 .. Len(calls) + 1
                     /\ calls'[1] = Frame(n) /\ Frame(n) \in Frames
                     /\ \A d \in DOMAIN calls' : d = 1 \/ (d - 1 \in DOMAIN calls /\ calls'[d] = calls[d - 1])
                     /\ \A c \in DOMAIN calls : c + 1 \in DOMAIN calls' /\ calls'[c + 1] = calls[c]
  BY DEF Flatten
<1>1. calls' = <<Frame(n)>> \o calls /\ calls \in Seq(Frames)
  BY DEF Flatten, Inv, CallsOK
<1>2. Frame(n) \in Frames
  BY DEF Frame, Frames
<1>3. /\ DOMAIN calls' = 1 .. Len(calls) + 1
      /\ calls'[1] = Frame(n)
      /\ \A c \in DOMAIN calls : calls'[c + 1] = calls[c]
  BY <1>1, <1>2, Pushed
<1>4. \A c \in DOMAIN calls : c + 1 \in DOMAIN calls'
  BY <1>1, <1>3
<1>5. ASSUME NEW d \in DOMAIN calls', d # 1
      PROVE  d - 1 \in DOMAIN calls /\ calls'[d] = calls[d - 1]
  <2>1. d - 1 \in DOMAIN calls /\ d - 1 + 1 = d
    BY <1>1, <1>3, <1>5
  <2>. QED
    BY <1>3, <2>1
<1>. QED
  BY <1>2, <1>3, <1>4, <1>5

LEMMA TakeMergeStack ==
    ASSUME Inv, NothingLost, TakeMerge
    PROVE  \E t \in Frames, i \in MergesOf(value[calls[1].node]) :
              /\ 1 \in DOMAIN calls /\ t = calls[1]
              /\ t.node \in Nodes /\ t.pending = <<>> /\ t.sub = <<>>
              /\ \A j \in MergesOf(value[t.node]) : i <= j
              /\ value[t.node] \in Seq(Entries)
              /\ value'[t.node] = RemoveAt(value[t.node], i)
              /\ \A m \in Nodes : m # t.node => value'[m] = value[m]
              /\ DOMAIN calls' = DOMAIN calls
              /\ calls'[1].node = t.node /\ calls'[1].merge = t.merge /\ calls'[1].sub = <<>>
              /\ calls'[1].pending = value[t.node][i].from
              /\ \A c \in DOMAIN calls : c # 1 => calls'[c] = calls[c]
<1>1. PICK i \in MergesOf(value[Top.node]) :
          /\ \A j \in MergesOf(value[Top.node]) : i <= j
          /\ calls' = [calls EXCEPT ![1].pending = value[Top.node][i].from]
          /\ value' = [value EXCEPT ![Top.node] = RemoveAt(@, i)]
  BY DEF TakeMerge
<1>2. calls # <<>> /\ Top.pending = <<>> /\ calls \in Seq(Frames)
  BY DEF TakeMerge, Inv, CallsOK
<1>3. PICK t \in Frames : t = calls[1] /\ t = Top
  BY <1>2 DEF Top
<1>4. 1 \in DOMAIN calls /\ t.node \in Nodes /\ t.pending = <<>> /\ value[t.node] \in Seq(Entries)
  <2>1. t.node \in Nodes
    BY DEF Frames
  <2>. QED
    BY <1>2, <1>3, <2>1 DEF Inv, TypeOK
<1>5. t.sub = <<>>
  BY <1>3, <1>4 DEF NothingLost
<1>6. /\ value'[t.node] = RemoveAt(value[t.node], i)
      /\ \A m \in Nodes : m # t.node => value'[m] = value[m]
  BY <1>1, <1>3, <1>4 DEF Inv, TypeOK
<1>7. /\ DOMAIN calls' = DOMAIN calls
      /\ calls'[1] = [t EXCEPT !.pending = value[t.node][i].from]
      /\ \A c \in DOMAIN calls : c # 1 => calls'[c] = calls[c]
  BY <1>1, <1>2, <1>3, <1>4
<1>8. /\ calls'[1].node = t.node /\ calls'[1].merge = t.merge /\ calls'[1].sub = t.sub
      /\ calls'[1].pending = value[t.node][i].from
  BY <1>7 DEF Frames
<1>9. i \in MergesOf(value[calls[1].node]) /\ \A j \in MergesOf(value[t.node]) : i <= j
  BY <1>1, <1>3
<1>. QED
  BY <1>3, <1>4, <1>5, <1>6, <1>7, <1>8, <1>9

LEMMA ReturnStack ==
    ASSUME Inv, NothingLost, Return
    PROVE  \E t \in Frames, flat \in Seq(Inherited) :
              /\ 1 \in DOMAIN calls /\ t = calls[1]
              /\ t.node \in Nodes /\ t.pending = <<>> /\ t.sub = <<>>
              /\ value[t.node] \in Seq(Inherited) /\ flat = t.merge \o value[t.node]
              /\ value'[t.node] = flat
              /\ \A m \in Nodes : m # t.node => value'[m] = value[m]
              /\ \A d \in DOMAIN calls' :
                    /\ d + 1 \in DOMAIN calls /\ calls'[d].node = calls[d + 1].node
                    /\ \/ d = 1 /\ \E f \in Frames :
                              /\ f = calls[2] /\ calls'[d] = Inheriting(f, flat)
                              /\ f.pending # <<>> /\ Head(f.pending) = t.node
                       \/ calls'[d] = calls[d + 1]
              /\ \A c \in DOMAIN calls : c # 1 => c - 1 \in DOMAIN calls' /\ c - 1 + 1 = c
              /\ \/ data' = data
                 \/ data' = [n \in DOMAIN data \cup {t.node} |->
                                IF n = t.node THEN Dict(flat) ELSE data[n]]
<1>1. /\ calls # <<>> /\ Top.pending = <<>> /\ MergesOf(value[Top.node]) = {}
      /\ calls \in Seq(Frames)
  BY DEF Return, Inv, CallsOK
<1>2. PICK t \in Frames : t = calls[1] /\ t = Top
  BY <1>1 DEF Top
<1>3. /\ 1 \in DOMAIN calls /\ t.node \in Nodes /\ t.pending = <<>> /\ t.sub = <<>>
      /\ value[t.node] \in Seq(Entries) /\ t.merge \in Seq(Inherited)
  <2>1. t.node \in Nodes /\ t.merge \in Seq(Inherited)
    BY DEF Frames
  <2>2. 1 \in DOMAIN calls
    BY <1>1
  <2>3. t.pending = <<>> /\ t.sub = <<>>
    BY <1>1, <1>2, <2>2 DEF NothingLost
  <2>. QED
    BY <1>2, <2>1, <2>2, <2>3 DEF Inv, TypeOK
<1>4. value[t.node] \in Seq(Inherited)
  <2>1. \A i \in DOMAIN value[t.node] : value[t.node][i] \in Inherited
    BY <1>1, <1>2, <1>3 DEF MergesOf, Inherited
  <2>. QED
    BY <1>3, <2>1
<1>5. PICK flat \in Seq(Inherited) : flat = t.merge \o value[t.node]
  BY <1>3, <1>4, ConcatProperties
<1>6. /\ value' = [value EXCEPT ![t.node] = flat]
      /\ \/ /\ Len(calls) > 1
            /\ calls' = <<Inheriting(calls[2], flat)>> \o Tail(Tail(calls))
            /\ data' = data
         \/ /\ Len(calls) = 1
            /\ calls' = <<>>
            /\ data' = [n \in DOMAIN data \cup {t.node} |->
                            IF n = t.node THEN Dict(flat) ELSE data[n]]
  BY <1>2, <1>5, ZenonT(60) DEF Return
<1>7. /\ value'[t.node] = flat
      /\ \A m \in Nodes : m # t.node => value'[m] = value[m]
  BY <1>3, <1>6 DEF Inv, TypeOK
<1>8. SUFFICES /\ \A d \in DOMAIN calls' :
                    /\ d + 1 \in DOMAIN calls /\ calls'[d].node = calls[d + 1].node
                    /\ \/ d = 1 /\ \E f \in Frames :
                              /\ f = calls[2] /\ calls'[d] = Inheriting(f, flat)
                              /\ f.pending # <<>> /\ Head(f.pending) = t.node
                       \/ calls'[d] = calls[d + 1]
               /\ \A c \in DOMAIN calls : c # 1 => c - 1 \in DOMAIN calls' /\ c - 1 + 1 = c
  BY <1>2, <1>3, <1>4, <1>5, <1>6, <1>7
<1>9. CASE Len(calls) = 1
  <2>1. DOMAIN calls = {1} /\ calls' = <<>>
    BY <1>1, <1>6, <1>9
  <2>. QED
    BY <2>1
<1>10. CASE Len(calls) > 1
  <2>1. PICK k \in Nat, q \in Seq(Frames) :
            k = Len(calls) /\ q = calls /\ k > 1 /\ DOMAIN calls = 1 .. k /\ Len(calls) # 1
    <3>1. PICK k \in Nat : k = Len(calls) /\ DOMAIN calls = 1 .. k
      BY <1>1
    <3>2. k > 1 /\ k # 1
      BY <1>10, <3>1
    <3>. QED
      BY <1>1, <3>1, <3>2
  <2>2. 2 \in DOMAIN calls /\ 2 - 1 = 1 /\ 2 > 1
    BY <2>1
  <2>3. PICK f \in Frames : f = calls[2]
    BY <1>1, <2>2
  <2>4. f.pending # <<>> /\ Head(f.pending) = t.node
    BY <1>2, <2>2, <2>3 DEF Inv, CallsOK, NothingLost
  <2>5. PICK g : g = Inheriting(f, flat)
    OBVIOUS
  <2>6. g \in Frames /\ g.node = f.node
    BY <2>4, <2>5, InheritingFrames
  <2>7. /\ calls' \in Seq(Frames) /\ Len(calls') = k - 1
        /\ calls'[1] = g
        /\ \A c \in 2 .. k - 1 : calls'[c] = q[c + 1]
    <3>1. calls' = <<g>> \o Tail(Tail(q))
      BY <1>6, <2>1, <2>3, <2>5
    <3>. QED
      BY <2>1, <2>6, <3>1, CallerContinues
  <2>8. DOMAIN calls' = 1 .. k - 1
    BY <2>1, <2>7
  <2>9. ASSUME NEW d \in DOMAIN calls'
        PROVE  /\ d + 1 \in DOMAIN calls /\ calls'[d].node = calls[d + 1].node
               /\ \/ d = 1 /\ \E h \in Frames :
                         /\ h = calls[2] /\ calls'[d] = Inheriting(h, flat)
                         /\ h.pending # <<>> /\ Head(h.pending) = t.node
                  \/ calls'[d] = calls[d + 1]
    <3>1. d + 1 \in DOMAIN calls
      BY <2>1, <2>8
    <3>2. CASE d = 1
      <4>1. d + 1 = 2
        BY <3>2
      <4>. QED
        BY <2>3, <2>4, <2>5, <2>6, <2>7, <3>1, <3>2, <4>1
    <3>3. CASE d # 1
      <4>1. d \in 2 .. k - 1
        BY <2>1, <2>8, <3>3
      <4>. QED
        BY <2>1, <2>7, <3>1, <4>1
    <3>. QED
      BY <3>2, <3>3
  <2>10. \A c \in DOMAIN calls : c # 1 => c - 1 \in DOMAIN calls' /\ c - 1 + 1 = c
    BY <2>1, <2>8
  <2>. QED
    BY <2>9, <2>10
<1>. QED
  BY <1>6, <1>9, <1>10

-----------------------------------------------------------------------------
(* No mapping is flattened while it is being flattened. *)

\* One mapping merges the other, as written.
Feeds(m, n) == \E j \in MergesOf(written[n]) : m \in ToSet(written[n][j].from)

Idle(n) == \A c \in DOMAIN calls : calls[c].node # n

\* The running calls go from a mapping to one it merges, and none meets another.
Chained ==
    /\ \A n \in Nodes : \A i \in MergesOf(value[n]) : \A m \in ToSet(value[n][i].from) : Feeds(m, n)
    /\ \A c \in DOMAIN calls : \A m \in ToSet(calls[c].pending) : Feeds(m, calls[c].node)
    /\ \A c, d \in DOMAIN calls : calls[c].node = calls[d].node => c = d

LEMMA HeadIsElement ==
    ASSUME NEW S, NEW s \in Seq(S), s # <<>>
    PROVE  Head(s) \in ToSet(s)
<1>1. 1 \in DOMAIN s /\ Head(s) = s[1]
  BY EmptySeq
<1>. QED
  BY <1>1 DEF ToSet

\* A source that were on the stack would close a circle of merges.
LEMMA SourceIsIdle ==
    ASSUME Inv, NothingLost, Chained, Straight(written),
           calls # <<>>, Top.pending # <<>>, Head(Top.pending) \in Nodes
    PROVE  Idle(Head(Top.pending))
<1>. SUFFICES ASSUME NEW last \in DOMAIN calls, calls[last].node = Head(Top.pending)
              PROVE  FALSE
  BY DEF Idle
<1>1. PICK k \in Nat : k = Len(calls) /\ DOMAIN calls = 1 .. k /\ calls \in Seq(Frames)
  BY DEF Inv, CallsOK
<1>2. ASSUME NEW c \in DOMAIN calls
      PROVE  calls[c].node \in Nodes /\ calls[c].pending \in Seq(Values)
  <2>1. calls[c] \in Frames
    BY <1>1
  <2>. QED
    BY <2>1 DEF Frames
<1>3. PICK S : S = {calls[c].node : c \in 1 .. last}
  OBVIOUS
<1>4. S \in SUBSET Nodes /\ S # {}
  <2>1. last \in 1 .. k /\ last \in 1 .. last /\ \A c \in 1 .. last : c \in DOMAIN calls
    BY <1>1
  <2>. QED
    BY <1>2, <1>3, <2>1
<1>5. PICK n \in S : \A i \in MergesOf(written[n]) : ToSet(written[n][i].from) \cap S = {}
  BY <1>4 DEF Straight
<1>6. PICK c \in 1 .. last : n = calls[c].node
  BY <1>3
<1>7. c \in DOMAIN calls /\ last \in 1 .. k
  BY <1>1
<1>8. ASSUME NEW m \in S, m = Head(calls[c].pending), calls[c].pending # <<>>
      PROVE  FALSE
  <2>1. m \in ToSet(calls[c].pending)
    BY <1>2, <1>7, <1>8, HeadIsElement
  <2>2. Feeds(m, n)
    BY <1>6, <1>7, <2>1 DEF Chained
  <2>. QED
    BY <1>5, <2>2 DEF Feeds
<1>9. CASE c = 1
  <2>1. Head(calls[c].pending) \in S /\ calls[c].pending # <<>>
    <3>1. last \in 1 .. last
      BY <1>7
    <3>. QED
      BY <1>3, <1>9, <3>1 DEF Top
  <2>. QED
    BY <1>8, <2>1
<1>10. CASE c # 1
  <2>1. c > 1 /\ c - 1 \in 1 .. last
    BY <1>7, <1>10
  <2>2. calls[c].pending # <<>> /\ Head(calls[c].pending) = calls[c - 1].node
    BY <1>7, <2>1 DEF Inv, CallsOK, NothingLost
  <2>3. calls[c - 1].node \in S
    BY <1>3, <2>1
  <2>. QED
    BY <1>8, <2>2, <2>3
<1>. QED
  BY <1>9, <1>10

\* Entering an idle mapping.
LEMMA FlattenChains ==
    ASSUME Inv, Chained, NEW n \in Nodes, NEW visited, Flatten(n, visited), Idle(n),
           UNCHANGED <<written, value>>
    PROVE  Chained'
<1>1. CASE calls' = calls
  BY <1>1 DEF Chained, Feeds
<1>2. CASE /\ DOMAIN calls' = 1 .. Len(calls) + 1
           /\ calls'[1] = Frame(n) /\ Frame(n) \in Frames
           /\ \A d \in DOMAIN calls' : d = 1 \/ (d - 1 \in DOMAIN calls /\ calls'[d] = calls[d - 1])
           /\ \A c \in DOMAIN calls : c + 1 \in DOMAIN calls' /\ calls'[c + 1] = calls[c]
  <2>1. Frame(n).node = n /\ ToSet(Frame(n).pending) = {}
    BY DEF Frame, ToSet
  <2>2. ASSUME NEW d \in DOMAIN calls', NEW m \in ToSet(calls'[d].pending)
        PROVE  Feeds(m, calls'[d].node)
    BY <1>2, <2>1, <2>2 DEF Chained
  <2>3. ASSUME NEW c \in DOMAIN calls', NEW d \in DOMAIN calls', calls'[c].node = calls'[d].node
        PROVE  c = d
    <3>1. c \in Int /\ d \in Int
      BY <1>2
    <3>2. CASE c = 1 /\ d # 1
      BY <1>2, <2>1, <2>3, <3>2 DEF Idle
    <3>3. CASE c # 1 /\ d = 1
      BY <1>2, <2>1, <2>3, <3>3 DEF Idle
    <3>4. CASE c # 1 /\ d # 1
      <4>1. c - 1 = d - 1
        BY <1>2, <2>3, <3>4 DEF Chained
      <4>. QED
        BY <3>1, <4>1
    <3>. QED
      BY <3>2, <3>3, <3>4
  <2>4. \A m, x : Feeds(m, x)' = Feeds(m, x)
    BY DEF Feeds
  <2>. QED
    BY <2>2, <2>3, <2>4 DEF Chained
<1>. QED
  BY <1>1, <1>2, FlattenStack

LEMMA TakeMergeChains ==
    ASSUME Inv, NothingLost, Chained, TakeMerge
    PROVE  Chained'
<1>1. PICK t \in Frames, i \in MergesOf(value[calls[1].node]) :
              /\ 1 \in DOMAIN calls /\ t = calls[1]
              /\ t.node \in Nodes /\ value[t.node] \in Seq(Entries)
              /\ value'[t.node] = RemoveAt(value[t.node], i)
              /\ \A m \in Nodes : m # t.node => value'[m] = value[m]
              /\ DOMAIN calls' = DOMAIN calls
              /\ calls'[1].node = t.node
              /\ calls'[1].pending = value[t.node][i].from
              /\ \A c \in DOMAIN calls : c # 1 => calls'[c] = calls[c]
  BY TakeMergeStack
<1>2. \A m, x : Feeds(m, x)' = Feeds(m, x)
  BY DEF Feeds, TakeMerge
<1>3. \A c \in DOMAIN calls : calls'[c].node = calls[c].node
  BY <1>1
<1>4. ASSUME NEW x \in Nodes, NEW j \in MergesOf(value'[x]), NEW m \in ToSet(value'[x][j].from)
      PROVE  Feeds(m, x)
  <2>1. CASE x # t.node
    BY <1>1, <1>4, <2>1 DEF Chained
  <2>2. CASE x = t.node
    <3>1. i \in DOMAIN value[x]
      BY <1>1, <2>2 DEF MergesOf
    <3>2. PICK l \in DOMAIN value[x] : value'[x][j] = value[x][l]
      BY <1>1, <2>2, <3>1, RemoveAtElements DEF MergesOf
    <3>3. l \in MergesOf(value[x])
      BY <3>2 DEF MergesOf
    <3>. QED
      BY <1>4, <3>2, <3>3 DEF Chained
  <2>. QED
    BY <2>1, <2>2
<1>5. ASSUME NEW c \in DOMAIN calls', NEW m \in ToSet(calls'[c].pending)
      PROVE  Feeds(m, calls'[c].node)
  BY <1>1, <1>5, SMTT(30) DEF Chained
<1>. QED
  BY <1>1, <1>2, <1>3, <1>4, <1>5 DEF Chained

LEMMA ReturnChains ==
    ASSUME Inv, NothingLost, Chained, Return
    PROVE  Chained'
<1>1. PICK t \in Frames, flat \in Seq(Inherited) :
              /\ t.node \in Nodes /\ value'[t.node] = flat
              /\ \A m \in Nodes : m # t.node => value'[m] = value[m]
              /\ \A d \in DOMAIN calls' :
                    /\ d + 1 \in DOMAIN calls /\ calls'[d].node = calls[d + 1].node
                    /\ \/ d = 1 /\ \E f \in Frames :
                              /\ f = calls[2] /\ calls'[d] = Inheriting(f, flat)
                              /\ f.pending # <<>> /\ Head(f.pending) = t.node
                       \/ calls'[d] = calls[d + 1]
  BY ReturnStack
<1>2. \A m, x : Feeds(m, x)' = Feeds(m, x)
  BY DEF Feeds, Return
<1>3. ASSUME NEW x \in Nodes, NEW j \in MergesOf(value'[x]), NEW m \in ToSet(value'[x][j].from)
      PROVE  Feeds(m, x)
  <2>1. MergesOf(flat) = {}
    BY DEF MergesOf, Inherited
  <2>2. x # t.node
    BY <1>1, <1>3, <2>1
  <2>. QED
    BY <1>1, <1>3, <2>2 DEF Chained
<1>4. ASSUME NEW d \in DOMAIN calls', NEW m \in ToSet(calls'[d].pending)
      PROVE  Feeds(m, calls'[d].node)
  <2>1. d + 1 \in DOMAIN calls /\ calls'[d].node = calls[d + 1].node
    BY <1>1
  <2>2. m \in ToSet(calls[d + 1].pending)
    <3>1. CASE d = 1 /\ \E f \in Frames :
                   f = calls[2] /\ calls'[d] = Inheriting(f, flat) /\ f.pending # <<>>
      <4>1. PICK f \in Frames : f = calls[2] /\ calls'[d] = Inheriting(f, flat) /\ f.pending # <<>>
        BY <3>1
      <4>2. ToSet(Inheriting(f, flat).pending) \subseteq ToSet(f.pending)
        BY <4>1, InheritingFrames
      <4>3. calls[d + 1] = f
        BY <3>1, <4>1
      <4>. QED
        BY <1>4, <4>1, <4>2, <4>3
    <3>2. CASE calls'[d] = calls[d + 1]
      BY <1>4, <3>2
    <3>. QED
      BY <1>1, <3>1, <3>2
  <2>. QED
    BY <2>1, <2>2 DEF Chained
<1>5. ASSUME NEW c \in DOMAIN calls', NEW d \in DOMAIN calls', calls'[c].node = calls'[d].node
      PROVE  c = d
  <2>1. c + 1 \in DOMAIN calls /\ d + 1 \in DOMAIN calls /\ calls[c + 1].node = calls[d + 1].node
    BY <1>1, <1>5
  <2>2. c + 1 = d + 1
    BY <2>1 DEF Chained
  <2>3. c \in Int /\ d \in Int
    BY ReturnInv DEF Inv, CallsOK
  <2>. QED
    BY <2>2, <2>3
<1>. QED
  BY <1>2, <1>3, <1>4, <1>5 DEF Chained

LEMMA UndisturbedChains ==
    ASSUME Chained, UNCHANGED <<written, value, calls>>
    PROVE  Chained'
  BY DEF Chained, Feeds

-----------------------------------------------------------------------------
(* Flattening changes no meaning. *)

IsMeaning(M) == \A n \in Nodes : M[n] = Denotes(written[n], M)

\* What a mapping holds, with what a running call has gathered of it, gives for
\* each key what it means as written.
Explains(M) ==
    /\ \A n \in Nodes : Idle(n) => \A k \in Keys : At(M[n], k) = MeansAt(value[n], k, M)
    /\ \A c \in DOMAIN calls : \A k \in Keys :
          At(M[calls[c].node], k)
              = Or(Gathered(calls[c], k, M), MeansAt(value[calls[c].node], k, M))
    /\ \A n \in DOMAIN data : data[n] = M[n]

LEMMA InitExplains ==
    ASSUME Init, NEW M, IsMeaning(M)
    PROVE  Explains(M) /\ Chained
<1>1. value = written /\ calls = <<>> /\ DOMAIN calls = {} /\ DOMAIN data = {}
  BY DEF Init
<1>2. ASSUME NEW n \in Nodes, NEW k \in Keys
      PROVE  At(M[n], k) = MeansAt(value[n], k, M)
  <2>1. written[n] \in Seq(Entries)
    BY DocumentAssumption DEF Init
  <2>. QED
    BY <1>1, <2>1, DenotesAt DEF IsMeaning
<1>3. \A n \in Nodes : \A i \in MergesOf(value[n]) : \A m \in ToSet(value[n][i].from) : Feeds(m, n)
  BY <1>1 DEF Feeds
<1>. QED
  BY <1>1, <1>2, <1>3 DEF Explains, Chained

\* A mapping that is entered has gathered nothing yet.
LEMMA FlattenExplains ==
    ASSUME Inv, NEW M, Explains(M), NEW n \in Nodes, NEW visited, Flatten(n, visited), Idle(n),
           UNCHANGED <<value, data>>
    PROVE  Explains(M)'
<1>1. CASE calls' = calls
  BY <1>1 DEF Explains, Idle
<1>2. CASE /\ DOMAIN calls' = 1 .. Len(calls) + 1
           /\ calls'[1] = Frame(n) /\ Frame(n) \in Frames
           /\ \A d \in DOMAIN calls' : d = 1 \/ (d - 1 \in DOMAIN calls /\ calls'[d] = calls[d - 1])
           /\ \A c \in DOMAIN calls : c + 1 \in DOMAIN calls' /\ calls'[c + 1] = calls[c]
  <2>1. ASSUME NEW x \in Nodes, Idle(x)'
        PROVE  Idle(x)
    BY <1>2, <2>1 DEF Idle
  <2>2. Frame(n).node = n
    BY DEF Frame
  <2>3. ASSUME NEW k \in Keys
        PROVE  Gathered(Frame(n), k, M) = <<>>
    BY NothingGives, OrLaws DEF Gathered, Frame
  <2>4. ASSUME NEW d \in DOMAIN calls', NEW k \in Keys
        PROVE  At(M[calls'[d].node], k)
                   = Or(Gathered(calls'[d], k, M), MeansAt(value[calls'[d].node], k, M))
    <3>1. CASE d = 1
      BY <1>2, <2>2, <2>3, <3>1, OrLaws DEF Explains
    <3>2. CASE d # 1
      BY <1>2, <3>2 DEF Explains
    <3>. QED
      BY <3>1, <3>2
  <2>. QED
    BY <2>1, <2>4 DEF Explains
<1>. QED
  BY <1>1, <1>2, FlattenStack

\* The sources of the `<<` taken out give what it gave.
LEMMA TakeMergeExplains ==
    ASSUME Inv, NothingLost, Chained, NEW M, Explains(M), TakeMerge
    PROVE  Explains(M)'
<1>1. PICK t \in Frames, i \in MergesOf(value[calls[1].node]) :
              /\ 1 \in DOMAIN calls /\ t = calls[1]
              /\ t.node \in Nodes /\ t.pending = <<>> /\ t.sub = <<>>
              /\ \A j \in MergesOf(value[t.node]) : i <= j
              /\ value[t.node] \in Seq(Entries)
              /\ value'[t.node] = RemoveAt(value[t.node], i)
              /\ \A m \in Nodes : m # t.node => value'[m] = value[m]
              /\ DOMAIN calls' = DOMAIN calls
              /\ calls'[1].node = t.node /\ calls'[1].merge = t.merge /\ calls'[1].sub = <<>>
              /\ calls'[1].pending = value[t.node][i].from
              /\ \A c \in DOMAIN calls : c # 1 => calls'[c] = calls[c]
  BY TakeMergeStack
<1>2. \A c \in DOMAIN calls : calls'[c].node = calls[c].node
  BY <1>1
<1>3. data' = data
  BY DEF TakeMerge
<1>4. ASSUME NEW n \in Nodes, Idle(n)', NEW k \in Keys
      PROVE  At(M[n], k) = MeansAt(value'[n], k, M)
  <2>1. Idle(n) /\ n # t.node
    BY <1>1, <1>2, <1>4 DEF Idle
  <2>. QED
    BY <1>1, <2>1 DEF Explains
<1>5. ASSUME NEW c \in DOMAIN calls, NEW k \in Keys
      PROVE  At(M[calls'[c].node], k)
                 = Or(Gathered(calls'[c], k, M), MeansAt(value'[calls'[c].node], k, M))
  <2>1. CASE c = 1
    <3>1. PICK s, from : s \in Seq(Entries) /\ s = value[t.node] /\ from = s[i].from
      BY <1>1
    <3>2. i \in MergesOf(s) /\ \A j \in MergesOf(s) : i <= j
      BY <1>1, <3>1
    <3>3. MeansAt(s, k, M) = Or(FromAt(from, k, M), MeansAt(RemoveAt(s, i), k, M))
      BY <3>1, <3>2, FirstMerge
    <3>4. Gathered(t, k, M) = OwnAt(t.merge, k)
      BY <1>1, NothingGives, OrLaws DEF Gathered
    <3>5. Gathered(calls'[1], k, M) = Or(OwnAt(t.merge, k), FromAt(from, k, M))
      BY <1>1, <3>1, NothingGives, OrLaws DEF Gathered
    <3>6. At(M[t.node], k) = Or(Gathered(t, k, M), MeansAt(s, k, M))
      BY <1>1, <3>1 DEF Explains
    <3>7. At(M[t.node], k)
              = Or(Or(OwnAt(t.merge, k), FromAt(from, k, M)), MeansAt(RemoveAt(s, i), k, M))
      BY <3>3, <3>4, <3>6, OrLaws
    <3>. QED
      BY <1>1, <2>1, <3>1, <3>5, <3>7
  <2>2. CASE c # 1
    <3>1. calls[c].node \in Nodes /\ calls[c].node # t.node /\ calls'[c] = calls[c]
      <4>1. calls[c] \in Frames
        BY DEF Inv, CallsOK
      <4>2. calls[c].node # t.node
        BY <1>1, <2>2 DEF Chained
      <4>. QED
        BY <1>1, <2>2, <4>1, <4>2 DEF Frames
    <3>2. value'[calls[c].node] = value[calls[c].node]
      BY <1>1, <3>1
    <3>. QED
      BY <3>1, <3>2 DEF Explains
  <2>. QED
    BY <2>1, <2>2
<1>. QED
  BY <1>1, <1>3, <1>4, <1>5 DEF Explains

\* The flat mapping means what the mapping meant, to its caller and as data.
LEMMA ReturnExplains ==
    ASSUME Inv, NothingLost, Chained, NEW M, IsMeaning(M), Explains(M), Return
    PROVE  Explains(M)'
<1>1. PICK t \in Frames, flat \in Seq(Inherited) :
              /\ 1 \in DOMAIN calls /\ t = calls[1]
              /\ t.node \in Nodes /\ t.pending = <<>> /\ t.sub = <<>>
              /\ value[t.node] \in Seq(Inherited) /\ flat = t.merge \o value[t.node]
              /\ value'[t.node] = flat
              /\ \A m \in Nodes : m # t.node => value'[m] = value[m]
              /\ \A d \in DOMAIN calls' :
                    /\ d + 1 \in DOMAIN calls /\ calls'[d].node = calls[d + 1].node
                    /\ \/ d = 1 /\ \E f \in Frames :
                              /\ f = calls[2] /\ calls'[d] = Inheriting(f, flat)
                              /\ f.pending # <<>> /\ Head(f.pending) = t.node
                       \/ calls'[d] = calls[d + 1]
              /\ \A c \in DOMAIN calls : c # 1 => c - 1 \in DOMAIN calls' /\ c - 1 + 1 = c
              /\ \/ data' = data
                 \/ data' = [n \in DOMAIN data \cup {t.node} |->
                                IF n = t.node THEN Dict(flat) ELSE data[n]]
  BY ReturnStack
<1>2. ASSUME NEW s \in Seq(Inherited), NEW k \in Keys
      PROVE  MeansAt(s, k, M) = OwnAt(s, k)
  <2>1. MergesOf(s) = {}
    BY DEF MergesOf, Inherited
  <2>. QED
    BY <2>1, FlatMeans
<1>3. ASSUME NEW k \in Keys
      PROVE  At(M[t.node], k) = OwnAt(flat, k)
  <2>1. PICK own \in Seq(Inherited), merge \in Seq(Inherited) : own = value[t.node] /\ merge = t.merge
    BY <1>1 DEF Frames
  <2>2. Gathered(t, k, M) = OwnAt(merge, k)
    BY <1>1, <2>1, NothingGives, OrLaws DEF Gathered
  <2>3. MeansAt(own, k, M) = OwnAt(own, k)
    BY <1>2
  <2>4. At(M[t.node], k) = Or(Gathered(t, k, M), MeansAt(own, k, M))
    BY <1>1, <2>1 DEF Explains
  <2>5. OwnAt(merge \o own, k) = Or(OwnAt(merge, k), OwnAt(own, k))
    BY OwnConcat
  <2>. QED
    BY <1>1, <2>1, <2>2, <2>3, <2>4, <2>5
<1>4. ASSUME NEW n \in Nodes, Idle(n)', NEW k \in Keys
      PROVE  At(M[n], k) = MeansAt(value'[n], k, M)
  <2>1. CASE n = t.node
    BY <1>1, <1>2, <1>3, <2>1
  <2>2. CASE n # t.node
    <3>1. ASSUME NEW c \in DOMAIN calls
          PROVE  calls[c].node # n
      <4>1. CASE c = 1
        BY <1>1, <2>2, <4>1
      <4>2. CASE c # 1
        <5>1. c - 1 \in DOMAIN calls' /\ calls'[c - 1].node = calls[c].node
          BY <1>1, <4>2
        <5>. QED
          BY <1>4, <5>1 DEF Idle
      <4>. QED
        BY <4>1, <4>2
    <3>. QED
      BY <1>1, <2>2, <3>1 DEF Explains, Idle
  <2>. QED
    BY <2>1, <2>2
<1>5. ASSUME NEW d \in DOMAIN calls', NEW k \in Keys
      PROVE  At(M[calls'[d].node], k)
                 = Or(Gathered(calls'[d], k, M), MeansAt(value'[calls'[d].node], k, M))
  <2>1. d + 1 \in DOMAIN calls /\ calls'[d].node = calls[d + 1].node
    BY <1>1
  <2>2. PICK f \in Frames : f = calls[d + 1]
    BY <2>1 DEF Inv, CallsOK
  <2>3. f.node \in Nodes /\ f.node # t.node
    <3>1. f.node \in Nodes
      BY DEF Frames
    <3>2. d + 1 # 1
      <4>1. d \in Int /\ d # 0
        BY ReturnInv DEF Inv, CallsOK
      <4>. QED
        BY <4>1
    <3>3. f.node # t.node
      BY <1>1, <2>1, <2>2, <3>2 DEF Chained
    <3>. QED
      BY <3>1, <3>3
  <2>4. value'[f.node] = value[f.node]
    BY <1>1, <2>3
  <2>5. At(M[f.node], k) = Or(Gathered(f, k, M), MeansAt(value[f.node], k, M))
    BY <2>1, <2>2 DEF Explains
  <2>6. Gathered(calls'[d], k, M) = Gathered(f, k, M)
    <3>1. CASE d = 1 /\ \E g \in Frames :
                 /\ g = calls[2] /\ calls'[d] = Inheriting(g, flat)
                 /\ g.pending # <<>> /\ Head(g.pending) = t.node
      <4>1. /\ calls'[d] = Inheriting(f, flat)
            /\ f.pending # <<>> /\ Head(f.pending) = t.node
        BY <2>2, <3>1
      <4>2. At(M[Head(f.pending)], k) = OwnAt(flat, k)
        BY <1>3, <4>1
      <4>. QED
        BY <4>1, <4>2, InheritingGathers
    <3>2. CASE calls'[d] = calls[d + 1]
      BY <2>2, <3>2
    <3>. QED
      BY <1>1, <3>1, <3>2
  <2>. QED
    BY <2>1, <2>2, <2>4, <2>5, <2>6
<1>6. Dict(flat) = M[t.node]
  <2>1. written[t.node] \in Seq(Entries) /\ M[t.node] = Denotes(written[t.node], M)
    BY <1>1 DEF Inv, Examined, IsMeaning
  <2>2. /\ M[t.node] = [k \in DOMAIN M[t.node] |-> M[t.node][k]]
        /\ DOMAIN M[t.node] \subseteq Keys
    BY <2>1, DenotesDict, DenotesAt
  <2>3. /\ Dict(flat) = [k \in DOMAIN Dict(flat) |-> Dict(flat)[k]]
        /\ DOMAIN Dict(flat) \subseteq Keys
        /\ \A k \in Keys : At(Dict(flat), k) = OwnAt(flat, k)
    <3>1. Dict(flat) = [k \in DOMAIN Dict(flat) |-> Dict(flat)[k]]
      BY DEF Dict
    <3>. QED
      BY <3>1, DictAt
  <2>. QED
    BY <1>3, <2>2, <2>3, SameDict
<1>7. \A n \in DOMAIN data' : data'[n] = M[n]
  BY <1>1, <1>6 DEF Explains
<1>. QED
  BY <1>4, <1>5, <1>7 DEF Explains

LEMMA UndisturbedExplains ==
    ASSUME NEW M, Explains(M), UNCHANGED <<value, calls, data>>
    PROVE  Explains(M)'
  BY DEF Explains, Idle

\* The hypothesis of the theorem: what a mapping means that merges itself, by
\* whatever detour, would have to be known to tell it.
NoMergeGoesRound == \A document \in Documents : Straight(document)

WellFormed == \A n \in Nodes : ~ Malformed(n)

\* In a document of mappings whose merges do not go round each has one meaning.
LEMMA MeaningIsOne ==
    ASSUME Inv, NothingLost, NoMergeGoesRound, WellFormed
    PROVE  IsMeaning(Meaning)
<1>1. written \in [Nodes -> Seq(Entries)] /\ Straight(written)
  BY DEF Inv, Examined, NothingLost, NoMergeGoesRound
<1>2. \A n \in Nodes : \A i \in MergesOf(written[n]) : ToSet(written[n][i].from) \subseteq Nodes
  BY DEF WellFormed, Malformed
<1>3. \E f : f = [n \in Nodes |-> Denotes(written[n], f)]
  <2>1. PICK f : SolvesOn(Nodes, written, f)
    BY <1>1, <1>2, SolutionExists
  <2>2. f = [n \in Nodes |-> Denotes(written[n], f)]
    BY <2>1, Zenon DEF SolvesOn
  <2>. QED
    BY <2>2
<1>4. Meaning = [n \in Nodes |-> Denotes(written[n], Meaning)]
  BY <1>3 DEF Meaning
<1>. QED
  BY <1>4, Zenon DEF IsMeaning

\* The last of the three invariants.
MeaningKept ==
    /\ Chained
    /\ WellFormed => Explains(Meaning)

LEMMA InitKeepsMeaning ==
    ASSUME Init, NoMergeGoesRound
    PROVE  MeaningKept
<1>1. Inv /\ NothingLost
  BY InitInv, InitLosesNothing
<1>2. Chained
  <2>1. /\ DOMAIN calls = {}
        /\ \A n \in Nodes : \A i \in MergesOf(value[n]) : \A m \in ToSet(value[n][i].from) : Feeds(m, n)
    BY DEF Init, Feeds
  <2>. QED
    BY <2>1 DEF Chained
<1>3. ASSUME WellFormed
      PROVE  Explains(Meaning)
  <2>1. PICK M : M = Meaning
    OBVIOUS
  <2>2. IsMeaning(M)
    BY <1>1, <1>3, <2>1, MeaningIsOne
  <2>3. Explains(M)
    BY <2>2, InitExplains
  <2>. QED
    BY <2>1, <2>3
<1>. QED
  BY <1>2, <1>3 DEF MeaningKept

LEMMA StepKeepsMeaning ==
    ASSUME Inv, NothingLost, NoMergeGoesRound, MeaningKept, [Next]_vars
    PROVE  MeaningKept'
<1>1. written' = written
  BY DEF Next, construct_mapping, TakeMerge, Descend, Return, Finish, vars
<1>2. Straight(written) /\ Chained
  BY DEF NoMergeGoesRound, NothingLost, MeaningKept
<1>3. WellFormed' = WellFormed
  BY <1>1 DEF WellFormed, Malformed
<1>4. PICK M : M = Meaning
  OBVIOUS
<1>5. M = Meaning'
  BY <1>1, <1>4 DEF Meaning
<1>6. WellFormed => IsMeaning(M) /\ Explains(M)
  <2>1. ASSUME WellFormed PROVE IsMeaning(Meaning) /\ Explains(Meaning)
    BY <2>1, MeaningIsOne DEF MeaningKept
  <2>. QED
    BY <1>4, <2>1
<1>7. Chained' /\ (WellFormed => Explains(M)')
  <2>1. ASSUME NEW n \in Nodes, construct_mapping(n)
        PROVE  Chained' /\ (WellFormed => Explains(M)')
    <3>1. Idle(n)
      <4>1. DOMAIN calls = {}
        BY <2>1 DEF construct_mapping
      <4>. QED
        BY <4>1 DEF Idle
    <3>2. Flatten(n, {n} \cup Sources(n)) /\ UNCHANGED <<written, value, data>>
      BY <2>1 DEF construct_mapping
    <3>. QED
      BY <1>2, <1>6, <3>1, <3>2, FlattenChains, FlattenExplains
  <2>2. CASE TakeMerge
    BY <1>2, <1>6, <2>2, TakeMergeChains, TakeMergeExplains
  <2>3. CASE Descend /\ Head(Top.pending) \in Nodes /\ flatten_mapping(Head(Top.pending))
    <3>1. PICK s \in Nodes : s = Head(Top.pending)
      BY <2>3
    <3>2. Idle(s)
      BY <1>2, <2>3, <3>1, SourceIsIdle DEF Descend
    <3>3. Flatten(s, Sources(s)) /\ UNCHANGED <<written, value, data>>
      BY <2>3, <3>1 DEF Descend, flatten_mapping
    <3>. QED
      BY <1>2, <1>6, <3>2, <3>3, FlattenChains, FlattenExplains
  <2>4. CASE Return
    BY <1>2, <1>6, <2>4, ReturnChains, ReturnExplains
  <2>5. CASE UNCHANGED <<written, value, calls, data>>
    BY <1>2, <1>6, <2>5, UndisturbedChains, UndisturbedExplains
  <2>. QED
    BY <2>1, <2>2, <2>3, <2>4, <2>5 DEF Next, Descend, Finish, vars
<1>8. Explains(M)' => Explains(Meaning)'
  BY <1>5
<1>. QED
  BY <1>3, <1>7, <1>8 DEF MeaningKept

\* What a document loads as is what it means as written to PyYAML.
LoadedAsMeant == verdict = "loaded" => \A n \in DOMAIN data : data[n] = Meaning[n]

\* Scanning a mapping once, before it is first flattened, and flattening
\* mappings that others merge, in place and in whatever order, changes no
\* meaning, two `<<` that contend for a key included.
THEOREM LoaderKeepsMeanings ==
    ASSUME NoMergeGoesRound
    PROVE  Spec => []LoadedAsMeant
<1>1. Inv /\ NothingLost /\ NothingSlipsThrough /\ MeaningKept => LoadedAsMeant
  <2>. SUFFICES ASSUME Inv, NothingLost, NothingSlipsThrough, MeaningKept, verdict = "loaded"
                PROVE  \A n \in DOMAIN data : data[n] = Meaning[n]
    BY DEF LoadedAsMeant
  <2>1. WellFormed
    BY DEF NothingSlipsThrough, WellFormed
  <2>. QED
    BY <2>1 DEF MeaningKept, Explains
<1>2. Spec => []NothingLost
  BY LosesNothing
<1>3. Spec => []MeaningKept
  <2>1. Init => MeaningKept
    BY InitKeepsMeaning
  <2>2. Inv /\ NothingLost /\ MeaningKept /\ [Next]_vars => MeaningKept'
    BY StepKeepsMeaning
  <2>. QED
    BY <1>2, <2>1, <2>2, Invariance, PTL DEF Spec
<1>. QED
  BY <1>1, <1>2, <1>3, Invariance, LoaderLetsNothingThrough, PTL

\* Hence the documented meaning, wherever the documentation and PyYAML agree
\* about which of several sources comes first.
THEOREM LoaderMeansYaml ==
    ASSUME NoMergeGoesRound
    PROVE  Spec => []MergesMeanYaml
<1>1. LoadedAsMeant => MergesMeanYaml
  BY DEF LoadedAsMeant, MergesMeanYaml
<1>. QED
  BY <1>1, LoaderKeepsMeanings, PTL

=============================================================================
